---------------------------- MODULE BackupItems ----------------------------
(***************************************************************************)
(* The loop that backupLocal and backupRemote of app/goback/goback.go have *)
(* in common: a zip handler is opened, the directories of the profile and  *)
(* then its databases are copied into it, and it is closed.  CopyWalk has  *)
(* the steps of a directory, DbDump those of a database, and Sources puts  *)
(* them together.                                                          *)
(***************************************************************************)
EXTENDS Naturals, Sequences, FiniteSets

CONSTANTS
    BackupProfiles,   \* what is backed up: directories, then databases
    SourceFaults      \* the operations that may fail by themselves

SourceFaultKinds ==
    {"stat", "sftp", "readdir", "read", "close", "zip", "which", "header", "cnf",
     "session", "start", "exec", "write", "inspect", "link"}

ASSUME SourcesAssumption ==
    /\ SourceFaults \subseteq SourceFaultKinds
    /\ \A q \in BackupProfiles :
         /\ q.remote \in BOOLEAN
         /\ q.dbs \in Seq([id : STRING, tool : {"mysql", "pg", "unknown"},
                            docker : BOOLEAN, login : BOOLEAN])
         /\ Len(q.dirs) + Len(q.dbs) > 0

VARIABLES
    prfl,      \* the profile
    item,      \* how many of its directories and databases have been copied
    pc,        \* where the process is
    entries,   \* the sources that have an entry in the zip
    whole,     \* the sources of which all content is in the zip
    zip,       \* zip.Handler.isOpen
    result,    \* what backupLocal or backupRemote returned
    faulted    \* whether an operation failed by itself

itemVars == <<prfl, item, pc, entries, whole, zip, result, faulted>>

NumDirs == Len(prfl.dirs)
NumDbs == Len(prfl.dbs)
NumItems == NumDirs + NumDbs
CurrentDir == prfl.dirs[item + 1]
CurrentDb == prfl.dbs[item + 1 - NumDirs]
CopyingDir == item < NumDirs

\* Where the process is: in the loops, in copyLocalFiles or copyRemoteFiles, in
\* backupLocalDatabase or backupRemoteDatabase, or back in the caller.
DirLocations == {"root", "walk", "add"}
DbLocations == {"entry", "bin", "start", "copy", "wait"}
Places == {"next", "done"} \cup DirLocations \cup DbLocations

-----------------------------------------------------------------------------
Goto(l) == pc' = l /\ UNCHANGED <<result, faulted>>

\* An error is returned through to the caller; the zip handler is not closed.
ReturnErr == pc' = "done" /\ result' = "failed" /\ UNCHANGED faulted

\* The same, because operation k failed by itself.
Faulty(k) == k \in SourceFaults /\ pc' = "done" /\ result' = "failed" /\ faulted' = TRUE

ItemDone == item' = item + 1 /\ Goto("next")

ItemsInit ==
    /\ prfl \in BackupProfiles
    /\ item = 0
    /\ pc = "next"
    /\ entries = {} /\ whole = {}
    /\ zip = "open"
    /\ result = "none"
    /\ faulted = FALSE

\* The next pass of one of the two loops.
NextItem ==
    /\ pc = "next"
    /\ item < NumItems
    /\ Goto(IF CopyingDir THEN "root" ELSE "entry")
    /\ UNCHANGED <<prfl, item, entries, whole, zip>>

\* Mutant: the zip is closed after the directories.
CloseZip_Early ==
    /\ pc = "next"
    /\ ~CopyingDir
    /\ zip' = "closed"
    /\ pc' = "done" /\ result' = "ok"
    /\ UNCHANGED <<prfl, item, entries, whole, faulted>>

\* zipHandler.Close at the end of both functions.
CloseZip ==
    /\ pc = "next"
    /\ item = NumItems
    /\ zip' = "closed"
    /\ pc' = "done" /\ result' = "ok"
    /\ UNCHANGED <<prfl, item, entries, whole, faulted>>
=============================================================================
