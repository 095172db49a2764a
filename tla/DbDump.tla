------------------------------- MODULE DbDump -------------------------------
(***************************************************************************)
(* A database is dumped into the zip: backupLocalDatabase and              *)
(* backupRemoteDatabase of app/goback/goback.go with the handlers of       *)
(* lib/mysqldump and lib/pgdump, which run mysqldump or pg_dump here, in a *)
(* container, over ssh, or in a container over ssh.                        *)
(*                                                                         *)
(* The dump command is a process of its own.  It writes Size chunks into a *)
(* pipe, and its output and the process may end in any state.              *)
(***************************************************************************)
EXTENDS BackupItems

CONSTANTS
    Size,          \* the chunks of a complete dump
    PipeSize,      \* how many of them the pipe or the ssh window holds
    ExitRecorded   \* docker has an exec's exit code by the end of its output

ASSUME DumpAssumption ==
    /\ Size \in Nat \ {0} /\ PipeSize \in Nat \ {0}
    /\ ExitRecorded \in BOOLEAN

VARIABLES
    via,     \* where the dump command runs
    bin,     \* the handler's binPath: a path, the empty string, or not a path
    proc,    \* the dump command
    wrote,   \* the chunks it has written
    eof,     \* whether it has closed its output
    got,     \* the chunks copied into the zip
    reader,  \* whether the other end of its output is open
    link     \* the connection to the ssh server or the docker daemon

dumpVars == <<via, bin, proc, wrote, eof, got, reader, link>>

DumpInit ==
    /\ via = "local" /\ bin = "none" /\ proc = "none"
    /\ wrote = 0 /\ got = 0
    /\ eof = FALSE /\ reader = FALSE /\ link = TRUE

\* The four packages of handlers.
Via(db) ==
    IF prfl.remote THEN IF db.docker THEN "sshdocker" ELSE "ssh"
                   ELSE IF db.docker THEN "docker" ELSE "local"

-----------------------------------------------------------------------------
\* The switch on db.Type, and FileWriter.
OpenEntry ==
    LET db == CurrentDb
    IN  /\ pc = "entry"
        /\ \/ /\ db.tool # "unknown"
              /\ entries' = entries \cup {<<"db", db.id>>}
              /\ Goto("bin")
           \/ db.tool = "unknown" /\ ReturnErr /\ UNCHANGED entries
           \/ db.tool # "unknown" /\ Faulty("zip") /\ UNCHANGED entries
        /\ via' = Via(db)
        /\ bin' = "none" /\ proc' = "none"
        /\ wrote' = 0 /\ got' = 0
        /\ eof' = FALSE /\ reader' = FALSE
        /\ UNCHANGED <<prfl, item, whole, zip, link>>

\* The path of the dump command has been found, or taken for found.
Found(b) == bin' = b /\ Goto("start")
FoundAnyway(b) == bin' = b /\ pc' = "start" /\ faulted' = TRUE /\ UNCHANGED result

\* NewLocal: LookPath, and the configuration files where the profile does not
\* give both user and password.
NewLocal ==
    /\ via = "local"
    /\ Found("found") \/ ((Faulty("which") \/ (~CurrentDb.login /\ Faulty("cnf"))) /\ UNCHANGED bin)

\* GetDockerBinPath of mysqldump: where which finds nothing, the path is the empty
\* string and no error is returned.
MysqlDockerBinPath ==
    /\ CurrentDb.tool = "mysql"
    /\ Found("found") \/ ("which" \in SourceFaults /\ FoundAnyway("empty"))

\* GetDockerBinPath of pgdump: where which finds nothing, there is no header to
\* read.  The Read of the header may return less than all of it, and what is left
\* becomes part of the path.
PgDockerBinPath ==
    /\ CurrentDb.tool = "pg"
    /\ \/ Found("found")
       \/ Faulty("which") /\ UNCHANGED bin
       \/ "header" \in SourceFaults /\ FoundAnyway("garbled")

\* The docker client is made, and the path asked for in an exec of its own.
DockerBinPath ==
    /\ via = "docker"
    /\ \/ link /\ (MysqlDockerBinPath \/ PgDockerBinPath)
       \/ ((~link /\ ReturnErr) \/ Faulty("exec")) /\ UNCHANGED bin

\* GetRemoteBinPath: a session for the which command.
RemoteBinPath ==
    /\ via = "ssh"
    /\ \/ link /\ Found("found")
       \/ /\ (~link /\ ReturnErr) \/ Faulty("session") \/ Faulty("which") \/ Faulty("close")
          /\ UNCHANGED bin

\* GetSshDockerBinPath: a session each for which docker and for which in the
\* container.  An error of closing them is dropped.
SshDockerBinPath ==
    /\ via = "sshdocker"
    /\ \/ link /\ Found("found")
       \/ ((~link /\ ReturnErr) \/ Faulty("session") \/ Faulty("which")) /\ UNCHANGED bin

FindBin ==
    /\ pc = "bin"
    /\ NewLocal \/ DockerBinPath \/ RemoteBinPath \/ SshDockerBinPath
    /\ UNCHANGED <<prfl, item, entries, whole, zip, via, proc, wrote, eof, got, reader, link>>

\* Run of a local handler does not begin: the binary has gone, or StdoutPipe or
\* Start fails, after which Process is nil and Kill panics.
LocalNotStarted ==
    /\ via = "local"
    /\ \/ Faulty("which")
       \/ /\ "start" \in SourceFaults
          /\ pc' = "done" /\ result' = "panicked" /\ faulted' = TRUE

\* The exec is not made, with or without a password, or not attached to.
DockerNotStarted == via = "docker" /\ ((~link /\ ReturnErr) \/ Faulty("exec"))

RemoteNotStarted ==
    via = "ssh" /\ ((~link /\ ReturnErr) \/ Faulty("session") \/ Faulty("start"))

\* docker is looked for once more, in another session.
SshDockerNotStarted ==
    /\ via = "sshdocker"
    /\ (~link /\ ReturnErr) \/ Faulty("session") \/ Faulty("which") \/ Faulty("start")

\* Run up to the copying.  A path that is none makes an exec that has failed.
StartDump ==
    /\ pc = "start"
    /\ \/ /\ via = "local" \/ link
          /\ proc' = IF bin = "found" THEN "running" ELSE "bad"
          /\ eof' = (bin # "found")
          /\ reader' = TRUE
          /\ Goto("copy")
       \/ /\ LocalNotStarted \/ DockerNotStarted \/ RemoteNotStarted \/ SshDockerNotStarted
          /\ UNCHANGED <<proc, eof, reader>>
    /\ UNCHANGED <<prfl, item, entries, whole, zip, via, bin, wrote, got, link>>

\* What becomes of the command when the handler gives up on it: a child is
\* killed, elsewhere the stream is closed.  Mutant: the child is left alone.
Abandon_NoKill == UNCHANGED <<proc, reader>>
Abandon ==
    /\ proc' = IF via = "local" /\ proc = "running" THEN "killed" ELSE proc
    /\ reader' = FALSE

\* Mutant: the handler waits for the command before it reads its output.
Readable_AtExit == got < wrote /\ proc # "running"
Readable == got < wrote

\* io.Copy and StdCopy: a chunk, a write that fails, or the end of the output,
\* as which a lost connection appears too.
CopyDump ==
    /\ pc = "copy"
    /\ \/ /\ Readable
          /\ got' = got + 1 /\ Goto("copy") /\ UNCHANGED <<proc, reader>>
       \/ /\ Readable
          /\ Faulty("write") /\ Abandon /\ UNCHANGED got
       \/ /\ (eof /\ got = wrote) \/ ~link
          /\ Goto("wait") /\ UNCHANGED <<got, proc, reader>>
    /\ UNCHANGED <<prfl, item, entries, whole, zip, via, bin, wrote, eof, link>>

\* What Wait returns once the command has ended, and what the inspection of an
\* exec finds without waiting: the exit code of a running one is 0.
\* Mutant: the end of the output is enough.
ExitOk_Unasked == link
ExitOk == link /\ (proc = "ok" \/ (via = "docker" /\ proc = "running"))
ExitBad == ~link \/ proc = "bad"

\* Wait or ContainerExecInspect, and what is closed on return: the docker client
\* or the session, whose error is returned.
WaitDump ==
    /\ pc = "wait"
    /\ \/ ExitOk /\ ItemDone /\ whole' = IF got = Size THEN whole \cup {<<"db", CurrentDb.id>>}
                                                       ELSE whole
       \/ /\ \/ ExitBad /\ ReturnErr
             \/ via = "docker" /\ (Faulty("inspect") \/ Faulty("close"))
             \/ via \in {"ssh", "sshdocker"} /\ proc # "running" /\ Faulty("close")
          /\ UNCHANGED <<item, whole>>
    /\ reader' = FALSE
    /\ UNCHANGED <<prfl, entries, zip, via, bin, proc, wrote, eof, got, link>>

DumpStep == OpenEntry \/ FindBin \/ StartDump \/ CopyDump \/ WaitDump

-----------------------------------------------------------------------------
\* The dump command (external).  A full pipe blocks it; in a container without a
\* reader its output is thrown away, elsewhere its writing then fails.
Emit ==
    /\ proc = "running" /\ ~eof /\ wrote < Size
    /\ \/ (via = "docker" /\ (~reader \/ ~link)) \/ (reader /\ link /\ wrote - got < PipeSize)
    /\ wrote' = wrote + 1
    /\ UNCHANGED <<itemVars, via, bin, proc, eof, got, reader, link>>

\* It ends as it should.
Complete ==
    /\ proc = "running" /\ wrote = Size
    /\ proc' = "ok" /\ eof' = TRUE
    /\ UNCHANGED <<itemVars, via, bin, wrote, got, reader, link>>

\* It cannot write, or has closed its output too early.
GiveUp ==
    /\ proc = "running" /\ wrote < Size
    /\ eof \/ (via # "docker" /\ (~reader \/ ~link))
    /\ proc' = "bad" /\ eof' = TRUE
    /\ UNCHANGED <<itemVars, via, bin, wrote, got, reader, link>>

\* It fails for a reason of its own: a lost database, a signal.
Fail ==
    /\ proc = "running"
    /\ proc' = "bad" /\ eof' = TRUE
    /\ UNCHANGED <<itemVars, via, bin, wrote, got, reader, link>>

\* It closes its output before it ends, or docker ends the stream before it has
\* recorded the end.
CloseOutput ==
    /\ proc = "running" /\ ~eof
    /\ via = "docker" => ~ExitRecorded
    /\ eof' = TRUE
    /\ UNCHANGED <<itemVars, via, bin, proc, wrote, got, reader, link>>

Command == Emit \/ Complete \/ GiveUp

\* The connection is lost while a dump uses it.
LinkLost ==
    /\ "link" \in SourceFaults
    /\ pc \in {"bin", "start", "copy", "wait"} /\ via # "local" /\ link
    /\ link' = FALSE /\ faulted' = TRUE
    /\ UNCHANGED <<prfl, item, pc, entries, whole, zip, result, via, bin, proc, wrote, eof, got, reader>>
=============================================================================
