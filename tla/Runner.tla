------------------------------- MODULE Runner -------------------------------
(***************************************************************************)
(* One goback command, backup or validate of app/cmd/cmd.go: loading the   *)
(* profiles, and BackupRunner.Run, RunProfile, RunWithNotify and the mails *)
(* of app/goback.  How a profile's run ends is left to the environment; it *)
(* is the subject of LocalBackup and SftpSync.                             *)
(***************************************************************************)
EXTENDS ProfileLoader

CONSTANTS
    Inputs,    \* the commands: docs is the file, or the files of the directory in
               \* walk order
    CmdFaults  \* what may happen: "readdir", "vanish", "panic", "smtp"

Commands ==
    [cmd : {"backup", "validate"}, arg : {"missing", "file", "dir"}, docs : Seq(Document)]

ASSUME CmdAssumption ==
    /\ Inputs \subseteq Commands
    /\ CmdFaults \subseteq {"readdir", "vanish", "panic", "smtp"}

VARIABLES
    input,     \* the member of Inputs
    at,        \* start, walk, load, run, notify, exit
    next,      \* the file or profile that is next
    profiles,  \* br.profiles, as positions in input.docs
    skipped,   \* the files in directories that the walk could not read
    loadErr,   \* whether LoadProfiles has met an error
    outcome,   \* how the run of each document's profile ended
    mails,     \* the mails handed to smtp.SendMail: [doc, kind, sent]
    errs,      \* whether a profile of Run has failed
    exit       \* the exit code, -1 before the end

vars == <<input, at, next, profiles, skipped, loadErr, outcome, mails, errs, exit>>

docs == input.docs
NumDocs == Len(docs)
NumProfiles == Len(profiles)

Init ==
    /\ input \in Inputs
    /\ at = "start"
    /\ next = 1
    /\ profiles = <<>>
    /\ skipped = {}
    /\ loadErr = FALSE
    /\ outcome = [i \in DOMAIN docs |-> "none"]
    /\ mails = <<>>
    /\ errs = FALSE
    /\ exit = -1

MayHappen(k) == k \in CmdFaults

\* Execute: the exit code of the process.
End(code) == at' = "exit" /\ exit' = code
Goto(l) == at' = l /\ UNCHANGED exit

\* The process ends in a Go panic.
Panic == End(2)

-----------------------------------------------------------------------------
\* backupCmd and validateCmd up to the loading: os.Stat of the argument.
Start ==
    /\ at = "start"
    /\ \/ input.arg = "missing" /\ End(1)
       \/ input.arg = "file" /\ Goto("load")
       \/ input.arg = "dir" /\ Goto("walk")
    /\ UNCHANGED <<input, next, profiles, skipped, loadErr, outcome, mails, errs>>

\* The walk of LoadProfiles.  Its function ignores the error of a directory that
\* cannot be read, whose files are missed, and dereferences the nil info of a
\* file that has just gone.
Walk ==
    /\ at = "walk"
    /\ \/ /\ skipped' \in IF MayHappen("readdir") THEN SUBSET DOMAIN docs ELSE {{}}
          /\ Goto("load")
       \/ MayHappen("vanish") /\ Panic /\ UNCHANGED skipped
    /\ UNCHANGED <<input, next, profiles, loadErr, outcome, mails, errs>>

\* The walk collects the files with the suffix .backup.yaml only.
Collected(i) == i \notin skipped /\ (input.arg = "dir" => docs[i].suffix = "profile")

\* LoadProfile of the next file; LoadProfiles goes on after an error.
LoadNext ==
    /\ at = "load" /\ next <= NumDocs
    /\ next' = next + 1
    /\ \/ ~Collected(next) /\ UNCHANGED <<profiles, loadErr>>
       \/ /\ Collected(next) /\ LoadProfile(docs[next])
          /\ profiles' = Append(profiles, next)
          /\ UNCHANGED loadErr
       \/ /\ Collected(next) /\ ~LoadProfile(docs[next])
          /\ loadErr' = TRUE
          /\ UNCHANGED profiles
    /\ UNCHANGED <<input, at, skipped, outcome, mails, errs, exit>>

\* backupFromFile and backupFromDir return a load error, or Run begins.
Loaded ==
    /\ at = "load" /\ next = NumDocs + 1
    /\ input.cmd = "backup"
    /\ \/ loadErr /\ End(1) /\ UNCHANGED next
       \/ ~loadErr /\ Goto("run") /\ next' = 1
    /\ UNCHANGED <<input, profiles, skipped, loadErr, outcome, mails, errs>>

\* validateSingle and validateDir are done.
Validated ==
    /\ at = "load" /\ next = NumDocs + 1
    /\ input.cmd = "validate"
    /\ End(IF loadErr THEN 1 ELSE 0)
    /\ UNCHANGED <<input, next, profiles, skipped, loadErr, outcome, mails, errs>>

\* RunProfile of the next profile: the runner function of its type returns, or
\* panics.
RunProfile ==
    /\ at = "run" /\ next <= NumProfiles
    /\ \E o \in {"ok", "failed", "panicked"} :
         /\ outcome' = [outcome EXCEPT ![profiles[next]] = o]
         /\ \/ o # "panicked" /\ Goto("notify")
            \/ o = "panicked" /\ MayHappen("panic") /\ Panic
    /\ UNCHANGED <<input, next, profiles, skipped, loadErr, mails, errs>>

\* The mails RunWithNotify sends.  Mutant: a failure needs onSuccess too.
MailDue_OnSuccessOnly(i) == HasValues(docs[i]) /\ docs[i].onSuccess
MailDue(i) == HasValues(docs[i]) /\ (outcome[i] = "failed" \/ docs[i].onSuccess)

\* The loop of Run.  Mutants: it ends with a failure; it does not go on.
NextProfile_StopsAfterFailure(i) ==
    next' = IF outcome[i] = "failed" THEN NumProfiles + 1 ELSE next + 1
NextProfile_Stays(i) == UNCHANGED next
NextProfile(i) == next' = next + 1

\* NotifySuccess or NotifyFailure: smtp.SendMail is called, and may fail.
Send(i, kind) ==
    \E sent \in {TRUE} \cup {~MayHappen("smtp")} :
      mails' = Append(mails, [doc |-> i, kind |-> kind, sent |-> sent])

\* RunWithNotify after the run, and Run's handling of its error.  That a mail
\* cannot be sent is only logged.
Notify ==
    LET i == profiles[next]
    IN  /\ at = "notify"
        /\ \/ ~MailDue(i) /\ UNCHANGED mails
           \/ MailDue(i) /\ Send(i, IF outcome[i] = "failed" THEN "failure" ELSE "success")
        /\ errs' = (errs \/ outcome[i] = "failed")
        /\ NextProfile(i)
        /\ Goto("run")
        /\ UNCHANGED <<input, profiles, skipped, loadErr, outcome>>

\* Mutant: Run forgets the errors.
Finish_IgnoresErrors ==
    /\ at = "run" /\ next = NumProfiles + 1
    /\ End(0)
    /\ UNCHANGED <<input, next, profiles, skipped, loadErr, outcome, mails, errs>>

\* Run returns, and Execute with it.
Finish ==
    /\ at = "run" /\ next = NumProfiles + 1
    /\ End(IF errs THEN 1 ELSE 0)
    /\ UNCHANGED <<input, next, profiles, skipped, loadErr, outcome, mails, errs>>

Next == Start \/ Walk \/ LoadNext \/ Loaded \/ Validated \/ RunProfile \/ Notify \/ Finish

Spec == Init /\ [][Next]_vars

\* The command is one thread and every call returns.
FairSpec == Spec /\ WF_vars(Next)

-----------------------------------------------------------------------------
\* Exit code 0 means that every profile file the command was called on, and could
\* see, was loaded and, by backup, run with success; crontabs see nothing else.
ExitCodeHonest ==
    exit = 0 => \A i \in DOMAIN docs : Collected(i) =>
                  /\ \E k \in DOMAIN profiles : profiles[k] = i
                  /\ input.cmd = "backup" => outcome[i] = "ok"

\* The files the command could see and LoadProfile rejects.
Rejected == {i \in DOMAIN docs : Collected(i) /\ ~LoadProfile(docs[i])}

\* When backup returns, either every profile file it could see has been run to its
\* end, whatever became of the ones before it ("Run executes all the profiles
\* loaded"), or one of them is rejected and then nothing at all has been run, nor
\* mailed, and the exit code says so: a broken file stops the valid ones beside it
\* (the TODO of backupFromDir).
AllOrNoneRun ==
    exit \in {0, 1} /\ input.cmd = "backup" /\ input.arg # "missing" =>
      /\ Rejected = {} =>
           \A i \in DOMAIN docs : Collected(i) => outcome[i] \in {"ok", "failed"}
      /\ Rejected # {} =>
           exit = 1 /\ mails = <<>> /\ \A i \in DOMAIN docs : outcome[i] = "none"

\* The positions of the mails about document i.
MailsOf(i) == {k \in DOMAIN mails : mails[k].doc = i}

\* A failure is due a mail, and a success if that was asked for.
Wanted(i) ==
    /\ docs[i].notify = NotifyFields
    /\ outcome[i] = "failed" \/ (outcome[i] = "ok" /\ docs[i].onSuccess)

\* RunWithNotify has handed over one mail of the right kind, or none.
MailsRight(i) ==
    /\ Wanted(i) => \E k \in DOMAIN mails : MailsOf(i) = {k}
    /\ ~Wanted(i) => MailsOf(i) = {}
    /\ \A k \in MailsOf(i) : mails[k].kind = "failure" <=> outcome[i] = "failed"

\* At the end RunWithNotify has, per profile with a full notify section, handed
\* over one mail of the right kind for a failure, and for a success if it was
\* asked to; no other mail.  A mail that could not be sent changes nothing else.
MailsMatchOutcomes == exit \in {0, 1} => \A i \in DOMAIN docs : MailsRight(i)

\* What the other modules take for granted of a profile that is run: its type is
\* one RunProfile knows, a local or remote one has something to back up
\* (LocalBackup's Items), a sync has a name for each directory (SftpSync's dirs),
\* and an ssh connection has a host and a port.
LoadedMeetsAssumptions ==
    \A k \in DOMAIN profiles :
      LET doc == docs[profiles[k]]
      IN  /\ doc.type \in ProfileTypes /\ doc.name
          /\ doc.type # "sftpsync" => Len(doc.dirs) + Len(doc.dbs) > 0
          /\ doc.type = "sftpsync" => \A i \in DOMAIN doc.dirs : doc.dirs[i].name
          /\ doc.type # "local" => doc.host /\ SshPort(doc) # 0

\* The command ends.
CommandEnds == <>(at = "exit")
=============================================================================
