--------------------------- MODULE ProfileLoader ---------------------------
(***************************************************************************)
(* The loading of profile files: internal/profile/profile.go.  A document  *)
(* is what the checks can tell of a file; an accepted one becomes a        *)
(* profile.  Which of several errors is reported is left out.              *)
(***************************************************************************)
EXTENDS Integers, Sequences

ProfileTypes == {"local", "remote", "sftpsync"}
ConnTypes == {"password", "sshkey", "sshagent"}
DbTypes == {"mysql", "dockermysql", "mariadb", "dockermariadb", "postgres",
            "dockerpostgres"}
NotifyFields == {"host", "port", "user", "password", "from", "to"}

\* What the checks tell of a file: whether ReadFile and yaml.Unmarshal succeed,
\* types as written, in lower case, "" where missing, the port 0 where missing,
\* and of what is only tested for presence or for compiling whether it passes.
Document ==
    [suffix : {"profile", "yaml", "other"},    \* .backup.yaml, .yaml
     readable : BOOLEAN, parses : BOOLEAN,
     version : Int, type : STRING, sshType : STRING,
     name : BOOLEAN, host : BOOLEAN, port : Int,
     dirs : Seq([path : BOOLEAN, name : BOOLEAN, globs : BOOLEAN]),
     dbs : Seq([type : STRING, container : BOOLEAN]),
     notify : SUBSET NotifyFields, onSuccess : BOOLEAN]

\* createProfile
ProfileCreated(doc) == doc.type \in ProfileTypes /\ doc.name

\* validateSshConfig, and the port it leaves in the profile
SshValid(doc) ==
    doc.type \in {"remote", "sftpsync"} => doc.sshType \in ConnTypes /\ doc.host
SshPort(doc) ==
    IF doc.type \in {"remote", "sftpsync"} /\ doc.port = 0 THEN 22 ELSE doc.port

\* validateBackupTargets.  Mutant: not checked.
HasTargets_Unchecked(doc) == TRUE
HasTargets(doc) ==
    doc.type \in {"local", "remote"} => doc.dirs # <<>> \/ doc.dbs # <<>>

\* processDirectories
DirectoriesValid(doc) ==
    \A i \in DOMAIN doc.dirs :
      /\ doc.dirs[i].globs
      /\ doc.dirs[i].path
      /\ doc.type = "sftpsync" => doc.dirs[i].name

\* processDatabases
DatabasesValid(doc) ==
    \A i \in DOMAIN doc.dbs :
      doc.dbs[i].type \in {"dockerpostgres", "dockermysql"} => doc.dbs[i].container

\* loadProfileV1
loadProfileV1(doc) ==
    /\ ProfileCreated(doc)
    /\ SshValid(doc)
    /\ HasTargets(doc)
    /\ DirectoriesValid(doc)
    /\ DatabasesValid(doc)

\* LoadProfile returns a profile and no error.
LoadProfile(doc) ==
    /\ doc.suffix \in {"profile", "yaml"}
    /\ doc.readable
    /\ doc.parses
    /\ doc.version = 1
    /\ loadProfileV1(doc)

\* EmailNotify.HasValues.
HasValues(doc) == doc.notify = NotifyFields
=============================================================================
