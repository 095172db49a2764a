------------------------------ MODULE MCRunner ------------------------------
(***************************************************************************)
(* Commands on a single file, with every document that one deviation from  *)
(* a valid one of each type gives, and on directories of up to three       *)
(* files.                                                                  *)
(***************************************************************************)
EXTENDS Runner, FiniteSets, TLC

GoodDir == [path |-> TRUE, name |-> TRUE, globs |-> TRUE]
Dir == [path : BOOLEAN, name : BOOLEAN, globs : BOOLEAN]
Db == [type : DbTypes \cup {"unknown"}, container : BOOLEAN]

Valid(t) ==
    [suffix |-> "profile", readable |-> TRUE, parses |-> TRUE, version |-> 1, type |-> t,
     sshType |-> "sshkey", name |-> TRUE, host |-> TRUE, port |-> 0,
     dirs |-> <<GoodDir>>, dbs |-> <<>>, notify |-> NotifyFields, onSuccess |-> FALSE]

\* A document with one field replaced, then the targets.
Deviations(doc) ==
    {[doc EXCEPT !.suffix = x] : x \in {"profile", "yaml", "other"}} \cup
    {[doc EXCEPT !.readable = x] : x \in BOOLEAN} \cup
    {[doc EXCEPT !.parses = x] : x \in BOOLEAN} \cup
    {[doc EXCEPT !.version = x] : x \in 0 .. 2} \cup
    {[doc EXCEPT !.type = x] : x \in ProfileTypes \cup {"", "unknown"}} \cup
    {[doc EXCEPT !.sshType = x] : x \in ConnTypes \cup {"", "unknown"}} \cup
    {[doc EXCEPT !.name = x] : x \in BOOLEAN} \cup
    {[doc EXCEPT !.host = x] : x \in BOOLEAN} \cup
    {[doc EXCEPT !.notify = x] : x \in SUBSET NotifyFields} \cup
    {[doc EXCEPT !.onSuccess = x] : x \in BOOLEAN} \cup
    {[doc EXCEPT !.dirs = x, !.dbs = y] :
        x \in {<<>>} \cup {<<e>> : e \in Dir} \cup {<<GoodDir, e>> : e \in Dir},
        y \in {<<>>} \cup {<<e>> : e \in Db}}

BothCommands == {"backup", "validate"}
Files == [cmd : BothCommands, arg : {"file"},
          docs : {<<doc>> : doc \in UNION {Deviations(Valid(t)) : t \in ProfileTypes}}]

\* In directories: profiles with and without mails, a broken one, a stray file.
Quiet == [Valid("local") EXCEPT !.notify = {}]
Chatty == [Valid("sftpsync") EXCEPT !.onSuccess = TRUE]
NoFrom == [Valid("remote") EXCEPT !.notify = NotifyFields \ {"from"}]
Broken == [Valid("local") EXCEPT !.version = 2]
Stray == [Valid("local") EXCEPT !.suffix = "yaml"]
DirDocs == {Valid("local"), Quiet, Chatty, NoFrom, Broken, Stray}
Directories ==
    [cmd : BothCommands, arg : {"dir"}, docs : UNION {[1 .. n -> DirDocs] : n \in 0 .. 3}]
Missing == [cmd : BothCommands, arg : {"missing"}, docs : {<<>>}]

AllInputs == Files \cup Directories \cup Missing
=============================================================================
