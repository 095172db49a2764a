--------------------------- MODULE MCRemoteBackup ---------------------------
(***************************************************************************)
(* A local profile, run by one crontab entry, and remote profiles of every *)
(* kind of authentication, run by another, with one destination directory. *)
(***************************************************************************)
EXTENDS RemoteBackup, TLC

CONSTANTS weekly, home

MCNames == {1}
MCMatches == 1 :> {1}
MCNameOf == home :> 1
MCKeep == home :> 1
MCItems == home :> 1
MCDbs == home :> 0
MCRunsOf == weekly :> {home}
AllAuth == {"password", "sshkey", "sshagent"}
First == {[name |-> 1, stamp |-> 0]}
NoArchives == {}
=============================================================================
