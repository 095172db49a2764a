---------------------------- MODULE MCPullSystem ----------------------------
(***************************************************************************)
(* One profile backed up by a weekly crontab entry with one archive to     *)
(* keep, pulled by a host that keeps as many or more.                      *)
(***************************************************************************)
EXTENDS PullSystem, TLC

CONSTANTS weekly, home

MCNames == {1}
MCMatches == 1 :> {1}
MCNameOf == home :> 1
MCItems == home :> 1
MCDbs == home :> 0
KeepOne == home :> 1
KeepTwo == home :> 2
MCRunsOf == weekly :> {home}
PullTwo == {[dirs |-> <<1>>, keep |-> 2]}
First == {[name |-> 1, stamp |-> 0]}
=============================================================================
