--------------------------- MODULE MCLocalBackup ---------------------------
(***************************************************************************)
(* Small instances of LocalBackup.  Two crontab entries write into one     *)
(* directory, as zarf/cron_weekly.sh and zarf/cron_monthly.sh do when both *)
(* are due.  Name 3 is that of a profile neither runs any more, or of one  *)
(* whose name is not a valid pattern.                                      *)
(***************************************************************************)
EXTENDS LocalBackup, TLC

CONSTANTS weekly, monthly, home, mail, odd

MCNames == 1 .. 3
Plain == [n \in MCNames |-> {n}]

MCNameOf == home :> 1 @@ mail :> 2 @@ odd :> 3
MCKeep == home :> 1 @@ mail :> 2 @@ odd :> 1
MCItems == home :> 1 @@ mail :> 2 @@ odd :> 1
MCDbs == home :> 0 @@ mail :> 1 @@ odd :> 0

\* each process its own profiles
Apart == weekly :> {home} @@ monthly :> {mail}
ApartOdd == weekly :> {home, odd} @@ monthly :> {mail}

ArchivesOf(n, S) == [name : {n}, stamp : S]
Few == ArchivesOf(1, {1}) \cup ArchivesOf(2, {1})
Old == ArchivesOf(1, {0, 1}) \cup ArchivesOf(2, {0, 1}) \cup ArchivesOf(3, {1})
=============================================================================
