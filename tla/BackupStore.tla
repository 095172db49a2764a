---------------------------- MODULE BackupStore ----------------------------
(***************************************************************************)
(* What a directory of goback archives promises its owner.  The store is   *)
(* the set of restorable archives; each carries the profile name and the   *)
(* time stamp that getZipName puts in the file name.  An archive is        *)
(* published newer than everything the profile already has, and an archive *)
(* goes away only while the profile keeps a newer one: the most recent     *)
(* restorable archive of a profile is never lost.                          *)
(***************************************************************************)
EXTENDS Naturals

CONSTANT Archive      \* all archives: records with fields name and stamp

VARIABLE store        \* the archives that can be restored

\* g was made for the same profile as f, later
Newer(g, f) == g.name = f.name /\ g.stamp > f.stamp

Init == store \subseteq Archive

Publish(f) ==
    /\ \A g \in store : g.name = f.name => Newer(f, g)
    /\ store' = store \cup {f}

Purge(f) ==
    /\ \E g \in store : Newer(g, f)
    /\ store' = store \ {f}

Next == \E f \in Archive : Publish(f) \/ Purge(f)

Spec == Init /\ [][Next]_store
=============================================================================
