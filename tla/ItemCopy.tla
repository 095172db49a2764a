------------------------------ MODULE ItemCopy ------------------------------
(***************************************************************************)
(* What LocalBackup takes the copying of a profile's directories and       *)
(* databases to be: items are added one by one, the directories first; an  *)
(* item may fail, a database may also end the process; and the zip is      *)
(* closed only when it has all of every item.                              *)
(***************************************************************************)
EXTENDS Naturals

VARIABLES
    left,    \* items still to be copied
    dbs,     \* how many of the profile's items are databases
    state,   \* copying, closed, failed or dead
    whole    \* whether all that has been added so far is complete

copyVars == <<left, dbs, state, whole>>

Init ==
    /\ dbs \in Nat
    /\ left \in Nat \ {0} /\ left >= dbs
    /\ state = "copying"
    /\ whole = TRUE

Add == left > 0 /\ left' = left - 1 /\ UNCHANGED state
Fail == left > 0 /\ state' = "failed" /\ UNCHANGED left
Panic == left \in 1 .. dbs /\ state' = "dead" /\ UNCHANGED left
Close == left = 0 /\ whole /\ state' = "closed" /\ UNCHANGED left

Next ==
    /\ state = "copying"
    /\ Add \/ Fail \/ Panic \/ Close
    /\ UNCHANGED dbs
    /\ state' \in {"copying", "closed"} => whole'

Spec == Init /\ [][Next]_copyVars
=============================================================================
