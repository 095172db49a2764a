----------------------------- MODULE MCSftpSync -----------------------------
(***************************************************************************)
(* Two names with two stamps each, of which the second does not compile;   *)
(* profiles that pull the first, the first and then the second, the first  *)
(* twice and nothing.                                                      *)
(***************************************************************************)
EXTENDS SftpSync, TLC

MCNames == {1, 2}
MCMatches == [n \in MCNames |-> {n}]
MCProfiles == {[dirs |-> <<1>>, keep |-> 1], [dirs |-> <<1, 2>>, keep |-> -1],
               [dirs |-> <<1, 1>>, keep |-> 1], [dirs |-> <<>>, keep |-> 1]}
=============================================================================
