----------------------------- MODULE MCExpurge -----------------------------
(***************************************************************************)
(* Directories of up to four files whose dates tell byte order and         *)
(* calendar order apart: 2 January is listed after 1 February, 29 February *)
(* exists in year 0 and not in 2023.  The glob   *)
(* of name 1, a name with a wildcard, matches name 2 as well, and not      *)
(* name 3.                                                                 *)
(***************************************************************************)
EXTENDS Expurge, TLC

MCNames == {1, 2, 3}
MCKeeps == -1 .. 3
Wildcard == 1 :> {1, 2} @@ 2 :> {2} @@ 3 :> {3}

\* <<year, month, day, time of day>>
MCDates == {<<2023, 2, 1, 0>>, <<2023, 1, 2, 0>>, <<2024, 1, 1, 0>>, <<2024, 1, 1, 5>>,
            <<0, 2, 29, 0>>, <<2023, 2, 29, 0>>}
=============================================================================
