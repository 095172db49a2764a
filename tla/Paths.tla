------------------------------- MODULE Paths -------------------------------
(***************************************************************************)
(* The paths of a directory that is walked, as filepath.Walk, the sftp     *)
(* client's Walk and WalkDir of lib/ssh/scp.go see them: every path but    *)
(* the root lies in the directory Parent gives (external).                 *)
(***************************************************************************)

CONSTANTS
    Node,     \* the paths, relative to the root
    Root,     \* "."
    Parent    \* Parent[n]: the directory of n

\* With a path the set has the directory it lies in.
Upward(S) == \A x \in S \ {Root} : Parent[x] \in S

\* The directories a path lies in: the least upward set with its parent.
Above == [n \in Node |->
            {m \in Node : \A S \in SUBSET Node :
                            Upward(S) /\ (n # Root => Parent[n] \in S) => m \in S}]

\* The paths below a directory.
Below == [n \in Node |-> {m \in Node : n \in Above[m]}]

ASSUME PathsAssumption ==
    /\ Root \in Node
    /\ Parent \in [Node \ {Root} -> Node]
    /\ \A n \in Node \ {Root} : Root \in Above[n]
=============================================================================
