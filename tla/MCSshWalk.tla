----------------------------- MODULE MCSshWalk -----------------------------
(***************************************************************************)
(* A small instance of SshWalk: a root with a file, and a directory with   *)
(* two files.                                                              *)
(***************************************************************************)
EXTENDS SshWalk, TLC

MCNode == {".", "a", "s", "s/x", "s/y"}
MCParent == "a" :> "." @@ "s" :> "." @@ "s/x" :> "s" @@ "s/y" :> "s"

Tree(r, a, s, x, y) == "." :> r @@ "a" :> a @@ "s" :> s @@ "s/x" :> x @@ "s/y" :> y
MCTrees ==
    {Tree(r, "absent", "absent", "absent", "absent") : r \in Kinds} \cup
    {Tree("dir", a, "dir", "file", y) : a \in {"file", "link"}, y \in {"dir", "link", "odd"}} \cup
    {Tree("dir", "file", "locked", x, "absent") : x \in {"absent", "file"}}
=============================================================================
