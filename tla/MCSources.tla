----------------------------- MODULE MCSources -----------------------------
(***************************************************************************)
(* A small instance of Sources: "www" and "etc" are directories of up to   *)
(* three paths, s/x lying in the directory s.                              *)
(***************************************************************************)
EXTENDS Sources, TLC

MCNode == {".", "a", "s", "s/x"}
MCParent == "a" :> "." @@ "s" :> "." @@ "s/x" :> "s"
MCExcluded == "www" :> {"s/x"} @@ "etc" :> {"a"}

Tree(r, a, s, x) == "." :> r @@ "a" :> a @@ "s" :> s @@ "s/x" :> x
WwwTrees ==
    {Tree("dir", "file", "dir", x) : x \in {"file", "dangling"}} \cup
    {Tree("dir", a, "absent", "absent") : a \in {"locked", "link", "dirlink", "dangling", "absent"}} \cup
    {Tree("dir", "link", "file", "absent"), Tree("dirlink", "file", "dir", "link"),
     Tree("dir", "file", "lockeddir", "absent"),
     Tree("absent", "absent", "absent", "absent"), Tree("link", "absent", "absent", "absent")}
MCTrees ==
    {"www" :> t @@ "etc" :> Tree("dir", "dangling", "file", "absent") : t \in WwwTrees}
MCChangeTo == "www" :> {"absent", "file", "dir", "link", "dirlink"} @@ "etc" :> {}

Db(id, tool, docker, login) ==
    [id |-> id, tool |-> tool, docker |-> docker, login |-> login]
Profile(remote, dirs, dbs) == [remote |-> remote, dirs |-> dirs, dbs |-> dbs]
Pairs ==
    {<<Db("shop", "mysql", FALSE, TRUE), Db("wiki", "pg", TRUE, TRUE)>>,
     <<Db("wiki", "pg", FALSE, FALSE), Db("shop", "mysql", TRUE, TRUE)>>}
MCProfiles ==
    {Profile(r, <<"www", "etc">>, <<>>) : r \in BOOLEAN} \cup
    {Profile(r, <<>>, p) : r \in BOOLEAN, p \in Pairs} \cup
    {Profile(r, <<"etc">>, <<Db("shop", "mysql", FALSE, FALSE)>>) : r \in BOOLEAN} \cup
    {Profile(FALSE, <<>>, <<Db("old", "unknown", FALSE, TRUE)>>)}
=============================================================================
