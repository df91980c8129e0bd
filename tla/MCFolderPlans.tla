---------------------------- MODULE MCFolderPlans ---------------------------
(***************************************************************************)
(* Four plans, two of them with each strategy, and four trees to start     *)
(* from; a plan whose check fails there starts once the user has made room. *)
(***************************************************************************)
EXTENDS FolderPlans

CONSTANTS f, g, h

a == <<"a">>
b == <<"b">>
c == <<"c">>
d == <<"d">>
x == <<"x">>
y == <<"y">>

\* Move b out of the way, then a in its place: undone in the wrong order, a stays.
Shift == <<Node("move", 0, <<b>>, <<c>>), Node("rename", 0, <<a>>, <<b>>)>>

\* Items with nothing in common; the copy needs a new folder.
Apart == <<Node("copy", 0, <<a>>, <<b, a>>), Node("move", 0, <<c>>, <<d, c>>)>>

\* A transfer below a folder that may be new, and a delete.
Nested == <<Node("create", 0, Root, <<d>>), Node("rename", 1, <<x>>, <<y>>), Node("delete", 0, <<c>>, Root)>>

\* What is moved into d is deleted with it.
Gather == <<Node("move", 0, <<a>>, <<d, a>>), Node("delete", 0, <<d>>, Root)>>

MCBlueprints ==
  {Blueprint(s, FALSE, nodes) : s \in Strategies, nodes \in {Shift, Apart}}
    \cup {Blueprint("overwrite", confirmed, Nested) : confirmed \in BOOLEAN}
    \cup {Blueprint("skip", FALSE, Gather)}

Tree(folders, where) == [p \in folders |-> {file \in DOMAIN where : where[file] = p}]

MCTrees ==
  {Tree({Root, <<a>>, <<b>>, <<d>>, <<d, x>>}, [file \in {f, g} |-> IF file = f THEN <<a>> ELSE <<b>>]),
   Tree({Root, <<a>>, <<c>>, <<d>>, <<d, x>>}, [file \in {f, g} |-> IF file = f THEN <<a>> ELSE <<c>>]),
   Tree({Root, <<c>>, <<d>>, <<d, x>>}, [file \in {f} |-> <<d, x>>]),
   Tree({Root, <<a>>, <<d>>}, [file \in {f} |-> <<a>>])}

MCUserFolders == {<<a>>, <<c>>, <<b, a>>, <<d>>}

=============================================================================
