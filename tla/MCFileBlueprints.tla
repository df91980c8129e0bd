-------------------------- MODULE MCFileBlueprints ---------------------------
EXTENDS FileBlueprints

CONSTANTS c1, c2, c3

Inbox == <<>>
Done  == <<3>>

In(p, q) == (p :> c1) @@ (q :> c2)

Apart    == In(At(<<1>>, <<7>>), At(<<2, 1>>, <<8>>))   \* two folders of one name
Together == In(At(Inbox, <<7>>), At(Inbox, <<8>>))
Numbered == In(At(Inbox, <<1>>), At(<<1>>, <<2>>))      \* names that numbers meet
Sorted   == In(At(Inbox, <<9>>), At(Done, <<7>>))       \* one is unusable, one in its place

SomeTrees == {Apart, Together, Numbered, Sorted}

Instances ==
  {<<Blueprint({}, "counter", "global", 1, "overwrite", "move", TRUE, TRUE), Numbered>>,
   <<Blueprint({}, "counter", "perFolder", 1, "rename", "move", TRUE, TRUE), Numbered>>,
   <<Blueprint({Done}, "counter", "perParent", 2, "skip", "copy", TRUE, TRUE), Apart>>,
   <<Blueprint({Done}, "counter", "perDay", 1, "rename", "copy", TRUE, TRUE), Together>>,
   <<Blueprint({Done}, "original", "global", 1, "rename", "move", TRUE, FALSE), Together>>,
   <<Blueprint({Done}, "original", "global", 1, "skip", "move", TRUE, TRUE), Sorted>>,
   <<Blueprint({Done}, "index", "global", 1, "skip", "move", FALSE, TRUE), Apart>>,
   <<Blueprint({Done}, "fixed", "global", 1, "rename", "move", TRUE, TRUE), Together>>}

SomeBlueprints == {i[1] : i \in Instances}

MCInit == Init /\ <<blueprint, tree>> \in Instances
MCSpec == MCInit /\ [][Next]_vars

\* Where the user puts a file, a blueprint may too.
SomePaths == {At(Inbox, <<2>>), At(Done, <<1>>)}

UnusableNames == {<<9>>}

ApplySymmetry == Permutations(Applies)

=============================================================================
