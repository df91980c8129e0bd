----------------------- MODULE BlueprintTriggersProofs -----------------------
(***************************************************************************)
(* What holds of a watched blueprint for all plans, names, files, acts of  *)
(* the user and faults: a correction loses a file only to an act in the    *)
(* middle of a rename, and folders get one level deeper than the plan.     *)
(***************************************************************************)
EXTENDS BlueprintTriggers, FolderTheorems

-----------------------------------------------------------------------------
(***************************************************************************)
(* The plan.                                                               *)
(***************************************************************************)

\* The first node is a child of the root.
LEMMA FirstNode ==
  /\ Plan \in Seq(Nodes) /\ Len(Plan) \in Nat \ {0} /\ DOMAIN Plan = 1..Len(Plan)
  /\ Head(Plan) \in Nodes /\ Len(Head(Plan)) = 1
  /\ \A n \in Nodes : IsPath(n)
<1>1. Plan \in Seq(Nodes) /\ Len(Plan) \in Nat \ {0} /\ DOMAIN Plan = 1..Len(Plan)
  BY PlanAssumption, EmptySeq DEF Nodes
<1>2. 1 \in DOMAIN Plan /\ Head(Plan) = Plan[1] /\ Plan[1] \in Nodes
  BY <1>1 DEF Nodes, Range
<1>3. Len(Plan[1]) = 1
  BY <1>2, PlanAssumption
<1>4. \A n \in Nodes : IsPath(n)
  BY PlanAssumption DEF Nodes, Range
<1>5. QED BY <1>1, <1>2, <1>3, <1>4

\* The nodes have finitely many lengths: one of them is the greatest.
LEMMA DepthIs ==
  Depth \in Nat /\ \A n \in Nodes : Len(n) <= Depth
<1> DEFINE lengths(k) == {Len(Plan[n]) : n \in 1..k}
           IsMax(m, k) == m \in lengths(k) /\ \A l \in lengths(k) : m >= l
           T == {k \in 1..Len(Plan) : ~\E m : IsMax(m, k)}
<1>1. \A n \in 1..Len(Plan) : Len(Plan[n]) \in Nat
  BY FirstNode, PathIs DEF Nodes, Range
<1>2. T = {}
  <2>1. SUFFICES ASSUME T # {} PROVE FALSE
    OBVIOUS
  <2>2. T \in SUBSET Nat
    <3> HIDE DEF IsMax
    <3>1. QED BY FirstNode
  <2>3. PICK k \in T : \A l \in T : k <= l
    <3> HIDE DEF T
    <3>1. QED BY <2>1, <2>2, LeastNumber
  <2>4. k \in 1..Len(Plan) /\ ~\E m : IsMax(m, k)
    <3> HIDE DEF IsMax
    <3>1. QED BY <2>3
  <2>5. CASE k = 1
    <3>1. 1 \in 1..1 /\ \A n \in 1..1 : n = 1
      OBVIOUS
    <3>2. Len(Plan[1]) \in Nat
      BY <1>1, FirstNode
    <3>3. IsMax(Len(Plan[1]), 1)
      <4>1. lengths(1) = {Len(Plan[1])}
        BY <3>1
      <4> HIDE DEF lengths
      <4>2. QED BY <3>2, <4>1
    <3>4. QED BY <2>4, <2>5, <3>3
  <2>6. CASE k # 1
    <3>1. k - 1 \in 1..Len(Plan) /\ ~(k <= k - 1)
      BY <2>4, <2>6, FirstNode
    <3>2. k - 1 \notin T
      BY <2>3, <3>1
    <3>3. PICK m : IsMax(m, k - 1)
      BY <3>1, <3>2
    <3>4. \A n \in 1..k : n = k \/ n \in 1..(k - 1)
      BY <2>4, FirstNode
    <3>5. m \in Nat /\ Len(Plan[k]) \in Nat
      BY <1>1, <2>4, <3>1, <3>3, FirstNode
    <3>6. k \in 1..k /\ \A n \in 1..(k - 1) : n \in 1..k
      BY <2>4, FirstNode
    <3>7. CASE m >= Len(Plan[k])
      <4>1. m \in lengths(k)
        BY <3>3, <3>6
      <4>2. \A n \in 1..k : m >= Len(Plan[n])
        BY <3>3, <3>4, <3>7
      <4>3. QED BY <2>4, <4>1, <4>2
    <3>8. CASE Len(Plan[k]) >= m
      <4>1. Len(Plan[k]) \in lengths(k)
        BY <3>6
      <4>2. \A n \in 1..(k - 1) : m >= Len(Plan[n]) /\ Len(Plan[n]) \in Nat
        BY <1>1, <2>4, <3>3, FirstNode
      <4>3. \A n \in 1..k : Len(Plan[k]) >= Len(Plan[n])
        BY <3>4, <3>5, <3>8, <4>2
      <4>4. QED BY <2>4, <4>1, <4>3
    <3>9. QED BY <3>5, <3>7, <3>8
  <2>7. QED BY <2>5, <2>6
<1>3. \E m : IsMax(m, Len(Plan))
  BY <1>2, FirstNode
<1>4. {Len(n) : n \in Nodes} = lengths(Len(Plan))
  BY FirstNode DEF Nodes, Range
<1>5. IsMax(Depth, Len(Plan))
  BY <1>3, <1>4 DEF Depth, Max
<1>6. \A l \in lengths(Len(Plan)) : l \in Nat
  BY <1>1
<1>7. QED BY <1>4, <1>5, <1>6

-----------------------------------------------------------------------------
(***************************************************************************)
(* Folders.                                                                *)
(***************************************************************************)

\* A tree of folders, none of them too deep.
IsTree(t) ==
  /\ t \in [DOMAIN t -> Files \cup {NoFile}]
  /\ Closed(DOMAIN t) /\ IsFiniteSet(DOMAIN t)
  /\ Root \in DOMAIN t
  /\ \A p \in DOMAIN t : Len(p) <= Depth + 1

FilesIn(t) == {t[p] : p \in DOMAIN t} \ {NoFile}

\* The path of a folder in reach.
InReach(p) == IsPath(p) /\ Len(p) <= Depth + 1

\* Two places in one folder.
Siblings(source, target) ==
  /\ InReach(source) /\ InReach(target)
  /\ source # Root /\ source # target /\ Len(source) = Len(target)

\* The folders of t hold in u what they hold in t.
Keeps(t, u) == \A p \in DOMAIN t : p \in DOMAIN u /\ u[p] = t[p]

\* create_dir_all adds empty folders.
LEMMA CreateIs ==
  ASSUME NEW t, IsTree(t), NEW p, InReach(p)
  PROVE  /\ IsTree(CreateDirAll(t, p))
         /\ DOMAIN CreateDirAll(t, p) = DOMAIN t \cup Prefixed(p)
         /\ Keeps(t, CreateDirAll(t, p))
         /\ FilesIn(t) \subseteq FilesIn(CreateDirAll(t, p))
<1> DEFINE made == CreateDirAll(t, p)
<1>1. DOMAIN made = DOMAIN t \cup Prefixed(p) /\ \A q \in DOMAIN t : made[q] = t[q]
  BY DEF CreateDirAll, IsDir
<1>2. made \in [DOMAIN made -> Files \cup {NoFile}]
  BY DEF CreateDirAll, IsDir, IsTree
<1> HIDE DEF made
<1>3. Closed(DOMAIN made)
  BY <1>1, ClosedMade DEF IsTree, InReach
<1>4. IsFiniteSet(DOMAIN made)
  <2>1. DOMAIN made \subseteq DOMAIN t \cup Prefixed(p) \cup Copied(DOMAIN t, p, p)
    BY <1>1
  <2>2. IsFiniteSet(DOMAIN t \cup Prefixed(p) \cup Copied(DOMAIN t, p, p))
    BY FiniteCopied DEF IsTree, InReach
  <2>3. QED BY <2>1, <2>2, FS_Subset
<1>5. \A q \in Prefixed(p) : Len(q) <= Depth + 1
  <2>1. TAKE q \in Prefixed(p)
  <2>2. Len(q) \in Nat /\ Len(p) \in Nat /\ Len(q) <= Len(p)
    BY PrefixedIs, PathIs DEF InReach
  <2>3. QED BY <2>2, DepthIs DEF InReach
<1>6. IsTree(made)
  BY <1>1, <1>2, <1>3, <1>4, <1>5 DEF IsTree
<1>7. FilesIn(t) \subseteq FilesIn(made)
  BY <1>1 DEF FilesIn
<1>8. Keeps(t, made)
  BY <1>1 DEF Keeps
<1>9. QED BY <1>1, <1>6, <1>7, <1>8 DEF made

\* remove_dir_all takes what is below its folder, and nothing else.
LEMMA RemoveIs ==
  ASSUME NEW t, IsTree(t), NEW p, IsPath(p), p # Root
  PROVE  /\ IsTree(RemoveDirAll(t, p))
         /\ DOMAIN RemoveDirAll(t, p) = {q \in DOMAIN t : ~IsPrefix(p, q)}
         /\ \A q \in DOMAIN RemoveDirAll(t, p) : RemoveDirAll(t, p)[q] = t[q]
<1> DEFINE left == RemoveDirAll(t, p)
<1>1. DOMAIN left = {q \in DOMAIN t : ~IsPrefix(p, q)} /\ \A q \in DOMAIN left : left[q] = t[q]
  BY DEF RemoveDirAll, Below
<1>2. left \in [DOMAIN left -> Files \cup {NoFile}]
  BY DEF RemoveDirAll, IsTree
<1> HIDE DEF left
<1>3. Closed(DOMAIN left)
  BY <1>1, ClosedRemoved DEF IsTree
<1>4. IsFiniteSet(DOMAIN left)
  BY <1>1, FS_Subset DEF IsTree
<1>5. ~IsPrefix(p, Root)
  <2>1. ASSUME IsPrefix(p, Root) PROVE FALSE
    <3>1. IsPath(Root) /\ Len(Root) = 0 /\ Len(p) \in Nat
      BY PrefixReflexive, PathIs, EmptySeq DEF Root
    <3>2. Len(p) = 0
      BY <2>1, <3>1, PrefixIs
    <3>3. QED BY <2>1, <3>1, <3>2, PrefixSameLength
  <2>2. QED BY <2>1
<1>6. IsTree(left)
  BY <1>1, <1>2, <1>3, <1>4, <1>5 DEF IsTree
<1>7. QED BY <1>1, <1>6 DEF left

\* copy_dir_recursive brings every file below the source to its place below the
\* target; where nothing is in the way it changes no folder.
LEMMA CopyIs ==
  ASSUME NEW t, IsTree(t), NEW source, NEW target, Siblings(source, target)
  PROVE  /\ IsTree(CopyDir(t, source, target))
         /\ DOMAIN CopyDir(t, source, target)
              = DOMAIN t \cup Prefixed(target) \cup Copied(DOMAIN t, source, target)
         /\ \A q \in Below(t, source) :
              t[q] # NoFile => CopyDir(t, source, target)[Rebased(source, target, q)] = t[q]
         /\ ~IsDir(t, target) => Keeps(t, CopyDir(t, source, target))
<1> DEFINE copy == CopyDir(t, source, target)
           to(p) == {q \in Below(t, source) : t[q] # NoFile /\ Rebased(source, target, q) = p}
<1>1. /\ IsPath(source) /\ IsPath(target) /\ Len(source) \in Nat /\ Len(source) = Len(target)
      /\ Len(target) <= Depth + 1
  BY PathIs DEF Siblings, InReach
<1>2. \A q \in Below(t, source) : q \in DOMAIN t /\ IsPath(q) /\ IsPrefix(source, q)
  BY DEF Below, IsTree, Closed
<1>3. Inside(DOMAIN t, source) = Below(t, source)
  BY DEF Inside, Below
<1>4. DOMAIN copy = DOMAIN t \cup Prefixed(target) \cup Copied(DOMAIN t, source, target)
  BY <1>3 DEF CopyDir, Copied
<1>5. \A p \in DOMAIN copy :
        copy[p] = IF to(p) # {} THEN t[CHOOSE q \in to(p) : TRUE]
                  ELSE IF IsDir(t, p) THEN t[p] ELSE NoFile
  BY DEF CopyDir
<1>6. copy = [p \in DOMAIN copy |-> copy[p]]
  BY DEF CopyDir
<1> HIDE DEF copy
<1>7. ASSUME NEW p, NEW q \in to(p)
      PROVE  t[CHOOSE x \in to(p) : TRUE] = t[q]
  <2>1. \A x, y \in to(p) : x = y
    BY <1>1, <1>2, RebasedOnce
  <2>2. (CHOOSE x \in to(p) : TRUE) \in to(p)
    OBVIOUS
  <2>3. (CHOOSE x \in to(p) : TRUE) = q
    BY <2>1, <2>2
  <2>4. QED BY <2>3
<1>8. ASSUME NEW q \in Below(t, source), t[q] # NoFile
      PROVE  copy[Rebased(source, target, q)] = t[q]
  <2>1. q \in to(Rebased(source, target, q))
    BY <1>8
  <2>2. Rebased(source, target, q) \in DOMAIN copy
    BY <1>3, <1>4 DEF Copied
  <2>3. t[CHOOSE x \in to(Rebased(source, target, q)) : TRUE] = t[q]
    BY <1>7, <2>1
  <2> HIDE DEF to
  <2>4. QED BY <1>5, <2>1, <2>2, <2>3
<1>9. ASSUME ~IsDir(t, target), NEW p \in DOMAIN t PROVE copy[p] = t[p]
  <2>1. to(p) = {}
    <3>1. SUFFICES ASSUME NEW q \in to(p) PROVE FALSE
      OBVIOUS
    <3>2. IsPrefix(target, p)
      BY <1>1, <1>2, RebasedIs DEF IsRebased
    <3>3. target \in DOMAIN t
      BY <1>1, <3>2, PrefixInClosed DEF IsTree
    <3>4. QED BY <1>9, <3>3 DEF IsDir
  <2>2. p \in DOMAIN copy
    BY <1>4
  <2> HIDE DEF to
  <2>3. QED BY <1>5, <2>1, <2>2 DEF IsDir
<1>10. \A p \in DOMAIN copy : copy[p] \in Files \cup {NoFile}
  <2>1. TAKE p \in DOMAIN copy
  <2>2. \A q \in DOMAIN t : t[q] \in Files \cup {NoFile}
    BY DEF IsTree
  <2>3. CASE to(p) # {}
    <3>1. PICK q \in to(p) : TRUE
      BY <2>3
    <3>2. t[CHOOSE x \in to(p) : TRUE] = t[q]
      BY <1>7, <3>1
    <3>3. t[q] \in Files \cup {NoFile}
      BY <1>2, <2>2
    <3> HIDE DEF to
    <3>4. QED BY <1>5, <2>3, <3>2, <3>3
  <2>4. CASE to(p) = {}
    <3> HIDE DEF to
    <3>1. QED BY <1>5, <2>2, <2>4 DEF IsDir
  <2>5. QED BY <2>3, <2>4
<1>11. copy \in [DOMAIN copy -> Files \cup {NoFile}]
  BY <1>6, <1>10
<1>12. Closed(DOMAIN copy)
  BY <1>1, <1>4, ClosedCopied DEF IsTree
<1>13. IsFiniteSet(DOMAIN copy)
  BY <1>1, <1>4, FiniteCopied DEF IsTree
<1>14. \A p \in DOMAIN copy : Len(p) <= Depth + 1
  <2>1. \A p \in DOMAIN t : Len(p) <= Depth + 1
    BY DEF IsTree
  <2>2. ASSUME NEW p \in Prefixed(target) PROVE Len(p) <= Depth + 1
    <3>1. Len(p) \in Nat /\ Len(p) <= Len(target)
      BY <1>1, PrefixedIs, PathIs
    <3>2. QED BY <1>1, <3>1, DepthIs
  <2>3. ASSUME NEW q \in Below(t, source) PROVE Len(Rebased(source, target, q)) <= Depth + 1
    <3>1. Len(Rebased(source, target, q)) = Len(target) + (Len(q) - Len(source))
      BY <1>1, <1>2, RebasedIs DEF IsRebased
    <3>2. Len(q) \in Nat /\ Len(q) <= Depth + 1
      BY <1>2, <2>1, PathIs
    <3>3. QED BY <1>1, <3>1, <3>2, DepthIs
  <2>4. QED BY <1>3, <1>4, <2>1, <2>2, <2>3 DEF Copied
<1>15. IsTree(copy)
  BY <1>4, <1>11, <1>12, <1>13, <1>14 DEF IsTree
<1>16. ~IsDir(t, target) => Keeps(t, copy)
  BY <1>4, <1>9 DEF Keeps
<1>17. QED BY <1>4, <1>8, <1>15, <1>16 DEF copy

\* A folder is not below its sibling, and neither are copies of what is.
LEMMA SiblingsApart ==
  ASSUME NEW source, NEW target, Siblings(source, target)
  PROVE  /\ ~IsPrefix(source, target) /\ ~IsPrefix(target, source)
         /\ \A q : IsPath(q) /\ IsPrefix(source, q) =>
              ~IsPrefix(source, Rebased(source, target, q))
<1>1. IsPath(source) /\ IsPath(target) /\ Len(source) = Len(target) /\ source # target
  BY DEF Siblings, InReach
<1>2. ~IsPrefix(source, target) /\ ~IsPrefix(target, source)
  BY <1>1, PrefixSameLength
<1>3. ASSUME NEW q, IsPath(q), IsPrefix(source, q)
      PROVE  ~IsPrefix(source, Rebased(source, target, q))
  <2>1. /\ IsPath(Rebased(source, target, q))
        /\ IsPrefix(target, Rebased(source, target, q))
    BY <1>1, <1>3, RebasedIs DEF IsRebased
  <2>2. QED BY <1>1, <1>2, <2>1, CopiedElsewhere
<1>4. QED BY <1>2, <1>3

\* All files below the source are below the target too.
Moved(t, source, target) ==
  \A q \in Below(t, source) :
    t[q] # NoFile =>
      Rebased(source, target, q) \in DOMAIN t /\ t[Rebased(source, target, q)] = t[q]

\* A copy to a free place has all files twice.
LEMMA CopyMoves ==
  ASSUME NEW t, IsTree(t), NEW source, NEW target, Siblings(source, target), ~IsDir(t, target)
  PROVE  /\ Moved(CopyDir(t, source, target), source, target)
         /\ FilesIn(t) \subseteq FilesIn(CopyDir(t, source, target))
<1> DEFINE copy == CopyDir(t, source, target)
<1>1. /\ IsTree(copy)
      /\ DOMAIN copy = DOMAIN t \cup Prefixed(target) \cup Copied(DOMAIN t, source, target)
      /\ \A q \in Below(t, source) : t[q] # NoFile => copy[Rebased(source, target, q)] = t[q]
      /\ \A p \in DOMAIN t : copy[p] = t[p]
  <2>1. /\ IsTree(copy) /\ Keeps(t, copy)
        /\ DOMAIN copy = DOMAIN t \cup Prefixed(target) \cup Copied(DOMAIN t, source, target)
        /\ \A q \in Below(t, source) : t[q] # NoFile => copy[Rebased(source, target, q)] = t[q]
    BY CopyIs
  <2>2. QED BY <2>1 DEF Keeps
<1> HIDE DEF copy
<1>2. IsPath(source) /\ IsPath(target)
  BY DEF Siblings, InReach
<1>3. ASSUME NEW q \in Below(copy, source)
      PROVE  q \in Below(t, source)
  <2>1. q \in DOMAIN copy /\ IsPrefix(source, q) /\ IsPath(q)
    BY <1>1 DEF Below, IsTree, Closed
  <2>2. q \notin Prefixed(target)
    <3>1. ASSUME q \in Prefixed(target) PROVE FALSE
      <4>1. IsPrefix(q, target)
        BY <1>2, <3>1, PrefixedIs
      <4>2. IsPrefix(source, target)
        BY <1>2, <2>1, <4>1, PrefixTransitive
      <4>3. QED BY <4>2, SiblingsApart
    <3>2. QED BY <3>1
  <2>3. q \notin Copied(DOMAIN t, source, target)
    BY <2>1, SiblingsApart DEF Copied, Inside, IsTree, Closed
  <2>4. QED BY <1>1, <2>1, <2>2, <2>3 DEF Below
<1>4. Moved(copy, source, target)
  <2>1. SUFFICES ASSUME NEW q \in Below(copy, source), copy[q] # NoFile
                 PROVE  /\ Rebased(source, target, q) \in DOMAIN copy
                        /\ copy[Rebased(source, target, q)] = copy[q]
    BY DEF Moved
  <2>2. q \in Below(t, source) /\ q \in DOMAIN t
    BY <1>3 DEF Below
  <2>3. Rebased(source, target, q) \in DOMAIN copy
    BY <1>1, <2>2 DEF Copied, Inside, Below
  <2>4. QED BY <1>1, <2>1, <2>2, <2>3
<1>5. FilesIn(t) \subseteq FilesIn(copy)
  BY <1>1 DEF FilesIn
<1>6. QED BY <1>4, <1>5 DEF copy

\* Once they are, the source can be removed.
LEMMA RemoveMoved ==
  ASSUME NEW t, IsTree(t), NEW source, NEW target, Siblings(source, target), Moved(t, source, target)
  PROVE  FilesIn(t) \subseteq FilesIn(RemoveDirAll(t, source))
<1> DEFINE left == RemoveDirAll(t, source)
<1>1. /\ DOMAIN left = {q \in DOMAIN t : ~IsPrefix(source, q)}
      /\ \A q \in DOMAIN left : left[q] = t[q]
  BY RemoveIs DEF Siblings, InReach
<1> HIDE DEF left
<1>2. ASSUME NEW q \in DOMAIN t, t[q] # NoFile
      PROVE  \E p \in DOMAIN left : left[p] = t[q]
  <2>1. CASE ~IsPrefix(source, q)
    BY <1>1, <2>1
  <2>2. CASE IsPrefix(source, q)
    <3>1. Rebased(source, target, q) \in DOMAIN t /\ t[Rebased(source, target, q)] = t[q]
      BY <1>2, <2>2 DEF Moved, Below
    <3>2. ~IsPrefix(source, Rebased(source, target, q))
      BY <2>2, SiblingsApart DEF IsTree, Closed
    <3>3. QED BY <1>1, <3>1, <3>2
  <2>3. QED BY <2>1, <2>2
<1>3. QED BY <1>2 DEF FilesIn, left

\* A rename gives a tree, and to a free name it loses no file.
LEMMA RenameIs ==
  ASSUME NEW t, IsTree(t), NEW source, NEW target, Siblings(source, target)
  PROVE  /\ IsTree(RenameDir(t, source, target))
         /\ ~IsDir(t, target) => FilesIn(t) \subseteq FilesIn(RenameDir(t, source, target))
<1> DEFINE copy == CopyDir(t, source, target)
<1>1. IsTree(copy)
  BY CopyIs
<1>2. ~IsDir(t, target) => Moved(copy, source, target) /\ FilesIn(t) \subseteq FilesIn(copy)
  BY CopyMoves
<1>3. RenameDir(t, source, target) = RemoveDirAll(copy, source)
  BY DEF RenameDir
<1> HIDE DEF copy
<1>4. IsTree(RemoveDirAll(copy, source))
  BY <1>1, RemoveIs DEF Siblings, InReach
<1>5. Moved(copy, source, target) => FilesIn(copy) \subseteq FilesIn(RemoveDirAll(copy, source))
  BY <1>1, RemoveMoved
<1>6. QED BY <1>2, <1>3, <1>4, <1>5

-----------------------------------------------------------------------------
(***************************************************************************)
(* Events.                                                                 *)
(***************************************************************************)

\* An event is about a folder in reach.
IsEvent(e) ==
  /\ e = Event(e.kind, e.path)
  /\ InReach(e.path) /\ e.path # Root

AreEvents(s) == IsPath(s) /\ \A n \in DOMAIN s : IsEvent(s[n])

\* Events of two lists.
LEMMA EventsJoin ==
  ASSUME NEW s, NEW r, AreEvents(s), AreEvents(r)
  PROVE  AreEvents(s \o r)
<1>1. /\ Len(s) \in Nat /\ DOMAIN s = 1..Len(s) /\ Len(r) \in Nat /\ DOMAIN r = 1..Len(r)
      /\ IsPath(s) /\ IsPath(r)
  BY PathIs DEF AreEvents
<1> DEFINE both == s \o r
<1>2. /\ IsPath(both) /\ Len(both) = Len(s) + Len(r)
      /\ \A i \in 1..Len(s) : both[i] = s[i]
      /\ \A i \in 1..Len(r) : both[Len(s) + i] = r[i]
  BY <1>1, JoinIs
<1> HIDE DEF both
<1>3. DOMAIN both = 1..Len(both)
  BY <1>2, PathIs
<1>4. ASSUME NEW n \in DOMAIN both PROVE IsEvent(both[n])
  <2>1. CASE n <= Len(s)
    <3>1. n \in 1..Len(s)
      BY <1>1, <1>2, <1>3, <2>1
    <3>2. QED BY <1>1, <1>2, <3>1 DEF AreEvents
  <2>2. CASE n > Len(s)
    <3> DEFINE k == n - Len(s)
    <3>1. k \in 1..Len(r) /\ Len(s) + k = n
      BY <1>1, <1>2, <1>3, <2>2
    <3> HIDE DEF k
    <3>2. both[n] = r[k]
      BY <1>2, <3>1
    <3>3. QED BY <1>1, <3>1, <3>2 DEF AreEvents
  <2>3. QED BY <1>1, <1>2, <1>3, <2>1, <2>2
<1>5. QED BY <1>2, <1>4 DEF AreEvents, both

\* No event, and one.
LEMMA EventsOf ==
  /\ AreEvents(<<>>)
  /\ \A e : IsEvent(e) => AreEvents(<<e>>)
<1>1. IsPath(<<>>) /\ DOMAIN <<>> = {}
  <2>1. <<>> \in Seq({}) /\ Len(<<>>) = 0
    OBVIOUS
  <2>2. IsPath(<<>>)
    BY <2>1, SeqIsPath
  <2>3. QED BY <2>1, <2>2, PathIs
<1>2. ASSUME NEW e, IsEvent(e) PROVE AreEvents(<<e>>)
  <2>1. <<e>> \in Seq({e}) /\ DOMAIN <<e>> = {1} /\ <<e>>[1] = e
    OBVIOUS
  <2>2. IsPath(<<e>>)
    BY <2>1, SeqIsPath
  <2>3. QED BY <1>2, <2>1, <2>2 DEF AreEvents
<1>3. QED BY <1>1, <1>2 DEF AreEvents

\* One event more.
LEMMA EventsAppend ==
  ASSUME NEW s, AreEvents(s), NEW e, IsEvent(e)
  PROVE  AreEvents(Append(s, e))
<1>1. IsPath(s) /\ Len(s) \in Nat /\ DOMAIN s = 1..Len(s)
  BY PathIs DEF AreEvents
<1> DEFINE more == Append(s, e)
<1>2. /\ IsPath(more) /\ Len(more) = Len(s) + 1
      /\ \A i \in 1..Len(s) : more[i] = s[i]
      /\ more[Len(s) + 1] = e
  BY <1>1, AppendIs
<1> HIDE DEF more
<1>3. DOMAIN more = 1..(Len(s) + 1)
  BY <1>2, PathIs
<1>4. \A n \in DOMAIN more : n \in 1..Len(s) \/ n = Len(s) + 1
  BY <1>1, <1>3
<1>5. QED BY <1>1, <1>2, <1>4 DEF AreEvents, more

\* The events after the first n.
LEMMA EventsRest ==
  ASSUME NEW s, AreEvents(s), NEW n \in 0..Len(s)
  PROVE  AreEvents(SubSeq(s, n + 1, Len(s)))
<1>1. IsPath(s) /\ Len(s) \in Nat /\ DOMAIN s = 1..Len(s)
  BY PathIs DEF AreEvents
<1> DEFINE rest == SubSeq(s, n + 1, Len(s))
<1>2. IsPath(rest) /\ Len(rest) = Len(s) - n /\ \A i \in 1..(Len(s) - n) : rest[i] = s[n + i]
  BY <1>1, RestIs
<1> HIDE DEF rest
<1>3. DOMAIN rest = 1..(Len(s) - n)
  BY <1>2, PathIs
<1>4. \A i \in 1..(Len(s) - n) : n + i \in 1..Len(s)
  BY <1>1
<1>5. QED BY <1>1, <1>2, <1>3, <1>4 DEF AreEvents, rest

\* The first event, and those after it.
LEMMA EventsTail ==
  ASSUME NEW s, AreEvents(s), s # <<>>
  PROVE  IsEvent(Head(s)) /\ AreEvents(Tail(s))
<1>1. IsPath(s) /\ Len(s) \in Nat \ {0} /\ DOMAIN s = 1..Len(s)
  BY PathIs, EmptySeq DEF AreEvents, IsPath
<1>2. 1 \in DOMAIN s /\ Head(s) = s[1]
  BY <1>1 DEF IsPath
<1>3. Tail(s) = SubSeq(s, 2, Len(s))
  BY <1>1, TailIsSubSeq DEF IsPath
<1>4. 1 \in 0..Len(s) /\ 1 + 1 = 2
  BY <1>1
<1>5. AreEvents(SubSeq(s, 1 + 1, Len(s)))
  BY <1>4, EventsRest
<1>6. QED BY <1>2, <1>3, <1>4, <1>5 DEF AreEvents

\* Folders are heard of.
LEMMA EventsMade ==
  ASSUME NEW paths, IsPath(paths), \A n \in DOMAIN paths : InReach(paths[n]) /\ paths[n] # Root
  PROVE  AreEvents(FoldersMade(paths))
<1> DEFINE made == FoldersMade(paths)
<1>1. Len(paths) \in Nat /\ DOMAIN paths = 1..Len(paths)
  BY PathIs
<1>2. /\ made = [n \in 1..Len(paths) |-> made[n]]
      /\ \A n \in 1..Len(paths) : made[n] = Event("folder", paths[n])
      /\ DOMAIN made = 1..Len(paths)
  BY <1>1 DEF FoldersMade
<1> HIDE DEF made
<1>3. IsPath(made)
  BY <1>1, <1>2, FunctionIsPath
<1>4. \A n \in 1..Len(paths) : IsEvent(made[n])
  BY <1>1, <1>2 DEF IsEvent, Event
<1>5. QED BY <1>2, <1>3, <1>4 DEF AreEvents, made

\* So are the folders that create_dir_all makes.
LEMMA EventsMissing ==
  ASSUME NEW t, NEW p, InReach(p)
  PROVE  AreEvents(FoldersMade(Missing(t, p)))
<1> DEFINE seen == {n \in 1..Len(p) : IsDir(t, SubSeq(p, 1, n))}
           there == Cardinality(seen)
           paths == Missing(t, p)
<1>1. IsPath(p) /\ Len(p) \in Nat
  BY PathIs DEF InReach
<1>2. there \in 0..Len(p)
  <2>2. seen \subseteq 1..Len(p)
    OBVIOUS
  <2> HIDE DEF seen, paths
  <2>1. IsFiniteSet(1..Len(p)) /\ Cardinality(1..Len(p)) = Len(p)
    <3> DEFINE n == Len(p)
    <3>1. n \in Nat
      BY <1>1
    <3> HIDE DEF n
    <3>2. IsFiniteSet(1..n) /\ Cardinality(1..n) = n
      BY <3>1, FS_Interval
    <3>3. QED BY <3>2 DEF n
  <2>3. IsFiniteSet(seen) /\ there <= Len(p) /\ there \in Nat
    BY <2>1, <2>2, FS_Subset, FS_CardinalityType
  <2>4. QED BY <1>1, <2>3
<1>3. paths = [n \in 1..(Len(p) - there) |-> SubSeq(p, 1, there + n)]
  BY DEF Missing
<1> HIDE DEF there
<1>4. /\ Len(p) - there \in Nat
      /\ paths = [n \in 1..(Len(p) - there) |-> paths[n]]
      /\ DOMAIN paths = 1..(Len(p) - there)
      /\ \A n \in 1..(Len(p) - there) : paths[n] = SubSeq(p, 1, there + n)
  BY <1>1, <1>2, <1>3
<1> HIDE DEF paths
<1>5. IsPath(paths)
  BY <1>4, FunctionIsPath
<1>6. ASSUME NEW n \in 1..(Len(p) - there) PROVE InReach(paths[n]) /\ paths[n] # Root
  <2>1. there + n \in 0..Len(p) /\ there + n \in Nat \ {0} /\ there + n <= Len(p)
    BY <1>1, <1>2
  <2>2. IsPath(paths[n]) /\ Len(paths[n]) = there + n
    <3> DEFINE m == there + n
    <3>1. m \in 0..Len(p)
      BY <2>1
    <3>2. paths[n] = SubSeq(p, 1, m)
      BY <1>4
    <3> HIDE DEF m
    <3>3. IsPath(SubSeq(p, 1, m)) /\ Len(SubSeq(p, 1, m)) = m
      BY <1>1, <3>1, CutIs
    <3>4. QED BY <3>2, <3>3 DEF m
  <2>3. Len(Root) = 0
    BY EmptySeq DEF Root
  <2>4. Len(paths[n]) <= Depth + 1
    BY <1>1, <2>1, <2>2, DepthIs DEF InReach
  <2>5. QED BY <2>1, <2>2, <2>3, <2>4 DEF InReach
<1>7. QED BY <1>4, <1>5, <1>6, EventsMade DEF paths

\* A set of folders is heard of in some order.
LEMMA EventsOfSet ==
  ASSUME NEW S, IsFiniteSet(S), \A p \in S : InReach(p) /\ p # Root
  PROVE  AreEvents(FoldersMade(SetToSeq(S)))
<1> DEFINE n == Cardinality(S)
           f == SetToSeq(S)
<1>1. n \in Nat
  BY FS_CardinalityType
<1>2. \E g \in [1..n -> S] : IsInjective(g)
  <2>1. PICK g : g \in Bijection(1..n, S)
    BY FS_CardinalityType DEF ExistsBijection
  <2>2. QED BY <2>1 DEF Bijection, Injection
<1>3. f \in [1..n -> S]
  BY <1>2 DEF SetToSeq
<1> HIDE DEF f, n
<1>4. f = [i \in 1..n |-> f[i]] /\ DOMAIN f = 1..n /\ \A i \in 1..n : f[i] \in S
  BY <1>3
<1>5. IsPath(f)
  BY <1>1, <1>4, FunctionIsPath
<1>6. QED BY <1>4, <1>5, EventsMade DEF f

\* Events that follow a rename.
LEMMA EventsRenamed ==
  ASSUME NEW s, AreEvents(s), NEW source, NEW target, InReach(target), target # Root
  PROVE  AreEvents(Renamed(s, source, target))
<1> DEFINE follow == [n \in DOMAIN s |->
             IF s[n].path = source THEN [s[n] EXCEPT !.path = target] ELSE s[n]]
           own == IF "rename" \in Kinds THEN <<Event("other", target)>> ELSE <<>>
<1>1. IsPath(s) /\ Len(s) \in Nat /\ DOMAIN s = 1..Len(s)
  BY PathIs DEF AreEvents
<1>2. \A n \in DOMAIN s : IsEvent(follow[n])
  <2>1. TAKE n \in DOMAIN s
  <2>2. IsEvent(s[n]) /\ s[n] = [kind |-> s[n].kind, path |-> s[n].path]
    BY DEF AreEvents, IsEvent, Event
  <2> DEFINE k == s[n].kind
  <2>3. CASE s[n].path = source
    <3>1. follow[n] = [kind |-> k, path |-> target]
      <4> HIDE DEF k
      <4>1. s[n] = [kind |-> k, path |-> s[n].path]
        BY <2>2 DEF k
      <4>2. [s[n] EXCEPT !.path = target] = [kind |-> k, path |-> target]
        BY <4>1
      <4>3. QED BY <2>3, <4>2
    <3> HIDE DEF k, follow
    <3>2. QED BY <3>1 DEF IsEvent, Event
  <2>4. CASE s[n].path # source
    BY <2>2, <2>4
  <2>5. QED BY <2>3, <2>4
<1>3. IsPath(follow) /\ DOMAIN follow = DOMAIN s
  <2>1. follow = [n \in 1..Len(s) |-> follow[n]] /\ DOMAIN follow = DOMAIN s
    BY <1>1
  <2> HIDE DEF follow
  <2>2. QED BY <1>1, <2>1, FunctionIsPath
<1>4. AreEvents(follow)
  BY <1>2, <1>3 DEF AreEvents
<1>5. AreEvents(own)
  <2>1. IsEvent(Event("other", target))
    BY DEF IsEvent, Event
  <2>2. QED BY <2>1, EventsOf
<1>6. Renamed(s, source, target) = follow \o own
  BY DEF Renamed
<1> HIDE DEF follow, own
<1>7. QED BY <1>4, <1>5, <1>6, EventsJoin

-----------------------------------------------------------------------------
(***************************************************************************)
(* Every state is well formed.                                             *)
(***************************************************************************)

\* What a run keeps from one step for the next.
IsRun ==
  /\ run = [at |-> run.at, event |-> run.event, base |-> run.base, node |-> run.node, made |-> run.made]
  /\ run.at # "idle" => IsEvent(run.event)
  /\ run.at \in {"rename", "copy", "remove", "audit"} => Node # Root /\ Target # Source
  /\ run.at = "make" =>
       /\ IsPath(run.base) /\ run.node \in Nodes \cup {Root}
       /\ Len(run.base) <= Len(run.node) + 1

TypesInv ==
  /\ IsTree(tree)
  /\ AreEvents(pending) /\ AreEvents(channel)
  /\ saved \subseteq Files
  /\ IsRun

\* A corrected folder stays in its parent, one level below the node that gives
\* the name, or at the first level.
LEMMA CorrectedIs ==
  ASSUME IsEvent(run.event)
  PROVE  /\ InReach(Source) /\ Source # Root
         /\ InReach(Target) /\ Target # Root
         /\ Len(Target) = Len(Source)
         /\ InReach(Front(Target)) /\ Len(Front(Target)) < Len(Target)
         /\ Target # Source => Siblings(Source, Target)
         /\ Node # Root => Node \in Nodes /\ Len(Target) <= Len(Node) + 1
<1>1. InReach(Source) /\ Source # Root /\ IsPath(Source) /\ Len(Source) <= Depth + 1
  BY DEF IsEvent, Source, InReach
<1> DEFINE parent == Front(Source)
<1>2. /\ Len(Source) \in Nat \ {0}
      /\ IsPath(parent) /\ Len(parent) = Len(Source) - 1
  BY <1>1, FrontIs
<1>3. Target = Append(parent, CorrectName(Node)) /\ Node = NodeFor(parent)
  BY DEF Target, Node
<1>4. Node # Root => Node \in Nodes /\ Len(parent) <= Len(Node)
  <2>1. CASE parent = Root
    <3>1. Node = Head(Plan) /\ Len(Node) = 1 /\ Node \in Nodes
      BY <1>3, <2>1, FirstNode DEF NodeFor
    <3>2. Len(parent) = 0
      BY <2>1 DEF Root
    <3>3. QED BY <3>1, <3>2
  <2>2. CASE parent # Root
    <3>1. Node # Root => Node \in Nodes /\ Node = parent
      BY <1>3, <2>2 DEF NodeFor
    <3>2. Len(parent) <= Len(parent)
      BY <1>2
    <3>3. QED BY <3>1, <3>2
  <2>3. QED BY <2>1, <2>2
<1> HIDE DEF parent
<1>5. IsPath(Target) /\ Target # Root /\ Len(Target) = Len(parent) + 1
  BY <1>2, <1>3, AppendIs
<1>6. Len(Target) = Len(Source) /\ InReach(Target)
  BY <1>1, <1>2, <1>5 DEF InReach
<1>7. IsPath(Front(Target)) /\ Len(Front(Target)) = Len(Target) - 1
  BY <1>5, FrontIs
<1>8. InReach(Front(Target)) /\ Len(Front(Target)) < Len(Target)
  <2>1. Len(Target) \in Nat /\ Len(Target) <= Depth + 1 /\ Depth \in Nat
    BY <1>1, <1>2, <1>6, DepthIs DEF InReach
  <2>2. QED BY <1>7, <2>1 DEF InReach
<1>9. Node # Root => Node \in Nodes /\ Len(Target) <= Len(Node) + 1
  <2>1. Node # Root => Len(Node) \in Nat
    BY <1>4, FirstNode, PathIs
  <2>2. Len(parent) \in Nat
    BY <1>2, PathIs
  <2>3. QED BY <1>4, <1>5, <2>1, <2>2
<1>10. QED BY <1>1, <1>5, <1>6, <1>8, <1>9 DEF Siblings

\* The corrected folder is that of the event.
LEMMA SameEvent ==
  ASSUME run'.event = run.event
  PROVE  Source' = Source /\ Node' = Node /\ Target' = Target
<1>1. Source' = Source
  BY DEF Source
<1>2. Node' = NodeFor(Front(Source)') /\ Node = NodeFor(Front(Source))
  BY DEF Node, NodeFor
<1>3. Node' = Node
  BY <1>1, <1>2
<1>4. Target' = Target
  BY <1>1, <1>3 DEF Target, CorrectName
<1>5. QED BY <1>1, <1>3, <1>4

\* It is like that in the beginning.
LEMMA TypesInit == Init => TypesInv
<1> SUFFICES ASSUME Init PROVE TypesInv
  OBVIOUS
<1> USE DEF Init
<1>1. IsTree(tree)
  <2>1. tree = [p \in {Root} |-> NoFile] /\ DOMAIN tree = {Root}
    OBVIOUS
  <2>2. tree \in [DOMAIN tree -> Files \cup {NoFile}]
    BY <2>1
  <2>3. Closed(DOMAIN tree)
    <3>1. IsPath(Root) /\ Len(Root) = 0
      BY EmptySeq, PrefixReflexive, SeqIsPath DEF Root
    <3>2. Prefixed(Root) \subseteq {Root}
      <4>1. \A q \in Prefixed(Root) : IsPath(q) /\ Len(q) <= 0
        BY <3>1, PrefixedIs
      <4>2. \A q : IsPath(q) /\ Len(q) <= 0 => q = Root
        <5>1. TAKE q
        <5>2. HAVE IsPath(q) /\ Len(q) <= 0
        <5>3. Len(q) = 0
          BY <5>2, PathIs
        <5>4. QED BY <3>1, <5>2, <5>3, SamePath
      <4>3. QED BY <4>1, <4>2
    <3>3. QED BY <2>1, <3>1, <3>2 DEF Closed
  <2>4. IsFiniteSet(DOMAIN tree)
    BY <2>1, FS_Singleton
  <2>5. \A p \in DOMAIN tree : Len(p) <= Depth + 1
    <3>1. Len(Root) = 0 /\ Depth \in Nat
      BY DepthIs DEF Root
    <3>2. QED BY <2>1, <3>1
  <2>6. QED BY <2>1, <2>2, <2>3, <2>4, <2>5 DEF IsTree
<1>2. AreEvents(pending) /\ AreEvents(channel)
  BY EventsOf
<1>3. IsRun
  BY DEF IsRun, NoRun
<1>4. QED BY <1>1, <1>2, <1>3 DEF TypesInv

\* What a step needs to leave a run as it was.
LEMMA RunStays == ASSUME IsRun, UNCHANGED run PROVE IsRun'
<1>1. Source' = Source /\ Node' = Node /\ Target' = Target
  BY SameEvent
<1>2. QED BY <1>1 DEF IsRun

\* A run that goes on to a step that needs no more than the event.
LEMMA RunGoesTo ==
  ASSUME IsRun, NEW at, run' = [run EXCEPT !.at = at], run.at # "idle", at # "make",
         at \in {"rename", "copy", "remove", "audit"} => Node # Root /\ Target # Source
  PROVE  IsRun' /\ run'.at = at /\ run'.event = run.event
<1>1. /\ run'.at = at /\ run'.event = run.event
      /\ run' = [at |-> at, event |-> run.event, base |-> run.base, node |-> run.node, made |-> run.made]
  BY DEF IsRun
<1>2. Source' = Source /\ Node' = Node /\ Target' = Target
  BY <1>1, SameEvent
<1>3. run' = [at |-> run'.at, event |-> run'.event, base |-> run'.base, node |-> run'.node,
              made |-> run'.made]
  BY <1>1
<1>4. IsEvent(run'.event)
  BY <1>1 DEF IsRun
<1>5. QED BY <1>1, <1>2, <1>3, <1>4 DEF IsRun

\* A run that goes on to make the nodes below one.
LEMMA RunMakes ==
  ASSUME IsRun, NEW base, NEW node, MakeBelow(base, node), run.at # "idle",
         IsPath(base), node \in Nodes \cup {Root}, Len(base) <= Len(node) + 1
  PROVE  IsRun' /\ run'.at = "make"
<1>1. /\ run'.at = "make" /\ run'.event = run.event /\ run'.base = base /\ run'.node = node
      /\ run' = [at |-> "make", event |-> run.event, base |-> base, node |-> node, made |-> run.made]
  BY DEF IsRun, MakeBelow
<1>2. run' = [at |-> run'.at, event |-> run'.event, base |-> run'.base, node |-> run'.node,
              made |-> run'.made]
  BY <1>1
<1>3. IsEvent(run'.event)
  BY <1>1 DEF IsRun
<1>4. QED BY <1>1, <1>2, <1>3 DEF IsRun

\* A new name in the same folder.
LEMMA NewName ==
  ASSUME NEW p, InReach(p), p # Root, NEW name, Append(Front(p), name) # p
  PROVE  Siblings(p, Append(Front(p), name)) /\ Append(Front(p), name) # Root
<1> DEFINE new == Append(Front(p), name)
<1>1. IsPath(Front(p)) /\ Len(Front(p)) = Len(p) - 1 /\ Len(p) \in Nat \ {0}
  BY FrontIs DEF InReach
<1>2. IsPath(new) /\ Len(new) = Len(Front(p)) + 1 /\ new # Root
  BY <1>1, AppendIs
<1> HIDE DEF new
<1>3. Len(new) = Len(p)
  BY <1>1, <1>2
<1>4. QED BY <1>2, <1>3 DEF Siblings, InReach, new

\* Whatever the user does.
LEMMA TypesUser == TypesInv /\ UserActs => TypesInv'
<1> SUFFICES ASSUME TypesInv, UserActs PROVE TypesInv'
  OBVIOUS
<1> USE DEF TypesInv
<1>1. AreEvents(channel)' /\ IsRun'
  <2>1. UNCHANGED channel /\ UNCHANGED run
    BY DEF UserActs, triggers
  <2>2. QED BY <2>1, RunStays
<1>2. Unsaved # {} => NewFile \in Files
  BY DEF Unsaved, NewFile
<1>3. \A q \in DOMAIN tree : InReach(q)
  BY DEF IsTree, Closed, InReach
<1>4. CASE UserMakes
  <2>1. PICK p \in DOMAIN tree, name \in Names :
          LET new == Append(p, name)
          IN  /\ ~IsDir(tree, new) /\ Len(new) <= Depth
              /\ \/ /\ tree' = CreateDirAll(tree, new)
                    /\ pending' = pending \o FoldersMade(<<new>>)
                    /\ UNCHANGED saved
                 \/ /\ Unsaved # {} /\ saved' = saved \cup {NewFile}
                    /\ tree' = [q \in DOMAIN tree \cup {new} |-> IF q = new THEN NewFile ELSE tree[q]]
                    /\ pending' = pending \o FoldersMade(<<new>>) \o <<Event("other", new)>>
    BY <1>4 DEF UserMakes
  <2> DEFINE new == Append(p, name)
  <2>2. /\ IsPath(p) /\ IsPath(new) /\ Len(new) = Len(p) + 1 /\ new # Root
        /\ Len(p) \in Nat /\ Len(new) <= Depth
        /\ \A i \in 1..Len(p) : new[i] = p[i]
    BY <1>3, <2>1, AppendIs, PathIs DEF InReach
  <2> HIDE DEF new
  <2>3. InReach(new)
    BY <2>2, DepthIs DEF InReach
  <2>4. AreEvents(FoldersMade(<<new>>)) /\ AreEvents(<<Event("other", new)>>)
    <3>1. <<new>> \in Seq({new}) /\ DOMAIN <<new>> = {1} /\ <<new>>[1] = new
      OBVIOUS
    <3>2. AreEvents(FoldersMade(<<new>>))
      BY <2>2, <2>3, <3>1, SeqIsPath, EventsMade
    <3>3. IsEvent(Event("other", new))
      BY <2>2, <2>3 DEF IsEvent, Event
    <3>4. QED BY <3>2, <3>3, EventsOf
  <2>5. AreEvents(pending \o FoldersMade(<<new>>))
    BY <2>4, EventsJoin
  <2>6. CASE tree' = CreateDirAll(tree, new) /\ pending' = pending \o FoldersMade(<<new>>) /\ UNCHANGED saved
    <3>1. IsTree(tree)'
      BY <2>3, <2>6, CreateIs
    <3>2. QED BY <1>1, <2>5, <2>6, <3>1
  <2>7. CASE /\ Unsaved # {} /\ saved' = saved \cup {NewFile}
             /\ tree' = [q \in DOMAIN tree \cup {new} |-> IF q = new THEN NewFile ELSE tree[q]]
             /\ pending' = pending \o FoldersMade(<<new>>) \o <<Event("other", new)>>
    <3>1. AreEvents(pending)'
      BY <2>4, <2>5, <2>7, EventsJoin
    <3>2. DOMAIN tree' = DOMAIN tree \cup {new}
      BY <2>7
    <3>3. tree' \in [DOMAIN tree' -> Files \cup {NoFile}]
      BY <1>2, <2>7 DEF IsTree
    <3>4. Closed(DOMAIN tree')
      <4>1. Prefixed(new) \subseteq Prefixed(p) \cup {new}
        <5>1. SUFFICES ASSUME NEW n \in 0..Len(new) PROVE SubSeq(new, 1, n) \in Prefixed(p) \cup {new}
          BY DEF Prefixed
        <5>2. CASE n = Len(new)
          <6>1. SubSeq(new, 1, n) = new
            BY <2>2, <5>2, PrefixReflexive, PrefixIsCut
          <6>2. QED BY <6>1
        <5>3. CASE n \in 0..Len(p)
          <6>1. \A i \in 1..n : i \in 1..Len(p)
            BY <2>2, <5>3
          <6>2. SubSeq(new, 1, n) = SubSeq(p, 1, n)
            BY <2>2, <5>1, <5>3, <6>1, CutIs, SamePath
          <6>3. QED BY <5>3, <6>2 DEF Prefixed
        <5>4. QED BY <2>2, <5>2, <5>3
      <4>2. Prefixed(p) \subseteq DOMAIN tree
        BY DEF IsTree, Closed
      <4>3. QED BY <2>2, <3>2, <4>1, <4>2 DEF IsTree, Closed
    <3>5. IsFiniteSet(DOMAIN tree')
      BY <3>2, FS_AddElement DEF IsTree
    <3>6. IsTree(tree)'
      BY <2>3, <3>2, <3>3, <3>4, <3>5 DEF IsTree, InReach
    <3>7. QED BY <1>1, <1>2, <2>7, <3>1, <3>6
  <2>8. QED BY <2>1, <2>6, <2>7 DEF new
<1>5. CASE UserRenames
  <2>1. PICK p \in DOMAIN tree \ {Root}, name \in Names :
          LET new == Append(Front(p), name)
          IN  /\ ~IsDir(tree, new)
              /\ tree' = RenameDir(tree, p, new)
              /\ pending' = Renamed(pending, p, new)
              /\ UNCHANGED <<enabled, saved>>
    BY <1>5 DEF UserRenames
  <2> DEFINE new == Append(Front(p), name)
  <2>2. Siblings(p, new) /\ new # Root
    <3>1. new # p
      BY <2>1 DEF IsDir
    <3>2. QED BY <1>3, <3>1, NewName
  <2>3. IsTree(tree)' /\ AreEvents(pending)'
    BY <2>1, <2>2, RenameIs, EventsRenamed DEF Siblings
  <2>4. QED BY <1>1, <2>1, <2>3
<1>6. CASE UserSaves
  <2>1. PICK p \in DOMAIN tree \ {Root} :
          /\ Unsaved # {} /\ saved' = saved \cup {NewFile}
          /\ tree[p] = NoFile
          /\ tree' = [tree EXCEPT ![p] = NewFile]
          /\ pending' = Append(pending, Event("other", p))
    BY <1>6 DEF UserSaves
  <2>2. IsEvent(Event("other", p))
    BY <1>3 DEF IsEvent, Event
  <2>3. AreEvents(pending)'
    BY <2>1, <2>2, EventsAppend
  <2>4. IsTree(tree)'
    BY <1>2, <2>1 DEF IsTree
  <2>5. QED BY <1>1, <1>2, <2>1, <2>3, <2>4
<1>7. CASE UserSwitches
  BY <1>1, <1>7, EventsOf DEF UserSwitches
<1>8. QED BY <1>4, <1>5, <1>6, <1>7 DEF UserActs

\* What the triggers do.
LEMMA TypesTriggers ==
  ASSUME TypesInv, Debounce \/ Receive \/ SuppressionEnds \/ Suppress \/ End
  PROVE  TypesInv'
<1> USE DEF TypesInv
<1>1. CASE Debounce
  <2>1. PICK n \in 1..Len(pending) : pending' = SubSeq(pending, n + 1, Len(pending))
    BY <1>1 DEF Debounce
  <2>2. Len(pending) \in Nat /\ n \in 0..Len(pending) /\ pending # <<>>
    BY <2>1, PathIs DEF AreEvents
  <2>3. AreEvents(pending)' /\ AreEvents(channel)'
    BY <1>1, <2>1, <2>2, EventsRest, EventsTail, EventsAppend DEF Debounce
  <2>4. IsRun'
    BY <1>1, RunStays DEF Debounce
  <2>5. QED BY <1>1, <2>3, <2>4 DEF Debounce, observed
<1>2. CASE Receive
  <2>1. AreEvents(channel)' /\ IsEvent(Head(channel))
    BY <1>2, EventsTail DEF Receive
  <2>2. IsRun'
    <3>1. CASE UNCHANGED run
      BY <3>1, RunStays
    <3>2. CASE run' = [NoRun EXCEPT !.at = "read", !.event = Head(channel)]
      <4>1. run' = [at |-> "read", event |-> Head(channel), base |-> Root, node |-> Root, made |-> 0]
        BY <3>2 DEF NoRun
      <4>2. QED BY <2>1, <4>1 DEF IsRun
    <3>3. QED BY <1>2, <3>1, <3>2 DEF Receive
  <2>3. QED BY <1>2, <2>1, <2>2 DEF Receive, folders, observed
<1>3. CASE SuppressionEnds \/ Suppress
  BY <1>3, RunStays DEF SuppressionEnds, Suppress, folders, observed
<1>4. CASE End
  <2>1. IsRun'
    BY <1>4 DEF End, IsRun, NoRun
  <2>2. QED BY <1>4, <2>1 DEF End, folders, observed
<1>5. QED BY <1>1, <1>2, <1>3, <1>4

\* Folders that a step makes, and that it hears of.
LEMMA MadeAndHeard ==
  ASSUME IsTree(tree), AreEvents(pending), NEW p, InReach(p)
  PROVE  IsTree(CreateDirAll(tree, p)) /\ AreEvents(pending \o FoldersMade(Missing(tree, p)))
BY CreateIs, EventsMissing, EventsJoin

\* A run up to its first change, and after its last rename.
LEMMA TypesRead ==
  ASSUME TypesInv, ReadForPlan \/ ReadForFolder \/ Audit
  PROVE  IsRun' /\ UNCHANGED folders
<1> USE DEF TypesInv
<1>1. CASE ReadForPlan
  <2>1. IsPath(Root) /\ Len(Root) = 0
    BY PrefixReflexive, EmptySeq, SeqIsPath DEF Root
  <2>2. CASE MakeBelow(Root, Root)
    BY <1>1, <2>1, <2>2, RunMakes DEF ReadForPlan
  <2>3. CASE To("end")
    BY <1>1, <2>3, RunGoesTo DEF ReadForPlan, To
  <2>4. QED BY <1>1, <2>2, <2>3 DEF ReadForPlan
<1>2. CASE ReadForFolder
  <2>1. run.at = "read" /\ IsEvent(run.event) /\ UNCHANGED folders
    BY <1>2 DEF ReadForFolder, IsRun
  <2>2. CASE To("end")
    BY <2>1, <2>2, RunGoesTo DEF To
  <2>3. CASE MakeBelow(Target, Node) /\ Node # Root
    <3>1. IsPath(Target) /\ Node \in Nodes /\ Len(Target) <= Len(Node) + 1
      BY <2>1, <2>3, CorrectedIs DEF InReach
    <3>2. QED BY <2>1, <2>3, <3>1, RunMakes
  <2>4. CASE To("rename") /\ Node # Root /\ Target # Source
    BY <2>1, <2>4, RunGoesTo DEF To
  <2>5. QED BY <1>2, <2>2, <2>3, <2>4 DEF ReadForFolder
<1>3. CASE Audit
  <2>1. run.at = "audit" /\ IsEvent(run.event) /\ Node # Root /\ UNCHANGED folders
    BY <1>3 DEF Audit, IsRun
  <2>2. CASE To("end")
    BY <2>1, <2>2, RunGoesTo DEF To
  <2>3. CASE MakeBelow(Target, Node)
    <3>1. IsPath(Target) /\ Node \in Nodes /\ Len(Target) <= Len(Node) + 1
      BY <2>1, CorrectedIs DEF InReach
    <3>2. QED BY <2>1, <2>3, <3>1, RunMakes
  <2>4. QED BY <1>3, <2>2, <2>3 DEF Audit
<1>4. QED BY <1>1, <1>2, <1>3

\* A run's changes of the folders.
LEMMA TypesChange ==
  ASSUME TypesInv, Rename \/ Copy \/ RemoveSource
  PROVE  IsTree(tree)' /\ AreEvents(pending)' /\ IsRun'
<1> USE DEF TypesInv
<1>1. ASSUME run.at \in {"rename", "copy", "remove"}
      PROVE  /\ Node # Root /\ Target # Source /\ Siblings(Source, Target)
             /\ InReach(Target) /\ Target # Root /\ InReach(Front(Target))
  <2>1. IsEvent(run.event) /\ Node # Root /\ Target # Source
    BY <1>1 DEF IsRun
  <2>2. QED BY <2>1, CorrectedIs
<1>2. ASSUME run.at \in {"rename", "copy", "remove"}, NEW at \in {"audit", "copy", "remove", "end"}, To(at)
      PROVE  IsRun'
  BY <1>1, <1>2, RunGoesTo DEF To
<1>3. CASE Rename
  <2> DEFINE made == CreateDirAll(tree, Front(Target))
             heard == pending \o FoldersMade(Missing(tree, Front(Target)))
  <2>1. /\ run.at = "rename"
        /\ \/ /\ tree' = RenameDir(made, Source, Target)
              /\ pending' = Renamed(heard, Source, Target)
              /\ To("audit")
           \/ tree' = made /\ pending' = heard /\ To("copy")
    BY <1>3 DEF Rename
  <2>2. IsTree(made) /\ AreEvents(heard)
    BY <1>1, <2>1, MadeAndHeard
  <2> HIDE DEF made, heard
  <2>3. IsTree(RenameDir(made, Source, Target)) /\ AreEvents(Renamed(heard, Source, Target))
    BY <1>1, <2>1, <2>2, RenameIs, EventsRenamed
  <2>4. QED BY <1>2, <2>1, <2>2, <2>3
<1>4. CASE Copy
  <2> DEFINE made == CreateDirAll(tree, Target)
             heard == pending \o FoldersMade(Missing(tree, Target))
             more == DOMAIN tree' \ DOMAIN made
  <2>1. /\ run.at = "copy"
        /\ \/ /\ tree' = CopyDir(tree, Source, Target) /\ To("remove")
              /\ pending' = heard \o FoldersMade(SetToSeq(more))
           \/ tree' = made /\ pending' = heard /\ To("end")
    BY <1>4 DEF Copy
  <2>2. IsTree(made) /\ AreEvents(heard)
    BY <1>1, <2>1, MadeAndHeard
  <2>3. Root \in DOMAIN made
    BY <2>2 DEF IsTree
  <2> HIDE DEF made, heard
  <2>4. IsTree(CopyDir(tree, Source, Target))
    BY <1>1, <2>1, CopyIs
  <2>5. ASSUME IsTree(tree') PROVE AreEvents(FoldersMade(SetToSeq(more)))
    <3>1. IsFiniteSet(more)
      BY <2>5, FS_Subset DEF IsTree
    <3>2. \A p \in more : InReach(p) /\ p # Root
      BY <2>3, <2>5 DEF IsTree, InReach, Closed
    <3> HIDE DEF more
    <3>3. QED BY <3>1, <3>2, EventsOfSet
  <2> HIDE DEF more
  <2>6. QED BY <1>2, <2>1, <2>2, <2>4, <2>5, EventsJoin
<1>5. CASE RemoveSource
  <2>1. run.at = "remove" /\ tree' = RemoveDirAll(tree, Source) /\ UNCHANGED pending
    BY <1>5 DEF RemoveSource
  <2>2. IsTree(tree')
    BY <1>1, <2>1, RemoveIs DEF Siblings, InReach
  <2>3. IsRun'
    BY <1>2, <1>5 DEF RemoveSource
  <2>4. QED BY <2>1, <2>2, <2>3
<1>6. QED BY <1>3, <1>4, <1>5

\* A node that a run makes is at most one level deeper than in the plan.
LEMMA TypesMake ==
  ASSUME TypesInv, Make
  PROVE  /\ IsTree(tree)' /\ AreEvents(pending)' /\ IsRun'
         /\ run'.at \in {"make", "end"}
         /\ \A p \in DOMAIN tree : p \in DOMAIN tree' /\ tree'[p] = tree[p]
<1> USE DEF TypesInv
<1> DEFINE left == {n \in Under(run.node) : n > run.made}
<1>1. /\ run.at = "make" /\ IsEvent(run.event)
      /\ IsPath(run.base) /\ run.node \in Nodes \cup {Root} /\ IsPath(run.node)
      /\ Len(run.base) <= Len(run.node) + 1
  <2>1. /\ run.at = "make" /\ IsEvent(run.event)
        /\ IsPath(run.base) /\ run.node \in Nodes \cup {Root}
        /\ Len(run.base) <= Len(run.node) + 1
    BY DEF Make, IsRun
  <2>2. IsPath(run.node)
    BY <2>1, FirstNode, PrefixReflexive
  <2>3. QED BY <2>1, <2>2
<1>2. CASE To("end") /\ UNCHANGED folders
  BY <1>1, <1>2, RunGoesTo DEF To, folders
<1>3. CASE left # {}
  <2>1. PICK n \in left :
          LET next == Rebased(run.node, run.base, Plan[n])
          IN  /\ tree' = CreateDirAll(tree, next)
              /\ pending' = pending \o FoldersMade(Missing(tree, next))
              /\ (run' = [run EXCEPT !.made = n] /\ NoFault) \/ (To("end") /\ Fault)
    BY <1>3 DEF Make
  <2> DEFINE next == Rebased(run.node, run.base, Plan[n])
  <2>2. n \in DOMAIN Plan /\ IsPrefix(run.node, Plan[n])
    BY DEF Under
  <2>3. Plan[n] \in Nodes /\ IsPath(Plan[n]) /\ Len(Plan[n]) <= Depth
    BY <2>2, DepthIs, FirstNode DEF Nodes, Range
  <2>4. IsPath(next) /\ Len(next) = Len(run.base) + (Len(Plan[n]) - Len(run.node))
    <3>1. IsRebased(next, run.node, run.base, Plan[n])
      BY <1>1, <2>2, <2>3, RebasedIs
    <3> HIDE DEF next
    <3>2. QED BY <3>1 DEF IsRebased
  <2> HIDE DEF next
  <2>5. /\ Len(run.base) \in Nat /\ Len(run.node) \in Nat /\ Len(Plan[n]) \in Nat /\ Depth \in Nat
    BY <1>1, <2>3, PathIs, DepthIs
  <2>6. InReach(next)
    <3>1. Len(run.base) <= Len(run.node) + 1 /\ Len(Plan[n]) <= Depth
      BY <1>1, <2>3
    <3>2. Len(next) <= Depth + 1
      <4> DEFINE b == Len(run.base)
                 k == Len(run.node)
                 l == Len(Plan[n])
      <4>1. b \in Nat /\ k \in Nat /\ l \in Nat /\ b <= k + 1 /\ l <= Depth /\ Len(next) = b + (l - k)
        BY <2>4, <2>5, <3>1
      <4> HIDE DEF b, k, l
      <4>2. QED BY <2>5, <4>1
    <3>3. QED BY <2>4, <3>2 DEF InReach
  <2>7. IsTree(tree)' /\ AreEvents(pending)'
    BY <2>1, <2>6, MadeAndHeard DEF next
  <2>8. \A p \in DOMAIN tree : p \in DOMAIN tree' /\ tree'[p] = tree[p]
    <3>1. Keeps(tree, CreateDirAll(tree, next)) /\ tree' = CreateDirAll(tree, next)
      BY <2>1, <2>6, CreateIs DEF next
    <3>2. QED BY <3>1 DEF Keeps
  <2>9. IsRun' /\ run'.at \in {"make", "end"}
    <3>1. CASE run' = [run EXCEPT !.made = n]
      <4>1. /\ run' = [at |-> "make", event |-> run.event, base |-> run.base, node |-> run.node,
                        made |-> n]
            /\ run'.at = "make" /\ run'.event = run.event /\ run'.base = run.base /\ run'.node = run.node
        BY <1>1, <3>1 DEF IsRun
      <4>2. run' = [at |-> run'.at, event |-> run'.event, base |-> run'.base, node |-> run'.node,
                    made |-> run'.made]
        BY <4>1
      <4>3. QED BY <1>1, <4>1, <4>2 DEF IsRun
    <3>2. CASE To("end")
      BY <1>1, <3>2, RunGoesTo DEF To
    <3>3. QED BY <2>1, <3>1, <3>2
  <2>10. QED BY <2>7, <2>8, <2>9
<1>4. QED BY <1>2, <1>3 DEF Make

\* Every step keeps it.
LEMMA TypesNext == TypesInv /\ [Next]_vars => TypesInv'
<1> SUFFICES ASSUME TypesInv, [Next]_vars PROVE TypesInv'
  OBVIOUS
<1>1. CASE UserActs
  BY <1>1, TypesUser
<1>2. CASE Debounce \/ Receive \/ SuppressionEnds \/ Suppress \/ End
  BY <1>2, TypesTriggers
<1>3. CASE /\ ReadForPlan \/ ReadForFolder \/ Rename \/ Copy \/ RemoveSource \/ Audit \/ Make
           /\ UNCHANGED <<enabled, triggers, acts, observed>>
  <2>1. UNCHANGED <<channel, saved>>
    BY <1>3 DEF triggers, observed
  <2>2. CASE ReadForPlan \/ ReadForFolder \/ Audit
    <3>1. IsRun' /\ UNCHANGED <<tree, pending>>
      BY <2>2, TypesRead DEF folders
    <3>2. QED BY <2>1, <3>1 DEF TypesInv
  <2>3. CASE Rename \/ Copy \/ RemoveSource
    <3>1. IsTree(tree)' /\ AreEvents(pending)' /\ IsRun'
      BY <2>3, TypesChange
    <3>2. QED BY <2>1, <3>1 DEF TypesInv
  <2>4. CASE Make
    <3>1. IsTree(tree)' /\ AreEvents(pending)' /\ IsRun'
      BY <2>4, TypesMake
    <3>2. QED BY <2>1, <3>1 DEF TypesInv
  <2>5. QED BY <1>3, <2>2, <2>3, <2>4
<1>4. CASE UNCHANGED vars
  BY <1>4, RunStays DEF TypesInv, vars, folders, triggers, observed
<1>5. QED BY <1>1, <1>2, <1>3, <1>4 DEF Next, RunStep

\* The trees of all reachable states are well formed, and so are the run, the
\* events and the files that the user has saved.
THEOREM WellFormed == Spec => []TypesInv
BY TypesInit, TypesNext, PTL DEF Spec

\* Whatever a run makes, and however often it hears of its own folders, no folder
\* below the watched root gets deeper than the plan and one level more.
THEOREM FoldersStayShallow == Spec => []NestingBounded
<1>1. TypesInv => NestingBounded
  BY DEF TypesInv, IsTree, NestingBounded
<1>2. QED BY <1>1, WellFormed, PTL

-----------------------------------------------------------------------------
(***************************************************************************)
(* No file is lost.                                                        *)
(***************************************************************************)

\* What a run has found out about the folders it is about to change: the name
\* is free until the rename or the copy; then the copy is complete.
RunKnows ==
  /\ run.at \in {"rename", "copy"} => ~IsDir(tree, Target)
  /\ run.at = "remove" => Moved(tree, Source, Target)

FilesInv == contested \/ (saved \subseteq FilesIn(tree) /\ RunKnows)

\* Folders that are added cost no file.
LEMMA KeepsFiles ==
  ASSUME NEW t, NEW u, Keeps(t, u)
  PROVE  FilesIn(t) \subseteq FilesIn(u)
BY DEF FilesIn, Keeps

\* What the user does outside of a rename loses no file.
LEMMA FilesUser ==
  ASSUME TypesInv, FilesInv, UserActs
  PROVE  FilesInv'
<1> USE DEF TypesInv
<1>1. CASE contested \/ run.at \in {"rename", "copy", "remove"}
  BY <1>1 DEF UserActs, FilesInv
<1>2. CASE ~contested /\ ~(run.at \in {"rename", "copy", "remove"})
  <2>1. RunKnows' /\ saved \subseteq FilesIn(tree)
    BY <1>2 DEF RunKnows, UserActs, FilesInv
  <2>2. \A q \in DOMAIN tree : InReach(q)
    BY DEF IsTree, Closed, InReach
  <2>3. Unsaved # {} => NewFile # NoFile
    BY NoFileAssumption DEF Unsaved, NewFile
  <2>4. saved' \subseteq FilesIn(tree')
    <3>1. CASE UserMakes
      <4>1. PICK p \in DOMAIN tree, name \in Names :
              LET new == Append(p, name)
              IN  /\ ~IsDir(tree, new) /\ Len(new) <= Depth
                  /\ \/ tree' = CreateDirAll(tree, new) /\ UNCHANGED saved
                     \/ /\ Unsaved # {} /\ saved' = saved \cup {NewFile}
                        /\ tree' = [q \in DOMAIN tree \cup {new} |-> IF q = new THEN NewFile ELSE tree[q]]
        BY <3>1 DEF UserMakes
      <4> DEFINE new == Append(p, name)
      <4>2. IsPath(new) /\ Len(new) \in Nat
        BY <2>2, AppendIs, PathIs DEF InReach
      <4> HIDE DEF new
      <4>3. CASE tree' = CreateDirAll(tree, new) /\ UNCHANGED saved
        <5>1. InReach(new)
          BY <4>1, <4>2, DepthIs DEF InReach, new
        <5>2. FilesIn(tree) \subseteq FilesIn(CreateDirAll(tree, new))
          BY <5>1, CreateIs, KeepsFiles
        <5>3. QED BY <2>1, <4>3, <5>2
      <4>4. CASE /\ Unsaved # {} /\ saved' = saved \cup {NewFile} /\ ~IsDir(tree, new)
                 /\ tree' = [q \in DOMAIN tree \cup {new} |-> IF q = new THEN NewFile ELSE tree[q]]
        <5>1. DOMAIN tree' = DOMAIN tree \cup {new} /\ tree'[new] = NewFile
          BY <4>4
        <5>2. \A q \in DOMAIN tree : tree'[q] = tree[q]
          BY <4>4 DEF IsDir
        <5>3. NewFile \in FilesIn(tree')
          BY <2>3, <4>4, <5>1 DEF FilesIn
        <5>4. FilesIn(tree) \subseteq FilesIn(tree')
          BY <5>1, <5>2 DEF FilesIn
        <5>5. QED BY <2>1, <4>4, <5>3, <5>4
      <4>5. QED BY <4>1, <4>3, <4>4 DEF new
    <3>2. CASE UserRenames
      <4>1. PICK p \in DOMAIN tree \ {Root}, name \in Names :
              LET new == Append(Front(p), name)
              IN  ~IsDir(tree, new) /\ tree' = RenameDir(tree, p, new) /\ UNCHANGED saved
        BY <3>2 DEF UserRenames
      <4> DEFINE new == Append(Front(p), name)
      <4>2. Siblings(p, new)
        <5>1. new # p
          BY <4>1 DEF IsDir
        <5>2. QED BY <2>2, <5>1, NewName
      <4>3. FilesIn(tree) \subseteq FilesIn(RenameDir(tree, p, new))
        BY <4>1, <4>2, RenameIs
      <4>4. QED BY <2>1, <4>1, <4>3
    <3>3. CASE UserSaves
      <4>1. PICK p \in DOMAIN tree \ {Root} :
              /\ Unsaved # {} /\ saved' = saved \cup {NewFile}
              /\ tree[p] = NoFile
              /\ tree' = [tree EXCEPT ![p] = NewFile]
        BY <3>3 DEF UserSaves
      <4>2. DOMAIN tree' = DOMAIN tree /\ tree'[p] = NewFile
        BY <4>1
      <4>3. \A q \in DOMAIN tree : tree[q] # NoFile => tree'[q] = tree[q]
        BY <4>1
      <4>4. NewFile \in FilesIn(tree') /\ FilesIn(tree) \subseteq FilesIn(tree')
        BY <2>3, <4>1, <4>2, <4>3 DEF FilesIn
      <4>5. QED BY <2>1, <4>1, <4>4
    <3>4. CASE UserSwitches
      BY <2>1, <3>4 DEF UserSwitches
    <3>5. QED BY <3>1, <3>2, <3>3, <3>4 DEF UserActs
  <2>5. QED BY <2>1, <2>4 DEF FilesInv
<1>3. QED BY <1>1, <1>2

\* A correction loses no file: it renames or copies to a free name, and removes
\* what it has copied.
LEMMA FilesChange ==
  ASSUME TypesInv, saved \subseteq FilesIn(tree), RunKnows, UNCHANGED saved,
         Rename \/ Copy \/ RemoveSource
  PROVE  saved' \subseteq FilesIn(tree') /\ RunKnows'
<1> USE DEF TypesInv
<1>1. ASSUME run.at \in {"rename", "copy", "remove"}
      PROVE  /\ Siblings(Source, Target) /\ InReach(Target)
             /\ InReach(Front(Target)) /\ Len(Front(Target)) < Len(Target)
  <2>1. IsEvent(run.event) /\ Node # Root /\ Target # Source
    BY <1>1 DEF IsRun
  <2>2. QED BY <2>1, CorrectedIs
<1>2. ASSUME NEW at, To(at), NEW now, at = now
      PROVE  run'.at = now /\ Source' = Source /\ Target' = Target
  BY <1>2, SameEvent DEF To, IsRun
<1>3. CASE Rename
  <2> DEFINE made == CreateDirAll(tree, Front(Target))
  <2>1. /\ run.at = "rename"
        /\ \/ tree' = RenameDir(made, Source, Target) /\ To("audit")
           \/ tree' = made /\ To("copy")
    BY <1>3 DEF Rename
  <2>2. /\ IsTree(made) /\ DOMAIN made = DOMAIN tree \cup Prefixed(Front(Target))
        /\ FilesIn(tree) \subseteq FilesIn(made)
    BY <1>1, <2>1, CreateIs, KeepsFiles
  <2> HIDE DEF made
  <2>3. ~IsDir(made, Target)
    <3>1. Target \notin Prefixed(Front(Target))
      <4>1. \A q \in Prefixed(Front(Target)) : Len(q) <= Len(Front(Target)) /\ IsPath(q)
        BY <1>1, <2>1, PrefixedIs DEF InReach
      <4>2. Len(Target) \in Nat /\ Len(Front(Target)) \in Nat
        BY <1>1, <2>1, PathIs DEF InReach
      <4>3. QED BY <1>1, <2>1, <4>1, <4>2
    <3>2. QED BY <2>1, <2>2, <3>1 DEF IsDir, RunKnows
  <2>4. CASE tree' = RenameDir(made, Source, Target) /\ To("audit")
    <3>1. FilesIn(made) \subseteq FilesIn(tree')
      BY <1>1, <2>1, <2>2, <2>3, <2>4, RenameIs
    <3>2. RunKnows'
      BY <1>2, <2>4 DEF RunKnows
    <3>3. QED BY <2>2, <3>1, <3>2
  <2>5. CASE tree' = made /\ To("copy")
    <3>1. run'.at = "copy" /\ Target' = Target
      BY <1>2, <2>5
    <3>2. RunKnows'
      BY <2>3, <2>5, <3>1 DEF RunKnows, IsDir
    <3>3. QED BY <2>2, <2>5, <3>2
  <2>6. QED BY <2>1, <2>4, <2>5
<1>4. CASE Copy
  <2>1. /\ run.at = "copy"
        /\ \/ tree' = CopyDir(tree, Source, Target) /\ To("remove")
           \/ tree' = CreateDirAll(tree, Target) /\ To("end")
    BY <1>4 DEF Copy
  <2>2. CASE tree' = CopyDir(tree, Source, Target) /\ To("remove")
    <3>1. Moved(tree', Source, Target) /\ FilesIn(tree) \subseteq FilesIn(tree')
      BY <1>1, <2>1, <2>2, CopyMoves DEF RunKnows
    <3>2. run'.at = "remove" /\ Source' = Source /\ Target' = Target
      BY <1>2, <2>2
    <3>3. RunKnows'
      BY <3>1, <3>2 DEF RunKnows
    <3>4. QED BY <3>1, <3>3
  <2>3. CASE tree' = CreateDirAll(tree, Target) /\ To("end")
    <3>1. FilesIn(tree) \subseteq FilesIn(tree')
      BY <1>1, <2>1, <2>3, CreateIs, KeepsFiles
    <3>2. RunKnows'
      BY <1>2, <2>3 DEF RunKnows
    <3>3. QED BY <3>1, <3>2
  <2>4. QED BY <2>1, <2>2, <2>3
<1>5. CASE RemoveSource
  <2>1. /\ run.at = "remove" /\ tree' = RemoveDirAll(tree, Source)
        /\ To("audit") \/ To("end")
    BY <1>5 DEF RemoveSource
  <2>2. FilesIn(tree) \subseteq FilesIn(tree')
    BY <1>1, <2>1, RemoveMoved DEF RunKnows
  <2>3. RunKnows'
    BY <1>2, <2>1 DEF RunKnows
  <2>4. QED BY <2>2, <2>3
<1>6. QED BY <1>3, <1>4, <1>5

\* Every step keeps the files, or the user's act is on record.
LEMMA FilesNext == TypesInv /\ FilesInv /\ [Next]_vars => FilesInv'
<1> SUFFICES ASSUME TypesInv, FilesInv, [Next]_vars PROVE FilesInv'
  OBVIOUS
<1>1. CASE UserActs
  BY <1>1, FilesUser
<1>2. CASE UNCHANGED <<contested, saved>>
  <2>1. CASE contested
    BY <1>2, <2>1 DEF FilesInv
  <2>2. CASE ~contested
    <3>1. saved \subseteq FilesIn(tree) /\ RunKnows
      BY <2>2 DEF FilesInv
    <3>2. CASE UNCHANGED <<tree, run>>
      BY <1>2, <3>1, <3>2, SameEvent DEF FilesInv, RunKnows
    <3>3. CASE UNCHANGED tree /\ (run'.at \in {"idle", "read", "audit", "make", "end"}
                 \/ (run'.at = "rename" /\ ~IsDir(tree, Target) /\ run'.event = run.event))
      <4>1. RunKnows'
        <5>1. CASE run'.at \in {"idle", "read", "audit", "make", "end"}
          BY <5>1 DEF RunKnows
        <5>2. CASE run'.at = "rename" /\ ~IsDir(tree, Target) /\ run'.event = run.event
          BY <3>3, <5>2, SameEvent DEF RunKnows
        <5>3. QED BY <3>3, <5>1, <5>2
      <4>2. QED BY <1>2, <3>1, <3>3, <4>1 DEF FilesInv
    <3>4. CASE Debounce \/ Receive \/ SuppressionEnds \/ Suppress \/ End
      <4>1. UNCHANGED tree
        BY <3>4 DEF Debounce, Receive, SuppressionEnds, Suppress, End, folders
      <4>2. UNCHANGED run \/ run'.at \in {"idle", "read"}
        <5>1. NoRun.at = "idle" /\ \A e : [NoRun EXCEPT !.at = "read", !.event = e].at = "read"
          BY DEF NoRun
        <5>2. QED BY <3>4, <5>1 DEF Debounce, Receive, SuppressionEnds, Suppress, End
      <4>3. QED BY <3>2, <3>3, <4>1, <4>2
    <3>5. CASE ReadForPlan \/ ReadForFolder \/ Audit
      <4>1. UNCHANGED tree
        BY <3>5, TypesRead DEF folders
      <4>2. /\ run = [at |-> run.at, event |-> run.event, base |-> run.base, node |-> run.node,
                      made |-> run.made]
        BY DEF TypesInv, IsRun
      <4>3. \/ run'.at \in {"make", "end"}
            \/ run'.at = "rename" /\ ~IsDir(tree, Target) /\ run'.event = run.event
        BY <3>5, <4>2 DEF ReadForPlan, ReadForFolder, Audit, To, MakeBelow
      <4>4. QED BY <3>3, <4>1, <4>3
    <3>6. CASE Rename \/ Copy \/ RemoveSource
      BY <1>2, <3>1, <3>6, FilesChange DEF FilesInv
    <3>7. CASE Make
      <4>1. run'.at \in {"make", "end"} /\ \A p \in DOMAIN tree : p \in DOMAIN tree' /\ tree'[p] = tree[p]
        BY <3>7, TypesMake
      <4>2. FilesIn(tree) \subseteq FilesIn(tree') /\ RunKnows'
        BY <4>1 DEF FilesIn, RunKnows
      <4>3. QED BY <1>2, <3>1, <4>2 DEF FilesInv
    <3>8. CASE UNCHANGED vars
      BY <3>2, <3>8 DEF vars, folders
    <3>9. UserActs => FilesInv'
      BY <1>1
    <3>10. QED BY <3>4, <3>5, <3>6, <3>7, <3>8, <3>9 DEF Next, RunStep
  <2>3. QED BY <2>1, <2>2
<1>3. UserActs \/ UNCHANGED <<contested, saved>>
  BY DEF Next, RunStep, Debounce, Receive, SuppressionEnds, Suppress, End, observed, vars
<1>4. QED BY <1>1, <1>2, <1>3

\* Corrections rename, merge and remove the user's folders below the watched root;
\* a file is lost only after the user has acted between a run's look at the
\* target and the end of its rename.
THEOREM FilesAreKept == Spec => []LostOnlyIfContested
<1>1. Init => FilesInv
  BY DEF Init, FilesInv, RunKnows, NoRun
<1>2. FilesInv => LostOnlyIfContested
  BY DEF FilesInv, LostOnlyIfContested, Present, FilesIn
<1>3. QED BY <1>1, <1>2, WellFormed, FilesNext, PTL DEF Spec

=============================================================================
