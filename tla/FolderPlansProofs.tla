-------------------------- MODULE FolderPlansProofs --------------------------
(***************************************************************************)
(* What holds of folder blueprints for all plans, trees, applies, steps of *)
(* the user and faults: content is never lost, the simulation is right, a  *)
(* plan can be applied again, and an undo restores.                        *)
(***************************************************************************)
EXTENDS FolderPlans, FolderTheorems

-----------------------------------------------------------------------------
(***************************************************************************)
(* The items of a plan.                                                    *)
(***************************************************************************)

\* The targets of the nodes up to the k-th.
AreBases(base, nodes, k) ==
  base = [n \in 0..k |-> IF n = 0 THEN Root ELSE base[nodes[n].parent] \o nodes[n].target]

\* Nodes whose parents come before them.
AreNodes(nodes) ==
  /\ Len(nodes) \in Nat
  /\ \A n \in 1..Len(nodes) :
       /\ nodes[n].action \in Actions /\ nodes[n].parent \in 0..(n - 1)
       /\ IsPath(nodes[n].source) /\ IsPath(nodes[n].target)

\* A node's target needs the target of its parent only.
LEMMA BasesExist ==
  ASSUME NEW nodes, AreNodes(nodes), NEW k \in 0..Len(nodes)
  PROVE  \E base : AreBases(base, nodes, k)
<1> DEFINE T == {m \in 0..Len(nodes) : ~\E base : AreBases(base, nodes, m)}
<1>1. ASSUME NEW m \in T PROVE \E l \in T : ~(m <= l)
  <2>1. m \in 0..Len(nodes) /\ Len(nodes) \in Nat
    BY DEF AreNodes
  <2>2. CASE m = 0
    <3>1. AreBases([n \in 0..0 |-> Root], nodes, 0)
      BY DEF AreBases
    <3>2. QED BY <2>2, <3>1
  <2>3. CASE m # 0
    <3>1. m - 1 \in 0..Len(nodes) /\ ~(m <= m - 1) /\ m \in 1..Len(nodes)
      BY <2>1, <2>3
    <3>2. SUFFICES ASSUME m - 1 \notin T PROVE FALSE
      BY <3>1
    <3>3. PICK base : AreBases(base, nodes, m - 1)
      BY <3>1, <3>2
    <3> DEFINE step(f, n) == IF n = 0 THEN Root ELSE f[nodes[n].parent] \o nodes[n].target
               more == [n \in 0..m |-> IF n = m THEN step(base, m) ELSE base[n]]
    <3>4. \A n \in 0..(m - 1) : base[n] = step(base, n)
      BY <3>3 DEF AreBases
    <3>5. \A n \in 1..m : nodes[n].parent \in 0..(n - 1) /\ nodes[n].parent \in 0..(m - 1)
      BY <2>1 DEF AreNodes
    <3>6. \A n \in 0..(m - 1) : more[n] = base[n]
      <4> HIDE DEF step
      <4>1. QED BY <2>1
    <3>7. more[m] = step(base, m)
      <4> HIDE DEF step
      <4>1. QED BY <2>1
    <3>8. more = [n \in 0..m |-> more[n]]
      OBVIOUS
    <3> HIDE DEF more
    <3>9. \A n \in 0..m : step(base, n) = step(more, n)
      BY <3>5, <3>6, <2>1
    <3> HIDE DEF step
    <3>10. \A n \in 0..m : more[n] = step(more, n)
      <4>1. TAKE n \in 0..m
      <4>2. CASE n = m
        BY <3>7, <3>9, <4>2
      <4>3. CASE n \in 0..(m - 1)
        BY <3>4, <3>6, <3>9, <4>3
      <4>4. QED BY <2>1, <4>2, <4>3
    <3>11. AreBases(more, nodes, m)
      BY <3>8, <3>10 DEF AreBases, step
    <3>12. QED BY <3>11
  <2>4. QED BY <2>2, <2>3
<1>2. T = {}
  <2>1. T \in SUBSET Nat
    OBVIOUS
  <2> HIDE DEF T
  <2>2. QED BY <1>1, <2>1, LeastNumber
<1>3. QED BY <1>2

\* The targets of the nodes are paths.
LEMMA BaseIs ==
  ASSUME NEW nodes, AreNodes(nodes)
  PROVE  \A n \in 0..Len(nodes) : IsPath(Base(nodes)[n])
<1> DEFINE base == Base(nodes)
           T == {n \in 0..Len(nodes) : ~IsPath(base[n])}
<1>1. Len(nodes) \in Nat /\ Len(nodes) \in 0..Len(nodes)
  BY DEF AreNodes
<1>2. AreBases(base, nodes, Len(nodes))
  <2>1. \E f : AreBases(f, nodes, Len(nodes))
    BY <1>1, BasesExist
  <2>2. QED BY <2>1 DEF AreBases, Base
<1> HIDE DEF base
<1>3. \A n \in 0..Len(nodes) :
        base[n] = IF n = 0 THEN Root ELSE base[nodes[n].parent] \o nodes[n].target
  BY <1>2 DEF AreBases
<1>4. ASSUME NEW n \in T PROVE \E m \in T : ~(n <= m)
  <2>1. n # 0
    <3>1. base[0] = Root
      BY <1>1, <1>3
    <3>2. QED BY <3>1, RootIs
  <2>2. n \in 1..Len(nodes)
    BY <1>1, <2>1
  <2> DEFINE m == nodes[n].parent
  <2>3. m \in 0..Len(nodes) /\ ~(n <= m) /\ IsPath(nodes[n].target)
    BY <1>1, <2>2 DEF AreNodes
  <2>4. ~IsPath(base[m])
    <3>1. SUFFICES ASSUME IsPath(base[m]) PROVE FALSE
      OBVIOUS
    <3>2. base[n] = base[m] \o nodes[n].target
      BY <1>3, <2>1
    <3> HIDE DEF m
    <3>3. IsPath(base[m] \o nodes[n].target)
      BY <2>3, <3>1, JoinIs
    <3>4. QED BY <3>2, <3>3
  <2>5. QED BY <2>3, <2>4
<1>5. T = {}
  <2>1. T \in SUBSET Nat
    OBVIOUS
  <2> HIDE DEF T
  <2>2. QED BY <1>4, <2>1, LeastNumber
<1>6. QED BY <1>5 DEF base

\* In a set of numbers there is a first, a second and so on.
LEMMA RankExists ==
  ASSUME NEW N \in Nat, NEW S \in SUBSET (1..N), NEW k \in 1..Cardinality(S)
  PROVE  \E n \in S : Cardinality(S \cap 1..n) = k
<1> DEFINE count(n) == Cardinality(S \cap 1..n)
           T == {n \in 0..N : count(n) >= k}
<1>1. IsFiniteSet(S)
  <2>1. IsFiniteSet(1..N)
    BY FS_Interval
  <2>2. QED BY <2>1, FS_Subset
<1>2. \A n \in 0..N : IsFiniteSet(S \cap 1..n) /\ count(n) \in Nat
  BY <1>1, FS_Intersection, FS_CardinalityType
<1>3. Cardinality(S) \in Nat /\ k \in Nat \ {0}
  BY <1>1, FS_CardinalityType
<1>4. N \in T
  <2>1. S \cap 1..N = S
    OBVIOUS
  <2>2. QED BY <1>3, <2>1
<1>5. PICK n \in T : \A m \in T : n <= m
  <2>1. T \in SUBSET Nat
    OBVIOUS
  <2> HIDE DEF T
  <2>2. QED BY <1>4, <2>1, LeastNumber
<1>6. n \in 0..N /\ count(n) >= k
  OBVIOUS
<1>7. n # 0
  <2>1. S \cap 1..0 = {}
    OBVIOUS
  <2>2. count(0) = 0
    BY <2>1, FS_EmptySet
  <2> HIDE DEF count
  <2>3. QED BY <1>3, <1>6, <2>2
<1>8. n - 1 \in 0..N /\ ~(n <= n - 1) /\ n \in 1..N
  BY <1>6, <1>7
<1>9. ~(count(n - 1) >= k)
  <2> HIDE DEF count
  <2>1. QED BY <1>5, <1>8
<1>10. n \in S /\ count(n) = count(n - 1) + 1
  <2>1. CASE n \notin S
    <3>1. S \cap 1..n = S \cap 1..(n - 1)
      BY <1>8, <2>1
    <3>2. count(n) = count(n - 1)
      BY <3>1
    <3> HIDE DEF count
    <3>3. QED BY <1>6, <1>9, <3>2
  <2>2. CASE n \in S
    <3>1. S \cap 1..n = (S \cap 1..(n - 1)) \cup {n}
      BY <1>8, <2>2
    <3>2. n \notin S \cap 1..(n - 1)
      BY <1>8
    <3>3. QED BY <1>2, <1>8, <2>2, <3>1, <3>2, FS_AddElement
  <2>3. QED BY <2>1, <2>2
<1>11. count(n) = k
  <2>1. count(n) \in Nat /\ count(n - 1) \in Nat
    BY <1>2, <1>8
  <2> HIDE DEF count, T
  <2>2. QED BY <1>3, <1>6, <1>9, <1>10, <2>1
<1>12. QED BY <1>10, <1>11

\* An item's folders; no transfer goes from a folder into itself or its parents.
IsItem(item) ==
  /\ item.action \in Actions
  /\ IsPath(item.source) /\ IsPath(item.target)
  /\ item.action \in Transfers => ~Related(item.source, item.target)

\* A plan is a list of items.
LEMMA PlanIs ==
  ASSUME NEW b \in Blueprints
  PROVE  /\ IsPath(Plan(b.nodes)) /\ Len(Plan(b.nodes)) \in Nat
         /\ DOMAIN Plan(b.nodes) = 1..Len(Plan(b.nodes))
         /\ \A k \in DOMAIN Plan(b.nodes) : IsItem(Plan(b.nodes)[k])
<1> DEFINE nodes == b.nodes
           plan == Plan(nodes)
<1>1. /\ nodes \in Seq(Range(nodes))
      /\ \A n \in DOMAIN nodes :
           /\ nodes[n].action \in Actions /\ nodes[n].parent \in 0..(n - 1)
           /\ IsPath(nodes[n].source) /\ IsPath(nodes[n].target)
      /\ \A k \in DOMAIN plan :
           plan[k].action \in Transfers => ~Related(plan[k].source, plan[k].target)
  BY BlueprintsAssumption
<1>2. AreNodes(nodes)
  <2>1. Len(nodes) \in Nat /\ DOMAIN nodes = 1..Len(nodes)
    BY <1>1
  <2>2. QED BY <1>1, <2>1 DEF AreNodes
<1>3. PICK taken \in SUBSET (1..Len(nodes)) :
        plan = [k \in 1..Cardinality(taken) |->
                  LET n == CHOOSE n \in taken : Cardinality(taken \cap 1..n) = k
                  IN  [action |-> nodes[n].action,
                       source |-> Base(nodes)[nodes[n].parent] \o nodes[n].source,
                       target |-> Base(nodes)[n]]]
  <2> HIDE DEF nodes
  <2>1. QED BY DEF Plan
<1>4. Len(nodes) \in Nat /\ Cardinality(taken) \in Nat
  <2>1. Len(nodes) \in Nat
    BY <1>2 DEF AreNodes
  <2>2. IsFiniteSet(1..Len(nodes))
    BY <2>1, FS_Interval
  <2>3. QED BY <2>1, <2>2, FS_Subset, FS_CardinalityType
<1> HIDE DEF nodes, plan
<1>5. DOMAIN plan = 1..Cardinality(taken) /\ plan = [k \in 1..Cardinality(taken) |-> plan[k]]
  BY <1>3
<1>6. IsPath(plan) /\ Len(plan) = Cardinality(taken)
  BY <1>4, <1>5, FunctionIsPath
<1>7. ASSUME NEW k \in DOMAIN plan PROVE IsItem(plan[k])
  <2> DEFINE n == CHOOSE n \in taken : Cardinality(taken \cap 1..n) = k
             item == [action |-> nodes[n].action,
                      source |-> Base(nodes)[nodes[n].parent] \o nodes[n].source,
                      target |-> Base(nodes)[n]]
  <2>1. plan[k] = item
    BY <1>3, <1>5
  <2>2. n \in taken
    BY <1>4, <1>5, RankExists
  <2> HIDE DEF n
  <2>3. n \in 1..Len(nodes) /\ n \in 0..Len(nodes) /\ nodes[n].parent \in 0..Len(nodes)
    BY <1>2, <1>4, <2>2 DEF AreNodes
  <2>4. /\ nodes[n].action \in Actions /\ IsPath(nodes[n].source)
        /\ IsPath(Base(nodes)[n]) /\ IsPath(Base(nodes)[nodes[n].parent])
    BY <1>2, <2>3, BaseIs DEF AreNodes
  <2>5. IsPath(item.source) /\ IsPath(item.target) /\ item.action \in Actions
    BY <2>4, JoinIs
  <2>6. item.action \in Transfers => ~Related(item.source, item.target)
    BY <1>1, <2>1
  <2> HIDE DEF item
  <2>7. QED BY <2>1, <2>5, <2>6 DEF IsItem
<1>8. QED BY <1>4, <1>5, <1>6, <1>7 DEF plan, nodes

-----------------------------------------------------------------------------
(***************************************************************************)
(* Folders and their content.                                              *)
(***************************************************************************)

IsTree(t) == t \in [DOMAIN t -> SUBSET Files] /\ Closed(DOMAIN t)

FilesOf(t) == UNION {t[p] : p \in DOMAIN t}

\* The folders of t are in u, with what they hold in t at least.
Grows(t, u) == \A p \in DOMAIN t : p \in DOMAIN u /\ t[p] \subseteq u[p]

\* All content is below the root.
LEMMA ContentIs ==
  ASSUME NEW t, IsTree(t)
  PROVE  Content(t, Root) = FilesOf(t)
<1>1. Below(t, Root) = DOMAIN t
  <2>1. \A p \in DOMAIN t : IsPrefix(Root, p)
    BY PrefixReflexive DEF IsTree, Closed
  <2>2. QED BY <2>1 DEF Below
<1>2. QED BY <1>1 DEF Content, FilesOf

\* What grows loses no content.
LEMMA GrowsFiles ==
  ASSUME NEW t, NEW u, Grows(t, u)
  PROVE  FilesOf(t) \subseteq FilesOf(u)
BY DEF Grows, FilesOf

\* create_dir_all adds empty folders.
LEMMA CreateIs ==
  ASSUME NEW t, IsTree(t), NEW p, IsPath(p)
  PROVE  /\ IsTree(CreateDirAll(t, p)) /\ Grows(t, CreateDirAll(t, p))
         /\ DOMAIN CreateDirAll(t, p) = DOMAIN t \cup Prefixed(p)
         /\ \A q \in DOMAIN CreateDirAll(t, p) :
              CreateDirAll(t, p)[q] = IF IsDir(t, q) THEN t[q] ELSE {}
<1> DEFINE made == CreateDirAll(t, p)
<1>1. DOMAIN made = DOMAIN t \cup Prefixed(p)
  BY DEF CreateDirAll
<1>2. \A q \in DOMAIN made : made[q] = IF IsDir(t, q) THEN t[q] ELSE {}
  BY DEF CreateDirAll
<1>3. made \in [DOMAIN made -> SUBSET Files]
  BY DEF CreateDirAll, IsDir, IsTree
<1> HIDE DEF made
<1>4. Closed(DOMAIN made)
  BY <1>1, ClosedMade DEF IsTree
<1>5. Grows(t, made)
  BY <1>1, <1>2 DEF Grows, IsDir
<1>6. QED BY <1>1, <1>2, <1>3, <1>4, <1>5 DEF made, IsTree

\* remove_dir_all takes what is below its folder, and nothing else.
LEMMA RemoveIs ==
  ASSUME NEW t, IsTree(t), NEW p, IsPath(p)
  PROVE  /\ IsTree(RemoveDirAll(t, p))
         /\ DOMAIN RemoveDirAll(t, p) = {q \in DOMAIN t : ~IsPrefix(p, q)}
         /\ \A q \in DOMAIN RemoveDirAll(t, p) : RemoveDirAll(t, p)[q] = t[q]
         /\ FilesOf(t) \ OnlyIn(t, p) \subseteq FilesOf(RemoveDirAll(t, p))
<1> DEFINE left == RemoveDirAll(t, p)
<1>1. DOMAIN left = {q \in DOMAIN t : ~IsPrefix(p, q)}
  BY DEF RemoveDirAll, Below
<1>2. \A q \in DOMAIN left : left[q] = t[q]
  BY DEF RemoveDirAll
<1>3. left \in [DOMAIN left -> SUBSET Files]
  BY DEF RemoveDirAll, IsTree
<1> HIDE DEF left
<1>4. Closed(DOMAIN left)
  BY <1>1, ClosedRemoved DEF IsTree
<1>5. FilesOf(t) \ OnlyIn(t, p) \subseteq FilesOf(left)
  <2>1. SUFFICES ASSUME NEW q \in DOMAIN t, NEW f \in t[q], f \notin OnlyIn(t, p)
                 PROVE  \E r \in DOMAIN left : f \in left[r]
    BY DEF FilesOf
  <2>2. CASE IsPrefix(p, q)
    <3>1. f \in Content(t, p)
      BY <2>2 DEF Content, Below
    <3>2. PICK r \in DOMAIN t \ Below(t, p) : f \in t[r]
      BY <2>1, <3>1 DEF OnlyIn
    <3>3. QED BY <1>1, <1>2, <3>2 DEF Below
  <2>3. CASE ~IsPrefix(p, q)
    BY <1>1, <1>2, <2>3
  <2>4. QED BY <2>2, <2>3
<1>6. QED BY <1>1, <1>2, <1>3, <1>4, <1>5 DEF left, IsTree

\* What a copy has at p: what was there, and what was at its source.
IsCopyAt(copy, t, source, target, p) ==
  copy[p] = (IF IsDir(t, p) THEN t[p] ELSE {})
              \cup UNION {t[q] : q \in {q \in Below(t, source) : Rebased(source, target, q) = p}}

\* copy_dir_recursive adds to the target what is below the source.
LEMMA CopyIs ==
  ASSUME NEW t, IsTree(t), NEW source, NEW target, IsPath(source), IsPath(target)
  PROVE  /\ IsTree(CopyDir(t, source, target)) /\ Grows(t, CopyDir(t, source, target))
         /\ DOMAIN CopyDir(t, source, target)
              = DOMAIN t \cup Prefixed(target) \cup Copied(DOMAIN t, source, target)
         /\ \A p \in DOMAIN CopyDir(t, source, target) :
              IsCopyAt(CopyDir(t, source, target), t, source, target, p)
<1> DEFINE copy == CopyDir(t, source, target)
           to(p) == {q \in Below(t, source) : Rebased(source, target, q) = p}
<1>1. Inside(DOMAIN t, source) = Below(t, source)
  BY DEF Inside, Below
<1>2. DOMAIN copy = DOMAIN t \cup Prefixed(target) \cup Copied(DOMAIN t, source, target)
  BY <1>1 DEF CopyDir, Copied
<1>3. \A p \in DOMAIN copy : copy[p] = (IF IsDir(t, p) THEN t[p] ELSE {}) \cup UNION {t[q] : q \in to(p)}
  BY DEF CopyDir
<1>4. copy = [p \in DOMAIN copy |-> copy[p]]
  BY DEF CopyDir
<1> HIDE DEF copy
<1>5. \A p \in DOMAIN copy : copy[p] \in SUBSET Files
  <2>1. \A q \in DOMAIN t : t[q] \in SUBSET Files
    BY DEF IsTree
  <2>2. \A p : to(p) \subseteq DOMAIN t
    BY DEF Below
  <2> HIDE DEF to
  <2>3. QED BY <1>3, <2>1, <2>2 DEF IsDir
<1>6. Closed(DOMAIN copy)
  BY <1>2, ClosedCopied DEF IsTree
<1>7. Grows(t, copy)
  <2> HIDE DEF to
  <2>1. QED BY <1>2, <1>3 DEF Grows, IsDir
<1>8. \A p \in DOMAIN copy : IsCopyAt(copy, t, source, target, p)
  BY <1>3 DEF IsCopyAt
<1>9. IsTree(copy)
  BY <1>4, <1>5, <1>6 DEF IsTree
<1>10. QED BY <1>2, <1>7, <1>8, <1>9 DEF copy

\* What is below the source has its content in the copy.
LEMMA CopyHas ==
  ASSUME NEW t, IsTree(t), NEW source, NEW target, IsPath(source), IsPath(target), NEW q \in Below(t, source)
  PROVE  /\ Rebased(source, target, q) \in DOMAIN CopyDir(t, source, target)
         /\ t[q] \subseteq CopyDir(t, source, target)[Rebased(source, target, q)]
<1> DEFINE copy == CopyDir(t, source, target)
           to == Rebased(source, target, q)
<1>1. /\ DOMAIN copy = DOMAIN t \cup Prefixed(target) \cup Copied(DOMAIN t, source, target)
      /\ \A p \in DOMAIN copy : IsCopyAt(copy, t, source, target, p)
  BY CopyIs
<1> HIDE DEF copy
<1>2. to \in DOMAIN copy
  BY <1>1 DEF Copied, Inside, Below
<1>3. t[q] \subseteq copy[to]
  BY <1>1, <1>2 DEF IsCopyAt
<1>4. QED BY <1>2, <1>3 DEF copy

\* Nothing but what was there and the copy is in the tree.
LEMMA CopyOnly ==
  ASSUME NEW t, IsTree(t), NEW source, NEW target, IsPath(source), IsPath(target),
         NEW p \in DOMAIN CopyDir(t, source, target), ~IsPrefix(target, p)
  PROVE  CopyDir(t, source, target)[p] = IF IsDir(t, p) THEN t[p] ELSE {}
<1> DEFINE copy == CopyDir(t, source, target)
<1>1. IsCopyAt(copy, t, source, target, p)
  BY CopyIs
<1>2. {q \in Below(t, source) : Rebased(source, target, q) = p} = {}
  <2>1. SUFFICES ASSUME NEW q \in Below(t, source), Rebased(source, target, q) = p PROVE FALSE
    OBVIOUS
  <2>2. IsPath(q) /\ IsPrefix(source, q)
    BY DEF Below, IsTree, Closed
  <2>3. QED BY <2>1, <2>2, RebasedIs DEF IsRebased
<1>3. QED BY <1>1, <1>2 DEF IsCopyAt

\* A move between unrelated folders keeps all content.
LEMMA MoveIs ==
  ASSUME NEW t, IsTree(t), NEW source, NEW target, IsPath(source), IsPath(target), ~Related(source, target)
  PROVE  /\ IsTree(MoveDir(t, source, target))
         /\ DOMAIN MoveDir(t, source, target)
              = {q \in DOMAIN CopyDir(t, source, target) : ~IsPrefix(source, q)}
         /\ \A q \in DOMAIN MoveDir(t, source, target) :
              MoveDir(t, source, target)[q] = CopyDir(t, source, target)[q]
         /\ FilesOf(t) \subseteq FilesOf(MoveDir(t, source, target))
<1> DEFINE copy == CopyDir(t, source, target)
           move == MoveDir(t, source, target)
<1>1. IsTree(copy) /\ Grows(t, copy)
  BY CopyIs
<1>2. \A q \in Below(t, source) :
        Rebased(source, target, q) \in DOMAIN copy /\ t[q] \subseteq copy[Rebased(source, target, q)]
  BY CopyHas
<1>3. move = RemoveDirAll(copy, source)
  BY DEF MoveDir
<1> HIDE DEF copy, move
<1>4. /\ IsTree(move) /\ DOMAIN move = {q \in DOMAIN copy : ~IsPrefix(source, q)}
      /\ \A q \in DOMAIN move : move[q] = copy[q]
  BY <1>1, <1>3, RemoveIs
<1>5. ASSUME NEW q \in DOMAIN t PROVE \E p \in DOMAIN move : t[q] \subseteq move[p]
  <2>1. CASE ~IsPrefix(source, q)
    BY <1>1, <1>4, <2>1 DEF Grows
  <2>2. CASE IsPrefix(source, q)
    <3>1. IsPath(q)
      BY DEF IsTree, Closed
    <3>2. IsPath(Rebased(source, target, q)) /\ IsPrefix(target, Rebased(source, target, q))
      BY <2>2, <3>1, RebasedIs DEF IsRebased
    <3>3. ~IsPrefix(source, Rebased(source, target, q))
      BY <3>2, CopiedElsewhere DEF Related
    <3>4. QED BY <1>2, <1>4, <2>2, <3>3 DEF Below
  <2>3. QED BY <2>1, <2>2
<1>6. FilesOf(t) \subseteq FilesOf(move)
  BY <1>5 DEF FilesOf
<1>7. QED BY <1>4, <1>6 DEF copy, move

-----------------------------------------------------------------------------
(***************************************************************************)
(* Every state is well formed.                                             *)
(***************************************************************************)

\* A folder that a delete may take with what is in it, or that had nothing in it
\* when the plan b was checked against t.
IsChecked(t, b) ==
  \A k \in DOMAIN Plan(b.nodes) :
    Plan(b.nodes)[k].action = "delete" /\ ~b.confirmed => ~HasEntries(t, Plan(b.nodes)[k].source)

\* What a step chooses for the next: a transfer never works on related folders.
IsChoice(c, item) ==
  /\ c.does \in {"skip", "fail", "act", "done"} /\ IsPath(c.target)
  /\ item.action = "delete" => c = Act(item.source)
  /\ item.action = "create" => c \in {Skip, Done(item.target), Act(item.target)}
  /\ item.action \in Transfers /\ c.does \in {"act", "done"} => ~Related(item.source, c.target)

IsRecord(r) ==
  /\ r.status \in {"moved", "copied"}
  /\ IsPath(r.source) /\ IsPath(r.target) /\ ~Related(r.source, r.target)

AreRecords(s) == IsPath(s) /\ \A n \in DOMAIN s : IsRecord(s[n])

\* What a call is made of.
Parts == {"at", "k", "choice", "items", "stored", "began"}

\* A call of apply_blueprint for the blueprint b.
IsCall(c, b) ==
  /\ c = [x \in Parts |-> c[x]]
  /\ c.at \in {"idle", "choose", "work"} /\ AreRecords(c.items)
  /\ c.at # "idle" => c.k \in Nat \ {0} /\ IsChecked(c.began, b)
  /\ c.at = "work" => c.k \in DOMAIN Plan(b.nodes) /\ IsChoice(c.choice, Plan(b.nodes)[c.k])

AreCalls(calls, b) ==
  /\ calls = [a \in Applies |-> calls[a]]
  /\ \A a \in Applies : IsCall(calls[a], b)

IsManifest(m) == m = [x \in {"items", "undone"} |-> m[x]] /\ AreRecords(m.items)

AreManifests(s) == IsPath(s) /\ \A m \in DOMAIN s : IsManifest(s[m])

\* An undo is at an item of a manifest.
IsUndo(u, s) ==
  /\ u = [at |-> u.at, m |-> u.m, k |-> u.k]
  /\ u.at # "idle" => u.m \in DOMAIN s /\ u.k \in 0..Len(s[u.m].items)

TypesInv ==
  /\ blueprint \in Blueprints
  /\ IsTree(tree)
  /\ AreCalls(apply, blueprint)
  /\ AreManifests(manifests)
  /\ IsUndo(undo, manifests)

\* The items are a plan.
LEMMA ItemsAre ==
  ASSUME TypesInv
  PROVE  /\ Len(Items) \in Nat /\ DOMAIN Items = 1..Len(Items) /\ DOMAIN Items \subseteq Nat
         /\ \A k \in DOMAIN Items : IsItem(Items[k])
<1>1. blueprint \in Blueprints
  BY DEF TypesInv
<1>2. Items = Plan(blueprint.nodes)
  BY DEF Items
<1>3. /\ Len(Items) \in Nat /\ DOMAIN Items = 1..Len(Items)
      /\ \A k \in DOMAIN Items : IsItem(Items[k])
  BY <1>1, <1>2, PlanIs
<1>4. QED BY <1>3

\* A suffix changes the last name.
LEMMA SuffixedIs ==
  ASSUME NEW p, IsPath(p), p # Root, NEW n
  PROVE  /\ IsPath(Suffixed(p, n)) /\ Len(Suffixed(p, n)) = Len(p) /\ Len(p) \in Nat \ {0}
         /\ \A i \in 1..(Len(p) - 1) : Suffixed(p, n)[i] = p[i]
<1> DEFINE name == <<Append(Last(p), n)>>
<1>1. name \in Seq({Append(Last(p), n)}) /\ Len(name) = 1
  OBVIOUS
<1>2. IsPath(name)
  BY <1>1, SeqIsPath
<1> HIDE DEF name
<1>3. /\ IsPath(Front(p)) /\ Len(Front(p)) = Len(p) - 1 /\ Len(p) \in Nat \ {0}
      /\ \A i \in 1..(Len(p) - 1) : Front(p)[i] = p[i]
  BY FrontIs
<1>4. /\ IsPath(Front(p) \o name) /\ Len(Front(p) \o name) = Len(Front(p)) + Len(name)
      /\ \A i \in 1..Len(Front(p)) : (Front(p) \o name)[i] = Front(p)[i]
  BY <1>2, <1>3, JoinIs
<1>5. Suffixed(p, n) = Front(p) \o name
  BY DEF Suffixed, name
<1>6. QED BY <1>1, <1>3, <1>4, <1>5

\* A free name next to the target is not related to a source that is there.
LEMMA SuffixedUnrelated ==
  ASSUME NEW t, IsTree(t), NEW source \in DOMAIN t, NEW target, IsPath(target),
         ~Related(source, target), NEW n, Suffixed(target, n) \notin DOMAIN t
  PROVE  IsPath(Suffixed(target, n)) /\ ~Related(source, Suffixed(target, n))
<1> DEFINE free == Suffixed(target, n)
<1>1. IsPath(source) /\ Closed(DOMAIN t)
  BY DEF IsTree, Closed
<1>2. target # Root
  BY <1>1, PrefixReflexive DEF Related
<1>3. /\ IsPath(free) /\ Len(free) = Len(target) /\ Len(target) \in Nat \ {0}
      /\ \A i \in 1..(Len(target) - 1) : free[i] = target[i]
  BY <1>2, SuffixedIs
<1>4. free \notin DOMAIN t
  OBVIOUS
<1> HIDE DEF free
<1>5. ~IsPrefix(free, source)
  BY <1>1, <1>3, <1>4, PrefixInClosed
<1>6. ~IsPrefix(source, free)
  <2>1. SUFFICES ASSUME IsPrefix(source, free) PROVE FALSE
    OBVIOUS
  <2>2. Len(source) \in Nat /\ Len(source) <= Len(free) /\ \A i \in 1..Len(source) : free[i] = source[i]
    BY <1>1, <1>3, <2>1, PrefixIs, PathIs
  <2>3. CASE Len(source) = Len(free)
    BY <1>1, <1>3, <1>4, <2>1, <2>3, PrefixSameLength
  <2>4. CASE Len(source) # Len(free)
    <3>1. Len(source) <= Len(target) /\ \A i \in 1..Len(source) : i \in 1..(Len(target) - 1)
      BY <1>3, <2>2, <2>4
    <3>2. \A i \in 1..Len(source) : target[i] = source[i]
      BY <1>3, <2>2, <3>1
    <3>3. IsPrefix(source, target)
      BY <1>1, <3>1, <3>2, PrefixIs
    <3>4. QED BY <3>3 DEF Related
  <2>5. QED BY <2>3, <2>4
<1>7. QED BY <1>3, <1>5, <1>6 DEF free, Related

\* The choices and their fields.
LEMMA ChoicesAre ==
  /\ Skip.does = "skip" /\ Fail.does = "fail" /\ IsPath(Skip.target) /\ IsPath(Fail.target)
  /\ \A p : Act(p).does = "act" /\ Act(p).target = p /\ Done(p).does = "done" /\ Done(p).target = p
BY RootIs DEF Skip, Fail, Act, Done

\* A conflict is resolved at an unrelated place.
LEMMA ResolveIs ==
  ASSUME IsTree(tree), NEW source \in DOMAIN tree, NEW target, IsPath(target), ~Related(source, target),
         NEW c, c = ResolveConflict(target)
  PROVE  /\ c.does \in {"skip", "fail", "act"} /\ IsPath(c.target)
         /\ c.does = "act" => ~Related(source, c.target)
<1> DEFINE free == {n \in 1..MaxSuffix : ~IsDir(tree, Suffixed(target, n))}
           first == CHOOSE n \in free : \A m \in free : n <= m
<1>1. c \in {Act(target), Skip, Fail} \/ (free # {} /\ c = Act(Suffixed(target, first)))
  BY DEF ResolveConflict
<1>2. ASSUME free # {} PROVE first \in free
  <2>1. free \in SUBSET Nat
    OBVIOUS
  <2> HIDE DEF free
  <2>2. QED BY <1>2, <2>1, LeastNumber
<1>3. CASE c \in {Act(target), Skip, Fail}
  BY <1>3, ChoicesAre
<1>4. CASE free # {} /\ c = Act(Suffixed(target, first))
  <2>1. Suffixed(target, first) \notin DOMAIN tree
    BY <1>2, <1>4 DEF IsDir
  <2> HIDE DEF first
  <2>2. IsPath(Suffixed(target, first)) /\ ~Related(source, Suffixed(target, first))
    BY <2>1, SuffixedUnrelated
  <2>3. QED BY <1>4, <2>2, ChoicesAre
<1>5. QED BY <1>1, <1>3, <1>4

\* What is found for an item is a choice for it.
LEMMA ChoiceIs ==
  ASSUME IsTree(tree), NEW item, IsItem(item), NEW c, c = Choice(item)
  PROVE  IsChoice(c, item)
<1> USE DEF IsItem, Transfers
<1>1. CASE item.action = "delete"
  <2>1. c = Act(item.source)
    BY <1>1 DEF Choice
  <2>2. QED BY <1>1, <2>1, ChoicesAre DEF IsChoice
<1>2. CASE item.action = "create"
  <2>1. c \in {Skip, Done(item.target), Act(item.target)}
    BY <1>2 DEF Choice
  <2>2. QED BY <1>2, <2>1, ChoicesAre DEF IsChoice
<1>3. CASE item.action \in Transfers /\ ~IsDir(tree, item.source)
  <2>1. c \in {Done(item.target), Fail}
    BY <1>3 DEF Choice
  <2>2. QED BY <1>3, <2>1, ChoicesAre DEF IsChoice
<1>4. CASE item.action \in Transfers /\ IsDir(tree, item.source)
  <2>1. c = ResolveConflict(item.target)
    BY <1>4 DEF Choice
  <2>2. /\ c.does \in {"skip", "fail", "act"} /\ IsPath(c.target)
        /\ c.does = "act" => ~Related(item.source, c.target)
    BY <1>4, <2>1, ResolveIs DEF IsDir
  <2>3. QED BY <1>4, <2>2 DEF IsChoice
<1>5. QED BY <1>1, <1>2, <1>3, <1>4 DEF Actions

\* What a transfer does to the tree, and whether it succeeds.
LEMMA WorkedIs ==
  ASSUME IsTree(tree), NEW item, IsItem(item), NEW target, IsPath(target),
         item.action \in Transfers => ~Related(item.source, target),
         item.action = "delete" => target = item.source,
         NEW done, done = Worked(item, target)
  PROVE  /\ IsTree(done.tree)
         /\ item.action # "delete" => FilesOf(tree) \subseteq FilesOf(done.tree)
         /\ item.action = "delete" =>
              /\ FilesOf(tree) \ OnlyIn(tree, target) \subseteq FilesOf(done.tree)
              /\ ~IsDir(tree, target) => done.tree = tree
<1> USE DEF IsItem, Transfers
<1>1. CASE item.action = "create" \/ (item.action \in Transfers /\ ~IsDir(tree, item.source))
  <2>1. done.tree = CreateDirAll(tree, target)
    BY <1>1 DEF Worked
  <2>2. IsTree(CreateDirAll(tree, target)) /\ FilesOf(tree) \subseteq FilesOf(CreateDirAll(tree, target))
    BY CreateIs, GrowsFiles
  <2>3. QED BY <1>1, <2>1, <2>2
<1>2. CASE item.action = "delete"
  <2>1. CASE IsDir(tree, target)
    <3>1. done.tree = RemoveDirAll(tree, target)
      BY <1>2, <2>1 DEF Worked
    <3>2. QED BY <1>2, <2>1, <3>1, RemoveIs
  <2>2. CASE ~IsDir(tree, target)
    <3>1. done.tree = tree
      BY <1>2, <2>2 DEF Worked
    <3>2. QED BY <1>2, <3>1
  <2>3. QED BY <2>1, <2>2
<1>3. CASE item.action \in {"rename", "move"} /\ IsDir(tree, item.source)
  <2>1. done.tree = MoveDir(tree, item.source, target)
    BY <1>3 DEF Worked
  <2>2. /\ IsTree(MoveDir(tree, item.source, target))
        /\ FilesOf(tree) \subseteq FilesOf(MoveDir(tree, item.source, target))
    BY <1>3, MoveIs
  <2>3. QED BY <1>3, <2>1, <2>2
<1>4. CASE item.action = "copy" /\ IsDir(tree, item.source)
  <2>1. done.tree = CopyDir(tree, item.source, target)
    BY <1>4 DEF Worked
  <2>2. IsTree(CopyDir(tree, item.source, target))
        /\ FilesOf(tree) \subseteq FilesOf(CopyDir(tree, item.source, target))
    BY CopyIs, GrowsFiles
  <2>3. QED BY <1>4, <2>1, <2>2
<1>5. QED BY <1>1, <1>2, <1>3, <1>4 DEF Actions

\* No records.
LEMMA NoRecords == AreRecords(<<>>) /\ IsPath(<<>>) /\ Len(<<>>) = 0
<1>1. IsPath(<<>>) /\ Len(<<>>) = 0
  BY RootIs DEF Root
<1>2. DOMAIN <<>> = {}
  OBVIOUS
<1>3. QED BY <1>1, <1>2 DEF AreRecords

\* A list of one record, or of none.
LEMMA RecordedIs ==
  ASSUME NEW item, IsItem(item), NEW target, IsPath(target),
         item.action \in Transfers => ~Related(item.source, target)
  PROVE  AreRecords(Recorded(item, target))
<1> DEFINE r == [status |-> IF item.action = "copy" THEN "copied" ELSE "moved",
                 source |-> item.source, target |-> target]
<1>1. CASE item.action \in Transfers
  <2>1. IsRecord(r)
    BY <1>1 DEF IsRecord, IsItem
  <2>2. Recorded(item, target) = <<r>>
    BY <1>1 DEF Recorded
  <2> HIDE DEF r
  <2>3. <<r>> \in Seq({r}) /\ DOMAIN <<r>> = {1} /\ <<r>>[1] = r
    OBVIOUS
  <2>4. QED BY <2>1, <2>2, <2>3, SeqIsPath DEF AreRecords
<1>2. CASE item.action \notin Transfers
  <2>1. Recorded(item, target) = <<>>
    BY <1>2 DEF Recorded
  <2>2. QED BY <2>1, NoRecords
<1>3. QED BY <1>1, <1>2

\* Records and more records.
LEMMA RecordsJoin ==
  ASSUME NEW s, NEW r, AreRecords(s), AreRecords(r)
  PROVE  AreRecords(s \o r)
<1>1. /\ IsPath(s) /\ IsPath(r) /\ Len(s) \in Nat /\ Len(r) \in Nat
      /\ DOMAIN s = 1..Len(s) /\ DOMAIN r = 1..Len(r)
  BY PathIs DEF AreRecords
<1> DEFINE both == s \o r
<1>2. /\ IsPath(both) /\ Len(both) = Len(s) + Len(r)
      /\ \A i \in 1..Len(s) : both[i] = s[i]
      /\ \A i \in 1..Len(r) : both[Len(s) + i] = r[i]
  BY <1>1, JoinIs
<1> HIDE DEF both
<1>3. DOMAIN both = 1..Len(both)
  BY <1>2, PathIs
<1>4. ASSUME NEW n \in DOMAIN both PROVE IsRecord(both[n])
  <2>1. CASE n <= Len(s)
    <3>1. n \in 1..Len(s)
      BY <1>1, <1>2, <1>3, <2>1
    <3>2. QED BY <1>1, <1>2, <3>1 DEF AreRecords
  <2>2. CASE n > Len(s)
    <3> DEFINE k == n - Len(s)
    <3>1. k \in 1..Len(r) /\ Len(s) + k = n
      BY <1>1, <1>2, <1>3, <2>2
    <3> HIDE DEF k
    <3>2. both[n] = r[k]
      BY <1>2, <3>1
    <3>3. QED BY <1>1, <3>1, <3>2 DEF AreRecords
  <2>3. QED BY <1>1, <1>2, <1>3, <2>1, <2>2
<1>5. QED BY <1>2, <1>4 DEF AreRecords, both

\* A step of a call leaves the other calls alone.
LEMMA CallSteps ==
  ASSUME NEW calls, NEW more, NEW b, AreCalls(calls, b), NEW a \in Applies, NEW c, IsCall(c, b),
         more = [calls EXCEPT ![a] = c]
  PROVE  AreCalls(more, b) /\ more[a] = c
<1>1. more = [x \in Applies |-> IF x = a THEN c ELSE calls[x]]
  BY DEF AreCalls
<1>2. more = [x \in Applies |-> more[x]] /\ more[a] = c /\ \A x \in Applies : x # a => more[x] = calls[x]
  BY <1>1
<1>3. QED BY <1>2 DEF AreCalls

\* What the steps make of a call.
Begun(stored, began) == [NotApplying EXCEPT !.at = "choose", !.k = 1, !.stored = stored, !.began = began]
Chosen(c, choice) == [c EXCEPT !.at = "work", !.choice = choice]
Gone(c, items) == [c EXCEPT !.at = "choose", !.k = @ + 1, !.choice = Skip, !.items = items]

\* A call looks at the place of its next item.
LEMMA ChosenIs ==
  ASSUME NEW c, c = [x \in Parts |-> c[x]], NEW choice,
         NEW d, d = Chosen(c, choice)
  PROVE  /\ d = [x \in Parts |-> d[x]] /\ d.at = "work" /\ d.choice = choice
         /\ d.k = c.k /\ d.items = c.items /\ d.stored = c.stored /\ d.began = c.began
<1>1. d = [x \in Parts |-> d[x]] /\ d.at = "work" /\ d.choice = choice
  BY DEF Parts, Chosen
<1>2. d.k = c.k /\ d.items = c.items
  BY DEF Parts, Chosen
<1>3. d.stored = c.stored /\ d.began = c.began
  BY DEF Parts, Chosen
<1>4. QED BY <1>1, <1>2, <1>3

\* A call goes on with its next item.
LEMMA GoneIs ==
  ASSUME NEW c, c = [x \in Parts |-> c[x]], NEW items,
         NEW d, d = Gone(c, items)
  PROVE  /\ d = [x \in Parts |-> d[x]] /\ d.at = "choose" /\ d.items = items
         /\ d.k = c.k + 1 /\ d.stored = c.stored /\ d.began = c.began
<1>1. d = [x \in Parts |-> d[x]] /\ d.at = "choose" /\ d.items = items
  BY DEF Parts, Gone
<1>2. d.k = c.k + 1 /\ d.stored = c.stored
  BY DEF Parts, Gone
<1>3. d.began = c.began
  BY DEF Parts, Gone
<1>4. QED BY <1>1, <1>2, <1>3

\* A call that begins.
LEMMA BegunIs ==
  ASSUME NEW stored, NEW began,
         NEW d, d = Begun(stored, began)
  PROVE  /\ d = [x \in Parts |-> d[x]] /\ d.at = "choose" /\ d.items = <<>>
         /\ d.k = 1 /\ d.stored = stored /\ d.began = began
<1> DEFINE c == NotApplying
<1>1. c = [x \in Parts |-> c[x]] /\ c.items = <<>>
  BY DEF NotApplying, Parts
<1> HIDE DEF c
<1>2. d = [c EXCEPT !.at = "choose", !.k = 1, !.stored = stored, !.began = began]
  BY DEF c, Begun
<1>3. d = [x \in Parts |-> d[x]] /\ d.at = "choose" /\ d.items = <<>>
  BY <1>1, <1>2 DEF Parts
<1>4. d.k = 1 /\ d.began = began
  BY <1>1, <1>2 DEF Parts
<1>5. d.stored = stored
  BY <1>1, <1>2 DEF Parts
<1>6. QED BY <1>3, <1>4, <1>5

\* A call that has returned.
LEMMA ReturnedIs ==
  ASSUME NEW b, NEW a \in Applies
  PROVE  IsCall(Returned(a), b) /\ Returned(a).at = "idle" /\ Returned(a).began = apply[a].began
<1> DEFINE began == apply[a].began
           c == NotApplying
           d == [c EXCEPT !.began = began]
<1> HIDE DEF began
<1>1. c = [x \in Parts |-> c[x]] /\ c.at = "idle" /\ c.items = <<>>
  BY DEF NotApplying, Parts
<1>2. Returned(a) = d
  BY DEF Returned, began
<1> HIDE DEF c
<1>3. d = [x \in Parts |-> d[x]] /\ d.at = "idle" /\ d.items = <<>>
  BY <1>1 DEF Parts
<1>4. d.began = began
  BY <1>1 DEF Parts
<1> HIDE DEF d
<1>5. IsCall(d, b)
  BY <1>3, NoRecords DEF IsCall
<1>6. QED BY <1>2, <1>3, <1>4, <1>5 DEF began

\* It is like that in the beginning.
LEMMA TypesInit == Init => TypesInv
<1> SUFFICES ASSUME Init PROVE TypesInv
  OBVIOUS
<1> USE DEF Init
<1>1. IsTree(tree)
  BY TreesAssumption DEF IsTree, Closed
<1>2. IsCall(NotApplying, blueprint)
  <2>1. /\ NotApplying = [x \in Parts |-> NotApplying[x]]
        /\ NotApplying.at = "idle" /\ NotApplying.items = <<>>
    BY DEF NotApplying, Parts
  <2>2. QED BY <2>1, NoRecords DEF IsCall
<1>3. AreCalls(apply, blueprint)
  BY <1>2 DEF AreCalls
<1>4. AreManifests(manifests)
  BY NoRecords DEF AreManifests
<1>5. IsUndo(undo, manifests)
  BY DEF IsUndo, NotUndoing
<1>6. QED BY <1>1, <1>3, <1>4, <1>5 DEF TypesInv

\* The check of the plan.
LEMMA BeginChecked ==
  ASSUME Preflight
  PROVE  IsChecked(tree, blueprint)
BY DEF Preflight, Items, IsChecked

\* A call begins, or looks at the place of its next item.
LEMMA TypesLook ==
  ASSUME TypesInv, NEW a \in Applies, Begin(a) \/ Choose(a)
  PROVE  TypesInv'
<1> USE DEF TypesInv
<1>1. CASE Begin(a)
  <2>1. PICK stored \in BOOLEAN :
          apply' = [apply EXCEPT ![a] = [NotApplying EXCEPT !.at = "choose", !.k = 1,
                                                            !.stored = stored, !.began = tree]]
    BY <1>1 DEF Begin
  <2> DEFINE c == Begun(stored, tree)
  <2> HIDE DEF c
  <2>2. apply' = [apply EXCEPT ![a] = c]
    BY <2>1 DEF c, Begun
  <2>3. c = [x \in Parts |-> c[x]] /\ c.at = "choose" /\ c.items = <<>> /\ c.k = 1 /\ c.began = tree
    BY BegunIs DEF c
  <2>4. IsChecked(tree, blueprint)
    BY <1>1, BeginChecked DEF Begin
  <2>5. IsCall(c, blueprint)
    BY <2>3, <2>4, NoRecords DEF IsCall
  <2>6. AreCalls(apply', blueprint)
    BY <2>2, <2>5, CallSteps
  <2>7. QED BY <1>1, <2>6 DEF Begin
<1>2. CASE Choose(a)
  <2> DEFINE c == apply[a]
             choice == Choice(Items[c.k])
             d == Chosen(c, choice)
  <2>1. IsCall(c, blueprint) /\ c.at = "choose"
    BY <1>2 DEF Choose, AreCalls
  <2>2. c.k \in DOMAIN Items /\ IsItem(Items[c.k])
    <3>1. c.k \in Nat \ {0} /\ c.k <= Len(Items)
      BY <1>2, <2>1 DEF IsCall, Choose
    <3> HIDE DEF c
    <3>2. QED BY <3>1, PlanIs DEF Items
  <2>3. apply' = [apply EXCEPT ![a] = d]
    BY <1>2 DEF Choose, AreCalls, Chosen
  <2>4. IsChoice(choice, Items[c.k])
    BY <2>2, ChoiceIs
  <2> HIDE DEF c, choice
  <2>5. /\ d = [x \in Parts |-> d[x]] /\ d.at = "work" /\ d.choice = choice
        /\ d.k = c.k /\ d.items = c.items /\ d.began = c.began
    BY <2>1, ChosenIs DEF IsCall
  <2> HIDE DEF d
  <2>6. IsCall(d, blueprint)
    BY <2>1, <2>2, <2>4, <2>5 DEF IsCall, Items
  <2>7. AreCalls(apply', blueprint)
    BY <2>3, <2>6, CallSteps
  <2>8. QED BY <1>2, <2>7 DEF Choose
<1>3. QED BY <1>1, <1>2

\* What a step of an item starts from.
LEMMA WorkKnows ==
  ASSUME TypesInv, NEW a \in Applies, Work(a),
         NEW item, item = Items[apply[a].k], NEW choice, choice = apply[a].choice,
         NEW done, done = IF choice.does = "act" THEN Worked(item, choice.target)
                          ELSE [tree |-> tree, ok |-> choice.does = "done"]
  PROVE  /\ apply[a].k \in DOMAIN Items /\ IsItem(item) /\ IsChoice(choice, item)
         /\ IsCall(apply[a], blueprint) /\ apply[a].at = "work"
         /\ choice.does \in {"act", "done"} => (item.action \in Transfers => ~Related(item.source, choice.target))
         /\ tree' = done.tree /\ IsTree(done.tree)
         /\ done.ok => choice.does \in {"act", "done"}
         /\ choice.does # "act" => tree' = tree
<1>1. IsCall(apply[a], blueprint) /\ apply[a].at = "work"
  BY DEF TypesInv, AreCalls, Work
<1>2. apply[a].k \in DOMAIN Items /\ IsChoice(choice, item)
  BY <1>1 DEF IsCall, Items
<1>3. IsItem(item)
  BY <1>2, ItemsAre
<1>4. IsPath(choice.target) /\ (item.action = "delete" /\ choice.does = "act" => choice.target = item.source)
  BY <1>2, ChoicesAre DEF IsChoice
<1>5. choice.does \in {"act", "done"} => (item.action \in Transfers => ~Related(item.source, choice.target))
  BY <1>2 DEF IsChoice
<1>6. tree' = done.tree
  BY DEF Work
<1>7. CASE choice.does = "act"
  <2>1. done = Worked(item, choice.target)
    BY <1>7
  <2>2. IsTree(done.tree)
    BY <1>3, <1>4, <1>5, <1>7, <2>1, WorkedIs DEF TypesInv
  <2>3. QED BY <1>1, <1>2, <1>3, <1>5, <1>6, <1>7, <2>2
<1>8. CASE choice.does # "act"
  <2>1. done.tree = tree
    BY <1>8
  <2>2. done.ok <=> choice.does = "done"
    BY <1>8
  <2>3. QED BY <1>1, <1>2, <1>3, <1>5, <1>6, <1>8, <2>1, <2>2 DEF TypesInv
<1>9. QED BY <1>7, <1>8

\* The records of a call after an item.
LEMMA RecordsGrow ==
  ASSUME NEW c, AreRecords(c.items), NEW item, IsItem(item), NEW target, IsPath(target), NEW ok,
         ok => (item.action \in Transfers => ~Related(item.source, target))
  PROVE  AreRecords(c.items \o (IF ok THEN Recorded(item, target) ELSE <<>>))
<1>1. AreRecords(IF ok THEN Recorded(item, target) ELSE <<>>)
  <2>1. CASE ok
    BY <2>1, RecordedIs
  <2>2. CASE ~ok
    BY <2>2, NoRecords
  <2>3. QED BY <2>1, <2>2
<1>2. QED BY <1>1, RecordsJoin

\* A call works on an item.
LEMMA TypesWork ==
  ASSUME TypesInv, NEW a \in Applies, Work(a)
  PROVE  TypesInv'
<1> DEFINE item == Items[apply[a].k]
           choice == apply[a].choice
           done == IF choice.does = "act" THEN Worked(item, choice.target)
                   ELSE [tree |-> tree, ok |-> choice.does = "done"]
           items == apply[a].items \o (IF done.ok THEN Recorded(item, choice.target) ELSE <<>>)
<1>1. /\ apply[a].k \in DOMAIN Items /\ IsItem(item) /\ IsChoice(choice, item)
      /\ IsCall(apply[a], blueprint) /\ apply[a].at = "work"
      /\ choice.does \in {"act", "done"} => (item.action \in Transfers => ~Related(item.source, choice.target))
      /\ tree' = done.tree /\ IsTree(done.tree)
      /\ done.ok => choice.does \in {"act", "done"}
  <2>1. item = Items[apply[a].k] /\ choice = apply[a].choice
    OBVIOUS
  <2> HIDE DEF item, choice
  <2>2. done = IF choice.does = "act" THEN Worked(item, choice.target)
               ELSE [tree |-> tree, ok |-> choice.does = "done"]
    OBVIOUS
  <2> HIDE DEF done
  <2>3. QED BY <2>1, <2>2, WorkKnows
<1>2. AreRecords(items)
  <2>1. IsPath(choice.target) /\ AreRecords(apply[a].items)
    BY <1>1 DEF IsChoice, IsCall
  <2> HIDE DEF done, item, choice
  <2>2. QED BY <1>1, <2>1, RecordsGrow
<1>3. \/ apply' = [apply EXCEPT ![a].at = "choose", ![a].k = @ + 1, ![a].choice = Skip, ![a].items = items]
      \/ apply' = [apply EXCEPT ![a] = Returned(a)]
  BY DEF Work
<1>4. UNCHANGED <<blueprint, manifests, undo>>
  BY DEF Work
<1> HIDE DEF items
<1>5. CASE apply' = [apply EXCEPT ![a].at = "choose", ![a].k = @ + 1, ![a].choice = Skip, ![a].items = items]
  <2> DEFINE c == apply[a]
             d == Gone(c, items)
  <2>1. apply' = [apply EXCEPT ![a] = d]
    BY <1>5 DEF TypesInv, AreCalls, Gone
  <2>2. c = [x \in Parts |-> c[x]] /\ c.k \in Nat \ {0} /\ IsChecked(c.began, blueprint)
    BY <1>1 DEF IsCall
  <2> HIDE DEF c
  <2>3. /\ d = [x \in Parts |-> d[x]] /\ d.at = "choose" /\ d.items = items
        /\ d.k = c.k + 1 /\ d.began = c.began
    BY <2>2, GoneIs
  <2> HIDE DEF d
  <2>4. IsCall(d, blueprint)
    BY <1>2, <2>2, <2>3 DEF IsCall
  <2>5. AreCalls(apply', blueprint)
    BY <2>1, <2>4, CallSteps DEF TypesInv
  <2>6. QED BY <1>1, <1>4, <2>5 DEF TypesInv
<1>6. CASE apply' = [apply EXCEPT ![a] = Returned(a)]
  <2>1. AreCalls(apply', blueprint)
    BY <1>6, ReturnedIs, CallSteps DEF TypesInv
  <2>2. QED BY <1>1, <1>4, <2>1 DEF TypesInv
<1>7. QED BY <1>3, <1>5, <1>6

\* A call ends.
LEMMA TypesEnd ==
  ASSUME TypesInv, NEW a \in Applies, End(a)
  PROVE  TypesInv'
<1> DEFINE m == [items |-> apply[a].items, undone |-> FALSE]
<1>1. AreCalls(apply', blueprint)
  BY ReturnedIs, CallSteps DEF TypesInv, End
<1>2. UNCHANGED <<blueprint, tree, undo>> /\ manifests' \in {manifests, Append(manifests, m)}
  BY DEF End
<1>3. IsManifest(m)
  <2>1. AreRecords(apply[a].items)
    BY DEF TypesInv, AreCalls, IsCall
  <2>2. QED BY <2>1 DEF IsManifest
<1> HIDE DEF m
<1>4. AreManifests(manifests') /\ IsUndo(undo, manifests')
  <2>1. CASE manifests' = Append(manifests, m)
    <3> DEFINE s == Append(manifests, m)
    <3>1. /\ IsPath(s) /\ Len(s) = Len(manifests) + 1 /\ s[Len(s)] = m
          /\ \A i \in 1..Len(manifests) : s[i] = manifests[i]
      BY AppendIs DEF TypesInv, AreManifests
    <3>2. IsPath(manifests) /\ Len(manifests) \in Nat /\ DOMAIN manifests = 1..Len(manifests)
      BY PathIs DEF TypesInv, AreManifests
    <3> HIDE DEF s
    <3>3. DOMAIN s = 1..Len(s)
      BY <3>1, PathIs
    <3>4. \A i \in DOMAIN s : i \in DOMAIN manifests \/ i = Len(s)
      BY <3>1, <3>2, <3>3
    <3>5. AreManifests(s)
      BY <1>3, <3>1, <3>2, <3>4 DEF TypesInv, AreManifests
    <3>6. DOMAIN manifests \subseteq DOMAIN s
      BY <3>1, <3>2, <3>3
    <3>7. IsUndo(undo, s)
      BY <3>1, <3>2, <3>6 DEF TypesInv, IsUndo
    <3>8. QED BY <2>1, <3>5, <3>7 DEF s
  <2>2. CASE manifests' = manifests
    BY <2>2 DEF TypesInv
  <2>3. QED BY <1>2, <2>1, <2>2
<1>5. QED BY <1>1, <1>2, <1>4 DEF TypesInv

\* What an undo has before it is a record.
LEMMA UndoKnows ==
  ASSUME TypesInv, undo.at = "item"
  PROVE  /\ undo.m \in DOMAIN manifests /\ IsManifest(manifests[undo.m])
         /\ undo.k \in 0..Len(manifests[undo.m].items) /\ undo.k \in Nat
         /\ undo.k > 0 => IsRecord(manifests[undo.m].items[undo.k])
<1>1. undo.m \in DOMAIN manifests /\ undo.k \in 0..Len(manifests[undo.m].items)
  BY DEF TypesInv, IsUndo
<1>2. IsManifest(manifests[undo.m])
  BY <1>1 DEF TypesInv, AreManifests
<1> DEFINE s == manifests[undo.m].items
           k == undo.k
<1>3. AreRecords(s)
  BY <1>2 DEF IsManifest
<1> HIDE DEF s, k
<1>4. Len(s) \in Nat /\ DOMAIN s = 1..Len(s)
  BY <1>3, PathIs DEF AreRecords
<1>5. k \in Nat /\ k \in 0..Len(s)
  BY <1>1, <1>4 DEF s, k
<1>6. k > 0 => IsRecord(s[k])
  BY <1>3, <1>4, <1>5 DEF AreRecords
<1>7. QED BY <1>1, <1>2, <1>5, <1>6 DEF s, k

\* An undo starts with the latest manifest that it may take.
LEMMA TypesUndoStart ==
  ASSUME TypesInv, UndoStart
  PROVE  TypesInv'
<1> DEFINE m == CHOOSE m \in Undoable : \A n \in Undoable : n <= m
           n == Len(manifests)
<1>1. n \in Nat /\ DOMAIN manifests = 1..n
  BY PathIs DEF TypesInv, AreManifests
<1>2. m \in Undoable
  <2>1. Undoable \in SUBSET (0..n) /\ Undoable # {}
    BY <1>1 DEF Undoable, UndoStart
  <2> HIDE DEF n
  <2>2. \E x \in Undoable : \A y \in Undoable : y <= x
    BY <1>1, <2>1, GreatestNumber
  <2>3. QED BY <2>2
<1> HIDE DEF m
<1>3. m \in DOMAIN manifests
  BY <1>2 DEF Undoable
<1>4. Len(manifests[m].items) \in Nat
  BY <1>3, PathIs DEF TypesInv, AreManifests, IsManifest, AreRecords
<1>5. undo' = [at |-> "item", m |-> m, k |-> Len(manifests[m].items)]
  BY DEF UndoStart, m
<1>6. IsUndo(undo', manifests)
  <2> DEFINE k == Len(manifests[m].items)
  <2>1. undo'.at = "item" /\ undo'.m = m /\ undo'.k = k /\ undo' = [at |-> undo'.at, m |-> undo'.m, k |-> undo'.k]
    BY <1>5
  <2> HIDE DEF k
  <2>2. k \in 0..k
    BY <1>4 DEF k
  <2>3. QED BY <1>3, <2>1, <2>2 DEF IsUndo, k
<1>7. UNCHANGED <<blueprint, tree, apply, manifests>>
  BY DEF UndoStart
<1>8. QED BY <1>6, <1>7 DEF TypesInv

\* What an item of an undo does to the tree: it loses what is in a copy only.
LEMMA UndoneIs ==
  ASSUME TypesInv, UndoItem
  PROVE  /\ IsTree(tree') /\ kept' \subseteq kept
         /\ kept \subseteq FilesOf(tree) => kept' \subseteq FilesOf(tree')
<1> DEFINE item == manifests[undo.m].items[undo.k]
           revert == /\ IsDir(tree, item.target)
                     /\ item.status = "moved" => ~IsDir(tree, item.source) /\ IsDir(tree, Front(item.source))
<1>1. /\ tree' = IF ~revert THEN tree
                 ELSE IF item.status = "moved" THEN MoveDir(tree, item.target, item.source)
                 ELSE RemoveDirAll(tree, item.target)
      /\ kept' = IF revert /\ item.status = "copied" THEN kept \ OnlyIn(tree, item.target) ELSE kept
  BY DEF UndoItem
<1>2. IsRecord(item)
  BY UndoKnows DEF UndoItem
<1>3. IsTree(tree)
  BY DEF TypesInv
<1> HIDE DEF item, revert
<1>4. CASE ~revert
  BY <1>1, <1>3, <1>4
<1>5. CASE revert /\ item.status = "moved"
  <2>1. tree' = MoveDir(tree, item.target, item.source) /\ kept' = kept
    BY <1>1, <1>5
  <2>2. IsPath(item.source) /\ IsPath(item.target) /\ ~Related(item.target, item.source)
    BY <1>2 DEF IsRecord, Related
  <2>3. IsTree(MoveDir(tree, item.target, item.source))
        /\ FilesOf(tree) \subseteq FilesOf(MoveDir(tree, item.target, item.source))
    BY <1>3, <2>2, MoveIs
  <2>4. QED BY <2>1, <2>3
<1>6. CASE revert /\ item.status = "copied"
  <2>1. tree' = RemoveDirAll(tree, item.target) /\ kept' = kept \ OnlyIn(tree, item.target)
    BY <1>1, <1>6
  <2>2. IsTree(RemoveDirAll(tree, item.target))
        /\ FilesOf(tree) \ OnlyIn(tree, item.target) \subseteq FilesOf(RemoveDirAll(tree, item.target))
    BY <1>2, <1>3, RemoveIs DEF IsRecord
  <2>3. QED BY <2>1, <2>2
<1>7. QED BY <1>2, <1>4, <1>5, <1>6 DEF IsRecord

\* An undo takes an item back.
LEMMA TypesUndoItem ==
  ASSUME TypesInv, UndoItem
  PROVE  TypesInv'
<1>1. IsTree(tree') /\ UNCHANGED <<blueprint, apply, manifests>> /\ undo' = [undo EXCEPT !.k = @ - 1]
  BY UndoneIs DEF UndoItem
<1>2. IsUndo(undo', manifests)
  <2> DEFINE u == undo
             n == Len(manifests[undo.m].items)
  <2>1. /\ u = [at |-> u.at, m |-> u.m, k |-> u.k] /\ u.at = "item"
        /\ u.m \in DOMAIN manifests /\ u.k \in Nat /\ u.k > 0 /\ u.k \in 0..n /\ n \in Nat
    <3>1. AreRecords(manifests[undo.m].items) /\ undo.k > 0
      BY UndoKnows DEF UndoItem, IsManifest
    <3>2. n \in Nat
      BY <3>1, PathIs DEF AreRecords
    <3>3. QED BY <3>1, <3>2, UndoKnows DEF UndoItem, TypesInv, IsUndo
  <2>2. undo' = [at |-> u.at, m |-> u.m, k |-> u.k - 1]
    <3> HIDE DEF u
    <3>1. [u EXCEPT !.k = @ - 1] = [at |-> u.at, m |-> u.m, k |-> u.k - 1]
      BY <2>1
    <3>2. QED BY <1>1, <3>1 DEF u
  <2> HIDE DEF n
  <2>3. u.k - 1 \in 0..n
    BY <2>1
  <2>4. undo'.at = u.at /\ undo'.m = u.m /\ undo'.k = u.k - 1
    BY <2>2
  <2>5. undo' = [at |-> undo'.at, m |-> undo'.m, k |-> undo'.k]
    BY <2>2
  <2>6. QED BY <2>1, <2>3, <2>4, <2>5 DEF IsUndo, n
<1>3. QED BY <1>1, <1>2 DEF TypesInv

\* An undo is not running.
LEMMA NotUndoingIs == ASSUME NEW s PROVE IsUndo(NotUndoing, s)
BY DEF IsUndo, NotUndoing

\* An undo marks its manifest.
LEMMA TypesUndoMark ==
  ASSUME TypesInv, UndoMark
  PROVE  TypesInv'
<1>1. /\ UNCHANGED <<blueprint, tree, apply>> /\ undo' = NotUndoing
      /\ manifests' = [manifests EXCEPT ![undo.m].undone = TRUE] \/ manifests' = manifests
  BY DEF UndoMark
<1>2. AreManifests(manifests')
  <2>1. CASE manifests' = manifests
    BY <2>1 DEF TypesInv
  <2>2. CASE manifests' = [manifests EXCEPT ![undo.m].undone = TRUE]
    <3> DEFINE s == manifests
               n == Len(s)
               m == s[undo.m]
               marked == [m EXCEPT !.undone = TRUE]
    <3>1. IsPath(s) /\ n \in Nat /\ DOMAIN s = 1..n /\ (\A i \in DOMAIN s : IsManifest(s[i]))
      BY PathIs DEF TypesInv, AreManifests
    <3>2. IsManifest(m) /\ undo.m \in DOMAIN s
      BY UndoKnows DEF UndoMark
    <3>3. IsManifest(marked)
      <4> HIDE DEF m
      <4>1. marked.items = m.items
        BY <3>2 DEF IsManifest
      <4>2. marked = [x \in {"items", "undone"} |-> marked[x]]
        BY <3>2 DEF IsManifest
      <4>3. QED BY <3>2, <4>1, <4>2 DEF IsManifest
    <3>4. manifests' = [i \in DOMAIN s |-> IF i = undo.m THEN marked ELSE s[i]]
      BY <2>2
    <3> DEFINE t == [i \in 1..n |-> IF i = undo.m THEN marked ELSE s[i]]
    <3> HIDE DEF marked, s, n
    <3>5. manifests' = t /\ t = [i \in 1..n |-> t[i]]
      BY <3>1, <3>4
    <3>6. IsPath(t)
      BY <3>1, <3>5, FunctionIsPath
    <3>7. \A i \in DOMAIN t : IsManifest(t[i])
      BY <3>1, <3>3
    <3>8. QED BY <3>5, <3>6, <3>7 DEF AreManifests
  <2>3. QED BY <1>1, <2>1, <2>2
<1>3. IsUndo(undo', manifests')
  BY <1>1, NotUndoingIs
<1>4. QED BY <1>1, <1>2, <1>3 DEF TypesInv

\* What the user does is done to a tree, and he loses what he removes only.
LEMMA UserDoes ==
  ASSUME IsTree(tree), NEW p, UserRemoves(p) \/ \E f \in Files : UserDrops(f, p)
  PROVE  /\ IsTree(tree')
         /\ kept \subseteq FilesOf(tree) => kept' \subseteq FilesOf(tree')
<1>1. CASE UserRemoves(p)
  <2>1. IsPath(p) /\ tree' = RemoveDirAll(tree, p) /\ kept' = kept \ OnlyIn(tree, p)
    BY <1>1 DEF UserRemoves, IsTree, Closed, IsDir
  <2>2. IsTree(RemoveDirAll(tree, p)) /\ FilesOf(tree) \ OnlyIn(tree, p) \subseteq FilesOf(RemoveDirAll(tree, p))
    BY <2>1, RemoveIs
  <2>3. QED BY <2>1, <2>2
<1>2. CASE \E f \in Files : UserDrops(f, p)
  <2>1. PICK f \in Files : UserDrops(f, p)
    BY <1>2
  <2>2. /\ p \in DOMAIN tree /\ kept' = kept \cup {f}
        /\ tree' = [q \in DOMAIN tree |-> IF q = p THEN tree[q] \cup {f} ELSE tree[q]]
    BY <2>1 DEF UserDrops, IsDir
  <2>3. tree' \in [DOMAIN tree -> SUBSET Files] /\ DOMAIN tree' = DOMAIN tree
    BY <2>2 DEF IsTree
  <2>4. Grows(tree, tree') /\ f \in tree'[p]
    BY <2>2, <2>3 DEF Grows, IsTree
  <2>5. f \in FilesOf(tree')
    BY <2>2, <2>3, <2>4 DEF FilesOf
  <2>6. QED BY <2>2, <2>3, <2>4, <2>5, GrowsFiles DEF IsTree
<1>3. QED BY <1>1, <1>2

\* The user works in the root.
LEMMA TypesUser ==
  ASSUME TypesInv, UserStep
  PROVE  TypesInv'
<1>1. PICK p \in UserFolders : UserRemoves(p) \/ \E f \in Files : UserDrops(f, p)
  BY DEF UserStep
<1>2. IsTree(tree')
  BY <1>1, UserDoes DEF TypesInv
<1>3. UNCHANGED <<blueprint, apply, manifests, undo>>
  BY <1>1 DEF UserRemoves, UserDrops
<1>4. QED BY <1>2, <1>3 DEF TypesInv

\* The application dies.
LEMMA TypesCrash ==
  ASSUME TypesInv, Crash
  PROVE  TypesInv'
<1>1. UNCHANGED <<blueprint, tree, manifests>> /\ undo' = NotUndoing
      /\ apply' = [a \in Applies |-> Returned(a)]
  BY DEF Crash
<1>2. AreCalls(apply', blueprint)
  BY <1>1, ReturnedIs DEF AreCalls
<1>3. IsUndo(undo', manifests)
  BY <1>1, NotUndoingIs
<1>4. QED BY <1>1, <1>2, <1>3 DEF TypesInv

\* Every step leaves a well formed state.
LEMMA TypesNext == TypesInv /\ [Next]_vars => TypesInv'
<1> SUFFICES ASSUME TypesInv, [Next]_vars PROVE TypesInv'
  OBVIOUS
<1>1. ASSUME NEW a \in Applies, ApplyStep(a) PROVE TypesInv'
  BY <1>1, TypesLook, TypesWork, TypesEnd DEF ApplyStep
<1>2. CASE UndoStep
  BY <1>2, TypesUndoStart, TypesUndoItem, TypesUndoMark DEF UndoStep
<1>3. CASE UserStep
  BY <1>3, TypesUser
<1>4. CASE Crash
  BY <1>4, TypesCrash
<1>5. CASE UNCHANGED vars
  BY <1>5 DEF vars, TypesInv
<1>6. QED BY <1>1, <1>2, <1>3, <1>4, <1>5 DEF Next

\* Every reachable state is well formed: an apply is at an item of its plan,
\* never moves or copies a folder into itself or onto its parent even when a
\* conflict is resolved by another name, and remembers the tree that its plan
\* was checked against; an undo is at an item of its manifest.
THEOREM WellFormed == Spec => []TypesInv
<1>1. TypesInv /\ [Next]_vars => TypesInv'
  BY TypesNext
<1>2. QED BY TypesInit, <1>1, PTL DEF Spec

-----------------------------------------------------------------------------
(***************************************************************************)
(* Nothing is lost.                                                        *)
(***************************************************************************)

KeptInv == kept \subseteq FilesOf(tree)

\* A delete that was not confirmed was checked against an empty folder.
LEMMA CheckedEmpty ==
  ASSUME NEW t, NEW p, ~HasEntries(t, p)
  PROVE  Content(t, p) = {}
BY DEF HasEntries, Content

\* An item takes away only what a delete was confirmed for or came later.
LEMMA WorkKeeps ==
  ASSUME TypesInv, KeptInv, NEW a \in Applies, Work(a)
  PROVE  KeptInv'
<1> DEFINE item == Items[apply[a].k]
           choice == apply[a].choice
           done == IF choice.does = "act" THEN Worked(item, choice.target)
                   ELSE [tree |-> tree, ok |-> choice.does = "done"]
           spared == IF blueprint.confirmed THEN {} ELSE Content(apply[a].began, choice.target)
<1>1. /\ IsItem(item) /\ IsChoice(choice, item) /\ apply[a].k \in DOMAIN Items
      /\ IsCall(apply[a], blueprint) /\ apply[a].at = "work"
      /\ choice.does \in {"act", "done"} => (item.action \in Transfers => ~Related(item.source, choice.target))
      /\ tree' = done.tree
      /\ choice.does # "act" => tree' = tree
  <2>1. item = Items[apply[a].k] /\ choice = apply[a].choice
    OBVIOUS
  <2> HIDE DEF item, choice
  <2>2. done = IF choice.does = "act" THEN Worked(item, choice.target)
               ELSE [tree |-> tree, ok |-> choice.does = "done"]
    OBVIOUS
  <2> HIDE DEF done
  <2>3. QED BY <2>1, <2>2, WorkKnows
<1>2. kept' = IF item.action = "delete" /\ choice.does = "act" /\ IsDir(tree, choice.target)
              THEN kept \ (OnlyIn(tree, choice.target) \ spared)
              ELSE kept
  BY DEF Work
<1>3. IsPath(choice.target) /\ (item.action = "delete" => choice.target = item.source)
  BY <1>1, ChoicesAre DEF IsChoice
<1>4. CASE choice.does # "act"
  BY <1>1, <1>2, <1>4 DEF KeptInv
<1>5. CASE choice.does = "act"
  <2>1. tree' = Worked(item, choice.target).tree
    BY <1>1, <1>5
  <2> DEFINE w == Worked(item, choice.target)
  <2>2. /\ item.action # "delete" => FilesOf(tree) \subseteq FilesOf(w.tree)
        /\ item.action = "delete" =>
             /\ FilesOf(tree) \ OnlyIn(tree, choice.target) \subseteq FilesOf(w.tree)
             /\ ~IsDir(tree, choice.target) => w.tree = tree
    BY <1>1, <1>3, <1>5, WorkedIs DEF TypesInv
  <2> HIDE DEF w
  <2>3. item.action = "delete" => spared = {}
    <3>1. IsChecked(apply[a].began, blueprint)
      BY <1>1 DEF IsCall
    <3>2. item.action = "delete" /\ ~blueprint.confirmed => ~HasEntries(apply[a].began, item.source)
      BY <1>1, <3>1 DEF IsChecked, Items
    <3>3. QED BY <1>3, <3>2, CheckedEmpty
  <2> HIDE DEF item, choice, spared
  <2>4. tree' = w.tree
    BY <2>1 DEF w
  <2> HIDE DEF IsDir
  <2>5. CASE item.action = "delete" /\ IsDir(tree, choice.target)
    BY <1>2, <1>5, <2>2, <2>3, <2>4, <2>5 DEF KeptInv, choice
  <2>6. CASE ~(item.action = "delete" /\ IsDir(tree, choice.target))
    BY <1>2, <1>5, <2>2, <2>4, <2>6 DEF KeptInv, choice
  <2>7. QED BY <2>5, <2>6
<1>6. QED BY <1>4, <1>5

\* Every step keeps what has to be kept.
LEMMA KeptNext == TypesInv /\ KeptInv /\ [Next]_vars => KeptInv'
<1> SUFFICES ASSUME TypesInv, KeptInv, [Next]_vars PROVE KeptInv'
  OBVIOUS
<1>1. ASSUME NEW a \in Applies, Work(a) PROVE KeptInv'
  BY <1>1, WorkKeeps
<1>2. ASSUME NEW a \in Applies, Begin(a) \/ Choose(a) \/ End(a) PROVE KeptInv'
  BY <1>2 DEF Begin, Choose, End, observed, KeptInv
<1>3. CASE UndoItem
  BY <1>3, UndoneIs DEF KeptInv
<1>4. CASE UndoStart \/ UndoMark \/ Crash
  BY <1>4 DEF UndoStart, UndoMark, Crash, KeptInv
<1>5. CASE UserStep
  BY <1>5, UserDoes DEF UserStep, TypesInv, KeptInv
<1>6. CASE UNCHANGED vars
  BY <1>6 DEF vars, observed, KeptInv
<1>7. QED BY <1>1, <1>2, <1>3, <1>4, <1>5, <1>6 DEF Next, ApplyStep, UndoStep

\* A file that was in the root, or was dropped into it, is still somewhere in
\* it, for every blueprint, root, number of calls, user, crash and failure: a
\* plan takes away only what a delete was confirmed for or what came into its
\* folder after the check.
THEOREM ContentIsKept == Spec => []NothingLost
<1>1. Init => KeptInv
  <2>1. SUFFICES ASSUME Init PROVE KeptInv
    OBVIOUS
  <2>2. IsTree(tree) /\ kept = Content(tree, Root)
    BY <2>1, TypesInit DEF TypesInv, Init
  <2>3. QED BY <2>2, ContentIs DEF KeptInv
<1>2. TypesInv /\ KeptInv => NothingLost
  BY ContentIs DEF TypesInv, KeptInv, NothingLost
<1>3. TypesInv /\ KeptInv /\ [Next]_vars => KeptInv'
  BY KeptNext
<1>4. QED BY WellFormed, <1>1, <1>2, <1>3, PTL DEF Spec

-----------------------------------------------------------------------------
(***************************************************************************)
(* The simulation is right.                                                *)
(***************************************************************************)

Solos == {"on", "before", "fresh", "foretold"}

\* Whoever is alone with the root is one apply, or an undo.
AloneInv ==
  /\ solo = [x \in Solos |-> solo[x]]
  /\ solo.on => /\ \A a, b \in Applying : a = b
                /\ undo.at # "idle" => Applying = {}

\* The transfers that a call has before it find their folder, and their place
\* free.
IsAhead(t, c, items) ==
  /\ c.at # "idle" => \A j \in DOMAIN items :
                        j >= c.k /\ items[j].action \in Transfers =>
                          IsDir(t, items[j].source) /\ ~IsDir(t, items[j].target)
  /\ c.at = "work" /\ items[c.k].action \in Transfers => c.choice = Act(items[c.k].target)

AheadInv ==
  solo.on /\ solo.foretold /\ Undisturbed =>
    /\ solo.fresh
    /\ \A a \in Applies : IsAhead(tree, apply[a], Items)

\* Nobody is alone.
LEMMA NotSoloIs == ~NotSolo.on /\ NotSolo = [x \in Solos |-> NotSolo[x]]
BY DEF NotSolo, Solos

\* The folders after a move.
LEMMA MoveFolders ==
  ASSUME NEW t, IsTree(t), NEW from, NEW to, IsPath(from), IsPath(to), ~Related(from, to)
  PROVE  \A q : q \in DOMAIN MoveDir(t, from, to) <=> q \in DOMAIN CopyDir(t, from, to) /\ ~IsPrefix(from, q)
<1> DEFINE D == DOMAIN CopyDir(t, from, to)
<1>1. DOMAIN MoveDir(t, from, to) = {q \in D : ~IsPrefix(from, q)}
  BY MoveIs
<1> HIDE DEF D
<1>2. \A q : q \in DOMAIN MoveDir(t, from, to) <=> q \in D /\ ~IsPrefix(from, q)
  BY <1>1
<1>3. QED BY <1>2 DEF D

\* An item makes no news for one that does not touch its places.
LEMMA WorkedFolders ==
  ASSUME IsTree(tree), NEW item, IsItem(item), item.action \in Transfers => IsDir(tree, item.source),
         NEW target, target = IF item.action = "delete" THEN item.source ELSE item.target,
         NEW source \in DOMAIN tree, NEW place, place \notin DOMAIN tree, IsPath(place),
         item.action # "delete" => ~IsPrefix(place, item.target),
         item.action \in Transfers => ~IsPrefix(item.target, place),
         item.action \in {"rename", "move", "delete"} => ~IsPrefix(item.source, source)
  PROVE  source \in DOMAIN Worked(item, target).tree /\ place \notin DOMAIN Worked(item, target).tree
<1> USE DEF IsItem, Transfers
<1> DEFINE w == Worked(item, target)
<1>1. CASE item.action = "create"
  <2>1. w.tree = CreateDirAll(tree, item.target)
    BY <1>1 DEF Worked
  <2>2. DOMAIN CreateDirAll(tree, item.target) = DOMAIN tree \cup Prefixed(item.target)
    BY CreateIs
  <2>3. place \notin Prefixed(item.target)
    BY <1>1, PrefixedIs
  <2>4. QED BY <2>1, <2>2, <2>3
<1>2. CASE item.action = "delete"
  <2>1. w.tree = RemoveDirAll(tree, item.source) \/ w.tree = tree
    BY <1>2 DEF Worked
  <2>2. DOMAIN RemoveDirAll(tree, item.source) = {q \in DOMAIN tree : ~IsPrefix(item.source, q)}
    BY RemoveIs
  <2>3. QED BY <1>2, <2>1, <2>2
<1>3. CASE item.action \in Transfers
  <2> DEFINE copied == CopyDir(tree, item.source, item.target)
  <2>1. DOMAIN copied = DOMAIN tree \cup Prefixed(item.target) \cup Copied(DOMAIN tree, item.source, item.target)
    BY CopyIs
  <2>2. place \notin Prefixed(item.target)
    BY <1>3, PrefixedIs
  <2>3. place \notin Copied(DOMAIN tree, item.source, item.target)
    <3>1. SUFFICES ASSUME NEW q \in DOMAIN tree, IsPrefix(item.source, q),
                          place = Rebased(item.source, item.target, q)
                   PROVE  FALSE
      BY DEF Copied, Inside
    <3>2. IsPath(q)
      BY DEF IsTree, Closed
    <3>3. IsRebased(place, item.source, item.target, q)
      BY <3>1, <3>2, RebasedIs
    <3>4. IsPrefix(item.target, place)
      BY <3>3 DEF IsRebased
    <3>5. QED BY <1>3, <3>4
  <2> HIDE DEF copied
  <2>4. source \in DOMAIN copied /\ place \notin DOMAIN copied
    BY <2>1, <2>2, <2>3
  <2>5. CASE item.action = "copy"
    <3>1. w.tree = copied
      BY <1>3, <2>5 DEF Worked, copied
    <3>2. QED BY <2>4, <3>1
  <2>6. CASE item.action # "copy"
    <3>1. w.tree = MoveDir(tree, item.source, item.target)
      BY <1>3, <2>6 DEF Worked
    <3>2. \A q : q \in DOMAIN MoveDir(tree, item.source, item.target)
                   <=> q \in DOMAIN copied /\ ~IsPrefix(item.source, q)
      BY <1>3, MoveFolders DEF copied
    <3>3. QED BY <1>3, <2>4, <2>6, <3>1, <3>2
  <2>7. QED BY <2>5, <2>6
<1>4. QED BY <1>1, <1>2, <1>3 DEF Actions

\* A transfer that finds its folder does its work.
LEMMA WorkedOk ==
  ASSUME NEW item, item.action \in Transfers, IsDir(tree, item.source), NEW target
  PROVE  Worked(item, target).ok
BY Zenon DEF Worked, Transfers

\* Whether the work on an item was done at its place.
LEMMA FreshIs ==
  ASSUME solo = [x \in Solos |-> solo[x]], NEW fresh \in BOOLEAN, NEW s, s = [solo EXCEPT !.fresh = @ /\ fresh]
  PROVE  /\ s = [x \in Solos |-> s[x]] /\ s.on = solo.on /\ s.foretold = solo.foretold
         /\ s.before = solo.before
         /\ s.fresh <=> solo.fresh /\ fresh
<1>1. s = [x \in Solos |-> s[x]] /\ s.on = solo.on
  BY DEF Solos
<1>2. s.foretold = solo.foretold /\ s.before = solo.before
  BY DEF Solos
<1>3. s.fresh = (solo.fresh /\ fresh)
  BY DEF Solos
<1>4. QED BY <1>1, <1>2, <1>3

\* Whoever begins is alone if nothing else is going on.
LEMMA AloneBegin ==
  ASSUME TypesInv, AloneInv, NEW a \in Applies, Begin(a)
  PROVE  /\ AloneInv'
         /\ solo'.on => /\ solo'.foretold = Simulated /\ solo'.fresh /\ undo' = undo /\ undo.at = "idle"
                        /\ Applying = {} /\ settled' = settled
<1>1. CASE Applying = {} /\ undo.at = "idle"
  <2>1. solo' = [on |-> TRUE, before |-> tree, fresh |-> TRUE, foretold |-> Simulated] /\ undo' = undo
        /\ settled' = settled
    BY <1>1 DEF Begin
  <2>2. solo' = [x \in Solos |-> solo'[x]] /\ solo'.foretold = Simulated
    BY <2>1 DEF Solos
  <2>3. solo'.fresh
    BY <2>1
  <2>4. \A x \in Applying' : x = a
    <3>1. SUFFICES ASSUME NEW x \in Applies, x # a, apply'[x].at # "idle" PROVE FALSE
      BY DEF Applying
    <3>2. apply'[x] = apply[x]
      BY <3>1 DEF Begin, TypesInv, AreCalls
    <3>3. QED BY <1>1, <3>1, <3>2 DEF Applying
  <2>5. QED BY <1>1, <2>1, <2>2, <2>3, <2>4 DEF AloneInv
<1>2. CASE ~(Applying = {} /\ undo.at = "idle")
  <2>1. solo' = NotSolo
    BY <1>2 DEF Begin
  <2>2. QED BY <2>1, NotSoloIs DEF AloneInv
<1>3. QED BY <1>1, <1>2

\* A step of a call that runs.
LEMMA AloneCall ==
  ASSUME TypesInv, AloneInv, NEW a \in Applies, Choose(a) \/ Work(a) \/ End(a)
  PROVE  /\ AloneInv'
         /\ solo'.on => solo.on /\ solo'.foretold = solo.foretold /\ solo'.before = solo.before /\ Applying = {a}
<1>1. a \in Applying /\ undo' = undo
  BY DEF Choose, Work, End, Applying
<1>2. \A x \in Applies : x # a => apply'[x] = apply[x]
  BY DEF Choose, Work, End, TypesInv, AreCalls
<1>3. Applying' \subseteq Applying
  BY <1>1, <1>2 DEF Applying
<1>4. \/ solo' = solo \/ solo' = NotSolo
      \/ \E fresh \in BOOLEAN : solo' = [solo EXCEPT !.fresh = @ /\ fresh]
  <2>1. ASSUME Work(a) PROVE \/ solo' = NotSolo
                              \/ \E fresh \in BOOLEAN : solo' = [solo EXCEPT !.fresh = @ /\ fresh]
    <3> DEFINE item == Items[apply[a].k]
               choice == apply[a].choice
               done == IF choice.does = "act" THEN Worked(item, choice.target)
                       ELSE [tree |-> tree, ok |-> choice.does = "done"]
               fresh == item.action \in Transfers =>
                          done.ok /\ choice.does = "act" /\ ~IsDir(tree, choice.target)
    <3>1. solo' = [solo EXCEPT !.fresh = @ /\ fresh] \/ solo' = NotSolo
      BY <2>1, Zenon DEF Work
    <3>2. fresh \in BOOLEAN
      OBVIOUS
    <3> HIDE DEF fresh
    <3>3. QED BY <3>1, <3>2
  <2>2. QED BY <2>1 DEF Choose, End, observed
<1>5. CASE solo' = NotSolo
  BY <1>5, NotSoloIs DEF AloneInv
<1>6. ASSUME solo' = [x \in Solos |-> solo'[x]], solo'.on = solo.on, solo'.foretold = solo.foretold,
             solo'.before = solo.before
      PROVE  /\ AloneInv'
             /\ solo'.on => solo.on /\ solo'.foretold = solo.foretold /\ solo'.before = solo.before
                              /\ Applying = {a}
  <2>1. solo.on => Applying = {a}
    BY <1>1 DEF AloneInv
  <2>2. AloneInv'
    BY <1>1, <1>3, <1>6 DEF AloneInv
  <2>3. QED BY <1>6, <2>1, <2>2
<1>7. CASE solo' = solo
  BY <1>6, <1>7 DEF AloneInv
<1>8. CASE \E fresh \in BOOLEAN : solo' = [solo EXCEPT !.fresh = @ /\ fresh]
  <2>1. PICK fresh \in BOOLEAN : solo' = [solo EXCEPT !.fresh = @ /\ fresh]
    BY <1>8
  <2>2. /\ solo' = [x \in Solos |-> solo'[x]] /\ solo'.on = solo.on /\ solo'.foretold = solo.foretold
        /\ solo'.before = solo.before
    BY <2>1, FreshIs DEF AloneInv
  <2>3. QED BY <1>6, <2>2
<1>9. QED BY <1>4, <1>5, <1>7, <1>8

\* A step that is not an apply's.
LEMMA AloneElse ==
  ASSUME TypesInv, AloneInv, UndoStep \/ UserStep \/ Crash \/ UNCHANGED vars
  PROVE  /\ AloneInv'
         /\ solo'.on => solo' = solo /\ Applying' = Applying /\ (Applying = {} \/ UNCHANGED vars)
<1>1. CASE UNCHANGED vars
  BY <1>1 DEF vars, observed, AloneInv, Applying
<1>2. CASE UndoStart
  <2>1. solo' = (IF Applying = {} THEN solo ELSE NotSolo) /\ apply' = apply
    BY <1>2 DEF UndoStart
  <2>2. CASE Applying = {}
    BY <2>1, <2>2 DEF AloneInv, Applying
  <2>3. CASE Applying # {}
    BY <2>1, <2>3, NotSoloIs DEF AloneInv
  <2>4. QED BY <2>2, <2>3
<1>3. CASE UndoItem
  <2>1. solo' = solo /\ apply' = apply /\ undo.at = "item"
    BY <1>3 DEF UndoItem
  <2>2. solo.on => Applying = {}
    BY <2>1 DEF AloneInv
  <2>3. QED BY <2>1, <2>2 DEF AloneInv, Applying
<1>4. CASE UndoMark \/ UserStep \/ Crash
  <2>1. solo' = NotSolo
    BY <1>4 DEF UndoMark, UserStep, UserRemoves, UserDrops, UserActs, Crash
  <2>2. QED BY <2>1, NotSoloIs DEF AloneInv
<1>5. QED BY <1>1, <1>2, <1>3, <1>4 DEF UndoStep

\* The plan does not change.
LEMMA PlanStays ==
  ASSUME [Next]_vars
  PROVE  blueprint' = blueprint /\ Items' = Items /\ (Undisturbed' <=> Undisturbed)
<1>1. blueprint' = blueprint
  BY DEF Next, ApplyStep, Begin, Choose, Work, End, UndoStep, UndoStart, UndoItem, UndoMark, UserStep,
         UserRemoves, UserDrops, Crash, vars
<1>2. Items' = Items
  BY <1>1 DEF Items
<1>3. QED BY <1>1, <1>2 DEF Undisturbed

\* Nobody is applying: nothing is ahead.
LEMMA NobodyAhead ==
  ASSUME NEW t, NEW calls, \A a \in Applies : calls[a].at = "idle"
  PROVE  \A a \in Applies : IsAhead(t, calls[a], Items)
BY DEF IsAhead

\* A plan that was simulated without a collision.
LEMMA AheadBegin ==
  ASSUME TypesInv, AloneInv, NEW a \in Applies, Begin(a), solo'.on, solo'.foretold
  PROVE  solo'.fresh /\ \A x \in Applies : IsAhead(tree', apply'[x], Items)
<1>1. solo'.fresh /\ Simulated /\ Applying = {} /\ tree' = tree /\ Preflight
  <2>1. solo'.foretold = Simulated
    BY AloneBegin
  <2>2. Simulated
    BY <2>1
  <2>3. QED BY <2>2, AloneBegin DEF Begin
<1>2. PICK stored \in BOOLEAN :
        apply' = [apply EXCEPT ![a] = [NotApplying EXCEPT !.at = "choose", !.k = 1,
                                                          !.stored = stored, !.began = tree]]
  BY DEF Begin
<1> DEFINE c == Begun(stored, tree)
<1> HIDE DEF c
<1>3. apply' = [apply EXCEPT ![a] = c]
  BY <1>2 DEF c, Begun
<1>4. c.at = "choose" /\ c.k = 1
  BY BegunIs DEF c
<1>5. apply'[a] = c /\ \A x \in Applies : x # a => apply'[x] = apply[x] /\ apply[x].at = "idle"
  BY <1>1, <1>3 DEF TypesInv, AreCalls, Applying
<1>6. IsAhead(tree, c, Items)
  <2>1. SUFFICES ASSUME NEW j \in DOMAIN Items, Items[j].action \in Transfers
                 PROVE  IsDir(tree, Items[j].source) /\ ~IsDir(tree, Items[j].target)
    BY <1>4 DEF IsAhead
  <2>2. QED BY <1>1, <2>1 DEF Preflight, Simulated
<1>7. \A x \in Applies : x # a => IsAhead(tree, apply'[x], Items)
  BY <1>5 DEF IsAhead
<1>8. QED BY <1>1, <1>5, <1>6, <1>7

\* A free place is the place that the plan names.
LEMMA AheadChoose ==
  ASSUME TypesInv, NEW a \in Applies, Choose(a), \A x \in Applies : IsAhead(tree, apply[x], Items)
  PROVE  \A x \in Applies : IsAhead(tree', apply'[x], Items)
<1> DEFINE c == apply[a]
           k == c.k
           choice == Choice(Items[k])
           d == Chosen(c, choice)
<1>1. IsCall(c, blueprint) /\ c.at = "choose" /\ tree' = tree /\ IsAhead(tree, c, Items)
  BY DEF TypesInv, AreCalls, Choose
<1>2. k \in DOMAIN Items
  <2>1. k \in Nat \ {0} /\ k <= Len(Items)
    BY <1>1 DEF Choose, IsCall
  <2> HIDE DEF k
  <2>2. QED BY <2>1, ItemsAre
<1>3. /\ d.at = "work" /\ d.choice = choice /\ d.k = k
  <2> HIDE DEF choice, c
  <2>1. QED BY <1>1, ChosenIs DEF IsCall
<1>4. apply' = [apply EXCEPT ![a] = d]
  BY DEF Choose, TypesInv, AreCalls, Chosen
<1>5. Items[k].action \in Transfers => choice = Act(Items[k].target)
  <2>1. SUFFICES ASSUME Items[k].action \in Transfers PROVE choice = Act(Items[k].target)
    OBVIOUS
  <2>2. k \in Nat /\ k >= k
    <3>1. k \in Nat
      BY <1>1 DEF IsCall
    <3> HIDE DEF k
    <3>2. QED BY <3>1
  <2>3. IsDir(tree, Items[k].source) /\ ~IsDir(tree, Items[k].target)
    BY <1>1, <1>2, <2>1, <2>2 DEF IsAhead
  <2> HIDE DEF k
  <2>4. choice = ResolveConflict(Items[k].target)
    BY <2>1, <2>3 DEF Choice, Transfers
  <2>5. QED BY <2>3, <2>4 DEF ResolveConflict
<1> HIDE DEF d, choice
<1>6. IsAhead(tree, d, Items)
  <2>1. \A j \in DOMAIN Items :
          j >= k /\ Items[j].action \in Transfers =>
            IsDir(tree, Items[j].source) /\ ~IsDir(tree, Items[j].target)
    BY <1>1 DEF IsAhead
  <2> HIDE DEF k
  <2>2. QED BY <1>3, <1>5, <2>1 DEF IsAhead
<1>7. apply'[a] = d /\ \A x \in Applies : x # a => apply'[x] = apply[x]
  BY <1>4 DEF TypesInv, AreCalls
<1>8. QED BY <1>1, <1>6, <1>7

\* An item does its work at its place, and leaves the places of later transfers
\* as they are.
LEMMA AheadWork ==
  ASSUME TypesInv, AloneInv, Undisturbed, NEW a \in Applies, Work(a), solo'.on, solo.fresh,
         \A x \in Applies : IsAhead(tree, apply[x], Items)
  PROVE  solo'.fresh /\ \A x \in Applies : IsAhead(tree', apply'[x], Items)
<1> DEFINE c == apply[a]
           k == c.k
           item == Items[k]
           choice == c.choice
           target == IF item.action = "delete" THEN item.source ELSE item.target
           done == IF choice.does = "act" THEN Worked(item, choice.target)
                   ELSE [tree |-> tree, ok |-> choice.does = "done"]
           fresh == item.action \in Transfers =>
                      done.ok /\ choice.does = "act" /\ ~IsDir(tree, choice.target)
           items == c.items \o (IF done.ok THEN Recorded(item, choice.target) ELSE <<>>)
<1>1. /\ k \in DOMAIN Items /\ IsItem(item) /\ IsChoice(choice, item) /\ IsCall(c, blueprint)
      /\ c.at = "work" /\ tree' = done.tree
  <2>1. item = Items[apply[a].k] /\ choice = apply[a].choice
    OBVIOUS
  <2> HIDE DEF item, choice
  <2>2. done = IF choice.does = "act" THEN Worked(item, choice.target)
               ELSE [tree |-> tree, ok |-> choice.does = "done"]
    OBVIOUS
  <2> HIDE DEF done
  <2>3. QED BY <2>1, <2>2, WorkKnows
<1>2. IsAhead(tree, c, Items) /\ DOMAIN Items = 1..Len(Items) /\ Len(Items) \in Nat
  BY ItemsAre
<1>3. k \in Nat
  BY <1>1 DEF IsCall
<1>4. item.action \in Transfers =>
        IsDir(tree, item.source) /\ ~IsDir(tree, item.target) /\ choice = Act(item.target)
  <2> SUFFICES ASSUME item.action \in Transfers
               PROVE  IsDir(tree, item.source) /\ ~IsDir(tree, item.target) /\ choice = Act(item.target)
    OBVIOUS
  <2>1. k >= k
    <3> HIDE DEF k
    <3>1. QED BY <1>3
  <2>2. QED BY <1>1, <1>2, <2>1 DEF IsAhead
<1>5. choice.does = "act" => choice.target = target
  BY <1>1, <1>4, ChoicesAre DEF IsChoice, IsItem, Actions, Transfers
<1>6. \/ solo' = [solo EXCEPT !.fresh = @ /\ fresh]
           /\ apply' = [apply EXCEPT ![a].at = "choose", ![a].k = @ + 1, ![a].choice = Skip, ![a].items = items]
      \/ solo' = NotSolo
  BY Zenon DEF Work
<1>7. solo' = [solo EXCEPT !.fresh = @ /\ fresh]
       /\ apply' = [apply EXCEPT ![a].at = "choose", ![a].k = @ + 1, ![a].choice = Skip, ![a].items = items]
  BY <1>6, NotSoloIs
<1>8. fresh
  <2>1. SUFFICES ASSUME item.action \in Transfers
                 PROVE  done.ok /\ choice.does = "act" /\ ~IsDir(tree, choice.target)
    BY Zenon
  <2>2. choice.does = "act" /\ choice.target = item.target
    BY <1>4, <2>1, ChoicesAre
  <2>3. Worked(item, choice.target).ok
    BY <1>4, <2>1, WorkedOk
  <2>4. done.ok
    BY <2>2, <2>3, Zenon
  <2>5. QED BY <1>4, <2>1, <2>2, <2>4
<1>9. solo'.fresh
  <2> HIDE DEF fresh
  <2>1. solo' = [solo EXCEPT !.fresh = @ /\ TRUE]
    BY <1>7, <1>8
  <2>2. QED BY <2>1, FreshIs DEF AloneInv
<1> HIDE DEF items, fresh
<1>10. apply'[a].at = "choose" /\ apply'[a].k = k + 1 /\ \A x \in Applies : x # a => apply'[x] = apply[x]
  <2> DEFINE d == Gone(c, items)
  <2>1. apply' = [apply EXCEPT ![a] = d]
    BY <1>7 DEF TypesInv, AreCalls, Gone
  <2>2. apply'[a] = d /\ \A x \in Applies : x # a => apply'[x] = apply[x]
    BY <2>1 DEF TypesInv, AreCalls
  <2>3. c = [x \in Parts |-> c[x]]
    BY <1>1 DEF IsCall
  <2> HIDE DEF c
  <2>4. d.at = "choose" /\ d.k = c.k + 1
    BY <2>3, GoneIs
  <2>5. QED BY <2>2, <2>4
<1>11. ASSUME NEW j \in DOMAIN Items, j >= k + 1, Items[j].action \in Transfers
       PROVE  IsDir(tree', Items[j].source) /\ ~IsDir(tree', Items[j].target)
  <2>1. k < j /\ j >= k /\ k \in 1..Len(Items) /\ j \in 1..Len(Items)
    <3> HIDE DEF k
    <3>1. QED BY <1>1, <1>2, <1>3, <1>11
  <2>2. IsDir(tree, Items[j].source) /\ ~IsDir(tree, Items[j].target)
    BY <1>1, <1>2, <1>11, <2>1 DEF IsAhead
  <2>3. CASE choice.does = "act"
    <3>1. /\ item.action # "delete" => ~IsPrefix(Items[j].target, item.target)
          /\ item.action \in Transfers => ~IsPrefix(item.target, Items[j].target)
          /\ item.action \in {"rename", "move", "delete"} => ~IsPrefix(item.source, Items[j].source)
      <4> HIDE DEF k
      <4>1. QED BY <1>11, <2>1 DEF Undisturbed
    <3>2. IsPath(Items[j].target)
      BY ItemsAre DEF IsItem
    <3>3. tree' = Worked(item, target).tree
      BY <1>1, <1>5, <2>3
    <3> HIDE DEF item, done, choice, c, k
    <3>4. IsTree(tree) /\ IsItem(item) /\ (item.action \in Transfers => IsDir(tree, item.source))
      BY <1>1, <1>4 DEF TypesInv
    <3> DEFINE source == Items[j].source
               place == Items[j].target
    <3>5. source \in DOMAIN tree /\ place \notin DOMAIN tree
      BY <2>2 DEF IsDir
    <3>6. source \in DOMAIN Worked(item, target).tree /\ place \notin DOMAIN Worked(item, target).tree
      BY <3>1, <3>2, <3>4, <3>5, WorkedFolders
    <3>7. QED BY <3>3, <3>6 DEF IsDir
  <2>4. CASE choice.does # "act"
    <3>1. tree' = tree
      BY <1>1, <2>4
    <3>2. QED BY <2>2, <3>1
  <2>5. QED BY <2>3, <2>4
<1>12. IsAhead(tree', apply'[a], Items)
  <2> HIDE DEF k
  <2>1. QED BY <1>10, <1>11 DEF IsAhead
<1>13. ASSUME NEW x \in Applies, x # a PROVE apply'[x].at = "idle"
  <2>1. Applying = {a}
    BY AloneCall
  <2>2. QED BY <1>10, <1>13, <2>1 DEF Applying
<1>14. QED BY <1>9, <1>12, <1>13 DEF IsAhead

\* Whoever is alone has what the simulation foretold before him.
LEMMA AheadNext == TypesInv /\ AloneInv /\ AheadInv /\ [Next]_vars => AloneInv' /\ AheadInv'
<1> SUFFICES ASSUME TypesInv, AloneInv, AheadInv, [Next]_vars PROVE AloneInv' /\ AheadInv'
  OBVIOUS
<1>1. blueprint' = blueprint /\ Items' = Items /\ (Undisturbed' <=> Undisturbed)
  BY PlanStays
<1>2. AheadInv' <=> (solo'.on /\ solo'.foretold /\ Undisturbed =>
                       solo'.fresh /\ \A a \in Applies : IsAhead(tree', apply'[a], Items))
  BY <1>1 DEF AheadInv
<1>3. ASSUME NEW a \in Applies, Begin(a) PROVE AloneInv' /\ AheadInv'
  BY <1>2, <1>3, AloneBegin, AheadBegin
<1>4. ASSUME NEW a \in Applies, Choose(a) \/ Work(a) \/ End(a) PROVE AloneInv' /\ AheadInv'
  <2>1. /\ AloneInv'
        /\ solo'.on => solo.on /\ solo'.foretold = solo.foretold /\ Applying = {a}
    BY <1>4, AloneCall
  <2>2. SUFFICES ASSUME solo'.on, solo'.foretold, Undisturbed
                 PROVE  solo'.fresh /\ \A x \in Applies : IsAhead(tree', apply'[x], Items)
    BY <1>2, <2>1
  <2>3. solo.fresh /\ \A x \in Applies : IsAhead(tree, apply[x], Items)
    BY <2>1, <2>2 DEF AheadInv
  <2>4. CASE Choose(a)
    <3>1. solo' = solo
      BY <2>4 DEF Choose, observed
    <3>2. QED BY <2>3, <2>4, <3>1, AheadChoose
  <2>5. CASE Work(a)
    BY <2>2, <2>3, <2>5, AheadWork
  <2>6. CASE End(a)
    <3>1. solo' = solo
      BY <2>2, <2>6, NotSoloIs DEF End
    <3>2. apply'[a].at = "idle" /\ \A x \in Applies : x # a => apply'[x] = apply[x]
      BY <2>6, ReturnedIs DEF End, TypesInv, AreCalls
    <3>3. \A x \in Applies : apply'[x].at = "idle"
      BY <2>1, <2>2, <3>2 DEF Applying
    <3>4. QED BY <2>3, <3>1, <3>3, NobodyAhead
  <2>7. QED BY <1>4, <2>4, <2>5, <2>6
<1>5. CASE UndoStep \/ UserStep \/ Crash \/ UNCHANGED vars
  <2>1. /\ AloneInv'
        /\ solo'.on => solo' = solo /\ Applying' = Applying /\ (Applying = {} \/ UNCHANGED vars)
    BY <1>5, AloneElse
  <2>2. SUFFICES ASSUME solo'.on, solo'.foretold, Undisturbed
                 PROVE  solo'.fresh /\ \A a \in Applies : IsAhead(tree', apply'[a], Items)
    BY <1>2, <2>1
  <2>3. solo.fresh /\ \A a \in Applies : IsAhead(tree, apply[a], Items)
    BY <2>1, <2>2 DEF AheadInv
  <2>4. CASE UNCHANGED vars
    BY <2>3, <2>4 DEF vars, observed
  <2>5. CASE Applying' = {}
    BY <2>1, <2>2, <2>3, <2>5, NobodyAhead DEF Applying
  <2>6. QED BY <2>1, <2>2, <2>4, <2>5
<1>6. QED BY <1>3, <1>4, <1>5 DEF Next, ApplyStep

\* The simulation is right, for every blueprint and root, whatever else goes on:
\* if it counts no transfer as a collision or as skipped, and no item disturbs a
\* later one, then every transfer of an apply that is alone with the root has
\* done its work at the place that the plan names, up to where the apply is.
THEOREM SimulationIsRight == Spec => []SimulationForetells
<1>1. Init => AloneInv /\ AheadInv
  BY NotSoloIs DEF Init, AloneInv, AheadInv
<1>2. AheadInv => SimulationForetells
  BY DEF AheadInv, SimulationForetells
<1>3. TypesInv /\ (AloneInv /\ AheadInv) /\ [Next]_vars => (AloneInv /\ AheadInv)'
  BY AheadNext
<1>4. QED BY WellFormed, <1>1, <1>2, <1>3, PTL DEF Spec

-----------------------------------------------------------------------------
(***************************************************************************)
(* A plan that is applied again.                                           *)
(***************************************************************************)

\* All of source is in target already.
Mirrors(t, source, target) ==
  /\ target \in DOMAIN t
  /\ \A q \in DOMAIN t : IsPrefix(source, q) =>
       /\ Rebased(source, target, q) \in DOMAIN t
       /\ t[q] \subseteq t[Rebased(source, target, q)]

\* What an item leaves behind: to do it again under the strategy conflict
\* changes nothing.
Stable(t, item, conflict) ==
  /\ item.action = "create" => item.target \in DOMAIN t
  /\ item.action = "delete" => item.source \notin DOMAIN t
  /\ item.action \in {"rename", "move"} =>
       \/ item.source \notin DOMAIN t
       \/ item.target \in DOMAIN t /\ conflict = "skip"
       \/ /\ item.target \in DOMAIN t /\ conflict = "rename"
          /\ \A n \in 1..MaxSuffix : Suffixed(item.target, n) \in DOMAIN t
  /\ item.action = "copy" =>
       \/ item.source \notin DOMAIN t
       \/ item.target \in DOMAIN t /\ conflict = "skip"
       \/ Mirrors(t, item.source, item.target)

\* Below p, u is what t is.
Same(t, u, p) ==
  \A q : IsPath(q) /\ IsPrefix(p, q) =>
    /\ q \in DOMAIN u <=> q \in DOMAIN t
    /\ q \in DOMAIN t => u[q] = t[q]

\* No transfer is a copy that makes way.
NoCopyMakesWay == ~(blueprint.conflict = "rename" /\ \E k \in DOMAIN Items : Items[k].action = "copy")

\* To copy what is there changes nothing.
LEMMA MirrorsCopied ==
  ASSUME NEW t, IsTree(t), NEW source, NEW target, IsPath(source), IsPath(target), Mirrors(t, source, target)
  PROVE  CopyDir(t, source, target) = t
<1> DEFINE u == CopyDir(t, source, target)
           to(p) == {q \in Below(t, source) : Rebased(source, target, q) = p}
<1>1. DOMAIN u = DOMAIN t \cup Prefixed(target) \cup Copied(DOMAIN t, source, target)
  BY CopyIs
<1>2. Prefixed(target) \subseteq DOMAIN t
  <2>1. Closed(DOMAIN t) /\ target \in DOMAIN t
    BY DEF IsTree, Mirrors
  <2>2. \A p \in Prefixed(target) : IsPath(p) /\ IsPrefix(p, target)
    BY PrefixedIs
  <2>3. QED BY <2>1, <2>2, PrefixInClosed
<1>3. Copied(DOMAIN t, source, target) \subseteq DOMAIN t
  BY DEF Copied, Inside, Mirrors
<1>4. u = [p \in DOMAIN t |-> (IF IsDir(t, p) THEN t[p] ELSE {}) \cup UNION {t[q] : q \in to(p)}]
  <2>1. u = [p \in DOMAIN u |-> (IF IsDir(t, p) THEN t[p] ELSE {}) \cup UNION {t[q] : q \in to(p)}]
    BY DEF CopyDir
  <2> HIDE DEF u, to
  <2>2. DOMAIN u = DOMAIN t
    BY <1>1, <1>2, <1>3
  <2>3. QED BY <2>1, <2>2
<1>5. \A p \in DOMAIN t : UNION {t[q] : q \in to(p)} \subseteq t[p]
  BY DEF Mirrors, Below
<1>6. \A p \in DOMAIN t : u[p] = t[p]
  <2> HIDE DEF u, to
  <2>1. QED BY <1>4, <1>5 DEF IsDir
<1>7. t = [p \in DOMAIN t |-> t[p]]
  BY DEF IsTree
<1> HIDE DEF u
<1>8. u = [p \in DOMAIN t |-> u[p]]
  BY <1>4
<1>9. u = t
  BY <1>6, <1>7, <1>8
<1>10. QED BY <1>9 DEF u

\* A copy is all there afterwards.
LEMMA CopyMirrors ==
  ASSUME NEW t, IsTree(t), NEW source, NEW target, IsPath(source), IsPath(target), ~Related(source, target)
  PROVE  Mirrors(CopyDir(t, source, target), source, target)
<1> DEFINE u == CopyDir(t, source, target)
<1>1. DOMAIN u = DOMAIN t \cup Prefixed(target) \cup Copied(DOMAIN t, source, target) /\ IsTree(u)
  BY CopyIs
<1>2. target \in DOMAIN u
  BY <1>1, PrefixedIs
<1>3. ASSUME NEW q \in DOMAIN u, IsPrefix(source, q)
      PROVE  Rebased(source, target, q) \in DOMAIN u /\ u[q] \subseteq u[Rebased(source, target, q)]
  <2>1. IsPath(q)
    BY <1>1 DEF IsTree, Closed
  <2>2. ~IsPrefix(target, q)
    BY <1>3, <2>1, PrefixesCompare DEF Related
  <2>3. q \notin Prefixed(target)
    <3>1. \A p \in Prefixed(target) : IsPath(p) /\ IsPrefix(p, target)
      BY PrefixedIs
    <3>2. QED BY <1>3, <2>1, <3>1, PrefixTransitive DEF Related
  <2>4. q \notin Copied(DOMAIN t, source, target)
    <3>1. SUFFICES ASSUME NEW p \in DOMAIN t, IsPrefix(source, p), q = Rebased(source, target, p)
                   PROVE  FALSE
      BY DEF Copied, Inside
    <3>2. IsRebased(q, source, target, p)
      BY <3>1, RebasedIs DEF IsTree, Closed
    <3>3. QED BY <2>2, <3>2 DEF IsRebased
  <2>5. q \in DOMAIN t
    BY <1>1, <2>3, <2>4
  <2>6. u[q] = t[q]
    BY <2>2, <2>5, CopyOnly DEF IsDir
  <2>7. QED BY <1>3, <2>5, <2>6, CopyHas DEF Below
<1>4. QED BY <1>2, <1>3 DEF Mirrors

\* What happens elsewhere does not change that.
LEMMA StableStays ==
  ASSUME NEW t, NEW u, IsTree(t), IsTree(u), NEW item, IsItem(item), NEW conflict,
         Stable(t, item, conflict),
         item.action = "create" => item.target \in DOMAIN u,
         item.action # "create" => Same(t, u, item.source),
         item.action \in Transfers => Same(t, u, item.target),
         item.action \in Transfers /\ conflict = "rename" =>
           \A n \in 1..MaxSuffix : Same(t, u, Suffixed(item.target, n))
  PROVE  Stable(u, item, conflict)
<1> DEFINE source == item.source
           target == item.target
<1>1. IsPath(source) /\ IsPath(target)
  BY DEF IsItem
<1> HIDE DEF source, target
<1>2. CASE item.action = "create"
  BY <1>2 DEF Stable
<1>3. ASSUME NEW p, IsPath(p), Same(t, u, p) PROVE p \in DOMAIN u <=> p \in DOMAIN t
  BY <1>3, PrefixReflexive DEF Same
<1>4. CASE item.action = "delete"
  <2>1. source \notin DOMAIN u
    BY <1>1, <1>3, <1>4 DEF Stable, source
  <2>2. QED BY <1>4, <2>1 DEF Stable, source
<1>5. ASSUME item.action \in Transfers
      PROVE  /\ source \in DOMAIN u <=> source \in DOMAIN t
             /\ target \in DOMAIN u <=> target \in DOMAIN t
             /\ Same(t, u, source) /\ Same(t, u, target)
  <2>1. Same(t, u, source) /\ Same(t, u, target)
    BY <1>5 DEF Transfers, source, target
  <2>2. QED BY <1>1, <1>3, <2>1
<1>6. CASE item.action \in {"rename", "move"}
  <2>1. item.action \in Transfers
    BY <1>6 DEF Transfers
  <2>2. ASSUME conflict = "rename", \A n \in 1..MaxSuffix : Suffixed(target, n) \in DOMAIN t, NEW n \in 1..MaxSuffix
        PROVE  Suffixed(target, n) \in DOMAIN u
    <3>1. target # Root
      BY <1>1, <2>1, PrefixReflexive DEF IsItem, Related, source, target
    <3>2. IsPath(Suffixed(target, n))
      BY <1>1, <3>1, SuffixedIs
    <3>3. Same(t, u, Suffixed(target, n))
      BY <2>1, <2>2 DEF target
    <3>4. QED BY <1>3, <2>2, <3>2, <3>3
  <2>3. \/ source \notin DOMAIN t
        \/ target \in DOMAIN t /\ conflict = "skip"
        \/ /\ target \in DOMAIN t /\ conflict = "rename"
           /\ \A n \in 1..MaxSuffix : Suffixed(target, n) \in DOMAIN t
    BY <1>6 DEF Stable, source, target
  <2>4. \/ source \notin DOMAIN u
        \/ target \in DOMAIN u /\ conflict = "skip"
        \/ /\ target \in DOMAIN u /\ conflict = "rename"
           /\ \A n \in 1..MaxSuffix : Suffixed(target, n) \in DOMAIN u
    BY <1>5, <2>1, <2>2, <2>3
  <2>5. QED BY <1>6, <2>4 DEF Stable, source, target
<1>7. CASE item.action = "copy"
  <2>1. /\ source \in DOMAIN u <=> source \in DOMAIN t
        /\ target \in DOMAIN u <=> target \in DOMAIN t
        /\ Same(t, u, source) /\ Same(t, u, target)
    BY <1>5, <1>7 DEF Transfers
  <2>2. ASSUME Mirrors(t, source, target) PROVE Mirrors(u, source, target)
    <3>1. target \in DOMAIN u
      BY <2>1, <2>2 DEF Mirrors
    <3>2. ASSUME NEW q \in DOMAIN u, IsPrefix(source, q)
          PROVE  Rebased(source, target, q) \in DOMAIN u /\ u[q] \subseteq u[Rebased(source, target, q)]
      <4> DEFINE to == Rebased(source, target, q)
      <4>1. IsPath(q)
        BY DEF IsTree, Closed
      <4>2. q \in DOMAIN t /\ u[q] = t[q]
        BY <2>1, <3>2, <4>1 DEF Same
      <4>3. to \in DOMAIN t /\ t[q] \subseteq t[to]
        BY <2>2, <3>2, <4>2 DEF Mirrors
      <4>4. IsPath(to) /\ IsPrefix(target, to)
        BY <1>1, <3>2, <4>1, RebasedIs DEF IsRebased
      <4> HIDE DEF to
      <4>5. to \in DOMAIN u /\ u[to] = t[to]
        BY <2>1, <4>3, <4>4 DEF Same
      <4>6. QED BY <4>2, <4>3, <4>5 DEF to
    <3>3. QED BY <3>1, <3>2 DEF Mirrors
  <2>3. \/ source \notin DOMAIN t
        \/ target \in DOMAIN t /\ conflict = "skip"
        \/ Mirrors(t, source, target)
    BY <1>7 DEF Stable, source, target
  <2>4. \/ source \notin DOMAIN u
        \/ target \in DOMAIN u /\ conflict = "skip"
        \/ Mirrors(u, source, target)
    BY <2>1, <2>2, <2>3
  <2>5. QED BY <1>7, <2>4 DEF Stable, source, target
<1>8. QED BY <1>2, <1>4, <1>6, <1>7 DEF IsItem, Actions

\* Nothing happens at unrelated places.
LEMMA SameElsewhere ==
  ASSUME NEW t, IsTree(t), NEW p, IsPath(p), NEW target, IsPath(target), ~Related(p, target)
  PROVE  /\ Same(t, CreateDirAll(t, target), p)
         /\ Same(t, RemoveDirAll(t, target), p)
         /\ \A source : IsPath(source) => Same(t, CopyDir(t, source, target), p)
<1>1. ASSUME NEW q, IsPath(q), IsPrefix(p, q)
      PROVE  ~IsPrefix(target, q) /\ q \notin Prefixed(target)
  <2>1. ~IsPrefix(target, q)
    BY <1>1, PrefixesCompare DEF Related
  <2>2. \A r \in Prefixed(target) : IsPrefix(r, target)
    BY PrefixedIs
  <2>3. q \notin Prefixed(target)
    BY <1>1, <2>2, PrefixTransitive DEF Related
  <2>4. QED BY <2>1, <2>3
<1>2. Same(t, CreateDirAll(t, target), p)
  <2> DEFINE u == CreateDirAll(t, target)
  <2>1. DOMAIN u = DOMAIN t \cup Prefixed(target) /\ \A q \in DOMAIN u : u[q] = IF IsDir(t, q) THEN t[q] ELSE {}
    BY CreateIs
  <2> HIDE DEF u
  <2>2. QED BY <1>1, <2>1 DEF Same, IsDir, u
<1>3. Same(t, RemoveDirAll(t, target), p)
  <2> DEFINE u == RemoveDirAll(t, target)
  <2>1. DOMAIN u = {q \in DOMAIN t : ~IsPrefix(target, q)} /\ \A q \in DOMAIN u : u[q] = t[q]
    BY RemoveIs
  <2> HIDE DEF u
  <2>2. \A q : q \in DOMAIN u <=> q \in DOMAIN t /\ ~IsPrefix(target, q)
    BY <2>1
  <2>3. QED BY <1>1, <2>1, <2>2 DEF Same, u
<1>4. ASSUME NEW source, IsPath(source) PROVE Same(t, CopyDir(t, source, target), p)
  <2> DEFINE u == CopyDir(t, source, target)
  <2>1. DOMAIN u = DOMAIN t \cup Prefixed(target) \cup Copied(DOMAIN t, source, target)
    BY <1>4, CopyIs
  <2>2. \A q \in DOMAIN u : ~IsPrefix(target, q) => u[q] = IF IsDir(t, q) THEN t[q] ELSE {}
    BY <1>4, CopyOnly
  <2>3. \A q \in Copied(DOMAIN t, source, target) : IsPrefix(target, q)
    <3>1. SUFFICES ASSUME NEW r \in DOMAIN t, IsPrefix(source, r)
                   PROVE  IsPrefix(target, Rebased(source, target, r))
      BY DEF Copied, Inside
    <3>2. QED BY <1>4, <3>1, RebasedIs DEF IsRebased, IsTree, Closed
  <2> HIDE DEF u
  <2>4. QED BY <1>1, <2>1, <2>2, <2>3 DEF Same, IsDir, u
<1>5. QED BY <1>2, <1>3, <1>4

\* Two steps that leave p alone.
LEMMA SameTwice ==
  ASSUME NEW t, NEW u, NEW v, NEW p, Same(t, u, p), Same(u, v, p)
  PROVE  Same(t, v, p)
BY DEF Same

\* An item leaves unrelated folders alone.
LEMMA WorkedSame ==
  ASSUME IsTree(tree), NEW item, IsItem(item), NEW target, IsPath(target),
         item.action \in Transfers => ~Related(item.source, target),
         NEW p, IsPath(p), ~Related(p, target), item.action \in Transfers => ~Related(p, item.source)
  PROVE  Same(tree, Worked(item, target).tree, p)
<1> DEFINE w == Worked(item, target)
           source == item.source
<1>1. IsPath(source)
  BY DEF IsItem
<1> HIDE DEF source
<1>2. CASE item.action = "create" \/ (item.action \in Transfers /\ ~IsDir(tree, source))
  <2>1. w.tree = CreateDirAll(tree, target)
    BY <1>2 DEF Worked, Transfers, source
  <2>2. QED BY <2>1, SameElsewhere
<1>3. CASE item.action = "delete"
  <2>1. w.tree = RemoveDirAll(tree, target) \/ w.tree = tree
    <3>1. CASE IsDir(tree, target)
      BY <1>3, <3>1 DEF Worked, Transfers
    <3>2. CASE ~IsDir(tree, target)
      BY <1>3, <3>2 DEF Worked, Transfers
    <3>3. QED BY <3>1, <3>2
  <2>2. Same(tree, tree, p)
    BY DEF Same
  <2>3. QED BY <2>1, <2>2, SameElsewhere
<1>4. CASE item.action = "copy" /\ IsDir(tree, source)
  <2>1. w.tree = CopyDir(tree, source, target)
    BY <1>4 DEF Worked, Transfers, source
  <2>2. QED BY <1>1, <2>1, SameElsewhere
<1>5. CASE item.action \in {"rename", "move"} /\ IsDir(tree, source)
  <2>1. w.tree = MoveDir(tree, source, target)
    BY <1>5 DEF Worked, Transfers, source
  <2> DEFINE copied == CopyDir(tree, source, target)
  <2>2. IsTree(copied) /\ Same(tree, copied, p)
    BY <1>1, CopyIs, SameElsewhere
  <2> HIDE DEF copied
  <2>3. ~Related(p, source)
    BY <1>5 DEF Transfers, source
  <2>4. Same(copied, RemoveDirAll(copied, source), p)
    BY <1>1, <2>2, <2>3, SameElsewhere
  <2>5. MoveDir(tree, source, target) = RemoveDirAll(copied, source)
    BY DEF MoveDir, copied
  <2>6. QED BY <2>1, <2>2, <2>4, <2>5, SameTwice
<1>6. QED BY <1>2, <1>3, <1>4, <1>5 DEF IsItem, Actions, Transfers

\* Where an item does something, and when.
IsActing(t, item, target, conflict) ==
  /\ item.action = "delete" => target = item.source
  /\ item.action = "create" => target = item.target /\ item.target \notin DOMAIN t
  /\ item.action \in Transfers =>
       /\ item.source \in DOMAIN t
       /\ \/ target = item.target /\ (item.target \notin DOMAIN t \/ conflict = "overwrite")
          \/ /\ conflict = "rename" /\ item.target \in DOMAIN t
             /\ \E n \in 1..MaxSuffix : target = Suffixed(item.target, n) /\ target \notin DOMAIN t

\* What a resolved conflict comes to.
LEMMA ResolvedIs ==
  ASSUME TypesInv, NEW target, NEW c, c = ResolveConflict(target)
  PROVE  /\ c.does = "act" =>
              \/ c.target = target /\ (target \notin DOMAIN tree \/ blueprint.conflict = "overwrite")
              \/ /\ blueprint.conflict = "rename" /\ target \in DOMAIN tree
                 /\ \E n \in 1..MaxSuffix : c.target = Suffixed(target, n) /\ c.target \notin DOMAIN tree
         /\ c.does # "act" =>
              /\ target \in DOMAIN tree
              /\ \/ blueprint.conflict = "skip"
                 \/ /\ blueprint.conflict = "rename"
                    /\ \A n \in 1..MaxSuffix : Suffixed(target, n) \in DOMAIN tree
<1> DEFINE free == {n \in 1..MaxSuffix : ~IsDir(tree, Suffixed(target, n))}
           first == CHOOSE n \in free : \A m \in free : n <= m
<1>1. blueprint.conflict \in {"skip", "overwrite", "rename"}
  BY BlueprintsAssumption DEF TypesInv, Strategies
<1>2. CASE target \notin DOMAIN tree \/ blueprint.conflict = "overwrite"
  <2>1. c = Act(target)
    BY <1>2 DEF ResolveConflict, IsDir
  <2>2. QED BY <1>2, <2>1, ChoicesAre
<1>3. CASE target \in DOMAIN tree /\ blueprint.conflict = "skip"
  <2>1. c = Skip
    BY <1>3 DEF ResolveConflict, IsDir
  <2>2. QED BY <1>3, <2>1, ChoicesAre
<1>4. CASE target \in DOMAIN tree /\ blueprint.conflict = "rename" /\ free = {}
  <2>1. c = Fail
    BY <1>4 DEF ResolveConflict, IsDir
  <2>2. \A n \in 1..MaxSuffix : Suffixed(target, n) \in DOMAIN tree
    BY <1>4 DEF IsDir
  <2>3. QED BY <1>4, <2>1, <2>2, ChoicesAre
<1>5. CASE target \in DOMAIN tree /\ blueprint.conflict = "rename" /\ free # {}
  <2>1. c = Act(Suffixed(target, first))
    BY <1>5 DEF ResolveConflict, IsDir
  <2>2. first \in free
    <3>1. free \in SUBSET Nat
      OBVIOUS
    <3> HIDE DEF free
    <3>2. \E n \in free : \A m \in free : n <= m
      BY <1>5, <3>1, LeastNumber
    <3>3. QED BY <3>2
  <2>3. first \in 1..MaxSuffix /\ Suffixed(target, first) \notin DOMAIN tree
    BY <2>2 DEF IsDir
  <2> HIDE DEF first
  <2>4. c.does = "act" /\ c.target = Suffixed(target, first)
    BY <2>1, ChoicesAre
  <2>5. QED BY <1>5, <2>3, <2>4
<1>6. QED BY <1>1, <1>2, <1>3, <1>4, <1>5

\* Either an item does something, or there is nothing to do.
LEMMA ChoiceActs ==
  ASSUME TypesInv, NEW item, IsItem(item), ~(blueprint.conflict = "rename" /\ item.action = "copy"),
         NEW c, c = Choice(item)
  PROVE  /\ c.does = "act" => IsActing(tree, item, c.target, blueprint.conflict)
         /\ c.does # "act" => Stable(tree, item, blueprint.conflict)
<1> USE DEF IsItem, Transfers, IsDir
<1>1. CASE item.action = "delete"
  <2>1. c = Act(item.source)
    BY <1>1 DEF Choice
  <2>2. QED BY <1>1, <2>1, ChoicesAre DEF IsActing
<1>2. CASE item.action = "create"
  <2>1. c = IF item.target \in DOMAIN tree
            THEN IF blueprint.conflict = "skip" THEN Skip ELSE Done(item.target)
            ELSE Act(item.target)
    BY <1>2 DEF Choice
  <2>2. c.does = "act" <=> item.target \notin DOMAIN tree
    BY <2>1, ChoicesAre
  <2>3. c.does = "act" => c.target = item.target
    BY <2>1, ChoicesAre
  <2>4. QED BY <1>2, <2>2, <2>3 DEF IsActing, Stable
<1>3. CASE item.action \in Transfers /\ item.source \notin DOMAIN tree
  <2>1. c \in {Done(item.target), Fail}
    BY <1>3 DEF Choice
  <2>2. c.does # "act"
    BY <2>1, ChoicesAre
  <2>3. QED BY <1>3, <2>2 DEF Stable
<1>4. CASE item.action \in Transfers /\ item.source \in DOMAIN tree
  <2>1. c = ResolveConflict(item.target)
    BY <1>4 DEF Choice
  <2> DEFINE target == item.target
  <2> HIDE DEF target
  <2>2. /\ c.does = "act" =>
              \/ c.target = target /\ (target \notin DOMAIN tree \/ blueprint.conflict = "overwrite")
              \/ /\ blueprint.conflict = "rename" /\ target \in DOMAIN tree
                 /\ \E n \in 1..MaxSuffix : c.target = Suffixed(target, n) /\ c.target \notin DOMAIN tree
        /\ c.does # "act" =>
             /\ target \in DOMAIN tree
             /\ \/ blueprint.conflict = "skip"
                \/ /\ blueprint.conflict = "rename"
                   /\ \A n \in 1..MaxSuffix : Suffixed(target, n) \in DOMAIN tree
    BY <2>1, ResolvedIs DEF target
  <2>3. c.does = "act" => IsActing(tree, item, c.target, blueprint.conflict)
    BY <1>4, <2>2 DEF IsActing, target
  <2>4. c.does # "act" => Stable(tree, item, blueprint.conflict)
    BY <1>4, <2>2 DEF Stable, target
  <2>5. QED BY <2>3, <2>4
<1>5. QED BY <1>1, <1>2, <1>3, <1>4 DEF Actions

\* An item acts on the folders that it touches.
LEMMA ActingTouches ==
  ASSUME NEW item, IsItem(item), NEW t, NEW target, IsActing(t, item, target, blueprint.conflict)
  PROVE  /\ target \in Touched(item)
         /\ item.action \in Transfers => item.source \in Touched(item)
<1> USE DEF IsItem, Transfers, Actions
<1>1. CASE item.action = "create"
  BY <1>1 DEF IsActing, Touched
<1>2. CASE item.action = "delete"
  BY <1>2 DEF IsActing, Touched
<1>3. CASE item.action \in Transfers
  <2>1. item.source \in Touched(item) /\ item.target \in Touched(item)
    BY <1>3 DEF Touched
  <2>2. CASE target = item.target
    BY <2>1, <2>2
  <2>3. CASE blueprint.conflict = "rename" /\ \E n \in 1..MaxSuffix : target = Suffixed(item.target, n)
    BY <1>3, <2>1, <2>3 DEF Touched
  <2>4. QED BY <1>3, <2>1, <2>2, <2>3 DEF IsActing
<1>4. QED BY <1>1, <1>2, <1>3

\* After its work an item has nothing more to do.
LEMMA WorkedStable ==
  ASSUME IsTree(tree), NEW item, IsItem(item), NEW conflict, ~(conflict = "rename" /\ item.action = "copy"),
         NEW target, IsPath(target), item.action \in Transfers => ~Related(item.source, target),
         IsActing(tree, item, target, conflict)
  PROVE  Stable(Worked(item, target).tree, item, conflict)
<1> DEFINE w == Worked(item, target)
           source == item.source
<1>1. IsPath(source) /\ IsPath(item.target)
  BY DEF IsItem
<1> HIDE DEF source
<1>2. CASE item.action = "create"
  <2>1. w.tree = CreateDirAll(tree, target) /\ target = item.target
    BY <1>2 DEF Worked, Transfers, IsActing
  <2>2. DOMAIN CreateDirAll(tree, target) = DOMAIN tree \cup Prefixed(target)
    BY CreateIs
  <2>3. item.target \in DOMAIN w.tree
    BY <2>1, <2>2, PrefixedIs
  <2> HIDE DEF w
  <2>4. QED BY <1>2, <2>3 DEF Stable, w
<1>3. CASE item.action = "delete"
  <2>1. target = source
    BY <1>3 DEF IsActing, source
  <2>2. source \notin DOMAIN w.tree
    <3>1. CASE IsDir(tree, target)
      <4>1. w.tree = RemoveDirAll(tree, target)
        BY <1>3, <3>1 DEF Worked, Transfers
      <4>2. DOMAIN RemoveDirAll(tree, target) = {q \in DOMAIN tree : ~IsPrefix(target, q)}
        BY RemoveIs
      <4>3. QED BY <1>1, <2>1, <4>1, <4>2, PrefixReflexive
    <3>2. CASE ~IsDir(tree, target)
      <4>1. w.tree = tree
        BY <1>3, <3>2 DEF Worked, Transfers
      <4>2. QED BY <2>1, <3>2, <4>1 DEF IsDir
    <3>3. QED BY <3>1, <3>2
  <2> HIDE DEF w
  <2>3. QED BY <1>3, <2>2 DEF Stable, w, source
<1>4. CASE item.action \in {"rename", "move"}
  <2>1. IsDir(tree, source) /\ ~Related(source, target)
    BY <1>4 DEF IsActing, Transfers, IsDir, source
  <2>2. w.tree = MoveDir(tree, source, target)
    BY <1>4, <2>1 DEF Worked, Transfers, source
  <2>3. source \notin DOMAIN MoveDir(tree, source, target)
    BY <1>1, <2>1, MoveFolders, PrefixReflexive
  <2>4. source \notin DOMAIN w.tree
    BY <2>2, <2>3
  <2> HIDE DEF w
  <2>5. QED BY <1>4, <2>4 DEF Stable, w, source
<1>5. CASE item.action = "copy"
  <2>1. IsDir(tree, source) /\ ~Related(source, target) /\ target = item.target
    BY <1>5 DEF IsActing, Transfers, IsDir, source
  <2>2. w.tree = CopyDir(tree, source, target)
    BY <1>5, <2>1 DEF Worked, Transfers, source
  <2>3. Mirrors(w.tree, source, item.target)
    BY <1>1, <2>1, <2>2, CopyMirrors
  <2> HIDE DEF w
  <2>4. QED BY <1>5, <2>3 DEF Stable, w, source
<1>6. QED BY <1>2, <1>3, <1>4, <1>5 DEF IsItem, Actions

\* What has nothing more to do changes nothing.
LEMMA WorkedAgain ==
  ASSUME IsTree(tree), NEW item, IsItem(item), NEW conflict, ~(conflict = "rename" /\ item.action = "copy"),
         NEW target, IsActing(tree, item, target, conflict), Stable(tree, item, conflict)
  PROVE  Worked(item, target).tree = tree
<1> USE DEF IsItem, Transfers
<1>1. CASE item.action = "create"
  BY <1>1 DEF IsActing, Stable
<1>2. CASE item.action = "delete"
  <2>1. ~IsDir(tree, target)
    BY <1>2 DEF IsActing, Stable, IsDir
  <2>2. QED BY <1>2, <2>1 DEF Worked
<1>3. CASE item.action \in {"rename", "move"}
  BY <1>3 DEF IsActing, Stable
<1>4. CASE item.action = "copy"
  <2>1. item.source \in DOMAIN tree /\ target = item.target
    BY <1>4 DEF IsActing
  <2>2. Mirrors(tree, item.source, item.target)
    BY <1>4, <2>1 DEF IsActing, Stable, Mirrors
  <2>3. CopyDir(tree, item.source, target) = tree
    BY <2>1, <2>2, MirrorsCopied
  <2>4. Worked(item, target).tree = CopyDir(tree, item.source, target)
    BY <1>4, <2>1 DEF Worked, IsDir
  <2>5. QED BY <2>3, <2>4
<1>5. QED BY <1>1, <1>2, <1>3, <1>4 DEF Actions

\* The work on an item leaves another one with nothing to do.
LEMMA StableElsewhere ==
  ASSUME TypesInv, Disjoint, NEW j \in DOMAIN Items, NEW k \in DOMAIN Items, j # k,
         Stable(tree, Items[j], blueprint.conflict),
         NEW target, IsPath(target), Items[k].action \in Transfers => ~Related(Items[k].source, target),
         IsActing(tree, Items[k], target, blueprint.conflict)
  PROVE  Stable(Worked(Items[k], target).tree, Items[j], blueprint.conflict)
<1> DEFINE done == Items[j]
           item == Items[k]
           u == Worked(item, target).tree
<1>1. IsItem(done) /\ IsItem(item) /\ IsTree(tree)
  BY ItemsAre DEF TypesInv
<1>2. target \in Touched(item) /\ (item.action \in Transfers => item.source \in Touched(item))
  BY <1>1, ActingTouches
<1>3. ASSUME NEW p \in Touched(done), IsPath(p), done.action # "create" \/ item.action # "create"
      PROVE  Same(tree, u, p)
  <2>1. \A q \in Touched(item) : ~Related(p, q)
    <3>1. CASE done.action # "create"
      BY <3>1 DEF Disjoint
    <3>2. CASE item.action # "create"
      BY <3>2 DEF Disjoint, Related
    <3>3. QED BY <1>3, <3>1, <3>2
  <2> HIDE DEF item
  <2>2. ~Related(p, target) /\ (item.action \in Transfers => ~Related(p, item.source))
    BY <1>2, <2>1
  <2>3. item.action \in Transfers => ~Related(item.source, target)
    BY DEF item
  <2>4. QED BY <1>1, <1>3, <2>2, <2>3, WorkedSame
<1>4. item.action = "delete" => target = item.source
  BY DEF IsActing
<1>5. IsTree(u)
  <2> HIDE DEF item
  <2>1. item.action \in Transfers => ~Related(item.source, target)
    BY DEF item
  <2>2. QED BY <1>1, <1>4, <2>1, WorkedIs
<1>6. done.action = "create" => done.target \in DOMAIN u
  <2> SUFFICES ASSUME done.action = "create" PROVE done.target \in DOMAIN u
    OBVIOUS
  <2>1. done.target \in DOMAIN tree /\ done.target \in Touched(done) /\ IsPath(done.target)
    BY <1>1 DEF Stable, Touched, IsItem
  <2>2. CASE item.action = "create"
    <3>1. u = CreateDirAll(tree, target)
      BY <2>2 DEF Worked, Transfers
    <3>2. DOMAIN CreateDirAll(tree, target) = DOMAIN tree \cup Prefixed(target)
      BY <1>1, CreateIs
    <3>3. QED BY <2>1, <3>1, <3>2
  <2>3. CASE item.action # "create"
    <3>1. Same(tree, u, done.target)
      BY <1>3, <2>1, <2>3
    <3> HIDE DEF u
    <3>2. QED BY <2>1, <3>1, PrefixReflexive DEF Same
  <2>4. QED BY <2>2, <2>3
<1> HIDE DEF item, u
<1>7. done.action # "create" => Same(tree, u, done.source)
  BY <1>1, <1>3 DEF Touched, IsItem
<1>8. done.action \in Transfers => Same(tree, u, done.target)
  BY <1>1, <1>3 DEF Touched, IsItem, Transfers
<1>9. ASSUME done.action \in Transfers, blueprint.conflict = "rename", NEW n \in 1..MaxSuffix
      PROVE  Same(tree, u, Suffixed(done.target, n))
  <2>1. done.action # "create" /\ Suffixed(done.target, n) \in Touched(done)
    BY <1>9 DEF Touched, Transfers
  <2>2. done.target # Root /\ IsPath(done.target)
    BY <1>1, <1>9, PrefixReflexive DEF IsItem, Related
  <2>3. IsPath(Suffixed(done.target, n))
    BY <2>2, SuffixedIs
  <2>4. QED BY <1>3, <2>1, <2>3
<1> HIDE DEF done
<1>10. Stable(tree, done, blueprint.conflict)
  BY DEF done
<1>11. Stable(u, done, blueprint.conflict)
  BY <1>1, <1>5, <1>6, <1>7, <1>8, <1>9, <1>10, StableStays
<1>12. QED BY <1>11 DEF u, item, done

\* Nothing but an apply that is alone goes on while the last one counts.
SettledInv == settled # <<>> => undo.at = "idle" /\ (Applying # {} => solo.on)

\* What has been found is still so: there is something to do, or there is not.
IsFound(t, item, choice, conflict) ==
  /\ choice.does = "act" => IsActing(t, item, choice.target, conflict)
  /\ choice.does # "act" => Stable(t, item, conflict)

\* An apply that is alone leaves nothing to do behind it, and what it has found
\* for its item is still so.
StableInv ==
  Disjoint /\ NoCopyMakesWay =>
    /\ settled # <<>> =>
         /\ tree = settled
         /\ \A j \in DOMAIN Items : Stable(tree, Items[j], blueprint.conflict)
    /\ solo.on => \A a \in Applying :
         /\ \A j \in DOMAIN Items : j < apply[a].k => Stable(tree, Items[j], blueprint.conflict)
         /\ apply[a].at = "work" =>
              IsFound(tree, Items[apply[a].k], apply[a].choice, blueprint.conflict)

AgainInv == SettledInv /\ StableInv

\* The conditions on the plan do not change.
LEMMA ConditionsStay ==
  ASSUME [Next]_vars
  PROVE  /\ Disjoint' <=> Disjoint
         /\ NoCopyMakesWay' <=> NoCopyMakesWay
         /\ Items' = Items /\ blueprint' = blueprint
<1>1. blueprint' = blueprint /\ Items' = Items
  BY PlanStays
<1>2. NoCopyMakesWay' <=> NoCopyMakesWay
  BY <1>1 DEF NoCopyMakesWay
<1>3. \A item : Touched(item)' = Touched(item)
  BY <1>1 DEF Touched
<1>4. Disjoint' <=> Disjoint
  BY <1>1, <1>3 DEF Disjoint
<1>5. QED BY <1>1, <1>2, <1>4

\* Whoever begins has nothing behind him.
LEMMA AgainBegin ==
  ASSUME TypesInv, AloneInv, AgainInv, [Next]_vars, NEW a \in Applies, Begin(a)
  PROVE  AgainInv'
<1>1. tree' = tree /\ undo' = undo
  BY DEF Begin
<1>2. CASE Applying = {} /\ undo.at = "idle"
  <2>1. settled' = settled /\ solo'.on
    BY <1>2 DEF Begin
  <2>2. PICK stored \in BOOLEAN :
          apply' = [apply EXCEPT ![a] = [NotApplying EXCEPT !.at = "choose", !.k = 1,
                                                            !.stored = stored, !.began = tree]]
    BY DEF Begin
  <2>3. apply' = [apply EXCEPT ![a] = Begun(stored, tree)]
    BY <2>2 DEF Begun
  <2>4. /\ apply'[a].at = "choose" /\ apply'[a].k = 1
        /\ \A x \in Applies : x # a => apply'[x] = apply[x]
    BY <2>3, BegunIs DEF TypesInv, AreCalls
  <2>5. \A x \in Applying' : x = a
    BY <1>2, <2>4 DEF Applying
  <2>6. \A j \in DOMAIN Items : j \in Nat /\ ~(j < 1)
    BY ItemsAre
  <2>7. SettledInv'
    BY <1>1, <2>1 DEF AgainInv, SettledInv
  <2>8. StableInv'
    BY <1>1, <2>1, <2>4, <2>5, <2>6, ConditionsStay DEF AgainInv, StableInv
  <2>9. QED BY <2>7, <2>8 DEF AgainInv
<1>3. CASE ~(Applying = {} /\ undo.at = "idle")
  <2>1. solo' = NotSolo /\ settled' = <<>>
    BY <1>3 DEF Begin
  <2>2. QED BY <2>1, NotSoloIs DEF AgainInv, SettledInv, StableInv
<1>4. QED BY <1>2, <1>3

\* Whoever looks for a place takes what he finds.
LEMMA AgainChoose ==
  ASSUME TypesInv, AloneInv, AgainInv, [Next]_vars, NEW a \in Applies, Choose(a)
  PROVE  AgainInv'
<1> DEFINE c == apply[a]
           choice == Choice(Items[c.k])
           d == Chosen(c, choice)
<1>1. /\ UNCHANGED <<tree, undo, solo, settled>> /\ a \in Applying
      /\ apply' = [apply EXCEPT ![a] = d]
  BY DEF Choose, observed, Applying, TypesInv, AreCalls, Chosen
<1>2. apply'[a] = d /\ \A x \in Applies : x # a => apply'[x] = apply[x]
  BY <1>1 DEF TypesInv, AreCalls
<1>3. c = [x \in Parts |-> c[x]]
  BY DEF TypesInv, AreCalls, IsCall
<1>4. d.at = "work" /\ d.choice = choice /\ d.k = c.k
  <2> HIDE DEF c, choice
  <2>1. QED BY <1>3, ChosenIs
<1>5. \A x \in Applies : x \in Applying' <=> x \in Applying
  <2> HIDE DEF d
  <2>1. QED BY <1>1, <1>2, <1>4 DEF Applying
<1>6. ASSUME NoCopyMakesWay PROVE IsFound(tree, Items[c.k], choice, blueprint.conflict)
  <2>1. IsCall(c, blueprint) /\ c.at = "choose"
    BY DEF TypesInv, AreCalls, Choose
  <2>2. c.k \in DOMAIN Items
    <3>1. c.k \in Nat \ {0} /\ c.k <= Len(Items)
      BY <2>1 DEF Choose, IsCall
    <3> HIDE DEF c
    <3>2. QED BY <3>1, ItemsAre
  <2>3. IsItem(Items[c.k])
    BY <2>2, ItemsAre
  <2>4. ~(blueprint.conflict = "rename" /\ Items[c.k].action = "copy")
    BY <1>6, <2>2 DEF NoCopyMakesWay
  <2> DEFINE item == Items[c.k]
  <2> HIDE DEF item
  <2>5. IsItem(item) /\ ~(blueprint.conflict = "rename" /\ item.action = "copy") /\ choice = Choice(item)
    BY <2>3, <2>4 DEF item
  <2> HIDE DEF choice
  <2>6. QED BY <2>5, ChoiceActs DEF IsFound, item
<1> HIDE DEF d, choice
<1>7. SettledInv'
  BY <1>1, <1>5 DEF AgainInv, SettledInv, Applying
<1>8. ASSUME Disjoint, NoCopyMakesWay, solo.on, NEW x \in Applying
      PROVE  /\ \A j \in DOMAIN Items : j < apply'[x].k => Stable(tree, Items[j], blueprint.conflict)
             /\ IsFound(tree, Items[apply'[x].k], apply'[x].choice, blueprint.conflict)
  <2>1. x = a /\ \A j \in DOMAIN Items : j < apply[a].k => Stable(tree, Items[j], blueprint.conflict)
    BY <1>1, <1>8 DEF AloneInv, AgainInv, StableInv
  <2>2. QED BY <1>2, <1>4, <1>6, <1>8, <2>1
<1>9. StableInv'
  <2>1. ASSUME Disjoint, NoCopyMakesWay, settled # <<>>
        PROVE  tree = settled /\ \A j \in DOMAIN Items : Stable(tree, Items[j], blueprint.conflict)
    BY <2>1 DEF AgainInv, StableInv
  <2>2. QED BY <1>1, <1>5, <1>8, <2>1, ConditionsStay DEF StableInv, Applying
<1>10. QED BY <1>7, <1>9 DEF AgainInv

\* An item has nothing more to do after its step, and neither have those before
\* it; if it had nothing to do, nothing happens.
LEMMA AgainWorks ==
  ASSUME TypesInv, AloneInv, StableInv, Disjoint, NoCopyMakesWay, solo.on,
         NEW a \in Applies, Work(a), NEW k, k = apply[a].k
  PROVE  /\ k \in DOMAIN Items
         /\ Stable(tree', Items[k], blueprint.conflict)
         /\ \A j \in DOMAIN Items :
              j # k /\ Stable(tree, Items[j], blueprint.conflict) => Stable(tree', Items[j], blueprint.conflict)
         /\ Stable(tree, Items[k], blueprint.conflict) => tree' = tree
<1> DEFINE item == Items[k]
           choice == apply[a].choice
           target == choice.target
           done == IF choice.does = "act" THEN Worked(item, target)
                   ELSE [tree |-> tree, ok |-> choice.does = "done"]
           conflict == blueprint.conflict
<1>1. /\ k \in DOMAIN Items /\ IsItem(item) /\ IsChoice(choice, item)
      /\ choice.does \in {"act", "done"} => (item.action \in Transfers => ~Related(item.source, target))
      /\ tree' = done.tree
      /\ choice.does # "act" => tree' = tree
  <2>1. item = Items[apply[a].k] /\ choice = apply[a].choice
    OBVIOUS
  <2> HIDE DEF item, choice
  <2>2. done = IF choice.does = "act" THEN Worked(item, choice.target)
               ELSE [tree |-> tree, ok |-> choice.does = "done"]
    OBVIOUS
  <2> HIDE DEF done
  <2>3. QED BY <2>1, <2>2, WorkKnows
<1>2. IsFound(tree, item, choice, conflict)
  BY DEF StableInv, Work, Applying
<1>3. CASE choice.does # "act"
  <2>1. tree' = tree /\ Stable(tree, item, conflict)
    BY <1>1, <1>2, <1>3 DEF IsFound
  <2>2. QED BY <1>1, <2>1
<1>4. CASE choice.does = "act"
  <2>1. IsActing(tree, item, target, conflict)
    BY <1>2, <1>4 DEF IsFound
  <2>2. tree' = Worked(item, target).tree
    BY <1>1, <1>4
  <2>3. IsPath(target) /\ IsTree(tree) /\ (item.action \in Transfers => ~Related(item.source, target))
    BY <1>1, <1>4 DEF IsChoice, TypesInv
  <2>4. ~(conflict = "rename" /\ item.action = "copy")
    BY <1>1 DEF NoCopyMakesWay
  <2> HIDE DEF target, done, choice
  <2>5. ASSUME NEW j \in DOMAIN Items, j # k, Stable(tree, Items[j], conflict)
        PROVE  Stable(tree', Items[j], conflict)
    BY <1>1, <2>1, <2>2, <2>3, <2>5, StableElsewhere
  <2> HIDE DEF item, conflict
  <2>6. Stable(tree', item, conflict)
    BY <1>1, <2>1, <2>2, <2>3, <2>4, WorkedStable
  <2>7. Stable(tree, item, conflict) => tree' = tree
    BY <1>1, <2>1, <2>2, <2>3, <2>4, WorkedAgain
  <2>8. QED BY <1>1, <2>5, <2>6, <2>7 DEF item, conflict
<1>5. QED BY <1>3, <1>4

\* An apply works on an item.
LEMMA AgainWork ==
  ASSUME TypesInv, AloneInv, AgainInv, [Next]_vars, NEW a \in Applies, Work(a)
  PROVE  AgainInv'
<1> DEFINE c == apply[a]
           item == Items[c.k]
           choice == c.choice
           target == choice.target
           done == IF choice.does = "act" THEN Worked(item, target)
                   ELSE [tree |-> tree, ok |-> choice.does = "done"]
           items == c.items \o (IF done.ok THEN Recorded(item, target) ELSE <<>>)
           d == Gone(c, items)
           fresh == item.action \in Transfers => done.ok /\ choice.does = "act" /\ ~IsDir(tree, target)
<1>1. a \in Applying /\ undo' = undo
  BY DEF Work, Applying
<1>2. \/ /\ apply' = [apply EXCEPT ![a].at = "choose", ![a].k = @ + 1, ![a].choice = Skip, ![a].items = items]
         /\ settled' = settled /\ solo' = [solo EXCEPT !.fresh = @ /\ fresh]
      \/ solo' = NotSolo /\ settled' = <<>>
  BY Zenon DEF Work
<1>3. fresh \in BOOLEAN
  OBVIOUS
<1> HIDE DEF items, fresh
<1>4. CASE solo' = NotSolo /\ settled' = <<>>
  BY <1>4, NotSoloIs DEF AgainInv, SettledInv, StableInv
<1>5. CASE /\ apply' = [apply EXCEPT ![a].at = "choose", ![a].k = @ + 1, ![a].choice = Skip, ![a].items = items]
           /\ settled' = settled /\ solo' = [solo EXCEPT !.fresh = @ /\ fresh]
  <2>1. apply' = [apply EXCEPT ![a] = d]
    BY <1>5 DEF TypesInv, AreCalls, Gone
  <2>2. apply'[a] = d /\ \A x \in Applies : x # a => apply'[x] = apply[x]
    BY <2>1 DEF TypesInv, AreCalls
  <2>3. c = [x \in Parts |-> c[x]] /\ c.k \in Nat
    <3>1. IsCall(c, blueprint) /\ c.at # "idle"
      BY DEF Work, TypesInv, AreCalls
    <3> HIDE DEF c
    <3>2. QED BY <3>1 DEF IsCall
  <2>4. d.at = "choose" /\ d.k = c.k + 1
    <3> HIDE DEF c
    <3>1. QED BY <2>3, GoneIs
  <2> HIDE DEF d
  <2>5. \A x \in Applies : x \in Applying' <=> x \in Applying
    BY <1>1, <2>2, <2>4 DEF Applying
  <2>6. solo'.on = solo.on
    BY <1>3, <1>5, FreshIs DEF AloneInv
  <2>7. SettledInv'
    BY <1>1, <1>5, <2>5, <2>6 DEF AgainInv, SettledInv, Applying
  <2>8. ASSUME Disjoint, NoCopyMakesWay
        PROVE  /\ settled # <<>> =>
                    /\ tree' = settled
                    /\ \A j \in DOMAIN Items : Stable(tree', Items[j], blueprint.conflict)
               /\ solo.on =>
                    \A j \in DOMAIN Items : j < c.k + 1 => Stable(tree', Items[j], blueprint.conflict)
    <3>1. StableInv /\ (settled # <<>> => solo.on)
      BY <1>1 DEF AgainInv, SettledInv
    <3>2. ASSUME solo.on
          PROVE  /\ c.k \in DOMAIN Items
                 /\ Stable(tree', Items[c.k], blueprint.conflict)
                 /\ \A j \in DOMAIN Items : j # c.k /\ Stable(tree, Items[j], blueprint.conflict)
                                              => Stable(tree', Items[j], blueprint.conflict)
                 /\ Stable(tree, Items[c.k], blueprint.conflict) => tree' = tree
      <4> HIDE DEF item, choice, done, target
      <4>1. QED BY <2>8, <3>1, <3>2, AgainWorks
    <3>3. ASSUME settled # <<>>
          PROVE  tree' = settled /\ \A j \in DOMAIN Items : Stable(tree', Items[j], blueprint.conflict)
      BY <2>8, <3>1, <3>2, <3>3 DEF StableInv
    <3>4. ASSUME solo.on, NEW j \in DOMAIN Items, j < c.k + 1
          PROVE  Stable(tree', Items[j], blueprint.conflict)
      <4>1. j \in Nat
        BY ItemsAre
      <4>2. CASE j = c.k
        BY <3>2, <3>4, <4>2
      <4>3. CASE j # c.k
        <5>1. j < c.k
          <6> HIDE DEF c
          <6>1. QED BY <2>3, <3>4, <4>1, <4>3
        <5>2. Stable(tree, Items[j], blueprint.conflict)
          BY <1>1, <2>8, <3>1, <3>4, <5>1 DEF StableInv
        <5>3. QED BY <3>2, <3>4, <4>3, <5>2
      <4>4. QED BY <4>2, <4>3
    <3>5. QED BY <3>3, <3>4
  <2>9. solo.on => \A x \in Applying : x = a
    BY <1>1 DEF AloneInv
  <2>10. StableInv'
    <3>1. /\ Disjoint' <=> Disjoint
          /\ NoCopyMakesWay' <=> NoCopyMakesWay
          /\ Items' = Items /\ blueprint' = blueprint /\ settled' = settled
      BY <1>5, ConditionsStay
    <3>2. SUFFICES ASSUME Disjoint, NoCopyMakesWay
                   PROVE  StableInv'
      BY <3>1 DEF StableInv
    <3>3. settled' # <<>> =>
            tree' = settled' /\ \A j \in DOMAIN Items' : Stable(tree', Items'[j], blueprint'.conflict)
      BY <2>8, <3>1, <3>2
    <3>4. ASSUME solo'.on, NEW x \in Applying'
          PROVE  /\ apply'[x].at # "work"
                 /\ \A j \in DOMAIN Items' : j < apply'[x].k => Stable(tree', Items'[j], blueprint'.conflict)
      <4>1. x \in Applying
        BY <2>5 DEF Applying
      <4>2. x = a /\ apply'[x] = d
        BY <2>2, <2>6, <2>9, <3>4, <4>1
      <4>3. \A j \in DOMAIN Items : j < c.k + 1 => Stable(tree', Items[j], blueprint.conflict)
        BY <2>6, <2>8, <3>2, <3>4
      <4>4. QED BY <2>4, <3>1, <4>2, <4>3
    <3>5. QED BY <3>3, <3>4 DEF StableInv
  <2>11. QED BY <2>7, <2>10 DEF AgainInv
<1>6. QED BY <1>2, <1>4, <1>5

\* An apply that ends has left nothing to do.
LEMMA AgainEnd ==
  ASSUME TypesInv, AloneInv, AgainInv, [Next]_vars, NEW a \in Applies, End(a)
  PROVE  AgainInv'
<1>1. /\ tree' = tree /\ undo' = undo /\ a \in Applying
      /\ settled' = IF solo.on THEN tree ELSE <<>>
      /\ apply[a].k > Len(Items) /\ apply[a].at = "choose"
  BY DEF End, Applying
<1>2. apply'[a].at = "idle" /\ \A x \in Applies : x # a => apply'[x] = apply[x]
  BY ReturnedIs DEF End, TypesInv, AreCalls
<1>3. solo'.on => solo.on
  BY AloneCall
<1>4. solo.on => Applying' = {}
  BY <1>1, <1>2 DEF AloneInv, Applying
<1>5. SettledInv'
  <2>1. settled' # <<>> => solo.on
    BY <1>1
  <2>2. solo.on => undo.at = "idle"
    BY <1>1 DEF AloneInv, TypesInv, IsUndo
  <2>3. QED BY <1>1, <1>4, <2>1, <2>2 DEF SettledInv
<1>6. ASSUME Disjoint, NoCopyMakesWay, solo.on
      PROVE  \A j \in DOMAIN Items : Stable(tree, Items[j], blueprint.conflict)
  <2>1. DOMAIN Items = 1..Len(Items) /\ Len(Items) \in Nat /\ apply[a].k \in Nat
    BY <1>1, PlanIs DEF TypesInv, Items, AreCalls, IsCall
  <2> DEFINE k == apply[a].k
             n == Len(Items)
  <2>2. \A j \in DOMAIN Items : j < k
    <3>1. k > n /\ n \in Nat /\ k \in Nat /\ DOMAIN Items = 1..n
      BY <1>1, <2>1
    <3> HIDE DEF k, n
    <3>2. QED BY <3>1
  <2>3. QED BY <1>1, <1>6, <2>2 DEF AgainInv, StableInv
<1>7. StableInv'
  <2>1. settled' # <<>> => solo.on /\ settled' = tree
    BY <1>1
  <2>2. solo'.on => Applying' = {}
    BY <1>3, <1>4
  <2>3. QED BY <1>1, <1>6, <2>1, <2>2, ConditionsStay DEF StableInv
<1>8. QED BY <1>5, <1>7 DEF AgainInv

\* Anything else ends it, or happens when nobody applies.
LEMMA AgainElse ==
  ASSUME TypesInv, AloneInv, AgainInv, [Next]_vars, UndoStep \/ UserStep \/ Crash \/ UNCHANGED vars
  PROVE  AgainInv'
<1>1. /\ AloneInv'
      /\ solo'.on => solo' = solo /\ Applying' = Applying /\ (Applying = {} \/ UNCHANGED vars)
  BY AloneElse
<1>2. CASE UNCHANGED vars
  <2>1. UNCHANGED <<tree, undo, settled, solo, apply>>
    BY <1>2 DEF vars, observed
  <2>2. Applying' = Applying
    BY <2>1 DEF Applying
  <2>3. SettledInv'
    BY <2>1, <2>2 DEF AgainInv, SettledInv
  <2>4. StableInv'
    BY <2>1, <2>2, ConditionsStay DEF AgainInv, StableInv
  <2>5. QED BY <2>3, <2>4 DEF AgainInv
<1>3. CASE ~UNCHANGED vars
  <2>1. settled' = <<>>
    BY <1>3 DEF UndoStep, UndoStart, UndoItem, UndoMark, UserStep, UserRemoves, UserDrops, UserActs, Crash,
                AgainInv, SettledInv
  <2>2. solo'.on => Applying' = {}
    BY <1>1, <1>3
  <2>3. QED BY <2>1, <2>2 DEF AgainInv, SettledInv, StableInv
<1>4. QED BY <1>2, <1>3

\* Every step leaves it so.
LEMMA AgainNext == TypesInv /\ AloneInv /\ AgainInv /\ [Next]_vars => AgainInv'
<1> SUFFICES ASSUME TypesInv, AloneInv, AgainInv, [Next]_vars PROVE AgainInv'
  OBVIOUS
<1>1. ASSUME NEW a \in Applies, ApplyStep(a) PROVE AgainInv'
  BY <1>1, AgainBegin, AgainChoose, AgainWork, AgainEnd DEF ApplyStep
<1>2. CASE UndoStep \/ UserStep \/ Crash \/ UNCHANGED vars
  BY <1>2, AgainElse
<1>3. QED BY <1>1, <1>2 DEF Next

\* To apply a plan again changes nothing, for every blueprint whose items are
\* disjoint and for every root: if nobody has touched the root since the last
\* apply ended, the next one leaves the tree as that one left it.
THEOREM SecondApplyChangesNothing == Spec => Idempotent
<1>1. Init => AloneInv /\ AheadInv /\ AgainInv
  BY NotSoloIs DEF Init, AloneInv, AheadInv, AgainInv, SettledInv, StableInv
<1>2. TypesInv /\ AloneInv /\ AheadInv /\ AgainInv /\ [Next]_vars => (AloneInv /\ AheadInv /\ AgainInv)'
  BY AheadNext, AgainNext
<1>3. AgainInv =>
        \A a \in Applies :
          End(a) /\ settled # <<>> /\ Disjoint
            /\ ~(blueprint.conflict = "rename" /\ \E k \in DOMAIN Items : Items[k].action = "copy")
          => tree = settled
  BY DEF AgainInv, StableInv, NoCopyMakesWay
<1>4. QED BY WellFormed, <1>1, <1>2, <1>3, PTL DEF Spec, Idempotent

-----------------------------------------------------------------------------
(***************************************************************************)
(* An undo restores.                                                       *)
(***************************************************************************)

\* A path that q properly begins with stands on the way to it.
LEMMA PrefixOfFront ==
  ASSUME NEW p, NEW q, IsPath(p), IsPath(q), q # Root, IsPrefix(p, q), p # q
  PROVE  IsPrefix(p, Front(q))
<1>1. Len(p) \in Nat /\ Len(p) <= Len(q) /\ \A i \in 1..Len(p) : q[i] = p[i]
  BY PrefixIs, PathIs
<1>2. Len(p) # Len(q)
  BY PrefixSameLength
<1>3. /\ Len(q) \in Nat \ {0} /\ IsPath(Front(q)) /\ Len(Front(q)) = Len(q) - 1
      /\ \A i \in 1..(Len(q) - 1) : Front(q)[i] = q[i]
  BY FrontIs
<1> DEFINE f == Front(q)
<1> HIDE DEF f
<1>4. Len(p) <= Len(f) /\ \A i \in 1..Len(p) : f[i] = p[i]
  BY <1>1, <1>2, <1>3 DEF f
<1>5. QED BY <1>3, <1>4, PrefixIs DEF f

\* What a copy makes outside of its target stands on the way to it.
LEMMA MadeOnTheWay ==
  ASSUME NEW t, IsTree(t), NEW source, NEW target, IsPath(source), IsPath(target), target # Root,
         NEW p \in DOMAIN CopyDir(t, source, target), p \notin DOMAIN t, ~IsPrefix(target, p)
  PROVE  IsPrefix(p, Front(target))
<1>1. DOMAIN CopyDir(t, source, target) = DOMAIN t \cup Prefixed(target) \cup Copied(DOMAIN t, source, target)
  BY CopyIs
<1>2. p \notin Copied(DOMAIN t, source, target)
  <2>1. SUFFICES ASSUME NEW q \in DOMAIN t, IsPrefix(source, q), p = Rebased(source, target, q)
                 PROVE  FALSE
    BY DEF Copied, Inside
  <2>2. IsPath(q)
    BY DEF IsTree, Closed
  <2>3. QED BY <2>1, <2>2, RebasedIs DEF IsRebased
<1>3. p \in Prefixed(target)
  BY <1>1, <1>2
<1>4. IsPath(p) /\ IsPrefix(p, target) /\ p # target
  BY <1>3, PrefixedIs, PrefixReflexive
<1>5. QED BY <1>4, PrefixOfFront

\* A copy to a free target is what stands at the source, and nothing else.
LEMMA CopyThere ==
  ASSUME NEW t, IsTree(t), NEW source \in DOMAIN t, NEW target, IsPath(target), target \notin DOMAIN t
  PROVE  /\ \A q \in DOMAIN t : IsPrefix(source, q) =>
              /\ Rebased(source, target, q) \in DOMAIN CopyDir(t, source, target)
              /\ CopyDir(t, source, target)[Rebased(source, target, q)] = t[q]
         /\ \A p \in DOMAIN CopyDir(t, source, target) : IsPrefix(target, p) =>
              \E q \in DOMAIN t : IsPrefix(source, q) /\ p = Rebased(source, target, q)
<1> DEFINE copy == CopyDir(t, source, target)
<1>1. IsPath(source) /\ Closed(DOMAIN t)
  BY DEF IsTree, Closed
<1>2. /\ DOMAIN copy = DOMAIN t \cup Prefixed(target) \cup Copied(DOMAIN t, source, target)
      /\ \A p \in DOMAIN copy : IsCopyAt(copy, t, source, target, p)
  BY <1>1, CopyIs
<1>3. ASSUME NEW q \in DOMAIN t, IsPrefix(source, q)
      PROVE  Rebased(source, target, q) \in DOMAIN copy /\ copy[Rebased(source, target, q)] = t[q]
  <2> DEFINE to == Rebased(source, target, q)
  <2>1. to \in DOMAIN copy
    BY <1>1, <1>3, CopyHas DEF Below
  <2>2. IsPath(q) /\ IsPath(to) /\ IsPrefix(target, to)
    BY <1>1, <1>3, RebasedIs DEF IsRebased, Closed
  <2>3. to \notin DOMAIN t
    BY <1>1, <2>2, PrefixInClosed
  <2>4. \A r \in Below(t, source) : Rebased(source, target, r) = to => r = q
    BY <1>1, <1>3, <2>2, RebasedOnce DEF Below, Closed
  <2>5. q \in Below(t, source)
    BY <1>3 DEF Below
  <2> HIDE DEF copy
  <2>6. {r \in Below(t, source) : Rebased(source, target, r) = to} = {q}
    BY <2>4, <2>5
  <2>7. copy[to] = {} \cup UNION {t[r] : r \in {r \in Below(t, source) : Rebased(source, target, r) = to}}
    BY <1>2, <2>1, <2>3 DEF IsCopyAt, IsDir
  <2> HIDE DEF to
  <2>8. copy[to] = UNION {t[r] : r \in {q}}
    BY <2>6, <2>7
  <2>9. QED BY <2>1, <2>8 DEF to
<1>4. ASSUME NEW p \in DOMAIN copy, IsPrefix(target, p)
      PROVE  \E q \in DOMAIN t : IsPrefix(source, q) /\ p = Rebased(source, target, q)
  <2>1. CASE p \in DOMAIN t
    BY <1>1, <1>4, <2>1, PrefixInClosed
  <2>2. CASE p \in Prefixed(target)
    <3>1. IsPath(p) /\ IsPrefix(p, target)
      BY <2>2, PrefixedIs
    <3>2. Len(p) <= Len(target) /\ Len(target) <= Len(p) /\ Len(p) \in Nat /\ Len(target) \in Nat
      BY <1>4, <3>1, PrefixIs, PathIs
    <3>3. p = target
      BY <3>1, <3>2, PrefixSameLength
    <3>4. QED BY <1>1, <3>3, RebasedSource, PrefixReflexive
  <2>3. CASE p \in Copied(DOMAIN t, source, target)
    BY <2>3 DEF Copied, Inside
  <2>4. QED BY <1>2, <2>1, <2>2, <2>3
<1>5. QED BY <1>3, <1>4

\* What stands where after a move.
LEMMA MoveHolds ==
  ASSUME NEW t, IsTree(t), NEW from, NEW to, IsPath(from), IsPath(to), ~Related(from, to),
         NEW copy, copy = CopyDir(t, from, to), NEW move, move = MoveDir(t, from, to)
  PROVE  /\ \A q : q \in DOMAIN move <=> q \in DOMAIN copy /\ ~IsPrefix(from, q)
         /\ \A q \in DOMAIN move : move[q] = copy[q]
<1>1. \A q : q \in DOMAIN move <=> q \in DOMAIN copy /\ ~IsPrefix(from, q)
  BY MoveFolders
<1>2. \A q \in DOMAIN move : move[q] = copy[q]
  BY MoveIs
<1>3. QED BY <1>1, <1>2

\* A folder that a delete of the plan may take.
IsDeleted(items, p) == \E k \in DOMAIN items : items[k].action = "delete" /\ IsPrefix(items[k].source, p)

\* A folder that an item after the n-th makes on its way.
IsLeft(items, n, p) ==
  \E k \in DOMAIN items : k > n /\ items[k].action # "delete" /\ IsPrefix(p, Way(items[k]))

\* The tree t is u, but for what the plan deletes and for empty folders that the items
\* after the n-th make on their way.
Resembles(t, u, items, n) ==
  /\ \A p \in DOMAIN u : IsDeleted(items, p) \/ p \in DOMAIN t
  /\ \A p \in DOMAIN t :
       \/ p \in DOMAIN u /\ t[p] = u[p]
       \/ t[p] = {} /\ (IF p \in DOMAIN u THEN IsDeleted(items, p) ELSE IsLeft(items, n, p))

\* Every tree resembles itself.
LEMMA ResemblesItself ==
  ASSUME NEW t, NEW items, NEW n
  PROVE  Resembles(t, t, items, n)
BY DEF Resembles

\* What an item leaves, an earlier one counts as left.
LEMMA LeftEarlier ==
  ASSUME NEW items, DOMAIN items \subseteq Nat, NEW n \in Nat, NEW m \in Nat, m <= n,
         NEW p, IsLeft(items, n, p)
  PROVE  IsLeft(items, m, p)
BY DEF IsLeft

\* What resembles something that resembles v, resembles v.
LEMMA ResemblesTransitive ==
  ASSUME NEW t, NEW u, NEW v, NEW items, DOMAIN items \subseteq Nat,
         NEW n \in Nat, NEW m \in Nat, m <= n, Resembles(t, u, items, n), Resembles(u, v, items, m)
  PROVE  Resembles(t, v, items, m)
<1>1. \A p : IsLeft(items, n, p) => IsLeft(items, m, p)
  BY LeftEarlier
<1>2. \A p \in DOMAIN v : IsDeleted(items, p) \/ p \in DOMAIN t
  BY DEF Resembles
<1>3. ASSUME NEW p \in DOMAIN t
      PROVE  \/ p \in DOMAIN v /\ t[p] = v[p]
             \/ t[p] = {} /\ (IF p \in DOMAIN v THEN IsDeleted(items, p) ELSE IsLeft(items, m, p))
  <2>1. CASE p \in DOMAIN u /\ t[p] = u[p]
    BY <2>1 DEF Resembles
  <2>2. CASE t[p] = {} /\ (IF p \in DOMAIN u THEN IsDeleted(items, p) ELSE IsLeft(items, n, p))
    BY <1>1, <2>2 DEF Resembles
  <2>3. QED BY <2>1, <2>2 DEF Resembles
<1>4. QED BY <1>2, <1>3 DEF Resembles

\* What a copy or a move makes outside of its target is left to the items before.
LEMMA WayIsLeft ==
  ASSUME NEW t, IsTree(t), NEW source, NEW target, IsPath(source), IsPath(target), target # Root,
         NEW items, NEW j \in DOMAIN items, items[j].action # "delete", Way(items[j]) = Front(target),
         NEW n, n < j
  PROVE  \A p \in DOMAIN CopyDir(t, source, target) :
           p \notin DOMAIN t /\ ~IsPrefix(target, p) =>
             IsLeft(items, n, p) /\ CopyDir(t, source, target)[p] = {}
<1> SUFFICES ASSUME NEW p \in DOMAIN CopyDir(t, source, target), p \notin DOMAIN t, ~IsPrefix(target, p)
             PROVE  IsLeft(items, n, p) /\ CopyDir(t, source, target)[p] = {}
  OBVIOUS
<1>1. IsPrefix(p, Front(target))
  BY MadeOnTheWay
<1>2. CopyDir(t, source, target)[p] = {}
  BY CopyOnly DEF IsDir
<1>3. QED BY <1>1, <1>2 DEF IsLeft

\* To remove a copy restores what was there.
LEMMA CopyUndone ==
  ASSUME NEW x, IsTree(x), NEW t, IsTree(t), NEW source \in DOMAIN x,
         NEW target, IsPath(target), target # Root, target \notin DOMAIN x,
         NEW items, DOMAIN items \subseteq Nat, NEW j \in DOMAIN items, items[j].action # "delete",
         Way(items[j]) = Front(target), NEW n \in Nat, n < j,
         ~IsDeleted(items, target), Resembles(t, CopyDir(x, source, target), items, j)
  PROVE  target \in DOMAIN t /\ Resembles(RemoveDirAll(t, target), x, items, n)
<1> DEFINE copy == CopyDir(x, source, target)
           u == RemoveDirAll(t, target)
<1>1. IsPath(source) /\ Closed(DOMAIN x) /\ j \in Nat
  BY DEF IsTree, Closed
<1>2. /\ DOMAIN copy = DOMAIN x \cup Prefixed(target) \cup Copied(DOMAIN x, source, target)
      /\ \A p \in DOMAIN x : ~IsPrefix(target, p)
  BY <1>1, CopyIs, PrefixInClosed
<1>3. \A p \in DOMAIN x : p \in DOMAIN copy /\ copy[p] = x[p]
  BY <1>1, <1>2, CopyOnly DEF IsDir
<1>4. \A p \in DOMAIN copy : p \notin DOMAIN x /\ ~IsPrefix(target, p) => IsLeft(items, n, p) /\ copy[p] = {}
  BY <1>1, WayIsLeft
<1>5. /\ DOMAIN u = {p \in DOMAIN t : ~IsPrefix(target, p)}
      /\ \A p \in DOMAIN u : u[p] = t[p]
  BY RemoveIs
<1>6. Resembles(t, copy, items, j) /\ target \in DOMAIN copy
  BY <1>2, PrefixedIs
<1>7. \A p : IsLeft(items, j, p) => IsLeft(items, n, p)
  BY <1>1, LeftEarlier
<1> HIDE DEF copy, u
<1>8. target \in DOMAIN t
  BY <1>6 DEF Resembles
<1>9. \A p \in DOMAIN x : IsDeleted(items, p) \/ p \in DOMAIN u
  BY <1>2, <1>3, <1>5, <1>6 DEF Resembles
<1>10. ASSUME NEW p \in DOMAIN u
       PROVE  \/ p \in DOMAIN x /\ u[p] = x[p]
              \/ u[p] = {} /\ (IF p \in DOMAIN x THEN IsDeleted(items, p) ELSE IsLeft(items, n, p))
  <2>1. p \in DOMAIN t /\ ~IsPrefix(target, p) /\ u[p] = t[p]
    BY <1>5
  <2>2. CASE p \in DOMAIN x
    BY <1>3, <1>6, <2>1, <2>2 DEF Resembles
  <2>3. CASE p \notin DOMAIN x
    <3>1. u[p] = {}
      BY <1>4, <1>6, <2>1, <2>3 DEF Resembles
    <3>2. IsLeft(items, n, p)
      BY <1>4, <1>6, <1>7, <2>1, <2>3 DEF Resembles
    <3>3. QED BY <2>3, <3>1, <3>2
  <2>4. QED BY <2>2, <2>3
<1>11. Resembles(u, x, items, n)
  BY <1>9, <1>10 DEF Resembles
<1>12. QED BY <1>8, <1>11 DEF u

\* Nothing deleted and nothing left is at p or below.
IsUntouched(items, j, p) ==
  \A q : IsPath(q) /\ IsPrefix(p, q) => ~IsDeleted(items, q) /\ ~IsLeft(items, j, q)

\* Of a folder that was moved away and its new place, nothing but the folder is there.
LEMMA MovedAway ==
  ASSUME NEW x, IsTree(x), NEW t, IsTree(t), NEW source \in DOMAIN x,
         NEW target, IsPath(target), target \notin DOMAIN x, ~Related(source, target),
         NEW items, NEW j, IsUntouched(items, j, source), IsUntouched(items, j, target),
         Resembles(t, MoveDir(x, source, target), items, j)
  PROVE  /\ \A p \in DOMAIN t : ~IsPrefix(source, p)
         /\ \A p \in DOMAIN x : IsPrefix(source, p) =>
              /\ Rebased(source, target, p) \in DOMAIN t
              /\ t[Rebased(source, target, p)] = x[p]
         /\ \A q \in DOMAIN t : IsPrefix(target, q) =>
              \E p \in DOMAIN x : IsPrefix(source, p) /\ q = Rebased(source, target, p)
<1> DEFINE copy == CopyDir(x, source, target)
           move == MoveDir(x, source, target)
<1>1. IsPath(source) /\ Closed(DOMAIN x) /\ Closed(DOMAIN t)
  BY DEF IsTree, Closed
<1>2. /\ \A p \in DOMAIN x : IsPrefix(source, p) =>
           Rebased(source, target, p) \in DOMAIN copy /\ copy[Rebased(source, target, p)] = x[p]
      /\ \A q \in DOMAIN copy : IsPrefix(target, q) =>
           \E p \in DOMAIN x : IsPrefix(source, p) /\ q = Rebased(source, target, p)
  BY CopyThere
<1>3. /\ \A q : q \in DOMAIN move <=> q \in DOMAIN copy /\ ~IsPrefix(source, q)
      /\ \A q \in DOMAIN move : move[q] = copy[q]
  BY <1>1, MoveHolds
<1>4. Resembles(t, move, items, j)
  OBVIOUS
<1> HIDE DEF copy, move
<1>5. \A p \in DOMAIN t : ~IsPrefix(source, p)
  BY <1>1, <1>3, <1>4 DEF Resembles, IsUntouched, Closed
<1>6. ASSUME NEW p \in DOMAIN x, IsPrefix(source, p)
      PROVE  Rebased(source, target, p) \in DOMAIN t /\ t[Rebased(source, target, p)] = x[p]
  <2> DEFINE to == Rebased(source, target, p)
  <2>1. IsPath(to) /\ IsPrefix(target, to)
    BY <1>1, <1>6, RebasedIs DEF IsRebased, Closed
  <2>2. to \in DOMAIN copy /\ copy[to] = x[p]
    BY <1>2, <1>6
  <2> HIDE DEF to
  <2>3. ~IsPrefix(source, to)
    BY <1>1, <2>1, CopiedElsewhere DEF Related
  <2>4. to \in DOMAIN move /\ move[to] = x[p]
    BY <1>3, <2>2, <2>3
  <2>5. ~IsDeleted(items, to)
    BY <2>1 DEF IsUntouched
  <2>6. QED BY <1>4, <2>4, <2>5 DEF Resembles, to
<1>7. ASSUME NEW q \in DOMAIN t, IsPrefix(target, q)
      PROVE  \E p \in DOMAIN x : IsPrefix(source, p) /\ q = Rebased(source, target, p)
  <2>1. ~IsLeft(items, j, q)
    BY <1>1, <1>7 DEF IsUntouched, Closed
  <2>2. q \in DOMAIN copy
    BY <1>3, <1>4, <2>1 DEF Resembles
  <2>3. QED BY <1>2, <1>7, <2>2
<1>8. QED BY <1>5, <1>6, <1>7

\* To move a folder back restores what was there.
LEMMA MoveUndone ==
  ASSUME NEW x, IsTree(x), NEW t, IsTree(t), NEW source \in DOMAIN x,
         NEW target, IsPath(target), target \notin DOMAIN x, ~Related(source, target),
         NEW items, DOMAIN items \subseteq Nat, NEW j \in DOMAIN items, items[j].action # "delete",
         Way(items[j]) = Front(target), NEW n \in Nat, n < j,
         IsUntouched(items, j, source), IsUntouched(items, j, target), ~IsDeleted(items, Front(source)),
         Resembles(t, MoveDir(x, source, target), items, j)
  PROVE  /\ target \in DOMAIN t /\ source \notin DOMAIN t /\ Front(source) \in DOMAIN t
         /\ Resembles(MoveDir(t, target, source), x, items, n)
<1> DEFINE copy == CopyDir(x, source, target)
           move == MoveDir(x, source, target)
           back == CopyDir(t, target, source)
           u == MoveDir(t, target, source)
<1>1. IsPath(source) /\ Closed(DOMAIN x) /\ Closed(DOMAIN t) /\ j \in Nat
  BY DEF IsTree, Closed
<1>2. target # Root /\ source # Root /\ ~Related(target, source)
  BY <1>1, PrefixReflexive DEF Related
<1>3. /\ \A p \in DOMAIN t : ~IsPrefix(source, p)
      /\ \A p \in DOMAIN x : IsPrefix(source, p) =>
           /\ Rebased(source, target, p) \in DOMAIN t
           /\ t[Rebased(source, target, p)] = x[p]
      /\ \A q \in DOMAIN t : IsPrefix(target, q) =>
           \E p \in DOMAIN x : IsPrefix(source, p) /\ q = Rebased(source, target, p)
  BY MovedAway
<1>4. source \notin DOMAIN t /\ target \in DOMAIN t
  <2>1. IsPrefix(source, source) /\ Rebased(source, target, source) = target
    BY <1>1, PrefixReflexive, RebasedSource
  <2>2. QED BY <1>3, <2>1
<1>5. /\ DOMAIN copy = DOMAIN x \cup Prefixed(target) \cup Copied(DOMAIN x, source, target)
      /\ \A p \in DOMAIN x : ~IsPrefix(target, p)
  BY <1>1, CopyIs, PrefixInClosed
<1>6. \A p \in DOMAIN x : p \in DOMAIN copy /\ copy[p] = x[p]
  BY <1>1, <1>5, CopyOnly DEF IsDir
<1>7. /\ \A q : q \in DOMAIN move <=> q \in DOMAIN copy /\ ~IsPrefix(source, q)
      /\ \A q \in DOMAIN move : move[q] = copy[q]
  BY <1>1, MoveHolds
<1>8. \A p \in DOMAIN copy : p \notin DOMAIN x /\ ~IsPrefix(target, p) => IsLeft(items, n, p) /\ copy[p] = {}
  BY <1>1, <1>2, WayIsLeft
<1>9. /\ \A q : q \in DOMAIN u <=> q \in DOMAIN back /\ ~IsPrefix(target, q)
      /\ \A q \in DOMAIN u : u[q] = back[q]
  BY <1>1, <1>2, MoveHolds
<1>10. DOMAIN back = DOMAIN t \cup Prefixed(source) \cup Copied(DOMAIN t, target, source)
  BY <1>1, CopyIs
<1>11. /\ \A q \in DOMAIN t : IsPrefix(target, q) =>
            Rebased(target, source, q) \in DOMAIN back /\ back[Rebased(target, source, q)] = t[q]
       /\ \A p \in DOMAIN back : IsPrefix(source, p) =>
            \E q \in DOMAIN t : IsPrefix(target, q) /\ p = Rebased(target, source, q)
  BY <1>1, <1>4, CopyThere
<1>12. \A p \in DOMAIN back : ~IsPrefix(source, p) => back[p] = IF p \in DOMAIN t THEN t[p] ELSE {}
  BY <1>1, CopyOnly DEF IsDir
<1>13. Resembles(t, move, items, j)
  OBVIOUS
<1>14. \A p : IsLeft(items, j, p) => IsLeft(items, n, p)
  BY <1>1, LeftEarlier
<1>15. \A p \in DOMAIN x : IsPrefix(source, p) => Rebased(target, source, Rebased(source, target, p)) = p
  BY <1>1, RebasedBack DEF Closed
<1>16. \A p \in DOMAIN x : IsPrefix(source, p) =>
         IsPath(Rebased(source, target, p)) /\ IsPrefix(target, Rebased(source, target, p))
  BY <1>1, RebasedIs DEF IsRebased, Closed
<1>17. Prefixed(source) \subseteq DOMAIN x
  BY <1>1 DEF Closed
<1> HIDE DEF copy, move, back, u
<1>18. Front(source) \in DOMAIN t
  <2>1. IsPath(Front(source)) /\ IsPrefix(Front(source), source) /\ Len(Front(source)) = Len(source) - 1
        /\ Len(source) \in Nat
    BY <1>1, <1>2, FrontIs
  <2>2. Front(source) \in DOMAIN x
    BY <1>1, <2>1, PrefixInClosed
  <2>3. ~IsPrefix(source, Front(source))
    BY <1>1, <2>1, PrefixIs
  <2>4. QED BY <1>6, <1>7, <1>13, <2>2, <2>3 DEF Resembles
<1>19. ASSUME NEW p \in DOMAIN x PROVE IsDeleted(items, p) \/ p \in DOMAIN u
  <2>1. CASE IsPrefix(source, p)
    BY <1>3, <1>5, <1>9, <1>11, <1>15, <1>16, <2>1
  <2>2. CASE ~IsPrefix(source, p)
    BY <1>5, <1>6, <1>7, <1>9, <1>10, <1>13, <2>2 DEF Resembles
  <2>3. QED BY <2>1, <2>2
<1>20. ASSUME NEW p \in DOMAIN u
       PROVE  \/ p \in DOMAIN x /\ u[p] = x[p]
              \/ u[p] = {} /\ (IF p \in DOMAIN x THEN IsDeleted(items, p) ELSE IsLeft(items, n, p))
  <2>1. p \in DOMAIN back /\ ~IsPrefix(target, p) /\ u[p] = back[p]
    BY <1>9
  <2>2. CASE IsPrefix(source, p)
    <3>1. PICK q \in DOMAIN t : IsPrefix(target, q) /\ p = Rebased(target, source, q)
      BY <1>11, <2>1, <2>2
    <3>2. PICK r \in DOMAIN x : IsPrefix(source, r) /\ q = Rebased(source, target, r)
      BY <1>3, <3>1
    <3>3. p = r /\ back[p] = t[q] /\ t[q] = x[r]
      BY <1>3, <1>11, <1>15, <3>1, <3>2
    <3>4. QED BY <2>1, <3>3
  <2>3. CASE ~IsPrefix(source, p) /\ p \notin DOMAIN t
    <3>1. u[p] = {}
      BY <1>12, <2>1, <2>3
    <3>2. p \in DOMAIN x
      <4>1. p \notin Copied(DOMAIN t, target, source)
        <5>1. SUFFICES ASSUME NEW q \in DOMAIN t, IsPrefix(target, q), p = Rebased(target, source, q)
                       PROVE  FALSE
          BY DEF Copied, Inside
        <5>2. QED BY <1>1, <2>3, <5>1, RebasedIs DEF IsRebased, Closed
      <4>2. QED BY <1>10, <1>17, <2>1, <2>3, <4>1
    <3>3. IsDeleted(items, p)
      BY <1>6, <1>7, <1>13, <2>3, <3>2 DEF Resembles
    <3>4. QED BY <3>1, <3>2, <3>3
  <2>4. CASE ~IsPrefix(source, p) /\ p \in DOMAIN t
    <3>1. u[p] = t[p]
      BY <1>12, <2>1, <2>4
    <3>2. CASE p \in DOMAIN x
      BY <1>6, <1>7, <1>13, <2>4, <3>1, <3>2 DEF Resembles
    <3>3. CASE p \notin DOMAIN x
      <4>1. t[p] = {} /\ IsLeft(items, n, p)
        <5>1. CASE p \in DOMAIN move
          BY <1>7, <1>8, <1>13, <2>1, <2>4, <3>3, <5>1 DEF Resembles
        <5>2. CASE p \notin DOMAIN move
          BY <1>13, <1>14, <2>4, <5>2 DEF Resembles
        <5>3. QED BY <5>1, <5>2
      <4>2. QED BY <3>1, <3>3, <4>1
    <3>4. QED BY <3>2, <3>3
  <2>5. QED BY <2>2, <2>3, <2>4
<1>21. Resembles(u, x, items, n)
  BY <1>19, <1>20 DEF Resembles
<1>22. QED BY <1>4, <1>18, <1>21 DEF u

-----------------------------------------------------------------------------
(***************************************************************************)
(* What an apply leaves for the undo.                                      *)
(***************************************************************************)

\* Where a transfer may work.
Places(item, conflict) ==
  {item.target} \cup (IF conflict = "rename" THEN {Suffixed(item.target, n) : n \in 1..MaxSuffix} ELSE {})

\* All of them are next to the target.
LEMMA PlacesNear ==
  ASSUME NEW item, IsPath(item.target), item.target # Root, NEW conflict, NEW place \in Places(item, conflict)
  PROVE  IsPath(place) /\ place # Root /\ Front(place) = Front(item.target)
<1> DEFINE target == item.target
<1>1. CASE place = target
  BY <1>1
<1>2. CASE place # target
  <2>1. PICK n \in 1..MaxSuffix : place = Suffixed(target, n)
    BY <1>2, Zenon DEF Places
  <2> HIDE DEF target
  <2>2. IsPath(target) /\ target # Root
    BY DEF target
  <2>3. /\ IsPath(place) /\ Len(place) = Len(target) /\ Len(target) \in Nat \ {0}
        /\ \A i \in 1..(Len(target) - 1) : place[i] = target[i]
    BY <2>1, <2>2, SuffixedIs
  <2>4. place # Root
    BY <2>3, RootIs
  <2>5. /\ IsPath(Front(target)) /\ Len(Front(target)) = Len(target) - 1
        /\ \A i \in 1..(Len(target) - 1) : Front(target)[i] = target[i]
    BY <2>2, FrontIs
  <2>6. /\ IsPath(Front(place)) /\ Len(Front(place)) = Len(place) - 1
        /\ \A i \in 1..(Len(place) - 1) : Front(place)[i] = place[i]
    BY <2>3, <2>4, FrontIs
  <2> DEFINE f == Front(place)
             g == Front(target)
  <2>7. IsPath(f) /\ IsPath(g) /\ Len(f) = Len(g) /\ \A i \in 1..Len(f) : f[i] = g[i]
    <3>1. Len(f) = Len(target) - 1 /\ Len(g) = Len(target) - 1
      BY <2>3, <2>5, <2>6
    <3> HIDE DEF f, g
    <3>2. \A i \in 1..(Len(target) - 1) : f[i] = g[i]
      BY <2>3, <2>5, <2>6 DEF f, g
    <3>3. QED BY <2>5, <2>6, <3>1, <3>2 DEF f, g
  <2> HIDE DEF f, g
  <2>8. f = g
    BY <2>7, SamePath
  <2>9. QED BY <2>3, <2>4, <2>8 DEF f, g, target
<1>3. QED BY <1>1, <1>2

\* A transfer works where it may.
PlaceInv ==
  \A a \in Applies :
    apply[a].at = "work" /\ Items[apply[a].k].action \in Transfers /\ apply[a].choice.does = "act" =>
      apply[a].choice.target \in Places(Items[apply[a].k], blueprint.conflict)

\* What is chosen for a transfer.
LEMMA ChosenPlace ==
  ASSUME TypesInv, NEW item, item.action \in Transfers, NEW c, c = Choice(item), c.does = "act"
  PROVE  c.target \in Places(item, blueprint.conflict)
<1>1. CASE item.source \notin DOMAIN tree
  <2>1. c \in {Done(item.target), Fail}
    BY <1>1 DEF Choice, IsDir, Transfers
  <2>2. QED BY <2>1, ChoicesAre
<1>2. CASE item.source \in DOMAIN tree
  <2> DEFINE target == item.target
  <2>1. c = ResolveConflict(target)
    BY <1>2 DEF Choice, IsDir, Transfers
  <2> HIDE DEF target
  <2>2. \/ c.target = target
        \/ blueprint.conflict = "rename" /\ \E n \in 1..MaxSuffix : c.target = Suffixed(target, n)
    BY <2>1, ResolvedIs
  <2>3. QED BY <2>2 DEF Places, target
<1>3. QED BY <1>1, <1>2

\* Only a look at its place takes a call to its work.
LEMMA WorkIsChosen ==
  ASSUME TypesInv, [Next]_vars, NEW x \in Applies, apply'[x].at = "work"
  PROVE  apply'[x] = apply[x] \/ Choose(x)
<1>1. ASSUME NEW a \in Applies, Begin(a) PROVE apply'[x] = apply[x]
  <2>1. PICK stored \in BOOLEAN :
          apply' = [apply EXCEPT ![a] = [NotApplying EXCEPT !.at = "choose", !.k = 1,
                                                            !.stored = stored, !.began = tree]]
    BY <1>1 DEF Begin
  <2>2. apply' = [apply EXCEPT ![a] = Begun(stored, tree)]
    BY <2>1 DEF Begun
  <2>3. Begun(stored, tree).at = "choose"
    BY BegunIs
  <2>4. QED BY <2>2, <2>3 DEF TypesInv, AreCalls
<1>2. ASSUME NEW a \in Applies, Choose(a) PROVE apply'[x] = apply[x] \/ Choose(x)
  BY <1>2 DEF Choose, TypesInv, AreCalls
<1>3. ASSUME NEW a \in Applies, Work(a) PROVE apply'[x] = apply[x]
  <2> DEFINE item == Items[apply[a].k]
             choice == apply[a].choice
             done == IF choice.does = "act" THEN Worked(item, choice.target)
                     ELSE [tree |-> tree, ok |-> choice.does = "done"]
             items == apply[a].items \o (IF done.ok THEN Recorded(item, choice.target) ELSE <<>>)
             c == apply[a]
             d == Gone(c, items)
  <2>1. \/ apply' = [apply EXCEPT ![a].at = "choose", ![a].k = @ + 1, ![a].choice = Skip, ![a].items = items]
        \/ apply' = [apply EXCEPT ![a] = Returned(a)]
    BY <1>3 DEF Work
  <2> HIDE DEF items
  <2>2. apply' = [apply EXCEPT ![a] = d] \/ apply' = [apply EXCEPT ![a] = Returned(a)]
    BY <2>1 DEF TypesInv, AreCalls, Gone
  <2>3. c = [y \in Parts |-> c[y]]
    BY DEF TypesInv, AreCalls, IsCall
  <2> HIDE DEF c
  <2>4. d.at = "choose" /\ Returned(a).at = "idle"
    BY <2>3, GoneIs, ReturnedIs
  <2> HIDE DEF d
  <2>5. QED BY <2>2, <2>4 DEF TypesInv, AreCalls
<1>4. ASSUME NEW a \in Applies, End(a) PROVE apply'[x] = apply[x]
  BY <1>4, ReturnedIs DEF End, TypesInv, AreCalls
<1>5. CASE UndoStep \/ UserStep \/ UNCHANGED vars
  BY <1>5 DEF UndoStep, UndoStart, UndoItem, UndoMark, UserStep, UserRemoves, UserDrops, vars
<1>6. CASE Crash
  BY <1>6, ReturnedIs DEF Crash
<1>7. QED BY <1>1, <1>2, <1>3, <1>4, <1>5, <1>6 DEF Next, ApplyStep

\* Every step leaves it so.
LEMMA PlaceNext == TypesInv /\ PlaceInv /\ [Next]_vars => PlaceInv'
<1> SUFFICES ASSUME TypesInv, PlaceInv, [Next]_vars, NEW x \in Applies,
                    apply'[x].at = "work", Items[apply'[x].k].action \in Transfers,
                    apply'[x].choice.does = "act"
             PROVE  apply'[x].choice.target \in Places(Items[apply'[x].k], blueprint.conflict)
  BY PlanStays DEF PlaceInv
<1>1. CASE apply'[x] = apply[x]
  BY <1>1 DEF PlaceInv
<1>2. CASE Choose(x)
  <2> DEFINE c == apply[x]
             choice == Choice(Items[c.k])
             d == Chosen(c, choice)
  <2>1. apply' = [apply EXCEPT ![x] = d]
    BY <1>2 DEF Choose, TypesInv, AreCalls, Chosen
  <2>2. apply'[x] = d
    BY <2>1 DEF TypesInv, AreCalls
  <2>3. c = [y \in Parts |-> c[y]]
    BY DEF TypesInv, AreCalls, IsCall
  <2>4. d.choice = choice /\ d.k = c.k
    <3> HIDE DEF c, choice
    <3>1. QED BY <2>3, ChosenIs
  <2> HIDE DEF d
  <2>5. Items[c.k].action \in Transfers /\ choice.does = "act"
    BY <2>2, <2>4
  <2>6. choice.target \in Places(Items[c.k], blueprint.conflict)
    BY <2>5, ChosenPlace
  <2>7. QED BY <2>2, <2>4, <2>6
<1>3. QED BY <1>1, <1>2, WorkIsChosen

\* The last folder that an item makes on its way.
LEMMA WayIsPath ==
  ASSUME NEW item, IsItem(item), item.action # "delete"
  PROVE  IsPath(Way(item)) /\ (item.action \in Transfers => item.target # Root)
<1>1. CASE item.action = "create"
  BY <1>1 DEF Way, IsItem, Transfers
<1>2. CASE item.action \in Transfers
  <2>1. item.target # Root
    BY <1>2, PrefixReflexive DEF IsItem, Related
  <2>2. IsPath(Front(item.target))
    BY <2>1, FrontIs DEF IsItem
  <2>3. QED BY <1>2, <2>1, <2>2 DEF Way, Transfers
<1>3. QED BY <1>1, <1>2 DEF IsItem, Actions, Transfers

\* What the plan lets an undo rely on: no delete concerns a place of a transfer, and
\* nothing is made below the places of a move afterwards.
LEMMA RestorableIs ==
  ASSUME TypesInv, Restorable, NEW k \in DOMAIN Items, Items[k].action \in Transfers,
         NEW p \in Touched(Items[k]), IsPath(p), NEW q, IsPath(q)
  PROVE  /\ IsPrefix(p, q) \/ IsPrefix(q, p) => ~IsDeleted(Items, q)
         /\ Items[k].action \in {"rename", "move"} /\ IsPrefix(p, q) => ~IsLeft(Items, k, q)
<1>1. \A j \in DOMAIN Items : IsItem(Items[j])
  BY ItemsAre
<1>2. ASSUME IsPrefix(p, q) \/ IsPrefix(q, p), IsDeleted(Items, q) PROVE FALSE
  <2>1. PICK j \in DOMAIN Items : Items[j].action = "delete" /\ IsPrefix(Items[j].source, q)
    BY <1>2 DEF IsDeleted
  <2> DEFINE d == Items[j].source
  <2>2. IsPath(d) /\ ~Related(p, d)
    BY <1>1, <2>1 DEF Restorable, IsItem
  <2> HIDE DEF d
  <2>3. IsPrefix(d, q)
    BY <2>1 DEF d
  <2>4. QED BY <1>2, <2>2, <2>3, PrefixesCompare, PrefixTransitive DEF Related
<1>3. ASSUME Items[k].action \in {"rename", "move"}, IsPrefix(p, q), IsLeft(Items, k, q) PROVE FALSE
  <2>1. PICK j \in DOMAIN Items : j > k /\ Items[j].action # "delete" /\ IsPrefix(q, Way(Items[j]))
    BY <1>3 DEF IsLeft
  <2>2. k < j
    <3>1. j \in Nat /\ k \in Nat
      BY ItemsAre
    <3>2. QED BY <2>1, <3>1
  <2>3. IsPath(Way(Items[j]))
    BY <1>1, <2>1, WayIsPath
  <2>4. IsPrefix(p, Way(Items[j]))
    BY <1>3, <2>1, <2>3, PrefixTransitive
  <2>5. QED BY <1>3, <2>1, <2>2, <2>4 DEF Restorable
<1>4. QED BY <1>2, <1>3

-----------------------------------------------------------------------------
(***************************************************************************)
(* What has been transferred, and how an undo takes it back.               *)
(***************************************************************************)

\* What a record stands for.
Transferred(t, r) ==
  IF r.status = "copied" THEN CopyDir(t, r.source, r.target) ELSE MoveDir(t, r.source, r.target)

\* The j-th item makes the record r of the tree t, in a way that can be undone.
IsStep(t, r, items, j) ==
  /\ IsTree(t) /\ IsRecord(r) /\ r.source \in DOMAIN t /\ r.target \notin DOMAIN t
  /\ j \in DOMAIN items /\ items[j].action # "delete" /\ Way(items[j]) = Front(r.target)
  /\ ~IsDeleted(items, r.target)
  /\ r.status = "moved" =>
       /\ ~IsDeleted(items, Front(r.source))
       /\ IsUntouched(items, j, r.source) /\ IsUntouched(items, j, r.target)

\* The item and the tree after the n-th record; 0 is the beginning.
At(past, n) == IF n = 0 THEN 0 ELSE past[n].item

After(past, before, records, n) == IF n = 0 THEN before ELSE Transferred(past[n].tree, records[n])

\* The first n records were made one after the other, by later and later items.
IsPast(past, before, records, n, items) ==
  \A m \in 1..n :
    /\ IsStep(past[m].tree, records[m], items, past[m].item)
    /\ At(past, m - 1) < past[m].item
    /\ Resembles(past[m].tree, After(past, before, records, m - 1), items, At(past, m - 1))

\* The tree t is what they have made of the tree before.
Recalls(past, before, records, n, items, t) ==
  /\ IsPast(past, before, records, n, items)
  /\ Resembles(t, After(past, before, records, n), items, At(past, n))

\* There is a past like that, that the items from the k-th on are not in.
IsMade(before, records, n, items, t, k) ==
  \E past : Recalls(past, before, records, n, items, t) /\ At(past, n) < k

Remembers(before, records, n, items, t) == \E past : Recalls(past, before, records, n, items, t)

\* An item of the past is a number.
LEMMA AtIs ==
  ASSUME NEW past, NEW before, NEW records, NEW n \in Nat, NEW items, DOMAIN items \subseteq Nat,
         IsPast(past, before, records, n, items)
  PROVE  At(past, n) \in Nat
<1>1. CASE n = 0
  BY <1>1 DEF At
<1>2. CASE n # 0
  <2>1. n \in 1..n
    BY <1>2
  <2>2. IsStep(past[n].tree, records[n], items, past[n].item)
    BY <2>1 DEF IsPast
  <2>3. QED BY <1>2, <2>2 DEF At, IsStep
<1>3. QED BY <1>1, <1>2

\* Folders made on the way change no past.
LEMMA PastGoesOn ==
  ASSUME NEW before, NEW records, NEW n \in Nat, NEW items, DOMAIN items \subseteq Nat, NEW t,
         NEW k \in Nat \ {0}, IsMade(before, records, n, items, t, k), NEW u, Resembles(u, t, items, k - 1)
  PROVE  IsMade(before, records, n, items, u, k + 1)
<1>1. PICK past : Recalls(past, before, records, n, items, t) /\ At(past, n) < k
  BY DEF IsMade
<1> DEFINE m == At(past, n)
           v == After(past, before, records, n)
<1>2. m \in Nat /\ Resembles(t, v, items, m)
  BY <1>1, AtIs DEF Recalls
<1>3. m < k
  BY <1>1
<1> HIDE DEF m, v
<1>4. k - 1 \in Nat /\ m <= k - 1 /\ m < k + 1
  BY <1>2, <1>3
<1>5. Resembles(u, v, items, m)
  BY <1>2, <1>4, ResemblesTransitive
<1>6. QED BY <1>1, <1>4, <1>5 DEF m, v, Recalls, IsMade

\* A transfer is added to the past.
LEMMA PastGrows ==
  ASSUME NEW before, NEW records, NEW n \in Nat, NEW items, DOMAIN items \subseteq Nat, NEW t,
         NEW k, IsMade(before, records, n, items, t, k),
         NEW more, \A m \in 1..n : more[m] = records[m],
         NEW r, more[n + 1] = r, IsStep(t, r, items, k)
  PROVE  IsMade(before, more, n + 1, items, Transferred(t, r), k + 1)
<1>1. PICK past : Recalls(past, before, records, n, items, t) /\ At(past, n) < k
  BY DEF IsMade
<1> DEFINE last == [tree |-> t, item |-> k]
           next == [m \in 1..(n + 1) |-> IF m = n + 1 THEN last ELSE past[m]]
<1>2. last.tree = t /\ last.item = k
  OBVIOUS
<1>3. next[n + 1] = last /\ \A m \in 1..n : next[m] = past[m]
  <2> HIDE DEF last
  <2>1. n + 1 \in 1..(n + 1) /\ \A m \in 1..n : m \in 1..(n + 1) /\ m # n + 1
    OBVIOUS
  <2>2. QED BY <2>1
<1> HIDE DEF last, next
<1>4. \A m \in 0..n : At(next, m) = At(past, m) /\ After(next, before, more, m) = After(past, before, records, m)
  <2>1. \A m \in 0..n : m = 0 \/ m \in 1..n
    OBVIOUS
  <2>2. QED BY <1>3, <2>1 DEF At, After
<1>5. \A m \in 1..n : m - 1 \in 0..n
  OBVIOUS
<1>6. IsPast(past, before, records, n, items)
  BY <1>1 DEF Recalls
<1>7. ASSUME NEW m \in 1..(n + 1)
      PROVE  /\ IsStep(next[m].tree, more[m], items, next[m].item)
             /\ At(next, m - 1) < next[m].item
             /\ Resembles(next[m].tree, After(next, before, more, m - 1), items, At(next, m - 1))
  <2>1. CASE m \in 1..n
    <3>1. next[m] = past[m] /\ more[m] = records[m] /\ m - 1 \in 0..n
      BY <1>3, <1>5, <2>1
    <3>2. /\ At(next, m - 1) = At(past, m - 1)
          /\ After(next, before, more, m - 1) = After(past, before, records, m - 1)
      BY <1>4, <3>1
    <3>3. QED BY <1>6, <2>1, <3>1, <3>2 DEF IsPast
  <2>2. CASE m = n + 1
    <3>1. m - 1 = n /\ n \in 0..n
      BY <2>2
    <3>2. QED BY <1>1, <1>2, <1>3, <1>4, <2>2, <3>1 DEF Recalls
  <2>3. m \in 1..n \/ m = n + 1
    OBVIOUS
  <2>4. QED BY <2>1, <2>2, <2>3
<1>8. IsPast(next, before, more, n + 1, items)
  BY <1>7 DEF IsPast
<1>9. At(next, n + 1) = k /\ After(next, before, more, n + 1) = Transferred(t, r)
  <2>1. n + 1 # 0
    OBVIOUS
  <2>2. QED BY <1>2, <1>3, <2>1 DEF At, After
<1>10. k < k + 1
  <2>1. k \in Nat
    BY DEF IsStep
  <2>2. QED BY <2>1
<1>11. QED BY <1>8, <1>9, <1>10, ResemblesItself DEF Recalls, IsMade

\* A record that can be undone is undone, and nothing but it.
LEMMA StepUndone ==
  ASSUME NEW x, NEW r, NEW items, DOMAIN items \subseteq Nat, NEW j, IsStep(x, r, items, j),
         NEW n \in Nat, n < j, NEW t, IsTree(t), Resembles(t, Transferred(x, r), items, j)
  PROVE  /\ r.target \in DOMAIN t
         /\ r.status = "moved" => r.source \notin DOMAIN t /\ Front(r.source) \in DOMAIN t
         /\ Resembles(IF r.status = "moved" THEN MoveDir(t, r.target, r.source) ELSE RemoveDirAll(t, r.target),
                      x, items, n)
<1> DEFINE source == r.source
           target == r.target
<1>1. /\ IsTree(x) /\ source \in DOMAIN x /\ target \notin DOMAIN x /\ IsPath(source) /\ IsPath(target)
      /\ ~Related(source, target)
      /\ j \in DOMAIN items /\ items[j].action # "delete" /\ Way(items[j]) = Front(target)
      /\ ~IsDeleted(items, target)
      /\ r.status \in {"moved", "copied"}
  BY DEF IsStep, IsRecord
<1>2. target # Root
  BY <1>1, PrefixReflexive DEF Related
<1>3. CASE r.status = "copied"
  <2>1. Resembles(t, CopyDir(x, source, target), items, j) /\ r.status # "moved"
    BY <1>3 DEF Transferred
  <2> HIDE DEF source, target
  <2>2. target \in DOMAIN t /\ Resembles(RemoveDirAll(t, target), x, items, n)
    BY <1>1, <1>2, <2>1, CopyUndone
  <2>3. QED BY <2>1, <2>2 DEF source, target
<1>4. CASE r.status = "moved"
  <2>1. /\ Resembles(t, MoveDir(x, source, target), items, j)
        /\ ~IsDeleted(items, Front(source)) /\ IsUntouched(items, j, source) /\ IsUntouched(items, j, target)
    BY <1>4 DEF Transferred, IsStep
  <2> HIDE DEF source, target
  <2>2. /\ target \in DOMAIN t /\ source \notin DOMAIN t /\ Front(source) \in DOMAIN t
        /\ Resembles(MoveDir(t, target, source), x, items, n)
    BY <1>1, <2>1, MoveUndone
  <2>3. QED BY <1>4, <2>2 DEF source, target
<1>5. QED BY <1>1, <1>3, <1>4

\* To undo the last record goes back in the past.
LEMMA PastShrinks ==
  ASSUME NEW before, NEW records, NEW n \in Nat \ {0}, NEW items, DOMAIN items \subseteq Nat, NEW t, IsTree(t),
         Remembers(before, records, n, items, t), NEW r, r = records[n]
  PROVE  /\ r.target \in DOMAIN t
         /\ r.status = "moved" => r.source \notin DOMAIN t /\ Front(r.source) \in DOMAIN t
         /\ Remembers(before, records, n - 1, items,
                      IF r.status = "moved" THEN MoveDir(t, r.target, r.source) ELSE RemoveDirAll(t, r.target))
<1>1. PICK past : Recalls(past, before, records, n, items, t)
  BY DEF Remembers
<1> DEFINE x == past[n].tree
           j == past[n].item
           m == At(past, n - 1)
           v == After(past, before, records, n - 1)
           u == IF r.status = "moved" THEN MoveDir(t, r.target, r.source) ELSE RemoveDirAll(t, r.target)
<1>2. n \in 1..n /\ n - 1 \in Nat /\ n # 0
  OBVIOUS
<1>3. IsStep(x, r, items, j) /\ m < j /\ Resembles(x, v, items, m)
  BY <1>1, <1>2 DEF Recalls, IsPast
<1>4. Resembles(t, Transferred(x, r), items, j)
  BY <1>1, <1>2 DEF Recalls, At, After
<1>5. IsPast(past, before, records, n - 1, items)
  <2>1. \A i \in 1..(n - 1) : i \in 1..n
    OBVIOUS
  <2>2. QED BY <1>1, <2>1 DEF Recalls, IsPast
<1>6. m \in Nat
  BY <1>2, <1>5, AtIs
<1> HIDE DEF x, j, m, v
<1>7. /\ r.target \in DOMAIN t
      /\ r.status = "moved" => r.source \notin DOMAIN t /\ Front(r.source) \in DOMAIN t
      /\ Resembles(u, x, items, m)
  BY <1>3, <1>4, <1>6, StepUndone
<1> HIDE DEF u
<1>8. m <= m
  BY <1>6
<1>9. Resembles(u, v, items, m)
  BY <1>3, <1>6, <1>7, <1>8, ResemblesTransitive
<1>10. Remembers(before, records, n - 1, items, u)
  BY <1>5, <1>9 DEF Remembers, Recalls, m, v
<1>11. QED BY <1>7, <1>10 DEF u

\* When all is undone, the tree is the one before but for what deletes took and
\* empty folders.
LEMMA AllUndone ==
  ASSUME NEW before, NEW records, NEW items, NEW t, Remembers(before, records, 0, items, t)
  PROVE  /\ \A p \in DOMAIN before : IsDeleted(items, p) \/ (p \in DOMAIN t /\ t[p] = before[p])
         /\ \A p \in DOMAIN t \ DOMAIN before : t[p] = {}
<1>1. PICK past : Recalls(past, before, records, 0, items, t)
  BY DEF Remembers
<1>2. Resembles(t, before, items, 0)
  BY <1>1 DEF Recalls, At, After
<1>3. QED BY <1>2 DEF Resembles

\* The plan lets an undo rely on the same as before.
LEMMA RestorableStays ==
  ASSUME [Next]_vars
  PROVE  Restorable' <=> Restorable
<1>1. blueprint' = blueprint /\ Items' = Items
  BY PlanStays
<1>2. \A item : Touched(item)' = Touched(item)
  BY <1>1 DEF Touched
<1>3. QED BY <1>1, <1>2 DEF Restorable

\* The folders that a create makes are on its way.
LEMMA ResemblesCreated ==
  ASSUME NEW t, IsTree(t), NEW items, NEW k \in DOMAIN items, k \in Nat, items[k].action = "create",
         IsPath(items[k].target)
  PROVE  Resembles(CreateDirAll(t, items[k].target), t, items, k - 1)
<1> DEFINE target == items[k].target
           made == CreateDirAll(t, target)
<1>1. /\ DOMAIN made = DOMAIN t \cup Prefixed(target)
      /\ \A p \in DOMAIN made : made[p] = IF p \in DOMAIN t THEN t[p] ELSE {}
  <2> HIDE DEF target
  <2>1. IsPath(target)
    BY DEF target
  <2>2. QED BY <2>1, CreateIs DEF IsDir
<1> HIDE DEF made
<1>2. ASSUME NEW p \in Prefixed(target) PROVE IsLeft(items, k - 1, p)
  <2>1. IsPrefix(p, target)
    BY PrefixedIs
  <2>2. k > k - 1 /\ Way(items[k]) = target /\ items[k].action # "delete"
    BY DEF Way
  <2>3. QED BY <2>1, <2>2 DEF IsLeft
<1>3. QED BY <1>1, <1>2 DEF Resembles, made

\* What a delete takes is deleted.
LEMMA ResemblesDeleted ==
  ASSUME NEW t, IsTree(t), NEW items, NEW k \in DOMAIN items, items[k].action = "delete",
         IsPath(items[k].source), NEW n
  PROVE  Resembles(RemoveDirAll(t, items[k].source), t, items, n)
<1> DEFINE source == items[k].source
           left == RemoveDirAll(t, source)
<1>1. /\ DOMAIN left = {p \in DOMAIN t : ~IsPrefix(source, p)}
      /\ \A p \in DOMAIN left : left[p] = t[p]
  BY RemoveIs
<1> HIDE DEF left
<1>2. \A p \in DOMAIN t : IsPrefix(source, p) => IsDeleted(items, p)
  BY DEF IsDeleted
<1>3. QED BY <1>1, <1>2 DEF Resembles, left

\* Nothing is added to the records of a call.
LEMMA JoinNothing ==
  ASSUME NEW s, IsPath(s)
  PROVE  s \o <<>> = s
<1> DEFINE both == s \o <<>>
<1>1. IsPath(<<>>) /\ Len(<<>>) = 0 /\ Len(s) \in Nat
  BY NoRecords, PathIs
<1>2. IsPath(both) /\ Len(both) = Len(s) + Len(<<>>) /\ \A i \in 1..Len(s) : both[i] = s[i]
  BY <1>1, JoinIs
<1> HIDE DEF both
<1>3. Len(both) = Len(s)
  BY <1>1, <1>2
<1>4. both = s
  BY <1>2, <1>3, SamePath
<1>5. QED BY <1>4 DEF both

\* One record is added to them.
LEMMA JoinOne ==
  ASSUME NEW s, IsPath(s), NEW r, NEW both, both = s \o <<r>>
  PROVE  /\ Len(both) = Len(s) + 1 /\ Len(s) \in Nat
         /\ \A i \in 1..Len(s) : both[i] = s[i]
         /\ both[Len(s) + 1] = r
<1>1. <<r>> \in Seq({r}) /\ Len(<<r>>) = 1 /\ <<r>>[1] = r
  OBVIOUS
<1>2. IsPath(<<r>>) /\ Len(s) \in Nat
  BY <1>1, SeqIsPath, PathIs
<1>3. /\ Len(both) = Len(s) + Len(<<r>>)
      /\ \A i \in 1..Len(s) : both[i] = s[i]
      /\ \A i \in 1..Len(<<r>>) : both[Len(s) + i] = <<r>>[i]
  BY <1>2, JoinIs
<1>4. both[Len(s) + 1] = <<r>>[1]
  <2>1. 1 \in 1..Len(<<r>>)
    BY <1>1
  <2>2. QED BY <1>3, <2>1
<1>5. QED BY <1>1, <1>2, <1>3, <1>4

\* The record of a transfer is added to those of its call.
LEMMA RecordAdded ==
  ASSUME NEW before, NEW s, IsPath(s), NEW items, DOMAIN items \subseteq Nat, NEW t, NEW k,
         IsMade(before, s, Len(s), items, t, k), NEW r, IsStep(t, r, items, k), NEW more, more = s \o <<r>>
  PROVE  IsMade(before, more, Len(more), items, Transferred(t, r), k + 1)
<1> DEFINE n == Len(s)
<1>1. Len(more) = n + 1 /\ n \in Nat /\ (\A m \in 1..n : more[m] = s[m]) /\ more[n + 1] = r
  BY JoinOne
<1>2. IsMade(before, s, n, items, t, k)
  OBVIOUS
<1> HIDE DEF n
<1>3. IsMade(before, more, n + 1, items, Transferred(t, r), k + 1)
  BY <1>1, <1>2, PastGrows
<1>4. QED BY <1>1, <1>3

\* A transfer to a free place can be undone.
LEMMA WorkIsStep ==
  ASSUME TypesInv, PlaceInv, Restorable, NEW a \in Applies, apply[a].at = "work",
         NEW k, k = apply[a].k, k \in DOMAIN Items, NEW item, item = Items[k], item.action \in Transfers,
         IsItem(item),
         NEW target, target = apply[a].choice.target, apply[a].choice.does = "act", IsPath(target),
         ~Related(item.source, target), item.source \in DOMAIN tree, target \notin DOMAIN tree,
         NEW r, r.status = IF item.action = "copy" THEN "copied" ELSE "moved",
         r.source = item.source, r.target = target
  PROVE  IsStep(tree, r, Items, k) /\ Transferred(tree, r) = Worked(item, target).tree
<1> DEFINE source == item.source
<1>1. target \in Places(item, blueprint.conflict)
  BY DEF PlaceInv
<1>2. item.target # Root /\ IsPath(item.target) /\ IsPath(source) /\ item.action # "delete" /\ source # Root
  BY PrefixReflexive DEF IsItem, Transfers, Related
<1>3. Front(target) = Front(item.target)
  BY <1>1, <1>2, PlacesNear
<1>4. Way(item) = Front(item.target)
  BY DEF Way, Transfers
<1>5. target \in Touched(item) /\ source \in Touched(item)
  <2>1. item.action # "create"
    BY DEF Transfers
  <2>2. QED BY <1>1, <1>2, <2>1, Zenon DEF Touched, Places
<1>6. IsPath(Front(source)) /\ IsPrefix(Front(source), source)
  BY <1>2, FrontIs
<1>7. ~IsDeleted(Items, target) /\ ~IsDeleted(Items, Front(source))
  BY <1>2, <1>5, <1>6, RestorableIs, PrefixReflexive
<1>8. item.action \in {"rename", "move"} => IsUntouched(Items, k, source) /\ IsUntouched(Items, k, target)
  BY <1>2, <1>5, RestorableIs DEF IsUntouched
<1>9. /\ r.status \in {"moved", "copied"}
      /\ r.status = "moved" => item.action \in {"rename", "move"}
      /\ r.status = "copied" => item.action = "copy"
  <2>1. CASE item.action = "copy"
    BY <2>1
  <2>2. CASE item.action \in {"rename", "move"}
    BY <2>2
  <2>3. QED BY <2>1, <2>2 DEF Transfers
<1>10. IsStep(tree, r, Items, k)
  BY <1>2, <1>3, <1>4, <1>7, <1>8, <1>9 DEF IsStep, IsRecord, TypesInv
<1>11. Transferred(tree, r) = Worked(item, target).tree
  <2>1. CASE item.action = "copy"
    <3>1. Worked(item, target).tree = CopyDir(tree, source, target)
      BY <2>1 DEF Worked, Transfers, IsDir
    <3>2. QED BY <2>1, <3>1 DEF Transferred
  <2>2. CASE item.action \in {"rename", "move"}
    <3>1. Worked(item, target).tree = MoveDir(tree, source, target)
      BY <2>2 DEF Worked, Transfers, IsDir
    <3>2. r.status = "moved"
      BY <2>2
    <3>3. QED BY <3>1, <3>2 DEF Transferred
  <2>3. QED BY <2>1, <2>2 DEF Transfers
<1>12. QED BY <1>10, <1>11

\* Whoever is alone, and has put every transfer at a free place, leaves records
\* of all that was done: a call has its own, and its manifest is the last one.
RememberInv ==
  solo.on /\ solo.fresh /\ Restorable =>
    /\ \A a \in Applying :
         IsMade(solo.before, apply[a].items, Len(apply[a].items), Items, tree, apply[a].k)
    /\ undo.at # "idle" => Remembers(solo.before, manifests[undo.m].items, undo.k, Items, tree)
    /\ Applying = {} /\ undo.at = "idle" =>
         /\ Len(manifests) \in DOMAIN manifests /\ ~manifests[Len(manifests)].undone
         /\ Remembers(solo.before, manifests[Len(manifests)].items, Len(manifests[Len(manifests)].items),
                      Items, tree)

\* An apply begins with no records.
LEMMA RememberBegin ==
  ASSUME TypesInv, AloneInv, [Next]_vars, NEW a \in Applies, Begin(a)
  PROVE  RememberInv'
<1> SUFFICES ASSUME solo'.on PROVE RememberInv'
  BY DEF RememberInv
<1>1. Applying = {} /\ undo.at = "idle" /\ undo' = undo /\ tree' = tree
  BY AloneBegin DEF Begin
<1>2. solo'.before = tree
  <2>1. solo' = [on |-> TRUE, before |-> tree, fresh |-> TRUE, foretold |-> Simulated]
    BY <1>1 DEF Begin
  <2>2. QED BY <2>1
<1>3. PICK stored \in BOOLEAN :
        apply' = [apply EXCEPT ![a] = [NotApplying EXCEPT !.at = "choose", !.k = 1,
                                                          !.stored = stored, !.began = tree]]
  BY DEF Begin
<1> DEFINE d == Begun(stored, tree)
<1>4. apply' = [apply EXCEPT ![a] = d]
  BY <1>3 DEF Begun
<1>5. d.at = "choose" /\ d.k = 1 /\ d.items = <<>>
  BY BegunIs
<1> HIDE DEF d
<1>6. apply'[a] = d /\ \A x \in Applies : x # a => apply'[x] = apply[x]
  BY <1>4 DEF TypesInv, AreCalls
<1>7. \A x \in Applies : x \in Applying' <=> x = a
  BY <1>1, <1>5, <1>6 DEF Applying
<1>8. IsMade(tree, <<>>, 0, Items, tree, 1)
  <2> DEFINE past == <<>>
  <2>1. IsPast(past, tree, <<>>, 0, Items)
    BY DEF IsPast
  <2>2. At(past, 0) = 0 /\ After(past, tree, <<>>, 0) = tree
    BY DEF At, After
  <2> HIDE DEF past
  <2>3. Recalls(past, tree, <<>>, 0, Items, tree) /\ At(past, 0) < 1
    BY <2>1, <2>2, ResemblesItself DEF Recalls
  <2>4. QED BY <2>3 DEF IsMade
<1>9. Items' = Items
  BY PlanStays
<1>10. \A x \in Applying' : x \in Applies /\ x = a
  BY <1>7 DEF Applying
<1>11. a \in Applying' /\ Len(<<>>) = 0
  BY <1>7, NoRecords
<1>12. \A x \in Applying' :
         IsMade(solo'.before, apply'[x].items, Len(apply'[x].items), Items', tree', apply'[x].k)
  BY <1>1, <1>2, <1>5, <1>6, <1>8, <1>9, <1>10, <1>11
<1>13. QED BY <1>1, <1>11, <1>12 DEF RememberInv

\* A look at a place changes nothing.
LEMMA RememberChoose ==
  ASSUME TypesInv, AloneInv, RememberInv, [Next]_vars, NEW a \in Applies, Choose(a)
  PROVE  RememberInv'
<1>1. UNCHANGED <<tree, manifests, undo, solo>>
  BY DEF Choose, observed
<1> DEFINE c == apply[a]
           choice == Choice(Items[c.k])
           d == Chosen(c, choice)
<1>2. apply' = [apply EXCEPT ![a] = d]
  BY DEF Choose, TypesInv, AreCalls, Chosen
<1>3. apply'[a] = d /\ \A x \in Applies : x # a => apply'[x] = apply[x]
  BY <1>2 DEF TypesInv, AreCalls
<1>4. c = [x \in Parts |-> c[x]] /\ c.at # "idle"
  BY DEF TypesInv, AreCalls, IsCall, Choose
<1>5. d.at = "work" /\ d.k = c.k /\ d.items = c.items
  <2> HIDE DEF c, choice
  <2>1. QED BY <1>4, ChosenIs
<1> HIDE DEF d, choice
<1>6. \A x \in Applies : /\ apply'[x].items = apply[x].items /\ apply'[x].k = apply[x].k
                         /\ (apply'[x].at # "idle" <=> apply[x].at # "idle")
  BY <1>3, <1>4, <1>5
<1>7. Applying' = Applying
  BY <1>6 DEF Applying
<1>8. \A x \in Applying' :
        apply'[x].items = apply[x].items /\ apply'[x].k = apply[x].k
  BY <1>6 DEF Applying
<1>9. QED BY <1>1, <1>7, <1>8, PlanStays, RestorableStays DEF RememberInv

\* An apply at work: its call, the item, what it does, what comes of it and the
\* records it has then.
IsWork(a, c, item, choice, done, items) ==
  /\ c = apply[a] /\ item = Items[c.k] /\ choice = c.choice
  /\ done = IF choice.does = "act" THEN Worked(item, choice.target)
            ELSE [tree |-> tree, ok |-> choice.does = "done"]
  /\ items = c.items \o (IF done.ok THEN Recorded(item, choice.target) ELSE <<>>)

\* What an apply at work starts from.
LEMMA WorkStarts ==
  ASSUME TypesInv, NEW a \in Applies, Work(a), NEW c, NEW item, NEW choice, NEW done, NEW items,
         IsWork(a, c, item, choice, done, items)
  PROVE  /\ c.k \in DOMAIN Items /\ IsItem(item) /\ IsChoice(choice, item) /\ IsTree(tree)
         /\ c.at = "work" /\ c.k \in Nat \ {0} /\ c.k - 1 \in Nat
         /\ IsPath(c.items) /\ Len(c.items) \in Nat /\ IsPath(choice.target)
         /\ choice.does \in {"act", "done"} =>
              (item.action \in Transfers => ~Related(item.source, choice.target))
         /\ tree' = done.tree
         /\ choice.does # "act" => tree' = tree
<1>1. c = apply[a] /\ item = Items[apply[a].k] /\ choice = apply[a].choice
  BY DEF IsWork
<1>2. done = IF choice.does = "act" THEN Worked(item, choice.target)
             ELSE [tree |-> tree, ok |-> choice.does = "done"]
  BY DEF IsWork
<1>3. /\ c.k \in DOMAIN Items /\ IsItem(item) /\ IsChoice(choice, item)
      /\ IsCall(c, blueprint) /\ c.at = "work"
      /\ choice.does \in {"act", "done"} =>
           (item.action \in Transfers => ~Related(item.source, choice.target))
      /\ tree' = done.tree
      /\ choice.does # "act" => tree' = tree
  BY <1>1, <1>2, WorkKnows
<1>4. c.k \in Nat \ {0} /\ AreRecords(c.items)
  BY <1>3 DEF IsCall
<1>5. IsPath(c.items) /\ Len(c.items) \in Nat
  BY <1>4, PathIs DEF AreRecords
<1>6. IsPath(choice.target) /\ IsTree(tree)
  BY <1>3 DEF IsChoice, TypesInv
<1>7. c.k - 1 \in Nat
  <2> DEFINE k == c.k
  <2>1. k \in Nat \ {0}
    BY <1>4
  <2> HIDE DEF k
  <2>2. k - 1 \in Nat
    BY <2>1
  <2>3. QED BY <2>2 DEF k
<1>8. QED BY <1>3, <1>4, <1>5, <1>6, <1>7

\* The record of a transfer.
RecordOf(item, target) ==
  [status |-> IF item.action = "copy" THEN "copied" ELSE "moved", source |-> item.source, target |-> target]

\* A transfer to a free place makes what its record says.
LEMMA WorkTransfers ==
  ASSUME TypesInv, PlaceInv, Restorable, NEW a \in Applies, Work(a),
         NEW c, NEW item, NEW choice, NEW done, NEW items, IsWork(a, c, item, choice, done, items),
         item.action \in Transfers, done.ok, choice.does = "act", choice.target \notin DOMAIN tree
  PROVE  /\ IsStep(tree, RecordOf(item, choice.target), Items, c.k)
         /\ tree' = Transferred(tree, RecordOf(item, choice.target))
<1> DEFINE target == choice.target
           r == RecordOf(item, target)
<1>1. /\ c.k \in DOMAIN Items /\ IsItem(item) /\ c.at = "work" /\ IsPath(target) /\ tree' = done.tree
      /\ ~Related(item.source, target)
  BY WorkStarts
<1>2. done = Worked(item, target) /\ c = apply[a] /\ item = Items[c.k] /\ choice = c.choice
  BY DEF IsWork
<1>3. item.source \in DOMAIN tree
  <2>1. SUFFICES ASSUME ~IsDir(tree, item.source) PROVE ~Worked(item, target).ok
    BY <1>2 DEF IsDir
  <2>2. QED BY <2>1 DEF Worked, Transfers
<1>4. /\ r.status = IF item.action = "copy" THEN "copied" ELSE "moved"
      /\ r.source = item.source /\ r.target = target
  BY DEF RecordOf
<1> HIDE DEF r
<1>5. apply[a].at = "work" /\ target = apply[a].choice.target /\ apply[a].choice.does = "act"
  BY <1>1, <1>2
<1> HIDE DEF target
<1>6. IsStep(tree, r, Items, c.k) /\ Transferred(tree, r) = Worked(item, target).tree
  <2> DEFINE k == c.k
  <2>1. k = apply[a].k /\ k \in DOMAIN Items /\ item = Items[k] /\ target \notin DOMAIN tree
    BY <1>1, <1>2 DEF target
  <2> HIDE DEF k
  <2>2. IsStep(tree, r, Items, k) /\ Transferred(tree, r) = Worked(item, target).tree
    BY <1>1, <1>3, <1>4, <1>5, <2>1, WorkIsStep
  <2>3. QED BY <2>2 DEF k
<1>7. QED BY <1>1, <1>2, <1>6 DEF r, target

\* What is not a transfer is not recorded, and leaves the places alone that the
\* items before it are about.
LEMMA WorkPrepares ==
  ASSUME TypesInv, NEW a \in Applies, Work(a),
         NEW c, NEW item, NEW choice, NEW done, NEW items, IsWork(a, c, item, choice, done, items),
         item.action \notin Transfers
  PROVE  items = c.items /\ Resembles(tree', tree, Items, c.k - 1)
<1> DEFINE target == choice.target
           k == c.k
<1>1. /\ k \in DOMAIN Items /\ k \in Nat /\ IsItem(item) /\ IsChoice(choice, item) /\ IsTree(tree)
      /\ IsPath(c.items) /\ tree' = done.tree /\ (choice.does # "act" => tree' = tree)
  BY WorkStarts
<1>2. item = Items[k] /\ (choice.does = "act" => done = Worked(item, target))
  BY DEF IsWork
<1>3. items = c.items
  <2>1. Recorded(item, target) = <<>>
    BY DEF Recorded
  <2>2. items = c.items \o <<>>
    BY <2>1 DEF IsWork
  <2>3. QED BY <1>1, <2>2, JoinNothing
<1> HIDE DEF k, target
<1>4. Resembles(tree', tree, Items, k - 1)
  <2>1. CASE choice.does # "act"
    BY <1>1, <2>1, ResemblesItself
  <2>2. CASE choice.does = "act" /\ item.action = "create"
    <3>1. target = item.target
      BY <1>1, <2>2, ChoicesAre DEF IsChoice, target
    <3>2. Worked(item, item.target).tree = CreateDirAll(tree, item.target)
      BY <2>2 DEF Worked
    <3>3. tree' = CreateDirAll(tree, Items[k].target) /\ Items[k].action = "create"
      BY <1>1, <1>2, <2>2, <3>1, <3>2
    <3>4. IsPath(Items[k].target)
      BY <1>1, <1>2 DEF IsItem
    <3>5. QED BY <1>1, <3>3, <3>4, ResemblesCreated
  <2>3. CASE choice.does = "act" /\ item.action = "delete"
    <3>1. target = item.source
      BY <1>1, <2>3, ChoicesAre DEF IsChoice, target
    <3>2. Worked(item, item.source).tree \in {RemoveDirAll(tree, item.source), tree}
      BY <2>3 DEF Worked
    <3>3. tree' \in {RemoveDirAll(tree, Items[k].source), tree} /\ Items[k].action = "delete"
      BY <1>1, <1>2, <2>3, <3>1, <3>2
    <3>4. IsPath(Items[k].source)
      BY <1>1, <1>2 DEF IsItem
    <3>5. QED BY <1>1, <3>3, <3>4, ResemblesDeleted, ResemblesItself
  <2>4. QED BY <1>1, <2>1, <2>2, <2>3 DEF IsItem, Actions, Transfers
<1>5. QED BY <1>3, <1>4 DEF k

\* An item makes what is in its record, or no more than folders on its way.
LEMMA WorkRemembers ==
  ASSUME TypesInv, PlaceInv, Restorable, NEW a \in Applies, Work(a), NEW before,
         NEW c, NEW item, NEW choice, NEW done, NEW items, IsWork(a, c, item, choice, done, items),
         item.action \in Transfers => done.ok /\ choice.does = "act" /\ choice.target \notin DOMAIN tree,
         IsMade(before, c.items, Len(c.items), Items, tree, c.k)
  PROVE  IsMade(before, items, Len(items), Items, tree', c.k + 1)
<1> DEFINE k == c.k
           s == c.items
           n == Len(s)
<1>1. k \in Nat \ {0} /\ k - 1 \in Nat /\ k \in DOMAIN Items /\ IsPath(s) /\ n \in Nat /\ IsTree(tree)
  BY WorkStarts
<1>2. DOMAIN Items \subseteq Nat
  BY ItemsAre
<1>3. IsMade(before, s, n, Items, tree, k)
  OBVIOUS
<1>4. CASE item.action \in Transfers
  <2> DEFINE r == RecordOf(item, choice.target)
  <2>1. IsStep(tree, r, Items, k) /\ tree' = Transferred(tree, r) /\ items = s \o <<r>>
    <3>1. done.ok /\ choice.does = "act" /\ choice.target \notin DOMAIN tree
      BY <1>4
    <3>2. IsStep(tree, r, Items, k) /\ tree' = Transferred(tree, r)
      BY <1>4, <3>1, WorkTransfers
    <3>3. Recorded(item, choice.target) = <<r>>
      BY <1>4 DEF Recorded, RecordOf
    <3> HIDE DEF r
    <3>4. items = s \o Recorded(item, choice.target)
      BY <3>1 DEF IsWork
    <3>5. QED BY <3>2, <3>3, <3>4
  <2> HIDE DEF k, s, r
  <2>2. IsMade(before, s, Len(s), Items, tree, k)
    BY <1>3
  <2> HIDE DEF n
  <2>3. IsMade(before, items, Len(items), Items, Transferred(tree, r), k + 1)
    BY <1>1, <1>2, <2>1, <2>2, RecordAdded
  <2>4. QED BY <2>1, <2>3 DEF k
<1>5. CASE item.action \notin Transfers
  <2>1. items = s /\ Resembles(tree', tree, Items, k - 1)
    BY <1>5, WorkPrepares
  <2> HIDE DEF k, s, n
  <2>2. IsMade(before, s, n, Items, tree', k + 1)
    BY <1>1, <1>2, <1>3, <2>1, PastGoesOn
  <2>3. QED BY <2>1, <2>2 DEF k, s, n
<1>6. QED BY <1>4, <1>5

\* An apply that goes on remembers the item.
LEMMA RememberWork ==
  ASSUME TypesInv, AloneInv, PlaceInv, RememberInv, [Next]_vars, NEW a \in Applies, Work(a)
  PROVE  RememberInv'
<1> SUFFICES ASSUME solo'.on, solo'.fresh, Restorable PROVE RememberInv'
  BY RestorableStays DEF RememberInv
<1> DEFINE c == apply[a]
           item == Items[c.k]
           choice == c.choice
           target == choice.target
           done == IF choice.does = "act" THEN Worked(item, target)
                   ELSE [tree |-> tree, ok |-> choice.does = "done"]
           items == c.items \o (IF done.ok THEN Recorded(item, target) ELSE <<>>)
           d == Gone(c, items)
           fresh == item.action \in Transfers => done.ok /\ choice.does = "act" /\ ~IsDir(tree, target)
<1>1. /\ solo.on /\ solo'.before = solo.before /\ Applying = {a} /\ a \in Applying
      /\ undo' = undo /\ undo.at = "idle"
  <2>1. solo.on /\ solo'.before = solo.before /\ Applying = {a}
    BY AloneCall
  <2>2. undo' = undo
    BY DEF Work
  <2>3. QED BY <2>1, <2>2 DEF AloneInv, TypesInv, IsUndo
<1>2. /\ apply' = [apply EXCEPT ![a].at = "choose", ![a].k = @ + 1, ![a].choice = Skip, ![a].items = items]
      /\ solo' = [solo EXCEPT !.fresh = @ /\ fresh]
  <2>1. \/ /\ apply' = [apply EXCEPT ![a].at = "choose", ![a].k = @ + 1, ![a].choice = Skip, ![a].items = items]
           /\ solo' = [solo EXCEPT !.fresh = @ /\ fresh]
        \/ solo' = NotSolo
    BY Zenon DEF Work
  <2>2. QED BY <2>1, NotSoloIs
<1>3. fresh \in BOOLEAN
  OBVIOUS
<1>4. solo.fresh /\ fresh
  <2> HIDE DEF fresh
  <2>1. QED BY <1>2, <1>3, FreshIs DEF AloneInv
<1>5. item.action \in Transfers => done.ok /\ choice.does = "act" /\ target \notin DOMAIN tree
  BY <1>4, Zenon DEF IsDir
<1> HIDE DEF fresh
<1>6. IsMade(solo.before, c.items, Len(c.items), Items, tree, c.k)
  BY <1>1, <1>4 DEF RememberInv
<1>7. IsMade(solo.before, items, Len(items), Items, tree', c.k + 1)
  <2> DEFINE before == solo.before
  <2> HIDE DEF before
  <2>1. IsMade(before, c.items, Len(c.items), Items, tree, c.k)
    BY <1>6 DEF before
  <2> HIDE DEF item, choice, c, done, items
  <2>2. IsWork(a, c, item, choice, done, items)
    BY DEF IsWork, item, choice, c, done, items
  <2>3. IsMade(before, items, Len(items), Items, tree', c.k + 1)
    BY <1>5, <2>1, <2>2, WorkRemembers
  <2>4. QED BY <2>3 DEF before
<1>8. c = [x \in Parts |-> c[x]]
  BY DEF TypesInv, AreCalls, IsCall
<1> HIDE DEF items
<1>9. apply'[a] = d /\ \A x \in Applies : x # a => apply'[x] = apply[x]
  BY <1>2 DEF TypesInv, AreCalls, Gone
<1>10. d.at = "choose" /\ d.k = c.k + 1 /\ d.items = items
  <2> HIDE DEF c
  <2>1. QED BY <1>8, GoneIs
<1> HIDE DEF d
<1>11. \A x \in Applies : x \in Applying' <=> x = a
  BY <1>1, <1>9, <1>10 DEF Applying
<1>12. a \in Applying' /\ \A x \in Applying' : x = a
  BY <1>11 DEF Applying
<1>13. \A x \in Applying' :
         IsMade(solo'.before, apply'[x].items, Len(apply'[x].items), Items, tree', apply'[x].k)
  BY <1>1, <1>7, <1>9, <1>10, <1>12
<1>14. Items' = Items
  BY PlanStays
<1>15. QED BY <1>1, <1>12, <1>13, <1>14 DEF RememberInv

\* A manifest holds the records of its call.
LEMMA RememberEnd ==
  ASSUME TypesInv, AloneInv, RememberInv, [Next]_vars, NEW a \in Applies, End(a)
  PROVE  RememberInv'
<1> SUFFICES ASSUME solo'.on, solo'.fresh, Restorable PROVE RememberInv'
  BY RestorableStays DEF RememberInv
<1> DEFINE s == apply[a].items
           m == [items |-> s, undone |-> FALSE]
           saves == apply[a].stored /\ s # <<>>
<1>1. /\ solo.on /\ Applying = {a} /\ a \in Applying /\ tree' = tree /\ undo' = undo /\ undo.at = "idle"
      /\ Applying' = {}
  <2>1. solo.on /\ Applying = {a}
    BY AloneCall
  <2>2. undo' = undo /\ tree' = tree
    BY DEF End
  <2>3. apply'[a].at = "idle" /\ \A x \in Applies : x # a => apply'[x] = apply[x]
    BY ReturnedIs DEF End, TypesInv, AreCalls
  <2>4. QED BY <2>1, <2>2, <2>3 DEF AloneInv, TypesInv, IsUndo, Applying
<1>2. /\ manifests' = IF saves THEN Append(manifests, m) ELSE manifests
      /\ solo' = IF saves THEN solo ELSE NotSolo
  BY DEF End
<1>3. manifests' = Append(manifests, m) /\ solo' = solo
  BY <1>2, NotSoloIs
<1>4. IsPath(manifests) /\ m.items = s /\ m.undone = FALSE
  BY DEF TypesInv, AreManifests
<1> DEFINE more == Append(manifests, m)
<1> HIDE DEF m
<1>5. Len(more) \in DOMAIN more /\ more[Len(more)] = m
  <2>1. /\ IsPath(more) /\ Len(more) = Len(manifests) + 1 /\ more[Len(manifests) + 1] = m
        /\ Len(manifests) \in Nat
    BY <1>4, AppendIs, PathIs
  <2> HIDE DEF more
  <2>2. DOMAIN more = 1..Len(more)
    BY <2>1, PathIs
  <2>3. QED BY <2>1, <2>2
<1>6. Remembers(solo.before, s, Len(s), Items, tree)
  <2>1. IsMade(solo.before, s, Len(s), Items, tree, apply[a].k)
    BY <1>1, <1>3 DEF RememberInv
  <2>2. QED BY <2>1 DEF IsMade, Remembers
<1> HIDE DEF more, s
<1>7. manifests' = more
  BY <1>3 DEF more
<1>8. Items' = Items
  BY PlanStays
<1>9. QED BY <1>1, <1>3, <1>4, <1>5, <1>6, <1>7, <1>8 DEF RememberInv

\* An undo starts with the manifest of the last apply.
LEMMA RememberUndoStart ==
  ASSUME TypesInv, AloneInv, RememberInv, [Next]_vars, UndoStart
  PROVE  RememberInv'
<1> SUFFICES ASSUME solo'.on, solo'.fresh, Restorable PROVE RememberInv'
  BY RestorableStays DEF RememberInv
<1>1. /\ Applying = {} /\ solo' = solo /\ undo.at = "idle" /\ apply' = apply
      /\ tree' = tree /\ manifests' = manifests
  BY NotSoloIs DEF UndoStart
<1> DEFINE n == Len(manifests)
           m == CHOOSE m \in Undoable : \A o \in Undoable : o <= m
           s == manifests[n].items
<1>2. n \in DOMAIN manifests /\ ~manifests[n].undone /\ Remembers(solo.before, s, Len(s), Items, tree)
  BY <1>1 DEF RememberInv
<1>3. m = n
  <2>1. n \in Undoable
    BY <1>2 DEF Undoable
  <2>2. DOMAIN manifests = 1..n /\ n \in Nat
    BY PathIs DEF TypesInv, AreManifests
  <2>3. \A o \in Undoable : o \in 1..n
    BY <2>2 DEF Undoable
  <2> HIDE DEF n
  <2>4. \A o \in Undoable : o <= n
    BY <2>2, <2>3
  <2>5. m \in Undoable /\ \A o \in Undoable : o <= m
    BY <2>1, <2>4
  <2> HIDE DEF m
  <2>6. m \in 1..n /\ n <= m
    BY <2>1, <2>3, <2>5
  <2>7. QED BY <2>2, <2>6
<1>4. undo' = [at |-> "item", m |-> m, k |-> Len(manifests[m].items)]
  BY DEF UndoStart
<1> HIDE DEF m, n
<1>5. undo'.at = "item" /\ undo'.m = n /\ undo'.k = Len(manifests[n].items)
  BY <1>3, <1>4
<1>6. Applying' = {} /\ Items' = Items
  BY <1>1, PlanStays DEF Applying
<1>7. QED BY <1>1, <1>2, <1>5, <1>6 DEF RememberInv

\* An undo takes back the last record that is left.
LEMMA RememberUndoItem ==
  ASSUME TypesInv, AloneInv, RememberInv, [Next]_vars, UndoItem
  PROVE  RememberInv'
<1> SUFFICES ASSUME solo'.on, solo'.fresh, Restorable PROVE RememberInv'
  BY RestorableStays DEF RememberInv
<1> DEFINE s == manifests[undo.m].items
           k == undo.k
           r == s[k]
           revert == /\ IsDir(tree, r.target)
                     /\ r.status = "moved" => ~IsDir(tree, r.source) /\ IsDir(tree, Front(r.source))
           back == IF r.status = "moved" THEN MoveDir(tree, r.target, r.source) ELSE RemoveDirAll(tree, r.target)
<1>1. /\ solo' = solo /\ apply' = apply /\ manifests' = manifests
      /\ undo.at = "item" /\ k > 0 /\ undo' = [undo EXCEPT !.k = @ - 1]
      /\ tree' = IF ~revert THEN tree
                 ELSE IF r.status = "moved" THEN MoveDir(tree, r.target, r.source)
                 ELSE RemoveDirAll(tree, r.target)
  BY DEF UndoItem
<1>2. k \in Nat \ {0}
  <2>1. k \in Nat
    BY <1>1, UndoKnows
  <2> HIDE DEF k
  <2>2. QED BY <1>1, <2>1
<1>3. Remembers(solo.before, s, k, Items, tree)
  BY <1>1 DEF RememberInv
<1>4. DOMAIN Items \subseteq Nat /\ IsTree(tree)
  BY ItemsAre DEF TypesInv
<1> DEFINE before == solo.before
<1>5. /\ r.target \in DOMAIN tree
      /\ r.status = "moved" => r.source \notin DOMAIN tree /\ Front(r.source) \in DOMAIN tree
      /\ Remembers(before, s, k - 1, Items, back)
  <2>1. Remembers(before, s, k, Items, tree) /\ r = s[k]
    BY <1>3
  <2> HIDE DEF before, s, k, r
  <2>2. QED BY <1>2, <1>4, <2>1, PastShrinks
<1>6. revert
  BY <1>5 DEF IsDir
<1>7. tree' = back
  <2> HIDE DEF revert, r
  <2>1. QED BY <1>1, <1>6
<1>8. undo'.at = "item" /\ undo'.m = undo.m /\ undo'.k = k - 1
  <2> DEFINE u == undo
  <2>1. u = [at |-> u.at, m |-> u.m, k |-> u.k] /\ undo' = [u EXCEPT !.k = @ - 1] /\ u.at = "item"
    BY <1>1 DEF TypesInv, IsUndo
  <2> HIDE DEF u
  <2>2. undo'.at = "item" /\ undo'.m = u.m /\ undo'.k = u.k - 1
    BY <2>1
  <2>3. QED BY <2>2 DEF u
<1>9. Applying' = {} /\ Items' = Items
  BY <1>1, PlanStays DEF AloneInv, Applying
<1> HIDE DEF back, k
<1>10. QED BY <1>1, <1>5, <1>7, <1>8, <1>9 DEF RememberInv

\* Anything else ends it, or changes nothing.
LEMMA RememberElse ==
  ASSUME TypesInv, AloneInv, RememberInv, [Next]_vars, UndoMark \/ UserStep \/ Crash \/ UNCHANGED vars
  PROVE  RememberInv'
<1>1. CASE UNCHANGED vars
  <2>1. UNCHANGED <<tree, undo, manifests, solo, apply>>
    BY <1>1 DEF vars, observed
  <2>2. Applying' = Applying
    BY <2>1 DEF Applying
  <2>3. QED BY <2>1, <2>2, PlanStays, RestorableStays DEF RememberInv
<1>2. CASE UndoMark \/ UserStep \/ Crash
  <2>1. solo' = NotSolo
    BY <1>2 DEF UndoMark, UserStep, UserRemoves, UserDrops, UserActs, Crash
  <2>2. QED BY <2>1, NotSoloIs DEF RememberInv
<1>3. QED BY <1>1, <1>2

\* Every step leaves it so.
LEMMA RememberNext == TypesInv /\ AloneInv /\ PlaceInv /\ RememberInv /\ [Next]_vars => RememberInv'
<1> SUFFICES ASSUME TypesInv, AloneInv, PlaceInv, RememberInv, [Next]_vars PROVE RememberInv'
  OBVIOUS
<1>1. ASSUME NEW a \in Applies, ApplyStep(a) PROVE RememberInv'
  BY <1>1, RememberBegin, RememberChoose, RememberWork, RememberEnd DEF ApplyStep
<1>2. CASE UndoStep
  BY <1>2, RememberUndoStart, RememberUndoItem, RememberElse DEF UndoStep
<1>3. CASE UserStep \/ Crash \/ UNCHANGED vars
  BY <1>3, RememberElse
<1>4. QED BY <1>1, <1>2, <1>3 DEF Next

\* What is remembered suffices for the undo to restore the tree.
LEMMA RememberSuffices == RememberInv => UndoRestores
<1> SUFFICES ASSUME RememberInv, undo.at = "item", undo.k = 0, solo.on, solo.fresh, Restorable
             PROVE  /\ \A p \in DOMAIN solo.before :
                         \/ \E k \in DOMAIN Items : Items[k].action = "delete" /\ IsPrefix(Items[k].source, p)
                         \/ IsDir(tree, p) /\ tree[p] = solo.before[p]
                    /\ \A p \in DOMAIN tree \ DOMAIN solo.before : tree[p] = {}
  BY DEF UndoRestores
<1>1. Remembers(solo.before, manifests[undo.m].items, 0, Items, tree)
  BY DEF RememberInv
<1>2. QED BY <1>1, AllUndone DEF IsDeleted, IsDir

\* An undo brings back the tree from before the apply, for every blueprint that
\* can be restored and for every root: moves into each other's place are undone
\* last to first, whatever else other applies, users and crashes have done
\* before the apply.
THEOREM UndoBringsBack == Spec => []UndoRestores
<1>1. Init => AloneInv /\ AheadInv /\ PlaceInv /\ RememberInv
  <2>1. Init => \A a \in Applies : apply[a].at # "work"
    BY DEF Init, NotApplying
  <2>2. QED BY <2>1, NotSoloIs DEF Init, AloneInv, AheadInv, PlaceInv, RememberInv
<1>2. TypesInv /\ AloneInv /\ AheadInv /\ PlaceInv /\ RememberInv /\ [Next]_vars
        => (AloneInv /\ AheadInv /\ PlaceInv /\ RememberInv)'
  BY AheadNext, PlaceNext, RememberNext
<1>3. QED BY WellFormed, RememberSuffices, <1>1, <1>2, PTL DEF Spec

=============================================================================
