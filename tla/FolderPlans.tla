---------------------------- MODULE FolderPlans -----------------------------
(***************************************************************************)
(* Folder blueprints: the plan of folder actions that apply_blueprint...   *)
(* carries out below a root, and its undo (autoflow-application/src/       *)
(* blueprints.rs and rollback.rs).                                         *)
(*                                                                         *)
(* Nothing holds the root still: the user works in it, and a second apply  *)
(* (by hand, or by a watch event) may run at the same time.  So a plan is  *)
(* checked in one step, and each of its items looks for its target in one  *)
(* step and works in another.                                              *)
(*                                                                         *)
(* The root is a tree of folders with files in them.  Files are told apart *)
(* by their content and never meet in name.  A name is a sequence, and     *)
(* "x (2) (1)" is the name of x with 2 and 1 appended.  Templates and      *)
(* variables are evaluated before: the nodes of a plan are literal paths.  *)
(***************************************************************************)
EXTENDS Folders

CONSTANTS
  Files,        \* contents
  Blueprints,   \* the blueprints considered, see Blueprint
  Trees,        \* the trees considered to begin with
  Applies,      \* calls of apply_blueprint
  MaxSuffix,    \* resolve_conflict's 999
  UserFolders,  \* folders that the user works in
  MaxUser,      \* bound: steps of the user
  MaxFaults     \* bound: audit and store failures, and crashes

Actions    == {"create", "rename", "move", "copy", "delete"}
Strategies == {"skip", "overwrite", "rename"}
Transfers  == {"rename", "move", "copy"}

ASSUME MaxSuffixAssumption == MaxSuffix \in Nat \ {0}
ASSUME TreesAssumption ==
  \A t \in Trees :
    /\ t \in [DOMAIN t -> SUBSET Files]
    /\ \A p \in DOMAIN t : IsPath(p) /\ Prefixed(p) \subseteq DOMAIN t
ASSUME BoundsAssumption == MaxUser \in Nat /\ MaxFaults \in Nat

VARIABLES
  blueprint,    \* conflict, confirmed and nodes, in preorder; it does not change
  tree,         \* the files of each folder
  apply,        \* the calls of apply_blueprint
  manifests,    \* the rollback store
  undo,         \* the call of rollback_blueprint
  users, faults,
  (*************************************************************************)
  (* Observed by the properties.                                           *)
  (*************************************************************************)
  kept,         \* files that were put into the root and that nobody asked to delete
  solo,         \* the last apply, if nobody else has changed the tree since it began
  settled       \* the tree that the last apply left, <<>> once anything else happens

observed == <<kept, solo, settled>>
vars == <<blueprint, tree, apply, manifests, undo, users, faults, observed>>

-----------------------------------------------------------------------------
(***************************************************************************)
(* Folders.                                                                *)
(***************************************************************************)

Related(p, q) == IsPrefix(p, q) \/ IsPrefix(q, p)

Content(t, p) == UNION {t[q] : q \in Below(t, p)}

OnlyIn(t, p) == Content(t, p) \ UNION {t[q] : q \in DOMAIN t \ Below(t, p)}

HasEntries(t, p) == Below(t, p) # {p} \/ t[p] # {}

CreateDirAll(t, p) ==
  [q \in DOMAIN t \cup Prefixed(p) |-> IF IsDir(t, q) THEN t[q] ELSE {}]

\* copy_dir_recursive: what source contains is added to what target contains.
CopyDir(t, source, target) ==
  LET made  == DOMAIN t \cup Prefixed(target) \cup {Rebased(source, target, q) : q \in Below(t, source)}
      to(p) == {q \in Below(t, source) : Rebased(source, target, q) = p}
  IN  [p \in made |-> (IF IsDir(t, p) THEN t[p] ELSE {}) \cup UNION {t[q] : q \in to(p)}]

\* fs::rename, or copy and remove where the target is a folder with content.
MoveDir(t, source, target) ==
  RemoveDirAll(CopyDir(t, source, target), source)

Suffixed(p, n) == Front(p) \o <<Append(Last(p), n)>>

-----------------------------------------------------------------------------
(***************************************************************************)
(* The plan.                                                               *)
(***************************************************************************)

\* Paths are relative to the target of the parent node, nodes[parent].
Node(action, parent, source, target) ==
  [action |-> action, parent |-> parent, source |-> source, target |-> target]

Blueprint(conflict, confirmed, nodes) ==
  [conflict |-> conflict, confirmed |-> confirmed, nodes |-> nodes]

\* The target of each node, and the root for 0.
Base(nodes) ==
  LET base[n \in 0..Len(nodes)] ==
        IF n = 0 THEN Root ELSE base[nodes[n].parent] \o nodes[n].target
  IN  base

\* collect_folder_action_nodes: a delete has no target, and its children are ignored.
Plan(nodes) ==
  LET ignored[n \in 0..Len(nodes)] ==
        n # 0 /\ LET parent == nodes[n].parent
                 IN  ignored[parent] \/ (parent # 0 /\ nodes[parent].action = "delete")
      item(n) == [action |-> nodes[n].action,
                  source |-> Base(nodes)[nodes[n].parent] \o nodes[n].source,
                  target |-> Base(nodes)[n]]
      taken == {n \in 1..Len(nodes) : ~ignored[n]}
  IN  [k \in 1..Cardinality(taken) |-> item(CHOOSE n \in taken : Cardinality(taken \cap 1..n) = k)]

Items == Plan(blueprint.nodes)

\* No folder is moved or copied into itself or onto its own parent: nothing in
\* the code forbids it, but copy_dir_recursive then reads what it writes.
ASSUME BlueprintsAssumption ==
  \A b \in Blueprints :
    /\ b.conflict \in Strategies /\ b.confirmed \in BOOLEAN
    /\ b.nodes \in Seq(Range(b.nodes))
    /\ \A n \in DOMAIN b.nodes :
         /\ b.nodes[n].action \in Actions /\ b.nodes[n].parent \in 0..(n - 1)
         /\ IsPath(b.nodes[n].source) /\ IsPath(b.nodes[n].target)
    /\ \A k \in DOMAIN Plan(b.nodes) :
         LET item == Plan(b.nodes)[k]
         IN  item.action \in Transfers => ~Related(item.source, item.target)

Preflight_BrokenDeletesAnything ==
  \A k \in DOMAIN Items :
    LET item == Items[k]
    IN  /\ item.action \in Transfers => IsDir(tree, item.source) \/ IsDir(tree, item.target)
        /\ item.action = "delete" => item.source # Root /\ IsDir(tree, item.source)

\* preflight_folder_action_plan.
Preflight ==
  \A k \in DOMAIN Items :
    LET item == Items[k]
    IN  /\ item.action \in Transfers => IsDir(tree, item.source) \/ IsDir(tree, item.target)
        /\ item.action = "delete" =>
             /\ item.source # Root /\ IsDir(tree, item.source)
             /\ HasEntries(tree, item.source) => blueprint.confirmed

Simulated_BrokenIgnoresCopies ==
  \A k \in DOMAIN Items : Items[k].action \in {"rename", "move"} => ~IsDir(tree, Items[k].target)

\* folder_action_simulation_report counts no transfer as a collision or as
\* skipped.
Simulated == \A k \in DOMAIN Items : Items[k].action \in Transfers => ~IsDir(tree, Items[k].target)

-----------------------------------------------------------------------------
Skip == [does |-> "skip", target |-> Root]
Fail == [does |-> "fail", target |-> Root]
Act(target)  == [does |-> "act", target |-> target]
Done(target) == [does |-> "done", target |-> target]

NotApplying == [at |-> "idle", k |-> 0, choice |-> Skip, items |-> <<>>, stored |-> FALSE,
                began |-> <<>>]
NotUndoing  == [at |-> "idle", m |-> 0, k |-> 0]
NotSolo     == [on |-> FALSE, before |-> <<>>, fresh |-> FALSE, foretold |-> FALSE]

Init ==
  /\ blueprint \in Blueprints
  /\ tree \in Trees
  /\ apply = [a \in Applies |-> NotApplying]
  /\ manifests = <<>>
  /\ undo = NotUndoing
  /\ users = 0 /\ faults = 0
  /\ kept = Content(tree, Root)
  /\ solo = NotSolo /\ settled = <<>>

Applying == {a \in Applies : apply[a].at # "idle"}

\* A call that has returned, or died, is not made again.
Returned(a) == [NotApplying EXCEPT !.began = apply[a].began]

-----------------------------------------------------------------------------
(***************************************************************************)
(* apply_blueprint_with_variables_with_rollback for a folder blueprint.    *)
(* A call by hand has a rollback store, a watch event has none.            *)
(***************************************************************************)

Begin(a) ==
  /\ apply[a].at = "idle" /\ apply[a].began = <<>>
  /\ Preflight
  /\ \E stored \in BOOLEAN :
       apply' = [apply EXCEPT ![a] = [NotApplying EXCEPT !.at = "choose", !.k = 1,
                                                         !.stored = stored, !.began = tree]]
  /\ IF Applying = {} /\ undo.at = "idle"
     THEN /\ solo' = [on |-> TRUE, before |-> tree, fresh |-> TRUE, foretold |-> Simulated]
          /\ UNCHANGED settled
     ELSE solo' = NotSolo /\ settled' = <<>>
  /\ UNCHANGED <<blueprint, tree, manifests, undo, users, faults, kept>>

ResolveConflict_BrokenAlwaysRenames(target) ==
  LET free == {n \in 1..MaxSuffix : ~IsDir(tree, Suffixed(target, n))}
  IN  IF ~IsDir(tree, target) THEN Act(target)
      ELSE IF blueprint.conflict = "skip" THEN Skip
      ELSE IF free = {} THEN Fail
      ELSE Act(Suffixed(target, CHOOSE n \in free : \A m \in free : n <= m))

ResolveConflict(target) ==
  LET free == {n \in 1..MaxSuffix : ~IsDir(tree, Suffixed(target, n))}
  IN  IF ~IsDir(tree, target) \/ blueprint.conflict = "overwrite" THEN Act(target)
      ELSE IF blueprint.conflict = "skip" THEN Skip
      ELSE IF free = {} THEN Fail
      ELSE Act(Suffixed(target, CHOOSE n \in free : \A m \in free : n <= m))

\* What execute_folder_action_item finds before it changes anything.
Choice(item) ==
  CASE item.action = "delete" -> Act(item.source)
    [] item.action = "create" /\ IsDir(tree, item.target) ->
         IF blueprint.conflict = "skip" THEN Skip ELSE Done(item.target)
    [] item.action = "create" /\ ~IsDir(tree, item.target) -> Act(item.target)
    [] item.action \in Transfers /\ ~IsDir(tree, item.source) ->
         IF IsDir(tree, item.target) THEN Done(item.target) ELSE Fail
    [] item.action \in Transfers /\ IsDir(tree, item.source) -> ResolveConflict(item.target)

Choose(a) ==
  /\ apply[a].at = "choose" /\ apply[a].k <= Len(Items)
  /\ apply' = [apply EXCEPT ![a].at = "work", ![a].choice = Choice(Items[apply[a].k])]
  /\ UNCHANGED <<blueprint, tree, manifests, undo, users, faults, observed>>

\* What the item makes of the tree, and whether it succeeds: its folder may be
\* gone by now, and then copy_dir_recursive has created the target.
Worked(item, target) ==
  CASE item.action = "create" -> [tree |-> CreateDirAll(tree, target), ok |-> TRUE]
    [] item.action = "delete" /\ IsDir(tree, target) ->
         [tree |-> RemoveDirAll(tree, target), ok |-> TRUE]
    [] item.action = "delete" /\ ~IsDir(tree, target) -> [tree |-> tree, ok |-> FALSE]
    [] item.action \in Transfers /\ ~IsDir(tree, item.source) ->
         [tree |-> CreateDirAll(tree, target), ok |-> FALSE]
    [] item.action \in {"rename", "move"} /\ IsDir(tree, item.source) ->
         [tree |-> MoveDir(tree, item.source, target), ok |-> TRUE]
    [] item.action = "copy" /\ IsDir(tree, item.source) ->
         [tree |-> CopyDir(tree, item.source, target), ok |-> TRUE]

\* The rollback items: transfers that succeed, those that found the work done
\* included.
Recorded(item, target) ==
  IF item.action \in Transfers
  THEN <<[status |-> IF item.action = "copy" THEN "copied" ELSE "moved",
          source |-> item.source, target |-> target]>>
  ELSE <<>>

\* The item, and the audit entry: if the latter fails the call returns the
\* error, and what has been done stays done.
Work(a) ==
  LET item == Items[apply[a].k]
      choice == apply[a].choice
      target == choice.target
      done == IF choice.does = "act" THEN Worked(item, target)
              ELSE [tree |-> tree, ok |-> choice.does = "done"]
      items == apply[a].items \o (IF done.ok THEN Recorded(item, target) ELSE <<>>)
      fresh == item.action \in Transfers => done.ok /\ choice.does = "act" /\ ~IsDir(tree, target)
  IN  /\ apply[a].at = "work"
      /\ tree' = done.tree
      /\ \/ /\ apply' = [apply EXCEPT ![a].at = "choose", ![a].k = @ + 1,
                                      ![a].choice = Skip, ![a].items = items]
            /\ solo' = [solo EXCEPT !.fresh = @ /\ fresh]
            /\ UNCHANGED <<settled, faults>>
         \/ /\ faults < MaxFaults /\ faults' = faults + 1
            /\ apply' = [apply EXCEPT ![a] = Returned(a)]
            /\ solo' = NotSolo /\ settled' = <<>>
      /\ kept' = IF item.action = "delete" /\ choice.does = "act" /\ IsDir(tree, target)
                 THEN kept \ (OnlyIn(tree, target)
                              \ (IF blueprint.confirmed THEN {} ELSE Content(apply[a].began, target)))
                 ELSE kept
      /\ UNCHANGED <<blueprint, manifests, undo, users>>

\* The manifest is saved if it can be; update_last_run changes nothing here.
End(a) ==
  /\ apply[a].at = "choose" /\ apply[a].k > Len(Items)
  /\ apply' = [apply EXCEPT ![a] = Returned(a)]
  /\ LET saves == apply[a].stored /\ apply[a].items # <<>>
     IN  /\ manifests' = IF saves THEN Append(manifests, [items |-> apply[a].items, undone |-> FALSE])
                         ELSE manifests
         /\ solo' = IF saves THEN solo ELSE NotSolo
  /\ settled' = IF solo.on THEN tree ELSE <<>>
  /\ UNCHANGED <<blueprint, tree, undo, users, faults, kept>>

-----------------------------------------------------------------------------
(***************************************************************************)
(* rollback_blueprint: the latest manifest that has not been undone.       *)
(***************************************************************************)

Undoable == {m \in DOMAIN manifests : ~manifests[m].undone}

UndoStart ==
  /\ undo.at = "idle" /\ Undoable # {}
  /\ LET m == CHOOSE m \in Undoable : \A n \in Undoable : n <= m
     IN  undo' = [at |-> "item", m |-> m, k |-> Len(manifests[m].items)]
  /\ settled' = <<>>
  /\ solo' = IF Applying = {} THEN solo ELSE NotSolo
  /\ UNCHANGED <<blueprint, tree, apply, manifests, users, faults, kept>>

UndoItem_BrokenForwards ==
  LET items == manifests[undo.m].items
      item == items[Len(items) + 1 - undo.k]
      revert == /\ IsDir(tree, item.target)
                /\ item.status = "moved" => ~IsDir(tree, item.source) /\ IsDir(tree, Front(item.source))
  IN  /\ undo.at = "item" /\ undo.k > 0
      /\ tree' = IF ~revert THEN tree
                 ELSE IF item.status = "moved" THEN MoveDir(tree, item.target, item.source)
                 ELSE RemoveDirAll(tree, item.target)
      /\ kept' = IF revert /\ item.status = "copied" THEN kept \ OnlyIn(tree, item.target) ELSE kept
      /\ undo' = [undo EXCEPT !.k = @ - 1]
      /\ UNCHANGED <<blueprint, apply, manifests, users, faults, solo, settled>>

\* Backwards.  Folders have no hash: a copy is removed with all that is in it,
\* and a moved folder goes back unless its old place is taken.
UndoItem ==
  LET item == manifests[undo.m].items[undo.k]
      revert == /\ IsDir(tree, item.target)
                /\ item.status = "moved" => ~IsDir(tree, item.source) /\ IsDir(tree, Front(item.source))
  IN  /\ undo.at = "item" /\ undo.k > 0
      /\ tree' = IF ~revert THEN tree
                 ELSE IF item.status = "moved" THEN MoveDir(tree, item.target, item.source)
                 ELSE RemoveDirAll(tree, item.target)
      /\ kept' = IF revert /\ item.status = "copied" THEN kept \ OnlyIn(tree, item.target) ELSE kept
      /\ undo' = [undo EXCEPT !.k = @ - 1]
      /\ UNCHANGED <<blueprint, apply, manifests, users, faults, solo, settled>>

UndoMark ==
  /\ undo.at = "item" /\ undo.k = 0
  /\ \/ manifests' = [manifests EXCEPT ![undo.m].undone = TRUE] /\ UNCHANGED faults
     \/ faults < MaxFaults /\ faults' = faults + 1 /\ UNCHANGED manifests
  /\ undo' = NotUndoing
  /\ solo' = NotSolo
  /\ UNCHANGED <<blueprint, tree, apply, users, kept, settled>>

-----------------------------------------------------------------------------
(***************************************************************************)
(* The user and crashes.                                                   *)
(***************************************************************************)

UserActs == users < MaxUser /\ users' = users + 1 /\ solo' = NotSolo /\ settled' = <<>>

UserDrops(f, p) ==
  /\ UserActs
  /\ f \notin Content(tree, Root) /\ IsDir(tree, p)
  /\ tree' = [tree EXCEPT ![p] = @ \cup {f}]
  /\ kept' = kept \cup {f}
  /\ UNCHANGED <<blueprint, apply, manifests, undo, faults>>

UserRemoves(p) ==
  /\ UserActs
  /\ IsDir(tree, p)
  /\ tree' = RemoveDirAll(tree, p)
  /\ kept' = kept \ OnlyIn(tree, p)
  /\ UNCHANGED <<blueprint, apply, manifests, undo, faults>>

Crash ==
  /\ faults < MaxFaults /\ faults' = faults + 1
  /\ apply' = [a \in Applies |-> Returned(a)]
  /\ undo' = NotUndoing
  /\ solo' = NotSolo /\ settled' = <<>>
  /\ UNCHANGED <<blueprint, tree, manifests, users, kept>>

-----------------------------------------------------------------------------
ApplyStep(a) == Begin(a) \/ Choose(a) \/ Work(a) \/ End(a)

UndoStep == UndoStart \/ UndoItem \/ UndoMark

UserStep == \E p \in UserFolders : UserRemoves(p) \/ \E f \in Files : UserDrops(f, p)

Next == (\E a \in Applies : ApplyStep(a)) \/ UndoStep \/ UserStep \/ Crash

Spec == Init /\ [][Next]_vars

-----------------------------------------------------------------------------
(***************************************************************************)
(* Properties.                                                             *)
(***************************************************************************)

\* A file that was in the root, or was dropped into it, is still somewhere in
\* the root: whatever applies, undos, crashes and users do at the same time, a
\* plan takes away only what a delete was confirmed for, what came into its
\* folder after the plan was checked (by the plan itself, for one), and what an
\* undo finds in a copy.
NothingLost == kept \subseteq Content(tree, Root)

\* No item before a transfer makes its target or takes its source away.
Undisturbed ==
  \A i \in DOMAIN Items, j \in 1..Len(Items) :
    j < i /\ Items[i].action \in Transfers =>
      /\ Items[j].action # "delete" => ~IsPrefix(Items[i].target, Items[j].target)
      /\ Items[j].action \in Transfers => ~IsPrefix(Items[j].target, Items[i].target)
      /\ Items[j].action \in {"rename", "move", "delete"} => ~IsPrefix(Items[j].source, Items[i].source)

\* The simulation is right: if it counts no transfer as a collision or as
\* skipped, and no item disturbs a later one, then every transfer of an
\* apply that is alone with the root does its work at the place that the plan
\* names.
SimulationForetells == solo.on /\ solo.foretold /\ Undisturbed => solo.fresh

\* The folders that an item works on.
Touched(item) ==
  (IF item.action = "create" THEN {} ELSE {item.source})
    \cup (IF item.action = "delete" THEN {} ELSE {item.target})
    \cup (IF item.action \in Transfers /\ blueprint.conflict = "rename"
          THEN {Suffixed(item.target, n) : n \in 1..MaxSuffix} ELSE {})

\* The last folder that is made on the way of an item.
Way(item) == IF item.action = "create" THEN item.target ELSE Front(item.target)

\* No delete concerns a transfer, and what is moved leaves its places free of
\* the folders that later items make on their way.
Restorable ==
  \A i, j \in DOMAIN Items : \A p \in Touched(Items[i]) :
    /\ Items[i].action \in Transfers /\ Items[j].action = "delete" => ~Related(p, Items[j].source)
    /\ Items[i].action \in {"rename", "move"} /\ Items[j].action # "delete" /\ i < j =>
         ~IsPrefix(p, Way(Items[j]))

\* An undo brings back the tree from before the apply, but for the folders that
\* the apply created and what it deleted, when every transfer found its target
\* free and nobody else touched the root: moves into each other's place are
\* undone last to first.
UndoRestores ==
  undo.at = "item" /\ undo.k = 0 /\ solo.on /\ solo.fresh /\ Restorable =>
    LET deleted(p) == \E k \in DOMAIN Items : Items[k].action = "delete" /\ IsPrefix(Items[k].source, p)
    IN  /\ \A p \in DOMAIN solo.before : deleted(p) \/ (IsDir(tree, p) /\ tree[p] = solo.before[p])
        /\ \A p \in DOMAIN tree \ DOMAIN solo.before : tree[p] = {}

\* Transfers and deletes have no folder in common with another item.
Disjoint ==
  \A i, j \in DOMAIN Items :
    i # j /\ Items[i].action # "create" =>
      \A p \in Touched(Items[i]), q \in Touched(Items[j]) : ~Related(p, q)

\* Applying a plan again changes nothing if nobody touched the root since and
\* its items are disjoint: what has been moved is not there any more, and that
\* counts as done (a copy that makes way for what is there never is).
Idempotent ==
  [][\A a \in Applies :
       End(a) /\ settled # <<>> /\ Disjoint
         /\ ~(blueprint.conflict = "rename" /\ \E k \in DOMAIN Items : Items[k].action = "copy")
       => tree = settled]_vars

=============================================================================
