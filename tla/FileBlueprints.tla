---------------------------- MODULE FileBlueprints ----------------------------
(***************************************************************************)
(* File blueprints: the plan that gives each file below a root its place,  *)
(* the numbers drawn for it, its simulation and its execution              *)
(* (autoflow-application/src/blueprints.rs), and the store of blueprints   *)
(* and counters (autoflow-infrastructure/src/blueprints.rs).               *)
(*                                                                         *)
(* A plan is built file by file, each with a statement that draws a number *)
(* from the database, and then executed item by item, each looking for its *)
(* target in one step and writing in another.  Meanwhile a second apply,   *)
(* the user in the folders and the user at the blueprint may do anything.  *)
(*                                                                         *)
(* A path is a folder, which is a sequence, and a name, which is one too:  *)
(* <<n>> is a name made of the number n, and a conflict appends to a name. *)
(* Files are told apart by their content.  A template is one of four ways  *)
(* to name a file and one of two ways to place it.  The switch stands for  *)
(* all that an edit can change.  The manifest of an apply by hand and its  *)
(* undo are in FolderPlans; nothing here reads it.                         *)
(***************************************************************************)
EXTENDS Integers, SequencesExt

CONSTANTS
  Blueprints,   \* the blueprints considered, see Blueprint
  Trees,        \* the trees considered to begin with
  Unusable,     \* original names that do not pass validate_relative_path
  Applies,      \* calls of apply_blueprint
  MaxSuffix,    \* resolve_conflict's 999
  UserPaths,    \* paths where the user may put a file
  UserFiles,    \* contents of files that the user has yet to put somewhere
  MaxDays,      \* bound: midnights
  MaxUser,      \* bound: acts of the user
  MaxFaults     \* bound: statements of the database that fail, and crashes

ASSUME AppliesAssumption == "user" \notin Applies
ASSUME BlueprintsAssumption == \A b \in Blueprints : b.start \in Nat \ {0}
ASSUME TreesAssumption == \A t \in Trees : IsFiniteSet(DOMAIN t)
ASSUME BoundsAssumption == {MaxSuffix, MaxDays, MaxUser, MaxFaults} \subseteq Nat

VARIABLES
  blueprint,    \* what the user has configured; it does not change
  row,          \* the row of blueprints: what an edit and a run change, or Gone
  counters,     \* blueprint_counters: the next number for each scope key
  deleting,     \* a delete is between its two statements
  tree, dirs,   \* the files with their content, and the folders
  apply,        \* the calls of apply_blueprint
  today, users, faults,
  (*************************************************************************)
  (* Observed by the properties.                                           *)
  (*************************************************************************)
  asked,        \* the row as the user left it
  overlapped,   \* an update_last_run was between get and save when the user acted
  kept,         \* contents that nobody removed
  contested,    \* the tree changed while an item was between look and transfer
  drawn, twice, \* numbers handed out, and whether one was handed out again
  orphaned      \* the counters were deleted under an apply, or it had saved the row again

store == <<row, counters, deleting>>
disk == <<tree, dirs>>
observed == <<asked, overlapped, kept, contested, drawn, twice, orphaned>>
vars == <<blueprint, store, disk, apply, today, users, faults, observed>>

-----------------------------------------------------------------------------
At(folder, name) == [folder |-> folder, name |-> name]

\* into holds the folder of path_template, or nothing when it is {parent}.
Blueprint(into, name, scope, start, conflict, operation, intermediate, recursive) ==
  [into |-> into, name |-> name, scope |-> scope, start |-> start, conflict |-> conflict,
   operation |-> operation, intermediate |-> intermediate, recursive |-> recursive]

\* The order of paths in which collect_files sorts: folder by folder, then name.
Before(s, t) ==
  \/ IsStrictPrefix(s, t)
  \/ \E n \in 1..Len(s) \cap 1..Len(t) : s[n] < t[n] /\ \A m \in 1..(n - 1) : s[m] = t[m]

PathBefore(p, q) == Before(p.folder \o p.name, q.folder \o q.name)

\* collect_files_for_blueprint: each file at the place that its path has among the others.
Candidates ==
  LET files == {p \in DOMAIN tree : blueprint.recursive \/ p.folder = <<>>}
      before(p) == {q \in files : PathBefore(q, p)}
  IN  [k \in 1..Cardinality(files) |-> CHOOSE p \in files : Cardinality(before(p)) = k - 1]

ScopeKey(folder) ==
  CASE blueprint.scope = "global"    -> <<>>
    [] blueprint.scope = "perDay"    -> <<today>>
    [] blueprint.scope = "perFolder" -> folder
    [] blueprint.scope = "perParent" -> IF folder = <<>> THEN <<>> ELSE <<Last(folder)>>

\* resolve_destination, from the index of a candidate and the number drawn.
Destination(p, index, number) ==
  At(IF blueprint.into = {} THEN p.folder ELSE CHOOSE f \in blueprint.into : TRUE,
     CASE blueprint.name = "original" -> p.name
       [] blueprint.name = "counter"  -> <<number>>
       [] blueprint.name = "index"    -> <<index>>
       [] blueprint.name = "fixed"    -> <<0>>)

Usable(p) == blueprint.name = "original" => p.name \notin Unusable

Stored(key) == IF key \in DOMAIN counters THEN counters[key] ELSE blueprint.start

\* A file that is in its place already becomes no item.
Listed(plan, file, target) ==
  IF file = target THEN plan ELSE Append(plan, [source |-> file, target |-> target])

Simulated_BrokenCountsMovesOnly ==
  LET c == Candidates
      key(k) == ScopeKey(c[k].folder)
      number[k \in DOMAIN c] == Stored(key(k)) +
        Cardinality({i \in 1..(k - 1) : key(i) = key(k) /\ Destination(c[i], i, number[i]) # c[i]})
      plan[k \in 0..Len(c)] ==
        IF k = 0 THEN <<>> ELSE Listed(plan[k - 1], c[k], Destination(c[k], k, number[k]))
  IN  plan[Len(c)]

\* build_plan as a dry run: it reads the counters and counts on by itself.
Simulated ==
  LET c == Candidates
      key(k) == ScopeKey(c[k].folder)
      number(k) == Stored(key(k)) + Cardinality({i \in 1..(k - 1) : key(i) = key(k)})
      plan[k \in 0..Len(c)] ==
        IF k = 0 THEN <<>> ELSE Listed(plan[k - 1], c[k], Destination(c[k], k, number(k)))
  IN  plan[Len(c)]

Suffixed(p, n) == [p EXCEPT !.name = Append(@, n)]

Exists(p) == p \in DOMAIN tree

Skip == [does |-> "skip", target |-> At(<<>>, <<>>)]
Fail == [does |-> "fail", target |-> At(<<>>, <<>>)]
Act(target) == [does |-> "act", target |-> target]

ResolveConflict_BrokenNextUnchecked(target) ==
  IF ~Exists(target) THEN Act(target)
  ELSE IF blueprint.conflict = "skip" THEN Skip
  ELSE IF blueprint.conflict = "overwrite" THEN Act(target)
  ELSE Act(Suffixed(target, 1))

ResolveConflict(target) ==
  LET free == {n \in 1..MaxSuffix : ~Exists(Suffixed(target, n))}
  IN  IF ~Exists(target) THEN Act(target)
      ELSE IF blueprint.conflict = "skip" THEN Skip
      ELSE IF blueprint.conflict = "overwrite" THEN Act(target)
      ELSE IF free = {} THEN Fail
      ELSE Act(Suffixed(target, CHOOSE n \in free : \A m \in free : n <= m))

-----------------------------------------------------------------------------
Gone == [there |-> FALSE, enabled |-> FALSE]

Idle == [at |-> "idle", files |-> <<>>, plan |-> <<>>, k |-> 0, choice |-> Skip,
         copy |-> Gone, foretold |-> <<>>, solo |-> FALSE]

Init ==
  /\ blueprint \in Blueprints
  /\ row = [there |-> TRUE, enabled |-> TRUE]
  /\ counters = <<>> /\ deleting = FALSE
  /\ tree \in Trees /\ dirs = {p.folder : p \in DOMAIN tree} \cup {<<>>}
  /\ apply = [a \in Applies |-> Idle]
  /\ today = 0 /\ users = 0 /\ faults = 0
  /\ asked = row /\ overlapped = FALSE
  /\ kept = Range(tree) /\ contested = FALSE
  /\ drawn = {} /\ twice = FALSE /\ orphaned = FALSE

Working == {a \in Applies : apply[a].at \notin {"idle", "over"}}

Fault == faults < MaxFaults /\ faults' = faults + 1
NoFault == UNCHANGED faults

\* What the calls other than a are told when something that plans depend on changes.
Disturbed(calls, a) ==
  [b \in Applies |-> IF b = a THEN calls[b] ELSE [calls[b] EXCEPT !.solo = FALSE]]

InTransfer(a) == \E b \in Applies \ {a} : apply[b].at = "transfer"

\* A call that has returned keeps nothing.
Over == [Idle EXCEPT !.at = "over"]

-----------------------------------------------------------------------------
(***************************************************************************)
(* apply_blueprint_with_variables_with_rollback for a file blueprint.      *)
(***************************************************************************)

Begin(a) ==
  /\ apply[a].at = "idle" /\ row.there /\ row.enabled
  /\ apply' = [apply EXCEPT ![a] =
       [Idle EXCEPT !.at = "plan", !.files = Candidates, !.k = 1, !.foretold = Simulated, !.solo = TRUE]]
  /\ UNCHANGED <<counters, disk, row, overlapped, kept, contested, drawn, twice>>

Planned(a, plan) ==
  LET more == apply[a].k < Len(apply[a].files)
  IN  [apply[a] EXCEPT !.plan = plan, !.k = IF more THEN @ + 1 ELSE 1, !.at = IF more THEN "plan" ELSE "look"]

NextCounter_BrokenOnlyUpdates(key) == [k \in DOMAIN counters |-> counters[k] + IF k = key THEN 1 ELSE 0]

\* next_counter, one statement: the number is Stored(key).
NextCounter(key) ==
  [k \in DOMAIN counters \cup {key} |-> IF k = key THEN Stored(key) + 1 ELSE counters[k]]

\* The next file of build_plan: its number is used up whatever becomes of it.
Draw(a) ==
  LET k == apply[a].k
      file == apply[a].files[k]
      key == ScopeKey(file.folder)
      target == Destination(file, k, Stored(key))
  IN  /\ apply[a].at = "plan" /\ k <= Len(apply[a].files)
      /\ counters' = NextCounter(key)
      /\ drawn' = drawn \cup {<<key, Stored(key)>>}
      /\ twice' = (twice \/ <<key, Stored(key)>> \in drawn)
      /\ apply' = Disturbed([apply EXCEPT ![a] =
           IF Usable(file) THEN Planned(a, Listed(apply[a].plan, file, target)) ELSE Over], a)
      /\ UNCHANGED <<disk, row, overlapped, kept, contested>>

NothingToPlan(a) ==
  /\ apply[a].at = "plan" /\ apply[a].files = <<>>
  /\ apply' = [apply EXCEPT ![a].at = "look"]
  /\ UNCHANGED <<counters, disk, row, overlapped, kept, contested, drawn, twice>>

Item(a) == apply[a].plan[apply[a].k]

\* execute_plan_item up to the first change; what is not done is audited and passed.
Look(a) ==
  LET found == ResolveConflict(Item(a).target)
      choice == IF found.does = "act" /\ ~blueprint.intermediate /\ found.target.folder \notin dirs
                THEN Fail ELSE found
  IN  /\ apply[a].at = "look" /\ apply[a].k <= Len(apply[a].plan)
      /\ apply' = [apply EXCEPT ![a] =
           IF choice.does = "act" THEN [apply[a] EXCEPT !.at = "transfer", !.choice = choice]
           ELSE [apply[a] EXCEPT !.k = @ + 1]]
      /\ UNCHANGED <<counters, disk, row, overlapped, kept, contested, drawn, twice>>

\* fs::copy or fs::rename replaces what is at the target.
Transferred(source, target) ==
  LET left == IF blueprint.operation = "move" THEN DOMAIN tree \ {source} ELSE DOMAIN tree
  IN  [p \in left \cup {target} |-> IF p = target THEN tree[source] ELSE tree[p]]

Transfer(a) ==
  LET source == Item(a).source
      target == apply[a].choice.target
  IN  /\ apply[a].at = "transfer"
      /\ dirs' = dirs \cup IF blueprint.intermediate
                           THEN {SubSeq(target.folder, 1, n) : n \in 0..Len(target.folder)} ELSE {}
      /\ IF Exists(source)
         THEN /\ tree' = Transferred(source, target)
              /\ contested' = (contested \/ InTransfer(a))
              /\ apply' = Disturbed([apply EXCEPT ![a].k = @ + 1, ![a].at = "look", ![a].choice = Skip], a)
         ELSE /\ apply' = [apply EXCEPT ![a].k = @ + 1, ![a].at = "look", ![a].choice = Skip]
              /\ UNCHANGED <<tree, contested>>
      /\ UNCHANGED <<counters, row, overlapped, kept, drawn, twice>>

ReadLastRun_BrokenLoadedBefore(a) ==
  /\ apply[a].at = "look" /\ apply[a].k > Len(apply[a].plan)
  /\ apply' = [apply EXCEPT ![a] = [Idle EXCEPT !.at = "save", !.copy = [there |-> TRUE, enabled |-> TRUE]]]
  /\ UNCHANGED <<counters, disk, row, overlapped, kept, contested, drawn, twice>>

\* The get of update_last_run, which fails for a deleted blueprint.
ReadLastRun(a) ==
  /\ apply[a].at = "look" /\ apply[a].k > Len(apply[a].plan)
  /\ apply' = [apply EXCEPT ![a] = IF row.there THEN [Idle EXCEPT !.at = "save", !.copy = row] ELSE Over]
  /\ UNCHANGED <<counters, disk, row, overlapped, kept, contested, drawn, twice>>

\* The save of update_last_run, an upsert.
SaveLastRun(a) ==
  /\ apply[a].at = "save"
  /\ row' = apply[a].copy
  /\ apply' = [apply EXCEPT ![a] = Over]
  /\ UNCHANGED <<counters, disk, overlapped, kept, contested, drawn, twice>>

\* A statement that fails, or the end of the process: no last run.
Stops(a) ==
  /\ a \in Working /\ Fault
  /\ apply' = [apply EXCEPT ![a] = Over]
  /\ UNCHANGED <<counters, disk, row, overlapped, kept, contested, drawn, twice>>

ApplyStep(a) ==
  /\ \/ /\ Begin(a) \/ Draw(a) \/ NothingToPlan(a) \/ Look(a) \/ Transfer(a) \/ ReadLastRun(a) \/ SaveLastRun(a)
        /\ NoFault
     \/ Stops(a)
  /\ UNCHANGED <<blueprint, deleting, today, users, asked, orphaned>>

-----------------------------------------------------------------------------
(***************************************************************************)
(* The user, who has the editor of the blueprint and the folders.          *)
(***************************************************************************)
Holding == \E a \in Applies : apply[a].at = "save"

Asks(new) == row' = new /\ asked' = new /\ overlapped' = (overlapped \/ Holding)

\* update_blueprint; the editor has the blueprint before it.
UserEdits ==
  /\ row.there /\ asked.there
  /\ Asks([there |-> TRUE, enabled |-> ~asked.enabled])
  /\ UNCHANGED <<counters, deleting, disk, apply, kept, contested, orphaned>>

\* delete_blueprint: two statements.
UserDeletes ==
  /\ row.there /\ asked.there /\ ~deleting
  /\ Asks(Gone) /\ deleting' = TRUE
  /\ UNCHANGED <<counters, disk, apply, kept, contested, orphaned>>

UserPuts ==
  /\ \E p \in UserPaths \ DOMAIN tree, c \in UserFiles \ kept :
       /\ tree' = [q \in DOMAIN tree \cup {p} |-> IF q = p THEN c ELSE tree[q]]
       /\ dirs' = dirs \cup {p.folder}
       /\ kept' = kept \cup {c}
  /\ apply' = Disturbed(apply, "user") /\ contested' = (contested \/ InTransfer("user"))
  /\ UNCHANGED <<store, asked, overlapped, orphaned>>

UserActs ==
  /\ users < MaxUser /\ users' = users + 1
  /\ UserEdits \/ UserDeletes \/ UserPuts
  /\ UNCHANGED <<blueprint, today, faults, drawn, twice>>

\* The second statement of the delete, unless the process ends before it.
CountersDeleted ==
  /\ deleting /\ deleting' = FALSE
  /\ \/ counters' = <<>> /\ orphaned' = (orphaned \/ row.there \/ Working # {}) /\ NoFault
     \/ Fault /\ UNCHANGED <<counters, orphaned>>
  /\ apply' = Disturbed(apply, "user")
  /\ UNCHANGED <<blueprint, row, disk, today, users, asked, overlapped, kept, contested, drawn, twice>>

Midnight ==
  /\ blueprint.scope = "perDay" /\ today < MaxDays /\ today' = today + 1
  /\ apply' = Disturbed(apply, "user")
  /\ UNCHANGED <<blueprint, store, disk, users, faults, observed>>

Next == (\E a \in Applies : ApplyStep(a)) \/ UserActs \/ CountersDeleted \/ Midnight

Spec == Init /\ [][Next]_vars

-----------------------------------------------------------------------------
(***************************************************************************)
(* Properties.                                                             *)
(***************************************************************************)

\* Whatever the template makes of the names, a file is replaced only when the
\* blueprint says overwrite, or when the target changed after it was looked at.
NothingLost == blueprint.conflict = "overwrite" \/ contested \/ kept \subseteq Range(tree)

\* The simulation shows the very targets that an apply will plan, numbers
\* included, if nothing changes in between.
SimulationForetells ==
  \A a \in Applies : apply[a].solo /\ apply[a].at \in {"look", "transfer"} => apply[a].plan = apply[a].foretold

\* No number is handed out twice under one key, whichever applies draw at a time;
\* unless the blueprint was deleted under an apply: it draws from new counters, and
\* its update_last_run may bring the blueprint back.
NumbersOnce == twice => orphaned

\* The blueprint is as the user last left it, deleted too, unless an apply was
\* between the two statements of update_last_run at that moment.
RowIsAsked == row = asked \/ overlapped
=============================================================================
