-------------------------- MODULE BlueprintTriggers --------------------------
(***************************************************************************)
(* A folder blueprint whose root is watched with auto_correct: the trigger *)
(* loop of WatchService, its busy and suppressed sets (autoflow-core/src/  *)
(* watch.rs), and what a trigger does to the folders (autoflow-application/*)
(* src/naming.rs).                                                         *)
(*                                                                         *)
(* The hard part is that the corrections happen below the watched root.  A *)
(* run makes the folders that it will hear of later; it is told from the   *)
(* user only by when it is heard.  And the user goes on working meanwhile: *)
(* a run looks at the folders in one step and changes them in another.     *)
(*                                                                         *)
(* A path is the sequence of names below the root.  All files bear the same*)
(* name, so a folder holds one of them, and two folders that are merged    *)
(* collide.  Templates are evaluated before: names are literal.  Own folders*)
(* that the kernel does not report are not modelled: each one is heard of. *)
(***************************************************************************)
EXTENDS Folders

CONSTANTS
  Names,        \* the names that the user gives
  Plan,         \* the nodes of the folder plan, as paths, each after its parent
  Override,     \* naming_pattern.template_override, or NoName
  NoName,
  Kinds,        \* the watched kinds of events: "create" and perhaps "rename"
  Files,
  NoFile,
  MaxActs,      \* bound: acts of the user
  MaxFaults     \* bound: renames that the system refuses, audit and copy failures

ASSUME PlanAssumption ==
  /\ Plan \in Seq(Range(Plan)) /\ Plan # <<>>
  /\ \A n \in DOMAIN Plan :
       /\ IsPath(Plan[n])
       /\ Len(Plan[n]) = 1 \/ \E m \in 1..(n - 1) : Plan[m] = Front(Plan[n])
ASSUME NoFileAssumption == NoFile \notin Files
ASSUME BoundsAssumption == {MaxActs, MaxFaults} \subseteq Nat

VARIABLES
  enabled,      \* the blueprint's switch
  tree,         \* the folders below the root and the file of each
  pending,      \* events that the debouncer holds back
  channel,      \* trigger_tx to trigger_rx
  busy,         \* blueprint_busy has the blueprint
  suppressed,   \* blueprint_suppressed_until lies in the future
  run,          \* the task that a trigger has spawned
  ending,       \* tasks that are out of busy and have not yet suppressed
  acts, faults,
  (*************************************************************************)
  (* Observed by the properties.                                           *)
  (*************************************************************************)
  saved,        \* files that the user has saved
  contested     \* the user acted while a folder was being renamed

folders == <<tree, pending>>
triggers == <<channel, busy, suppressed, ending>>
observed == <<saved, contested>>
vars == <<enabled, folders, triggers, run, acts, faults, observed>>

-----------------------------------------------------------------------------
Nodes == Range(Plan)
Depth == Max({Len(n) : n \in Nodes})

\* The places of a node's descendants in the plan. The default variables are those
\* of the plan, so a node's name is literal.
Under(node) == {n \in DOMAIN Plan : Plan[n] # node /\ IsPrefix(node, Plan[n])}

NodeFor_BrokenFallsBack(parent) == IF parent \in Nodes THEN parent ELSE Head(Plan)

\* The first node for a folder at the root, find_folder_plan_node otherwise:
\* the node that the *parent* stands for gives its name to the folder.
NodeFor(parent) ==
  IF parent = Root THEN Head(Plan) ELSE IF parent \in Nodes THEN parent ELSE Root

\* resolve_correct_folder_name.
CorrectName(node) == IF Override # NoName THEN Override ELSE Last(node)

-----------------------------------------------------------------------------
(***************************************************************************)
(* Folders and the events they cause.                                      *)
(***************************************************************************)
\* fs::create_dir_all.
CreateDirAll(t, p) == [q \in DOMAIN t \cup Prefixed(p) |-> IF IsDir(t, q) THEN t[q] ELSE NoFile]

\* The folders that it makes, from the first that is not there.
Missing(t, p) ==
  LET there == Cardinality({n \in 1..Len(p) : IsDir(t, SubSeq(p, 1, n))})
  IN  [n \in 1..(Len(p) - there) |-> SubSeq(p, 1, there + n)]

\* copy_dir_recursive: a file takes the place of one with its name.
CopyDir(t, source, target) ==
  LET made  == DOMAIN t \cup Prefixed(target) \cup {Rebased(source, target, q) : q \in Below(t, source)}
      to(p) == {q \in Below(t, source) : t[q] # NoFile /\ Rebased(source, target, q) = p}
  IN  [p \in made |-> IF to(p) # {} THEN t[CHOOSE q \in to(p) : TRUE]
                      ELSE IF IsDir(t, p) THEN t[p] ELSE NoFile]

\* fs::rename moves a folder to a free name or onto an empty folder.
CanRename(t, source, target) ==
  /\ IsDir(t, source)
  /\ IsDir(t, target) => Below(t, target) = {target} /\ t[target] = NoFile

RenameDir(t, source, target) == RemoveDirAll(CopyDir(t, source, target), source)

Event(kind, path) == [kind |-> kind, path |-> path]

FoldersMade(paths) == [n \in DOMAIN paths |-> Event("folder", paths[n])]

\* notify-debouncer-full: a pending creation follows the folder's new name.
Renamed(events, source, target) ==
  [n \in DOMAIN events |-> IF events[n].path = source THEN [events[n] EXCEPT !.path = target] ELSE events[n]]
    \o IF "rename" \in Kinds THEN <<Event("other", target)>> ELSE <<>>

Present == {tree[p] : p \in DOMAIN tree} \ {NoFile}

-----------------------------------------------------------------------------
NoRun == [at |-> "idle", event |-> Event("other", Root), base |-> Root, node |-> Root, made |-> 0]

Init ==
  /\ enabled = TRUE
  /\ tree = [p \in {Root} |-> NoFile] /\ pending = <<>>
  /\ channel = <<>> /\ busy = FALSE /\ suppressed = FALSE /\ ending = 0
  /\ run = NoRun
  /\ acts = 0 /\ faults = 0
  /\ saved = {} /\ contested = FALSE

(***************************************************************************)
(* The user, who makes and renames folders, saves files and switches the   *)
(* blueprint on and off; sync_blueprint then starts a new debouncer.       *)
(***************************************************************************)
Unsaved == Files \ saved
NewFile == CHOOSE f \in Unsaved : TRUE

\* A folder is new, or dropped here with a file in it.
UserMakes ==
  \E p \in DOMAIN tree, name \in Names :
    LET new == Append(p, name)
    IN  /\ ~IsDir(tree, new) /\ Len(new) <= Depth
        /\ \/ /\ tree' = CreateDirAll(tree, new)
              /\ pending' = pending \o FoldersMade(<<new>>)
              /\ UNCHANGED saved
           \/ /\ Unsaved # {} /\ saved' = saved \cup {NewFile}
              /\ tree' = [q \in DOMAIN tree \cup {new} |-> IF q = new THEN NewFile ELSE tree[q]]
              /\ pending' = pending \o FoldersMade(<<new>>) \o <<Event("other", new)>>
        /\ UNCHANGED enabled

UserRenames ==
  \E p \in DOMAIN tree \ {Root}, name \in Names :
    LET new == Append(Front(p), name)
    IN  /\ ~IsDir(tree, new)
        /\ tree' = RenameDir(tree, p, new)
        /\ pending' = Renamed(pending, p, new)
        /\ UNCHANGED <<enabled, saved>>

UserSaves ==
  \E p \in DOMAIN tree \ {Root} :
    /\ Unsaved # {} /\ saved' = saved \cup {NewFile}
    /\ tree[p] = NoFile
    /\ tree' = [tree EXCEPT ![p] = NewFile]
    /\ pending' = Append(pending, Event("other", p))
    /\ UNCHANGED enabled

UserSwitches ==
  /\ enabled' = ~enabled
  /\ pending' = <<>>
  /\ UNCHANGED <<tree, saved>>

UserActs ==
  /\ acts < MaxActs /\ acts' = acts + 1
  /\ UserMakes \/ UserRenames \/ UserSaves \/ UserSwitches
  /\ contested' = (contested \/ run.at \in {"rename", "copy", "remove"})
  /\ UNCHANGED <<triggers, run, faults>>

-----------------------------------------------------------------------------
(***************************************************************************)
(* The debouncer's handler: one trigger for a batch of events, the first.  *)
(***************************************************************************)
Debounce ==
  /\ \E n \in 1..Len(pending) : pending' = SubSeq(pending, n + 1, Len(pending))
  /\ channel' = Append(channel, Head(pending))
  /\ UNCHANGED <<enabled, tree, busy, suppressed, ending, run, acts, faults, observed>>

\* The trigger loop, with is_blueprint_suppressed and begin_blueprint_run.
Receive ==
  /\ channel # <<>> /\ channel' = Tail(channel)
  /\ IF suppressed \/ busy
     THEN UNCHANGED <<busy, run>>
     ELSE busy' = TRUE /\ run' = [NoRun EXCEPT !.at = "read", !.event = Head(channel)]
  /\ UNCHANGED <<enabled, folders, suppressed, ending, acts, faults, observed>>

SuppressionEnds ==
  /\ suppressed /\ suppressed' = FALSE
  /\ UNCHANGED <<enabled, folders, channel, busy, ending, run, acts, faults, observed>>

-----------------------------------------------------------------------------
(***************************************************************************)
(* A run.                                                                  *)
(***************************************************************************)
To(at) == run' = [run EXCEPT !.at = at]

\* What stands below a node in the plan is to be made below base.
MakeBelow(base, node) == run' = [run EXCEPT !.at = "make", !.base = base, !.node = node]

Source == run.event.path
Node   == NodeFor(Front(Source))
Target == Append(Front(Source), CorrectName(Node))

Fault == faults < MaxFaults /\ faults' = faults + 1
NoFault == UNCHANGED faults

\* apply_blueprint_with_variables: the whole plan below the root.
ReadForPlan ==
  /\ run.at = "read" /\ run.event.kind = "other"
  /\ IF enabled THEN MakeBelow(Root, Root) ELSE To("end")
  /\ UNCHANGED <<folders, faults>>

ReadForFolder_BrokenNoExists ==
  /\ run.at = "read" /\ run.event.kind = "folder"
  /\ IF ~enabled \/ Node = Root THEN To("end")
     ELSE IF Target = Source THEN MakeBelow(Source, Node)
     ELSE To("rename")
  /\ UNCHANGED <<folders, faults>>

\* handle_folder_auto_correct up to the first change: a folder for which the
\* plan has no node is FolderOutOfPattern.
ReadForFolder ==
  /\ run.at = "read" /\ run.event.kind = "folder"
  /\ IF ~enabled \/ Node = Root THEN To("end")
     ELSE IF Target = Source \/ IsDir(tree, Target) THEN MakeBelow(Target, Node)
     ELSE To("rename")
  /\ UNCHANGED <<folders, faults>>

Rename ==
  LET made == CreateDirAll(tree, Front(Target))
      heard == pending \o FoldersMade(Missing(tree, Front(Target)))
  IN  /\ run.at = "rename"
      /\ \/ /\ CanRename(made, Source, Target) /\ NoFault
            /\ tree' = RenameDir(made, Source, Target)
            /\ pending' = Renamed(heard, Source, Target)
            /\ To("audit")
         \/ /\ IF CanRename(made, Source, Target) THEN Fault ELSE NoFault
            /\ tree' = made /\ pending' = heard
            /\ To("copy")

\* copy_dir_recursive makes the target before it looks for the source.
Copy ==
  LET heard == pending \o FoldersMade(Missing(tree, Target))
  IN  /\ run.at = "copy"
      /\ IF IsDir(tree, Source)
         THEN \/ /\ tree' = CopyDir(tree, Source, Target) /\ NoFault
                 /\ pending' = heard \o
                      FoldersMade(SetToSeq(DOMAIN tree' \ DOMAIN CreateDirAll(tree, Target)))
                 /\ To("remove")
              \/ tree' = CreateDirAll(tree, Target) /\ pending' = heard /\ Fault /\ To("end")
         ELSE tree' = CreateDirAll(tree, Target) /\ pending' = heard /\ NoFault /\ To("end")

RemoveSource ==
  /\ run.at = "remove"
  /\ tree' = RemoveDirAll(tree, Source)
  /\ IF IsDir(tree, Source) THEN To("audit") ELSE To("end")
  /\ UNCHANGED <<pending, faults>>

\* The folder has its name; without the audit entry it does not get its children.
Audit ==
  /\ run.at = "audit"
  /\ (MakeBelow(Target, Node) /\ NoFault) \/ (To("end") /\ Fault)
  /\ UNCHANGED folders

\* apply_children_structure and apply_folder_blueprint_with_rollback: the next
\* node, which may exist, and its audit entry.
Make ==
  LET left == {n \in Under(run.node) : n > run.made}
  IN  /\ run.at = "make"
      /\ \/ left = {} /\ To("end") /\ NoFault /\ UNCHANGED folders
         \/ \E n \in left :
              LET next == Rebased(run.node, run.base, Plan[n])
              IN  /\ \A m \in left : n <= m
                  /\ tree' = CreateDirAll(tree, next)
                  /\ pending' = pending \o FoldersMade(Missing(tree, next))
                  /\ (run' = [run EXCEPT !.made = n] /\ NoFault) \/ (To("end") /\ Fault)

\* end_blueprint_run: busy first, then suppressed.
End_BrokenFailureStays ==
  /\ run.at = "end" /\ run' = NoRun
  /\ busy' = (run.event.kind = "folder" /\ NodeFor(Front(Source)) = Root)
  /\ ending' = ending + 1
  /\ UNCHANGED <<enabled, folders, channel, suppressed, acts, faults, observed>>

End ==
  /\ run.at = "end" /\ run' = NoRun
  /\ busy' = FALSE
  /\ ending' = ending + 1
  /\ UNCHANGED <<enabled, folders, channel, suppressed, acts, faults, observed>>

Suppress ==
  /\ ending > 0 /\ ending' = ending - 1
  /\ suppressed' = TRUE
  /\ UNCHANGED <<enabled, folders, channel, busy, run, acts, faults, observed>>

RunStep ==
  \/ /\ ReadForPlan \/ ReadForFolder \/ Rename \/ Copy \/ RemoveSource \/ Audit \/ Make
     /\ UNCHANGED <<enabled, triggers, acts, observed>>
  \/ End

Next == UserActs \/ Debounce \/ Receive \/ SuppressionEnds \/ RunStep \/ Suppress

\* The debouncer's thread ticks, the runtime polls the loop and the tasks, time
\* goes on; none of them waits for another for ever.
Fairness ==
  /\ WF_vars(Debounce) /\ WF_vars(Receive) /\ WF_vars(SuppressionEnds)
  /\ WF_vars(RunStep) /\ WF_vars(Suppress)

Spec == Init /\ [][Next]_vars /\ Fairness

-----------------------------------------------------------------------------
(***************************************************************************)
(* Properties.                                                             *)
(***************************************************************************)

\* A correction renames, merges and removes folders of the user, but a file of
\* the user can only be lost when the user acts between the check for the
\* target and the end of the rename.
LostOnlyIfContested == saved \subseteq Present \/ contested

\* A run's own folders come back as events, and each may be "corrected" again.
\* It ends after one level: no folder gets deeper than the plan and one more.
NestingBounded == \A p \in DOMAIN tree : Len(p) <= Depth + 1

\* Whatever the runs do to the watched folders, it comes to rest, and the
\* blueprint is then neither busy nor suppressed.
CorrectionsSettle ==
  <>[](pending = <<>> /\ channel = <<>> /\ ~busy /\ ~suppressed /\ run = NoRun /\ ending = 0)
=============================================================================
