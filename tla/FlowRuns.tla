------------------------------ MODULE FlowRuns ------------------------------
(***************************************************************************)
(* Runs of flows on the file system, and their rollback: run_job and       *)
(* process_file (autoflow-application/src/execution.rs), rollback_job      *)
(* (autoflow-application/src/rollback.rs) and the manifest store           *)
(* (autoflow-infrastructure/src/rollback.rs).                              *)
(*                                                                         *)
(* Flows run in parallel tasks, and users change files meanwhile.  A file  *)
(* is processed in steps that others can come between: look at the target  *)
(* and choose a free name, transfer, verify if the flow says so, hash what *)
(* is at the target, append to the audit log.  The manifest exists only    *)
(* once the whole run is over.                                             *)
(*                                                                         *)
(* A path is <<directory, file, n>>, n # 0 for the names "file (n)" of the *)
(* rename strategy.  A content is the number of the user's write that made *)
(* it, so equal hashes are equal contents.  The queue admits one run of a  *)
(* flow at a time (JobMutualExclusion in ExecutionProofs); the screen      *)
(* waits for a rollback before it offers the next.  Not modelled: scripts, *)
(* encrypted packages, and a flow into its own source directory.           *)
(* A definition named _Broken... is a plausible bug in the one after it.   *)
(***************************************************************************)
EXTENDS Integers, Sequences, FiniteSets

CONSTANTS
  Flows,        \* the flows (jobs); a flow's source directory is named by it
  Files,        \* file names
  TargetDir,    \* the target directory of each flow
  Configs,      \* the transfer options a flow may have
  MaxSuffix,    \* bound: names the rename strategy tries (999 in the code)
  MaxWrites,    \* bound: files that users write
  MaxRuns,      \* bound: runs
  MaxFaults     \* bound: failed database writes, file errors and crashes

ASSUME BoundsAssumption ==
  /\ MaxSuffix \in Nat /\ MaxWrites \in Nat /\ MaxRuns \in Nat /\ MaxFaults \in Nat
ASSUME ConfigsAssumption ==
  Configs \subseteq [mode : {"copy", "move"}, conflict : {"skip", "overwrite", "rename"},
                     smartSync : BOOLEAN, stopOnError : BOOLEAN, sameDevice : BOOLEAN,
                     verify : BOOLEAN]
ASSUME DirectoriesAssumption == \A j \in Flows : TargetDir[j] # j

VARIABLES
  fs,           \* the content of every path, Nothing where there is no file
  config,       \* each flow's options
  run,          \* each flow's run in progress
  manifests,    \* rollback_manifests, in the order of created_at
  undo,         \* each flow's rollback in progress
  (*************************************************************************)
  (* Bounds and observations for the properties.                           *)
  (*************************************************************************)
  writes, runs, faults,
  discarded,    \* contents a user deleted or wrote over
  replaced,     \* contents the overwrite strategy destroyed
  unguarded,    \* contents written where a step in progress cannot see them
  transferred,  \* the files that runs have copied or moved, less the runs that
                \* a fault interrupted and the files that failed verification
                \* after somebody else had changed files
  before        \* the file system when the flow's latest run began, while
                \* nobody else has changed files since

bounds   == <<writes, runs, faults>>
ghosts   == <<discarded, replaced, unguarded, transferred, before>>
vars     == <<fs, config, run, manifests, undo, bounds, ghosts>>

Nothing  == 0
Contents == 0..MaxWrites
Paths    == (Flows \X Files \X {0})
              \cup ({TargetDir[j] : j \in Flows} \X Files \X (0..MaxSuffix))
NoPath   == <<>>

Source(j, f)    == <<j, f, 0>>
Target(j, f, n) == <<TargetDir[j], f, n>>

Statuses  == {"copied", "moved", "ignored"}
Items     == [source : Paths, target : Paths, status : Statuses, hash : Contents]
NoSnapshot == <<>>
Disturbed  == [j \in Flows |-> NoSnapshot]

NotRunning == [at |-> "idle", number |-> 0, todo |-> {}, source |-> NoPath,
               target |-> NoPath, outcome |-> "none", sum |-> Nothing, items |-> <<>>]
NotUndoing == [at |-> "idle", manifest |-> 0, left |-> 0]

Init ==
  /\ fs = [p \in Paths |-> Nothing]
  /\ config \in [Flows -> Configs]
  /\ run = [j \in Flows |-> NotRunning]
  /\ manifests = <<>>
  /\ undo = [j \in Flows |-> NotUndoing]
  /\ writes = 0 /\ runs = 0 /\ faults = 0
  /\ discarded = {} /\ replaced = {} /\ unguarded = {}
  /\ transferred = {}
  /\ before = Disturbed

-----------------------------------------------------------------------------
(***************************************************************************)
(* What the observations say.                                              *)
(***************************************************************************)

Exists(p) == fs[p] # Nothing

\* A run of one of these flows has looked at path p and will write, remove or
\* record what is there as its own.
InRun(p, flows) ==
  \E j \in flows :
    \/ /\ run[j].at \in {"sum", "transfer", "confirm", "discard", "remove", "hash"}
       /\ run[j].target = p
    \/ run[j].at = "remove" /\ run[j].source = p

InUndo(p, flows) ==
  \E j \in flows :
    /\ undo[j].at = "act"
    /\ LET item == manifests[undo[j].manifest].items[undo[j].left]
       IN  p = IF item.status = "copied" THEN item.target ELSE item.source

\* An item for p was recorded without a hash: rollback cannot check it.
Unhashed(p) ==
  LET Has(items) == \E i \in DOMAIN items :
                      items[i].target = p /\ items[i].status # "ignored" /\ items[i].hash = Nothing
  IN  \/ \E j \in Flows : Has(run[j].items)
      \/ \E m \in DOMAIN manifests : Has(manifests[m].items)

\* Content c arrives at path p, which a step in progress holds or no hash guards.
Arrives(c, p, held) ==
  unguarded' = IF held \/ Unhashed(p) THEN unguarded \cup {c} ELSE unguarded

\* Flow j changes files: what the other flows' runs began with is disturbed.
Disturb(j) == before' = [Disturbed EXCEPT ![j] = before[j]]

-----------------------------------------------------------------------------
(***************************************************************************)
(* Users.                                                                  *)
(***************************************************************************)

UserWrite(p) ==
  /\ writes < MaxWrites
  /\ writes' = writes + 1
  /\ fs' = [fs EXCEPT ![p] = writes + 1]
  /\ discarded' = (discarded \cup {fs[p]}) \ {Nothing}
  /\ Arrives(writes + 1, p, InRun(p, Flows) \/ InUndo(p, Flows))
  /\ before' = Disturbed
  /\ UNCHANGED <<config, run, manifests, undo, runs, faults, replaced, transferred>>

UserDelete(p) ==
  /\ Exists(p)
  /\ fs' = [fs EXCEPT ![p] = Nothing]
  /\ discarded' = discarded \cup {fs[p]}
  /\ before' = Disturbed
  /\ UNCHANGED <<config, run, manifests, undo, bounds, replaced, unguarded, transferred>>

-----------------------------------------------------------------------------
(***************************************************************************)
(* run_job.                                                                *)
(***************************************************************************)

At(j, place) == run[j].at = place

RunStart(j) ==
  /\ At(j, "idle") /\ runs < MaxRuns
  /\ runs' = runs + 1
  /\ run' = [run EXCEPT ![j] = [NotRunning EXCEPT
                                  !.at = "next", !.number = runs + 1,
                                  !.todo = {f \in Files : Exists(Source(j, f))}]]
  /\ before' = [before EXCEPT ![j] = IF undo[j].at = "idle" THEN fs ELSE NoSnapshot]
  /\ UNCHANGED <<fs, config, manifests, undo, writes, faults,
                 discarded, replaced, unguarded, transferred>>

Free(j, f) == {n \in 1..MaxSuffix : ~Exists(Target(j, f, n))}

\* process_file up to the chosen target: smart sync, then the conflict strategy.
Chosen(j, f) ==
  LET first == Target(j, f, 0)
      Choice(at, outcome, target) == [source |-> Source(j, f), target |-> target,
                                      at |-> at, outcome |-> outcome]
      options == config[j]
      begin == IF options.mode = "move" /\ options.verify THEN "sum" ELSE "transfer"
  IN  IF options.smartSync /\ Exists(first) /\ ~Exists(Source(j, f))
        THEN Choice("audit", "failed", first)
      ELSE IF options.smartSync /\ Exists(first) /\ fs[first] = fs[Source(j, f)]
        THEN Choice("audit", "ignored", first)
      ELSE IF ~Exists(first) \/ options.conflict = "overwrite"
        THEN Choice(begin, "none", first)
      ELSE IF options.conflict = "skip"
        THEN Choice("audit", "ignored", first)
      ELSE IF Free(j, f) = {}
        THEN Choice("audit", "failed", first)
      ELSE LET n == CHOOSE n \in Free(j, f) : \A m \in Free(j, f) : n <= m
           IN  Choice(begin, "none", Target(j, f, n))

Recorded_BrokenFirstChoice(j, status, hash) ==
  [source |-> run[j].source, target |-> [run[j].target EXCEPT ![3] = 0],
   status |-> status, hash |-> hash]

Recorded(j, status, hash) ==
  [source |-> run[j].source, target |-> run[j].target, status |-> status, hash |-> hash]

RunNext(j) ==
  /\ At(j, "next")
  /\ \E f \in run[j].todo :
       LET choice == Chosen(j, f)
           item   == [source |-> choice.source, target |-> choice.target,
                      status |-> "ignored", hash |-> Nothing]
       IN  run' = [run EXCEPT ![j].todo = @ \ {f}, ![j].at = choice.at,
                              ![j].source = choice.source, ![j].target = choice.target,
                              ![j].outcome = choice.outcome,
                              ![j].items = IF choice.outcome = "ignored" THEN Append(@, item) ELSE @]
  /\ UNCHANGED <<fs, config, manifests, undo, bounds, ghosts>>

\* The token is fired: the loop ends, the rest of the run goes on.
RunCancelled_BrokenReturns(j) ==
  /\ At(j, "next") /\ run[j].todo # {}
  /\ run' = [run EXCEPT ![j] = NotRunning]
  /\ UNCHANGED <<fs, config, manifests, undo, bounds, ghosts>>

RunCancelled(j) ==
  /\ At(j, "next") /\ run[j].todo # {}
  /\ run' = [run EXCEPT ![j].at = "end", ![j].todo = {}]
  /\ UNCHANGED <<fs, config, manifests, undo, bounds, ghosts>>

RunLoopDone(j) ==
  /\ At(j, "next") /\ run[j].todo = {}
  /\ run' = [run EXCEPT ![j].at = "end"]
  /\ UNCHANGED <<fs, config, manifests, undo, bounds, ghosts>>

RunTo(j, at, outcome) == run' = [run EXCEPT ![j].at = at, ![j].outcome = outcome]

Transfer(j) ==
  [flow |-> j, run |-> run[j].number, source |-> run[j].source, target |-> run[j].target]

Transferred(j) == transferred' = transferred \cup {Transfer(j)}

\* A hash of the source, for verify_after_copy.
RunReads(j, at) ==
  IF Exists(run[j].source)
  THEN run' = [run EXCEPT ![j].at = at, ![j].sum = fs[run[j].source]]
  ELSE RunTo(j, "audit", "failed")

\* A move takes it before the transfer.
RunSum(j) ==
  /\ At(j, "sum")
  /\ RunReads(j, "transfer")
  /\ UNCHANGED <<fs, config, manifests, undo, bounds, ghosts>>

\* fs::copy; or fs::rename, and fs::copy when that crosses devices.  A move that
\* overwrites removes the old target first, even if the source has vanished.
RunTransfer(j) ==
  LET from == run[j].source
      to == run[j].target
      options == config[j]
      cleared == IF options.mode = "move" /\ options.conflict = "overwrite"
                 THEN [fs EXCEPT ![to] = Nothing] ELSE fs
      copied == [cleared EXCEPT ![to] = fs[from]]
      After(step, plain) == IF options.verify THEN step ELSE plain
  IN  /\ At(j, "transfer")
      /\ Disturb(j)
      /\ Arrives(fs[from], to, InRun(to, Flows \ {j}) \/ InUndo(to, Flows))
      /\ replaced' = IF options.conflict = "overwrite" /\ (options.mode = "move" \/ Exists(from))
                     THEN (replaced \cup {fs[to]}) \ {Nothing} ELSE replaced
      /\ IF ~Exists(from)
         THEN fs' = cleared /\ RunTo(j, "audit", "failed") /\ UNCHANGED transferred
         ELSE IF options.mode = "copy"
         THEN fs' = copied /\ RunTo(j, After("verify", "hash"), "copied") /\ Transferred(j)
         ELSE IF options.sameDevice
         THEN /\ fs' = [copied EXCEPT ![from] = Nothing]
              /\ RunTo(j, After("compare", "hash"), "moved") /\ Transferred(j)
         ELSE fs' = copied /\ RunTo(j, After("confirm", "remove"), "none") /\ UNCHANGED transferred
      /\ UNCHANGED <<config, manifests, undo, bounds, discarded>>

\* The file in hand fails verification: an error, although it has been copied or
\* moved.  That is no surprise once somebody else has changed files.
Rejected(j) ==
  transferred' = IF before[j] = NoSnapshot THEN transferred \ {Transfer(j)} ELSE transferred

\* verify_copy hashes the source, which may have changed, and then the target.
RunVerify(j) ==
  /\ At(j, "verify")
  /\ RunReads(j, "compare")
  /\ IF Exists(run[j].source) THEN UNCHANGED transferred ELSE Rejected(j)
  /\ UNCHANGED <<fs, config, manifests, undo, bounds, discarded, replaced, unguarded, before>>

\* A target that differs or is gone stays as it is, and no item says so.
RunCompare(j) ==
  /\ At(j, "compare")
  /\ IF fs[run[j].target] = run[j].sum
     THEN RunTo(j, "hash", run[j].outcome) /\ UNCHANGED transferred
     ELSE RunTo(j, "audit", "failed") /\ Rejected(j)
  /\ UNCHANGED <<fs, config, manifests, undo, bounds, discarded, replaced, unguarded, before>>

\* After a copy to another device: a good copy is what the source is removed for,
\* whatever the source has become since its hash; a bad one is removed itself.
RunConfirm(j) ==
  LET from == run[j].source
      to == run[j].target
  IN  /\ At(j, "confirm")
      /\ IF fs[to] = run[j].sum
         THEN /\ RunTo(j, "remove", "none")
              /\ Arrives(fs[from], to, InRun(to, Flows \ {j}) \/ fs[from] # run[j].sum)
         ELSE /\ IF Exists(to) THEN RunTo(j, "discard", "none") ELSE RunTo(j, "audit", "failed")
              /\ UNCHANGED unguarded
      /\ UNCHANGED <<fs, config, manifests, undo, bounds, discarded, replaced, transferred, before>>

RunDiscard(j) ==
  /\ At(j, "discard")
  /\ fs' = [fs EXCEPT ![run[j].target] = Nothing]
  /\ RunTo(j, "audit", "failed")
  /\ Disturb(j)
  /\ UNCHANGED <<config, manifests, undo, bounds, discarded, replaced, unguarded, transferred>>

\* A hash of verify_after_copy, a transfer or a removal fails on a file that is there.
RunFileError(j) ==
  /\ run[j].at \in {"sum", "transfer", "verify", "compare", "confirm", "discard", "remove"}
  /\ faults < MaxFaults
  /\ faults' = faults + 1
  /\ RunTo(j, "audit", "failed")
  /\ transferred' = transferred \ {Transfer(j)}
  /\ before' = [before EXCEPT ![j] = NoSnapshot]
  /\ UNCHANGED <<fs, config, manifests, undo, writes, runs, discarded, replaced, unguarded>>

\* fs::remove_file after the copy to another device.
RunRemoveSource(j) ==
  /\ At(j, "remove")
  /\ IF Exists(run[j].source)
     THEN RunTo(j, "hash", "moved") /\ Transferred(j)
     ELSE RunTo(j, "audit", "failed") /\ UNCHANGED transferred
  /\ fs' = [fs EXCEPT ![run[j].source] = Nothing]
  /\ Disturb(j)
  /\ UNCHANGED <<config, manifests, undo, bounds, discarded, replaced, unguarded>>

RunHash(j) ==
  /\ At(j, "hash")
  /\ run' = [run EXCEPT ![j].at = "audit",
                        ![j].items = Append(@, Recorded(j, run[j].outcome, fs[run[j].target]))]
  /\ UNCHANGED <<fs, config, manifests, undo, bounds, ghosts>>

RunAudit(j) ==
  /\ At(j, "audit")
  /\ LET stop == run[j].outcome = "failed" /\ config[j].stopOnError
     IN  run' = [run EXCEPT ![j].at = IF stop THEN "end" ELSE "next",
                            ![j].todo = IF stop THEN {} ELSE @,
                            ![j].source = NoPath, ![j].target = NoPath, ![j].outcome = "none",
                            ![j].sum = Nothing]
  /\ UNCHANGED <<fs, config, manifests, undo, bounds, ghosts>>

\* jobs.save with last_run, then the manifest, if there is anything to record.
RunEnd(j) ==
  /\ At(j, "end")
  /\ IF run[j].items = <<>>
     THEN UNCHANGED manifests /\ before' = [before EXCEPT ![j] = NoSnapshot]
     ELSE /\ manifests' = Append(manifests, [flow |-> j, run |-> run[j].number,
                                            items |-> run[j].items, undone |-> FALSE])
          /\ UNCHANGED before
  /\ run' = [run EXCEPT ![j] = NotRunning]
  /\ UNCHANGED <<fs, config, undo, bounds, discarded, replaced, unguarded, transferred>>

\* audit.append, jobs.save or the manifest's insert fails: the run is over, and
\* no manifest says what it did.
RunFails(j) ==
  /\ run[j].at \in {"audit", "end"}
  /\ faults < MaxFaults
  /\ faults' = faults + 1
  /\ transferred' = {t \in transferred : t.run # run[j].number}
  /\ run' = [run EXCEPT ![j] = NotRunning]
  /\ before' = [before EXCEPT ![j] = NoSnapshot]
  /\ UNCHANGED <<fs, config, manifests, undo, writes, runs, discarded, replaced, unguarded>>

-----------------------------------------------------------------------------
(***************************************************************************)
(* rollback_job.                                                           *)
(***************************************************************************)

\* WHERE job_id = ? AND rolled_back_at IS NULL ORDER BY created_at DESC
Pending(j) == {m \in DOMAIN manifests : manifests[m].flow = j /\ ~manifests[m].undone}

UndoStart(j) ==
  /\ undo[j].at = "idle"
  /\ \E m \in Pending(j) :
       /\ \A other \in Pending(j) : other <= m
       /\ undo' = [undo EXCEPT ![j] = [at |-> "check", manifest |-> m,
                                       left |-> Len(manifests[m].items)]]
       /\ before' = [before EXCEPT ![j] = IF At(j, "idle") THEN @ ELSE NoSnapshot]
  /\ UNCHANGED <<fs, config, run, manifests, bounds,
                 discarded, replaced, unguarded, transferred>>

UndoItem(j) == manifests[undo[j].manifest].items[undo[j].left]

\* target.exists() && !source.exists(), and the hash if one was recorded.
Undoable_BrokenNoHash(item) ==
  \/ item.status = "moved" /\ Exists(item.target) /\ ~Exists(item.source)
  \/ item.status = "copied" /\ Exists(item.target)

Undoable(item) ==
  /\ \/ item.status = "moved" /\ Exists(item.target) /\ ~Exists(item.source)
     \/ item.status = "copied" /\ Exists(item.target)
  /\ item.hash \in {Nothing, fs[item.target]}

UndoCheck(j) ==
  /\ undo[j].at = "check" /\ undo[j].left > 0
  /\ undo' = IF Undoable(UndoItem(j)) THEN [undo EXCEPT ![j].at = "act"]
                                      ELSE [undo EXCEPT ![j].left = @ - 1]
  /\ UNCHANGED <<fs, config, run, manifests, bounds, ghosts>>

\* fs::rename does not cross devices, and the failure only counts as skipped.
UndoAct(j) ==
  LET item == UndoItem(j)
  IN  /\ undo[j].at = "act"
      /\ fs' = IF item.status = "copied" THEN [fs EXCEPT ![item.target] = Nothing]
               ELSE IF Exists(item.target) /\ config[j].sameDevice
               THEN [fs EXCEPT ![item.source] = fs[item.target], ![item.target] = Nothing]
               ELSE fs
      /\ undo' = [undo EXCEPT ![j].at = "check", ![j].left = @ - 1]
      /\ Disturb(j)
      /\ IF item.status = "copied" THEN UNCHANGED unguarded
         ELSE Arrives(fs[item.target], item.source,
                      InRun(item.source, Flows) \/ InUndo(item.source, Flows \ {j}))
      /\ UNCHANGED <<config, run, manifests, bounds,
                     discarded, replaced, transferred>>

UndoMark(j) ==
  /\ undo[j].at = "check" /\ undo[j].left = 0
  /\ manifests' = [manifests EXCEPT ![undo[j].manifest].undone = TRUE]
  /\ undo' = [undo EXCEPT ![j] = NotUndoing]
  /\ before' = [before EXCEPT ![j] = NoSnapshot]
  /\ UNCHANGED <<fs, config, run, bounds,
                 discarded, replaced, unguarded, transferred>>

\* mark_rolled_back fails.
UndoFails(j) ==
  /\ undo[j].at = "check" /\ undo[j].left = 0
  /\ faults < MaxFaults
  /\ faults' = faults + 1
  /\ undo' = [undo EXCEPT ![j] = NotUndoing]
  /\ before' = [before EXCEPT ![j] = NoSnapshot]
  /\ UNCHANGED <<fs, config, run, manifests, writes, runs,
                 discarded, replaced, unguarded, transferred>>

-----------------------------------------------------------------------------
\* The process ends: runs and rollbacks vanish, files and tables stay.
Crash ==
  /\ faults < MaxFaults
  /\ \E j \in Flows : run[j].at # "idle" \/ undo[j].at # "idle"
  /\ faults' = faults + 1
  /\ transferred' = {t \in transferred : \A j \in Flows : t.run # run[j].number}
  /\ run' = [j \in Flows |-> NotRunning]
  /\ undo' = [j \in Flows |-> NotUndoing]
  /\ before' = Disturbed
  /\ UNCHANGED <<fs, config, manifests, writes, runs, discarded, replaced, unguarded>>

RunStep(j) ==
  \/ RunNext(j) \/ RunCancelled(j) \/ RunLoopDone(j) \/ RunSum(j) \/ RunTransfer(j)
  \/ RunVerify(j) \/ RunCompare(j) \/ RunConfirm(j) \/ RunDiscard(j) \/ RunFileError(j)
  \/ RunRemoveSource(j) \/ RunHash(j) \/ RunAudit(j) \/ RunEnd(j) \/ RunFails(j)

UndoStep(j) == UndoCheck(j) \/ UndoAct(j) \/ UndoMark(j) \/ UndoFails(j)

Next ==
  \/ \E p \in Paths : UserWrite(p) \/ UserDelete(p)
  \/ \E j \in Flows : RunStart(j) \/ RunStep(j) \/ UndoStart(j) \/ UndoStep(j)
  \/ Crash

Spec == Init /\ [][Next]_vars

-----------------------------------------------------------------------------
(***************************************************************************)
(* Properties.                                                             *)
(***************************************************************************)

\* No file's content disappears unless a user discarded it, the overwrite
\* strategy replaced it, or it was written under a step that had already
\* looked: neither a run, a cancellation, a crash nor a rollback loses a file.
NothingLost ==
  \A c \in 1..writes :
    \/ \E p \in Paths : fs[p] = c
    \/ c \in discarded \cup replaced \cup unguarded

\* Every file that a run copied or moved is recorded for rollback, in the run itself
\* or in its manifest; a cancelled run is no exception.  Exceptions are runs that a
\* fault interrupted, and files that failed verification: process_file leaves them
\* where they are and returns no item, but only if somebody else has changed files
\* since the run began, or a hash failed.
TransfersRecorded ==
  LET Lists(items, t) == \E i \in DOMAIN items :
                           items[i].source = t.source /\ items[i].target = t.target
  IN  \A t \in transferred :
        \/ /\ run[t.flow].number = t.run
           /\ \/ /\ run[t.flow].at \in {"verify", "compare", "hash"}
                 /\ run[t.flow].source = t.source /\ run[t.flow].target = t.target
              \/ Lists(run[t.flow].items, t)
        \/ \E m \in DOMAIN manifests : manifests[m].run = t.run /\ Lists(manifests[m].items, t)

\* A rollback that follows the flow's latest run, with nobody else at work,
\* leaves the file system as it was before that run (the overwrite strategy
\* and moves across devices aside).
Undone(j) == undo[j].at = "check" /\ undo[j].left = 0 /\ before[j] # NoSnapshot

UndoRestores ==
  \A j \in Flows :
    Undone(j) /\ config[j].conflict # "overwrite" /\ config[j].sameDevice => fs = before[j]

=============================================================================
