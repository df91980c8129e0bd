------------------------------ MODULE JobQueue ------------------------------
(***************************************************************************)
(* The job queue of autoflow-core/src/queue.rs: client calls (enqueue,     *)
(* cancel, pause, resume, stop_all), the one worker that reads the channel,*)
(* and one task per started execution.                                     *)
(*                                                                         *)
(* The shared maps are each behind a lock of their own, so a step here is  *)
(* one critical section of the code.  Neighbouring sections are one step   *)
(* only where no other thread can tell them apart: `cancelled` is written  *)
(* by the worker alone while an id can still reach it, and a token is seen *)
(* by the worker and by the task it belongs to.                            *)
(*                                                                         *)
(* A definition whose name ends in _Broken... is not part of the model: it *)
(* is a plausible bug in the definition that follows it, which PROJECT.json*)
(* puts in that definition's place to see a property fail.                 *)
(***************************************************************************)
EXTENDS Integers, Sequences

CONSTANTS
  Jobs,         \* the configured jobs
  Execs,        \* execution ids, handed out once each (Uuid::new_v4)
  NoJob,        \* the job of an id not handed out yet
  NoExec,       \* an empty slot of running_jobs, or an empty hand
  MaxCalls      \* bound: calls of pause, stop_all and cancel in a behaviour

ASSUME NoJobAssumption == NoJob \notin Jobs
ASSUME NoExecAssumption == NoExec \notin Execs
ASSUME MaxCallsAssumption == MaxCalls \in Nat

VARIABLES
  (*************************************************************************)
  (* The fields of JobQueue and of its worker.                             *)
  (*************************************************************************)
  queued,       \* keys of `queued`: accepted, Run message not yet taken
  running,      \* `running_jobs`: job -> execution
  active,       \* keys of `active`: executions that reported progress
  cancelled,    \* `cancelled`: cancelled before they were started
  tokens,       \* keys of `cancel_tokens`
  fired,        \* executions whose CancellationToken is cancelled
  chan,         \* the unbounded mpsc channel
  pending,      \* `pending`: Run messages received while paused
  paused,       \* the AtomicBool
  woken,        \* the worker's Notified future has been notified
  (*************************************************************************)
  (* Control.                                                              *)
  (*************************************************************************)
  wpc,          \* where the worker is
  hand,         \* the execution of the Run message the worker holds
  task,         \* where each execution's task is
  failing,      \* tasks whose run_job returned Err
  stopping,     \* whether a stop_all is under way ...
  toStop,       \* ... and the ids of its snapshot still to be cancelled
  (*************************************************************************)
  (* Observed by the properties.                                           *)
  (*************************************************************************)
  jobOf,        \* the job each id was handed out for
  completions,  \* Completed events emitted per execution
  dropped,      \* Run messages discarded because their job was running
  swept,        \* executions whose pending Run message a stop_all cleared
  pausedStarts, \* executions admitted since the last pause, while paused
  missedResume, \* a resume fell between the load and the registration
  calls         \* pause, stop_all and cancel calls so far

tables   == <<queued, running, active, cancelled, tokens, fired>>
channel  == <<chan, pending>>
gate     == <<paused, woken, missedResume>>
worker   == <<wpc, hand>>
tasks    == <<task, failing>>
stopper  == <<stopping, toStop>>
observed == <<jobOf, completions, dropped, swept, pausedStarts, calls>>
queueVars == <<queued, running, active, cancelled, tokens, fired, chan, pending,
          paused, woken, wpc, hand, task, failing, stopping, toStop, jobOf,
          completions, dropped, swept, pausedStarts, missedResume, calls>>

RunMsg(e)    == [kind |-> "run", exec |-> e]
CancelMsg(e) == [kind |-> "cancel", exec |-> e]
Messages     == [kind : {"run", "cancel"}, exec : Execs]

\* The sequence has the member.
Holds(s, x) == \E i \in DOMAIN s : s[i] = x

WorkerPlaces == {"top", "selecting", "parked", "pop", "recv", "admit", "spawn"}

\* The phases in which run_job works on the files, those of completed_cb or
\* of the error branch, one per lock it takes, and those before and after.
BusyPhases == {"starting", "working"}
TaskPhases == BusyPhases
              \cup {"none", "relActive", "relRunning", "relToken", "emit", "done"}

QueueInit ==
  /\ queued = {}
  /\ running = [j \in Jobs |-> NoExec]
  /\ active = {} /\ cancelled = {} /\ tokens = {} /\ fired = {}
  /\ chan = <<>> /\ pending = <<>>
  /\ paused = FALSE /\ woken = FALSE /\ missedResume = FALSE
  /\ wpc = "top" /\ hand = NoExec
  /\ task = [e \in Execs |-> "none"] /\ failing = {}
  /\ stopping = FALSE /\ toStop = {}
  /\ jobOf = [e \in Execs |-> NoJob]
  /\ completions = [e \in Execs |-> 0]
  /\ dropped = {} /\ swept = {} /\ pausedStarts = 0 /\ calls = 0

-----------------------------------------------------------------------------
(***************************************************************************)
(* Client calls.                                                           *)
(***************************************************************************)

JobIsFree_BrokenUnchecked(j) == TRUE

\* running_jobs does not contain the job.
JobIsFree(j) == running[j] = NoExec

\* enqueue accepts a job that is neither in running_jobs nor in `queued`; the
\* `queued` write lock is held from the test to the insertion.
Enqueue(j, e) ==
  /\ jobOf[e] = NoJob
  /\ JobIsFree(j)
  /\ \A q \in queued : jobOf[q] # j
  /\ queued' = queued \cup {e}
  /\ jobOf' = [jobOf EXCEPT ![e] = j]
  /\ chan' = Append(chan, RunMsg(e))
  /\ UNCHANGED <<running, active, cancelled, tokens, fired, pending, gate,
                 worker, tasks, stopper, completions, dropped, swept,
                 pausedStarts, calls>>

\* cancel refuses an id that is in neither table (ExecutionNotFound).
Cancellable(e) == e \in active \cup queued

Cancel(e) ==
  /\ calls < MaxCalls
  /\ Cancellable(e)
  /\ chan' = Append(chan, CancelMsg(e))
  /\ calls' = calls + 1
  /\ UNCHANGED <<tables, pending, gate, worker, tasks, stopper, jobOf,
                 completions, dropped, swept, pausedStarts>>

Pause ==
  /\ calls < MaxCalls
  /\ paused' = TRUE
  /\ pausedStarts' = 0
  /\ calls' = calls + 1
  /\ UNCHANGED <<tables, channel, woken, missedResume, worker, tasks, stopper,
                 jobOf, completions, dropped, swept>>

Resume_BrokenNoNotify ==
  /\ paused
  /\ paused' = FALSE
  /\ UNCHANGED <<tables, channel, woken, missedResume, worker, tasks, stopper,
                 observed>>

\* notify_waiters wakes the futures that exist: nobody, while the worker is
\* between its load of `paused` and the creation of its Notified future.
Resume ==
  /\ paused
  /\ paused' = FALSE
  /\ woken' = (woken \/ wpc = "parked")
  /\ missedResume' = (missedResume \/ wpc = "selecting")
  /\ UNCHANGED <<tables, channel, worker, tasks, stopper, observed>>

\* stop_all takes a snapshot of the active ids, cancels them one by one,
\* ignoring those that are gone by then, and clears `pending`.
StopAllBegin ==
  /\ calls < MaxCalls
  /\ ~stopping
  /\ stopping' = TRUE
  /\ toStop' = active
  /\ calls' = calls + 1
  /\ UNCHANGED <<tables, channel, gate, worker, tasks, jobOf, completions,
                 dropped, swept, pausedStarts>>

StopAllCancel(e) ==
  /\ e \in toStop
  /\ toStop' = toStop \ {e}
  /\ chan' = IF Cancellable(e) THEN Append(chan, CancelMsg(e)) ELSE chan
  /\ UNCHANGED <<tables, pending, gate, worker, tasks, stopping, observed>>

StopAllClear ==
  /\ stopping /\ toStop = {}
  /\ stopping' = FALSE
  /\ pending' = <<>>
  /\ swept' = swept \cup {pending[i] : i \in DOMAIN pending}
  /\ UNCHANGED <<tables, chan, gate, worker, tasks, toStop, jobOf, completions,
                 dropped, pausedStarts, calls>>

-----------------------------------------------------------------------------
(***************************************************************************)
(* The worker.                                                             *)
(***************************************************************************)

WorkerAt(from, to) == wpc = from /\ wpc' = to

WorkerLoadPaused_BrokenIgnored ==
  /\ WorkerAt("top", "pop")
  /\ UNCHANGED <<tables, channel, gate, hand, tasks, stopper, observed>>

\* The test of `paused` at the top of the loop.
WorkerLoadPaused ==
  /\ \/ paused /\ WorkerAt("top", "selecting")
     \/ ~paused /\ WorkerAt("top", "pop")
  /\ UNCHANGED <<tables, channel, gate, hand, tasks, stopper, observed>>

\* select! creates the Notified future and waits.
WorkerPark ==
  /\ WorkerAt("selecting", "parked")
  /\ woken' = FALSE
  /\ UNCHANGED <<tables, channel, paused, missedResume, hand, tasks, stopper,
                 observed>>

WorkerWake ==
  /\ woken
  /\ WorkerAt("parked", "top")
  /\ woken' = FALSE
  /\ missedResume' = FALSE
  /\ UNCHANGED <<tables, channel, paused, hand, tasks, stopper, observed>>

WorkerSetAside_BrokenLost ==
  /\ WorkerAt("parked", "top")
  /\ chan # <<>> /\ Head(chan).kind = "run"
  /\ chan' = Tail(chan)
  /\ woken' = FALSE
  /\ missedResume' = FALSE
  /\ UNCHANGED <<tables, pending, paused, hand, tasks, stopper, observed>>

\* A Run message received by the paused branch is set aside.
WorkerSetAside ==
  /\ WorkerAt("parked", "top")
  /\ chan # <<>> /\ Head(chan).kind = "run"
  /\ pending' = Append(pending, Head(chan).exec)
  /\ chan' = Tail(chan)
  /\ woken' = FALSE
  /\ missedResume' = FALSE
  /\ UNCHANGED <<tables, paused, hand, tasks, stopper, observed>>

CancelStarted_BrokenNotFired(e) ==
  /\ e \in tokens
  /\ tokens' = tokens \ {e}
  /\ UNCHANGED <<queued, cancelled, fired, completions>>

\* Both branches treat Cancel alike: fire the token of a started execution,
\* or close one that is still queued, or do nothing.
CancelStarted(e) ==
  /\ e \in tokens
  /\ tokens' = tokens \ {e}
  /\ fired' = fired \cup {e}
  /\ UNCHANGED <<queued, cancelled, completions>>

CancelQueued(e) ==
  /\ e \notin tokens
  /\ e \in queued
  /\ queued' = queued \ {e}
  /\ cancelled' = cancelled \cup {e}
  /\ completions' = [completions EXCEPT ![e] = @ + 1]
  /\ UNCHANGED <<tokens, fired>>

CancelNothing(e) ==
  /\ e \notin tokens
  /\ e \notin queued
  /\ UNCHANGED <<queued, cancelled, tokens, fired, completions>>

\* The places where the worker waits on the channel.
Receiving_BrokenNotWhilePaused == {"recv"}

Receiving == {"parked", "recv"}

WorkerCancel ==
  /\ wpc \in Receiving
  /\ wpc' = "top"
  /\ chan # <<>> /\ Head(chan).kind = "cancel"
  /\ chan' = Tail(chan)
  /\ LET e == Head(chan).exec
     IN  CancelStarted(e) \/ CancelQueued(e) \/ CancelNothing(e)
  /\ woken' = FALSE
  /\ missedResume' = FALSE
  /\ UNCHANGED <<running, active, pending, paused, hand, tasks, stopper, jobOf,
                 dropped, swept, pausedStarts, calls>>

WorkerPopPending_BrokenPeek ==
  /\ pending # <<>>
  /\ WorkerAt("pop", "admit")
  /\ hand' = pending[Len(pending)]
  /\ queued' = queued \ {hand'}
  /\ UNCHANGED <<running, active, cancelled, tokens, fired, channel, gate, tasks,
                 stopper, observed>>

\* Not paused: the message set aside last comes first, then the channel.
WorkerPopPending ==
  /\ pending # <<>>
  /\ WorkerAt("pop", "admit")
  /\ hand' = pending[Len(pending)]
  /\ pending' = SubSeq(pending, 1, Len(pending) - 1)
  /\ queued' = queued \ {hand'}
  /\ UNCHANGED <<running, active, cancelled, tokens, fired, chan, gate, tasks,
                 stopper, observed>>

WorkerNothingPending ==
  /\ pending = <<>>
  /\ WorkerAt("pop", "recv")
  /\ UNCHANGED <<tables, channel, gate, hand, tasks, stopper, observed>>

WorkerTakeRun ==
  /\ WorkerAt("recv", "admit")
  /\ chan # <<>> /\ Head(chan).kind = "run"
  /\ hand' = Head(chan).exec
  /\ chan' = Tail(chan)
  /\ queued' = queued \ {hand'}
  /\ UNCHANGED <<running, active, cancelled, tokens, fired, pending, gate,
                 tasks, stopper, observed>>

\* The id was cancelled while queued: a second Completed is emitted.
WorkerSkipCancelled ==
  /\ WorkerAt("admit", "top")
  /\ hand \in cancelled
  /\ cancelled' = cancelled \ {hand}
  /\ completions' = [completions EXCEPT ![hand] = @ + 1]
  /\ hand' = NoExec
  /\ UNCHANGED <<queued, running, active, tokens, fired, channel, gate, tasks,
                 stopper, jobOf, dropped, swept, pausedStarts, calls>>

\* The job is in running_jobs already: `continue`, without an event.
WorkerDropDuplicate ==
  /\ WorkerAt("admit", "top")
  /\ hand \notin cancelled
  /\ ~JobIsFree(jobOf[hand])
  /\ dropped' = dropped \cup {hand}
  /\ hand' = NoExec
  /\ UNCHANGED <<tables, channel, gate, tasks, stopper, jobOf, completions,
                 swept, pausedStarts, calls>>

WorkerAdmit ==
  /\ WorkerAt("admit", "spawn")
  /\ hand \notin cancelled
  /\ JobIsFree(jobOf[hand])
  /\ running' = [running EXCEPT ![jobOf[hand]] = hand]
  /\ pausedStarts' = pausedStarts + (IF paused THEN 1 ELSE 0)
  /\ UNCHANGED <<queued, active, cancelled, tokens, fired, channel, gate, hand,
                 tasks, stopper, jobOf, completions, dropped, swept, calls>>

WorkerSpawn_BrokenKeepsHand ==
  /\ WorkerAt("spawn", "top")
  /\ tokens' = tokens \cup {hand}
  /\ task' = [task EXCEPT ![hand] = "starting"]
  /\ UNCHANGED <<queued, running, active, cancelled, fired, channel, gate, hand,
                 failing, stopper, observed>>

\* The token is created, cancelled at once if the id is in `cancelled`, and
\* moved into the spawned task.
WorkerSpawn ==
  /\ WorkerAt("spawn", "top")
  /\ tokens' = tokens \cup {hand}
  /\ fired' = IF hand \in cancelled THEN fired \cup {hand} ELSE fired
  /\ task' = [task EXCEPT ![hand] = "starting"]
  /\ hand' = NoExec
  /\ UNCHANGED <<queued, running, active, cancelled, channel, gate, failing,
                 stopper, observed>>

-----------------------------------------------------------------------------
(***************************************************************************)
(* The task of execution e.                                                *)
(***************************************************************************)

TaskMove(e, from, to) ==
  /\ task[e] \in from
  /\ task' = [task EXCEPT ![e] = to]

\* on_progress, before each file.
TaskProgress(e) ==
  /\ TaskMove(e, BusyPhases, "working")
  /\ active' = active \cup {e}
  /\ UNCHANGED <<queued, running, cancelled, tokens, fired, channel, gate,
                 worker, failing, stopper, observed>>

\* The file loop sees the fired token, or has no file left.
TaskBreak(e) ==
  /\ e \in fired
  /\ TaskMove(e, BusyPhases, "relActive")
  /\ UNCHANGED <<tables, channel, gate, worker, failing, stopper, observed>>

TaskFinish(e) ==
  /\ TaskMove(e, BusyPhases, "relActive")
  /\ UNCHANGED <<tables, channel, gate, worker, failing, stopper, observed>>

\* An early return of run_job: job gone or disabled, no source, a script, the
\* audit log, the package or the final save failed.
TaskFail(e) ==
  /\ TaskMove(e, BusyPhases, "relActive")
  /\ failing' = failing \cup {e}
  /\ UNCHANGED <<tables, channel, gate, worker, stopper, observed>>

\* completed_cb and the error branch remove the id from the tables one by one.
TaskReleaseActive(e) ==
  /\ TaskMove(e, {"relActive"}, "relRunning")
  /\ active' = active \ {e}
  /\ UNCHANGED <<queued, running, cancelled, tokens, fired, channel, gate,
                 worker, failing, stopper, observed>>

TaskReleaseRunning_BrokenOnError(e) ==
  /\ TaskMove(e, {"relRunning"}, "relToken")
  /\ running' = IF e \in failing THEN running
                ELSE [running EXCEPT ![jobOf[e]] = NoExec]
  /\ UNCHANGED <<queued, active, cancelled, tokens, fired, channel, gate,
                 worker, failing, stopper, observed>>

TaskReleaseRunning(e) ==
  /\ TaskMove(e, {"relRunning"}, "relToken")
  /\ running' = [running EXCEPT ![jobOf[e]] = NoExec]
  /\ UNCHANGED <<queued, active, cancelled, tokens, fired, channel, gate,
                 worker, failing, stopper, observed>>

TaskReleaseToken(e) ==
  /\ TaskMove(e, {"relToken"}, "emit")
  /\ tokens' = tokens \ {e}
  /\ UNCHANGED <<queued, running, active, cancelled, fired, channel, gate,
                 worker, failing, stopper, observed>>

\* Only the error branch clears `cancelled`.
TaskEmitCompleted(e) ==
  /\ TaskMove(e, {"emit"}, "done")
  /\ cancelled' = IF e \in failing THEN cancelled \ {e} ELSE cancelled
  /\ completions' = [completions EXCEPT ![e] = @ + 1]
  /\ UNCHANGED <<queued, running, active, tokens, fired, channel, gate, worker,
                 failing, stopper, jobOf, dropped, swept, pausedStarts, calls>>

-----------------------------------------------------------------------------
Clients ==
  \/ \E j \in Jobs, e \in Execs : Enqueue(j, e)
  \/ \E e \in Execs : Cancel(e) \/ StopAllCancel(e)
  \/ Pause \/ Resume
  \/ StopAllBegin \/ StopAllClear

Worker ==
  \/ WorkerLoadPaused \/ WorkerPark \/ WorkerWake \/ WorkerSetAside
  \/ WorkerCancel
  \/ WorkerPopPending \/ WorkerNothingPending \/ WorkerTakeRun
  \/ WorkerSkipCancelled \/ WorkerDropDuplicate \/ WorkerAdmit \/ WorkerSpawn

TaskRelease(e) ==
  \/ TaskReleaseActive(e) \/ TaskReleaseRunning(e)
  \/ TaskReleaseToken(e) \/ TaskEmitCompleted(e)

Task(e) ==
  \/ TaskProgress(e) \/ TaskBreak(e) \/ TaskFinish(e) \/ TaskFail(e)
  \/ TaskRelease(e)

QueueNext == Clients \/ Worker \/ \E e \in Execs : Task(e)

QueueSpec == QueueInit /\ [][QueueNext]_queueVars

-----------------------------------------------------------------------------
(***************************************************************************)
(* Safety.                                                                 *)
(***************************************************************************)

TypeOK ==
  /\ queued \subseteq Execs
  /\ running \in [Jobs -> Execs \cup {NoExec}]
  /\ active \subseteq Execs /\ cancelled \subseteq Execs
  /\ tokens \subseteq Execs /\ fired \subseteq Execs
  /\ chan \in Seq(Messages) /\ pending \in Seq(Execs)
  /\ paused \in BOOLEAN /\ woken \in BOOLEAN /\ missedResume \in BOOLEAN
  /\ wpc \in WorkerPlaces
  /\ hand \in Execs \cup {NoExec}
  /\ (wpc \in {"admit", "spawn"}) <=> (hand # NoExec)
  /\ task \in [Execs -> TaskPhases] /\ failing \subseteq Execs
  /\ stopping \in BOOLEAN /\ toStop \subseteq Execs
  /\ jobOf \in [Execs -> Jobs \cup {NoJob}]
  /\ completions \in [Execs -> Nat]
  /\ dropped \subseteq Execs /\ swept \subseteq Execs
  /\ pausedStarts \in Nat /\ calls \in Nat

\* The execution owns its job: from the insertion into running_jobs until its
\* own removal.
Owns(e) ==
  \/ task[e] \in BusyPhases \cup {"relActive", "relRunning"}
  \/ wpc = "spawn" /\ hand = e

\* One job never has two executions working at once, although running_jobs is
\* written by the worker and by every task, under locks taken separately.
MutualExclusion ==
  \A e1, e2 \in Execs :
    Owns(e1) /\ Owns(e2) /\ jobOf[e1] = jobOf[e2] => e1 = e2

\* running_jobs names exactly the owners: no execution works on a job that the
\* table shows free, and no entry outlives its execution (which would refuse
\* the job with AlreadyRunning for ever).
RunningTableExact ==
  /\ \A e \in Execs : Owns(e) => jobOf[e] \in Jobs /\ running[jobOf[e]] = e
  /\ \A j \in Jobs : running[j] # NoExec => Owns(running[j]) /\ jobOf[running[j]] = j

\* A working execution can always still be stopped, or has been told to: its
\* token is in the table, or was fired when it was taken out.
StoppableWhileBusy ==
  \A e \in Execs : task[e] \in BusyPhases => e \in tokens \/ e \in fired

\* pause() does not stop a worker that has passed the test of `paused`, but at
\* most one execution starts between a pause and the next resume.
PauseLeaksAtMostOne == paused => pausedStarts <= 1

\* The worker sleeps in a queue that is not paused only if it is about to wake,
\* or if resume came between the load of `paused` and the registration for the
\* notification.
LostWakeupOnlyInWindow ==
  wpc = "parked" /\ ~paused => woken \/ missedResume

\* An id that makes enqueue refuse its job with AlreadyRunning ("Job ja na
\* fila") still has a Run message that the worker will take, unless a stop_all
\* cleared it: stop_all empties `pending` and leaves `queued` as it is.
StrandedOnlyByStopAll ==
  \A e \in queued :
    Holds(chan, RunMsg(e)) \/ Holds(pending, e) \/ e \in swept

\* The queue implements the life cycle of ExecutionLifecycle.
stageOf ==
  [e \in Execs |->
     CASE Owns(e) -> "running"
       [] ~Owns(e) /\ ( \/ completions[e] > 0 \/ e \in dropped
                        \/ task[e] \in {"relToken", "emit", "done"}) -> "closed"
       [] OTHER -> IF jobOf[e] = NoJob THEN "new" ELSE "accepted"]

Lifecycle == INSTANCE ExecutionLifecycle WITH stage <- stageOf

\* Every step of worker, tasks and clients is a step of the life cycle or does
\* not show in it: an execution cancelled in the queue is never started later,
\* none is started twice, and two of one job never overlap.
ImplementsLifecycle == Lifecycle!Spec

-----------------------------------------------------------------------------
(***************************************************************************)
(* Liveness.  The runtime schedules the worker and the tasks; nothing is   *)
(* assumed of the clients, and nothing of how long a run takes: TaskFinish *)
(* and TaskFail are not fair.                                              *)
(***************************************************************************)

FairSpec ==
  /\ QueueSpec
  /\ WF_queueVars(Worker)
  /\ \A e \in Execs : WF_queueVars(TaskBreak(e)) /\ WF_queueVars(TaskRelease(e))

Closed(e) == stageOf[e] = "closed"

CancelSent(e) == Holds(chan, CancelMsg(e))

\* An accepted cancel takes effect, paused or not, however long the run would
\* have gone on: the execution is closed.
CancelTakesEffect == \A e \in Execs : CancelSent(e) ~> Closed(e)

\* What was set aside during a pause is taken up after resume, unless the queue
\* is paused again or the resume fell into the window of LostWakeupOnlyInWindow.
ResumeTakesUpPending ==
  \A e \in Execs :
    Holds(pending, e) ~> ~Holds(pending, e) \/ paused \/ missedResume

=============================================================================
