-------------------------- MODULE ExecutionProofs ---------------------------
(***************************************************************************)
(* Theorems about JobQueue, for every set of jobs and execution ids and    *)
(* every bound on the number of calls.                                     *)
(***************************************************************************)
EXTENDS JobQueue, FlowRuns, SequenceTheorems, WellFoundedInduction, TLAPS

\* What taking the first message off the channel yields.
LEMMA TakeFirst ==
  ASSUME NEW S, NEW s \in Seq(S), s # <<>>
  PROVE  Head(s) \in S /\ Tail(s) \in Seq(S)
  BY HeadTailProperties

\* What taking the last message off the pending list yields.
LEMMA TakeLast ==
  ASSUME NEW S, NEW s \in Seq(S), s # <<>>
  PROVE  s[Len(s)] \in S /\ SubSeq(s, 1, Len(s) - 1) \in Seq(S)
<1>1. Len(s) \in Nat \ {0}
  BY EmptySeq
<1>2. \A i \in 1..Len(s) : s[i] \in S
  BY ElementOfSeq
<1>3. s[Len(s)] \in S /\ \A i \in 1..(Len(s) - 1) : s[i] \in S
  BY <1>1, <1>2
<1>4. 1 \in Int /\ Len(s) - 1 \in Int
  BY <1>1
<1>5. SubSeq(s, 1, Len(s) - 1) \in Seq(S)
  BY <1>3, <1>4, SubSeqProperties
<1>6. QED BY <1>3, <1>5

\* The empty queue is well typed.
LEMMA InitTypeOK == QueueInit => TypeOK
<1> USE NoJobAssumption, NoExecAssumption
<1> SUFFICES ASSUME QueueInit PROVE TypeOK
  OBVIOUS
<1>1. chan \in Seq(Messages) /\ pending \in Seq(Execs)
  BY EmptySeq DEF QueueInit
<1>2. running \in [Jobs -> Execs \cup {NoExec}] /\ task \in [Execs -> TaskPhases]
  BY DEF QueueInit, TaskPhases
<1>3. jobOf \in [Execs -> Jobs \cup {NoJob}] /\ completions \in [Execs -> Nat]
  BY DEF QueueInit
<1>4. QED BY <1>1, <1>2, <1>3 DEF QueueInit, TypeOK, WorkerPlaces

\* No call, step of the worker or step of a task leaves the types.
LEMMA TypeOKStep == TypeOK /\ [QueueNext]_queueVars => TypeOK'
<1> USE NoJobAssumption, NoExecAssumption, MaxCallsAssumption
<1> SUFFICES ASSUME TypeOK, [QueueNext]_queueVars PROVE TypeOK'
  OBVIOUS
<1> USE DEF TypeOK, tables, channel, gate, worker, tasks, stopper, observed,
            WorkerAt, WorkerPlaces, TaskMove, TaskPhases, BusyPhases
<1>1. ASSUME NEW j \in Jobs, NEW e \in Execs, Enqueue(j, e) PROVE TypeOK'
  BY <1>1, AppendProperties DEF Enqueue, RunMsg, Messages
<1>2. ASSUME NEW e \in Execs, Cancel(e) PROVE TypeOK'
  BY <1>2, AppendProperties DEF Cancel, CancelMsg, Messages
<1>3. ASSUME NEW e \in Execs, StopAllCancel(e) PROVE TypeOK'
  BY <1>3, AppendProperties DEF StopAllCancel, CancelMsg, Messages
<1>4. CASE Pause
  BY <1>4 DEF Pause
<1>5. CASE Resume
  BY <1>5 DEF Resume
<1>6. CASE StopAllBegin
  BY <1>6 DEF StopAllBegin
<1>7. CASE StopAllClear
  <2>1. {pending[i] : i \in DOMAIN pending} \subseteq Execs
    BY ElementOfSeq
  <2>2. pending' \in Seq(Execs) /\ swept' \subseteq Execs
    BY <1>7, <2>1, EmptySeq DEF StopAllClear
  <2>3. QED BY <1>7, <2>2 DEF StopAllClear
<1>8. CASE WorkerLoadPaused
  BY <1>8 DEF WorkerLoadPaused
<1>9. CASE WorkerPark
  BY <1>9 DEF WorkerPark
<1>10. CASE WorkerWake
  BY <1>10 DEF WorkerWake
<1>11. CASE WorkerSetAside
  <2>1. Head(chan) \in Messages /\ Tail(chan) \in Seq(Messages)
    BY <1>11, TakeFirst DEF WorkerSetAside
  <2>2. pending' \in Seq(Execs)
    BY <1>11, <2>1, AppendProperties DEF WorkerSetAside, Messages
  <2>3. QED BY <1>11, <2>1, <2>2 DEF WorkerSetAside
<1>12. CASE WorkerCancel
  <2>1. Head(chan) \in Messages /\ Tail(chan) \in Seq(Messages)
    BY <1>12, TakeFirst DEF WorkerCancel
  <2>2. PICK e \in Execs : CancelStarted(e) \/ CancelQueued(e) \/ CancelNothing(e)
    BY <1>12, <2>1 DEF WorkerCancel, Messages
  <2>3. /\ queued' \subseteq Execs /\ cancelled' \subseteq Execs
        /\ tokens' \subseteq Execs /\ fired' \subseteq Execs
        /\ completions' \in [Execs -> Nat]
    <3>1. CASE CancelStarted(e)
      BY <3>1 DEF CancelStarted
    <3>2. CASE CancelQueued(e)
      BY <3>2 DEF CancelQueued
    <3>3. CASE CancelNothing(e)
      BY <3>3 DEF CancelNothing
    <3>4. QED BY <2>2, <3>1, <3>2, <3>3
  <2>4. QED BY <1>12, <2>1, <2>3 DEF WorkerCancel, Receiving
<1>13. CASE WorkerPopPending
  <2>1. hand' \in Execs /\ pending' \in Seq(Execs)
    BY <1>13, TakeLast DEF WorkerPopPending
  <2>2. QED BY <1>13, <2>1 DEF WorkerPopPending
<1>14. CASE WorkerNothingPending
  BY <1>14 DEF WorkerNothingPending
<1>15. CASE WorkerTakeRun
  <2>1. Head(chan) \in Messages /\ Tail(chan) \in Seq(Messages)
    BY <1>15, TakeFirst DEF WorkerTakeRun
  <2>2. hand' \in Execs
    BY <1>15, <2>1 DEF WorkerTakeRun, Messages
  <2>3. QED BY <1>15, <2>1, <2>2 DEF WorkerTakeRun
<1>16. CASE WorkerSkipCancelled
  BY <1>16 DEF WorkerSkipCancelled
<1>17. CASE WorkerDropDuplicate
  BY <1>17 DEF WorkerDropDuplicate
<1>18. CASE WorkerAdmit
  <2>1. running' \in [Jobs -> Execs \cup {NoExec}]
    BY <1>18 DEF WorkerAdmit
  <2>2. pausedStarts' \in Nat
    BY <1>18 DEF WorkerAdmit
  <2>3. QED BY <1>18, <2>1, <2>2 DEF WorkerAdmit
<1>19. CASE WorkerSpawn
  BY <1>19 DEF WorkerSpawn
<1>20. ASSUME NEW e \in Execs, Task(e) PROVE TypeOK'
  <2>1. CASE TaskProgress(e)
    BY <2>1 DEF TaskProgress
  <2>2. CASE TaskBreak(e) \/ TaskFinish(e)
    BY <2>2 DEF TaskBreak, TaskFinish
  <2>3. CASE TaskFail(e)
    BY <2>3 DEF TaskFail
  <2>4. CASE TaskReleaseActive(e)
    BY <2>4 DEF TaskReleaseActive
  <2>5. CASE TaskReleaseRunning(e)
    BY <2>5 DEF TaskReleaseRunning
  <2>6. CASE TaskReleaseToken(e)
    BY <2>6 DEF TaskReleaseToken
  <2>7. CASE TaskEmitCompleted(e)
    BY <2>7 DEF TaskEmitCompleted
  <2>8. QED
    BY <1>20, <2>1, <2>2, <2>3, <2>4, <2>5, <2>6, <2>7 DEF Task, TaskRelease
<1>21. CASE UNCHANGED queueVars
  BY <1>21 DEF queueVars
<1>22. QED
  BY <1>1, <1>2, <1>3, <1>4, <1>5, <1>6, <1>7, <1>8, <1>9, <1>10, <1>11,
     <1>12, <1>13, <1>14, <1>15, <1>16, <1>17, <1>18, <1>19, <1>20, <1>21
     DEF QueueNext, Clients, Worker

\* Every variable keeps its type: in particular the worker holds an id exactly
\* between taking a Run message and spawning, skipping or dropping it.
THEOREM TypeInvariant == QueueSpec => []TypeOK
  BY InitTypeOK, TypeOKStep, PTL DEF QueueSpec

-----------------------------------------------------------------------------
(***************************************************************************)
(* Ownership of a job.  RunningTableExact is not inductive: the worker may *)
(* be about to insert the id it holds, so that id must have been handed    *)
(* out for a job, and the id it is about to spawn must not have a task     *)
(* that owns the job already.                                              *)
(***************************************************************************)

HandedOut == {e \in Execs : jobOf[e] \in Jobs}

\* Every id in use anywhere was handed out by enqueue.
IdsHandedOut ==
  /\ chan \in Seq([kind : {"run", "cancel"}, exec : HandedOut])
  /\ pending \in Seq(HandedOut)
  /\ queued \cup active \cup toStop \subseteq HandedOut
  /\ hand \in HandedOut \cup {NoExec}
  /\ \A e \in Execs : task[e] # "none" => e \in HandedOut

OwningPhases == BusyPhases \cup {"relActive", "relRunning"}

SpawnsIdle == wpc = "spawn" => task[hand] \notin OwningPhases

OwnershipInv == TypeOK /\ IdsHandedOut /\ SpawnsIdle /\ RunningTableExact

\* Nobody owns a job of the empty queue.
LEMMA InitOwnership == QueueInit => OwnershipInv
<1> SUFFICES ASSUME QueueInit PROVE OwnershipInv
  OBVIOUS
<1> USE NoJobAssumption, NoExecAssumption
<1>1. TypeOK
  BY InitTypeOK
<1>2. chan \in Seq([kind : {"run", "cancel"}, exec : HandedOut]) /\ pending \in Seq(HandedOut)
  BY EmptySeq DEF QueueInit
<1>3. IdsHandedOut
  BY <1>2 DEF QueueInit, IdsHandedOut
<1>4. SpawnsIdle
  BY DEF QueueInit, SpawnsIdle
<1>5. RunningTableExact
  BY DEF QueueInit, RunningTableExact, Owns, BusyPhases
<1>6. QED BY <1>1, <1>3, <1>4, <1>5 DEF OwnershipInv

\* No step loses an id's job or uses an id that has none.
LEMMA IdsHandedOutStep ==
  TypeOK /\ IdsHandedOut /\ [QueueNext]_queueVars => IdsHandedOut'
<1> SUFFICES ASSUME TypeOK, IdsHandedOut, [QueueNext]_queueVars PROVE IdsHandedOut'
  OBVIOUS
<1> USE NoJobAssumption, NoExecAssumption
<1> USE DEF tables, channel, gate, worker, tasks, stopper, observed, WorkerAt
<1> DEFINE Msgs == [kind : {"run", "cancel"}, exec : HandedOut]
<1>1. ASSUME NEW j \in Jobs, NEW e \in Execs, Enqueue(j, e) PROVE IdsHandedOut'
  <2>1. HandedOut \subseteq HandedOut' /\ e \in HandedOut'
    BY <1>1 DEF Enqueue, HandedOut, TypeOK
  <2>2. Msgs \subseteq Msgs' /\ RunMsg(e) \in Msgs'
    BY <2>1 DEF RunMsg
  <2>3. chan \in Seq(Msgs')
    BY <2>2, SeqMonotonic DEF IdsHandedOut
  <2>4. chan' \in Seq(Msgs')
    BY <1>1, <2>2, <2>3, AppendProperties DEF Enqueue
  <2>5. pending' \in Seq(HandedOut')
    BY <1>1, <2>1, SeqMonotonic DEF Enqueue, IdsHandedOut
  <2>6. /\ (queued \cup active \cup toStop \subseteq HandedOut)'
        /\ hand' \in HandedOut' \cup {NoExec}
        /\ \A d \in Execs : task'[d] # "none" => d \in HandedOut'
    BY <1>1, <2>1 DEF Enqueue, IdsHandedOut
  <2>7. QED BY <2>4, <2>5, <2>6 DEF IdsHandedOut
<1>2. ASSUME UNCHANGED jobOf PROVE HandedOut' = HandedOut /\ Msgs' = Msgs
  BY <1>2 DEF HandedOut
<1>3. ASSUME NEW e \in Execs, Cancel(e) \/ StopAllCancel(e) PROVE IdsHandedOut'
  <2>1. CASE ~Cancellable(e)
    BY <1>2, <1>3, <2>1 DEF Cancel, StopAllCancel, IdsHandedOut
  <2>2. CASE Cancellable(e)
    <3>1. CancelMsg(e) \in Msgs
      BY <2>2 DEF Cancellable, IdsHandedOut, CancelMsg
    <3>2. chan' = Append(chan, CancelMsg(e)) /\ chan \in Seq(Msgs)
      BY <1>3, <2>2 DEF Cancel, StopAllCancel, IdsHandedOut
    <3>3. chan' \in Seq(Msgs)
      BY <3>1, <3>2, AppendProperties
    <3>4. QED BY <1>2, <1>3, <3>3 DEF Cancel, StopAllCancel, IdsHandedOut
  <2>3. QED BY <2>1, <2>2
<1>4. CASE Pause \/ Resume \/ StopAllBegin
  BY <1>2, <1>4 DEF Pause, Resume, StopAllBegin, IdsHandedOut
<1>5. CASE StopAllClear
  <2>1. pending' \in Seq(HandedOut)
    BY <1>5, EmptySeq DEF StopAllClear
  <2>2. QED BY <1>2, <1>5, <2>1 DEF StopAllClear, IdsHandedOut
<1>6. CASE WorkerSetAside
  <2>1. Head(chan) \in Msgs /\ chan' \in Seq(Msgs)
    BY <1>6, TakeFirst DEF WorkerSetAside, IdsHandedOut
  <2>2. Head(chan).exec \in HandedOut
    BY <2>1
  <2>3. pending' \in Seq(HandedOut)
    BY <1>6, <2>2, AppendProperties DEF WorkerSetAside, IdsHandedOut
  <2>4. QED BY <1>2, <1>6, <2>1, <2>3 DEF WorkerSetAside, IdsHandedOut
<1>7. CASE WorkerCancel
  <2>1. chan' \in Seq(Msgs)
    BY <1>7, TakeFirst DEF WorkerCancel, IdsHandedOut
  <2>2. queued' \subseteq queued
    BY <1>7 DEF WorkerCancel, CancelStarted, CancelQueued, CancelNothing
  <2>3. QED BY <1>2, <1>7, <2>1, <2>2 DEF WorkerCancel, IdsHandedOut
<1>8. CASE WorkerPopPending
  <2>1. hand' \in HandedOut /\ pending' \in Seq(HandedOut)
    BY <1>8, TakeLast DEF WorkerPopPending, IdsHandedOut
  <2>2. QED BY <1>2, <1>8, <2>1 DEF WorkerPopPending, IdsHandedOut
<1>9. CASE WorkerTakeRun
  <2>1. Head(chan) \in Msgs /\ chan' \in Seq(Msgs)
    BY <1>9, TakeFirst DEF WorkerTakeRun, IdsHandedOut
  <2>2. hand' \in HandedOut
    BY <1>9, <2>1 DEF WorkerTakeRun
  <2>3. QED BY <1>2, <1>9, <2>1, <2>2 DEF WorkerTakeRun, IdsHandedOut
<1>10. CASE \/ WorkerLoadPaused \/ WorkerPark \/ WorkerWake \/ WorkerNothingPending
            \/ WorkerSkipCancelled \/ WorkerDropDuplicate \/ WorkerAdmit
  BY <1>2, <1>10 DEF WorkerLoadPaused, WorkerPark, WorkerWake, WorkerNothingPending,
     WorkerSkipCancelled, WorkerDropDuplicate, WorkerAdmit, IdsHandedOut
<1>11. CASE WorkerSpawn
  <2>1. hand \in HandedOut
    BY <1>11 DEF WorkerSpawn, IdsHandedOut, TypeOK
  <2>2. QED BY <1>2, <1>11, <2>1 DEF WorkerSpawn, IdsHandedOut, TypeOK
<1>12. ASSUME NEW e \in Execs, Task(e) PROVE IdsHandedOut'
  <2>1. \E to : task' = [task EXCEPT ![e] = to]
    BY <1>12 DEF Task, TaskRelease, TaskProgress, TaskBreak, TaskFinish, TaskFail,
       TaskReleaseActive, TaskReleaseRunning, TaskReleaseToken, TaskEmitCompleted,
       TaskMove
  <2>2. task[e] # "none" /\ active' \subseteq active \cup {e}
    BY <1>12 DEF Task, TaskRelease, TaskProgress, TaskBreak, TaskFinish, TaskFail,
       TaskReleaseActive, TaskReleaseRunning, TaskReleaseToken, TaskEmitCompleted,
       TaskMove, BusyPhases
  <2>3. UNCHANGED <<chan, pending, queued, toStop, hand, jobOf>>
    BY <1>12 DEF Task, TaskRelease, TaskProgress, TaskBreak, TaskFinish, TaskFail,
       TaskReleaseActive, TaskReleaseRunning, TaskReleaseToken, TaskEmitCompleted
  <2>4. QED BY <1>2, <2>1, <2>2, <2>3 DEF IdsHandedOut, TypeOK
<1>13. CASE UNCHANGED queueVars
  BY <1>2, <1>13 DEF queueVars, IdsHandedOut
<1>14. QED
  BY <1>1, <1>3, <1>4, <1>5, <1>6, <1>7, <1>8, <1>9, <1>10, <1>11, <1>12, <1>13
     DEF QueueNext, Clients, Worker

\* running_jobs names exactly the owners, step by step.
LEMMA OwnershipStep ==
  OwnershipInv /\ [QueueNext]_queueVars => (SpawnsIdle /\ RunningTableExact)'
<1> SUFFICES ASSUME OwnershipInv, [QueueNext]_queueVars
             PROVE  (SpawnsIdle /\ RunningTableExact)'
  OBVIOUS
<1> USE NoJobAssumption, NoExecAssumption
<1> USE DEF tables, channel, gate, worker, tasks, stopper, observed, WorkerAt,
            OwnershipInv, TypeOK, OwningPhases
<1>1. \A e \in Execs : Owns(e) <=> (task[e] \in OwningPhases \/ (wpc = "spawn" /\ hand = e))
  BY DEF Owns
<1>2. ASSUME UNCHANGED <<running, task, hand, jobOf>>,
             wpc' = wpc \/ (wpc # "spawn" /\ wpc' # "spawn")
      PROVE  (SpawnsIdle /\ RunningTableExact)'
  BY <1>2 DEF SpawnsIdle, RunningTableExact, Owns
<1>3. ASSUME NEW j \in Jobs, NEW e \in Execs, Enqueue(j, e)
      PROVE  (SpawnsIdle /\ RunningTableExact)'
  <2>1. UNCHANGED <<running, task, hand, wpc>>
    BY <1>3 DEF Enqueue
  <2>2. ~Owns(e)
    BY <1>3 DEF Enqueue, RunningTableExact
  <2>3. \A d \in Execs : d # e => jobOf'[d] = jobOf[d]
    BY <1>3 DEF Enqueue
  <2>4. \A d \in Execs : Owns(d)' <=> Owns(d)
    BY <2>1 DEF Owns
  <2>5. \A d \in Execs : Owns(d)' => jobOf'[d] \in Jobs /\ running'[jobOf'[d]] = d
    BY <2>1, <2>2, <2>3, <2>4 DEF RunningTableExact
  <2>6. \A i \in Jobs : running'[i] # NoExec => running[i] \in Execs /\ running[i] # e
    BY <2>1, <2>2 DEF RunningTableExact, TypeOK
  <2>7. RunningTableExact'
    BY <2>1, <2>3, <2>4, <2>5, <2>6 DEF RunningTableExact
  <2>8. QED BY <2>1, <2>7 DEF SpawnsIdle
<1>4. CASE \E e \in Execs : Cancel(e) \/ StopAllCancel(e)
  BY <1>2, <1>4 DEF Cancel, StopAllCancel
<1>5. CASE Pause \/ Resume \/ StopAllBegin \/ StopAllClear
  BY <1>2, <1>5 DEF Pause, Resume, StopAllBegin, StopAllClear
<1>6. CASE \/ WorkerLoadPaused \/ WorkerPark \/ WorkerWake \/ WorkerSetAside
           \/ WorkerNothingPending
  BY <1>2, <1>6 DEF WorkerLoadPaused, WorkerPark, WorkerWake, WorkerSetAside,
     WorkerNothingPending
<1>7. CASE WorkerCancel
  BY <1>2, <1>7 DEF WorkerCancel, Receiving
<1>8. CASE \/ WorkerPopPending \/ WorkerTakeRun \/ WorkerSkipCancelled
           \/ WorkerDropDuplicate
  <2>1. UNCHANGED <<running, task, jobOf>> /\ wpc # "spawn" /\ wpc' # "spawn"
    BY <1>8 DEF WorkerPopPending, WorkerTakeRun, WorkerSkipCancelled,
       WorkerDropDuplicate
  <2>2. \A e \in Execs : Owns(e)' <=> Owns(e)
    BY <2>1 DEF Owns
  <2>3. QED BY <2>1, <2>2 DEF SpawnsIdle, RunningTableExact
<1>9. CASE WorkerAdmit
  <2>1. hand \in Execs /\ jobOf[hand] \in Jobs /\ running[jobOf[hand]] = NoExec
    BY <1>9 DEF WorkerAdmit, JobIsFree, IdsHandedOut, HandedOut
  <2>2. /\ running' = [running EXCEPT ![jobOf[hand]] = hand]
        /\ UNCHANGED <<task, jobOf, hand>> /\ wpc = "admit" /\ wpc' = "spawn"
    BY <1>9 DEF WorkerAdmit
  <2>3. \A e \in Execs : Owns(e) => jobOf[e] # jobOf[hand] /\ e # hand
    BY <2>1 DEF RunningTableExact
  <2>4. \A e \in Execs : Owns(e)' <=> (Owns(e) \/ e = hand)
    BY <2>2 DEF Owns
  <2>5. RunningTableExact'
    BY <2>1, <2>2, <2>3, <2>4 DEF RunningTableExact
  <2>6. QED BY <1>1, <2>1, <2>2, <2>3, <2>5 DEF SpawnsIdle
<1>10. CASE WorkerSpawn
  <2>1. hand \in Execs /\ Owns(hand)
    BY <1>10 DEF WorkerSpawn, Owns
  <2>2. /\ UNCHANGED <<running, jobOf>> /\ wpc = "spawn" /\ wpc' = "top"
        /\ task' = [task EXCEPT ![hand] = "starting"]
    BY <1>10 DEF WorkerSpawn
  <2>3. \A e \in Execs : Owns(e)' <=> Owns(e)
    BY <2>1, <2>2 DEF Owns, BusyPhases
  <2>4. QED BY <2>2, <2>3 DEF SpawnsIdle, RunningTableExact
<1>11. ASSUME NEW e \in Execs,
              \/ TaskProgress(e) \/ TaskBreak(e) \/ TaskFinish(e) \/ TaskFail(e)
              \/ TaskReleaseActive(e) \/ TaskReleaseToken(e) \/ TaskEmitCompleted(e)
       PROVE  (SpawnsIdle /\ RunningTableExact)'
  <2>1. UNCHANGED <<running, hand, wpc, jobOf>>
    BY <1>11 DEF TaskProgress, TaskBreak, TaskFinish, TaskFail, TaskReleaseActive,
       TaskReleaseToken, TaskEmitCompleted
  <2>2. \E to : /\ task' = [task EXCEPT ![e] = to]
                /\ task[e] \in OwningPhases <=> to \in OwningPhases
    BY <1>11 DEF TaskProgress, TaskBreak, TaskFinish, TaskFail, TaskReleaseActive,
       TaskReleaseToken, TaskEmitCompleted, TaskMove, BusyPhases
  <2>3. \A d \in Execs : task'[d] \in OwningPhases <=> task[d] \in OwningPhases
    BY <2>2
  <2>4. \A d \in Execs : Owns(d)' <=> Owns(d)
    BY <2>1, <2>3 DEF Owns
  <2>5. QED BY <2>1, <2>3, <2>4 DEF SpawnsIdle, RunningTableExact
<1>12. ASSUME NEW e \in Execs, TaskReleaseRunning(e)
       PROVE  (SpawnsIdle /\ RunningTableExact)'
  <2>1. /\ UNCHANGED <<hand, wpc, jobOf>> /\ task[e] = "relRunning"
        /\ task' = [task EXCEPT ![e] = "relToken"]
        /\ running' = [running EXCEPT ![jobOf[e]] = NoExec]
    BY <1>12 DEF TaskReleaseRunning, TaskMove
  <2>2. jobOf[e] \in Jobs /\ running[jobOf[e]] = e
    BY <2>1 DEF RunningTableExact, Owns
  <2>3. ~(wpc = "spawn" /\ hand = e)
    BY <2>1 DEF SpawnsIdle
  <2>4. \A d \in Execs : Owns(d)' <=> (Owns(d) /\ d # e)
    BY <2>1, <2>3 DEF Owns, BusyPhases
  <2>5. RunningTableExact'
    BY <2>1, <2>2, <2>4 DEF RunningTableExact
  <2>6. QED BY <2>1, <2>5 DEF SpawnsIdle, BusyPhases
<1>13. CASE UNCHANGED queueVars
  BY <1>2, <1>13 DEF queueVars
<1>14. QED
  BY <1>3, <1>4, <1>5, <1>6, <1>7, <1>8, <1>9, <1>10, <1>11, <1>12, <1>13
     DEF QueueNext, Clients, Worker, Task, TaskRelease

\* running_jobs always names exactly the executions that own their job: no
\* execution works on a job that the table shows as free, and no entry stays
\* behind to refuse the job for ever.
THEOREM RunningTable == QueueSpec => []RunningTableExact
<1>1. OwnershipInv /\ [QueueNext]_queueVars => OwnershipInv'
  BY TypeOKStep, IdsHandedOutStep, OwnershipStep DEF OwnershipInv
<1>2. OwnershipInv => RunningTableExact
  BY DEF OwnershipInv
<1>3. QED BY InitOwnership, <1>1, <1>2, PTL DEF QueueSpec

\* No job is ever worked on by two executions at once.
THEOREM JobMutualExclusion == QueueSpec => []MutualExclusion
<1>1. RunningTableExact => MutualExclusion
  BY DEF RunningTableExact, MutualExclusion
<1>2. QED BY RunningTable, <1>1, PTL

\* A working execution can be stopped: its token is in the cancel table, or was
\* fired when a Cancel message took it out.
THEOREM AlwaysStoppable == QueueSpec => []StoppableWhileBusy
<1> USE DEF StoppableWhileBusy, TypeOK
<1>1. QueueInit => StoppableWhileBusy
  BY DEF QueueInit, BusyPhases
<1>2. TypeOK /\ StoppableWhileBusy /\ [QueueNext]_queueVars => StoppableWhileBusy'
  <2> SUFFICES ASSUME TypeOK, StoppableWhileBusy, [QueueNext]_queueVars,
                      NEW e \in Execs, task'[e] \in BusyPhases
               PROVE  e \in tokens' \/ e \in fired'
    OBVIOUS
  <2> USE DEF tables, channel, gate, worker, tasks, stopper, observed, WorkerAt
  <2>1. CASE UNCHANGED <<tokens, fired, task>>
    BY <2>1
  <2>2. CASE WorkerCancel
    BY <2>2 DEF WorkerCancel, CancelStarted, CancelQueued, CancelNothing
  <2>3. CASE WorkerSpawn
    BY <2>3, NoExecAssumption DEF WorkerSpawn
  <2>4. ASSUME NEW d \in Execs, Task(d) PROVE e \in tokens' \/ e \in fired'
    <3>1. CASE TaskReleaseToken(d)
      BY <3>1 DEF TaskReleaseToken, TaskMove, BusyPhases
    <3>2. CASE ~TaskReleaseToken(d)
      <4>1. UNCHANGED <<tokens, fired>>
        BY <2>4, <3>2 DEF Task, TaskRelease, TaskProgress, TaskBreak, TaskFinish,
           TaskFail, TaskReleaseActive, TaskReleaseRunning, TaskEmitCompleted
      <4>2. task[e] \in BusyPhases
        BY <2>4, <3>2 DEF Task, TaskRelease, TaskProgress, TaskBreak, TaskFinish,
           TaskFail, TaskReleaseActive, TaskReleaseRunning, TaskEmitCompleted,
           TaskMove, BusyPhases
      <4>3. QED BY <4>1, <4>2
    <3>3. QED BY <3>1, <3>2
  <2>5. CASE Clients
    BY <2>1, <2>5 DEF Clients, Enqueue, Cancel, StopAllCancel, Pause, Resume,
       StopAllBegin, StopAllClear
  <2>6. CASE Worker /\ ~WorkerCancel /\ ~WorkerSpawn
    BY <2>1, <2>6 DEF Worker, WorkerLoadPaused, WorkerPark, WorkerWake,
       WorkerSetAside, WorkerPopPending, WorkerNothingPending, WorkerTakeRun,
       WorkerSkipCancelled, WorkerDropDuplicate, WorkerAdmit
  <2>7. CASE UNCHANGED queueVars
    BY <2>1, <2>7 DEF queueVars
  <2>8. QED BY <2>2, <2>3, <2>4, <2>5, <2>6, <2>7 DEF QueueNext
<1>3. QED BY TypeInvariant, <1>1, <1>2, PTL DEF QueueSpec

-----------------------------------------------------------------------------
(***************************************************************************)
(* The pause gate.  Both properties need to know what the worker found when*)
(* it last loaded `paused`: a worker past the gate has not started anything*)
(* since the pause, and one about to wait in a queue that is not paused has*)
(* missed the resume.                                                      *)
(***************************************************************************)

GateInv ==
  /\ pausedStarts \in 0..1 \/ ~paused
  /\ paused /\ wpc \in {"pop", "recv", "admit"} => pausedStarts = 0
  /\ wpc = "selecting" /\ ~paused => missedResume
  /\ LostWakeupOnlyInWindow

\* What the worker knows of pause and resume at each of its places.
LEMMA GateInvariant == QueueSpec => []GateInv
<1> USE DEF GateInv, LostWakeupOnlyInWindow
<1>1. QueueInit => GateInv
  BY DEF QueueInit
<1>2. TypeOK /\ GateInv /\ [QueueNext]_queueVars => GateInv'
  <2> SUFFICES ASSUME TypeOK, GateInv, [QueueNext]_queueVars PROVE GateInv'
    OBVIOUS
  <2> USE DEF tables, channel, gate, worker, tasks, stopper, observed, WorkerAt, TypeOK
  <2>1. CASE UNCHANGED <<paused, pausedStarts, wpc, woken, missedResume>>
    BY <2>1
  <2>2. CASE Pause
    BY <2>2 DEF Pause
  <2>3. CASE Resume
    BY <2>3 DEF Resume
  <2>4. CASE WorkerLoadPaused
    BY <2>4 DEF WorkerLoadPaused
  <2>5. CASE WorkerPark
    BY <2>5 DEF WorkerPark
  <2>6. CASE WorkerWake \/ WorkerSetAside \/ WorkerCancel
    BY <2>6 DEF WorkerWake, WorkerSetAside, WorkerCancel
  <2>7. CASE WorkerPopPending \/ WorkerNothingPending \/ WorkerTakeRun
    BY <2>7 DEF WorkerPopPending, WorkerNothingPending, WorkerTakeRun
  <2>8. CASE WorkerSkipCancelled \/ WorkerDropDuplicate \/ WorkerSpawn
    BY <2>8 DEF WorkerSkipCancelled, WorkerDropDuplicate, WorkerSpawn
  <2>9. CASE WorkerAdmit
    BY <2>9 DEF WorkerAdmit
  <2>10. CASE \E e \in Execs : Task(e)
    BY <2>1, <2>10 DEF Task, TaskRelease, TaskProgress, TaskBreak, TaskFinish,
       TaskFail, TaskReleaseActive, TaskReleaseRunning, TaskReleaseToken,
       TaskEmitCompleted
  <2>11. CASE Clients /\ ~Pause /\ ~Resume
    BY <2>1, <2>11 DEF Clients, Enqueue, Cancel, StopAllCancel, StopAllBegin,
       StopAllClear
  <2>12. CASE UNCHANGED queueVars
    BY <2>1, <2>12 DEF queueVars
  <2>13. QED
    BY <2>2, <2>3, <2>4, <2>5, <2>6, <2>7, <2>8, <2>9, <2>10, <2>11, <2>12
       DEF QueueNext, Worker
<1>3. QED BY TypeInvariant, <1>1, <1>2, PTL DEF QueueSpec

\* A pause lets through at most the one message the worker was already waiting
\* for or holding.
THEOREM PauseBound == QueueSpec => []PauseLeaksAtMostOne
<1>1. GateInv => PauseLeaksAtMostOne
  BY DEF GateInv, PauseLeaksAtMostOne
<1>2. QED BY GateInvariant, <1>1, PTL

\* resume loses its wake-up only between the load of `paused` and the creation
\* of the Notified future.
THEOREM LostWakeupWindow == QueueSpec => []LostWakeupOnlyInWindow
<1>1. GateInv => LostWakeupOnlyInWindow
  BY DEF GateInv
<1>2. QED BY GateInvariant, <1>1, PTL

-----------------------------------------------------------------------------
(***************************************************************************)
(* Every queued id has a message.  The invariant is inductive as it stands;*)
(* the proof is about which members a sequence keeps.                      *)
(***************************************************************************)

\* Appending keeps the members and adds one.
LEMMA AppendMembers ==
  ASSUME NEW S, NEW s \in Seq(S), NEW x \in S
  PROVE  /\ Holds(Append(s, x), x)
         /\ \A y : Holds(s, y) => Holds(Append(s, x), y)
<1>1. /\ DOMAIN s = 1..Len(s) /\ DOMAIN Append(s, x) = 1..Len(s) + 1 /\ Len(s) \in Nat
      /\ \A i \in 1..Len(s) : Append(s, x)[i] = s[i]
      /\ Append(s, x)[Len(s) + 1] = x
  BY AppendProperties, LenProperties
<1>2. QED BY <1>1 DEF Holds

\* Taking the first member keeps all the others.
LEMMA TailMembers ==
  ASSUME NEW S, NEW s \in Seq(S), s # <<>>,
         NEW y, y # Head(s), Holds(s, y)
  PROVE  Holds(Tail(s), y)
<1>1. /\ DOMAIN s = 1..Len(s) /\ Len(s) \in Nat \ {0} /\ Head(s) = s[1]
  BY LenProperties, EmptySeq
<1>2. /\ Tail(s) \in Seq(S) /\ Len(Tail(s)) = Len(s) - 1
      /\ \A k \in 1..Len(Tail(s)) : Tail(s)[k] = s[k + 1]
  BY HeadTailProperties
<1>3. DOMAIN Tail(s) = 1..Len(Tail(s))
  BY <1>2, LenProperties
<1>4. PICK i \in 2..Len(s) : s[i] = y
  BY <1>1 DEF Holds
<1>5. i - 1 \in DOMAIN Tail(s) /\ Tail(s)[i - 1] = y
  BY <1>1, <1>2, <1>3, <1>4
<1>6. QED BY <1>5 DEF Holds

\* Taking the last member keeps all the others.
LEMMA FrontMembers ==
  ASSUME NEW S, NEW s \in Seq(S), s # <<>>,
         NEW y, y # s[Len(s)], Holds(s, y)
  PROVE  Holds(SubSeq(s, 1, Len(s) - 1), y)
<1> DEFINE front == SubSeq(s, 1, Len(s) - 1)
<1>1. DOMAIN s = 1..Len(s) /\ Len(s) \in Nat \ {0}
  BY LenProperties, EmptySeq
<1>2. \A k \in 1..(Len(s) - 1) : s[k] \in S
  BY <1>1, ElementOfSeq
<1>3. /\ front \in Seq(S) /\ Len(front) = Len(s) - 1
      /\ \A k \in 1..(Len(s) - 1) : front[k] = s[k]
  BY <1>1, <1>2, SubSeqProperties
<1>4. DOMAIN front = 1..(Len(s) - 1)
  BY <1>3, LenProperties
<1>5. PICK i \in 1..(Len(s) - 1) : s[i] = y
  BY <1>1 DEF Holds
<1>6. i \in DOMAIN front /\ front[i] = y
  BY <1>3, <1>4, <1>5
<1>7. QED BY <1>6 DEF Holds

InChan(e)    == Holds(chan, RunMsg(e))
InPending(e) == Holds(pending, e)

\* Every step keeps the message of every id it leaves in `queued`.
LEMMA MessageStep ==
  TypeOK /\ StrandedOnlyByStopAll /\ [QueueNext]_queueVars => StrandedOnlyByStopAll'
<1> SUFFICES ASSUME TypeOK, StrandedOnlyByStopAll, [QueueNext]_queueVars,
                    NEW x \in queued'
             PROVE  InChan(x)' \/ InPending(x)' \/ x \in swept'
  BY DEF StrandedOnlyByStopAll, InChan, InPending
<1> USE DEF tables, channel, gate, worker, tasks, stopper, observed, WorkerAt, TaskMove
<1> DEFINE Goal == InChan(x)' \/ InPending(x)' \/ x \in swept'
<1>0. /\ chan \in Seq(Messages) /\ pending \in Seq(Execs)
      /\ \A e \in Execs : RunMsg(e) \in Messages /\ CancelMsg(e) \in Messages
  BY DEF TypeOK, RunMsg, CancelMsg, Messages
<1>a. x \in queued => InChan(x) \/ InPending(x) \/ x \in swept
  BY DEF StrandedOnlyByStopAll, InChan, InPending
<1>b. ASSUME UNCHANGED <<chan, pending, swept>>, queued' \subseteq queued PROVE Goal
  BY <1>a, <1>b DEF InChan, InPending
<1>1. ASSUME NEW j \in Jobs, NEW e \in Execs, Enqueue(j, e) PROVE Goal
  <2>1. chan' = Append(chan, RunMsg(e)) /\ UNCHANGED <<pending, swept>>
    BY <1>1 DEF Enqueue
  <2>2. (InChan(x) => InChan(x)') /\ InChan(e)'
    BY <1>0, <2>1, AppendMembers DEF InChan
  <2>3. x \in queued \/ x = e
    BY <1>1 DEF Enqueue
  <2>4. QED BY <1>a, <2>1, <2>2, <2>3 DEF InPending
<1>2. ASSUME NEW e \in Execs, Cancel(e) \/ StopAllCancel(e) PROVE Goal
  <2>1. /\ chan' = Append(chan, CancelMsg(e)) \/ chan' = chan
        /\ UNCHANGED <<pending, swept, queued>>
    BY <1>2 DEF Cancel, StopAllCancel
  <2>2. CASE chan' = Append(chan, CancelMsg(e))
    <3>1. InChan(x) => InChan(x)'
      BY <1>0, <2>2, AppendMembers DEF InChan
    <3>2. QED BY <1>a, <2>1, <3>1 DEF InPending
  <2>3. CASE chan' = chan
    BY <1>a, <2>1, <2>3 DEF InChan, InPending
  <2>4. QED BY <2>1, <2>2, <2>3
<1>3. CASE StopAllClear
  <2>1. /\ UNCHANGED <<chan, queued>>
        /\ swept' = swept \cup {pending[i] : i \in DOMAIN pending}
    BY <1>3 DEF StopAllClear
  <2>2. InPending(x) => x \in swept'
    BY <2>1 DEF InPending, Holds
  <2>3. QED BY <1>a, <2>1, <2>2 DEF InChan
<1>4. CASE WorkerSetAside
  <2>1. /\ chan # <<>> /\ Head(chan).kind = "run" /\ chan' = Tail(chan)
        /\ pending' = Append(pending, Head(chan).exec) /\ UNCHANGED <<swept, queued>>
    BY <1>4 DEF WorkerSetAside
  <2>2. Head(chan) \in Messages
    BY <1>0, <2>1, TakeFirst
  <2>3. PICK e \in Execs : e = Head(chan).exec
    BY <2>2 DEF Messages
  <2>4. Head(chan) = RunMsg(e) /\ pending' = Append(pending, e)
    BY <2>1, <2>2, <2>3 DEF Messages, RunMsg
  <2>5. Holds(pending', e) /\ (Holds(pending, x) => Holds(pending', x))
    BY <1>0, <2>4, AppendMembers
  <2>6. ASSUME x # e, InChan(x) PROVE InChan(x)'
    <3>1. RunMsg(x) # Head(chan)
      BY <2>4, <2>6 DEF RunMsg
    <3>2. QED BY <1>0, <2>1, <2>6, <3>1, TailMembers DEF InChan
  <2>7. QED BY <1>a, <2>1, <2>5, <2>6 DEF InPending
<1>5. CASE WorkerCancel
  <2>1. /\ chan # <<>> /\ Head(chan).kind = "cancel" /\ chan' = Tail(chan)
        /\ UNCHANGED <<pending, swept>> /\ queued' \subseteq queued
    BY <1>5 DEF WorkerCancel, CancelStarted, CancelQueued, CancelNothing
  <2>2. RunMsg(x) # Head(chan)
    BY <2>1 DEF RunMsg
  <2>3. InChan(x) => InChan(x)'
    BY <1>0, <2>1, <2>2, TailMembers DEF InChan
  <2>4. QED BY <1>a, <2>1, <2>3 DEF InPending
<1>6. CASE WorkerPopPending
  <2>1. /\ pending # <<>> /\ pending' = SubSeq(pending, 1, Len(pending) - 1)
        /\ queued' = queued \ {pending[Len(pending)]} /\ UNCHANGED <<chan, swept>>
    BY <1>6 DEF WorkerPopPending
  <2>2. InPending(x) => InPending(x)'
    BY <1>0, <2>1, FrontMembers DEF InPending
  <2>3. QED BY <1>a, <2>1, <2>2 DEF InChan
<1>7. CASE WorkerTakeRun
  <2>1. /\ chan # <<>> /\ chan' = Tail(chan) /\ UNCHANGED <<pending, swept>>
        /\ queued' = queued \ {Head(chan).exec}
    BY <1>7 DEF WorkerTakeRun
  <2>2. RunMsg(x) # Head(chan)
    BY <2>1 DEF RunMsg
  <2>3. InChan(x) => InChan(x)'
    BY <1>0, <2>1, <2>2, TailMembers DEF InChan
  <2>4. QED BY <1>a, <2>1, <2>3 DEF InPending
<1>8. CASE Pause \/ Resume \/ StopAllBegin
  BY <1>8, <1>b DEF Pause, Resume, StopAllBegin
<1>9. CASE WorkerLoadPaused \/ WorkerPark \/ WorkerWake \/ WorkerNothingPending
  BY <1>9, <1>b DEF WorkerLoadPaused, WorkerPark, WorkerWake, WorkerNothingPending
<1>10. CASE WorkerSkipCancelled \/ WorkerDropDuplicate \/ WorkerAdmit \/ WorkerSpawn
  BY <1>10, <1>b DEF WorkerSkipCancelled, WorkerDropDuplicate, WorkerAdmit, WorkerSpawn
<1>11. ASSUME NEW e \in Execs, Task(e) PROVE Goal
  BY <1>11, <1>b DEF Task, TaskRelease, TaskProgress, TaskBreak, TaskFinish,
     TaskFail, TaskReleaseActive, TaskReleaseRunning, TaskReleaseToken,
     TaskEmitCompleted
<1>12. CASE UNCHANGED queueVars
  BY <1>12, <1>b DEF queueVars
<1>13. QED
  BY <1>1, <1>2, <1>3, <1>4, <1>5, <1>6, <1>7, <1>8, <1>9, <1>10, <1>11, <1>12
  DEF QueueNext, Clients, Worker

\* An id that makes enqueue refuse its job has a Run message in the channel or
\* among the pending ones, unless a stop_all cleared it.
THEOREM NothingElseStrands == QueueSpec => []StrandedOnlyByStopAll
<1>1. QueueInit => StrandedOnlyByStopAll
  BY DEF QueueInit, StrandedOnlyByStopAll
<1>2. TypeOK /\ StrandedOnlyByStopAll /\ [QueueNext]_queueVars => StrandedOnlyByStopAll'
  BY MessageStep
<1>3. QED BY <1>1, <1>2, TypeInvariant, PTL DEF QueueSpec

-----------------------------------------------------------------------------
(***************************************************************************)
(* JobQueue implements ExecutionLifecycle, for every set of jobs and ids   *)
(* and every number of calls: the initial states correspond, and every step*)
(* of a client, of the worker or of a task is a step of the life cycle or  *)
(* leaves all stages as they are.                                          *)
(*                                                                         *)
(* The table running_jobs keeps two executions of a job apart              *)
(* (OwnershipInv).  That none is started twice, or after it was closed, is *)
(* a matter of messages: the Run message of an execution is in one place,  *)
(* and is gone once the execution has started (PlaceInv).                  *)
(***************************************************************************)

\* The sequence has the member at most once.
Once(s, x) == \A i, k \in DOMAIN s : s[i] = x /\ s[k] = x => i = k

\* What appending adds, and to what it adds it.
LEMMA AppendOnce ==
  ASSUME NEW S, NEW s \in Seq(S), NEW x \in S
  PROVE  /\ \A y : Holds(Append(s, x), y) => Holds(s, y) \/ y = x
         /\ \A y : Once(s, y) /\ (y = x => ~Holds(s, y)) => Once(Append(s, x), y)
<1>1. /\ DOMAIN s = 1..Len(s) /\ DOMAIN Append(s, x) = 1..Len(s) + 1 /\ Len(s) \in Nat
      /\ \A i \in 1..Len(s) : Append(s, x)[i] = s[i]
      /\ Append(s, x)[Len(s) + 1] = x
  BY AppendProperties, LenProperties
<1>2. \A i \in 1..Len(s) + 1 : i \in 1..Len(s) \/ i = Len(s) + 1
  BY <1>1
<1>3. QED BY <1>1, <1>2 DEF Holds, Once

\* What is left when the first member is taken.
LEMMA TailOnce ==
  ASSUME NEW S, NEW s \in Seq(S), s # <<>>
  PROVE  /\ Holds(s, Head(s))
         /\ \A y : Holds(Tail(s), y) => Holds(s, y)
         /\ \A y : Once(s, y) => Once(Tail(s), y)
         /\ Once(s, Head(s)) => ~Holds(Tail(s), Head(s))
<1>1. /\ DOMAIN s = 1..Len(s) /\ Len(s) \in Nat \ {0} /\ Head(s) = s[1]
  BY LenProperties, EmptySeq
<1>2. /\ Tail(s) \in Seq(S) /\ Len(Tail(s)) = Len(s) - 1
      /\ \A k \in 1..Len(Tail(s)) : Tail(s)[k] = s[k + 1]
  BY HeadTailProperties
<1>3. DOMAIN Tail(s) = 1..(Len(s) - 1)
  BY <1>2, LenProperties
<1>4. \A k \in DOMAIN Tail(s) : k + 1 \in DOMAIN s /\ k + 1 # 1 /\ Tail(s)[k] = s[k + 1]
  BY <1>1, <1>2, <1>3
<1>5. 1 \in DOMAIN s
  BY <1>1
<1>6. Holds(s, Head(s)) /\ \A y : Holds(Tail(s), y) => Holds(s, y)
  BY <1>1, <1>4, <1>5 DEF Holds
<1>7. ASSUME NEW y, Once(s, y) PROVE Once(Tail(s), y)
  <2> SUFFICES ASSUME NEW i \in DOMAIN Tail(s), NEW k \in DOMAIN Tail(s),
                      Tail(s)[i] = y, Tail(s)[k] = y
               PROVE  i = k
    BY DEF Once
  <2>1. i + 1 = k + 1
    BY <1>4, <1>7 DEF Once
  <2>2. QED BY <1>1, <1>3, <2>1
<1>8. Once(s, Head(s)) => ~Holds(Tail(s), Head(s))
  BY <1>1, <1>4, <1>5 DEF Once, Holds
<1>9. QED BY <1>6, <1>7, <1>8

\* What is left when the last member is taken.
LEMMA FrontOnce ==
  ASSUME NEW S, NEW s \in Seq(S), s # <<>>
  PROVE  LET front == SubSeq(s, 1, Len(s) - 1)
         IN  /\ Holds(s, s[Len(s)])
             /\ \A y : Holds(front, y) => Holds(s, y)
             /\ \A y : Once(s, y) => Once(front, y)
             /\ Once(s, s[Len(s)]) => ~Holds(front, s[Len(s)])
<1> DEFINE front == SubSeq(s, 1, Len(s) - 1)
<1>1. DOMAIN s = 1..Len(s) /\ Len(s) \in Nat \ {0}
  BY LenProperties, EmptySeq
<1>2. \A k \in 1..(Len(s) - 1) : s[k] \in S
  BY <1>1, ElementOfSeq
<1>3. /\ front \in Seq(S) /\ Len(front) = Len(s) - 1
      /\ \A k \in 1..(Len(s) - 1) : front[k] = s[k]
  BY <1>1, <1>2, SubSeqProperties
<1>4. DOMAIN front = 1..(Len(s) - 1)
  BY <1>3, LenProperties
<1>5. /\ Len(s) \in DOMAIN s
      /\ \A k \in DOMAIN front : k \in DOMAIN s /\ k # Len(s) /\ front[k] = s[k]
  BY <1>1, <1>3, <1>4
<1> HIDE DEF front
<1>6. /\ Holds(s, s[Len(s)])
      /\ \A y : Holds(front, y) => Holds(s, y)
      /\ \A y : Once(s, y) => Once(front, y)
      /\ Once(s, s[Len(s)]) => ~Holds(front, s[Len(s)])
  BY <1>5 DEF Holds, Once
<1>7. QED BY <1>6 DEF front

-----------------------------------------------------------------------------
(***************************************************************************)
(* Where the Run message of an execution can be.                           *)
(***************************************************************************)

OnePlace(e) ==
  /\ Once(chan, RunMsg(e)) /\ Once(pending, e)
  /\ ~(InChan(e) /\ InPending(e)) /\ ~(InChan(e) /\ hand = e) /\ ~(InPending(e) /\ hand = e)

\* What has still to be started has no task and was not thrown away; if it was
\* reported as completed, the worker will find it in `cancelled`.
NotStarted(e) ==
  /\ InChan(e) \/ InPending(e) \/ hand = e \/ e \in queued => task[e] = "none" /\ e \notin dropped
  /\ InChan(e) \/ InPending(e) \/ (hand = e /\ wpc = "admit") =>
       completions[e] = 0 \/ e \in cancelled
  /\ e \in queued => completions[e] = 0 /\ hand # e

\* An id that no call has handed out is nowhere.
Fresh(e) ==
  jobOf[e] = NoJob =>
    /\ ~InChan(e) /\ ~InPending(e) /\ hand # e /\ e \notin queued
    /\ task[e] = "none" /\ completions[e] = 0 /\ e \notin dropped

Placed(e) == OnePlace(e) /\ NotStarted(e) /\ Fresh(e)

PlaceInv == \A e \in Execs : Placed(e)

\* The empty queue has no message.
LEMMA InitPlace == QueueInit => PlaceInv
  BY NoExecAssumption DEF QueueInit, PlaceInv, Placed, OnePlace, NotStarted, Fresh, InChan, InPending, Holds, Once

\* An execution that a step moves nowhere.
LEMMA PlaceFrame ==
  ASSUME NEW x \in Execs, Placed(x),
         InChan(x)' => InChan(x), Once(chan', RunMsg(x)),
         InPending(x)' => InPending(x), Once(pending', x),
         hand' = x => hand = x /\ (wpc' = "admit" => wpc = "admit"),
         x \in queued' => x \in queued, x \in dropped' => x \in dropped,
         x \in cancelled => x \in cancelled',
         task'[x] = task[x], completions'[x] = completions[x], jobOf'[x] = jobOf[x]
  PROVE  Placed(x)'
<1>1. OnePlace(x)'
  BY DEF Placed, OnePlace
<1>2. NotStarted(x)'
  BY DEF Placed, NotStarted
<1>3. Fresh(x)'
  BY DEF Placed, Fresh
<1>4. QED BY <1>1, <1>2, <1>3 DEF Placed

\* Clients.
LEMMA ClientPlace == TypeOK /\ PlaceInv /\ Clients => PlaceInv'
<1> SUFFICES ASSUME TypeOK, PlaceInv, Clients, NEW x \in Execs PROVE Placed(x)'
  BY DEF PlaceInv
<1> USE DEF tables, channel, gate, worker, tasks, stopper, observed
<1>0. /\ chan \in Seq(Messages) /\ pending \in Seq(Execs) /\ Placed(x)
      /\ \A e \in Execs : RunMsg(e) \in Messages /\ CancelMsg(e) \in Messages
      /\ Once(chan, RunMsg(x)) /\ Once(pending, x)
  BY DEF TypeOK, RunMsg, CancelMsg, Messages, PlaceInv, Placed, OnePlace
<1>1. ASSUME NEW j \in Jobs, NEW e \in Execs, Enqueue(j, e) PROVE Placed(x)'
  <2>1. /\ chan' = Append(chan, RunMsg(e)) /\ jobOf[e] = NoJob
        /\ UNCHANGED <<pending, hand, wpc, task, dropped, cancelled, completions>>
        /\ queued' = queued \cup {e}
    BY <1>1 DEF Enqueue
  <2>2. CASE x = e
    <3>1. /\ ~InChan(x) /\ ~InPending(x) /\ hand # x
          /\ task[x] = "none" /\ completions[x] = 0 /\ x \notin dropped
      BY <1>0, <2>1, <2>2 DEF Placed, Fresh
    <3>2. Once(chan', RunMsg(x))
      BY <1>0, <2>1, <2>2, <3>1, AppendOnce DEF InChan
    <3>3. ~InPending(x)'
      BY <2>1, <3>1 DEF InPending
    <3>4. jobOf'[x] # NoJob
      BY <1>1, <2>2, NoJobAssumption DEF Enqueue, TypeOK
    <3>5. OnePlace(x)' /\ NotStarted(x)' /\ Fresh(x)'
      BY <1>0, <2>1, <3>1, <3>2, <3>3, <3>4 DEF OnePlace, NotStarted, Fresh
    <3>6. QED BY <3>5 DEF Placed
  <2>3. CASE x # e
    <3>1. RunMsg(x) # RunMsg(e)
      BY <2>3 DEF RunMsg
    <3>2. Once(chan', RunMsg(x)) /\ (InChan(x)' => InChan(x))
      BY <1>0, <2>1, <3>1, AppendOnce DEF InChan
    <3>3. jobOf'[x] = jobOf[x]
      BY <1>1, <2>3 DEF Enqueue, TypeOK
    <3>4. QED BY <1>0, <2>1, <2>3, <3>2, <3>3, PlaceFrame DEF InPending
  <2>4. QED BY <2>2, <2>3
<1>2. ASSUME NEW e \in Execs, Cancel(e) \/ StopAllCancel(e) PROVE Placed(x)'
  <2>1. /\ chan' = Append(chan, CancelMsg(e)) \/ chan' = chan
        /\ UNCHANGED <<pending, hand, wpc, task, dropped, cancelled, completions, queued, jobOf>>
    BY <1>2 DEF Cancel, StopAllCancel
  <2>2. RunMsg(x) # CancelMsg(e)
    BY DEF RunMsg, CancelMsg
  <2>3. CASE chan' = Append(chan, CancelMsg(e))
    <3>1. Once(chan', RunMsg(x)) /\ (InChan(x)' => InChan(x))
      BY <1>0, <2>2, <2>3, AppendOnce DEF InChan
    <3>2. QED BY <1>0, <2>1, <3>1, PlaceFrame DEF InPending
  <2>4. CASE chan' = chan
    BY <1>0, <2>1, <2>4, PlaceFrame DEF InChan, InPending
  <2>5. QED BY <2>1, <2>3, <2>4
<1>3. CASE StopAllClear
  <2>1. /\ pending' = <<>>
        /\ UNCHANGED <<chan, hand, wpc, task, dropped, cancelled, completions, queued, jobOf>>
    BY <1>3 DEF StopAllClear
  <2>2. Once(pending', x) /\ ~InPending(x)'
    BY <2>1 DEF Once, InPending, Holds
  <2>3. QED BY <1>0, <2>1, <2>2, PlaceFrame DEF InChan
<1>4. CASE Pause \/ Resume \/ StopAllBegin
  <2>1. UNCHANGED <<chan, pending, hand, wpc, task, dropped, cancelled, completions, queued, jobOf>>
    BY <1>4 DEF Pause, Resume, StopAllBegin
  <2>2. QED BY <1>0, <2>1, PlaceFrame DEF InChan, InPending
<1>5. QED BY <1>1, <1>2, <1>3, <1>4 DEF Clients

\* The execution in the worker's hand, when the worker lets go of it.
LEMMA LetGo ==
  ASSUME NEW x \in Execs, Placed(x), hand = x, hand' = NoExec,
         UNCHANGED <<chan, pending, queued, jobOf>>
  PROVE  Placed(x)'
<1>1. /\ ~InChan(x) /\ ~InPending(x) /\ x \notin queued /\ jobOf[x] # NoJob
      /\ Once(chan, RunMsg(x)) /\ Once(pending, x)
  BY DEF Placed, OnePlace, NotStarted, Fresh
<1>2. /\ ~InChan(x)' /\ ~InPending(x)' /\ x \notin queued' /\ jobOf'[x] # NoJob
      /\ Once(chan', RunMsg(x)) /\ Once(pending', x) /\ hand' # x
  BY <1>1, NoExecAssumption DEF InChan, InPending
<1>3. QED BY <1>2 DEF Placed, OnePlace, NotStarted, Fresh

\* The worker.
LEMMA WorkerPlace == TypeOK /\ PlaceInv /\ Worker => PlaceInv'
<1> SUFFICES ASSUME TypeOK, PlaceInv, Worker, NEW x \in Execs PROVE Placed(x)'
  BY DEF PlaceInv
<1> USE NoExecAssumption
<1> USE DEF tables, channel, gate, worker, tasks, stopper, observed, WorkerAt
<1>0. /\ chan \in Seq(Messages) /\ pending \in Seq(Execs) /\ Placed(x)
      /\ Once(chan, RunMsg(x)) /\ Once(pending, x)
  BY DEF TypeOK, PlaceInv, Placed, OnePlace
<1>1. CASE WorkerSetAside
  <2>1. /\ chan # <<>> /\ Head(chan).kind = "run" /\ chan' = Tail(chan)
        /\ pending' = Append(pending, Head(chan).exec)
        /\ UNCHANGED <<hand, task, dropped, cancelled, completions, queued, jobOf>>
        /\ wpc' # "admit" /\ hand = NoExec
    BY <1>1 DEF WorkerSetAside, TypeOK
  <2>2. Head(chan) \in Messages
    BY <1>0, <2>1, TakeFirst
  <2>3. PICK e \in Execs : e = Head(chan).exec
    BY <2>2 DEF Messages
  <2>4. Head(chan) = RunMsg(e) /\ pending' = Append(pending, e)
    BY <2>1, <2>2, <2>3 DEF Messages, RunMsg
  <2>5. CASE x = e
    <3>1. InChan(x) /\ ~InChan(x)' /\ Once(chan', RunMsg(x))
      BY <1>0, <2>1, <2>4, <2>5, TailOnce DEF InChan
    <3>2. ~InPending(x) /\ hand # x /\ jobOf[x] # NoJob
      BY <1>0, <3>1 DEF Placed, OnePlace, Fresh
    <3>3. Once(pending', x)
      BY <1>0, <2>4, <2>5, <3>2, AppendOnce DEF InPending
    <3>4. OnePlace(x)' /\ NotStarted(x)' /\ Fresh(x)'
      BY <1>0, <2>1, <3>1, <3>2, <3>3 DEF Placed, OnePlace, NotStarted, Fresh
    <3>5. QED BY <3>4 DEF Placed
  <2>6. CASE x # e
    <3>1. Once(chan', RunMsg(x)) /\ (InChan(x)' => InChan(x))
      BY <1>0, <2>1, TailOnce DEF InChan
    <3>2. Once(pending', x) /\ (InPending(x)' => InPending(x))
      BY <1>0, <2>4, <2>6, AppendOnce DEF InPending
    <3>3. QED BY <1>0, <2>1, <3>1, <3>2, PlaceFrame
  <2>7. QED BY <2>5, <2>6
<1>2. CASE WorkerTakeRun
  <2>1. /\ chan # <<>> /\ Head(chan).kind = "run" /\ chan' = Tail(chan)
        /\ hand' = Head(chan).exec /\ queued' = queued \ {Head(chan).exec}
        /\ UNCHANGED <<pending, task, dropped, cancelled, completions, jobOf>>
        /\ hand = NoExec
    BY <1>2 DEF WorkerTakeRun, TypeOK
  <2>2. Head(chan) \in Messages
    BY <1>0, <2>1, TakeFirst
  <2>3. PICK e \in Execs : e = Head(chan).exec
    BY <2>2 DEF Messages
  <2>4. Head(chan) = RunMsg(e) /\ hand' = e /\ queued' = queued \ {e}
    BY <2>1, <2>2, <2>3 DEF Messages, RunMsg
  <2>5. Once(chan', RunMsg(x)) /\ (InChan(x)' => InChan(x))
    BY <1>0, <2>1, TailOnce DEF InChan
  <2>6. CASE x = e
    <3>1. InChan(x) /\ ~InChan(x)'
      BY <1>0, <2>1, <2>4, <2>6, TailOnce DEF InChan
    <3>2. ~InPending(x) /\ ~InPending(x)' /\ jobOf[x] # NoJob
      BY <1>0, <2>1, <3>1 DEF Placed, OnePlace, Fresh, InPending
    <3>3. OnePlace(x)' /\ NotStarted(x)' /\ Fresh(x)'
      BY <1>0, <2>1, <2>4, <2>5, <2>6, <3>1, <3>2 DEF Placed, OnePlace, NotStarted, Fresh
    <3>4. QED BY <3>3 DEF Placed
  <2>7. CASE x # e
    BY <1>0, <2>1, <2>4, <2>5, <2>7, PlaceFrame DEF InPending
  <2>8. QED BY <2>6, <2>7
<1>3. CASE WorkerPopPending
  <2>1. /\ pending # <<>> /\ pending' = SubSeq(pending, 1, Len(pending) - 1)
        /\ hand' = pending[Len(pending)] /\ queued' = queued \ {pending[Len(pending)]}
        /\ UNCHANGED <<chan, task, dropped, cancelled, completions, jobOf>>
        /\ hand = NoExec
    BY <1>3 DEF WorkerPopPending, TypeOK
  <2>2. Once(pending', x) /\ (InPending(x)' => InPending(x))
    BY <1>0, <2>1, FrontOnce DEF InPending
  <2>3. CASE x = pending[Len(pending)]
    <3>1. InPending(x) /\ ~InPending(x)'
      BY <1>0, <2>1, <2>3, FrontOnce DEF InPending
    <3>2. ~InChan(x) /\ ~InChan(x)' /\ jobOf[x] # NoJob
      BY <1>0, <2>1, <3>1 DEF Placed, OnePlace, Fresh, InChan
    <3>3. OnePlace(x)' /\ NotStarted(x)' /\ Fresh(x)'
      BY <1>0, <2>1, <2>2, <2>3, <3>1, <3>2 DEF Placed, OnePlace, NotStarted, Fresh
    <3>4. QED BY <3>3 DEF Placed
  <2>4. CASE x # pending[Len(pending)]
    BY <1>0, <2>1, <2>2, <2>4, PlaceFrame DEF InChan
  <2>5. QED BY <2>3, <2>4
<1>4. CASE WorkerCancel
  <2>1. /\ chan # <<>> /\ chan' = Tail(chan)
        /\ UNCHANGED <<pending, hand, task, dropped, jobOf>>
        /\ wpc' # "admit" /\ hand = NoExec
    BY <1>4 DEF WorkerCancel, Receiving, TypeOK
  <2>2. Once(chan', RunMsg(x)) /\ (InChan(x)' => InChan(x))
    BY <1>0, <2>1, TailOnce DEF InChan
  <2>3. CASE /\ x \in queued /\ x \in cancelled' /\ x \notin queued'
    <3>1. OnePlace(x)' /\ NotStarted(x)' /\ Fresh(x)'
      BY <1>0, <2>1, <2>2, <2>3 DEF Placed, OnePlace, NotStarted, Fresh, InPending
    <3>2. QED BY <3>1 DEF Placed
  <2>4. CASE /\ queued' \subseteq queued /\ cancelled \subseteq cancelled'
             /\ completions'[x] = completions[x]
    BY <1>0, <2>1, <2>2, <2>4, PlaceFrame DEF InPending
  <2>a. Head(chan) \in Messages
    BY <1>0, <2>1, TakeFirst
  <2>5. PICK e \in Execs : e = Head(chan).exec
    BY <2>a DEF Messages
  <2>6. CancelStarted(e) \/ CancelQueued(e) \/ CancelNothing(e)
    BY <1>4, <2>5 DEF WorkerCancel
  <2>7. CASE CancelStarted(e) \/ CancelNothing(e)
    BY <2>4, <2>7 DEF CancelStarted, CancelNothing
  <2>8. CASE CancelQueued(e) /\ x = e
    BY <2>3, <2>8 DEF CancelQueued
  <2>9. CASE CancelQueued(e) /\ x # e
    BY <2>4, <2>9 DEF CancelQueued, TypeOK
  <2>10. QED BY <2>6, <2>7, <2>8, <2>9
<1>5. CASE WorkerSkipCancelled \/ WorkerDropDuplicate \/ WorkerSpawn
  <2>1. /\ hand \in Execs /\ hand' = NoExec
        /\ UNCHANGED <<chan, pending, queued, jobOf>>
    BY <1>5 DEF WorkerSkipCancelled, WorkerDropDuplicate, WorkerSpawn, TypeOK
  <2>2. CASE x = hand
    BY <1>0, <2>1, <2>2, LetGo
  <2>3. CASE x # hand
    <3>1. /\ x \in dropped' => x \in dropped
          /\ x \in cancelled => x \in cancelled'
          /\ task'[x] = task[x] /\ completions'[x] = completions[x]
      BY <1>5, <2>3 DEF WorkerSkipCancelled, WorkerDropDuplicate, WorkerSpawn, TypeOK
    <3>2. QED BY <1>0, <2>1, <3>1, PlaceFrame DEF InChan, InPending
  <2>4. QED BY <2>2, <2>3
<1>6. CASE \/ WorkerLoadPaused \/ WorkerPark \/ WorkerWake \/ WorkerNothingPending
           \/ WorkerAdmit
  <2>1. /\ UNCHANGED <<chan, pending, queued, jobOf, hand, task, completions, dropped, cancelled>>
        /\ wpc' # "admit"
    BY <1>6 DEF WorkerLoadPaused, WorkerPark, WorkerWake, WorkerNothingPending, WorkerAdmit
  <2>2. QED BY <1>0, <2>1, PlaceFrame DEF InChan, InPending
<1>7. QED BY <1>1, <1>2, <1>3, <1>4, <1>5, <1>6 DEF Worker

\* The tasks.
LEMMA TaskPlace ==
  ASSUME TypeOK, PlaceInv, NEW e \in Execs, Task(e)
  PROVE  PlaceInv'
<1> SUFFICES ASSUME NEW x \in Execs PROVE Placed(x)'
  BY DEF PlaceInv
<1> USE DEF tables, channel, gate, worker, tasks, stopper, observed, TaskMove
<1>0. Placed(x) /\ Once(chan, RunMsg(x)) /\ Once(pending, x)
  BY DEF PlaceInv, Placed, OnePlace
<1>1. /\ UNCHANGED <<chan, pending, queued, hand, wpc, jobOf, dropped>>
      /\ task[e] # "none"
      /\ \E to : task' = [task EXCEPT ![e] = to]
      /\ \/ UNCHANGED <<completions, cancelled>>
         \/ /\ completions' = [completions EXCEPT ![e] = @ + 1]
            /\ cancelled \ {e} \subseteq cancelled'
  BY DEF Task, TaskRelease, TaskProgress, TaskBreak, TaskFinish, TaskFail,
     TaskReleaseActive, TaskReleaseRunning, TaskReleaseToken, TaskEmitCompleted, BusyPhases
<1>2. CASE x = e
  <2>1. /\ ~InChan(x) /\ ~InPending(x) /\ hand # x /\ x \notin queued /\ jobOf[x] # NoJob
    BY <1>0, <1>1, <1>2 DEF Placed, NotStarted, Fresh
  <2>2. ~InChan(x)' /\ ~InPending(x)'
    BY <1>1, <2>1 DEF InChan, InPending
  <2>3. OnePlace(x)' /\ NotStarted(x)' /\ Fresh(x)'
    BY <1>0, <1>1, <2>1, <2>2 DEF OnePlace, NotStarted, Fresh
  <2>4. QED BY <2>3 DEF Placed
<1>3. CASE x # e
  <2>1. /\ task'[x] = task[x] /\ completions'[x] = completions[x]
        /\ x \in cancelled => x \in cancelled'
    BY <1>1, <1>3 DEF TypeOK
  <2>2. QED BY <1>0, <1>1, <2>1, PlaceFrame DEF InChan, InPending
<1>4. QED BY <1>2, <1>3

\* Every step leaves every Run message in at most one place.
LEMMA PlaceStep == TypeOK /\ PlaceInv /\ [QueueNext]_queueVars => PlaceInv'
<1> SUFFICES ASSUME TypeOK, PlaceInv, [QueueNext]_queueVars PROVE PlaceInv'
  OBVIOUS
<1>1. CASE UNCHANGED queueVars
  <2>1. UNCHANGED <<chan, pending, queued, hand, wpc, task, dropped, cancelled,
                    completions, jobOf>>
    BY <1>1 DEF queueVars
  <2>2. QED
    BY <2>1 DEF PlaceInv, Placed, OnePlace, NotStarted, Fresh, InChan, InPending
<1>2. QED BY <1>1, ClientPlace, WorkerPlace, TaskPlace DEF QueueNext

-----------------------------------------------------------------------------
(***************************************************************************)
(* The stages.                                                             *)
(***************************************************************************)

Ended(e) == completions[e] > 0 \/ e \in dropped \/ task[e] \in {"relToken", "emit", "done"}

StageIs(e) ==
  /\ Owns(e) => stageOf[e] = "running"
  /\ ~Owns(e) /\ Ended(e) => stageOf[e] = "closed"
  /\ ~Owns(e) /\ ~Ended(e) /\ jobOf[e] = NoJob => stageOf[e] = "new"
  /\ ~Owns(e) /\ ~Ended(e) /\ jobOf[e] # NoJob => stageOf[e] = "accepted"

\* The four stages, before and after a step.
LEMMA StageValues == \A x \in Execs : StageIs(x) /\ StageIs(x)'
<1> SUFFICES ASSUME NEW x \in Execs PROVE StageIs(x) /\ StageIs(x)'
  OBVIOUS
<1>1. StageIs(x)
  BY DEF StageIs, Ended, stageOf
<1>2. StageIs(x)'
  BY DEF StageIs, Ended, stageOf
<1>3. QED BY <1>1, <1>2

\* What no step of another execution changes.
Same(x) ==
  /\ Owns(x)' <=> Owns(x)
  /\ Ended(x)' <=> Ended(x)
  /\ jobOf'[x] = jobOf[x]

\* An execution whose facts stay keeps its stage.
LEMMA StageKept ==
  ASSUME NEW x \in Execs, Same(x)
  PROVE  stageOf'[x] = stageOf[x]
<1>1. StageIs(x) /\ StageIs(x)'
  BY StageValues
<1>2. QED BY <1>1 DEF Same, StageIs

\* A step that changes the facts of no execution does not show.
LEMMA NoStageMoves ==
  ASSUME TypeOK, TypeOK', \A x \in Execs : Same(x)
  PROVE  UNCHANGED <<jobOf, stageOf>>
<1>1. \A x \in Execs : stageOf'[x] = stageOf[x] /\ jobOf'[x] = jobOf[x]
  BY StageKept DEF Same
<1>2. stageOf' = [x \in Execs |-> stageOf'[x]] /\ stageOf = [x \in Execs |-> stageOf[x]]
  BY DEF stageOf
<1>3. jobOf' = jobOf
  BY <1>1 DEF TypeOK
<1>4. QED BY <1>1, <1>2, <1>3

\* A step that changes the facts of one execution.
LEMMA OneStageMoves ==
  ASSUME NEW e \in Execs, \A x \in Execs \ {e} : Same(x)
  PROVE  stageOf' = [stageOf EXCEPT ![e] = stageOf'[e]]
<1>1. \A x \in Execs \ {e} : stageOf'[x] = stageOf[x]
  BY StageKept
<1>2. stageOf' = [x \in Execs |-> stageOf'[x]] /\ stageOf = [x \in Execs |-> stageOf[x]]
  BY DEF stageOf
<1>3. QED BY <1>1, <1>2

Shown == [Lifecycle!Next]_<<jobOf, stageOf>>

\* An execution that leaves "accepted" or "running" for "closed".
LEMMA Closes ==
  ASSUME NEW e \in Execs, \A x \in Execs \ {e} : Same(x), UNCHANGED jobOf,
         stageOf[e] \in {"accepted", "running"}, stageOf'[e] = "closed"
  PROVE  Shown
<1>1. stageOf' = [stageOf EXCEPT ![e] = "closed"]
  BY OneStageMoves
<1>2. Lifecycle!Close(e)
  BY <1>1 DEF Lifecycle!Close
<1>3. QED BY <1>2 DEF Shown, Lifecycle!Next

\* Clients: only enqueue shows, as Accept.
LEMMA ClientStage ==
  TypeOK /\ TypeOK' /\ PlaceInv /\ Clients => Shown
<1> SUFFICES ASSUME TypeOK, TypeOK', PlaceInv, Clients PROVE Shown
  OBVIOUS
<1> USE DEF tables, channel, gate, worker, tasks, stopper, observed
<1>1. ASSUME NEW j \in Jobs, NEW e \in Execs, Enqueue(j, e) PROVE Shown
  <2>1. UNCHANGED <<wpc, hand, task, completions, dropped>> /\ jobOf[e] = NoJob
        /\ jobOf' = [jobOf EXCEPT ![e] = j]
    BY <1>1 DEF Enqueue
  <2>2. \A x \in Execs \ {e} : Same(x)
    BY <2>1 DEF Same, Owns, Ended, TypeOK
  <2>3. hand # e /\ task[e] = "none" /\ completions[e] = 0 /\ e \notin dropped
    BY <2>1 DEF PlaceInv, Placed, Fresh
  <2>4. ~Owns(e) /\ ~Ended(e) /\ ~Owns(e)' /\ ~Ended(e)'
    BY <2>1, <2>3 DEF Owns, Ended, BusyPhases
  <2>5. jobOf'[e] # NoJob
    BY <2>1, NoJobAssumption DEF TypeOK
  <2>6. stageOf[e] = "new" /\ stageOf'[e] = "accepted"
    BY <2>1, <2>4, <2>5, StageValues DEF StageIs
  <2>7. Lifecycle!Accept(e, j)
    BY <2>1, <2>2, <2>6, OneStageMoves DEF Lifecycle!Accept
  <2>8. QED BY <2>7 DEF Shown, Lifecycle!Next
<1>2. ASSUME UNCHANGED <<wpc, hand, task, completions, dropped, jobOf>> PROVE Shown
  <2>1. \A x \in Execs : Same(x)
    BY <1>2 DEF Same, Owns, Ended
  <2>2. QED BY <2>1, NoStageMoves DEF Shown
<1>3. CASE \/ \E e \in Execs : Cancel(e) \/ StopAllCancel(e)
           \/ Pause \/ Resume \/ StopAllBegin \/ StopAllClear
  BY <1>2, <1>3 DEF Cancel, StopAllCancel, Pause, Resume, StopAllBegin, StopAllClear
<1>4. QED BY <1>1, <1>3 DEF Clients

\* The worker: it closes what was cancelled or comes twice, and starts the rest.
LEMMA WorkerStage ==
  OwnershipInv /\ TypeOK' /\ PlaceInv /\ Worker => Shown
<1> SUFFICES ASSUME OwnershipInv, TypeOK', PlaceInv, Worker PROVE Shown
  OBVIOUS
<1> USE DEF tables, channel, gate, worker, tasks, stopper, observed, WorkerAt, OwnershipInv
<1>1. ASSUME UNCHANGED <<task, completions, dropped, jobOf>>, wpc # "spawn", wpc' # "spawn"
      PROVE  Shown
  <2>1. \A x \in Execs : Same(x)
    BY <1>1 DEF Same, Owns, Ended
  <2>2. QED BY <2>1, NoStageMoves DEF Shown
<1>2. CASE \/ WorkerLoadPaused \/ WorkerPark \/ WorkerWake \/ WorkerSetAside
           \/ WorkerPopPending \/ WorkerNothingPending \/ WorkerTakeRun
  BY <1>1, <1>2 DEF WorkerLoadPaused, WorkerPark, WorkerWake, WorkerSetAside,
     WorkerPopPending, WorkerNothingPending, WorkerTakeRun
<1>3. CASE WorkerCancel
  <2>1. /\ UNCHANGED <<task, dropped, jobOf>> /\ wpc # "spawn" /\ wpc' # "spawn"
        /\ chan # <<>>
    BY <1>3 DEF WorkerCancel, Receiving
  <2>2. Head(chan) \in Messages
    BY <2>1, TakeFirst DEF TypeOK
  <2>3. PICK e \in Execs : e = Head(chan).exec
    BY <2>2 DEF Messages
  <2>4. CancelStarted(e) \/ CancelQueued(e) \/ CancelNothing(e)
    BY <1>3, <2>3 DEF WorkerCancel
  <2>5. CASE CancelStarted(e) \/ CancelNothing(e)
    BY <1>1, <2>1, <2>5 DEF CancelStarted, CancelNothing
  <2>6. CASE CancelQueued(e)
    <3>1. e \in queued /\ completions' = [completions EXCEPT ![e] = @ + 1]
      BY <2>6 DEF CancelQueued
    <3>2. \A x \in Execs \ {e} : Same(x)
      BY <2>1, <3>1 DEF Same, Owns, Ended, TypeOK
    <3>3. task[e] = "none" /\ e \notin dropped /\ completions[e] = 0 /\ jobOf[e] # NoJob
      BY <3>1 DEF PlaceInv, Placed, NotStarted, Fresh
    <3>4. completions'[e] = 1
      BY <3>1, <3>3 DEF TypeOK
    <3>5. ~Owns(e) /\ ~Ended(e) /\ ~Owns(e)' /\ Ended(e)'
      BY <2>1, <3>3, <3>4 DEF Owns, Ended, BusyPhases
    <3>6. stageOf[e] = "accepted" /\ stageOf'[e] = "closed"
      BY <3>3, <3>5, StageValues DEF StageIs
    <3>7. QED BY <2>1, <3>2, <3>6, Closes
  <2>7. QED BY <2>4, <2>5, <2>6
<1>4. CASE WorkerSkipCancelled \/ WorkerDropDuplicate \/ WorkerAdmit \/ WorkerSpawn
  <2>1. wpc \in {"admit", "spawn"}
    BY <1>4 DEF WorkerSkipCancelled, WorkerDropDuplicate, WorkerAdmit, WorkerSpawn
  <2>2. PICK h \in Execs : h = hand
    BY <2>1 DEF TypeOK
  <2>4. /\ task[h] = "none" /\ h \notin dropped
        /\ jobOf[h] # NoJob /\ completions[h] \in Nat
        /\ wpc = "admit" /\ h \notin cancelled => completions[h] = 0
    BY <2>2 DEF TypeOK, PlaceInv, Placed, NotStarted, Fresh
  <2>5. CASE WorkerSkipCancelled
    <3>1. /\ wpc = "admit" /\ wpc' = "top" /\ UNCHANGED <<task, dropped, jobOf>>
          /\ completions' = [completions EXCEPT ![h] = @ + 1]
      BY <2>2, <2>5 DEF WorkerSkipCancelled
    <3>2. \A x \in Execs \ {h} : Same(x)
      BY <2>4, <3>1 DEF Same, Owns, Ended, TypeOK
    <3>3. completions'[h] = completions[h] + 1
      BY <2>4, <3>1 DEF TypeOK
    <3>4. ~Owns(h) /\ ~Owns(h)'
      BY <2>4, <3>1 DEF Owns, BusyPhases
    <3>5. Ended(h)'
      BY <2>4, <3>3 DEF Ended
    <3>6. CASE Ended(h)
      <4>1. Same(h)
        BY <3>1, <3>4, <3>5, <3>6 DEF Same
      <4>2. QED BY <3>2, <4>1, NoStageMoves DEF Shown
    <3>7. CASE ~Ended(h)
      <4>1. stageOf[h] = "accepted" /\ stageOf'[h] = "closed"
        BY <2>4, <3>1, <3>4, <3>5, <3>7, StageValues DEF StageIs
      <4>2. QED BY <2>4, <3>1, <3>2, <4>1, Closes
    <3>8. QED BY <3>6, <3>7
  <2>6. CASE WorkerDropDuplicate
    <3>1. /\ wpc = "admit" /\ wpc' = "top" /\ UNCHANGED <<task, completions, jobOf>>
          /\ h \notin cancelled /\ dropped' = dropped \cup {h}
      BY <2>2, <2>6 DEF WorkerDropDuplicate
    <3>2. \A x \in Execs \ {h} : Same(x)
      BY <2>4, <3>1 DEF Same, Owns, Ended
    <3>3. ~Owns(h) /\ ~Ended(h) /\ ~Owns(h)' /\ Ended(h)'
      BY <2>4, <3>1 DEF Owns, Ended, BusyPhases
    <3>4. stageOf[h] = "accepted" /\ stageOf'[h] = "closed"
      BY <2>4, <3>1, <3>3, StageValues DEF StageIs
    <3>5. QED BY <2>4, <3>1, <3>2, <3>4, Closes
  <2>7. CASE WorkerAdmit
    <3>1. /\ wpc = "admit" /\ wpc' = "spawn" /\ UNCHANGED <<task, hand, completions, dropped, jobOf>>
          /\ h \notin cancelled /\ running[jobOf[h]] = NoExec
      BY <2>2, <2>7 DEF WorkerAdmit, JobIsFree
    <3>2. \A x \in Execs \ {h} : Same(x)
      BY <2>2, <3>1 DEF Same, Owns, Ended
    <3>3. ~Owns(h) /\ ~Ended(h) /\ Owns(h)'
      BY <2>2, <2>4, <3>1 DEF Owns, Ended, BusyPhases
    <3>4. stageOf[h] = "accepted" /\ stageOf'[h] = "running"
      BY <2>4, <3>3, StageValues DEF StageIs
    <3>5. ASSUME NEW other \in Execs, stageOf[other] = "running"
          PROVE  jobOf[other] # jobOf[h]
      <4>1. Owns(other)
        BY <3>5, StageValues DEF StageIs
      <4>2. running[jobOf[other]] = other
        BY <4>1 DEF RunningTableExact
      <4>3. QED BY <3>1, <4>2, NoExecAssumption
    <3>6. Lifecycle!Start(h)
      BY <2>4, <3>1, <3>2, <3>4, <3>5, OneStageMoves DEF Lifecycle!Start
    <3>7. QED BY <2>4, <3>1, <3>6 DEF Shown, Lifecycle!Next
  <2>8. CASE WorkerSpawn
    <3>1. /\ wpc = "spawn" /\ wpc' = "top" /\ UNCHANGED <<completions, dropped, jobOf>>
          /\ task' = [task EXCEPT ![h] = "starting"]
      BY <2>2, <2>8 DEF WorkerSpawn
    <3>2. task[h] = "none" /\ task'[h] = "starting"
      BY <2>4, <3>1 DEF TypeOK
    <3>3. \A x \in Execs \ {h} : task'[x] = task[x]
      BY <3>1 DEF TypeOK
    <3>4. \A x \in Execs \ {h} : Same(x)
      BY <2>2, <3>1, <3>3 DEF Same, Owns, Ended
    <3>5. Same(h)
      BY <2>2, <3>1, <3>2 DEF Same, Owns, Ended, BusyPhases
    <3>6. QED BY <3>4, <3>5, NoStageMoves DEF Shown
  <2>9. QED BY <1>4, <2>5, <2>6, <2>7, <2>8
<1>5. QED BY <1>2, <1>3, <1>4 DEF Worker

\* The tasks: the release of running_jobs closes the execution, nothing else shows.
LEMMA TaskStage ==
  ASSUME TypeOK, TypeOK', PlaceInv, NEW e \in Execs, Task(e)
  PROVE  Shown
<1> USE DEF tables, channel, gate, worker, tasks, stopper, observed, TaskMove
<1>1. PICK to : task' = [task EXCEPT ![e] = to]
  BY DEF Task, TaskRelease, TaskProgress, TaskBreak, TaskFinish, TaskFail,
     TaskReleaseActive, TaskReleaseRunning, TaskReleaseToken, TaskEmitCompleted
<1>2. /\ UNCHANGED <<wpc, hand, jobOf, dropped>>
      /\ completions' = completions \/ completions' = [completions EXCEPT ![e] = @ + 1]
  BY DEF Task, TaskRelease, TaskProgress, TaskBreak, TaskFinish, TaskFail,
     TaskReleaseActive, TaskReleaseRunning, TaskReleaseToken, TaskEmitCompleted
<1>3. /\ task'[e] = to
      /\ \A x \in Execs \ {e} : task'[x] = task[x] /\ completions'[x] = completions[x]
  BY <1>1, <1>2 DEF TypeOK
<1>4. \A x \in Execs \ {e} : Same(x)
  BY <1>2, <1>3 DEF Same, Owns, Ended
<1>5. task[e] # "none" => hand # e
  BY DEF PlaceInv, Placed, NotStarted
<1>6. CASE TaskReleaseRunning(e)
  <2>1. task[e] = "relRunning" /\ task'[e] = "relToken"
    BY <1>6 DEF TaskReleaseRunning, TypeOK
  <2>2. Owns(e) /\ ~Owns(e)' /\ Ended(e)'
    BY <1>2, <1>5, <2>1 DEF Owns, Ended, BusyPhases
  <2>3. stageOf[e] = "running" /\ stageOf'[e] = "closed"
    BY <2>2, StageValues DEF StageIs
  <2>4. QED BY <1>2, <1>4, <2>3, Closes
<1>7. CASE \/ TaskProgress(e) \/ TaskBreak(e) \/ TaskFinish(e) \/ TaskFail(e)
           \/ TaskReleaseActive(e)
  <2>1. /\ task[e] \in BusyPhases \cup {"relActive"}
        /\ task'[e] \in {"working", "relActive", "relRunning"}
        /\ completions' = completions
    BY <1>7 DEF TaskProgress, TaskBreak, TaskFinish, TaskFail, TaskReleaseActive,
       BusyPhases, TypeOK
  <2>2. Same(e)
    BY <1>2, <2>1 DEF Same, Owns, Ended, BusyPhases
  <2>3. QED BY <1>4, <2>2, NoStageMoves DEF Shown
<1>8. CASE TaskReleaseToken(e) \/ TaskEmitCompleted(e)
  <2>1. task[e] \in {"relToken", "emit"} /\ task'[e] \in {"emit", "done"}
    BY <1>8 DEF TaskReleaseToken, TaskEmitCompleted, TypeOK
  <2>2. Same(e)
    BY <1>2, <1>5, <2>1 DEF Same, Owns, Ended, BusyPhases
  <2>3. QED BY <1>4, <2>2, NoStageMoves DEF Shown
<1>9. QED BY <1>6, <1>7, <1>8 DEF Task, TaskRelease

\* Every step of the queue is a step of the life cycle or does not show.
LEMMA LifecycleStep ==
  OwnershipInv /\ PlaceInv /\ TypeOK' /\ [QueueNext]_queueVars => Shown
<1> SUFFICES ASSUME OwnershipInv, PlaceInv, TypeOK', [QueueNext]_queueVars PROVE Shown
  OBVIOUS
<1>0. TypeOK
  BY DEF OwnershipInv
<1>1. CASE UNCHANGED queueVars
  <2>1. \A x \in Execs : Same(x)
    BY <1>1 DEF queueVars, Same, Owns, Ended
  <2>2. QED BY <1>0, <2>1, NoStageMoves DEF Shown
<1>2. QED BY <1>0, <1>1, ClientStage, WorkerStage, TaskStage DEF QueueNext

\* At first every id is new.
LEMMA InitStage == QueueInit => Lifecycle!Init
<1> SUFFICES ASSUME QueueInit PROVE Lifecycle!Init
  OBVIOUS
<1>1. \A x \in Execs : ~Owns(x) /\ ~Ended(x) /\ jobOf[x] = NoJob
  BY DEF QueueInit, Owns, Ended, BusyPhases
<1>2. \A x \in Execs : stageOf[x] = "new"
  BY <1>1, StageValues DEF StageIs
<1>3. stageOf = [x \in Execs |-> stageOf[x]]
  BY DEF stageOf
<1>4. QED BY <1>2, <1>3 DEF QueueInit, Lifecycle!Init

\* The queue (queue.rs) implements ExecutionLifecycle: an execution is accepted
\* once, started at most once, never while another of its job runs, and what
\* was cancelled in the queue, dropped or ended is never started again.
THEOREM QueueImplementsLifecycle == QueueSpec => ImplementsLifecycle
<1>1. QueueInit => OwnershipInv /\ PlaceInv /\ Lifecycle!Init
  BY InitOwnership, InitPlace, InitStage
<1>2. OwnershipInv /\ PlaceInv /\ [QueueNext]_queueVars => OwnershipInv' /\ PlaceInv' /\ Shown
  <2>1. OwnershipInv => TypeOK /\ IdsHandedOut
    BY DEF OwnershipInv
  <2>2. OwnershipInv /\ [QueueNext]_queueVars => OwnershipInv'
    BY <2>1, TypeOKStep, IdsHandedOutStep, OwnershipStep DEF OwnershipInv
  <2>3. OwnershipInv' => TypeOK'
    BY DEF OwnershipInv
  <2>4. QED BY <2>1, <2>2, <2>3, PlaceStep, LifecycleStep
<1>3. QED BY <1>1, <1>2, PTL DEF QueueSpec, ImplementsLifecycle, Lifecycle!Spec, Shown

-----------------------------------------------------------------------------
(***************************************************************************)
(* FlowRuns for every number of flows, files, writes, runs and faults, and *)
(* every transfer option.                                                  *)
(*                                                                         *)
(* TransfersRecorded and UndoRestores hold for any directories, as long as *)
(* no flow writes into its own source directory (DirectoriesAssumption).   *)
(* NothingLost needs that no flow feeds itself, not even through others    *)
(* (NoLoops); chains of flows are fine.  In a loop a rollback may remove,  *)
(* as the copy that it once made, what a rollback of the other flow has    *)
(* brought back there.                                                     *)
(***************************************************************************)

-----------------------------------------------------------------------------
(***************************************************************************)
(* What a run, a manifest and a rollback look like.                        *)
(***************************************************************************)

SourcesOf(j) == {j} \X Files \X {0}
TargetsOf(j) == {TargetDir[j]} \X Files \X (0..MaxSuffix)

\* Where a run has a file in hand, and where it has transferred it.
Busy  == {"sum", "transfer", "verify", "compare", "confirm", "discard", "remove", "hash"}
There == {"verify", "compare", "hash"}

Places == Busy \cup {"idle", "next", "audit", "end"}

Runs ==
  [at : Places, number : Nat, todo : SUBSET Files, source : Paths \cup {NoPath},
   target : Paths \cup {NoPath}, outcome : Statuses \cup {"none", "failed"},
   sum : Contents, items : Seq(Items)]

Manifests == [flow : Flows, run : Nat, items : Seq(Items), undone : BOOLEAN]

Undos == [at : {"idle", "check", "act"}, manifest : Nat, left : Nat]

\* A flow copies or moves from its source directory to its target directory.
IsMode(j, status) ==
  (status = "copied" => config[j].mode = "copy") /\ (status = "moved" => config[j].mode = "move")

IsItemOf(j, item) ==
  item.source \in SourcesOf(j) /\ item.target \in TargetsOf(j) /\ IsMode(j, item.status)

IsRunOf(j, r) ==
  /\ r.at = "idle" => r = NotRunning
  /\ r.at \in Busy => r.source \in SourcesOf(j) /\ r.target \in TargetsOf(j)
  /\ r.at \in {"confirm", "discard", "remove"} => config[j].mode = "move"
  /\ r.at \in There => r.outcome \in {"copied", "moved"} /\ IsMode(j, r.outcome)
  /\ \A i \in DOMAIN r.items : IsItemOf(j, r.items[i])

IsUndoOf(j, u) ==
  /\ u.at # "idle" =>
       /\ u.manifest \in DOMAIN manifests /\ manifests[u.manifest].flow = j
       /\ u.left \in 0..Len(manifests[u.manifest].items)
  /\ u.at = "act" =>
       u.left > 0 /\ manifests[u.manifest].items[u.left].status \in {"copied", "moved"}

FsTypes == fs \in [Paths -> Contents] /\ writes \in Nat /\ writes <= MaxWrites

RunTypes ==
  /\ config \in [Flows -> Configs] /\ run \in [Flows -> Runs] /\ runs \in Nat
  /\ \A j \in Flows : IsRunOf(j, run[j])

ManifestTypes ==
  /\ manifests \in Seq(Manifests)
  /\ \A m \in DOMAIN manifests : \A i \in DOMAIN manifests[m].items :
       IsItemOf(manifests[m].flow, manifests[m].items[i])

UndoTypes == undo \in [Flows -> Undos] /\ \A j \in Flows : IsUndoOf(j, undo[j])

TypesInv == FsTypes /\ RunTypes /\ ManifestTypes /\ UndoTypes

\* The directories of a flow.
LEMMA PathsAre ==
  ASSUME NEW j \in Flows
  PROVE  /\ SourcesOf(j) \subseteq Paths /\ TargetsOf(j) \subseteq Paths
         /\ \A f \in Files : Source(j, f) \in SourcesOf(j)
         /\ \A f \in Files, n \in 0..MaxSuffix : Target(j, f, n) \in TargetsOf(j)
  BY BoundsAssumption DEF SourcesOf, TargetsOf, Paths, Source, Target

\* Every set of natural numbers but the empty one has a least member.
LEMMA LeastNumber ==
  ASSUME NEW T \in SUBSET Nat, T # {}
  PROVE  \E n \in T : \A m \in T : n <= m
<1> DEFINE less == OpToRel(<, Nat)
<1>1. IsWellFoundedOn(less, Nat)
  BY NatLessThanWellFounded
<1>2. \A n, m \in Nat : n < m => <<n, m>> \in less
  BY DEF OpToRel
<1> HIDE DEF less
<1>3. PICK n \in T : \A m \in T : ~(<<m, n>> \in less)
  BY <1>1, WFMin
<1>4. \A m \in T : ~(m < n)
  BY <1>2, <1>3
<1>5. n \in Nat /\ \A m \in T : m \in Nat
  OBVIOUS
<1>6. \A m \in T : n <= m
  BY <1>4, <1>5
<1>7. QED BY <1>6

\* process_file decides for one of three ends, and a target that it does not
\* overwrite is free.
LEMMA ChosenIs ==
  ASSUME NEW j \in Flows, NEW f \in Files
  PROVE  \E n \in 0..MaxSuffix :
           /\ \E at \in {"sum", "transfer", "audit"}, outcome \in {"none", "ignored", "failed"} :
                Chosen(j, f) = [source |-> Source(j, f), target |-> Target(j, f, n),
                                at |-> at, outcome |-> outcome]
           /\ Chosen(j, f).at \in {"sum", "transfer"} /\ config[j].conflict # "overwrite"
                => ~Exists(Target(j, f, n))
           /\ Chosen(j, f).at = "transfer" => ~(config[j].mode = "move" /\ config[j].verify)
<1> DEFINE n == CHOOSE n \in Free(j, f) : \A m \in Free(j, f) : n <= m
<1>1. Free(j, f) # {} => n \in Free(j, f)
  <2>1. Free(j, f) \subseteq Nat
    BY BoundsAssumption DEF Free
  <2>2. QED BY <2>1, LeastNumber
<1>2. Free(j, f) # {} => n \in 0..MaxSuffix /\ ~Exists(Target(j, f, n))
  BY <1>1, BoundsAssumption DEF Free
<1>3. 0 \in 0..MaxSuffix
  BY BoundsAssumption
<1> HIDE DEF n
<1> DEFINE choice(at, outcome, k) ==
             [source |-> Source(j, f), target |-> Target(j, f, k), at |-> at, outcome |-> outcome]
<1>4. PICK begin \in {"sum", "transfer"} :
        begin = IF config[j].mode = "move" /\ config[j].verify THEN "sum" ELSE "transfer"
  OBVIOUS
<1>5. \/ Chosen(j, f) = choice("audit", "failed", 0)
      \/ Chosen(j, f) = choice("audit", "ignored", 0)
      \/ /\ Chosen(j, f) = choice(begin, "none", 0)
         /\ ~Exists(Target(j, f, 0)) \/ config[j].conflict = "overwrite"
      \/ Chosen(j, f) = choice(begin, "none", n) /\ Free(j, f) # {}
  BY <1>4 DEF Chosen, n
<1>6. \A at, outcome, k : /\ choice(at, outcome, k).at = at
                          /\ choice(at, outcome, k).target = Target(j, f, k)
  OBVIOUS
<1>7. CASE Chosen(j, f) = choice("audit", "failed", 0) \/ Chosen(j, f) = choice("audit", "ignored", 0)
  BY <1>3, <1>6, <1>7
<1>8. CASE /\ Chosen(j, f) = choice(begin, "none", 0)
           /\ ~Exists(Target(j, f, 0)) \/ config[j].conflict = "overwrite"
  BY <1>3, <1>4, <1>6, <1>8
<1>9. CASE Chosen(j, f) = choice(begin, "none", n) /\ Free(j, f) # {}
  BY <1>2, <1>4, <1>6, <1>9
<1>10. QED BY <1>5, <1>7, <1>8, <1>9

-----------------------------------------------------------------------------
(***************************************************************************)
(* Steps keep the types.                                                   *)
(***************************************************************************)

\* Flow j's run becomes r, and r is one of its runs.
RunBecomes(j, r) == r \in Runs /\ IsRunOf(j, r) /\ run' = [run EXCEPT ![j] = r]

\* No run is one of every flow.
LEMMA NotRunningIs ==
  ASSUME NEW j \in Flows
  PROVE  NotRunning \in Runs /\ IsRunOf(j, NotRunning) /\ NotRunning.items = <<>> /\ NotRunning.at = "idle"
<1>1. NotRunning \in Runs
  BY BoundsAssumption DEF NotRunning, Runs, Places, Contents, Nothing
<1>2. DOMAIN NotRunning.items = {}
  BY DEF NotRunning
<1>3. QED BY <1>1, <1>2 DEF IsRunOf, NotRunning, Busy, There

\* A run begins with no items, at its loop.
LEMMA RunStartIs ==
  ASSUME TypesInv, NEW j \in Flows, RunStart(j)
  PROVE  \E r : RunBecomes(j, r) /\ r.at = "next" /\ r.items = <<>>
<1> DEFINE todo == {f \in Files : Exists(Source(j, f))}
           r == [NotRunning EXCEPT !.at = "next", !.number = runs + 1, !.todo = todo]
<1>1. run' = [run EXCEPT ![j] = r]
  BY DEF RunStart
<1>2. runs + 1 \in Nat
  BY DEF TypesInv, RunTypes
<1>3. r \in Runs /\ r.at = "next" /\ r.items = <<>>
  <2>1. todo \in SUBSET Files
    OBVIOUS
  <2> HIDE DEF todo
  <2>2. QED BY <1>2, <2>1, NotRunningIs DEF Runs, Places
<1>4. IsRunOf(j, r)
  <2> HIDE DEF r
  <2>1. DOMAIN r.items = {}
    BY <1>3
  <2>2. QED BY <1>3, <2>1 DEF IsRunOf, Busy, There
<1>5. QED BY <1>1, <1>3, <1>4 DEF RunBecomes

\* What the choice for one file does to the run.
LEMMA RunNextIs ==
  ASSUME TypesInv, NEW j \in Flows, RunNext(j)
  PROVE  \E r : /\ RunBecomes(j, r) /\ r.number = run[j].number
                /\ r.at \in {"audit", "sum", "transfer"}
                /\ \/ r.items = run[j].items
                   \/ \E item \in Items : item.status = "ignored" /\ r.items = Append(run[j].items, item)
                /\ \E f \in run[j].todo, n \in 0..MaxSuffix :
                     r.todo = run[j].todo \ {f} /\ r.source = Source(j, f) /\ r.target = Target(j, f, n)
                /\ config[j].conflict # "overwrite" /\ r.at \in {"sum", "transfer"} => ~Exists(r.target)
                /\ r.at = "transfer" => ~(config[j].mode = "move" /\ config[j].verify)
<1>1. PICK f \in run[j].todo :
        LET choice == Chosen(j, f)
            item   == [source |-> choice.source, target |-> choice.target,
                       status |-> "ignored", hash |-> Nothing]
        IN  run' = [run EXCEPT ![j].todo = @ \ {f}, ![j].at = choice.at,
                               ![j].source = choice.source, ![j].target = choice.target,
                               ![j].outcome = choice.outcome,
                               ![j].items = IF choice.outcome = "ignored" THEN Append(@, item) ELSE @]
  BY DEF RunNext
<1>2. run[j] \in Runs /\ f \in Files /\ IsRunOf(j, run[j])
  BY DEF TypesInv, RunTypes, Runs
<1> DEFINE choice == Chosen(j, f)
           item   == [source |-> choice.source, target |-> choice.target,
                       status |-> "ignored", hash |-> Nothing]
           items  == IF choice.outcome = "ignored" THEN Append(run[j].items, item) ELSE run[j].items
           r == [run[j] EXCEPT !.todo = run[j].todo \ {f}, !.at = choice.at,
                               !.source = choice.source, !.target = choice.target,
                               !.outcome = choice.outcome, !.items = items]
<1>3. run' = [run EXCEPT ![j] = r]
  BY <1>1
<1>4. /\ choice.source \in SourcesOf(j) /\ choice.target \in TargetsOf(j)
      /\ choice.at \in {"sum", "transfer", "audit"} /\ choice.outcome \in {"none", "ignored", "failed"}
      /\ choice.at \in {"sum", "transfer"} /\ config[j].conflict # "overwrite" => ~Exists(choice.target)
      /\ choice.at = "transfer" => ~(config[j].mode = "move" /\ config[j].verify)
      /\ choice.source = Source(j, f) /\ \E n \in 0..MaxSuffix : choice.target = Target(j, f, n)
  BY <1>2, PathsAre, ChosenIs
<1> HIDE DEF choice
<1>5. item \in Items /\ IsItemOf(j, item) /\ item.status = "ignored"
  BY <1>4, PathsAre, BoundsAssumption DEF Items, IsItemOf, IsMode, Statuses, Contents, Nothing
<1> HIDE DEF item
<1>6. /\ items \in Seq(Items) /\ \A i \in DOMAIN items : IsItemOf(j, items[i])
      /\ items = run[j].items \/ items = Append(run[j].items, item)
  <2>1. run[j].items \in Seq(Items) /\ \A i \in DOMAIN run[j].items : IsItemOf(j, run[j].items[i])
    BY <1>2 DEF Runs, IsRunOf
  <2>2. Append(run[j].items, item) \in Seq(Items)
        /\ \A i \in DOMAIN Append(run[j].items, item) : IsItemOf(j, Append(run[j].items, item)[i])
    BY <1>5, <2>1
  <2>3. QED BY <2>1, <2>2
<1> HIDE DEF items
<1>7. /\ r \in Runs /\ r.at = choice.at /\ r.source = choice.source /\ r.target = choice.target
      /\ r.outcome = choice.outcome /\ r.items = items /\ r.number = run[j].number
      /\ r.todo = run[j].todo \ {f}
  BY <1>2, <1>4, <1>6, PathsAre DEF Runs, Places, Busy, Statuses
<1> HIDE DEF r
<1>8. IsRunOf(j, r)
  BY <1>4, <1>6, <1>7 DEF IsRunOf, There
<1>9. QED BY <1>3, <1>4, <1>5, <1>6, <1>7, <1>8 DEF RunBecomes

\* A step that only changes where the run is, and what became of its file.
LEMMA RunToIs ==
  ASSUME TypesInv, NEW j \in Flows, NEW at \in Places \ {"idle"}, NEW outcome \in Statuses \cup {"none", "failed"},
         RunTo(j, at, outcome),
         at \in Busy => run[j].at \in Busy,
         at \in {"confirm", "discard", "remove"} => config[j].mode = "move",
         at \in There => outcome \in {"copied", "moved"} /\ IsMode(j, outcome)
  PROVE  \E r : /\ RunBecomes(j, r) /\ r.at = at /\ r.outcome = outcome /\ r.items = run[j].items
                /\ r.number = run[j].number /\ r.source = run[j].source /\ r.target = run[j].target
                /\ r.sum = run[j].sum /\ r.todo = run[j].todo
<1> DEFINE r == [run[j] EXCEPT !.at = at, !.outcome = outcome]
<1>1. run[j] \in Runs /\ IsRunOf(j, run[j])
  BY DEF TypesInv, RunTypes
<1>2. run' = [run EXCEPT ![j] = r]
  BY DEF RunTo
<1>3. /\ r \in Runs /\ r.at = at /\ r.outcome = outcome /\ r.items = run[j].items
      /\ r.number = run[j].number /\ r.source = run[j].source /\ r.target = run[j].target
      /\ r.sum = run[j].sum /\ r.todo = run[j].todo
  BY <1>1 DEF Runs
<1> HIDE DEF r
<1>4. IsRunOf(j, r)
  BY <1>1, <1>3 DEF IsRunOf
<1>5. QED BY <1>2, <1>3, <1>4 DEF RunBecomes

\* A hash of the source, which is as it is found.
LEMMA RunReadsIs ==
  ASSUME TypesInv, NEW j \in Flows, NEW at \in {"transfer", "compare"}, RunReads(j, at),
         run[j].at \in {"sum", "verify"}, at = "compare" => run[j].at = "verify"
  PROVE  \E r : /\ RunBecomes(j, r) /\ r.items = run[j].items /\ r.number = run[j].number
                /\ r.source = run[j].source /\ r.target = run[j].target /\ r.todo = run[j].todo
                /\ \/ r.at = "audit" /\ ~Exists(run[j].source)
                   \/ /\ r.at = at /\ r.sum = fs[run[j].source] /\ Exists(run[j].source)
                      /\ r.outcome = run[j].outcome
<1>1. run[j] \in Runs /\ IsRunOf(j, run[j]) /\ run[j].source \in Paths /\ fs \in [Paths -> Contents]
  BY PathsAre DEF TypesInv, RunTypes, FsTypes, IsRunOf, Busy
<1>2. CASE ~Exists(run[j].source)
  <2>1. RunTo(j, "audit", "failed")
    BY <1>2 DEF RunReads
  <2>2. QED BY <1>2, <2>1, RunToIs DEF Places, Busy, There
<1>3. CASE Exists(run[j].source)
  <2> DEFINE r == [run[j] EXCEPT !.at = at, !.sum = fs[run[j].source]]
  <2>1. run' = [run EXCEPT ![j] = r]
    BY <1>3 DEF RunReads
  <2>2. /\ r \in Runs /\ r.at = at /\ r.outcome = run[j].outcome /\ r.items = run[j].items
        /\ r.number = run[j].number /\ r.source = run[j].source /\ r.target = run[j].target
        /\ r.sum = fs[run[j].source] /\ r.todo = run[j].todo
    BY <1>1 DEF Runs, Places, Busy
  <2> HIDE DEF r
  <2>3. IsRunOf(j, r)
    BY <1>1, <2>2 DEF IsRunOf, Busy, There
  <2>4. QED BY <1>3, <2>1, <2>2, <2>3 DEF RunBecomes
<1>4. QED BY <1>2, <1>3

\* The steps of verify_after_copy, and errors: they change no file.
RunChecks(j) == RunSum(j) \/ RunVerify(j) \/ RunCompare(j) \/ RunConfirm(j) \/ RunFileError(j)

\* Where a check leads, and what it has found.
CheckLeads(j, r) ==
  \/ r.at = "audit"
  \/ RunSum(j) /\ r.at = "transfer" /\ r.sum = fs[run[j].source]
  \/ /\ RunVerify(j) /\ r.at = "compare" /\ r.sum = fs[run[j].source] /\ r.outcome = run[j].outcome
     /\ Exists(run[j].source)
  \/ /\ RunCompare(j) /\ r.at = "hash" /\ fs[run[j].target] = run[j].sum /\ r.outcome = run[j].outcome
     /\ r.sum = run[j].sum
  \/ RunConfirm(j) /\ r.at = "remove" /\ fs[run[j].target] = run[j].sum
  \/ RunConfirm(j) /\ r.at = "discard"

\* A check changes only where the run is, and what it has read.
LEMMA RunChecksIs ==
  ASSUME TypesInv, NEW j \in Flows, RunChecks(j)
  PROVE  /\ run[j].at \in Busy \ {"hash"}
         /\ UNCHANGED <<fs, config, manifests, undo, writes, runs>>
         /\ \E r : /\ RunBecomes(j, r) /\ r.items = run[j].items /\ r.number = run[j].number
                   /\ r.source = run[j].source /\ r.target = run[j].target /\ r.todo = run[j].todo
                   /\ CheckLeads(j, r)
<1>1. /\ run[j].at \in Busy \ {"hash"}
      /\ UNCHANGED <<fs, config, manifests, undo, writes, runs>>
  BY DEF RunChecks, RunSum, RunVerify, RunCompare, RunConfirm, RunFileError, At, Busy, bounds, ghosts
<1>2. run[j] \in Runs /\ IsRunOf(j, run[j])
  BY DEF TypesInv, RunTypes
<1>3. CASE RunTo(j, "audit", "failed")
  BY <1>1, <1>3, RunToIs DEF Places, Busy, There, CheckLeads
<1>4. CASE RunSum(j)
  BY <1>1, <1>4, RunReadsIs DEF RunSum, At, CheckLeads
<1>5. CASE RunVerify(j)
  BY <1>1, <1>5, RunReadsIs DEF RunVerify, At, CheckLeads
<1>6. CASE RunCompare(j) /\ ~RunTo(j, "audit", "failed")
  <2>1. /\ run[j].at = "compare" /\ fs[run[j].target] = run[j].sum /\ RunTo(j, "hash", run[j].outcome)
    BY <1>6 DEF RunCompare, At
  <2>2. run[j].outcome \in {"copied", "moved"} /\ IsMode(j, run[j].outcome)
    BY <1>2, <2>1 DEF IsRunOf, There
  <2>3. PICK r : /\ RunBecomes(j, r) /\ r.at = "hash" /\ r.outcome = run[j].outcome /\ r.items = run[j].items
                 /\ r.number = run[j].number /\ r.source = run[j].source /\ r.target = run[j].target
                 /\ r.sum = run[j].sum /\ r.todo = run[j].todo
    BY <2>1, <2>2, RunToIs DEF Places, Busy, There, Statuses
  <2>4. QED BY <1>1, <1>6, <2>1, <2>3 DEF CheckLeads
<1>7. CASE RunConfirm(j) /\ ~RunTo(j, "audit", "failed")
  <2>1. PICK at \in {"remove", "discard"} :
          /\ run[j].at = "confirm" /\ RunTo(j, at, "none")
          /\ at = "remove" => fs[run[j].target] = run[j].sum
    BY <1>7 DEF RunConfirm, At
  <2>2. config[j].mode = "move"
    BY <1>2, <2>1 DEF IsRunOf
  <2>3. PICK r : /\ RunBecomes(j, r) /\ r.at = at /\ r.items = run[j].items
                 /\ r.number = run[j].number /\ r.source = run[j].source /\ r.target = run[j].target
                 /\ r.todo = run[j].todo
    BY <2>1, <2>2, RunToIs DEF Places, Busy, There
  <2>4. QED BY <1>1, <1>7, <2>1, <2>3 DEF CheckLeads
<1>8. QED BY <1>3, <1>4, <1>5, <1>6, <1>7 DEF RunChecks, RunFileError

\* A bad copy is removed, and the file has failed.
LEMMA RunDiscardIs ==
  ASSUME TypesInv, NEW j \in Flows, RunDiscard(j)
  PROVE  /\ run[j].at = "discard" /\ run[j].target \in Paths
         /\ fs' = [fs EXCEPT ![run[j].target] = Nothing]
         /\ \E r : /\ RunBecomes(j, r) /\ r.at = "audit" /\ r.items = run[j].items
                   /\ r.number = run[j].number /\ r.todo = run[j].todo
<1>1. /\ run[j].at = "discard" /\ fs' = [fs EXCEPT ![run[j].target] = Nothing]
      /\ RunTo(j, "audit", "failed")
  BY DEF RunDiscard, At
<1>2. run[j].target \in Paths
  BY <1>1, PathsAre DEF TypesInv, RunTypes, IsRunOf, Busy
<1>3. QED BY <1>1, <1>2, RunToIs DEF Places, Busy, There

\* The loop ends, or the run goes on to the next file, without anything in hand.
LEMMA RunGoesOn ==
  ASSUME TypesInv, NEW j \in Flows, RunCancelled(j) \/ RunLoopDone(j) \/ RunAudit(j)
  PROVE  \E r : /\ RunBecomes(j, r) /\ r.at \in {"next", "end"} /\ r.items = run[j].items
                /\ r.number = run[j].number /\ r.todo \subseteq run[j].todo
<1>1. run[j] \in Runs /\ IsRunOf(j, run[j])
  BY DEF TypesInv, RunTypes
<1>2. \E at \in {"next", "end"}, todo \in SUBSET run[j].todo :
        \/ run' = [run EXCEPT ![j] = [run[j] EXCEPT !.at = at, !.todo = todo]]
        \/ run' = [run EXCEPT ![j] = [run[j] EXCEPT !.at = at, !.todo = todo, !.source = NoPath,
                                                    !.target = NoPath, !.outcome = "none",
                                                    !.sum = Nothing]]
  <2>1. CASE RunCancelled(j)
    <3>1. run' = [run EXCEPT ![j] = [run[j] EXCEPT !.at = "end", !.todo = {}]]
      BY <2>1 DEF RunCancelled
    <3>2. QED BY <3>1
  <2>2. CASE RunLoopDone(j)
    <3>1. run' = [run EXCEPT ![j] = [run[j] EXCEPT !.at = "end", !.todo = run[j].todo]]
      BY <1>1, <2>2 DEF RunLoopDone, Runs
    <3>2. QED BY <1>1, <3>1 DEF Runs
  <2>3. CASE RunAudit(j)
    <3> DEFINE stop == run[j].outcome = "failed" /\ config[j].stopOnError
               at == IF stop THEN "end" ELSE "next"
               todo == IF stop THEN {} ELSE run[j].todo
    <3>1. run' = [run EXCEPT ![j] = [run[j] EXCEPT !.at = at, !.todo = todo, !.source = NoPath,
                                                   !.target = NoPath, !.outcome = "none",
                                                   !.sum = Nothing]]
      BY <2>3 DEF RunAudit
    <3>2. at \in {"next", "end"} /\ todo \in SUBSET run[j].todo
      BY <1>1 DEF Runs
    <3> HIDE DEF at, todo
    <3>3. QED BY <3>1, <3>2
  <2>4. QED BY <2>1, <2>2, <2>3
<1>3. PICK at \in {"next", "end"}, todo \in SUBSET run[j].todo :
        \/ run' = [run EXCEPT ![j] = [run[j] EXCEPT !.at = at, !.todo = todo]]
        \/ run' = [run EXCEPT ![j] = [run[j] EXCEPT !.at = at, !.todo = todo, !.source = NoPath,
                                                    !.target = NoPath, !.outcome = "none",
                                                    !.sum = Nothing]]
  BY <1>2
<1> DEFINE r1 == [run[j] EXCEPT !.at = at, !.todo = todo]
           r2 == [run[j] EXCEPT !.at = at, !.todo = todo, !.source = NoPath,
                                !.target = NoPath, !.outcome = "none", !.sum = Nothing]
<1>4. r1 \in Runs /\ r1.at = at /\ r1.items = run[j].items /\ r1.number = run[j].number /\ r1.todo = todo
  BY <1>1 DEF Runs, Places
<1>5. r2 \in Runs /\ r2.at = at /\ r2.items = run[j].items /\ r2.number = run[j].number /\ r2.todo = todo
  <2>1. Nothing \in Contents
    BY BoundsAssumption DEF Contents, Nothing
  <2>2. QED BY <1>1, <2>1 DEF Runs, Places
<1>6. run' = [run EXCEPT ![j] = r1] \/ run' = [run EXCEPT ![j] = r2]
  BY <1>3
<1> HIDE DEF r1, r2
<1>7. IsRunOf(j, r1) /\ IsRunOf(j, r2)
  BY <1>1, <1>4, <1>5 DEF IsRunOf, Busy, There
<1>8. QED BY <1>4, <1>5, <1>6, <1>7 DEF RunBecomes

\* What the hash step appends to the run's items.
LEMMA RunHashIs ==
  ASSUME TypesInv, NEW j \in Flows, RunHash(j)
  PROVE  /\ Recorded(j, run[j].outcome, fs[run[j].target]) \in Items
         /\ run[j].outcome \in {"copied", "moved"}
         /\ run[j].source \in SourcesOf(j) /\ run[j].target \in TargetsOf(j)
         /\ \E r : /\ RunBecomes(j, r) /\ r.at = "audit" /\ r.number = run[j].number
                   /\ r.items = Append(run[j].items, Recorded(j, run[j].outcome, fs[run[j].target]))
<1> DEFINE item == Recorded(j, run[j].outcome, fs[run[j].target])
           items == Append(run[j].items, item)
           r == [run[j] EXCEPT !.at = "audit", !.items = items]
<1>1. run[j] \in Runs /\ IsRunOf(j, run[j]) /\ run[j].at = "hash"
  BY DEF TypesInv, RunTypes, RunHash, At
<1>2. run' = [run EXCEPT ![j] = r]
  BY DEF RunHash
<1>3. /\ run[j].source \in SourcesOf(j) /\ run[j].target \in TargetsOf(j)
      /\ run[j].outcome \in {"copied", "moved"} /\ IsMode(j, run[j].outcome)
  BY <1>1 DEF IsRunOf, Busy, There
<1>4. item \in Items /\ IsItemOf(j, item)
  BY <1>3, PathsAre DEF Recorded, Items, Statuses, IsItemOf, TypesInv, FsTypes
<1> HIDE DEF item
<1>5. items \in Seq(Items) /\ \A i \in DOMAIN items : IsItemOf(j, items[i])
  <2>1. run[j].items \in Seq(Items) /\ \A i \in DOMAIN run[j].items : IsItemOf(j, run[j].items[i])
    BY <1>1 DEF Runs, IsRunOf
  <2>2. QED BY <1>4, <2>1
<1> HIDE DEF items
<1>6. r \in Runs /\ r.at = "audit" /\ r.items = items /\ r.number = run[j].number
  BY <1>1, <1>5 DEF Runs, Places
<1> HIDE DEF r
<1>7. IsRunOf(j, r)
  BY <1>5, <1>6 DEF IsRunOf, Busy, There
<1>8. QED BY <1>2, <1>3, <1>4, <1>6, <1>7 DEF RunBecomes, item, items

\* A run that becomes one of its flow's keeps the types.
LEMMA RunBecomesKeeps ==
  ASSUME TypesInv, NEW j \in Flows, NEW r, RunBecomes(j, r), runs' \in Nat, UNCHANGED config
  PROVE  /\ RunTypes' /\ run'[j] = r
         /\ \A k \in Flows \ {j} : run'[k] = run[k]
<1>1. /\ run' \in [Flows -> Runs] /\ run'[j] = r /\ \A k \in Flows \ {j} : run'[k] = run[k]
  BY DEF TypesInv, RunTypes, RunBecomes
<1>2. \A k \in Flows : IsRunOf(k, run'[k])
  BY <1>1 DEF TypesInv, RunTypes, RunBecomes
<1>3. \A k \in Flows : IsRunOf(k, run[k])'
  BY <1>2 DEF IsRunOf, IsItemOf, IsMode
<1>4. QED BY <1>1, <1>3 DEF RunTypes, TypesInv

\* Manifests are added, and marked as undone, but never change otherwise.
ManifestsStay ==
  /\ manifests' \in Seq(Manifests) /\ DOMAIN manifests \subseteq DOMAIN manifests'
  /\ \A m \in DOMAIN manifests :
       /\ manifests'[m].flow = manifests[m].flow /\ manifests'[m].run = manifests[m].run
       /\ manifests'[m].items = manifests[m].items

\* A manifest's items are items.
LEMMA ManifestIs ==
  ASSUME ManifestTypes, NEW m \in DOMAIN manifests
  PROVE  /\ manifests[m] \in Manifests /\ manifests[m].items \in Seq(Items) /\ m \in Nat
         /\ Len(manifests[m].items) \in Nat
         /\ DOMAIN manifests[m].items = 1..Len(manifests[m].items)
         /\ \A i \in DOMAIN manifests[m].items : manifests[m].items[i] \in Items
<1>1. manifests \in Seq(Manifests)
  BY DEF ManifestTypes
<1>2. manifests[m] \in Manifests /\ m \in Nat
  BY <1>1
<1>3. manifests[m].items \in Seq(Items)
  BY <1>2 DEF Manifests
<1>4. QED BY <1>2, <1>3

\* A run's end adds its items as a manifest, if it has any.
LEMMA RunEndManifests ==
  ASSUME TypesInv, NEW j \in Flows, RunEnd(j)
  PROVE  /\ ManifestsStay
         /\ \A m \in DOMAIN manifests' \ DOMAIN manifests :
              /\ manifests'[m].flow = j /\ manifests'[m].run = run[j].number
              /\ manifests'[m].items = run[j].items
         /\ run[j].items # <<>> => \E m \in DOMAIN manifests' :
              manifests'[m].run = run[j].number /\ manifests'[m].items = run[j].items
<1> DEFINE new == [flow |-> j, run |-> run[j].number, items |-> run[j].items, undone |-> FALSE]
<1>1. new \in Manifests /\ new.flow = j /\ new.run = run[j].number /\ new.items = run[j].items
  BY DEF TypesInv, RunTypes, Runs, Manifests
<1>2. manifests \in Seq(Manifests)
  BY DEF TypesInv, ManifestTypes
<1>3. \/ run[j].items = <<>> /\ manifests' = manifests
      \/ run[j].items # <<>> /\ manifests' = Append(manifests, new)
  BY DEF RunEnd
<1> HIDE DEF new
<1>4. CASE run[j].items = <<>> /\ manifests' = manifests
  BY <1>2, <1>4 DEF ManifestsStay
<1>5. CASE run[j].items # <<>> /\ manifests' = Append(manifests, new)
  <2>1. /\ manifests' \in Seq(Manifests) /\ DOMAIN manifests' = 1..Len(manifests) + 1
        /\ DOMAIN manifests = 1..Len(manifests) /\ Len(manifests) \in Nat
        /\ \A m \in 1..Len(manifests) : manifests'[m] = manifests[m]
        /\ manifests'[Len(manifests) + 1] = new
    BY <1>1, <1>2, <1>5
  <2>2. \A m \in DOMAIN manifests' \ DOMAIN manifests : m = Len(manifests) + 1
    BY <2>1
  <2>3. ManifestsStay
    BY <2>1 DEF ManifestsStay
  <2>4. \E m \in DOMAIN manifests' : manifests'[m] = new
    BY <2>1
  <2>5. QED BY <1>1, <2>1, <2>2, <2>3, <2>4
<1>6. QED BY <1>3, <1>4, <1>5

\* Marking a manifest as undone leaves its items.
LEMMA UndoMarkManifests ==
  ASSUME TypesInv, NEW j \in Flows, UndoMark(j)
  PROVE  ManifestsStay /\ DOMAIN manifests' = DOMAIN manifests
<1> DEFINE m == undo[j].manifest
           new == [manifests[m] EXCEPT !.undone = TRUE]
<1>1. m \in DOMAIN manifests
  BY DEF TypesInv, UndoTypes, IsUndoOf, UndoMark
<1>2. manifests \in Seq(Manifests) /\ manifests[m] \in Manifests
  BY <1>1 DEF TypesInv, ManifestTypes
<1>3. manifests' = [manifests EXCEPT ![m] = new]
  BY DEF UndoMark
<1> HIDE DEF m
<1>4. /\ new \in Manifests /\ new.flow = manifests[m].flow /\ new.run = manifests[m].run
      /\ new.items = manifests[m].items
  BY <1>2 DEF Manifests
<1> HIDE DEF new
<1>5. QED BY <1>1, <1>2, <1>3, <1>4 DEF ManifestsStay

\* Rollbacks go on with the manifest that they have.
LEMMA UndosStay ==
  ASSUME UndoTypes, ManifestTypes, ManifestsStay, UNCHANGED undo
  PROVE  UndoTypes'
<1>1. ASSUME NEW j \in Flows PROVE IsUndoOf(j, undo[j])'
  BY DEF UndoTypes, IsUndoOf, ManifestsStay
<1>2. QED BY <1>1 DEF UndoTypes

\* Flow j's rollback becomes u.
LEMMA UndoBecomes ==
  ASSUME UndoTypes, UNCHANGED manifests, NEW j \in Flows, NEW u \in Undos, IsUndoOf(j, u),
         undo' = [undo EXCEPT ![j] = u]
  PROVE  UndoTypes' /\ undo'[j] = u /\ \A k \in Flows \ {j} : undo'[k] = undo[k]
<1>1. undo' \in [Flows -> Undos] /\ undo'[j] = u /\ \A k \in Flows \ {j} : undo'[k] = undo[k]
  BY DEF UndoTypes
<1>2. \A k \in Flows : IsUndoOf(k, undo'[k])
  BY <1>1 DEF UndoTypes
<1>3. \A k \in Flows : IsUndoOf(k, undo[k])'
  BY <1>2 DEF IsUndoOf
<1>4. QED BY <1>1, <1>3 DEF UndoTypes

\* No rollback is one of every flow.
LEMMA NotUndoingIs ==
  ASSUME NEW j \in Flows
  PROVE  NotUndoing \in Undos /\ IsUndoOf(j, NotUndoing) /\ NotUndoing.at = "idle"
  BY DEF NotUndoing, Undos, IsUndoOf

\* Where a rollback goes, and that the item at hand is one that it can undo.
LEMMA UndoStepTypes ==
  ASSUME TypesInv, NEW j \in Flows,
         UndoStart(j) \/ UndoCheck(j) \/ UndoAct(j) \/ UndoMark(j) \/ UndoFails(j)
  PROVE  /\ UndoTypes'
         /\ \A k \in Flows \ {j} : undo'[k] = undo[k]
         /\ undo'[j].at = "act" => /\ Undoable(UndoItem(j)) /\ UNCHANGED manifests
                                   /\ undo'[j].manifest = undo[j].manifest /\ undo'[j].left = undo[j].left
<1>1. ManifestTypes /\ undo \in [Flows -> Undos] /\ undo[j] \in Undos /\ IsUndoOf(j, undo[j]) /\ UndoTypes
  BY DEF TypesInv, UndoTypes
<1>2. CASE UndoStart(j)
  <2>1. PICK m \in Pending(j) : undo' = [undo EXCEPT ![j] = [at |-> "check", manifest |-> m,
                                                            left |-> Len(manifests[m].items)]]
    BY <1>2 DEF UndoStart
  <2> DEFINE u == [at |-> "check", manifest |-> m, left |-> Len(manifests[m].items)]
  <2>2. m \in DOMAIN manifests /\ manifests[m].flow = j
    BY DEF Pending
  <2>3. m \in Nat /\ Len(manifests[m].items) \in Nat
    BY <1>1, <2>2, ManifestIs
  <2>4. u \in Undos /\ IsUndoOf(j, u) /\ u.at = "check"
    BY <2>2, <2>3 DEF Undos, IsUndoOf
  <2> HIDE DEF u
  <2>5. undo' = [undo EXCEPT ![j] = u] /\ UNCHANGED manifests
    BY <1>2, <2>1 DEF UndoStart, u
  <2>6. UndoTypes' /\ undo'[j] = u /\ \A k \in Flows \ {j} : undo'[k] = undo[k]
    BY <1>1, <2>4, <2>5, UndoBecomes
  <2>7. QED BY <2>4, <2>6
<1>3. ASSUME NEW left \in Nat, NEW at \in {"check", "act"}, undo[j].at # "idle", left <= undo[j].left,
             at = "act" => Undoable(UndoItem(j)) /\ left = undo[j].left /\ left > 0,
             undo' = [undo EXCEPT ![j] = [undo[j] EXCEPT !.at = at, !.left = left]], UNCHANGED manifests
      PROVE  /\ UndoTypes' /\ \A k \in Flows \ {j} : undo'[k] = undo[k]
             /\ undo'[j].at = "act" => /\ Undoable(UndoItem(j))
                                       /\ undo'[j].manifest = undo[j].manifest /\ undo'[j].left = undo[j].left
  <2> DEFINE u == [undo[j] EXCEPT !.at = at, !.left = left]
  <2>1. u \in Undos /\ u.at = at /\ u.left = left /\ u.manifest = undo[j].manifest
    BY <1>1 DEF Undos
  <2>2. undo' = [undo EXCEPT ![j] = u]
    BY <1>3
  <2> HIDE DEF u
  <2>3. undo[j].left \in 0..Len(manifests[undo[j].manifest].items)
    BY <1>1, <1>3 DEF IsUndoOf
  <2>4. left \in 0..Len(manifests[undo[j].manifest].items)
    <3>1. Len(manifests[undo[j].manifest].items) \in Nat
      BY <1>1, <1>3, ManifestIs DEF IsUndoOf
    <3>2. QED BY <1>3, <2>3, <3>1
  <2>5. IsUndoOf(j, u)
    BY <1>1, <1>3, <2>1, <2>4 DEF IsUndoOf, Undoable, UndoItem
  <2>6. UndoTypes' /\ undo'[j] = u /\ \A k \in Flows \ {j} : undo'[k] = undo[k]
    BY <1>1, <1>3, <2>1, <2>2, <2>5, UndoBecomes
  <2>7. QED BY <1>3, <2>1, <2>6
<1>4. undo[j].left \in Nat
  BY <1>1 DEF Undos
<1>5. CASE UndoCheck(j)
  <2>1. undo[j].at = "check" /\ undo[j].left > 0 /\ UNCHANGED manifests
    BY <1>5 DEF UndoCheck
  <2>2. CASE Undoable(UndoItem(j))
    <3>1. undo' = [undo EXCEPT ![j] = [undo[j] EXCEPT !.at = "act", !.left = undo[j].left]]
      BY <1>1, <1>5, <2>2 DEF UndoCheck, Undos
    <3>2. undo[j].left <= undo[j].left /\ undo[j].at # "idle"
      BY <1>4, <2>1
    <3>3. QED BY <1>3, <1>4, <2>1, <2>2, <3>1, <3>2
  <2>3. CASE ~Undoable(UndoItem(j))
    <3>1. undo' = [undo EXCEPT ![j] = [undo[j] EXCEPT !.at = "check", !.left = undo[j].left - 1]]
      BY <1>1, <1>5, <2>1, <2>3 DEF UndoCheck, Undos
    <3>2. undo[j].left - 1 \in Nat /\ undo[j].left - 1 <= undo[j].left
      BY <1>4, <2>1
    <3>3. QED BY <1>3, <2>1, <3>1, <3>2
  <2>4. QED BY <2>2, <2>3
<1>6. CASE UndoAct(j)
  <2>1. undo[j].at = "act" /\ UNCHANGED manifests
    BY <1>6 DEF UndoAct
  <2>2. undo' = [undo EXCEPT ![j] = [undo[j] EXCEPT !.at = "check", !.left = undo[j].left - 1]]
    BY <1>6 DEF UndoAct
  <2>3. undo[j].left - 1 \in Nat /\ undo[j].left - 1 <= undo[j].left
    BY <1>1, <1>4, <2>1 DEF IsUndoOf
  <2>4. QED BY <1>3, <2>1, <2>2, <2>3
<1>7. CASE UndoMark(j) \/ UndoFails(j)
  <2>1. undo' = [undo EXCEPT ![j] = NotUndoing]
    BY <1>7 DEF UndoMark, UndoFails
  <2>2. ManifestsStay
    BY <1>1, <1>7, UndoMarkManifests DEF UndoFails, ManifestsStay, ManifestTypes
  <2>3. undo' \in [Flows -> Undos] /\ undo'[j] = NotUndoing /\ \A k \in Flows \ {j} : undo'[k] = undo[k]
    BY <1>1, <2>1, NotUndoingIs
  <2>4. ASSUME NEW k \in Flows PROVE IsUndoOf(k, undo[k])'
    <3>1. CASE k = j
      BY <2>3, <3>1 DEF IsUndoOf, NotUndoing
    <3>2. CASE k # j
      BY <1>1, <2>2, <2>3, <3>2 DEF UndoTypes, IsUndoOf, ManifestsStay
    <3>3. QED BY <3>1, <3>2
  <2>5. QED BY <2>3, <2>4, NotUndoingIs DEF UndoTypes
<1>8. QED BY <1>2, <1>5, <1>6, <1>7

\* The item that a rollback has come to.
LEMMA UndoItemIs ==
  ASSUME TypesInv, NEW j \in Flows, undo[j].at # "idle", undo[j].left > 0
  PROVE  /\ UndoItem(j) \in Items /\ IsItemOf(j, UndoItem(j))
         /\ undo[j].manifest \in DOMAIN manifests
         /\ undo[j].left \in DOMAIN manifests[undo[j].manifest].items
<1> DEFINE m == undo[j].manifest
           i == undo[j].left
<1>1. undo[j] \in Undos /\ IsUndoOf(j, undo[j]) /\ ManifestTypes
  BY DEF TypesInv, UndoTypes
<1>2. m \in DOMAIN manifests /\ manifests[m].flow = j /\ i \in 0..Len(manifests[m].items) /\ i \in Nat
  BY <1>1 DEF IsUndoOf, Undos
<1>3. /\ Len(manifests[m].items) \in Nat /\ DOMAIN manifests[m].items = 1..Len(manifests[m].items)
      /\ \A k \in DOMAIN manifests[m].items : manifests[m].items[k] \in Items
  BY <1>1, <1>2, ManifestIs
<1>4. i \in DOMAIN manifests[m].items
  BY <1>2, <1>3
<1>5. QED BY <1>1, <1>2, <1>3, <1>4 DEF UndoItem, ManifestTypes

\* Nobody puts a content anywhere but on a path, and users number theirs.
LEMMA FsStep == TypesInv /\ [Next]_vars => FsTypes'
<1> SUFFICES ASSUME TypesInv, [Next]_vars PROVE FsTypes'
  OBVIOUS
<1>1. /\ fs \in [Paths -> Contents] /\ writes \in Nat /\ writes <= MaxWrites /\ MaxWrites \in Nat
      /\ Nothing \in Contents
  BY BoundsAssumption DEF TypesInv, FsTypes, Contents, Nothing
<1>2. ASSUME NEW p \in Paths, UserWrite(p) PROVE FsTypes'
  <2>1. writes + 1 \in Contents /\ writes' = writes + 1 /\ writes + 1 <= MaxWrites /\ writes + 1 \in Nat
    BY <1>1, <1>2 DEF UserWrite, Contents
  <2>2. fs' = [fs EXCEPT ![p] = writes + 1]
    BY <1>2 DEF UserWrite
  <2>3. QED BY <1>1, <2>1, <2>2 DEF FsTypes
<1>3. ASSUME NEW p \in Paths, UserDelete(p) PROVE FsTypes'
  BY <1>1, <1>3 DEF UserDelete, FsTypes, bounds
<1>4. ASSUME NEW j \in Flows, RunTransfer(j) PROVE FsTypes'
  <2>1. run[j].source \in Paths /\ run[j].target \in Paths
    BY <1>4, PathsAre DEF TypesInv, RunTypes, IsRunOf, RunTransfer, At, Busy
  <2> DEFINE cleared == [fs EXCEPT ![run[j].target] = Nothing]
  <2>2. fs[run[j].source] \in Contents
    BY <1>1, <2>1
  <2>3. \/ fs' \in {fs, cleared}
        \/ \E g \in {fs, cleared} : \/ fs' = [g EXCEPT ![run[j].target] = fs[run[j].source]]
                                    \/ fs' = [g EXCEPT ![run[j].target] = fs[run[j].source],
                                                       ![run[j].source] = Nothing]
    BY <1>4 DEF RunTransfer
  <2>4. fs' \in [Paths -> Contents]
    <3>1. \A g \in {fs, cleared} : g \in [Paths -> Contents]
      BY <1>1
    <3> HIDE DEF cleared
    <3>2. QED BY <1>1, <2>1, <2>2, <2>3, <3>1
  <2>5. QED BY <1>1, <1>4, <2>4 DEF FsTypes, RunTransfer, bounds
<1>5. ASSUME NEW j \in Flows, RunRemoveSource(j) PROVE FsTypes'
  BY <1>1, <1>5 DEF RunRemoveSource, FsTypes, bounds
<1>6. ASSUME NEW j \in Flows, UndoAct(j) PROVE FsTypes'
  <2>1. UndoItem(j).source \in Paths /\ UndoItem(j).target \in Paths
    BY <1>6, UndoItemIs DEF UndoAct, TypesInv, UndoTypes, IsUndoOf, Items
  <2>2. \/ fs' = fs
        \/ fs' = [fs EXCEPT ![UndoItem(j).target] = Nothing]
        \/ fs' = [fs EXCEPT ![UndoItem(j).source] = fs[UndoItem(j).target], ![UndoItem(j).target] = Nothing]
    BY <1>6 DEF UndoAct
  <2>3. fs' \in [Paths -> Contents]
    BY <1>1, <2>1, <2>2
  <2>4. QED BY <1>1, <1>6, <2>3 DEF FsTypes, UndoAct, bounds
<1>7. CASE UNCHANGED <<fs, writes>>
  BY <1>1, <1>7 DEF FsTypes
<1>8. CASE Crash
  BY <1>7, <1>8 DEF Crash
<1>9. ASSUME NEW j \in Flows, RunDiscard(j) PROVE FsTypes'
  BY <1>1, <1>9 DEF RunDiscard, FsTypes, bounds
<1>10. ASSUME NEW j \in Flows, RunChecks(j) PROVE FsTypes'
  BY <1>7, <1>10, RunChecksIs
<1>11. ASSUME NEW j \in Flows, RunStart(j) \/ RunStep(j) \/ UndoStart(j) \/ UndoStep(j) PROVE FsTypes'
  BY <1>4, <1>5, <1>6, <1>7, <1>9, <1>10, <1>11 DEF RunStep, RunChecks, UndoStep, RunStart, RunNext,
     RunCancelled, RunLoopDone, RunHash, RunAudit, RunEnd, RunFails, UndoStart, UndoCheck, UndoMark,
     UndoFails, bounds
<1>12. QED BY <1>2, <1>3, <1>7, <1>8, <1>11 DEF Next, vars, bounds

\* What a step of a run does to it: it goes on, transfers, records or ends.
LEMMA RunStepIs ==
  ASSUME TypesInv, NEW j \in Flows, RunStart(j) \/ RunStep(j)
  PROVE  \E r : RunBecomes(j, r)
<1>1. run[j] \in Runs /\ IsRunOf(j, run[j]) /\ config[j].mode \in {"copy", "move"}
  BY ConfigsAssumption DEF TypesInv, RunTypes
<1>2. CASE RunTransfer(j)
  <2>1. run[j].at = "transfer"
    BY <1>2 DEF RunTransfer, At
  <2>2. \/ RunTo(j, "audit", "failed")
        \/ config[j].mode = "copy" /\ \E at \in {"verify", "hash"} : RunTo(j, at, "copied")
        \/ config[j].mode = "move" /\ \E at \in {"compare", "hash"} : RunTo(j, at, "moved")
        \/ config[j].mode = "move" /\ \E at \in {"confirm", "remove"} : RunTo(j, at, "none")
    BY <1>1, <1>2 DEF RunTransfer
  <2>3. QED BY <1>1, <2>1, <2>2, RunToIs DEF IsMode, Places, Busy, There, Statuses
<1>3. CASE RunRemoveSource(j)
  <2>1. run[j].at = "remove"
    BY <1>3 DEF RunRemoveSource, At
  <2>2. RunTo(j, "hash", "moved") \/ RunTo(j, "audit", "failed")
    BY <1>3 DEF RunRemoveSource
  <2>3. IsMode(j, "moved")
    BY <1>1, <2>1 DEF IsRunOf, IsMode
  <2>4. QED BY <1>1, <2>1, <2>2, <2>3, RunToIs DEF Places, Busy, There, Statuses
<1>4. CASE RunEnd(j) \/ RunFails(j)
  <2>1. run' = [run EXCEPT ![j] = NotRunning]
    BY <1>4 DEF RunEnd, RunFails
  <2>2. QED BY <2>1, NotRunningIs DEF RunBecomes
<1>5. QED BY <1>2, <1>3, <1>4, RunStartIs, RunNextIs, RunGoesOn, RunHashIs, RunChecksIs, RunDiscardIs
          DEF RunStep, RunChecks

\* Every step keeps the types.
LEMMA TypesStep == TypesInv /\ [Next]_vars => TypesInv'
<1> SUFFICES ASSUME TypesInv, [Next]_vars PROVE TypesInv'
  OBVIOUS
<1>1. FsTypes'
  BY FsStep
<1>2. FsTypes /\ RunTypes /\ ManifestTypes /\ UndoTypes /\ manifests \in Seq(Manifests)
  BY DEF TypesInv, ManifestTypes
<1>3. ASSUME UNCHANGED <<config, run, runs>> PROVE RunTypes'
  BY <1>2, <1>3 DEF RunTypes, IsRunOf, IsItemOf, IsMode
<1>4. ASSUME UNCHANGED <<config, manifests>> PROVE ManifestTypes' /\ ManifestsStay
  BY <1>2, <1>4 DEF ManifestTypes, IsItemOf, IsMode, ManifestsStay
<1>5. ASSUME NEW j \in Flows, RunStart(j) \/ RunStep(j) PROVE TypesInv'
  <2>1. UNCHANGED <<config, undo>> /\ runs' \in Nat
    <3>1. runs' \in {runs, runs + 1} /\ runs \in Nat
      BY <1>2, <1>5, RunChecksIs DEF RunStart, RunStep, RunChecks, RunNext, RunCancelled, RunLoopDone,
         RunTransfer, RunDiscard, RunRemoveSource, RunHash, RunAudit, RunEnd, RunFails, bounds, RunTypes
    <3>2. UNCHANGED <<config, undo>>
      BY <1>5, RunChecksIs DEF RunStart, RunStep, RunChecks, RunNext, RunCancelled, RunLoopDone,
         RunTransfer, RunDiscard, RunRemoveSource, RunHash, RunAudit, RunEnd, RunFails
    <3>3. QED BY <3>1, <3>2
  <2>2. RunTypes'
    <3>1. PICK r : RunBecomes(j, r)
      BY <1>5, RunStepIs
    <3>2. QED BY <2>1, <3>1, RunBecomesKeeps
  <2>3. ManifestTypes' /\ ManifestsStay
    <3>1. CASE RunEnd(j)
      <4>1. IsRunOf(j, run[j])
        BY <1>2 DEF RunTypes
      <4>2. ManifestsStay /\ \A m \in DOMAIN manifests' \ DOMAIN manifests :
                               manifests'[m].flow = j /\ manifests'[m].items = run[j].items
        BY <3>1, RunEndManifests
      <4>3. \A m \in DOMAIN manifests' : \A i \in DOMAIN manifests'[m].items :
              IsItemOf(manifests'[m].flow, manifests'[m].items[i])
        BY <1>2, <4>1, <4>2 DEF ManifestsStay, ManifestTypes, IsRunOf
      <4>4. QED BY <2>1, <4>2, <4>3 DEF ManifestsStay, ManifestTypes, IsItemOf, IsMode
    <3>2. CASE ~RunEnd(j)
      <4>1. UNCHANGED manifests
        BY <1>5, <3>2, RunChecksIs DEF RunStart, RunStep, RunChecks, RunNext, RunCancelled, RunLoopDone,
           RunTransfer, RunDiscard, RunRemoveSource, RunHash, RunAudit, RunFails
      <4>2. QED BY <1>4, <2>1, <4>1
    <3>3. QED BY <3>1, <3>2
  <2>4. UndoTypes'
    BY <1>2, <2>1, <2>3, UndosStay
  <2>5. QED BY <1>1, <2>2, <2>3, <2>4 DEF TypesInv
<1>6. ASSUME NEW j \in Flows, UndoStart(j) \/ UndoStep(j) PROVE TypesInv'
  <2>1. UNCHANGED <<config, run, runs>>
    BY <1>6 DEF UndoStart, UndoStep, UndoCheck, UndoAct, UndoMark, UndoFails, bounds
  <2>2. RunTypes' /\ UndoTypes'
    BY <1>3, <1>6, <2>1, UndoStepTypes DEF UndoStep
  <2>3. ManifestTypes'
    <3>1. CASE UndoMark(j)
      BY <1>2, <2>1, <3>1, UndoMarkManifests DEF ManifestsStay, ManifestTypes, IsItemOf, IsMode
    <3>2. CASE ~UndoMark(j)
      BY <1>4, <1>6, <2>1, <3>2 DEF UndoStart, UndoStep, UndoCheck, UndoAct, UndoFails
    <3>3. QED BY <3>1, <3>2
  <2>4. QED BY <1>1, <2>2, <2>3 DEF TypesInv
<1>7. CASE \/ \E p \in Paths : UserWrite(p) \/ UserDelete(p)
           \/ UNCHANGED vars
  <2>1. UNCHANGED <<config, run, runs, manifests, undo>>
    BY <1>7 DEF UserWrite, UserDelete, vars, bounds
  <2>2. QED BY <1>1, <1>2, <1>3, <1>4, <2>1, UndosStay DEF TypesInv
<1>8. CASE Crash
  <2>1. /\ run' = [j \in Flows |-> NotRunning] /\ undo' = [j \in Flows |-> NotUndoing]
        /\ UNCHANGED <<config, runs, manifests>>
    BY <1>8 DEF Crash
  <2>2. RunTypes'
    BY <1>2, <2>1, NotRunningIs DEF RunTypes, IsRunOf, IsItemOf, IsMode
  <2>3. UndoTypes'
    BY <2>1, NotUndoingIs DEF UndoTypes, IsUndoOf, NotUndoing
  <2>4. QED BY <1>1, <1>4, <2>1, <2>2, <2>3 DEF TypesInv
<1>9. QED BY <1>5, <1>6, <1>7, <1>8 DEF Next

\* The types hold at the start.
LEMMA InitTypes == Init => TypesInv
<1> SUFFICES ASSUME Init PROVE TypesInv
  OBVIOUS
<1>1. FsTypes
  BY BoundsAssumption DEF Init, FsTypes, Contents, Nothing
<1>2. RunTypes
  BY NotRunningIs DEF Init, RunTypes
<1>3. ManifestTypes
  <2>1. manifests = <<>> /\ DOMAIN manifests = {}
    BY DEF Init
  <2>2. QED BY <2>1 DEF ManifestTypes
<1>4. UndoTypes
  BY NotUndoingIs DEF Init, UndoTypes
<1>5. QED BY <1>1, <1>2, <1>3, <1>4 DEF TypesInv

\* In every execution a run has looked at paths of its own directories only, and
\* every manifest and every rollback belongs to one flow.
THEOREM TypesAreKept == Spec => []TypesInv
  BY InitTypes, TypesStep, PTL DEF Spec

-----------------------------------------------------------------------------
(***************************************************************************)
(* What a run has read, if nobody else has changed files since it began.   *)
(***************************************************************************)

\* Where a run transfers from and to, and what becomes of both.
LEMMA TransferIs ==
  ASSUME TypesInv, NEW j \in Flows, RunTransfer(j)
  PROVE  LET from == run[j].source
             to == run[j].target
         IN  /\ from \in SourcesOf(j) /\ to \in TargetsOf(j) /\ from \in Paths /\ to \in Paths /\ from # to
             /\ \A p \in Paths \ {from, to} : fs'[p] = fs[p]
             /\ \A k \in Flows \ {j} : run'[k] = run[k]
             /\ run'[j].source = from /\ run'[j].target = to /\ run'[j].sum = run[j].sum
             /\ \/ /\ ~Exists(from) /\ run'[j].at = "audit" /\ fs'[from] = fs[from]
                   /\ fs'[to] = fs[to] \/ (fs'[to] = Nothing /\ config[j].conflict = "overwrite" /\ config[j].mode = "move")
                \/ /\ Exists(from) /\ fs'[to] = fs[from]
                   /\ \/ config[j].mode = "copy" /\ run'[j].at \in {"verify", "hash"} /\ fs'[from] = fs[from]
                      \/ config[j].mode = "move" /\ run'[j].at \in {"confirm", "remove"} /\ fs'[from] = fs[from]
                      \/ /\ config[j].mode = "move" /\ run'[j].at \in {"compare", "hash"} /\ run'[j].outcome = "moved"
                         /\ run'[j].at = "compare" => config[j].verify
<1> DEFINE from == run[j].source
           to == run[j].target
           cleared == IF config[j].mode = "move" /\ config[j].conflict = "overwrite"
                      THEN [fs EXCEPT ![to] = Nothing] ELSE fs
           copied == [cleared EXCEPT ![to] = fs[from]]
<1>1. /\ run[j] \in Runs /\ run \in [Flows -> Runs] /\ IsRunOf(j, run[j]) /\ config[j].mode \in {"copy", "move"}
      /\ fs \in [Paths -> Contents] /\ run[j].at = "transfer"
  BY ConfigsAssumption DEF TypesInv, RunTypes, FsTypes, RunTransfer, At
<1>2. from \in SourcesOf(j) /\ to \in TargetsOf(j) /\ from \in Paths /\ to \in Paths /\ from # to
  <2>1. from \in SourcesOf(j) /\ to \in TargetsOf(j)
    BY <1>1 DEF IsRunOf, Busy
  <2>2. from[1] = j /\ to[1] = TargetDir[j]
    BY <2>1 DEF SourcesOf, TargetsOf
  <2>3. QED BY <2>1, <2>2, PathsAre, DirectoriesAssumption
<1>3. /\ DOMAIN cleared = Paths /\ \A p \in Paths \ {to} : cleared[p] = fs[p]
      /\ cleared[to] = fs[to] \/ (cleared[to] = Nothing /\ config[j].conflict = "overwrite" /\ config[j].mode = "move")
  BY <1>1, <1>2
<1>4. DOMAIN copied = Paths /\ copied[to] = fs[from] /\ \A p \in Paths \ {to} : copied[p] = fs[p]
  <2> HIDE DEF cleared
  <2>1. QED BY <1>2, <1>3
<1>5. \/ ~Exists(from) /\ fs' = cleared /\ RunTo(j, "audit", "failed")
      \/ /\ Exists(from) /\ config[j].mode = "copy" /\ fs' = copied
         /\ \E at \in {"verify", "hash"} : RunTo(j, at, "copied")
      \/ /\ Exists(from) /\ config[j].mode = "move" /\ fs' = [copied EXCEPT ![from] = Nothing]
         /\ \E at \in {"compare", "hash"} : RunTo(j, at, "moved") /\ (at = "compare" => config[j].verify)
      \/ /\ Exists(from) /\ config[j].mode = "move" /\ fs' = copied
         /\ \E at \in {"confirm", "remove"} : RunTo(j, at, "none")
  BY <1>1 DEF RunTransfer
<1> HIDE DEF cleared, copied
<1>6. ASSUME NEW at, NEW outcome, RunTo(j, at, outcome)
      PROVE  /\ \A k \in Flows \ {j} : run'[k] = run[k]
             /\ run'[j].source = from /\ run'[j].target = to /\ run'[j].sum = run[j].sum
             /\ run'[j].at = at /\ run'[j].outcome = outcome
  BY <1>1, <1>6 DEF RunTo, Runs
<1>7. CASE ~Exists(from) /\ fs' = cleared /\ RunTo(j, "audit", "failed")
  BY <1>2, <1>3, <1>6, <1>7
<1>8. ASSUME Exists(from), config[j].mode = "copy", fs' = copied, NEW at \in {"verify", "hash"}, RunTo(j, at, "copied")
      PROVE  /\ \A p \in Paths \ {from, to} : fs'[p] = fs[p]
             /\ \A k \in Flows \ {j} : run'[k] = run[k]
             /\ run'[j].source = from /\ run'[j].target = to /\ run'[j].sum = run[j].sum
             /\ fs'[to] = fs[from] /\ run'[j].at \in {"verify", "hash"} /\ fs'[from] = fs[from]
  BY <1>2, <1>4, <1>6, <1>8
<1>9. ASSUME Exists(from), config[j].mode = "move", fs' = [copied EXCEPT ![from] = Nothing],
             NEW at \in {"compare", "hash"}, RunTo(j, at, "moved"), at = "compare" => config[j].verify
      PROVE  /\ \A p \in Paths \ {from, to} : fs'[p] = fs[p]
             /\ \A k \in Flows \ {j} : run'[k] = run[k]
             /\ run'[j].source = from /\ run'[j].target = to /\ run'[j].sum = run[j].sum
             /\ fs'[to] = fs[from] /\ run'[j].at \in {"compare", "hash"} /\ run'[j].outcome = "moved"
             /\ run'[j].at = "compare" => config[j].verify
  BY <1>2, <1>4, <1>6, <1>9
<1>10. ASSUME Exists(from), config[j].mode = "move", fs' = copied, NEW at \in {"confirm", "remove"}, RunTo(j, at, "none")
       PROVE  /\ \A p \in Paths \ {from, to} : fs'[p] = fs[p]
              /\ \A k \in Flows \ {j} : run'[k] = run[k]
              /\ run'[j].source = from /\ run'[j].target = to /\ run'[j].sum = run[j].sum
              /\ fs'[to] = fs[from] /\ run'[j].at \in {"confirm", "remove"} /\ fs'[from] = fs[from]
  BY <1>2, <1>4, <1>6, <1>10
<1>11. QED BY <1>2, <1>5, <1>7, <1>8, <1>9, <1>10

Snapshots == [Paths -> Contents] \cup {NoSnapshot}

\* A snapshot is one of the file system.
LEMMA BeforeStep ==
  ASSUME TypesInv, before \in [Flows -> Snapshots], [Next]_vars
  PROVE  before' \in [Flows -> Snapshots]
<1>1. fs \in Snapshots /\ NoSnapshot \in Snapshots /\ Disturbed \in [Flows -> Snapshots]
  BY DEF TypesInv, FsTypes, Snapshots, Disturbed
<1>2. ASSUME NEW j \in Flows, NEW s \in Snapshots, before' = [before EXCEPT ![j] = s]
      PROVE  before' \in [Flows -> Snapshots]
  BY <1>2
<1>3. ASSUME NEW j \in Flows, Disturb(j) PROVE before' \in [Flows -> Snapshots]
  BY <1>1, <1>3 DEF Disturb
<1>4. ASSUME NEW j \in Flows, RunStart(j) PROVE before' \in [Flows -> Snapshots]
  BY <1>1, <1>4 DEF RunStart
<1>5. ASSUME NEW j \in Flows, RunStep(j) PROVE before' \in [Flows -> Snapshots]
  BY <1>1, <1>3, <1>5 DEF RunStep, RunNext, RunCancelled, RunLoopDone, RunSum, RunTransfer, RunVerify, RunCompare,
     RunConfirm, RunDiscard, RunFileError, RunRemoveSource, RunHash, RunAudit, RunEnd, RunFails, ghosts
<1>6. ASSUME NEW j \in Flows, UndoStart(j) PROVE before' \in [Flows -> Snapshots]
  BY <1>1, <1>6 DEF UndoStart
<1>7. ASSUME NEW j \in Flows, UndoStep(j) PROVE before' \in [Flows -> Snapshots]
  BY <1>1, <1>3, <1>7 DEF UndoStep, UndoCheck, UndoAct, UndoMark, UndoFails, ghosts
<1>8. QED BY <1>1, <1>4, <1>5, <1>6, <1>7 DEF Next, UserWrite, UserDelete, Crash, vars, ghosts

\* A transfer and its verification find the same content, and no rollback of the
\* flow is at work.
Quiet(j) ==
  before[j] # NoSnapshot /\ ~At(j, "idle") =>
    /\ undo[j].at = "idle"
    /\ At(j, "transfer") /\ config[j].mode = "move" /\ config[j].verify => fs[run[j].source] = run[j].sum
    /\ At(j, "verify") => Exists(run[j].source) /\ fs[run[j].target] = fs[run[j].source]
    /\ At(j, "compare") => fs[run[j].target] = run[j].sum

QuietInv == before \in [Flows -> Snapshots] /\ \A j \in Flows : Quiet(j)

\* A run that goes on without a file in hand, or to record it, has read nothing.
LEMMA QuietIdle ==
  ASSUME NEW j \in Flows, QuietInv, UNCHANGED undo, before'[j] \in {before[j], NoSnapshot}, run[j].at # "idle",
         run'[j].at \notin {"transfer", "verify", "compare"}
  PROVE  Quiet(j)'
  BY DEF QuietInv, Quiet, At

\* A step of the flow's own run.
LEMMA QuietRun ==
  ASSUME TypesInv, QuietInv, NEW j \in Flows, RunStart(j) \/ RunStep(j)
  PROVE  Quiet(j)'
<1>1. /\ before \in [Flows -> Snapshots] /\ Quiet(j) /\ run \in [Flows -> Runs] /\ IsRunOf(j, run[j])
      /\ config[j].mode \in {"copy", "move"}
  BY ConfigsAssumption DEF QuietInv, TypesInv, RunTypes
<1>2. CASE RunStart(j)
  <2>1. PICK r : RunBecomes(j, r) /\ r.at = "next"
    BY <1>2, RunStartIs
  <2>2. run'[j].at = "next" /\ UNCHANGED undo /\ (before'[j] # NoSnapshot => undo[j].at = "idle")
    BY <1>1, <1>2, <2>1 DEF RunStart, RunBecomes
  <2>3. QED BY <2>2 DEF Quiet, At
<1>3. CASE RunNext(j)
  <2>1. PICK r : /\ RunBecomes(j, r) /\ r.at \in {"audit", "sum", "transfer"}
                 /\ r.at = "transfer" => ~(config[j].mode = "move" /\ config[j].verify)
    BY <1>3, RunNextIs
  <2>2. run'[j] = r /\ run[j].at = "next" /\ UNCHANGED <<config, undo, before>>
    BY <1>1, <1>3, <2>1 DEF RunNext, RunBecomes, At, ghosts
  <2>3. QED BY <1>1, <2>1, <2>2 DEF Quiet, At
<1>4. CASE RunChecks(j)
  <2>1. PICK r : /\ RunBecomes(j, r) /\ r.source = run[j].source /\ r.target = run[j].target
                 /\ CheckLeads(j, r)
    BY <1>4, RunChecksIs
  <2>2. run'[j] = r /\ UNCHANGED <<fs, config, undo>> /\ run[j].at # "idle"
    BY <1>1, <1>4, <2>1, RunChecksIs DEF RunBecomes, Busy
  <2>3. before'[j] \in {before[j], NoSnapshot}
    BY <1>1, <1>4 DEF RunChecks, RunSum, RunVerify, RunCompare, RunConfirm, RunFileError, ghosts
  <2>4. CASE r.at \notin {"transfer", "verify", "compare"}
    BY <2>2, <2>3, <2>4, QuietIdle
  <2>5. CASE r.at = "transfer" /\ r.sum = fs[run[j].source]
    BY <1>1, <2>1, <2>2, <2>3, <2>5 DEF Quiet, At
  <2>6. CASE r.at = "compare" /\ r.sum = fs[run[j].source] /\ RunVerify(j)
    <3>1. run[j].at = "verify" /\ before'[j] = before[j]
      BY <2>6 DEF RunVerify, At
    <3>2. QED BY <1>1, <2>1, <2>2, <2>6, <3>1 DEF Quiet, At
  <2>7. QED BY <2>1, <2>4, <2>5, <2>6 DEF CheckLeads
<1>5. CASE RunTransfer(j)
  <2>0. PICK from, to : from = run[j].source /\ to = run[j].target
    OBVIOUS
  <2>1. /\ run[j].at = "transfer" /\ UNCHANGED <<config, undo>> /\ before'[j] = before[j]
    BY <1>1, <1>5 DEF RunTransfer, At, Disturb, Disturbed
  <2>2. /\ run'[j].source = from /\ run'[j].target = to /\ run'[j].sum = run[j].sum
    BY <1>5, <2>0, TransferIs
  <2>3. \/ run'[j].at \notin {"transfer", "verify", "compare"}
        \/ run'[j].at = "verify" /\ Exists(from) /\ fs'[to] = fs[from] /\ fs'[from] = fs[from]
        \/ run'[j].at = "compare" /\ fs'[to] = fs[from] /\ config[j].mode = "move" /\ config[j].verify
    BY <1>5, <2>0, TransferIs
  <2>4. CASE run'[j].at \notin {"transfer", "verify", "compare"}
    BY <2>1, <2>4, QuietIdle
  <2>5. CASE run'[j].at = "verify" /\ Exists(from) /\ fs'[to] = fs[from] /\ fs'[from] = fs[from]
    BY <1>1, <2>0, <2>1, <2>2, <2>5 DEF Quiet, At, Exists
  <2>6. CASE run'[j].at = "compare" /\ fs'[to] = fs[from] /\ config[j].mode = "move" /\ config[j].verify
    BY <1>1, <2>0, <2>1, <2>2, <2>6 DEF Quiet, At
  <2>7. QED BY <2>3, <2>4, <2>5, <2>6
<1>6. ASSUME RunEnd(j) \/ RunFails(j) PROVE Quiet(j)'
  <2>1. run'[j].at = "idle"
    BY <1>1, <1>6, NotRunningIs DEF RunEnd, RunFails
  <2>2. QED BY <2>1 DEF Quiet, At
<1>7. CASE RunRemoveSource(j)
  <2>1. run[j].at = "remove" /\ UNCHANGED undo /\ before'[j] = before[j]
    BY <1>1, <1>7 DEF RunRemoveSource, At, Disturb, Disturbed
  <2>2. run'[j].at \in {"hash", "audit"}
    BY <1>1, <1>7 DEF RunRemoveSource, RunTo, Runs
  <2>3. QED BY <2>1, <2>2, QuietIdle
<1>8. CASE RunCancelled(j) \/ RunLoopDone(j) \/ RunHash(j) \/ RunAudit(j) \/ RunDiscard(j)
  <2>1. PICK r : RunBecomes(j, r) /\ r.at \in {"next", "end", "audit"}
    BY <1>8, RunGoesOn, RunHashIs, RunDiscardIs
  <2>2. run'[j].at \in {"next", "end", "audit"}
    BY <1>1, <2>1 DEF RunBecomes
  <2>3. run[j].at # "idle" /\ UNCHANGED undo /\ before'[j] = before[j]
    BY <1>1, <1>8 DEF RunCancelled, RunLoopDone, RunHash, RunAudit, RunDiscard, At, Disturb, Disturbed, ghosts
  <2>4. QED BY <2>2, <2>3, QuietIdle
<1>9. QED BY <1>2, <1>3, <1>4, <1>5, <1>6, <1>7, <1>8 DEF RunStep, RunChecks

\* A step of another flow, of a user, of nobody: whoever changes files takes the
\* snapshot away.
LEMMA QuietOthers ==
  ASSUME TypesInv, QuietInv, [Next]_vars, NEW j \in Flows, ~RunStart(j), ~RunStep(j)
  PROVE  Quiet(j)'
<1>1. before \in [Flows -> Snapshots] /\ Quiet(j) /\ run \in [Flows -> Runs] /\ undo \in [Flows -> Undos]
  BY DEF QuietInv, TypesInv, RunTypes, UndoTypes
<1>2. ASSUME before'[j] = NoSnapshot PROVE Quiet(j)'
  BY <1>2 DEF Quiet
<1>3. ASSUME UNCHANGED <<fs, config>>, run'[j] = run[j], undo'[j] = undo[j], before'[j] = before[j] PROVE Quiet(j)'
  BY <1>1, <1>3 DEF Quiet, At, Exists
<1>4. ASSUME NEW k \in Flows \ {j}, Disturb(k) PROVE Quiet(j)'
  BY <1>2, <1>4 DEF Disturb, Disturbed
<1>5. ASSUME NEW k \in Flows \ {j}, RunStart(k) \/ RunStep(k) PROVE Quiet(j)'
  <2>1. PICK r : RunBecomes(k, r)
    BY <1>5, RunStepIs
  <2>2. run'[j] = run[j]
    BY <1>1, <2>1 DEF RunBecomes
  <2>3. CASE RunTransfer(k) \/ RunRemoveSource(k) \/ RunDiscard(k)
    BY <1>4, <1>5, <2>3 DEF RunTransfer, RunRemoveSource, RunDiscard
  <2>4. CASE RunChecks(k)
    <3>1. before'[j] = before[j]
      BY <1>1, <1>5, <2>4 DEF RunChecks, RunSum, RunVerify, RunCompare, RunConfirm, RunFileError, ghosts
    <3>2. QED BY <1>3, <2>2, <2>4, <3>1, RunChecksIs
  <2>5. CASE ~(RunTransfer(k) \/ RunRemoveSource(k) \/ RunDiscard(k) \/ RunChecks(k))
    <3>1. UNCHANGED <<fs, config, undo>> /\ before'[j] = before[j]
      BY <1>1, <1>5, <2>5 DEF RunStart, RunStep, RunChecks, RunNext, RunCancelled, RunLoopDone, RunHash, RunAudit,
         RunEnd, RunFails, ghosts
    <3>2. QED BY <1>3, <2>2, <3>1
  <2>6. QED BY <2>3, <2>4, <2>5
<1>6. ASSUME NEW k \in Flows \ {j}, UndoStart(k) \/ UndoStep(k) PROVE Quiet(j)'
  <2>1. undo'[j] = undo[j] /\ UNCHANGED <<run, config>>
    BY <1>6, UndoStepTypes DEF UndoStep, UndoStart, UndoCheck, UndoAct, UndoMark, UndoFails
  <2>2. CASE UndoAct(k)
    BY <1>4, <1>6, <2>2 DEF UndoAct
  <2>3. CASE ~UndoAct(k)
    <3>1. UNCHANGED fs /\ before'[j] = before[j]
      BY <1>1, <1>6, <2>3 DEF UndoStep, UndoStart, UndoCheck, UndoMark, UndoFails, ghosts
    <3>2. QED BY <1>3, <2>1, <3>1
  <2>4. QED BY <2>2, <2>3
<1>7. ASSUME UndoStart(j) \/ UndoStep(j) PROVE Quiet(j)'
  <2>1. UNCHANGED run
    BY <1>7 DEF UndoStep, UndoStart, UndoCheck, UndoAct, UndoMark, UndoFails
  <2>2. CASE run[j].at = "idle"
    BY <2>1, <2>2 DEF Quiet, At
  <2>3. CASE UndoStart(j) /\ run[j].at # "idle"
    <3>1. before'[j] = NoSnapshot
      BY <1>1, <2>3 DEF UndoStart, At
    <3>2. QED BY <1>2, <3>1
  <2>4. CASE UndoStep(j) /\ run[j].at # "idle"
    <3>1. undo[j].at # "idle" /\ before'[j] \in {before[j], NoSnapshot}
      BY <1>1, <2>4 DEF UndoStep, UndoCheck, UndoAct, UndoMark, UndoFails, Disturb, Disturbed, ghosts
    <3>2. before[j] = NoSnapshot
      BY <1>1, <2>4, <3>1 DEF Quiet, At
    <3>3. QED BY <1>2, <3>1, <3>2
  <2>5. QED BY <1>7, <2>2, <2>3, <2>4
<1>8. CASE (\E q \in Paths : UserWrite(q) \/ UserDelete(q)) \/ Crash
  <2>1. before'[j] = NoSnapshot
    BY <1>8 DEF UserWrite, UserDelete, Crash, Disturbed
  <2>2. QED BY <1>2, <2>1
<1>9. CASE UNCHANGED vars
  BY <1>3, <1>9 DEF vars, ghosts
<1>10. QED BY <1>5, <1>6, <1>7, <1>8, <1>9 DEF Next

\* Every step keeps it.
LEMMA QuietStep == TypesInv /\ QuietInv /\ [Next]_vars => QuietInv'
<1> SUFFICES ASSUME TypesInv, QuietInv, [Next]_vars PROVE QuietInv'
  OBVIOUS
<1>1. before' \in [Flows -> Snapshots]
  BY BeforeStep DEF QuietInv
<1>2. ASSUME NEW j \in Flows PROVE Quiet(j)'
  BY QuietRun, QuietOthers
<1>3. Snapshots' = Snapshots
  BY DEF Snapshots
<1>4. QED BY <1>1, <1>2, <1>3 DEF QuietInv

\* In every execution, if nobody else has changed files since the run began, what
\* verify_after_copy compares is equal.
LEMMA QuietIsKept == Spec => []QuietInv
<1>1. Init => QuietInv
  <2> SUFFICES ASSUME Init PROVE QuietInv
    OBVIOUS
  <2>1. before \in [Flows -> Snapshots] /\ \A j \in Flows : before[j] = NoSnapshot
    BY DEF Init, Disturbed, Snapshots
  <2>2. QED BY <2>1 DEF QuietInv, Quiet
<1>2. QED BY <1>1, QuietStep, TypesAreKept, PTL DEF Spec

-----------------------------------------------------------------------------
(***************************************************************************)
(* What was transferred is recorded.                                       *)
(***************************************************************************)

Listed(items, source, target) ==
  \E i \in DOMAIN items : items[i].source = source /\ items[i].target = target

\* A transfer of run r, which has its file in hand or has listed it.
InHand(r, t) ==
  /\ r.number = t.run
  /\ \/ r.at \in There /\ r.source = t.source /\ r.target = t.target
     \/ Listed(r.items, t.source, t.target)

InManifest(t) ==
  \E m \in DOMAIN manifests : manifests[m].run = t.run /\ Listed(manifests[m].items, t.source, t.target)

Transfers == [flow : Flows, run : Nat, source : Paths, target : Paths]

TransfersInv ==
  /\ transferred \subseteq Transfers
  /\ \A t \in transferred : InHand(run[t.flow], t) \/ InManifest(t)

\* A run that goes on keeps what it has in hand, and what it transfers is in hand.
LEMMA TransfersGoOn ==
  ASSUME TypesInv, TransfersInv, NEW j \in Flows, NEW r, RunBecomes(j, r),
         \A t \in transferred' \cap Transfers : t.flow = j /\ InHand(run[j], t) => InHand(r, t),
         transferred' \subseteq transferred
           \/ (transferred' = transferred \cup {Transfer(j)} /\ run[j].at \in Busy /\ InHand(r, Transfer(j))),
         UNCHANGED manifests
  PROVE  TransfersInv'
<1>1. run'[j] = r /\ \A k \in Flows \ {j} : run'[k] = run[k]
  BY DEF RunBecomes, TypesInv, RunTypes
<1>2. transferred' \subseteq transferred
        \/ (transferred' = transferred \cup {Transfer(j)} /\ Transfer(j) \in Transfers /\ InHand(r, Transfer(j)))
  <2>1. CASE run[j].at \in Busy
    <3>1. run[j].source \in Paths /\ run[j].target \in Paths /\ run[j].number \in Nat
      BY <2>1, PathsAre DEF TypesInv, RunTypes, IsRunOf, Runs
    <3>2. Transfer(j) \in Transfers
      BY <3>1 DEF Transfer, Transfers
    <3>3. QED BY <3>2
  <2>2. QED BY <2>1
<1>3. transferred' \subseteq Transfers
  BY <1>2 DEF TransfersInv
<1>4. ASSUME NEW t \in transferred' PROVE InHand(run'[t.flow], t) \/ InManifest(t)'
  <2>1. CASE t \in transferred
    <3>1. t.flow \in Flows /\ t \in Transfers
      BY <1>3, <1>4 DEF Transfers
    <3>2. InHand(run[t.flow], t) \/ InManifest(t)
      BY <2>1 DEF TransfersInv
    <3>3. QED BY <1>1, <1>4, <3>1, <3>2 DEF InManifest
  <2>2. CASE t \notin transferred
    <3>1. t = Transfer(j) /\ t.flow = j /\ InHand(r, t)
      BY <1>2, <1>4, <2>2 DEF Transfer
    <3>2. QED BY <1>1, <3>1
  <2>3. QED BY <2>1, <2>2
<1>5. Transfers' = Transfers
  BY DEF Transfers, Paths
<1>6. QED BY <1>3, <1>4, <1>5 DEF TransfersInv

\* A run with a file in hand keeps it: there, or listed; and it may let go what is
\* no longer counted as transferred.
LEMMA HandKeeps ==
  ASSUME TypesInv, NEW j \in Flows, NEW r, r.number = run[j].number, r.items = run[j].items,
         \/ run[j].at \notin There
         \/ r.at \in There /\ r.source = run[j].source /\ r.target = run[j].target
         \/ Transfer(j) \notin transferred'
  PROVE  \A t \in transferred' \cap Transfers : t.flow = j /\ InHand(run[j], t) => InHand(r, t)
<1> SUFFICES ASSUME NEW t \in transferred' \cap Transfers, t.flow = j, InHand(run[j], t) PROVE InHand(r, t)
  OBVIOUS
<1>1. CASE Listed(run[j].items, t.source, t.target)
  BY <1>1 DEF InHand
<1>2. CASE run[j].at \in There /\ run[j].source = t.source /\ run[j].target = t.target
  <2>1. t = Transfer(j)
    BY <1>2 DEF Transfer, Transfers, InHand
  <2>2. QED BY <1>2, <2>1 DEF InHand
<1>3. QED BY <1>1, <1>2 DEF InHand

\* What is listed stays listed.
LEMMA ListedStays ==
  ASSUME NEW items \in Seq(Items), NEW item \in Items
  PROVE  /\ \A source, target : Listed(items, source, target) => Listed(Append(items, item), source, target)
         /\ Listed(Append(items, item), item.source, item.target)
<1>1. /\ DOMAIN items = 1..Len(items) /\ DOMAIN Append(items, item) = 1..Len(items) + 1 /\ Len(items) \in Nat
      /\ \A i \in 1..Len(items) : Append(items, item)[i] = items[i]
      /\ Append(items, item)[Len(items) + 1] = item
  OBVIOUS
<1>2. \A i \in 1..Len(items) : i \in 1..Len(items) + 1
  BY <1>1
<1>3. Len(items) + 1 \in 1..Len(items) + 1
  BY <1>1
<1> DEFINE more == Append(items, item)
<1> HIDE DEF more
<1>4. QED BY <1>1, <1>2, <1>3 DEF Listed, more

\* Every step keeps what was transferred on record.
LEMMA TransfersStep == TypesInv /\ QuietInv /\ TransfersInv /\ [Next]_vars => TransfersInv'
<1> SUFFICES ASSUME TypesInv, QuietInv, TransfersInv, [Next]_vars PROVE TransfersInv'
  OBVIOUS
<1>1. CASE UNCHANGED <<run, manifests, transferred>>
  <2>1. Transfers' = Transfers
    BY DEF Transfers, Paths
  <2>2. QED BY <1>1, <2>1 DEF TransfersInv, InManifest
<1>2. ASSUME NEW j \in Flows, RunNext(j) PROVE TransfersInv'
  <2>1. PICK r : /\ RunBecomes(j, r) /\ r.number = run[j].number
                 /\ \/ r.items = run[j].items
                    \/ \E item \in Items : r.items = Append(run[j].items, item)
    BY <1>2, RunNextIs
  <2>2. run[j].items \in Seq(Items) /\ run[j].at \notin There
    BY <1>2 DEF TypesInv, RunTypes, Runs, RunNext, At, There
  <2>3. \A t : InHand(run[j], t) => InHand(r, t)
    BY <2>1, <2>2, ListedStays DEF InHand
  <2>4. UNCHANGED <<manifests, transferred>>
    BY <1>2 DEF RunNext, ghosts
  <2>5. QED BY <2>1, <2>3, <2>4, TransfersGoOn
<1>3. ASSUME NEW j \in Flows, RunCancelled(j) \/ RunLoopDone(j) \/ RunAudit(j) \/ RunDiscard(j) PROVE TransfersInv'
  <2>1. PICK r : RunBecomes(j, r) /\ r.items = run[j].items /\ r.number = run[j].number
    BY <1>3, RunGoesOn, RunDiscardIs
  <2>2. run[j].at \notin There /\ UNCHANGED <<manifests, transferred>>
    BY <1>3 DEF RunCancelled, RunLoopDone, RunAudit, RunDiscard, At, ghosts, There
  <2>3. QED BY <2>1, <2>2, HandKeeps, TransfersGoOn
<1>4. ASSUME NEW j \in Flows, RunTransfer(j) \/ RunRemoveSource(j) PROVE TransfersInv'
  <2>1. /\ run[j] \in Runs /\ IsRunOf(j, run[j]) /\ run[j].at \in Busy \ There /\ UNCHANGED manifests
        /\ config[j].mode \in {"copy", "move"}
    BY <1>4, ConfigsAssumption DEF TypesInv, RunTypes, RunTransfer, RunRemoveSource, At, Busy, There
  <2>2. PICK r : RunBecomes(j, r)
    BY <1>4, RunStepIs DEF RunStep
  <2>3. PICK at, outcome : /\ RunTo(j, at, outcome)
                           /\ UNCHANGED transferred \/ (at \in There /\ Transferred(j))
    <3>1. CASE RunTransfer(j)
      BY <3>1 DEF RunTransfer, There
    <3>2. CASE RunRemoveSource(j)
      BY <3>2 DEF RunRemoveSource, There
    <3>3. QED BY <1>4, <3>1, <3>2
  <2>4. /\ r.at = at /\ r.items = run[j].items /\ r.number = run[j].number
        /\ r.source = run[j].source /\ r.target = run[j].target
    BY <2>1, <2>2, <2>3 DEF RunTo, RunBecomes, Runs, TypesInv, RunTypes
  <2>5. CASE UNCHANGED transferred
    BY <2>1, <2>2, <2>4, <2>5, HandKeeps, TransfersGoOn
  <2>6. CASE at \in There /\ Transferred(j)
    <3>1. InHand(r, Transfer(j)) /\ transferred' = transferred \cup {Transfer(j)}
      BY <2>4, <2>6 DEF InHand, Transfer, Transferred
    <3>2. QED BY <2>1, <2>2, <2>4, <3>1, HandKeeps, TransfersGoOn
  <2>7. QED BY <2>3, <2>5, <2>6
<1>5. ASSUME NEW j \in Flows, RunChecks(j) PROVE TransfersInv'
  <2>1. PICK r : /\ RunBecomes(j, r) /\ r.items = run[j].items /\ r.number = run[j].number
                 /\ r.source = run[j].source /\ r.target = run[j].target /\ CheckLeads(j, r)
    BY <1>5, RunChecksIs
  <2>2. /\ run[j].at \in Busy \ {"hash"} /\ UNCHANGED manifests /\ run'[j] = r
        /\ run[j].at # "idle" /\ Quiet(j)
    BY <1>5, <2>1, RunChecksIs DEF RunBecomes, TypesInv, RunTypes, QuietInv, Busy
  <2>3. transferred' \in {transferred, transferred \ {Transfer(j)}}
    BY <1>5 DEF RunChecks, RunSum, RunVerify, RunCompare, RunConfirm, RunFileError, Rejected, ghosts
  <2>4. \/ run[j].at \notin There
        \/ r.at \in There
        \/ Transfer(j) \notin transferred'
    <3>1. CASE RunFileError(j)
      BY <3>1 DEF RunFileError
    <3>2. CASE RunVerify(j)
      <4>1. CASE Exists(run[j].source)
        <5>1. run'[j].at = "compare"
          BY <3>2, <4>1 DEF RunVerify, RunReads, TypesInv, RunTypes, Runs
        <5>2. QED BY <2>2, <5>1 DEF There
      <4>2. CASE ~Exists(run[j].source)
        <5>1. At(j, "verify") /\ Rejected(j)
          BY <3>2, <4>2 DEF RunVerify
        <5>2. before[j] = NoSnapshot
          BY <2>2, <4>2, <5>1 DEF Quiet, At
        <5>3. QED BY <5>1, <5>2 DEF Rejected
      <4>3. QED BY <4>1, <4>2
    <3>3. CASE RunCompare(j)
      <4>1. CASE fs[run[j].target] = run[j].sum
        <5>1. run'[j].at = "hash"
          BY <3>3, <4>1 DEF RunCompare, RunTo, TypesInv, RunTypes, Runs
        <5>2. QED BY <2>2, <5>1 DEF There
      <4>2. CASE fs[run[j].target] # run[j].sum
        <5>1. At(j, "compare") /\ Rejected(j)
          BY <3>3, <4>2 DEF RunCompare
        <5>2. before[j] = NoSnapshot
          BY <2>2, <4>2, <5>1 DEF Quiet, At
        <5>3. QED BY <5>1, <5>2 DEF Rejected
      <4>3. QED BY <4>1, <4>2
    <3>4. CASE RunSum(j) \/ RunConfirm(j)
      BY <3>4 DEF RunSum, RunConfirm, At, There
    <3>5. QED BY <1>5, <3>1, <3>2, <3>3, <3>4 DEF RunChecks
  <2>5. QED BY <2>1, <2>2, <2>3, <2>4, HandKeeps, TransfersGoOn
<1>6. ASSUME NEW j \in Flows, RunHash(j) PROVE TransfersInv'
  <2> DEFINE item == Recorded(j, run[j].outcome, fs[run[j].target])
  <2>1. PICK r : RunBecomes(j, r) /\ r.number = run[j].number /\ r.items = Append(run[j].items, item)
    BY <1>6, RunHashIs
  <2>2. /\ item \in Items /\ item.source = run[j].source /\ item.target = run[j].target
        /\ run[j].items \in Seq(Items)
    BY <1>6, RunHashIs DEF Recorded, TypesInv, RunTypes, Runs
  <2> HIDE DEF item
  <2>3. \A t : InHand(run[j], t) => InHand(r, t)
    BY <2>1, <2>2, ListedStays DEF InHand
  <2>4. UNCHANGED <<manifests, transferred>>
    BY <1>6 DEF RunHash, ghosts
  <2>5. QED BY <2>1, <2>3, <2>4, TransfersGoOn
<1>7. ASSUME NEW j \in Flows, RunStart(j) PROVE TransfersInv'
  <2>1. run[j] = NotRunning /\ UNCHANGED <<manifests, transferred>>
    BY <1>7 DEF RunStart, At, TypesInv, RunTypes, IsRunOf
  <2>2. \A t : ~InHand(run[j], t)
    BY <2>1, NotRunningIs DEF InHand, Listed, NotRunning, There
  <2>3. PICK r : RunBecomes(j, r)
    BY <1>7, RunStepIs
  <2>4. QED BY <2>1, <2>2, <2>3, TransfersGoOn
<1>8. ASSUME NEW j \in Flows, RunEnd(j) PROVE TransfersInv'
  <2>1. /\ run' = [run EXCEPT ![j] = NotRunning] /\ UNCHANGED transferred /\ run[j].at = "end"
        /\ \A k \in Flows \ {j} : run'[k] = run[k]
    BY <1>8 DEF RunEnd, At, TypesInv, RunTypes
  <2>2. /\ ManifestsStay
        /\ run[j].items # <<>> => \E m \in DOMAIN manifests' :
              manifests'[m].run = run[j].number /\ manifests'[m].items = run[j].items
    BY <1>8, RunEndManifests
  <2>3. \A t : InManifest(t) => InManifest(t)'
    BY <2>2 DEF InManifest, ManifestsStay
  <2>4. ASSUME NEW t, InHand(run[j], t) PROVE InManifest(t)'
    <3>1. run[j].number = t.run /\ Listed(run[j].items, t.source, t.target)
      BY <2>1, <2>4 DEF InHand, There
    <3>2. run[j].items # <<>>
      BY <3>1 DEF Listed
    <3>3. QED BY <2>2, <3>1, <3>2 DEF InManifest
  <2>5. \A t \in transferred' : InHand(run'[t.flow], t) \/ InManifest(t)'
    <3>1. \A t \in transferred : t.flow \in Flows
      BY DEF TransfersInv, Transfers
    <3>2. QED BY <2>1, <2>3, <2>4, <3>1 DEF TransfersInv
  <2>6. Transfers' = Transfers
    BY DEF Transfers, Paths
  <2>7. QED BY <2>1, <2>5, <2>6 DEF TransfersInv
<1>9. ASSUME NEW j \in Flows, RunFails(j) PROVE TransfersInv'
  <2>1. /\ \A k \in Flows \ {j} : run'[k] = run[k]
        /\ transferred' = {t \in transferred : t.run # run[j].number} /\ UNCHANGED manifests
    BY <1>9 DEF RunFails, TypesInv, RunTypes
  <2>2. \A t \in transferred' : InHand(run'[t.flow], t) \/ InManifest(t)
    BY <2>1 DEF TransfersInv, Transfers, InHand
  <2>3. Transfers' = Transfers
    BY DEF Transfers, Paths
  <2>4. QED BY <2>1, <2>2, <2>3 DEF TransfersInv, InManifest
<1>10. CASE Crash
  <2>1. /\ transferred' = {t \in transferred : \A j \in Flows : t.run # run[j].number}
        /\ UNCHANGED manifests
    BY <1>10 DEF Crash
  <2>2. \A t \in transferred' : InManifest(t)
    BY <2>1 DEF TransfersInv, Transfers, InHand
  <2>3. Transfers' = Transfers
    BY DEF Transfers, Paths
  <2>4. QED BY <2>1, <2>2, <2>3 DEF TransfersInv, InManifest
<1>11. ASSUME NEW j \in Flows, UndoMark(j) PROVE TransfersInv'
  <2>1. ManifestsStay /\ UNCHANGED <<run, transferred>>
    BY <1>11, UndoMarkManifests DEF UndoMark
  <2>2. \A t : InManifest(t) => InManifest(t)'
    BY <2>1 DEF InManifest, ManifestsStay
  <2>3. Transfers' = Transfers
    BY DEF Transfers, Paths
  <2>4. QED BY <2>1, <2>2, <2>3 DEF TransfersInv
<1>12. ASSUME NEW j \in Flows, UndoStart(j) \/ UndoStep(j) PROVE TransfersInv'
  BY <1>1, <1>11, <1>12 DEF UndoStart, UndoStep, UndoCheck, UndoAct, UndoFails, ghosts
<1>13. CASE \/ \E p \in Paths : UserWrite(p) \/ UserDelete(p)
            \/ UNCHANGED vars
  BY <1>1, <1>13 DEF UserWrite, UserDelete, vars, ghosts
<1>14. QED BY <1>2, <1>3, <1>4, <1>5, <1>6, <1>7, <1>8, <1>9, <1>10, <1>12, <1>13 DEF Next, RunStep, RunChecks

\* Every file that a run (run_job, process_file) has copied or moved is in the run's
\* hands, among its items or in its manifest, in every interleaving of runs,
\* rollbacks, cancellations, users and crashes, for any directories but a flow's own
\* source as its target.  A file that fails verify_after_copy is beyond the reach of
\* a rollback only if somebody else has changed files since the run began, or a file
\* could not be read: QuietIsKept says that otherwise verification succeeds.
THEOREM TransfersAreRecorded == Spec => []TransfersRecorded
<1>1. Init => TransfersInv
  BY DEF Init, TransfersInv
<1>2. TransfersInv => TransfersRecorded
  BY DEF TransfersInv, TransfersRecorded, InHand, InManifest, Listed, At, There
<1>3. QED BY <1>1, <1>2, TransfersStep, TypesAreKept, QuietIsKept, PTL DEF Spec

-----------------------------------------------------------------------------
(***************************************************************************)
(* No file is lost, if no flow feeds itself.                               *)
(***************************************************************************)

\* F gives for every flow the flows that feed it: itself, and those that write
\* into the source directory of one that does.  It writes into none of theirs.
Feeding(F) ==
  /\ F \in [Flows -> SUBSET Flows]
  /\ \A j \in Flows :
       /\ j \in F[j] /\ TargetDir[j] \notin F[j]
       /\ \A i \in Flows \ {j} : i \in F[j] <=> TargetDir[i] \in F[j]
       /\ \A i \in F[j] : F[i] \subseteq F[j]

NoLoops == \E F : Feeding(F)
Feeds   == CHOOSE F : Feeding(F)

Dirs == Flows \cup {TargetDir[j] : j \in Flows}

Excused(c) == c \in discarded \cup replaced \cup unguarded

\* Run r is about to remove what is at p, which it has copied to another device, or
\* may remove its copy there.
Leaves(r, p) ==
  \/ r.at = "remove" /\ r.source = p
  \/ r.at \in {"confirm", "discard"} /\ r.target = p

Leaving(p) == \E j \in Flows : Leaves(run[j], p)

\* Content c is not lost, and if nobody is excused it is in one of these directories.
Safe(c, dirs) ==
  \/ c = Nothing \/ Excused(c)
  \/ \E p \in Paths : p[1] \in dirs /\ fs[p] = c /\ ~Leaving(p)

\* Nothing that counts is at p.
Bare(p) == fs[p] \in {Nothing} \cup unguarded

Kept == \A c \in 1..writes : Safe(c, Dirs)

\* Directories between which contents stay: a move begins and ends in them, or
\* outside, and what was copied into them comes from one of them.
NoWayOut(dirs) ==
  \A i \in Flows :
    /\ config[i].mode = "move" => (i \in dirs <=> TargetDir[i] \in dirs)
    /\ config[i].mode = "copy" /\ TargetDir[i] \in dirs => Feeds[i] \subseteq dirs

\* A run that does not overwrite will write where nothing is, what it has copied is
\* still upstream, and so is the copy that it may remove.
RunKnows(j) ==
  /\ run[j].at \in {"sum", "transfer"} /\ config[j].conflict # "overwrite" => Bare(run[j].target)
  /\ At(j, "compare") /\ run[j].outcome = "copied" => Safe(run[j].sum, Feeds[j])
  /\ At(j, "hash") /\ run[j].outcome = "copied" => Safe(fs[run[j].target], Feeds[j])
  /\ run[j].at \in {"confirm", "discard"} =>
       \A dirs : NoWayOut(dirs) /\ j \in dirs => Safe(fs[run[j].target], dirs)

\* What a copy's hash stands for is still upstream, and a rollback that cannot
\* compare finds nothing at the target.
ItemKnows(j, item) ==
  /\ item.status = "copied" => Safe(item.hash, Feeds[j])
  /\ item.status # "ignored" /\ item.hash = Nothing => Bare(item.target)

ItemsKnow ==
  /\ \A j \in Flows : \A i \in DOMAIN run[j].items : ItemKnows(j, run[j].items[i])
  /\ \A m \in DOMAIN manifests : \A i \in DOMAIN manifests[m].items :
       ItemKnows(manifests[m].flow, manifests[m].items[i])

\* A rollback removes its copy and nothing else, or moves to where nothing is.
UndoKnows(j) ==
  undo[j].at = "act" =>
    IF UndoItem(j).status = "copied"
    THEN Bare(UndoItem(j).target) \/ fs[UndoItem(j).target] = UndoItem(j).hash
    ELSE Bare(UndoItem(j).source)

FilesInv == Kept /\ ItemsKnow /\ \A j \in Flows : RunKnows(j) /\ UndoKnows(j)

-----------------------------------------------------------------------------
(***************************************************************************)
(* Contents stay where they count.                                         *)
(***************************************************************************)

\* Feeds is one of the ways to say who feeds whom.
LEMMA FeedsFeed == NoLoops => Feeding(Feeds)
  BY DEF NoLoops, Feeds

\* Flows that write where no flow reads make no loop.
LEMMA NoChainsNoLoops == (\A i, j \in Flows : TargetDir[i] # j) => NoLoops
<1> SUFFICES ASSUME \A i, j \in Flows : TargetDir[i] # j PROVE NoLoops
  OBVIOUS
<1>1. Feeding([j \in Flows |-> {j}])
  BY DEF Feeding
<1>2. QED BY <1>1 DEF NoLoops

\* The directory of a path.
LEMMA DirsAre ==
  /\ \A p \in Paths : p[1] \in Dirs
  /\ \A j \in Flows : /\ \A p \in SourcesOf(j) : p \in Paths /\ p[1] = j
                      /\ \A p \in TargetsOf(j) : p \in Paths /\ p[1] = TargetDir[j]
<1>1. \A p \in Paths : p[1] \in Dirs
  BY DEF Paths, Dirs
<1>2. ASSUME NEW j \in Flows
      PROVE  /\ \A p \in SourcesOf(j) : p \in Paths /\ p[1] = j
             /\ \A p \in TargetsOf(j) : p \in Paths /\ p[1] = TargetDir[j]
  <2>1. SourcesOf(j) \subseteq Paths /\ TargetsOf(j) \subseteq Paths
    BY PathsAre
  <2>2. \A p \in SourcesOf(j) : p[1] = j
    BY DEF SourcesOf
  <2>3. \A p \in TargetsOf(j) : p[1] = TargetDir[j]
    BY DEF TargetsOf
  <2>4. QED BY <2>1, <2>2, <2>3
<1>3. QED BY <1>1, <1>2

\* Contents stay between all directories, and between those that feed a copying flow.
LEMMA ClosedAre ==
  ASSUME NoLoops
  PROVE  NoWayOut(Dirs) /\ \A j \in Flows : config[j].mode = "copy" => NoWayOut(Feeds[j])
<1>1. Feeding(Feeds)
  BY FeedsFeed
<1>2. NoWayOut(Dirs)
  BY <1>1 DEF NoWayOut, Dirs, Feeding
<1>3. ASSUME NEW j \in Flows, config[j].mode = "copy" PROVE NoWayOut(Feeds[j])
  <2>1. ASSUME NEW i \in Flows, config[i].mode = "move" PROVE i \in Feeds[j] <=> TargetDir[i] \in Feeds[j]
    <3>1. i # j
      BY <1>3, <2>1
    <3>2. QED BY <1>1, <3>1 DEF Feeding
  <2>2. ASSUME NEW i \in Flows, TargetDir[i] \in Feeds[j] PROVE Feeds[i] \subseteq Feeds[j]
    <3>1. i # j
      BY <1>1, <2>2 DEF Feeding
    <3>2. i \in Feeds[j]
      BY <1>1, <2>2, <3>1 DEF Feeding
    <3>3. QED BY <1>1, <3>2 DEF Feeding
  <2>3. QED BY <2>1, <2>2 DEF NoWayOut
<1>4. QED BY <1>2, <1>3

\* Excuses are never taken back.
ExcusesStay ==
  /\ unguarded \subseteq unguarded'
  /\ \A c : Excused(c) => c = Nothing \/ Excused(c)'

SafeStays == \A c, dirs : NoWayOut(dirs) /\ Safe(c, dirs) => Safe(c, dirs)'

\* No step takes an excuse back.
LEMMA ExcusesStep == [Next]_vars => ExcusesStay
<1> SUFFICES ASSUME [Next]_vars PROVE ExcusesStay
  OBVIOUS
<1>1. ASSUME \A c : (c \in discarded => c = Nothing \/ c \in discarded')
                 /\ (c \in replaced => c = Nothing \/ c \in replaced'), unguarded \subseteq unguarded'
      PROVE  ExcusesStay
  BY <1>1 DEF ExcusesStay, Excused
<1>2. ASSUME NEW p \in Paths, UserWrite(p) \/ UserDelete(p) PROVE ExcusesStay
  BY <1>1, <1>2 DEF UserWrite, UserDelete, Arrives
<1>3. ASSUME NEW j \in Flows, RunTransfer(j) \/ RunConfirm(j) \/ RunRemoveSource(j) \/ UndoAct(j)
      PROVE  ExcusesStay
  BY <1>1, <1>3 DEF RunTransfer, RunConfirm, RunRemoveSource, UndoAct, Arrives
<1>4. CASE UNCHANGED <<discarded, replaced, unguarded>>
  BY <1>1, <1>4
<1>5. ASSUME NEW j \in Flows, RunStart(j) \/ RunStep(j) \/ UndoStart(j) \/ UndoStep(j) PROVE ExcusesStay
  BY <1>3, <1>4, <1>5 DEF RunStep, UndoStep, RunStart, RunNext, RunCancelled, RunLoopDone, RunSum, RunVerify,
     RunCompare, RunDiscard, RunFileError, RunHash, RunAudit, RunEnd, RunFails, UndoStart, UndoCheck, UndoMark, UndoFails, ghosts
<1>6. QED BY <1>2, <1>4, <1>5 DEF Next, Crash, vars, ghosts

\* What stays where it is stays safe.
LEMMA SafeUnlessMoved ==
  ASSUME ExcusesStay, NEW c, NEW dirs, Safe(c, dirs),
         \A p \in Paths : p[1] \in dirs /\ fs[p] = c /\ ~Leaving(p) =>
            Safe(c, dirs)' \/ (fs'[p] = c /\ ~Leaving(p)')
  PROVE  Safe(c, dirs)'
<1>1. CASE c = Nothing \/ Excused(c)
  BY <1>1 DEF Safe, ExcusesStay
<1>2. CASE \E p \in Paths : p[1] \in dirs /\ fs[p] = c /\ ~Leaving(p)
  BY <1>2 DEF Safe
<1>3. QED BY <1>1, <1>2 DEF Safe

\* A user's write or deletion discards what was there, and nothing else.
LEMMA SafeUser ==
  ASSUME TypesInv, ExcusesStay, NEW q \in Paths, UserWrite(q) \/ UserDelete(q)
  PROVE  SafeStays
<1> SUFFICES ASSUME NEW c, NEW dirs, Safe(c, dirs), c # Nothing PROVE Safe(c, dirs)'
  BY DEF SafeStays, Safe
<1>1. fs \in [Paths -> Contents] /\ UNCHANGED run /\ \A p \in Paths \ {q} : fs'[p] = fs[p]
  BY DEF TypesInv, FsTypes, UserWrite, UserDelete
<1>2. fs[q] = c => Safe(c, dirs)'
  BY DEF UserWrite, UserDelete, Safe, Excused
<1>3. \A p : Leaving(p)' => Leaving(p)
  BY <1>1 DEF Leaving, Leaves
<1>4. QED BY <1>1, <1>2, <1>3, SafeUnlessMoved

\* What a run removes after a copy to another device is not what anybody counts on:
\* neither the source, nor a copy that is not good.
LEMMA SafeRemove ==
  ASSUME TypesInv, ExcusesStay, NEW j \in Flows, RunRemoveSource(j) \/ RunDiscard(j)
  PROVE  SafeStays
<1> SUFFICES ASSUME NEW c, NEW dirs, Safe(c, dirs) PROVE Safe(c, dirs)'
  BY DEF SafeStays
<1>1. fs \in [Paths -> Contents] /\ run \in [Flows -> Runs]
  BY DEF TypesInv, FsTypes, RunTypes
<1>2. PICK q : Leaving(q) /\ \A p \in Paths \ {q} : fs'[p] = fs[p]
  BY <1>1 DEF RunRemoveSource, RunDiscard, Leaving, Leaves, At
<1>3. run'[j].at \in {"hash", "audit"} /\ \A k \in Flows \ {j} : run'[k] = run[k]
  BY <1>1 DEF RunRemoveSource, RunDiscard, RunTo, Runs
<1>4. \A p : Leaving(p)' => Leaving(p)
  BY <1>3 DEF Leaving, Leaves
<1>5. QED BY <1>1, <1>2, <1>4, SafeUnlessMoved

\* Only one flow has a source directory.
LEMMA SourceIs ==
  ASSUME TypesInv, NEW j \in Flows, NEW p \in SourcesOf(j), NEW k \in Flows,
         run[k].at = "remove", run[k].source = p
  PROVE  k = j
BY DirsAre DEF TypesInv, RunTypes, IsRunOf, Busy

\* What is in these directories is safe there, unless its own flow removes it.
LEMMA SafeThere ==
  ASSUME TypesInv, NEW dirs, NoWayOut(dirs), NEW p \in Paths, p[1] \in dirs,
         \A k \in Flows : RunKnows(k) /\ ~(run[k].at = "remove" /\ run[k].source = p)
  PROVE  Safe(fs[p], dirs)
<1>1. CASE ~Leaving(p)
  BY <1>1 DEF Safe
<1>2. CASE Leaving(p)
  <2>1. PICK k \in Flows : run[k].at \in {"confirm", "discard"} /\ run[k].target = p
    BY <1>2 DEF Leaving, Leaves
  <2>2. config[k].mode = "move" /\ p[1] = TargetDir[k]
    BY <2>1, DirsAre DEF TypesInv, RunTypes, IsRunOf, Busy
  <2>3. k \in dirs
    BY <2>2 DEF NoWayOut
  <2>4. QED BY <2>1, <2>3 DEF RunKnows
<1>3. QED BY <1>1, <1>2

\* A good copy on the other device stands for its source, unless that has changed.
LEMMA SafeConfirm ==
  ASSUME TypesInv, ExcusesStay, NEW j \in Flows, RunConfirm(j)
  PROVE  SafeStays
<1> SUFFICES ASSUME NEW c, NEW dirs, NoWayOut(dirs), Safe(c, dirs), c # Nothing PROVE Safe(c, dirs)'
  BY DEF SafeStays, Safe
<1>0. PICK from, to : from = run[j].source /\ to = run[j].target
  OBVIOUS
<1>1. /\ run[j].at = "confirm" /\ UNCHANGED fs /\ run \in [Flows -> Runs] /\ IsRunOf(j, run[j])
      /\ config[j].mode = "move"
  BY DEF RunConfirm, At, TypesInv, RunTypes, IsRunOf
<1>2. /\ from \in Paths /\ to \in Paths /\ from # to /\ from[1] = j /\ to[1] = TargetDir[j]
  BY <1>0, <1>1, DirsAre, DirectoriesAssumption DEF IsRunOf, Busy
<1>3. /\ \A k \in Flows \ {j} : run'[k] = run[k]
      /\ run'[j].source = from /\ run'[j].target = to
      /\ \/ run'[j].at \in {"discard", "audit"}
         \/ /\ run'[j].at = "remove" /\ fs[to] = run[j].sum
            /\ Arrives(fs[from], to, InRun(to, Flows \ {j}) \/ fs[from] # run[j].sum)
  BY <1>0, <1>1 DEF RunConfirm, RunTo, Runs
<1>4. CASE run'[j].at \in {"discard", "audit"}
  <2>1. \A p : Leaving(p)' => Leaving(p)
    BY <1>0, <1>1, <1>3, <1>4 DEF Leaving, Leaves
  <2>2. QED BY <1>1, <2>1, SafeUnlessMoved
<1>5. CASE run'[j].at = "remove" /\ fs[to] = run[j].sum
           /\ Arrives(fs[from], to, InRun(to, Flows \ {j}) \/ fs[from] # run[j].sum)
  <2>1. \A p : Leaving(p)' => Leaving(p) \/ p = from
    BY <1>3, <1>5 DEF Leaving, Leaves
  <2>2. ASSUME fs[from] = c, from[1] \in dirs PROVE Safe(c, dirs)'
    <3>1. CASE c # fs[to]
      <4>1. c \in unguarded'
        BY <1>5, <2>2, <3>1 DEF Arrives
      <4>2. QED BY <4>1 DEF Safe, Excused
    <3>2. CASE c = fs[to] /\ Leaving(to)'
      <4>1. PICK k \in Flows : Leaves(run'[k], to)
        BY <3>2 DEF Leaving
      <4>2. k # j /\ Leaves(run[k], to)
        BY <1>2, <1>3, <1>5, <4>1 DEF Leaves
      <4>3. InRun(to, Flows \ {j})
        BY <4>2 DEF InRun, Leaves
      <4>4. c \in unguarded'
        BY <1>5, <2>2, <4>3 DEF Arrives
      <4>5. QED BY <4>4 DEF Safe, Excused
    <3>3. CASE c = fs[to] /\ ~Leaving(to)'
      <4>1. to[1] \in dirs
        BY <1>1, <1>2, <2>2 DEF NoWayOut
      <4>2. QED BY <1>1, <1>2, <3>3, <4>1 DEF Safe
    <3>4. QED BY <3>1, <3>2, <3>3
  <2>3. QED BY <1>1, <2>1, <2>2, SafeUnlessMoved
<1>6. QED BY <1>3, <1>4, <1>5

\* A transfer replaces what it may replace, and a move brings the content along.
LEMMA SafeTransfer ==
  ASSUME TypesInv, NoLoops, ExcusesStay, NEW j \in Flows, RunTransfer(j), RunKnows(j)
  PROVE  SafeStays
<1> SUFFICES ASSUME NEW c, NEW dirs, NoWayOut(dirs), Safe(c, dirs), c # Nothing PROVE Safe(c, dirs)'
  BY DEF SafeStays, Safe
<1>0. PICK from, to : from = run[j].source /\ to = run[j].target
  OBVIOUS
<1>1. /\ from \in Paths /\ to \in Paths /\ from # to /\ from[1] = j /\ to[1] = TargetDir[j]
      /\ \A p \in Paths \ {from, to} : fs'[p] = fs[p]
      /\ \A k \in Flows \ {j} : run'[k] = run[k]
      /\ run'[j].source = from /\ run'[j].target = to /\ run[j].at = "transfer"
  BY <1>0, TransferIs, DirsAre DEF RunTransfer, At
<1>2. \/ /\ fs'[from] = fs[from] /\ run'[j].at \in {"audit", "verify", "hash", "confirm"}
         /\ run'[j].at = "confirm" => config[j].mode = "move" /\ Exists(from)
      \/ config[j].mode = "move" /\ fs'[to] = fs[from] /\ run'[j].at \in {"remove", "compare", "hash"}
  BY <1>0, TransferIs
<1>3. ASSUME NEW p, Leaving(p)', ~Leaving(p)
      PROVE  (p = from /\ run'[j].at = "remove") \/ (p = to /\ run'[j].at = "confirm")
  <2>1. PICK k \in Flows : Leaves(run'[k], p)
    BY <1>3 DEF Leaving
  <2>2. k = j
    BY <1>1, <1>3, <2>1 DEF Leaving
  <2>3. QED BY <1>1, <1>2, <2>1, <2>2 DEF Leaves
<1>4. ASSUME fs[to] = c PROVE Safe(c, dirs)' \/ (fs'[to] = c /\ ~(Leaving(to)' /\ ~Leaving(to)))
  <2>1. Bare(to) => Excused(c)
    BY <1>4 DEF Bare, Excused
  <2>2. Excused(c) => Safe(c, dirs)'
    BY DEF ExcusesStay, Safe
  <2>3. CASE config[j].conflict # "overwrite"
    BY <1>0, <1>1, <2>1, <2>2, <2>3 DEF RunKnows
  <2>4. CASE config[j].conflict = "overwrite" /\ (config[j].mode = "move" \/ Exists(from))
    <3>1. c \in replaced'
      BY <1>0, <1>4, <2>4 DEF RunTransfer
    <3>2. QED BY <3>1 DEF Safe, Excused
  <2>5. CASE config[j].mode # "move" /\ ~Exists(from)
    <3>1. fs'[to] = fs[to] /\ run'[j].at # "confirm"
      BY <1>0, <2>5, TransferIs
    <3>2. QED BY <1>1, <1>3, <1>4, <3>1
  <2>6. QED BY <2>3, <2>4, <2>5
<1>5. ASSUME fs[from] = c, from[1] \in dirs, config[j].mode = "move", fs'[to] = c,
             run'[j].at \in {"remove", "compare", "hash"}
      PROVE  Safe(c, dirs)'
  <2>1. to[1] \in dirs
    BY <1>1, <1>5 DEF NoWayOut
  <2>2. ASSUME Leaving(to)' PROVE c \in unguarded'
    <3>1. PICK k \in Flows : Leaves(run'[k], to)
      BY <2>2 DEF Leaving
    <3>2. k # j /\ Leaves(run[k], to)
      BY <1>1, <1>5, <3>1 DEF Leaves
    <3>3. InRun(to, Flows \ {j})
      BY <3>2 DEF InRun, Leaves
    <3>4. QED BY <1>0, <1>5, <3>3 DEF RunTransfer, Arrives
  <2>3. QED BY <1>1, <1>5, <2>1, <2>2 DEF Safe, Excused
<1>6. ASSUME NEW p \in Paths, p[1] \in dirs, fs[p] = c, ~Leaving(p)
      PROVE  Safe(c, dirs)' \/ (fs'[p] = c /\ ~Leaving(p)')
  <2>1. CASE p = to
    BY <1>4, <1>6, <2>1
  <2>2. CASE p = from
    <3>1. CASE config[j].mode = "move" /\ fs'[to] = fs[from] /\ run'[j].at \in {"remove", "compare", "hash"}
      BY <1>5, <1>6, <2>2, <3>1
    <3>2. CASE fs'[from] = fs[from] /\ run'[j].at # "remove"
      BY <1>1, <1>3, <1>6, <2>2, <3>2
    <3>3. QED BY <1>2, <3>1, <3>2
  <2>3. CASE p \notin {from, to}
    BY <1>1, <1>3, <1>6, <2>3
  <2>4. QED BY <2>1, <2>2, <2>3
<1>7. QED BY <1>6, SafeUnlessMoved

\* What UndoAct does with the item at hand.
LEMMA UndoIs ==
  ASSUME TypesInv, NoLoops, NEW j \in Flows, UndoAct(j)
  PROVE  LET item == UndoItem(j)
             from == item.source
             to == item.target
         IN  /\ from \in SourcesOf(j) /\ to \in TargetsOf(j) /\ from \in Paths /\ to \in Paths /\ from # to
             /\ IsMode(j, item.status) /\ UNCHANGED run
             /\ \/ item.status = "copied" /\ fs' = [fs EXCEPT ![to] = Nothing]
                \/ /\ item.status = "moved"
                   /\ fs' = fs \/ fs' = [fs EXCEPT ![from] = fs[to], ![to] = Nothing]
<1> DEFINE item == UndoItem(j)
<1>1. undo[j].at = "act" /\ undo[j].left > 0 /\ item.status \in {"copied", "moved"}
  BY DEF TypesInv, UndoTypes, IsUndoOf, UndoAct, UndoItem
<1>2. IsItemOf(j, item)
  BY <1>1, UndoItemIs
<1>3. /\ item.source \in SourcesOf(j) /\ item.target \in TargetsOf(j) /\ IsMode(j, item.status)
      /\ item.source \in Paths /\ item.target \in Paths /\ item.source # item.target
  BY <1>2, DirsAre, FeedsFeed DEF IsItemOf, Feeding
<1>4. UNCHANGED run
  BY DEF UndoAct
<1>5. \/ item.status = "copied" /\ fs' = [fs EXCEPT ![item.target] = Nothing]
      \/ /\ item.status = "moved"
         /\ fs' = fs \/ fs' = [fs EXCEPT ![item.source] = fs[item.target], ![item.target] = Nothing]
  BY <1>1 DEF UndoAct
<1>6. QED BY <1>3, <1>4, <1>5

\* A rollback removes a copy whose original is still upstream, or moves a content back.
LEMMA SafeUndo ==
  ASSUME TypesInv, NoLoops, ExcusesStay, NEW j \in Flows, UndoAct(j), UndoKnows(j), ItemsKnow
  PROVE  SafeStays
<1> SUFFICES ASSUME NEW c, NEW dirs, NoWayOut(dirs), Safe(c, dirs), c # Nothing PROVE Safe(c, dirs)'
  BY DEF SafeStays, Safe
<1> DEFINE item == UndoItem(j)
           from == item.source
           to == item.target
<1>1. /\ from \in Paths /\ to \in Paths /\ from # to /\ from[1] = j /\ to[1] = TargetDir[j]
      /\ IsMode(j, item.status) /\ UNCHANGED run /\ fs \in [Paths -> Contents] /\ undo[j].at = "act"
  BY UndoIs, DirsAre DEF TypesInv, FsTypes, UndoAct
<1>2. \A p : Leaving(p)' = Leaving(p)
  BY <1>1 DEF Leaving, Leaves
<1>3. Excused(c) => Safe(c, dirs)'
  BY DEF ExcusesStay, Safe
<1>4. \A p : Bare(p) /\ fs[p] = c => Excused(c)
  BY DEF Bare, Excused
<1>5. CASE item.status = "copied" /\ fs' = [fs EXCEPT ![to] = Nothing]
  <2>1. \A p \in Paths \ {to} : fs'[p] = fs[p]
    BY <1>1, <1>5
  <2>2. ASSUME fs[to] = c, TargetDir[j] \in dirs, item.hash = c PROVE Safe(c, dirs)'
    <3>1. Safe(c, Feeds[j])
      <4>1. ItemKnows(j, item)
        BY <1>1, UndoItemIs DEF ItemsKnow, UndoItem, TypesInv, UndoTypes, IsUndoOf
      <4>2. QED BY <1>5, <2>2, <4>1 DEF ItemKnows
    <3>2. Feeds[j] \subseteq dirs /\ TargetDir[j] \notin Feeds[j]
      BY <1>1, <1>5, <2>2, FeedsFeed DEF NoWayOut, IsMode, Feeding
    <3>3. CASE \E p \in Paths : p[1] \in Feeds[j] /\ fs[p] = c /\ ~Leaving(p)
      <4>1. PICK p \in Paths : p[1] \in Feeds[j] /\ fs[p] = c /\ ~Leaving(p)
        BY <3>3
      <4>2. p # to /\ p[1] \in dirs
        BY <1>1, <3>2, <4>1
      <4>3. QED BY <1>2, <2>1, <4>1, <4>2 DEF Safe
    <3>4. QED BY <1>3, <3>1, <3>3 DEF Safe
  <2>3. fs[to] = c /\ TargetDir[j] \in dirs => Safe(c, dirs)'
    BY <1>1, <1>3, <1>4, <1>5, <2>2 DEF UndoKnows
  <2>4. QED BY <1>1, <1>2, <2>1, <2>3, SafeUnlessMoved
<1>6. CASE item.status = "moved" /\ fs' = [fs EXCEPT ![from] = fs[to], ![to] = Nothing]
  <2>1. /\ fs'[from] = fs[to] /\ \A p \in Paths \ {from, to} : fs'[p] = fs[p]
    BY <1>1, <1>6
  <2>2. fs[from] = c => Safe(c, dirs)'
    BY <1>1, <1>3, <1>4, <1>6 DEF UndoKnows
  <2>3. ASSUME fs[to] = c, to[1] \in dirs PROVE Safe(c, dirs)'
    <3>1. from[1] \in dirs
      BY <1>1, <1>6, <2>3 DEF NoWayOut, IsMode
    <3>2. ASSUME Leaving(from) PROVE c \in unguarded'
      <4>1. InRun(from, Flows)
        BY <3>2 DEF Leaving, Leaves, InRun
      <4>2. QED BY <1>6, <2>3, <4>1 DEF UndoAct, Arrives
    <3>3. QED BY <1>1, <1>2, <2>1, <2>3, <3>1, <3>2 DEF Safe, Excused
  <2>4. QED BY <1>2, <2>1, <2>2, <2>3, SafeUnlessMoved
<1>7. CASE fs' = fs
  BY <1>2, <1>7, SafeUnlessMoved
<1>8. QED BY <1>5, <1>6, <1>7, UndoIs

\* No step loses a content.
LEMMA SafeStep ==
  ASSUME TypesInv, NoLoops, FilesInv, [Next]_vars
  PROVE  SafeStays
<1>1. ExcusesStay
  BY ExcusesStep
<1>2. ASSUME UNCHANGED fs, \A p : Leaving(p)' => Leaving(p) PROVE SafeStays
  BY <1>1, <1>2, SafeUnlessMoved DEF SafeStays
<1>3. ASSUME UNCHANGED <<fs, run>> PROVE SafeStays
  BY <1>2, <1>3 DEF Leaving, Leaves
<1>4. ASSUME NEW j \in Flows, RunStart(j) \/ RunStep(j), ~RunTransfer(j), ~RunConfirm(j), ~RunRemoveSource(j),
             ~RunDiscard(j)
      PROVE  SafeStays
  <2>1. PICK r : RunBecomes(j, r) /\ r.at \notin {"confirm", "discard", "remove"}
    <3>1. ASSUME RunEnd(j) \/ RunFails(j) PROVE RunBecomes(j, NotRunning)
      BY <3>1, NotRunningIs DEF RunEnd, RunFails, RunBecomes
    <3>2. ASSUME RunChecks(j) PROVE \E r : RunBecomes(j, r) /\ r.at \notin {"confirm", "discard", "remove"}
      BY <1>4, <3>2, RunChecksIs DEF CheckLeads
    <3>3. QED BY <1>4, <3>1, <3>2, NotRunningIs, RunStartIs, RunNextIs, RunGoesOn, RunHashIs DEF RunStep, RunChecks
  <2>2. run'[j] = r /\ \A k \in Flows \ {j} : run'[k] = run[k]
    BY <2>1 DEF RunBecomes, TypesInv, RunTypes
  <2>3. \A p : Leaving(p)' => Leaving(p)
    BY <2>1, <2>2 DEF Leaving, Leaves
  <2>4. UNCHANGED fs
    BY <1>4 DEF RunStart, RunStep, RunNext, RunCancelled, RunLoopDone, RunSum, RunVerify, RunCompare, RunFileError,
       RunHash, RunAudit, RunEnd, RunFails
  <2>5. QED BY <1>2, <2>3, <2>4
<1>5. CASE Crash
  <2>1. \A j \in Flows : run'[j].at = "idle"
    BY <1>5, NotRunningIs DEF Crash
  <2>2. QED BY <1>2, <1>5, <2>1 DEF Crash, Leaving, Leaves
<1>6. ASSUME NEW j \in Flows, UndoStart(j) \/ UndoStep(j), ~UndoAct(j) PROVE SafeStays
  BY <1>3, <1>6 DEF UndoStart, UndoStep, UndoCheck, UndoMark, UndoFails
<1>7. ASSUME NEW j \in Flows, RunTransfer(j) PROVE SafeStays
  BY <1>1, <1>7, SafeTransfer DEF FilesInv
<1>8. ASSUME NEW j \in Flows, UndoAct(j) PROVE SafeStays
  BY <1>1, <1>8, SafeUndo DEF FilesInv
<1>9. ASSUME NEW j \in Flows, RunRemoveSource(j) \/ RunDiscard(j) PROVE SafeStays
  BY <1>1, <1>9, SafeRemove
<1>10. ASSUME NEW j \in Flows, RunConfirm(j) PROVE SafeStays
  BY <1>1, <1>10, SafeConfirm
<1>11. ASSUME NEW q \in Paths, UserWrite(q) \/ UserDelete(q) PROVE SafeStays
  BY <1>1, <1>11, SafeUser
<1>12. QED BY <1>3, <1>4, <1>5, <1>6, <1>7, <1>8, <1>9, <1>10, <1>11 DEF Next, vars

-----------------------------------------------------------------------------
(***************************************************************************)
(* Whoever writes where another step has looked excuses what it writes.    *)
(***************************************************************************)

\* A run or a rollback of one of these flows holds p, or an item without a hash.
Guarded(p, runners, undoers) == Unhashed(p) \/ InRun(p, runners) \/ InUndo(p, undoers)

\* What is new on a guarded path does not count.
NewsAreExcused(runners, undoers) ==
  \A p \in Paths : Guarded(p, runners, undoers) => fs'[p] \in {fs[p], Nothing} \cup unguarded'

\* A transfer excuses what it writes where another step has looked.
LEMMA NewsOfTransfer ==
  ASSUME TypesInv, NoLoops, NEW j \in Flows, RunTransfer(j)
  PROVE  NewsAreExcused(Flows \ {j}, Flows)
<1>0. PICK from, to : from = run[j].source /\ to = run[j].target
  OBVIOUS
<1>1. /\ \A p \in Paths \ {from, to} : fs'[p] = fs[p]
      /\ fs'[to] \in {fs[to], Nothing, fs[from]}
  BY <1>0, TransferIs
<1>2. fs'[from] \in {fs[from], Nothing}
  <2>1. from \in Paths /\ to \in Paths /\ from # to /\ fs \in [Paths -> Contents]
    BY <1>0, TransferIs, DirsAre DEF TypesInv, FsTypes
  <2> DEFINE cleared == IF config[j].mode = "move" /\ config[j].conflict = "overwrite"
                        THEN [fs EXCEPT ![to] = Nothing] ELSE fs
  <2>2. cleared \in [Paths -> Contents \cup {Nothing}] /\ cleared[from] = fs[from]
    BY <2>1
  <2>3. \/ fs' = cleared \/ fs' = [cleared EXCEPT ![to] = fs[from]]
        \/ fs' = [[cleared EXCEPT ![to] = fs[from]] EXCEPT ![from] = Nothing]
    BY <1>0 DEF RunTransfer
  <2> HIDE DEF cleared
  <2>4. QED BY <2>1, <2>2, <2>3
<1>3. Guarded(to, Flows \ {j}, Flows) => fs[from] \in unguarded'
  BY <1>0 DEF RunTransfer, Arrives, Guarded
<1>4. QED BY <1>1, <1>2, <1>3 DEF NewsAreExcused

\* So does a rollback that moves a file back.
LEMMA NewsOfUndo ==
  ASSUME TypesInv, NoLoops, NEW j \in Flows, UndoAct(j)
  PROVE  NewsAreExcused(Flows, Flows \ {j})
<1>0. PICK from, to, status : from = UndoItem(j).source /\ to = UndoItem(j).target /\ status = UndoItem(j).status
  OBVIOUS
<1>1. /\ from \in Paths /\ to \in Paths /\ from # to /\ fs \in [Paths -> Contents]
      /\ \/ status = "copied" /\ fs' = [fs EXCEPT ![to] = Nothing]
         \/ status = "moved" /\ (fs' = fs \/ fs' = [fs EXCEPT ![from] = fs[to], ![to] = Nothing])
  BY <1>0, UndoIs DEF TypesInv, FsTypes
<1>2. status = "moved" /\ Guarded(from, Flows, Flows \ {j}) => fs[to] \in unguarded'
  BY <1>0 DEF UndoAct, Arrives, Guarded
<1>3. QED BY <1>1, <1>2 DEF NewsAreExcused

\* And so does everybody else: users, and steps that only remove.
LEMMA NewsOfOthers ==
  ASSUME TypesInv, [Next]_vars, \A j \in Flows : ~RunTransfer(j) /\ ~UndoAct(j)
  PROVE  NewsAreExcused(Flows, Flows)
<1>1. fs \in [Paths -> Contents]
  BY DEF TypesInv, FsTypes
<1>2. ASSUME NEW q \in Paths, UserWrite(q) PROVE NewsAreExcused(Flows, Flows)
  <2>1. fs' = [fs EXCEPT ![q] = writes + 1]
    BY <1>2 DEF UserWrite
  <2>2. Guarded(q, Flows, Flows) => writes + 1 \in unguarded'
    BY <1>2 DEF UserWrite, Arrives, Guarded
  <2>3. QED BY <1>1, <2>1, <2>2 DEF NewsAreExcused
<1>3. CASE \/ \E q \in Paths : fs' = [fs EXCEPT ![q] = Nothing]
           \/ UNCHANGED fs
  BY <1>1, <1>3 DEF NewsAreExcused
<1>4. ASSUME NEW j \in Flows, RunRemoveSource(j) \/ RunDiscard(j) PROVE NewsAreExcused(Flows, Flows)
  BY <1>1, <1>4 DEF RunRemoveSource, RunDiscard, NewsAreExcused
<1>5. ASSUME NEW j \in Flows, RunStart(j) \/ RunStep(j) \/ UndoStart(j) \/ UndoStep(j)
      PROVE  NewsAreExcused(Flows, Flows)
  BY <1>3, <1>4, <1>5 DEF RunStep, UndoStep, RunStart, RunNext, RunCancelled, RunLoopDone, RunSum, RunVerify,
     RunCompare, RunConfirm, RunFileError, RunHash, RunAudit, RunEnd, RunFails, UndoStart, UndoCheck, UndoMark,
     UndoFails
<1>6. QED BY <1>2, <1>3, <1>5 DEF Next, Crash, UserDelete, vars

\* The step of one flow leaves what every other flow has seen; of its own only
\* the run or the rollback that takes the step is not bound.
LEMMA NewsStep ==
  ASSUME TypesInv, NoLoops, [Next]_vars
  PROVE  \E runners, undoers \in SUBSET Flows :
           /\ NewsAreExcused(runners, undoers)
           /\ \A j \in Flows : (j \notin runners => RunTransfer(j)) /\ (j \notin undoers => UndoAct(j))
<1>1. CASE \E j \in Flows : RunTransfer(j)
  <2>1. PICK j \in Flows : RunTransfer(j)
    BY <1>1
  <2>2. NewsAreExcused(Flows \ {j}, Flows)
    BY <2>1, NewsOfTransfer
  <2>3. QED BY <2>1, <2>2
<1>2. CASE \E j \in Flows : UndoAct(j)
  <2>1. PICK j \in Flows : UndoAct(j)
    BY <1>2
  <2>2. NewsAreExcused(Flows, Flows \ {j})
    BY <2>1, NewsOfUndo
  <2>3. QED BY <2>1, <2>2
<1>3. CASE \A j \in Flows : ~RunTransfer(j) /\ ~UndoAct(j)
  <2>1. NewsAreExcused(Flows, Flows)
    BY <1>3, NewsOfOthers
  <2>2. QED BY <2>1
<1>4. QED BY <1>1, <1>2, <1>3

-----------------------------------------------------------------------------
(***************************************************************************)
(* What runs, items and rollbacks know stays true.                         *)
(***************************************************************************)

\* Where the items of a run come from.
LEMMA ItemsStep ==
  ASSUME TypesInv, [Next]_vars, NEW j \in Flows, NEW i \in DOMAIN run'[j].items
  PROVE  \/ \E k \in DOMAIN run[j].items : run'[j].items[i] = run[j].items[k]
         \/ run'[j].items[i].status = "ignored"
         \/ RunHash(j) /\ run'[j].items[i] = Recorded(j, run[j].outcome, fs[run[j].target])
<1>1. run[j].items \in Seq(Items) /\ run \in [Flows -> Runs]
  BY DEF TypesInv, RunTypes, Runs
<1>2. ASSUME NEW item, run'[j].items = Append(run[j].items, item)
      PROVE  run'[j].items[i] = item \/ \E k \in DOMAIN run[j].items : run'[j].items[i] = run[j].items[k]
  BY <1>1, <1>2
<1>3. CASE run'[j].items = run[j].items
  BY <1>3
<1>4. CASE run'[j].items = <<>>
  BY <1>4
<1>5. ASSUME NEW k \in Flows, RunStart(k) \/ RunStep(k) PROVE j = k \/ run'[j] = run[j]
  <2>1. PICK r : RunBecomes(k, r)
    BY <1>5, RunStepIs
  <2>2. QED BY <1>1, <2>1 DEF RunBecomes
<1>6. CASE RunNext(j)
  <2>1. PICK r : /\ RunBecomes(j, r)
                 /\ \/ r.items = run[j].items
                    \/ \E item \in Items : item.status = "ignored" /\ r.items = Append(run[j].items, item)
    BY <1>6, RunNextIs
  <2>2. run'[j] = r
    BY <1>1, <2>1 DEF RunBecomes
  <2>3. QED BY <1>2, <1>3, <2>1, <2>2
<1>7. CASE RunHash(j)
  <2>1. PICK r : RunBecomes(j, r) /\ r.items = Append(run[j].items, Recorded(j, run[j].outcome, fs[run[j].target]))
    BY <1>7, RunHashIs
  <2>2. run'[j] = r
    BY <1>1, <2>1 DEF RunBecomes
  <2>3. QED BY <1>2, <1>7, <2>1, <2>2
<1>8. CASE RunStart(j) \/ RunCancelled(j) \/ RunLoopDone(j) \/ RunAudit(j) \/ RunChecks(j) \/ RunDiscard(j)
  <2>1. PICK r : RunBecomes(j, r) /\ r.items \in {<<>>, run[j].items}
    BY <1>8, RunStartIs, RunGoesOn, RunChecksIs, RunDiscardIs
  <2>2. run'[j] = r
    BY <1>1, <2>1 DEF RunBecomes
  <2>3. QED BY <1>3, <1>4, <2>1, <2>2
<1>9. CASE RunTransfer(j) \/ RunRemoveSource(j)
  <2>1. \E at, outcome : RunTo(j, at, outcome)
    BY <1>9 DEF RunTransfer, RunRemoveSource
  <2>2. run'[j].items = run[j].items
    BY <1>1, <2>1 DEF RunTo, Runs
  <2>3. QED BY <1>3, <2>2
<1>10. CASE RunEnd(j) \/ RunFails(j) \/ Crash
  <2>1. run'[j] = NotRunning
    BY <1>1, <1>10 DEF RunEnd, RunFails, Crash
  <2>2. QED BY <1>4, <2>1, NotRunningIs
<1>11. CASE RunStart(j) \/ RunStep(j)
  BY <1>6, <1>7, <1>8, <1>9, <1>10, <1>11 DEF RunStep, RunChecks
<1>12. ASSUME NEW k \in Flows, UndoStart(k) \/ UndoStep(k) PROVE run'[j] = run[j]
  BY <1>12 DEF UndoStart, UndoStep, UndoCheck, UndoAct, UndoMark, UndoFails
<1>13. ASSUME NEW q \in Paths, UserWrite(q) \/ UserDelete(q) PROVE run'[j] = run[j]
  BY <1>13 DEF UserWrite, UserDelete
<1>14. QED BY <1>3, <1>5, <1>10, <1>11, <1>12, <1>13 DEF Next, vars

\* Where manifests come from.
LEMMA ManifestsStep ==
  ASSUME TypesInv, [Next]_vars
  PROVE  /\ ManifestsStay
         /\ \A m \in DOMAIN manifests' \ DOMAIN manifests :
              manifests'[m].flow \in Flows /\ manifests'[m].items = run[manifests'[m].flow].items
<1>1. CASE UNCHANGED manifests
  BY <1>1 DEF TypesInv, ManifestTypes, ManifestsStay
<1>2. ASSUME NEW j \in Flows, RunEnd(j)
      PROVE  /\ ManifestsStay
             /\ \A m \in DOMAIN manifests' \ DOMAIN manifests :
                  manifests'[m].flow = j /\ manifests'[m].items = run[j].items
  BY <1>2, RunEndManifests
<1>3. ASSUME NEW j \in Flows, UndoMark(j)
      PROVE  ManifestsStay /\ DOMAIN manifests' = DOMAIN manifests
  BY <1>3, UndoMarkManifests
<1>4. ASSUME NEW j \in Flows, RunStart(j) \/ RunStep(j) \/ UndoStart(j) \/ UndoStep(j), ~RunEnd(j), ~UndoMark(j)
      PROVE  UNCHANGED manifests
  BY <1>4 DEF RunStep, UndoStep, RunStart, RunNext, RunCancelled, RunLoopDone, RunSum, RunTransfer, RunVerify,
     RunCompare, RunConfirm, RunDiscard, RunFileError, RunRemoveSource, RunHash, RunAudit, RunFails, UndoStart, UndoCheck, UndoAct, UndoFails, ghosts
<1>5. QED BY <1>1, <1>2, <1>3, <1>4 DEF Next, UserWrite, UserDelete, Crash, vars

\* What is known of an item stays true.
LEMMA ItemStays ==
  ASSUME NoLoops, SafeStays, ExcusesStay, NEW runners, NEW undoers, NewsAreExcused(runners, undoers),
         NEW j \in Flows, NEW item \in Items, IsItemOf(j, item), ItemKnows(j, item),
         item.status # "ignored" /\ item.hash = Nothing => Unhashed(item.target)
  PROVE  ItemKnows(j, item)'
<1>1. ASSUME item.status = "copied" PROVE Safe(item.hash, Feeds[j])'
  <2>1. NoWayOut(Feeds[j]) /\ Safe(item.hash, Feeds[j])
    BY <1>1, ClosedAre DEF IsItemOf, IsMode, ItemKnows
  <2>2. QED BY <2>1 DEF SafeStays
<1>2. ASSUME item.status # "ignored", item.hash = Nothing PROVE Bare(item.target)'
  <2>1. Bare(item.target) /\ item.target \in Paths /\ Guarded(item.target, runners, undoers)
    BY <1>2 DEF ItemKnows, Guarded, Items
  <2>2. QED BY <2>1 DEF NewsAreExcused, Bare, ExcusesStay
<1>3. QED BY <1>1, <1>2 DEF ItemKnows

\* The same for the items of every run and every manifest: a formula about the
\* items that there are now, and the files that there will be.
OldItemsKnow ==
  /\ \A j \in Flows : \A i \in DOMAIN run[j].items : \A item : item = run[j].items[i] => ItemKnows(j, item)'
  /\ \A m \in DOMAIN manifests : \A i \in DOMAIN manifests[m].items :
       \A j, item : j = manifests[m].flow /\ item = manifests[m].items[i] => ItemKnows(j, item)'

\* What is known of the items that there are stays true.
LEMMA OldItemsStay ==
  ASSUME TypesInv, NoLoops, FilesInv, [Next]_vars
  PROVE  OldItemsKnow
<1>1. SafeStays /\ ExcusesStay
  BY SafeStep, ExcusesStep
<1>2. PICK runners, undoers : NewsAreExcused(runners, undoers)
  BY NewsStep
<1>3. ASSUME NEW j \in Flows, NEW i \in DOMAIN run[j].items, NEW item, item = run[j].items[i]
      PROVE  ItemKnows(j, item)'
  <2>1. item \in Items /\ IsItemOf(j, item) /\ ItemKnows(j, item)
    BY <1>3 DEF TypesInv, RunTypes, IsRunOf, Runs, FilesInv, ItemsKnow
  <2>2. item.status # "ignored" /\ item.hash = Nothing => Unhashed(item.target)
    BY <1>3 DEF Unhashed
  <2>3. QED BY <1>1, <1>2, <2>1, <2>2, ItemStays
<1>4. ASSUME NEW m \in DOMAIN manifests, NEW i \in DOMAIN manifests[m].items, NEW j, NEW item,
             j = manifests[m].flow, item = manifests[m].items[i]
      PROVE  ItemKnows(j, item)'
  <2>1. item \in Items /\ j \in Flows
    BY <1>4, ManifestIs DEF TypesInv, Manifests
  <2>2. IsItemOf(j, item) /\ ItemKnows(j, item)
    BY <1>4 DEF TypesInv, ManifestTypes, FilesInv, ItemsKnow
  <2>3. item.status # "ignored" /\ item.hash = Nothing => Unhashed(item.target)
    BY <1>4 DEF Unhashed
  <2>4. QED BY <1>1, <1>2, <2>1, <2>2, <2>3, ItemStays
<1>5. QED BY <1>3, <1>4 DEF OldItemsKnow

\* A new item is known too: its hash is what the run has just found at the target.
LEMMA ItemsKnowStep ==
  ASSUME TypesInv, NoLoops, FilesInv, [Next]_vars
  PROVE  ItemsKnow'
<1>1. OldItemsKnow /\ SafeStays
  BY OldItemsStay, SafeStep
<1>2. ASSUME NEW j \in Flows, NEW i \in DOMAIN run'[j].items, NEW item, item = run'[j].items[i]
      PROVE  ItemKnows(j, item)'
  <2>1. CASE \E k \in DOMAIN run[j].items : item = run[j].items[k]
    BY <1>1, <2>1 DEF OldItemsKnow
  <2>2. CASE item.status = "ignored"
    BY <2>2 DEF ItemKnows
  <2>3. CASE RunHash(j) /\ item = Recorded(j, run[j].outcome, fs[run[j].target])
    <3>1. PICK target : target = run[j].target
      OBVIOUS
    <3>2. /\ item.status = run[j].outcome /\ item.hash = fs[target] /\ item.target = target
          /\ At(j, "hash") /\ RunKnows(j) /\ IsRunOf(j, run[j]) /\ UNCHANGED <<fs, unguarded>>
      BY <2>3, <3>1 DEF Recorded, RunHash, FilesInv, TypesInv, RunTypes, ghosts
    <3>3. item.status = "copied" => Safe(item.hash, Feeds[j])'
      <4>1. item.status = "copied" => Safe(item.hash, Feeds[j]) /\ NoWayOut(Feeds[j])
        BY <3>1, <3>2, ClosedAre DEF RunKnows, IsRunOf, IsMode, At, There
      <4>2. QED BY <1>1, <4>1 DEF SafeStays
    <3>4. item.hash = Nothing => Bare(item.target)'
      BY <3>2 DEF Bare
    <3>5. QED BY <3>3, <3>4 DEF ItemKnows
  <2>4. QED BY <1>2, <2>1, <2>2, <2>3, ItemsStep
<1>3. ASSUME NEW m \in DOMAIN manifests', NEW i \in DOMAIN manifests'[m].items, NEW j, NEW item,
             j = manifests'[m].flow, item = manifests'[m].items[i]
      PROVE  ItemKnows(j, item)'
  <2>1. CASE m \in DOMAIN manifests
    <3>1. manifests'[m].flow = manifests[m].flow /\ manifests'[m].items = manifests[m].items
      BY <2>1, ManifestsStep DEF ManifestsStay
    <3>2. QED BY <1>1, <1>3, <2>1, <3>1 DEF OldItemsKnow
  <2>2. CASE m \notin DOMAIN manifests
    <3>1. j \in Flows /\ manifests'[m].items = run[j].items
      BY <1>3, <2>2, ManifestsStep
    <3>2. QED BY <1>1, <1>3, <3>1 DEF OldItemsKnow
  <2>3. QED BY <2>1, <2>2
<1>4. QED BY <1>2, <1>3 DEF ItemsKnow

\* Nobody changes a flow's options meanwhile.
LEMMA ConfigStays == [Next]_vars => UNCHANGED config
<1> SUFFICES ASSUME [Next]_vars PROVE UNCHANGED config
  OBVIOUS
<1>1. ASSUME NEW k \in Flows, RunStart(k) \/ RunStep(k) PROVE UNCHANGED config
  BY <1>1 DEF RunStep, RunStart, RunNext, RunCancelled, RunLoopDone, RunSum, RunTransfer, RunVerify, RunCompare,
     RunConfirm, RunDiscard, RunFileError, RunRemoveSource, RunHash, RunAudit, RunEnd, RunFails
<1>2. ASSUME NEW k \in Flows, UndoStart(k) \/ UndoStep(k) PROVE UNCHANGED config
  BY <1>2 DEF UndoStart, UndoStep, UndoCheck, UndoAct, UndoMark, UndoFails
<1>3. QED BY <1>1, <1>2 DEF Next, UserWrite, UserDelete, Crash, vars

\* What a run has found at its target is still so when it acts on it.
LEMMA RunKnowsStep ==
  ASSUME TypesInv, TypesInv', NoLoops, FilesInv, [Next]_vars, NEW j \in Flows
  PROVE  RunKnows(j)'
<1>1. SafeStays /\ ExcusesStay /\ RunKnows(j)
  BY SafeStep, ExcusesStep DEF FilesInv
<1>2. PICK runners, undoers : NewsAreExcused(runners, undoers) /\ (j \notin runners => RunTransfer(j))
  BY NewsStep
<1>3. run \in [Flows -> Runs] /\ IsRunOf(j, run[j]) /\ run'[j] \in Runs /\ UNCHANGED config
  BY ConfigStays DEF TypesInv, RunTypes
<1>4. CASE RunTransfer(j)
  <2>0. PICK from, to : from = run[j].source /\ to = run[j].target
    OBVIOUS
  <2>1. /\ run'[j].at \notin {"sum", "transfer", "discard"} /\ run'[j].target = to /\ from \in SourcesOf(j)
        /\ run'[j].at = "compare" => run'[j].outcome = "moved"
        /\ run'[j].at = "confirm" \/ (run'[j].at = "hash" /\ run'[j].outcome = "copied") => fs'[to] = fs[from]
    BY <1>4, <2>0, TransferIs
  <2>2. ASSUME NEW dirs, NoWayOut(dirs), j \in dirs, fs'[to] = fs[from] PROVE Safe(fs[to], dirs)'
    <3>1. from \in Paths /\ from[1] \in dirs
      BY <2>1, <2>2, DirsAre
    <3>2. \A k \in Flows : RunKnows(k) /\ ~(run[k].at = "remove" /\ run[k].source = from)
      BY <1>4, <2>1, SourceIs DEF FilesInv, RunTransfer, At
    <3>3. PICK c : c = fs[from]
      OBVIOUS
    <3>4. Safe(c, dirs)
      BY <2>2, <3>1, <3>2, <3>3, SafeThere
    <3>5. Safe(c, dirs)'
      BY <1>1, <2>2, <3>4 DEF SafeStays
    <3>6. QED BY <2>2, <3>3, <3>5
  <2>3. ASSUME run'[j].at = "hash", run'[j].outcome = "copied" PROVE Safe(fs[to], Feeds[j])'
    <3>1. NoWayOut(Feeds[j]) /\ j \in Feeds[j]
      BY <1>3, <2>3, ClosedAre, FeedsFeed DEF TypesInv, RunTypes, IsRunOf, IsMode, There, Feeding
    <3>2. QED BY <2>1, <2>2, <2>3, <3>1
  <2>4. \A dirs : NoWayOut(dirs)' => NoWayOut(dirs)
    BY <1>3 DEF NoWayOut
  <2>5. QED BY <2>1, <2>2, <2>3, <2>4 DEF RunKnows, At
<1>5. CASE run'[j] = run[j] /\ ~RunTransfer(j)
  <2>0. PICK to : to = run[j].target
    OBVIOUS
  <2>1. ASSUME run[j].at \in {"sum", "transfer", "confirm", "discard", "hash"}
        PROVE  to \in Paths /\ fs'[to] \in {fs[to], Nothing} \cup unguarded'
    <3>1. j \in runners /\ to \in Paths
      BY <1>2, <1>3, <1>5, <2>0, <2>1, DirsAre DEF IsRunOf, Busy
    <3>2. Guarded(to, runners, undoers)
      BY <2>0, <2>1, <3>1 DEF Guarded, InRun
    <3>3. QED BY <1>2, <3>1, <3>2 DEF NewsAreExcused
  <2>2. run[j].at \in {"sum", "transfer"} /\ Bare(to) => Bare(to)'
    BY <1>1, <2>1 DEF Bare, ExcusesStay
  <2>3. ASSUME run[j].at \in {"confirm", "discard", "hash"}, NEW dirs, NoWayOut(dirs), Safe(fs[to], dirs)
        PROVE  Safe(fs[to], dirs)'
    <3>1. PICK c : c = fs[to]
      OBVIOUS
    <3>2. Safe(c, dirs)'
      BY <1>1, <2>3, <3>1 DEF SafeStays
    <3>3. CASE fs'[to] = c
      BY <3>2, <3>3
    <3>4. CASE fs'[to] \in {Nothing} \cup unguarded'
      BY <3>4 DEF Safe, Excused
    <3>5. QED BY <2>1, <2>3, <3>1, <3>3, <3>4
  <2>4. run[j].at \in There /\ run[j].outcome = "copied" => NoWayOut(Feeds[j])
    BY <1>3, ClosedAre DEF IsRunOf, IsMode
  <2>5. ASSUME run[j].at = "compare", run[j].outcome = "copied" PROVE Safe(run[j].sum, Feeds[j])'
    <3>1. PICK c : c = run[j].sum
      OBVIOUS
    <3>2. Safe(c, Feeds[j])'
      BY <1>1, <2>4, <2>5, <3>1 DEF RunKnows, At, SafeStays, There
    <3>3. QED BY <1>5, <3>1, <3>2
  <2>6. \A dirs : NoWayOut(dirs)' => NoWayOut(dirs)
    BY <1>3 DEF NoWayOut
  <2>7. QED BY <1>1, <1>3, <1>5, <2>0, <2>2, <2>3, <2>4, <2>5, <2>6 DEF RunKnows, At, There
<1>6. CASE RunNext(j)
  <2>1. PICK r : /\ RunBecomes(j, r)
                 /\ r.at \in {"audit", "sum", "transfer"}
                 /\ config[j].conflict # "overwrite" /\ r.at \in {"sum", "transfer"} => ~Exists(r.target)
    BY <1>6, RunNextIs
  <2>2. run'[j] = r /\ UNCHANGED fs
    BY <1>3, <1>6, <2>1 DEF RunBecomes, RunNext
  <2>3. QED BY <1>3, <2>1, <2>2 DEF RunKnows, At, Bare, Exists
<1>7. CASE \/ run'[j].at \notin {"sum", "transfer", "compare", "confirm", "discard", "hash"}
           \/ run'[j].outcome = "moved" /\ run'[j].at = "hash"
  BY <1>7 DEF RunKnows, At
<1>8. CASE RunRemoveSource(j)
  <2>1. RunTo(j, "hash", "moved") \/ RunTo(j, "audit", "failed")
    BY <1>8 DEF RunRemoveSource
  <2>2. QED BY <1>3, <1>7, <2>1 DEF RunTo, Runs
<1>9. CASE RunStart(j) \/ RunCancelled(j) \/ RunLoopDone(j) \/ RunHash(j) \/ RunAudit(j) \/ RunDiscard(j)
  <2>1. PICK r : RunBecomes(j, r) /\ r.at \in {"next", "end", "audit"}
    BY <1>9, RunStartIs, RunGoesOn, RunHashIs, RunDiscardIs
  <2>2. run'[j] = r
    BY <1>3, <2>1 DEF RunBecomes
  <2>3. QED BY <1>7, <2>1, <2>2
<1>10. CASE RunEnd(j) \/ RunFails(j) \/ Crash
  <2>1. run'[j] = NotRunning
    BY <1>3, <1>10 DEF RunEnd, RunFails, Crash
  <2>2. QED BY <1>7, <2>1, NotRunningIs
<1>11. ASSUME NEW k \in Flows, RunStart(k) \/ RunStep(k) PROVE j = k \/ run'[j] = run[j]
  <2>1. PICK r : RunBecomes(k, r)
    BY <1>11, RunStepIs
  <2>2. QED BY <1>3, <2>1 DEF RunBecomes
<1>12. ASSUME NEW k \in Flows, UndoStart(k) \/ UndoStep(k) PROVE run'[j] = run[j]
  BY <1>12 DEF UndoStart, UndoStep, UndoCheck, UndoAct, UndoMark, UndoFails
<1>13. ASSUME NEW q \in Paths, UserWrite(q) \/ UserDelete(q) PROVE run'[j] = run[j]
  BY <1>13 DEF UserWrite, UserDelete
<1>14. run'[j] = run[j] \/ RunStart(j) \/ RunStep(j) \/ Crash
  BY <1>11, <1>12, <1>13 DEF Next, vars
<1>15. CASE RunChecks(j)
  <2>1. PICK r : /\ RunBecomes(j, r) /\ r.target = run[j].target /\ CheckLeads(j, r)
    BY <1>15, RunChecksIs
  <2>2. run'[j] = r /\ UNCHANGED fs
    BY <1>3, <1>15, <2>1, RunChecksIs DEF RunBecomes
  <2>3. PICK from, to : from = run[j].source /\ to = run[j].target
    OBVIOUS
  <2>4. \A c, dirs : NoWayOut(dirs) /\ Safe(c, dirs) => Safe(c, dirs)'
    BY <1>1 DEF SafeStays
  <2>5. CASE RunSum(j) /\ r.at = "transfer"
    <3>1. run[j].at = "sum"
      BY <2>5 DEF RunSum, At
    <3>2. Bare(to) => Bare(to)'
      BY <1>1, <2>2 DEF Bare, ExcusesStay
    <3>3. QED BY <1>1, <1>3, <2>1, <2>2, <2>3, <2>5, <3>1, <3>2 DEF RunKnows, At
  <2>6. CASE RunVerify(j) /\ r.at = "compare" /\ r.sum = fs[from] /\ r.outcome = run[j].outcome
    <3>1. run[j].at = "verify" /\ from \in SourcesOf(j)
      BY <1>3, <2>3, <2>6 DEF RunVerify, At, IsRunOf, Busy
    <3>2. ASSUME run[j].outcome = "copied" PROVE Safe(r.sum, Feeds[j]) /\ NoWayOut(Feeds[j])
      <4>1. NoWayOut(Feeds[j]) /\ j \in Feeds[j]
        BY <1>3, <3>1, <3>2, ClosedAre, FeedsFeed DEF IsRunOf, IsMode, There, Feeding
      <4>2. from \in Paths /\ from[1] = j
        BY <3>1, DirsAre
      <4>3. \A k \in Flows : RunKnows(k) /\ ~(run[k].at = "remove" /\ run[k].source = from)
        BY <3>1, SourceIs DEF FilesInv
      <4>4. QED BY <2>6, <4>1, <4>2, <4>3, SafeThere
    <3>3. run[j].outcome = "copied" => Safe(r.sum, Feeds[j])'
      <4>1. PICK c : c = r.sum
        OBVIOUS
      <4>2. run[j].outcome = "copied" => Safe(c, Feeds[j])'
        BY <2>4, <3>2, <4>1
      <4>3. QED BY <2>2, <4>1, <4>2
    <3>4. QED BY <2>2, <2>6, <3>3 DEF RunKnows, At
  <2>7. CASE RunCompare(j) /\ r.at = "hash" /\ fs[to] = run[j].sum /\ r.outcome = run[j].outcome
    <3>1. run[j].at = "compare"
      BY <2>7 DEF RunCompare, At
    <3>2. run[j].outcome = "copied" => Safe(fs[to], Feeds[j]) /\ NoWayOut(Feeds[j])
      BY <1>1, <1>3, <2>7, <3>1, ClosedAre DEF RunKnows, At, IsRunOf, IsMode, There
    <3>3. run[j].outcome = "copied" => Safe(fs[to], Feeds[j])'
      <4>1. PICK c : c = fs[to]
        OBVIOUS
      <4>2. run[j].outcome = "copied" => Safe(c, Feeds[j])'
        BY <2>4, <3>2, <4>1
      <4>3. QED BY <2>2, <4>1, <4>2
    <3>4. QED BY <2>1, <2>2, <2>3, <2>7, <3>3 DEF RunKnows, At
  <2>8. CASE RunConfirm(j) /\ r.at = "discard"
    <3>1. run[j].at = "confirm"
      BY <2>8 DEF RunConfirm, At
    <3>2. ASSUME NEW dirs, NoWayOut(dirs)', j \in dirs PROVE Safe(fs[to], dirs)'
      <4>1. NoWayOut(dirs) /\ Safe(fs[to], dirs)
        BY <1>1, <1>3, <2>3, <3>1, <3>2 DEF RunKnows, NoWayOut
      <4>2. PICK c : c = fs[to]
        OBVIOUS
      <4>3. Safe(c, dirs)'
        BY <2>4, <4>1, <4>2
      <4>4. QED BY <2>2, <4>2, <4>3
    <3>3. QED BY <2>1, <2>2, <2>3, <2>8, <3>2 DEF RunKnows, At
  <2>9. CASE r.at \in {"audit", "remove"}
    BY <1>7, <2>2, <2>9
  <2>10. QED BY <2>1, <2>3, <2>5, <2>6, <2>7, <2>8, <2>9 DEF CheckLeads
<1>16. QED BY <1>4, <1>5, <1>6, <1>8, <1>9, <1>10, <1>14, <1>15 DEF RunStep, RunChecks

\* What a rollback has checked is still so when it acts on it.
LEMMA UndoKnowsStep ==
  ASSUME TypesInv, NoLoops, FilesInv, [Next]_vars, NEW j \in Flows
  PROVE  UndoKnows(j)'
<1> SUFFICES ASSUME undo'[j].at = "act" PROVE UndoKnows(j)'
  BY DEF UndoKnows
<1>1. ExcusesStay /\ UndoKnows(j) /\ undo \in [Flows -> Undos]
  BY ExcusesStep DEF FilesInv, TypesInv, UndoTypes
<1>2. PICK runners, undoers : NewsAreExcused(runners, undoers) /\ (j \notin undoers => UndoAct(j))
  BY NewsStep
<1>3. CASE undo'[j] = undo[j] /\ ~UndoAct(j)
  <2>1. undo[j].at = "act" /\ undo[j].left > 0
    BY <1>3 DEF TypesInv, UndoTypes, IsUndoOf
  <2>2. PICK item : item = UndoItem(j)
    OBVIOUS
  <2>3. /\ item \in Items /\ item.source \in Paths /\ item.target \in Paths
        /\ undo[j].manifest \in DOMAIN manifests
    BY <2>1, <2>2, UndoItemIs DEF Items
  <2>4. UndoItem(j)' = item
    BY <1>3, <2>2, <2>3, ManifestsStep DEF UndoItem, ManifestsStay
  <2>5. j \in undoers
    BY <1>2, <1>3
  <2>6. \A p \in Paths : p = (IF item.status = "copied" THEN item.target ELSE item.source)
          => Guarded(p, runners, undoers)
    BY <2>1, <2>2, <2>5 DEF Guarded, InUndo, UndoItem
  <2>7. CASE item.status = "copied"
    <3>1. fs'[item.target] \in {fs[item.target], Nothing} \cup unguarded'
      BY <1>2, <2>3, <2>6, <2>7 DEF NewsAreExcused
    <3>2. Bare(item.target) \/ fs[item.target] = item.hash
      BY <1>1, <2>1, <2>2, <2>7 DEF UndoKnows
    <3>3. Bare(item.target)' \/ fs'[item.target] = item.hash
      BY <1>1, <3>1, <3>2 DEF Bare, ExcusesStay
    <3>4. QED BY <2>4, <2>7, <3>3 DEF UndoKnows
  <2>8. CASE item.status # "copied"
    <3>1. fs'[item.source] \in {fs[item.source], Nothing} \cup unguarded'
      BY <1>2, <2>3, <2>6, <2>8 DEF NewsAreExcused
    <3>2. Bare(item.source)
      BY <1>1, <2>1, <2>2, <2>8 DEF UndoKnows
    <3>3. Bare(item.source)'
      BY <1>1, <3>1, <3>2 DEF Bare, ExcusesStay
    <3>4. QED BY <2>4, <2>8, <3>3 DEF UndoKnows
  <2>9. QED BY <2>7, <2>8
<1>4. CASE UndoCheck(j)
  <2>1. PICK item : item = UndoItem(j)
    OBVIOUS
  <2>2. /\ Undoable(item) /\ UndoItem(j)' = item /\ UNCHANGED <<fs, manifests>>
    BY <1>4, <2>1, UndoStepTypes DEF UndoItem, UndoCheck
  <2>3. ItemKnows(j, item) /\ item.status \in {"copied", "moved"}
    <3>1. undo[j].at # "idle" /\ undo[j].left > 0
      BY <1>4 DEF UndoCheck
    <3>2. undo[j].manifest \in DOMAIN manifests /\ manifests[undo[j].manifest].flow = j
      BY <3>1 DEF TypesInv, UndoTypes, IsUndoOf
    <3>3. QED BY <2>1, <2>2, <3>1, <3>2, UndoItemIs DEF FilesInv, ItemsKnow, UndoItem, Undoable
  <2>4. CASE item.status = "copied"
    <3>1. Bare(item.target) \/ fs[item.target] = item.hash
      BY <2>2, <2>3, <2>4 DEF ItemKnows, Undoable
    <3>2. Bare(item.target)' \/ fs'[item.target] = item.hash
      BY <1>1, <2>2, <3>1 DEF Bare, ExcusesStay
    <3>3. QED BY <2>2, <2>4, <3>2 DEF UndoKnows
  <2>5. CASE item.status = "moved"
    <3>1. Bare(item.source)'
      BY <2>2, <2>5 DEF Bare, Undoable, Exists
    <3>2. QED BY <2>2, <2>5, <3>1 DEF UndoKnows
  <2>6. QED BY <2>3, <2>4, <2>5
<1>5. CASE UndoStart(j) \/ UndoAct(j) \/ UndoMark(j) \/ UndoFails(j) \/ Crash
  <2>1. UndoStart(j) => undo'[j].at = "check"
    BY <1>1 DEF UndoStart
  <2>2. UndoAct(j) => undo'[j].at = "check"
    BY <1>1 DEF UndoAct, Undos
  <2>3. UndoMark(j) \/ UndoFails(j) \/ Crash => undo'[j] = NotUndoing
    BY <1>1 DEF UndoMark, UndoFails, Crash
  <2>4. QED BY <1>5, <2>1, <2>2, <2>3, NotUndoingIs
<1>6. ASSUME NEW k \in Flows, UndoStart(k) \/ UndoStep(k) PROVE j = k \/ undo'[j] = undo[j]
  BY <1>6, UndoStepTypes DEF UndoStep
<1>7. ASSUME NEW k \in Flows, RunStart(k) \/ RunStep(k) PROVE undo'[j] = undo[j]
  BY <1>7 DEF RunStep, RunStart, RunNext, RunCancelled, RunLoopDone, RunSum, RunTransfer, RunVerify, RunCompare,
     RunConfirm, RunDiscard, RunFileError, RunRemoveSource, RunHash, RunAudit, RunEnd, RunFails
<1>8. ASSUME NEW q \in Paths, UserWrite(q) \/ UserDelete(q) PROVE undo'[j] = undo[j]
  BY <1>8 DEF UserWrite, UserDelete
<1>9. undo'[j] = undo[j] \/ UndoStart(j) \/ UndoStep(j) \/ Crash
  BY <1>6, <1>7, <1>8 DEF Next, vars
<1>10. QED BY <1>3, <1>4, <1>5, <1>9 DEF UndoStep

\* No step loses a content that a user wrote.
LEMMA KeptStep ==
  ASSUME TypesInv, NoLoops, FilesInv, [Next]_vars
  PROVE  Kept'
<1>1. SafeStays /\ Kept /\ NoWayOut(Dirs) /\ writes \in Nat
  BY SafeStep, ClosedAre DEF FilesInv, TypesInv, FsTypes
<1>2. ASSUME NEW c \in 1..writes PROVE Safe(c, Dirs)'
  BY <1>1 DEF SafeStays, Kept
<1>3. CASE UNCHANGED writes
  BY <1>2, <1>3 DEF Kept
<1>4. ASSUME NEW p \in Paths, UserWrite(p) PROVE Kept'
  <2>1. /\ writes' = writes + 1 /\ UNCHANGED run /\ fs'[p] = writes + 1 /\ p[1] \in Dirs
    BY <1>4, DirsAre DEF UserWrite, TypesInv, FsTypes
  <2>2. \A n : n = writes + 1 => Safe(n, Dirs)'
    <3>1. Leaving(p)' = Leaving(p)
      BY <2>1 DEF Leaving, Leaves
    <3>2. Leaving(p) => writes + 1 \in unguarded'
      BY <1>4 DEF UserWrite, Arrives, Leaving, Leaves, InRun
    <3>3. QED BY <2>1, <3>1, <3>2 DEF Safe, Excused
  <2>3. \A c \in 1..writes + 1 : c \in 1..writes \/ c = writes + 1
    BY <1>1
  <2>4. QED BY <1>2, <2>1, <2>2, <2>3 DEF Kept
<1>5. ASSUME NEW j \in Flows, RunStart(j) \/ RunStep(j) \/ UndoStart(j) \/ UndoStep(j) PROVE UNCHANGED writes
  BY <1>5 DEF RunStep, UndoStep, RunStart, RunNext, RunCancelled, RunLoopDone, RunSum, RunTransfer, RunVerify,
     RunCompare, RunConfirm, RunDiscard, RunFileError, RunRemoveSource, RunHash, RunAudit, RunEnd, RunFails, UndoStart, UndoCheck, UndoAct, UndoMark, UndoFails, bounds
<1>6. QED BY <1>3, <1>4, <1>5 DEF Next, UserDelete, Crash, vars, bounds

\* Every step keeps the invariant of the files.
LEMMA FilesStep ==
  ASSUME NoLoops
  PROVE  TypesInv /\ TypesInv' /\ FilesInv /\ [Next]_vars => FilesInv'
  BY KeptStep, ItemsKnowStep, RunKnowsStep, UndoKnowsStep DEF FilesInv

\* There are no files, runs or rollbacks at the start.
LEMMA InitFiles == Init => FilesInv
<1> SUFFICES ASSUME Init PROVE FilesInv
  OBVIOUS
<1>1. Kept
  BY DEF Init, Kept
<1>2. ItemsKnow
  <2>1. \A j \in Flows : run[j] = NotRunning
    BY DEF Init
  <2>2. \A j \in Flows : DOMAIN run[j].items = {}
    BY <2>1, NotRunningIs
  <2>3. DOMAIN manifests = {}
    BY DEF Init
  <2>4. QED BY <2>2, <2>3 DEF ItemsKnow
<1>3. ASSUME NEW j \in Flows PROVE RunKnows(j) /\ UndoKnows(j)
  BY NotRunningIs, NotUndoingIs DEF Init, RunKnows, UndoKnows, At
<1>4. QED BY <1>1, <1>2, <1>3 DEF FilesInv

\* The invariant of the files says that nothing is lost.
LEMMA FilesAreThere == FilesInv => NothingLost
<1> SUFFICES ASSUME FilesInv, NEW c \in 1..writes
             PROVE  (\E p \in Paths : fs[p] = c) \/ c \in discarded \cup replaced \cup unguarded
  BY DEF NothingLost
<1>1. Safe(c, Dirs)
  BY DEF FilesInv, Kept
<1>2. c # Nothing
  <2>1. c \in Int /\ c > 0
    OBVIOUS
  <2>2. QED BY <2>1 DEF Nothing
<1>3. QED BY <1>1, <1>2 DEF Safe, Excused

\* In every execution, if no flow feeds itself, no content that a user wrote disappears
\* from the file system through a run (process_file), a cancellation, a crash or a
\* rollback (rollback_job): users and the overwrite strategy aside, and contents that
\* arrive where a step has already looked.
THEOREM FilesAreKept ==
  ASSUME NoLoops
  PROVE  Spec => []NothingLost
  BY TypesAreKept, InitFiles, FilesStep, FilesAreThere, PTL DEF Spec

-----------------------------------------------------------------------------
(***************************************************************************)
(* A rollback puts everything back.                                        *)
(***************************************************************************)

\* Those of the first n items that the run transferred.
Real(items, n) == {i \in DOMAIN items : i <= n /\ items[i].status \in {"copied", "moved"}}

\* A transfer into a free name has made these files of old ones.
Did(item, old) ==
  /\ old[item.target] = Nothing /\ old[item.source] # Nothing
  /\ fs[item.target] = old[item.source] /\ item.hash = old[item.source]
  /\ fs[item.source] = IF item.status = "moved" THEN Nothing ELSE old[item.source]

\* The files are what the first n items have made of old ones.
Applied(items, n, old) ==
  /\ \A i \in Real(items, n) : Did(items[i], old)
  /\ \A i, k \in Real(items, n) :
       i # k => items[i].source # items[k].source /\ items[i].target # items[k].target
  /\ \A p \in Paths :
       (\A i \in Real(items, n) : p # items[i].source /\ p # items[i].target) => fs[p] = old[p]

\* Nobody else has changed files since j's latest run began, and every transfer
\* of j went to a free name of its device.
Alone(j) == config[j].conflict # "overwrite" /\ config[j].sameDevice /\ before[j] # NoSnapshot

\* There was a file at p, and no item has transferred it.
Untouched(items, old, p) ==
  /\ old[p] # Nothing
  /\ \A i \in Real(items, Len(items)) : items[i].source # p

\* The items with the one that the run is about to record.
Doing(j) ==
  IF run[j].at \in There THEN Append(run[j].items, Recorded(j, run[j].outcome, fs[run[j].target]))
                         ELSE run[j].items

RunOnTop(j) ==
  /\ run[j].at \notin {"confirm", "discard", "remove"}
  /\ \A f \in run[j].todo : Untouched(run[j].items, before[j], Source(j, f))
  /\ run[j].at \in Busy => \A f \in run[j].todo : run[j].source # Source(j, f)
  /\ run[j].at \in {"sum", "transfer"} =>
       /\ Untouched(run[j].items, before[j], run[j].source) /\ ~Exists(run[j].target)
       /\ \E f \in Files, n \in 0..MaxSuffix :
            run[j].source = Source(j, f) /\ run[j].target = Target(j, f, n)
  /\ Applied(Doing(j), Len(Doing(j)), before[j])

\* The newest of a flow's manifests that are not undone.
Newest(j, m) == m \in Pending(j) /\ \A other \in Pending(j) : other <= m

AloneKnows(j) ==
  Alone(j) =>
    /\ run[j].at # "idle" => undo[j].at = "idle" /\ RunOnTop(j)
    /\ undo[j].at # "idle" => Applied(manifests[undo[j].manifest].items, undo[j].left, before[j])
    /\ run[j].at = "idle" /\ undo[j].at = "idle" =>
         \E m \in DOMAIN manifests :
           Newest(j, m) /\ Applied(manifests[m].items, Len(manifests[m].items), before[j])

AloneInv ==
  /\ before \in [Flows -> [Paths -> Contents] \cup {NoSnapshot}]
  /\ \A j \in Flows : AloneKnows(j)

\* A list of items with one more.
IsMore(items, item, more) == items \in Seq(Items) /\ item \in Items /\ more = Append(items, item)

\* One item more, transferred or not.
LEMMA RealMore ==
  ASSUME NEW items, NEW item, NEW more, IsMore(items, item, more)
  PROVE  /\ Len(more) = Len(items) + 1 /\ more[Len(more)] = item
         /\ Len(more) \notin Real(items, Len(items))
         /\ \A i \in Real(items, Len(items)) : more[i] = items[i]
         /\ item.status \in {"copied", "moved"} =>
              Real(more, Len(more)) = Real(items, Len(items)) \cup {Len(more)}
         /\ item.status \notin {"copied", "moved"} => Real(more, Len(more)) = Real(items, Len(items))
<1> DEFINE n == Len(items)
<1>1. n \in Nat /\ DOMAIN items = 1..n /\ DOMAIN more = 1..n + 1 /\ Len(more) = n + 1 /\ more[n + 1] = item
  BY DEF IsMore
<1>2. \A i \in 1..n : more[i] = items[i]
  BY DEF IsMore
<1> HIDE DEF n
<1>3. Real(items, n) \subseteq 1..n /\ n + 1 \notin 1..n
  BY <1>1 DEF Real
<1>4. \A i \in 1..n + 1 : i \in 1..n \/ i = n + 1
  BY <1>1
<1>5. \A i : i \in Real(more, n + 1) <=>
        i \in Real(items, n) \/ (i = n + 1 /\ item.status \in {"copied", "moved"})
  <2>1. ASSUME NEW i \in 1..n PROVE i \in Real(more, n + 1) <=> i \in Real(items, n)
    BY <1>1, <1>2, <2>1 DEF Real
  <2>2. n + 1 \in Real(more, n + 1) <=> item.status \in {"copied", "moved"}
    BY <1>1 DEF Real
  <2>3. Real(more, n + 1) \subseteq 1..n + 1
    BY <1>1 DEF Real
  <2>4. QED BY <1>3, <1>4, <2>1, <2>2, <2>3
<1>6. item.status \in {"copied", "moved"} => Real(more, n + 1) = Real(items, n) \cup {n + 1}
  BY <1>5
<1>7. item.status \notin {"copied", "moved"} => Real(more, n + 1) = Real(items, n)
  BY <1>5
<1>8. QED BY <1>1, <1>2, <1>3, <1>6, <1>7 DEF n

\* An item less.
LEMMA RealLess ==
  ASSUME NEW items \in Seq(Items), NEW n \in DOMAIN items
  PROVE  /\ items[n].status \in {"copied", "moved"} =>
              n \in Real(items, n) /\ Real(items, n - 1) = Real(items, n) \ {n}
         /\ items[n].status \notin {"copied", "moved"} => Real(items, n - 1) = Real(items, n)
<1>1. n \in Nat /\ \A i \in DOMAIN items : i \in Nat
  OBVIOUS
<1>2. \A i \in Nat : i <= n - 1 <=> (i <= n /\ i # n)
  BY <1>1
<1>3. n <= n
  BY <1>1
<1>4. \A i : i \in Real(items, n - 1) <=> i \in Real(items, n) /\ i # n
  BY <1>1, <1>2 DEF Real
<1>5. n \in Real(items, n) <=> items[n].status \in {"copied", "moved"}
  BY <1>3 DEF Real
<1>6. QED BY <1>4, <1>5

\* Files that nobody touches stay as they are.
LEMMA AppliedStays ==
  ASSUME UNCHANGED fs, NEW items, NEW n, NEW old, Applied(items, n, old)
  PROVE  Applied(items, n, old)'
  BY DEF Applied, Did

\* Positions with the same transfers before them have had the same done.
LEMMA AppliedSame ==
  ASSUME NEW items, NEW n, NEW m, NEW old, Real(items, m) = Real(items, n), Applied(items, n, old)
  PROVE  Applied(items, m, old)
<1> DEFINE real == Real(items, n)
<1>1. /\ \A i \in real : Did(items[i], old)
      /\ \A i, k \in real :
           i # k => items[i].source # items[k].source /\ items[i].target # items[k].target
      /\ \A p \in Paths :
           (\A i \in real : p # items[i].source /\ p # items[i].target) => fs[p] = old[p]
  BY Zenon DEF Applied
<1>2. real = Real(items, m)
  OBVIOUS
<1> HIDE DEF real
<1>3. QED BY <1>1, <1>2, Zenon DEF Applied

\* An item that was ignored changes nothing.
LEMMA AppliedIgnored ==
  ASSUME NEW items \in Seq(Items), NEW item \in Items, item.status = "ignored", NEW old,
         Applied(items, Len(items), old)
  PROVE  Applied(Append(items, item), Len(Append(items, item)), old)
<1> DEFINE more == Append(items, item)
<1>1. Real(more, Len(more)) = Real(items, Len(items)) /\ \A i \in Real(items, Len(items)) : more[i] = items[i]
  <2>1. item.status \notin {"copied", "moved"}
    OBVIOUS
  <2>2. IsMore(items, item, more)
    BY DEF IsMore
  <2> HIDE DEF more
  <2>3. QED BY <2>1, <2>2, RealMore
<1> HIDE DEF more
<1>2. Applied(more, Len(more), old)
  BY <1>1 DEF Applied
<1>3. QED BY <1>2 DEF more

\* Where items transfer from is not where they transfer to.
LEMMA AppliedApart ==
  ASSUME NEW items, NEW n, NEW old, Applied(items, n, old), NEW i \in Real(items, n), NEW k \in Real(items, n)
  PROVE  items[i].source # items[k].target
  BY DEF Applied, Did

\* A transfer to a free name, of a file that is as it was.
LEMMA AppliedMore ==
  ASSUME NEW items \in Seq(Items), NEW item \in Items, item.status \in {"copied", "moved"},
         NEW old, Applied(items, Len(items), old), fs \in [Paths -> Contents],
         old[item.source] # Nothing, fs[item.target] = Nothing,
         \A i \in Real(items, Len(items)) : items[i].source # item.source /\ items[i].source # item.target,
         item.hash = fs[item.source], fs'[item.target] = fs[item.source],
         fs'[item.source] = IF item.status = "moved" THEN Nothing ELSE fs[item.source],
         \A p \in Paths \ {item.source, item.target} : fs'[p] = fs[p]
  PROVE  Applied(Append(items, item), Len(Append(items, item)), old)'
<1> DEFINE more == Append(items, item)
           last == Len(more)
           done == Real(items, Len(items))
<1>1. /\ more[last] = item /\ last \notin done /\ \A i \in done : more[i] = items[i]
      /\ Real(more, last) = done \cup {last}
  <2>1. IsMore(items, item, more)
    BY DEF IsMore
  <2> HIDE DEF more
  <2>2. QED BY <2>1, RealMore
<1>2. /\ item.source \in Paths /\ item.target \in Paths
      /\ \A i \in done : items[i].source \in Paths /\ items[i].target \in Paths
  <2>1. \A i \in DOMAIN items : items[i] \in Items
    OBVIOUS
  <2>2. QED BY <2>1 DEF Items, Real
<1> HIDE DEF more, last, done
<1>3. /\ \A i \in done : Did(items[i], old)
      /\ \A i, k \in done : i # k => items[i].source # items[k].source /\ items[i].target # items[k].target
      /\ \A p \in Paths : (\A i \in done : p # items[i].source /\ p # items[i].target) => fs[p] = old[p]
  BY DEF Applied, done
<1>4. \A i \in done : items[i].target # item.source /\ items[i].target # item.target
  BY <1>3 DEF Did
<1>5. fs[item.source] = old[item.source] /\ old[item.target] = Nothing
  BY <1>2, <1>3, <1>4 DEF done
<1>6. \A i \in done : Did(items[i], old)'
  BY <1>2, <1>3, <1>4 DEF Did, done
<1>7. Did(item, old)'
  BY <1>5 DEF Did
<1>8. \A i \in done \cup {last} : Did(more[i], old)'
  BY <1>1, <1>6, <1>7
<1>9. \A i, k \in done \cup {last} : i # k => more[i].source # more[k].source /\ more[i].target # more[k].target
  BY <1>1, <1>3, <1>4 DEF done
<1>10. ASSUME NEW p \in Paths, \A i \in done \cup {last} : p # more[i].source /\ p # more[i].target
       PROVE  fs'[p] = old[p]
  BY <1>1, <1>3, <1>10
<1>11. QED BY <1>1, <1>8, <1>9, <1>10 DEF Applied, more, last

\* A rollback of the last item that was transferred.
LEMMA AppliedLess ==
  ASSUME NEW items \in Seq(Items), NEW n \in DOMAIN items, items[n].status \in {"copied", "moved"},
         NEW old, Applied(items, n, old), fs \in [Paths -> Contents],
         fs'[items[n].target] = Nothing, fs'[items[n].source] = fs[items[n].target],
         \A p \in Paths \ {items[n].source, items[n].target} : fs'[p] = fs[p]
  PROVE  Applied(items, n - 1, old)'
<1> DEFINE item == items[n]
           rest == Real(items, n) \ {n}
<1>1. n \in Real(items, n) /\ Real(items, n - 1) = rest
  BY RealLess
<1>2. \A i \in Real(items, n) : items[i].source \in Paths /\ items[i].target \in Paths
  <2>1. \A i \in DOMAIN items : items[i] \in Items
    OBVIOUS
  <2>2. QED BY <2>1 DEF Items, Real
<1>3. Did(item, old) /\ \A i \in rest : Did(items[i], old)
  BY <1>1 DEF Applied
<1>4. \A i \in rest : /\ items[i].source # item.source /\ items[i].target # item.target
                      /\ items[i].source # item.target /\ items[i].target # item.source
  BY <1>1, AppliedApart DEF Applied
<1>5. \A p \in Paths : (\A i \in rest : p # items[i].source /\ p # items[i].target)
                         /\ p # item.source /\ p # item.target => fs[p] = old[p]
  BY <1>1 DEF Applied
<1>6. \A i, k \in rest : i # k => items[i].source # items[k].source /\ items[i].target # items[k].target
  BY DEF Applied
<1> HIDE DEF item, rest
<1>7. \A i \in rest : Did(items[i], old)'
  <2>1. rest \subseteq Real(items, n)
    BY DEF rest
  <2>2. \A i \in rest : fs'[items[i].source] = fs[items[i].source] /\ fs'[items[i].target] = fs[items[i].target]
    BY <1>2, <1>4, <2>1 DEF item
  <2>3. QED BY <1>3, <2>2 DEF Did
<1>8. fs'[item.source] = old[item.source] /\ fs'[item.target] = old[item.target]
  BY <1>3 DEF Did, item
<1>9. ASSUME NEW p \in Paths, \A i \in rest : p # items[i].source /\ p # items[i].target PROVE fs'[p] = old[p]
  BY <1>5, <1>8, <1>9 DEF item
<1>10. QED BY <1>1, <1>6, <1>7, <1>9 DEF Applied

-----------------------------------------------------------------------------
(***************************************************************************)
(* Steps of the other flows, and of nobody.                                *)
(***************************************************************************)

\* Nothing that j knows of has changed.
LEMMA AloneStays ==
  ASSUME TypesInv, NEW j \in Flows, AloneKnows(j), UNCHANGED <<fs, config>>,
         before'[j] = before[j], run'[j] = run[j], undo'[j] = undo[j],
         ManifestsStay, Pending(j)' = Pending(j)
  PROVE  AloneKnows(j)'
<1> SUFFICES ASSUME Alone(j)' PROVE AloneKnows(j)'
  BY DEF AloneKnows
<1>1. Alone(j)
  BY DEF Alone
<1>2. Doing(j)' = Doing(j)
  BY DEF Doing, There, At, Recorded
<1>3. RunOnTop(j) => RunOnTop(j)'
  <2>1. PICK doing : doing = Doing(j)
    OBVIOUS
  <2>2. Applied(doing, Len(doing), before[j]) => Applied(doing, Len(doing), before[j])'
    BY DEF Applied, Did
  <2>3. QED BY <1>2, <2>1, <2>2 DEF RunOnTop, There, Busy, Exists
<1>4. undo[j].at # "idle" => undo[j].manifest \in DOMAIN manifests
  BY DEF TypesInv, UndoTypes, IsUndoOf
<1>5. ASSUME NEW m \in DOMAIN manifests, NEW items, items = manifests[m].items, NEW n, NEW old,
             Applied(items, n, old)
      PROVE  Applied(items, n, old)' /\ manifests'[m].items = items
  BY <1>5, AppliedStays DEF ManifestsStay
<1>6. undo[j].at # "idle" => Applied(manifests[undo[j].manifest].items, undo[j].left, before[j])'
  <2>1. PICK m, n, old, items : m = undo[j].manifest /\ n = undo[j].left /\ old = before[j] /\ items = manifests[m].items
    OBVIOUS
  <2>2. undo[j].at # "idle" => Applied(items, n, old)' /\ manifests'[m].items = items
    BY <1>1, <1>4, <1>5, <2>1 DEF AloneKnows
  <2>3. QED BY <2>1, <2>2
<1>7. ASSUME run[j].at = "idle", undo[j].at = "idle"
      PROVE  \E m \in DOMAIN manifests' :
               Newest(j, m)' /\ Applied(manifests[m].items, Len(manifests[m].items), before[j])'
  <2>1. PICK m \in DOMAIN manifests : Newest(j, m) /\ Applied(manifests[m].items, Len(manifests[m].items), before[j])
    BY <1>1, <1>7 DEF AloneKnows
  <2>2. PICK old, items : old = before[j] /\ items = manifests[m].items
    OBVIOUS
  <2>3. Applied(items, Len(items), old)' /\ manifests'[m].items = items
    BY <1>5, <2>1, <2>2
  <2>4. Newest(j, m)' /\ m \in DOMAIN manifests'
    BY <2>1 DEF Newest, ManifestsStay
  <2>5. QED BY <2>2, <2>3, <2>4
<1>8. QED BY <1>1, <1>3, <1>6, <1>7 DEF AloneKnows

\* A step of another flow either leaves the files alone, or j is not alone.
LEMMA AloneOthers ==
  ASSUME TypesInv, AloneInv, [Next]_vars, NEW j \in Flows,
         ~RunStart(j), ~RunStep(j), ~UndoStart(j), ~UndoStep(j)
  PROVE  AloneKnows(j)'
<1>1. /\ before \in [Flows -> Snapshots] /\ AloneKnows(j) /\ UNCHANGED config
      /\ manifests \in Seq(Manifests) /\ ManifestsStay
  BY ConfigStays, ManifestsStep DEF AloneInv, Snapshots, TypesInv, ManifestTypes
<1>2. CASE before'[j] = NoSnapshot
  BY <1>2 DEF AloneKnows, Alone
<1>3. ASSUME NEW k \in Flows \ {j}, Disturb(k) PROVE before'[j] = NoSnapshot
  BY <1>3 DEF Disturb, Disturbed
<1>4. ASSUME NEW k \in Flows \ {j}, RunStart(k) \/ RunStep(k), ~RunTransfer(k), ~RunDiscard(k), ~RunRemoveSource(k)
      PROVE  before'[j] = NoSnapshot \/ AloneKnows(j)'
  <2>1. run'[j] = run[j]
    <3>1. PICK r : RunBecomes(k, r)
      BY <1>4, RunStepIs
    <3>2. QED BY <3>1 DEF RunBecomes, TypesInv, RunTypes
  <2>2. UNCHANGED <<fs, undo>> /\ before'[j] = before[j]
    BY <1>1, <1>4 DEF RunStart, RunStep, RunNext, RunCancelled, RunLoopDone, RunSum, RunVerify, RunCompare,
       RunConfirm, RunFileError, RunHash, RunAudit, RunEnd, RunFails, ghosts
  <2>3. Pending(j)' = Pending(j)
    <3>1. CASE RunEnd(k)
      <4>1. /\ DOMAIN manifests \subseteq DOMAIN manifests'
            /\ \A m \in DOMAIN manifests' \ DOMAIN manifests : manifests'[m].flow # j
            /\ \A m \in DOMAIN manifests : manifests'[m] = manifests[m]
        <5>1. \/ manifests' = manifests
              \/ \E new : manifests' = Append(manifests, new)
          BY <3>1 DEF RunEnd
        <5>2. \A m \in DOMAIN manifests : manifests'[m] = manifests[m]
          BY <1>1, <5>1
        <5>3. QED BY <1>1, <3>1, <5>2, RunEndManifests DEF ManifestsStay
      <4>2. QED BY <4>1 DEF Pending
    <3>2. CASE ~RunEnd(k)
      <4>1. UNCHANGED manifests
        BY <1>4, <3>2 DEF RunStart, RunStep, RunNext, RunCancelled, RunLoopDone, RunSum, RunVerify, RunCompare,
           RunConfirm, RunFileError, RunHash, RunAudit, RunFails
      <4>2. QED BY <4>1 DEF Pending
    <3>3. QED BY <3>1, <3>2
  <2>4. QED BY <1>1, <2>1, <2>2, <2>3, AloneStays
<1>5. ASSUME NEW k \in Flows \ {j}, UndoStart(k) \/ UndoStep(k), ~UndoAct(k)
      PROVE  before'[j] = NoSnapshot \/ AloneKnows(j)'
  <2>1. undo'[j] = undo[j]
    BY <1>5, UndoStepTypes DEF UndoStep
  <2>2. UNCHANGED <<fs, run>> /\ before'[j] = before[j]
    BY <1>1, <1>5 DEF UndoStart, UndoStep, UndoCheck, UndoMark, UndoFails, ghosts
  <2>3. Pending(j)' = Pending(j)
    <3>1. CASE UndoMark(k)
      <4>1. /\ undo[k].manifest \in DOMAIN manifests /\ manifests[undo[k].manifest].flow # j
        BY <3>1 DEF UndoMark, TypesInv, UndoTypes, IsUndoOf
      <4>2. /\ DOMAIN manifests' = DOMAIN manifests
            /\ \A m \in DOMAIN manifests \ {undo[k].manifest} : manifests'[m] = manifests[m]
            /\ manifests'[undo[k].manifest].flow # j
        BY <1>1, <3>1, <4>1, UndoMarkManifests DEF UndoMark, ManifestsStay
      <4>3. QED BY <4>1, <4>2 DEF Pending
    <3>2. CASE ~UndoMark(k)
      <4>1. UNCHANGED manifests
        BY <1>5, <3>2 DEF UndoStart, UndoStep, UndoCheck, UndoFails
      <4>2. QED BY <4>1 DEF Pending
    <3>3. QED BY <3>1, <3>2
  <2>4. QED BY <1>1, <2>1, <2>2, <2>3, AloneStays
<1>6. CASE UNCHANGED vars
  <2>1. UNCHANGED <<fs, run, undo, before, manifests>>
    BY <1>6 DEF vars, ghosts
  <2>2. QED BY <1>1, <2>1, AloneStays DEF Pending
<1>7. ASSUME (\E q \in Paths : UserWrite(q) \/ UserDelete(q)) \/ Crash PROVE before'[j] = NoSnapshot
  BY <1>7 DEF UserWrite, UserDelete, Crash, Disturbed
<1>8. ASSUME NEW k \in Flows \ {j}, RunTransfer(k) \/ RunDiscard(k) \/ RunRemoveSource(k) \/ UndoAct(k)
      PROVE  before'[j] = NoSnapshot
  BY <1>3, <1>8 DEF RunTransfer, RunDiscard, RunRemoveSource, UndoAct
<1>9. ASSUME NEW k \in Flows, RunStart(k) \/ RunStep(k) \/ UndoStart(k) \/ UndoStep(k) PROVE k \in Flows \ {j}
  BY <1>9
<1>10. QED BY <1>2, <1>4, <1>5, <1>6, <1>7, <1>8, <1>9 DEF Next

-----------------------------------------------------------------------------
(***************************************************************************)
(* Steps of the flow's own run and rollback.                               *)
(***************************************************************************)

\* An item that was ignored touches nothing.
LEMMA UntouchedIgnored ==
  ASSUME NEW items \in Seq(Items), NEW item \in Items, item.status = "ignored", NEW old, NEW p,
         Untouched(items, old, p)
  PROVE  Untouched(Append(items, item), old, p)
<1> DEFINE more == Append(items, item)
<1>1. Real(more, Len(more)) = Real(items, Len(items)) /\ \A i \in Real(items, Len(items)) : more[i] = items[i]
  <2>1. item.status \notin {"copied", "moved"}
    OBVIOUS
  <2>2. IsMore(items, item, more)
    BY DEF IsMore
  <2> HIDE DEF more
  <2>3. QED BY <2>1, <2>2, RealMore
<1> HIDE DEF more
<1>2. Untouched(more, old, p)
  BY <1>1 DEF Untouched
<1>3. QED BY <1>2 DEF more

\* A run begins on top of the files that it finds.
LEMMA AloneRunStart ==
  ASSUME TypesInv, AloneInv, NEW j \in Flows, RunStart(j)
  PROVE  AloneKnows(j)'
<1> SUFFICES ASSUME Alone(j)' PROVE AloneKnows(j)'
  BY DEF AloneKnows
<1>1. fs \in [Paths -> Contents] /\ before \in [Flows -> Snapshots] /\ run \in [Flows -> Runs]
  BY DEF TypesInv, FsTypes, RunTypes, AloneInv, Snapshots
<1>2. before'[j] = fs /\ undo[j].at = "idle" /\ UNCHANGED <<fs, undo>>
  BY <1>1 DEF RunStart, Alone
<1>3. /\ run'[j].at = "next" /\ run'[j].items = <<>>
      /\ \A f \in run'[j].todo : fs[Source(j, f)] # Nothing
  <2>1. run'[j] = [NotRunning EXCEPT !.at = "next", !.number = runs + 1,
                                     !.todo = {f \in Files : Exists(Source(j, f))}]
    BY <1>1 DEF RunStart
  <2>2. QED BY <2>1 DEF NotRunning, Exists
<1>4. \A n : Real(<<>>, n) = {}
  BY DEF Real
<1>5. RunOnTop(j)'
  <2>1. Doing(j)' = <<>>
    BY <1>3 DEF Doing, There, At
  <2>2. Applied(<<>>, Len(<<>>), fs)
    BY <1>4 DEF Applied
  <2>3. \A p : fs[p] # Nothing => Untouched(<<>>, fs, p)
    BY <1>4 DEF Untouched
  <2>4. PICK old : old = fs
    OBVIOUS
  <2>5. Applied(<<>>, Len(<<>>), old)'
    BY <1>2, <2>2, <2>4, AppliedStays
  <2>6. QED BY <1>2, <1>3, <2>1, <2>3, <2>4, <2>5 DEF RunOnTop, There, Busy
<1>6. QED BY <1>2, <1>3, <1>5 DEF AloneKnows

\* What a run of j that is not at its start knows, for constant names.
LEMMA AloneRunIs ==
  ASSUME TypesInv, AloneInv, NEW j \in Flows, Alone(j)', UNCHANGED config, before'[j] = before[j],
         run[j].at # "idle"
  PROVE  Alone(j) /\ RunOnTop(j) /\ undo[j].at = "idle" /\ before[j] \in [Paths -> Contents]
<1>1. Alone(j)
  BY DEF Alone
<1>2. QED BY <1>1 DEF AloneInv, AloneKnows, Alone

\* The choice of a target changes nothing, and finds the target free.
LEMMA AloneRunNext ==
  ASSUME TypesInv, AloneInv, NEW j \in Flows, RunNext(j)
  PROVE  AloneKnows(j)'
<1> SUFFICES ASSUME Alone(j)' PROVE AloneKnows(j)'
  BY DEF AloneKnows
<1>1. UNCHANGED <<fs, config, undo, before>> /\ run[j].at = "next"
  BY DEF RunNext, ghosts, At
<1>2. Alone(j) /\ RunOnTop(j) /\ undo[j].at = "idle"
  BY <1>1, AloneRunIs
<1>3. PICK r : /\ RunBecomes(j, r) /\ r.at \in {"audit", "sum", "transfer"}
               /\ \/ r.items = run[j].items
                  \/ \E item \in Items : item.status = "ignored" /\ r.items = Append(run[j].items, item)
               /\ \E f \in run[j].todo, n \in 0..MaxSuffix :
                    r.todo = run[j].todo \ {f} /\ r.source = Source(j, f) /\ r.target = Target(j, f, n)
               /\ config[j].conflict # "overwrite" /\ r.at \in {"sum", "transfer"} => ~Exists(r.target)
  BY RunNextIs
<1>4. run'[j] = r /\ run[j].items \in Seq(Items) /\ run[j].todo \subseteq Files
  BY <1>3 DEF RunBecomes, TypesInv, RunTypes, Runs
<1>5. PICK items, old : items = run[j].items /\ old = before[j]
  OBVIOUS
<1>6. Applied(items, Len(items), old) /\ \A f \in run[j].todo : Untouched(items, old, Source(j, f))
  BY <1>1, <1>2, <1>5 DEF RunOnTop, Doing, There, Busy
<1>7. Applied(r.items, Len(r.items), old) /\ \A f \in run[j].todo : Untouched(r.items, old, Source(j, f))
  <2>1. CASE r.items = items
    BY <1>6, <2>1
  <2>2. CASE \E item \in Items : item.status = "ignored" /\ r.items = Append(items, item)
    <3>1. PICK item \in Items : item.status = "ignored" /\ r.items = Append(items, item)
      BY <2>2
    <3>2. items \in Seq(Items)
      BY <1>4, <1>5
    <3>3. Applied(Append(items, item), Len(Append(items, item)), old)
      BY <1>6, <3>1, <3>2, AppliedIgnored
    <3>4. \A f \in run[j].todo : Untouched(Append(items, item), old, Source(j, f))
      BY <1>6, <3>1, <3>2, UntouchedIgnored
    <3>5. QED BY <3>1, <3>3, <3>4
  <2>3. QED BY <1>3, <1>5, <2>1, <2>2
<1>8. Applied(r.items, Len(r.items), old)'
  BY <1>1, <1>7, AppliedStays
<1>9. Doing(j)' = r.items
  BY <1>3, <1>4 DEF Doing, There, At
<1>10. PICK f \in run[j].todo, n \in 0..MaxSuffix :
         r.todo = run[j].todo \ {f} /\ r.source = Source(j, f) /\ r.target = Target(j, f, n)
  BY <1>3
<1>11. f \in Files /\ Untouched(r.items, old, r.source) /\ \A g \in r.todo : r.source # Source(j, g)
  BY <1>4, <1>7, <1>10 DEF Source
<1>12. r.at \in {"sum", "transfer"} => ~Exists(r.target)'
  BY <1>1, <1>2, <1>3 DEF Alone, Exists
<1>13. RunOnTop(j)'
  <2>1. run'[j].at \notin {"confirm", "discard", "remove"} /\ before'[j] = old
    BY <1>1, <1>3, <1>4, <1>5
  <2>2. \A g \in r.todo : Untouched(r.items, old, Source(j, g))
    BY <1>7, <1>10
  <2>3. Applied(Doing(j), Len(Doing(j)), before[j])'
    BY <1>8, <1>9, <2>1
  <2>4. QED BY <1>4, <1>10, <1>11, <1>12, <2>1, <2>2, <2>3 DEF RunOnTop, There, Busy
<1>14. QED BY <1>1, <1>2, <1>3, <1>4, <1>13 DEF AloneKnows

\* The end of a file's processing, or of the loop, changes nothing.
LEMMA AloneRunGoesOn ==
  ASSUME TypesInv, AloneInv, NEW j \in Flows, RunCancelled(j) \/ RunLoopDone(j) \/ RunAudit(j)
  PROVE  AloneKnows(j)'
<1> SUFFICES ASSUME Alone(j)' PROVE AloneKnows(j)'
  BY DEF AloneKnows
<1>1. UNCHANGED <<fs, config, undo, before>> /\ run[j].at \in {"next", "audit"}
  BY DEF RunCancelled, RunLoopDone, RunAudit, ghosts, At
<1>2. Alone(j) /\ RunOnTop(j) /\ undo[j].at = "idle"
  BY <1>1, AloneRunIs
<1>3. PICK r : /\ RunBecomes(j, r) /\ r.at \in {"next", "end"} /\ r.items = run[j].items
               /\ r.todo \subseteq run[j].todo
  BY RunGoesOn
<1>4. run'[j] = r
  BY <1>3 DEF RunBecomes, TypesInv, RunTypes
<1>5. PICK items, old : items = run[j].items /\ old = before[j]
  OBVIOUS
<1>6. Applied(items, Len(items), old) /\ \A f \in run[j].todo : Untouched(items, old, Source(j, f))
  BY <1>1, <1>2, <1>5 DEF RunOnTop, Doing, There, Busy
<1>7. Applied(items, Len(items), old)' /\ Doing(j)' = items
  BY <1>1, <1>3, <1>4, <1>5, <1>6, AppliedStays DEF Doing, There, At
<1>8. RunOnTop(j)'
  BY <1>1, <1>3, <1>4, <1>5, <1>6, <1>7 DEF RunOnTop, There, Busy
<1>9. QED BY <1>1, <1>2, <1>3, <1>4, <1>8 DEF AloneKnows

\* While nobody else changes files, what is verified is as it was transferred.
LEMMA AloneRunChecks ==
  ASSUME TypesInv, QuietInv, AloneInv, NEW j \in Flows, RunChecks(j)
  PROVE  AloneKnows(j)'
<1> SUFFICES ASSUME Alone(j)' PROVE AloneKnows(j)'
  BY DEF AloneKnows
<1>1. /\ UNCHANGED <<fs, config, undo, before>> /\ run[j].at \in {"sum", "verify", "compare", "confirm"}
      /\ ~RunFileError(j)
  <2>1. ~RunFileError(j)
    BY DEF RunFileError, Alone, AloneInv
  <2>2. UNCHANGED before
    BY <2>1 DEF RunChecks, RunSum, RunVerify, RunCompare, RunConfirm, ghosts
  <2>3. run[j].at \in {"sum", "verify", "compare", "confirm"}
    BY <2>1 DEF RunChecks, RunSum, RunVerify, RunCompare, RunConfirm, At
  <2>4. QED BY <2>1, <2>2, <2>3, RunChecksIs
<1>2. Alone(j) /\ RunOnTop(j) /\ undo[j].at = "idle"
  BY <1>1, AloneRunIs
<1>3. Quiet(j) /\ before[j] # NoSnapshot /\ run[j].at \in {"sum", "verify", "compare"}
  BY <1>1, <1>2 DEF QuietInv, Alone, RunOnTop
<1>4. PICK r : /\ RunBecomes(j, r) /\ r.items = run[j].items /\ r.source = run[j].source
               /\ r.target = run[j].target /\ r.todo = run[j].todo /\ CheckLeads(j, r)
  BY RunChecksIs
<1>5. run'[j] = r
  BY <1>4 DEF RunBecomes, TypesInv, RunTypes
<1>6. \/ run[j].at = "sum" /\ r.at \in {"transfer", "audit"}
      \/ run[j].at \in There /\ r.at \in There /\ r.outcome = run[j].outcome
  <2>1. CASE RunSum(j)
    BY <1>4, <2>1 DEF CheckLeads, RunSum, RunVerify, RunCompare, RunConfirm, At
  <2>2. CASE RunVerify(j)
    <3>1. run[j].at = "verify" /\ Exists(run[j].source)
      BY <1>3, <2>2 DEF RunVerify, Quiet, At
    <3>2. r.at = "compare"
      BY <1>5, <2>2, <3>1 DEF RunVerify, RunReads, TypesInv, RunTypes, Runs
    <3>3. QED BY <1>4, <3>1, <3>2 DEF CheckLeads, There
  <2>3. CASE RunCompare(j)
    <3>1. run[j].at = "compare" /\ fs[run[j].target] = run[j].sum
      BY <1>3, <2>3 DEF RunCompare, Quiet, At
    <3>2. r.at = "hash"
      BY <1>5, <2>3, <3>1 DEF RunCompare, RunTo, TypesInv, RunTypes, Runs
    <3>3. QED BY <1>4, <3>1, <3>2 DEF CheckLeads, There
  <2>4. CASE RunConfirm(j)
    BY <1>3, <2>4 DEF RunConfirm, At
  <2>5. QED BY <1>1, <2>1, <2>2, <2>3, <2>4 DEF RunChecks
<1>7. PICK items, old, doing : items = run[j].items /\ old = before[j] /\ doing = Doing(j)
  OBVIOUS
<1>8. Doing(j)' = doing
  BY <1>1, <1>4, <1>5, <1>6, <1>7 DEF Doing, Recorded, There
<1>9. Applied(doing, Len(doing), old)'
  BY <1>1, <1>2, <1>7, AppliedStays DEF RunOnTop
<1>10. RunOnTop(j)'
  <2>1. run'[j].at \notin {"confirm", "discard", "remove"} /\ before'[j] = old
    BY <1>1, <1>5, <1>6, <1>7 DEF There
  <2>2. \A f \in run'[j].todo : Untouched(run'[j].items, old, Source(j, f)) /\ run'[j].source # Source(j, f)
    BY <1>2, <1>3, <1>4, <1>5, <1>7 DEF RunOnTop, Busy
  <2>3. run'[j].at \in {"sum", "transfer"} =>
          /\ Untouched(run'[j].items, old, run'[j].source) /\ fs[run'[j].target] = Nothing
          /\ \E f \in Files, n \in 0..MaxSuffix :
               run'[j].source = Source(j, f) /\ run'[j].target = Target(j, f, n)
    BY <1>2, <1>4, <1>5, <1>6, <1>7 DEF RunOnTop, There, Exists
  <2>4. QED BY <1>1, <1>8, <1>9, <2>1, <2>2, <2>3 DEF RunOnTop, Exists
<1>11. QED BY <1>1, <1>2, <1>5, <1>6, <1>10 DEF AloneKnows, There

\* The item recorded is the transfer that the run has just made.
LEMMA AloneRunHash ==
  ASSUME TypesInv, AloneInv, NEW j \in Flows, RunHash(j)
  PROVE  AloneKnows(j)'
<1> SUFFICES ASSUME Alone(j)' PROVE AloneKnows(j)'
  BY DEF AloneKnows
<1>1. UNCHANGED <<fs, config, undo, before>> /\ run[j].at = "hash"
  BY DEF RunHash, ghosts, At
<1>2. Alone(j) /\ RunOnTop(j) /\ undo[j].at = "idle"
  BY <1>1, AloneRunIs
<1>3. PICK items, old, item : /\ items = run[j].items /\ old = before[j]
                              /\ item = Recorded(j, run[j].outcome, fs[run[j].target])
  OBVIOUS
<1>4. run[j].items \in Seq(Items) /\ item \in Items /\ item.source = run[j].source /\ item.status \in {"copied", "moved"}
  BY <1>3, RunHashIs DEF TypesInv, RunTypes, Runs, Recorded
<1>5. run'[j].at = "audit" /\ run'[j].items = Append(items, item) /\ run'[j].todo = run[j].todo
  BY <1>3 DEF RunHash, TypesInv, RunTypes, Runs
<1>6. Applied(Append(items, item), Len(Append(items, item)), old)
  BY <1>1, <1>2, <1>3 DEF RunOnTop, Doing, There, Busy
<1>7. Applied(Append(items, item), Len(Append(items, item)), old)'
  BY <1>1, <1>6, AppliedStays
<1>8. ASSUME NEW f \in run[j].todo PROVE Untouched(Append(items, item), old, Source(j, f))
  <2> DEFINE more == Append(items, item)
  <2>1. Untouched(items, old, Source(j, f)) /\ item.source # Source(j, f)
    BY <1>1, <1>2, <1>3, <1>4, <1>8 DEF RunOnTop, Busy
  <2>2. /\ Real(more, Len(more)) = Real(items, Len(items)) \cup {Len(more)} /\ more[Len(more)] = item
        /\ \A i \in Real(items, Len(items)) : more[i] = items[i]
    <3>1. items \in Seq(Items)
      BY <1>3, <1>4
    <3>2. IsMore(items, item, more)
      BY <1>4, <3>1 DEF IsMore
    <3> HIDE DEF more
    <3>3. QED BY <1>4, <3>2, RealMore
  <2> HIDE DEF more
  <2>3. Untouched(more, old, Source(j, f))
    BY <2>1, <2>2 DEF Untouched
  <2>4. QED BY <2>3 DEF more
<1>9. Doing(j)' = Append(items, item) /\ before'[j] = old
  BY <1>1, <1>3, <1>5 DEF Doing, There, At
<1>10. RunOnTop(j)'
  BY <1>5, <1>7, <1>8, <1>9 DEF RunOnTop, There, Busy
<1>11. QED BY <1>1, <1>2, <1>5, <1>10 DEF AloneKnows

\* A transfer is one more item on top of the files.
LEMMA AloneRunTransfer ==
  ASSUME TypesInv, AloneInv, NEW j \in Flows, RunTransfer(j)
  PROVE  AloneKnows(j)'
<1> SUFFICES ASSUME Alone(j)' PROVE AloneKnows(j)'
  BY DEF AloneKnows
<1>1. UNCHANGED <<config, undo>> /\ before'[j] = before[j] /\ run[j].at = "transfer"
  BY DEF RunTransfer, Disturb, Disturbed, At
<1>2. Alone(j) /\ RunOnTop(j) /\ undo[j].at = "idle" /\ before[j] \in [Paths -> Contents]
  BY <1>1, AloneRunIs
<1>3. /\ run[j] \in Runs /\ run \in [Flows -> Runs] /\ IsRunOf(j, run[j]) /\ config[j].mode \in {"copy", "move"}
      /\ fs \in [Paths -> Contents]
  BY ConfigsAssumption DEF TypesInv, RunTypes, FsTypes
<1>4. PICK items, old, from, to, todo :
        items = run[j].items /\ old = before[j] /\ from = run[j].source /\ to = run[j].target /\ todo = run[j].todo
  OBVIOUS
<1>5. /\ items \in Seq(Items) /\ from \in Paths /\ to \in Paths
      /\ \A i \in DOMAIN items : items[i] \in Items /\ IsItemOf(j, items[i])
  <2>1. items \in Seq(Items) /\ \A i \in DOMAIN items : IsItemOf(j, items[i])
    BY <1>3, <1>4 DEF Runs, IsRunOf
  <2>2. from \in Paths /\ to \in Paths
    BY <1>1, <1>3, <1>4, PathsAre DEF IsRunOf, Busy
  <2>3. QED BY <2>1, <2>2
<1>6. /\ Untouched(items, old, from) /\ Applied(items, Len(items), old) /\ fs[to] = Nothing
      /\ \E f \in Files, n \in 0..MaxSuffix : from = Source(j, f) /\ to = Target(j, f, n)
      /\ \A f \in todo : Untouched(items, old, Source(j, f)) /\ from # Source(j, f)
  BY <1>1, <1>2, <1>4 DEF RunOnTop, Doing, There, Busy, Exists
<1>7. fs[from] = old[from] /\ fs[from] # Nothing /\ from # to
  <2>1. \A i \in Real(items, Len(items)) : from # items[i].source /\ from # items[i].target
    BY <1>6 DEF Untouched, Applied, Did
  <2>2. fs[from] = old[from]
    BY <1>5, <1>6, <2>1 DEF Applied
  <2>3. QED BY <1>6, <2>2 DEF Untouched
<1>8. \A i \in Real(items, Len(items)) : items[i].source # from /\ items[i].source # to
  <2>1. ASSUME NEW i \in Real(items, Len(items)), items[i].source = to PROVE FALSE
    <3>1. PICK f \in Files, n \in 0..MaxSuffix : from = Source(j, f) /\ to = Target(j, f, n)
      BY <1>6
    <3>2. PICK g \in Files : items[i].source = <<j, g, 0>>
      BY <1>5 DEF IsItemOf, SourcesOf, Real
    <3>3. g = f
      BY <2>1, <3>1, <3>2 DEF Target
    <3>4. items[i].source = from
      BY <3>1, <3>2, <3>3 DEF Source
    <3>5. QED BY <1>6, <3>4 DEF Untouched
  <2>2. QED BY <1>6, <2>1 DEF Untouched
<1>9. PICK status \in {"copied", "moved"}, at \in There :
        /\ RunTo(j, at, status)
        /\ fs' = IF status = "copied" THEN [fs EXCEPT ![to] = fs[from]]
                 ELSE [[fs EXCEPT ![to] = fs[from]] EXCEPT ![from] = Nothing]
  <2>1. ~(config[j].mode = "move" /\ config[j].conflict = "overwrite") /\ config[j].sameDevice /\ Exists(from)
    BY <1>2, <1>7 DEF Alone, Exists
  <2>2. CASE config[j].mode = "copy"
    BY <1>4, <2>1, <2>2 DEF RunTransfer, There
  <2>3. CASE config[j].mode = "move"
    BY <1>4, <2>1, <2>3 DEF RunTransfer, There
  <2>4. QED BY <1>3, <2>2, <2>3
<1>10. /\ fs'[to] = fs[from] /\ fs'[from] = (IF status = "moved" THEN Nothing ELSE fs[from])
       /\ \A p \in Paths \ {from, to} : fs'[p] = fs[p]
  BY <1>3, <1>5, <1>7, <1>9
<1>11. /\ run'[j].at \in There /\ run'[j].items = items /\ run'[j].todo = todo /\ run'[j].outcome = status
       /\ run'[j].source = from /\ run'[j].target = to
  BY <1>3, <1>4, <1>9 DEF RunTo, Runs
<1>12. PICK item : item = [source |-> from, target |-> to, status |-> status, hash |-> fs[from]]
  OBVIOUS
<1>13. item \in Items
  BY <1>3, <1>5, <1>12 DEF Items, Statuses
<1>14. Doing(j)' = Append(items, item)
  BY <1>10, <1>11, <1>12 DEF Doing, There, At, Recorded
<1>15. Applied(Append(items, item), Len(Append(items, item)), old)'
  <2>1. /\ item.source = from /\ item.target = to /\ item.status = status /\ item.hash = fs[from]
        /\ item.status \in {"copied", "moved"}
    BY <1>12
  <2>2. old[item.source] # Nothing /\ fs[item.target] = Nothing
    BY <1>6, <2>1 DEF Untouched
  <2>3. QED BY <1>3, <1>5, <1>6, <1>8, <1>10, <1>13, <2>1, <2>2, AppliedMore
<1>16. RunOnTop(j)'
  BY <1>1, <1>4, <1>6, <1>11, <1>14, <1>15 DEF RunOnTop, There, Busy
<1>17. QED BY <1>1, <1>2, <1>11, <1>16 DEF AloneKnows, There

\* The run's items become the newest manifest.
LEMMA AloneRunEnd ==
  ASSUME TypesInv, AloneInv, NEW j \in Flows, RunEnd(j)
  PROVE  AloneKnows(j)'
<1> SUFFICES ASSUME Alone(j)' PROVE AloneKnows(j)'
  BY DEF AloneKnows
<1>1. /\ UNCHANGED <<fs, config, undo>> /\ run[j].at = "end" /\ run'[j].at = "idle"
      /\ before \in [Flows -> Snapshots] /\ manifests \in Seq(Manifests) /\ run \in [Flows -> Runs]
  BY DEF RunEnd, At, NotRunning, TypesInv, RunTypes, ManifestTypes, AloneInv, Snapshots
<1>2. run[j].items # <<>> /\ before'[j] = before[j]
  BY <1>1 DEF RunEnd, Alone
<1>3. Alone(j) /\ RunOnTop(j) /\ undo[j].at = "idle"
  BY <1>1, <1>2, AloneRunIs
<1>4. PICK items, old, m : items = run[j].items /\ old = before[j] /\ m = Len(manifests) + 1
  OBVIOUS
<1>5. /\ \A k \in DOMAIN manifests : manifests'[k] = manifests[k]
      /\ DOMAIN manifests' = DOMAIN manifests \cup {m} /\ \A k \in DOMAIN manifests' : k <= m
      /\ manifests'[m].flow = j /\ manifests'[m].items = items /\ manifests'[m].undone = FALSE
  <2> DEFINE new == [flow |-> j, run |-> run[j].number, items |-> run[j].items, undone |-> FALSE]
  <2>1. manifests' = Append(manifests, new)
    BY <1>2 DEF RunEnd
  <2>2. new.flow = j /\ new.items = items /\ new.undone = FALSE
    BY <1>4
  <2> HIDE DEF new
  <2>3. QED BY <1>1, <1>4, <2>1, <2>2
<1>6. Newest(j, m)'
  BY <1>5 DEF Newest, Pending
<1>7. Applied(items, Len(items), old)'
  <2>1. Applied(items, Len(items), old)
    BY <1>1, <1>3, <1>4 DEF RunOnTop, Doing, There, Busy
  <2>2. QED BY <1>1, <2>1, AppliedStays
<1>8. QED BY <1>1, <1>2, <1>3, <1>4, <1>5, <1>6, <1>7 DEF AloneKnows

\* A rollback begins with the manifest of the latest run.
LEMMA AloneUndoStart ==
  ASSUME TypesInv, AloneInv, NEW j \in Flows, UndoStart(j)
  PROVE  AloneKnows(j)'
<1> SUFFICES ASSUME Alone(j)' PROVE AloneKnows(j)'
  BY DEF AloneKnows
<1>1. /\ UNCHANGED <<fs, config, run, manifests>> /\ undo[j].at = "idle"
      /\ before \in [Flows -> Snapshots] /\ undo \in [Flows -> Undos]
  BY DEF UndoStart, AloneInv, Snapshots, TypesInv, UndoTypes
<1>2. run[j].at = "idle" /\ before'[j] = before[j]
  BY <1>1 DEF UndoStart, Alone, At
<1>3. Alone(j)
  BY <1>1, <1>2 DEF Alone
<1>4. PICK m \in DOMAIN manifests :
        Newest(j, m) /\ Applied(manifests[m].items, Len(manifests[m].items), before[j])
  BY <1>1, <1>2, <1>3 DEF AloneInv, AloneKnows
<1>5. PICK k \in Pending(j) : /\ \A other \in Pending(j) : other <= k
                              /\ undo' = [undo EXCEPT ![j] = [at |-> "check", manifest |-> k,
                                                             left |-> Len(manifests[k].items)]]
  BY DEF UndoStart
<1>6. k = m
  <2>1. m \in Nat /\ k \in Nat /\ m <= k /\ k <= m
    BY <1>4, <1>5 DEF Newest, Pending, TypesInv, ManifestTypes
  <2>2. QED BY <2>1
<1>7. /\ undo'[j].at = "check" /\ undo'[j].manifest = m /\ undo'[j].left = Len(manifests[m].items)
  BY <1>1, <1>5, <1>6
<1>8. PICK items, old, n : items = manifests[m].items /\ old = before[j] /\ n = Len(items)
  OBVIOUS
<1>9. Applied(items, n, old)'
  BY <1>1, <1>4, <1>8, AppliedStays
<1>10. QED BY <1>1, <1>2, <1>7, <1>8, <1>9 DEF AloneKnows

\* What a rollback of j in progress knows, and what the next step keeps.
LEMMA AloneUndoIs ==
  ASSUME TypesInv, AloneInv, NEW j \in Flows, Alone(j)', UNCHANGED <<config, run, manifests>>, before'[j] = before[j],
         undo[j].at # "idle", undo[j].left > 0,
         undo'[j].at # "idle", undo'[j].manifest = undo[j].manifest
  PROVE  \E items, n, old :
           /\ items \in Seq(Items) /\ n \in DOMAIN items
           /\ n = undo[j].left /\ items = manifests[undo[j].manifest].items /\ UndoItem(j) = items[n]
           /\ Applied(items, n, old)
           /\ \A k : undo'[j].left = k /\ Applied(items, k, old)' => AloneKnows(j)'
<1>1. Alone(j)
  BY DEF Alone
<1>2. run[j].at = "idle" /\ Applied(manifests[undo[j].manifest].items, undo[j].left, before[j])
  BY <1>1 DEF AloneInv, AloneKnows
<1>3. PICK items, n, old : n = undo[j].left /\ items = manifests[undo[j].manifest].items /\ old = before[j]
  OBVIOUS
<1>4. items \in Seq(Items) /\ n \in DOMAIN items /\ UndoItem(j) = items[n]
  BY <1>3, UndoItemIs, ManifestIs DEF TypesInv, UndoItem
<1>5. ASSUME NEW k, undo'[j].left = k, Applied(items, k, old)' PROVE AloneKnows(j)'
  BY <1>2, <1>3, <1>5 DEF AloneKnows
<1>6. QED BY <1>2, <1>3, <1>4, <1>5

\* A rollback skips only what the run ignored.
LEMMA AloneUndoCheck ==
  ASSUME TypesInv, AloneInv, NEW j \in Flows, UndoCheck(j)
  PROVE  AloneKnows(j)'
<1> SUFFICES ASSUME Alone(j)' PROVE AloneKnows(j)'
  BY DEF AloneKnows
<1>1. /\ UNCHANGED <<fs, config, run, manifests, before>> /\ undo[j].at = "check" /\ undo[j].left > 0
      /\ undo[j] \in Undos /\ undo \in [Flows -> Undos]
  BY DEF UndoCheck, ghosts, TypesInv, UndoTypes
<1>2. \/ Undoable(UndoItem(j)) /\ undo'[j].left = undo[j].left /\ undo'[j].at = "act"
         /\ undo'[j].manifest = undo[j].manifest
      \/ ~Undoable(UndoItem(j)) /\ undo'[j].left = undo[j].left - 1 /\ undo'[j].at = "check"
         /\ undo'[j].manifest = undo[j].manifest
  BY <1>1 DEF UndoCheck, Undos
<1>3. PICK items, n, old :
           /\ items \in Seq(Items) /\ n \in DOMAIN items
           /\ n = undo[j].left /\ items = manifests[undo[j].manifest].items /\ UndoItem(j) = items[n]
           /\ Applied(items, n, old)
           /\ \A k : undo'[j].left = k /\ Applied(items, k, old)' => AloneKnows(j)'
  BY <1>1, <1>2, AloneUndoIs
<1>4. CASE Undoable(UndoItem(j))
  BY <1>1, <1>2, <1>3, <1>4, AppliedStays
<1>5. CASE ~Undoable(UndoItem(j))
  <2>1. items[n].status \notin {"copied", "moved"}
    <3>1. n \in Real(items, n) => Did(items[n], old)
      BY <1>3 DEF Applied
    <3>2. QED BY <1>3, <1>5, <3>1, RealLess DEF Did, Undoable, Exists
  <2>2. Real(items, n - 1) = Real(items, n)
    BY <1>3, <2>1, RealLess
  <2>3. Applied(items, n - 1, old)
    BY <1>3, <2>2, AppliedSame
  <2>4. QED BY <1>1, <1>2, <1>3, <1>5, <2>3, AppliedStays
<1>6. QED BY <1>4, <1>5

\* A rollback takes the last transfer back.
LEMMA AloneUndoAct ==
  ASSUME TypesInv, AloneInv, NEW j \in Flows, UndoAct(j)
  PROVE  AloneKnows(j)'
<1> SUFFICES ASSUME Alone(j)' PROVE AloneKnows(j)'
  BY DEF AloneKnows
<1>1. /\ UNCHANGED <<config, run, manifests>> /\ before'[j] = before[j]
      /\ undo[j].at = "act" /\ undo[j].left > 0 /\ undo[j] \in Undos /\ undo \in [Flows -> Undos]
      /\ UndoItem(j).status \in {"copied", "moved"} /\ fs \in [Paths -> Contents]
  BY DEF UndoAct, Disturb, Disturbed, TypesInv, UndoTypes, IsUndoOf, UndoItem, FsTypes
<1>2. undo'[j].at = "check" /\ undo'[j].left = undo[j].left - 1 /\ undo'[j].manifest = undo[j].manifest
  BY <1>1 DEF UndoAct, Undos
<1>3. PICK items, n, old :
           /\ items \in Seq(Items) /\ n \in DOMAIN items
           /\ n = undo[j].left /\ items = manifests[undo[j].manifest].items /\ UndoItem(j) = items[n]
           /\ Applied(items, n, old)
           /\ \A k : undo'[j].left = k /\ Applied(items, k, old)' => AloneKnows(j)'
  BY <1>1, <1>2, AloneUndoIs
<1>4. PICK from, to, status : from = items[n].source /\ to = items[n].target /\ status = items[n].status
  OBVIOUS
<1>5. /\ status \in {"copied", "moved"} /\ Did(items[n], old) /\ from \in Paths /\ to \in Paths
  <2>1. items[n] \in Items
    BY <1>3
  <2>2. n \in Real(items, n)
    BY <1>1, <1>3, RealLess
  <2>3. QED BY <1>1, <1>3, <1>4, <2>1, <2>2 DEF Applied, Items
<1>6. /\ old[to] = Nothing /\ old[from] # Nothing /\ fs[to] = old[from] /\ from # to
      /\ fs[from] = IF status = "moved" THEN Nothing ELSE old[from]
  BY <1>4, <1>5 DEF Did
<1>7. config[j].sameDevice /\ Exists(to)
  BY <1>1, <1>6 DEF Alone, Exists
<1>8. fs' = IF status = "copied" THEN [fs EXCEPT ![to] = Nothing]
            ELSE [fs EXCEPT ![from] = fs[to], ![to] = Nothing]
  BY <1>3, <1>4, <1>7 DEF UndoAct
<1>9. /\ fs'[to] = Nothing /\ fs'[from] = fs[to] /\ \A p \in Paths \ {from, to} : fs'[p] = fs[p]
  BY <1>1, <1>5, <1>6, <1>8
<1>10. Applied(items, n - 1, old)'
  BY <1>1, <1>3, <1>4, <1>5, <1>9, AppliedLess
<1>11. QED BY <1>2, <1>3, <1>10

\* Every step keeps what flows know that are alone.
LEMMA AloneStep == TypesInv /\ QuietInv /\ AloneInv /\ [Next]_vars => AloneInv'
<1> SUFFICES ASSUME TypesInv, QuietInv, AloneInv, [Next]_vars PROVE AloneInv'
  OBVIOUS
<1>1. before \in [Flows -> Snapshots] /\ before' \in [Flows -> Snapshots]
  BY BeforeStep DEF AloneInv, Snapshots
<1>2. ASSUME NEW j \in Flows PROVE AloneKnows(j)'
  <2>1. CASE RunFails(j) \/ UndoMark(j) \/ UndoFails(j)
    <3>1. before'[j] = NoSnapshot
      BY <1>1, <2>1 DEF RunFails, UndoMark, UndoFails
    <3>2. QED BY <3>1 DEF AloneKnows, Alone
  <2>2. CASE RunRemoveSource(j) \/ RunDiscard(j)
    <3>1. run[j].at \in {"discard", "remove"} /\ UNCHANGED config /\ before'[j] = before[j]
      BY <2>2 DEF RunRemoveSource, RunDiscard, Disturb, Disturbed, At
    <3>2. ~Alone(j)'
      BY <3>1, AloneRunIs DEF RunOnTop
    <3>3. QED BY <3>2 DEF AloneKnows
  <2>3. CASE ~RunStart(j) /\ ~RunStep(j) /\ ~UndoStart(j) /\ ~UndoStep(j)
    BY <2>3, AloneOthers
  <2>4. QED BY <2>1, <2>2, <2>3, AloneRunStart, AloneRunNext, AloneRunGoesOn, AloneRunChecks, AloneRunHash,
        AloneRunTransfer, AloneRunEnd, AloneUndoStart, AloneUndoCheck, AloneUndoAct DEF RunStep, RunChecks, UndoStep
<1>3. QED BY <1>1, <1>2 DEF AloneInv, Snapshots

\* Nobody has a snapshot at the start.
LEMMA InitAlone == Init => AloneInv
<1> SUFFICES ASSUME Init PROVE AloneInv
  OBVIOUS
<1>1. before \in [Flows -> Snapshots] /\ \A j \in Flows : before[j] = NoSnapshot
  BY DEF Init, Disturbed, Snapshots
<1>2. QED BY <1>1 DEF AloneInv, AloneKnows, Alone, Snapshots

\* A rollback that has no items left has put everything back.
LEMMA AloneRestores == TypesInv /\ AloneInv => UndoRestores
<1> SUFFICES ASSUME TypesInv, AloneInv, NEW j \in Flows, Undone(j), config[j].conflict # "overwrite",
                    config[j].sameDevice
             PROVE  fs = before[j]
  BY DEF UndoRestores
<1>1. Alone(j) /\ undo[j].at # "idle" /\ undo[j].left = 0
  BY DEF Alone, Undone
<1>2. PICK items : items = manifests[undo[j].manifest].items
  OBVIOUS
<1>3. Applied(items, 0, before[j]) /\ items \in Seq(Items)
  BY <1>1, <1>2, ManifestIs DEF AloneInv, AloneKnows, TypesInv, UndoTypes, IsUndoOf
<1>4. Real(items, 0) = {}
  <2>1. \A i \in DOMAIN items : ~(i <= 0)
    BY <1>3
  <2>2. QED BY <2>1 DEF Real
<1>5. \A p \in Paths : fs[p] = before[j][p]
  BY <1>3, <1>4 DEF Applied
<1>6. fs \in [Paths -> Contents] /\ before[j] \in [Paths -> Contents]
  BY <1>1 DEF TypesInv, FsTypes, AloneInv, Alone
<1>7. QED BY <1>5, <1>6

\* In every execution, with any directories but a flow's own source as its target, a
\* rollback that follows the flow's latest run (rollback_job after run_job) with
\* nobody else at work leaves the file system as the run found it.
THEOREM RollbackRestores == Spec => []UndoRestores
  BY TypesAreKept, QuietIsKept, InitAlone, AloneStep, AloneRestores, PTL DEF Spec

=============================================================================
