--------------------------- MODULE JobTableProofs ---------------------------
(***************************************************************************)
(* Theorems about JobTable, for every set of jobs and clients, every       *)
(* choice of triggers and times, and every bound.                          *)
(***************************************************************************)
EXTENDS JobTable, SequenceTheorems, TLAPS

\* What receiving an event leaves of the channel.
LEMMA TakeFirst ==
  ASSUME NEW S, NEW s \in Seq(S), s # <<>>
  PROVE  Head(s) \in S /\ Tail(s) \in Seq(S) /\ Len(Tail(s)) < Len(s)
  BY HeadTailProperties, LenProperties

Copies == Rows \cup {NoRow}

\* Changing whether a row is enabled leaves a row.
LEMMA ToggledRow ==
  ASSUME NEW r \in Rows, NEW enabled \in BOOLEAN
  PROVE  [r EXCEPT !.enabled = enabled] \in Rows
  BY DEF Rows

\* A missing row is neither enabled nor watched.
LEMMA NoRowFields == NoRow.enabled = FALSE /\ NoRow.trigger = "none" /\ NoRow.edit = 0
  BY DEF NoRow, Row

\* The tables are well typed at startup.
LEMMA InitTypeOK == Init => TypeOK
<1> USE TimeAssumption, BoundsAssumption
<1> SUFFICES ASSUME Init PROVE TypeOK
  OBVIOUS
<1>1. row \in [Jobs -> Copies]
  BY DEF Init, Copies
<1>2. chan \in Seq(Jobs) /\ Len(chan) <= MaxChan
  BY EmptySeq DEF Init
<1>3. sched \in [at : {"asleep", "listed", "get", "save", "enqueue"},
                 next : [Jobs -> 1..Never], lag : {0, 1},
                 due : SUBSET Jobs, job : Jobs \cup {NoJob}, copy : Copies]
  BY DEF Init, Asleep, Never, Copies
<1>4. QED
  BY <1>1, <1>2, <1>3 DEF Init, TypeOK, Copies, NotCalling, NotRunning, Asleep, Callers

\* The part of TypeOK that is about the calls in progress.
Calls == [at : {"idle", "list", "next", "save", "unregister", "register"},
          job : Jobs \cup {NoJob}, copy : Copies]
SyncOK ==
  /\ sync \in [Callers -> Calls]
  /\ \A c \in Callers : sync[c].at \in {"save", "unregister", "register"} => sync[c].job \in Jobs
  /\ \A c \in Callers : sync[c].at = "register" => Wanted(sync[c].copy) # "none"

\* A call that has ended, and startup between two jobs, are calls.
LEMMA IdleCall ==
  /\ NotCalling \in Calls /\ NotCalling.at = "idle"
  /\ [NotCalling EXCEPT !.at = "next"] \in Calls /\ [NotCalling EXCEPT !.at = "next"].at = "next"
  BY DEF NotCalling, Calls, Copies

\* A call that has ended.
LEMMA EndedCallTypes ==
  ASSUME SyncOK, NEW c \in Callers,
         Finished(c) \/ sync' = [sync EXCEPT ![c] = NotCalling]
  PROVE  SyncOK'
<1>1. PICK call \in Calls : call.at \in {"idle", "next"} /\ sync' = [sync EXCEPT ![c] = call]
  BY IdleCall DEF Finished
<1>2. QED BY <1>1 DEF SyncOK

\* What a step of a client does to the table and to the client's call.
LEMMA WriteTypes ==
  ASSUME TypeOK, NEW c \in Clients, NEW j \in Jobs, NEW r \in Copies, NEW wanted \in Copies,
         Write(c, j, r, wanted), UNCHANGED <<toSync, watching, run, sched, clock, faults>>,
         edits' \in 0..MaxEdits
  PROVE  TypeOK'
  BY DEF TypeOK, Write, Callers, Copies, watching

\* No step of client, startup, watcher, run or scheduler leaves the types.
LEMMA TypeOKStep == TypeOK /\ [Next]_vars => TypeOK'
<1> USE TimeAssumption, BoundsAssumption
<1> SUFFICES ASSUME TypeOK, [Next]_vars PROVE TypeOK'
  OBVIOUS
<1>0. row \in [Jobs -> Copies] /\ asked \in [Jobs -> Copies]
  BY DEF TypeOK, Copies
<1>1. ASSUME NEW c \in Clients, NEW j \in Jobs, Save(c, j) PROVE TypeOK'
  <2>1. PICK enabled \in BOOLEAN, trigger \in Triggers :
          Write(c, j, Row(enabled, trigger, edits + 1), Row(enabled, trigger, edits + 1))
    BY <1>1 DEF Save
  <2>2. edits + 1 \in 0..MaxEdits
    BY <1>1 DEF Save, TypeOK
  <2>3. Row(enabled, trigger, edits + 1) \in Copies
    BY <2>2 DEF Row, Rows, Copies
  <2>4. QED BY <1>1, <2>1, <2>2, <2>3, WriteTypes DEF Save
<1>2. ASSUME NEW c \in Clients, NEW j \in Jobs, Delete(c, j) PROVE TypeOK'
  <2>1. NoRow \in Copies /\ edits + 1 \in 0..MaxEdits
    BY <1>2 DEF Copies, Delete, TypeOK
  <2>2. QED BY <1>2, <2>1, WriteTypes DEF Delete
<1>3. ASSUME NEW c \in Clients, NEW j \in Jobs, ToggleGet(c, j) PROVE TypeOK'
  <2>0. row[j] \in Rows
    BY <1>0, <1>3 DEF ToggleGet, Exists, Copies
  <2>1. edits + 1 \in 0..MaxEdits
    <3>1. edits < MaxEdits
      BY <1>3 DEF ToggleGet
    <3>2. edits \in 0..MaxEdits
      BY DEF TypeOK
    <3>3. QED BY <3>1, <3>2
  <2>2. [row[j] EXCEPT !.enabled = ~@] \in Copies
    BY <2>0 DEF Rows, Copies
  <2>3. QED BY <1>3, <2>1, <2>2 DEF ToggleGet, TypeOK, Copies, Callers, watching, observed
<1>4. ASSUME NEW c \in Clients, ToggleSave(c) PROVE TypeOK'
  <2> DEFINE j == sync[c].job
             r == sync[c].copy
             wanted == IF asked[j] = NoRow THEN NoRow ELSE [asked[j] EXCEPT !.enabled = r.enabled]
  <2>1. j \in Jobs /\ r \in Copies
    BY <1>4 DEF ToggleSave, TypeOK, Callers, Copies
  <2>2. r.enabled \in BOOLEAN
    BY <2>1, NoRowFields DEF Copies, Rows
  <2>3. wanted \in Copies
    BY <1>0, <2>1, <2>2, ToggledRow DEF Copies
  <2>4. Write(c, j, r, wanted)
    BY <1>4 DEF ToggleSave
  <2>5. edits' \in 0..MaxEdits /\ UNCHANGED <<toSync, watching, run, sched, clock, faults>>
    BY <1>4 DEF ToggleSave, TypeOK
  <2> HIDE DEF j, r, wanted
  <2>6. QED BY <2>1, <2>3, <2>4, <2>5, WriteTypes
<1>5. ASSUME NEW c \in Callers, Unregister(c) PROVE TypeOK'
  <2>1. SyncOK
    BY DEF SyncOK, Calls, Copies, TypeOK
  <2>2. sync[c].job \in Jobs /\ unfound' \subseteq Jobs
    BY <1>5 DEF Unregister, ShouldWatch, TypeOK
  <2>3. handle' \in [Jobs -> Watched \cup {"none"}]
    BY <1>5 DEF Unregister, Unregistered, TypeOK
  <2>4. SyncOK'
    <3>1. CASE Finished(c)
      BY <2>1, <3>1, EndedCallTypes
    <3>2. CASE Wanted(sync[c].copy) # "none" /\ sync' = [sync EXCEPT ![c].at = "register"]
      BY <1>5, <2>1, <3>2 DEF Unregister, SyncOK, Calls
    <3>3. QED BY <1>5, <3>1, <3>2 DEF Unregister, ShouldWatch
  <2>5. QED BY <1>5, <2>2, <2>3, <2>4 DEF Unregister, SyncOK, Calls, Copies, TypeOK
<1>6. ASSUME NEW c \in Callers, Register(c) PROVE TypeOK'
  <2>1. sync[c].job \in Jobs /\ sync[c].copy.trigger \in Watched
    BY <1>6 DEF Register, TypeOK, Wanted
  <2>2. handle' \in [Jobs -> Watched \cup {"none"}] /\ pollers' \in [Jobs -> Nat]
    BY <1>6, <2>1 DEF Register, TypeOK
  <2>3. SyncOK'
    BY <1>6, EndedCallTypes DEF Register, SyncOK, Calls, Copies, TypeOK
  <2>4. QED BY <1>6, <2>2, <2>3 DEF Register, SyncOK, Calls, Copies, TypeOK, observed
<1>7. ASSUME NEW c \in Callers, RegisterFails(c) PROVE TypeOK'
  <2>1. sync[c].job \in Jobs /\ faults + 1 \in 0..MaxFaults
    BY <1>7 DEF RegisterFails, TypeOK
  <2>2. SyncOK'
    BY <1>7, EndedCallTypes DEF RegisterFails, Failed, SyncOK, Calls, Copies, TypeOK
  <2>3. faults' \in 0..MaxFaults /\ toSync' \subseteq Jobs /\ unwatched' \subseteq Jobs
    BY <1>7, <2>1 DEF RegisterFails, Failed, TypeOK
  <2>4. QED BY <1>7, <2>2, <2>3 DEF RegisterFails, SyncOK, Calls, Copies, TypeOK, watching
<1>8. CASE BootList
  <2>1. Boot \in Callers /\ SyncOK
    BY DEF Callers, SyncOK, Calls, Copies, TypeOK
  <2>2. PICK call \in Calls : call.at = "next" /\ sync' = [sync EXCEPT ![Boot] = call]
    <3> DEFINE call == [sync[Boot] EXCEPT !.at = "next"]
    <3>1. call \in Calls /\ call.at = "next"
      BY <2>1 DEF SyncOK, Calls
    <3>2. sync' = [sync EXCEPT ![Boot] = call]
      BY <1>8 DEF BootList
    <3>3. QED BY <3>1, <3>2
  <2>3. SyncOK'
    BY <2>1, <2>2 DEF SyncOK
  <2>4. QED BY <1>8, <2>3 DEF BootList, SyncOK, Calls, Copies, TypeOK, watching, observed
<1>9. CASE BootDone
  BY <1>9 DEF BootDone, NotCalling, TypeOK, watching, observed, Callers
<1>10. ASSUME NEW j \in Jobs, BootGet(j) PROVE TypeOK'
  BY <1>10 DEF BootGet, NotCalling, TypeOK, watching, Callers
<1>11. ASSUME NEW j \in Jobs, Send(j) PROVE TypeOK'
  BY <1>11, AppendProperties DEF Send, TypeOK, observed
<1>12. ASSUME NEW j \in Jobs, run' = Enqueued(j)
       PROVE  /\ run' \in [Jobs -> [at : {"idle", "queued", "running"}, copy : Copies]]
              /\ \A i \in Jobs : run'[i].at = "running" => run'[i].copy.enabled
  <2> DEFINE Runs == [at : {"idle", "queued", "running"}, copy : Copies]
             queued == [run[j] EXCEPT !.at = IF @ = "idle" THEN "queued" ELSE @]
  <2>1. run \in [Jobs -> Runs] /\ \A i \in Jobs : run[i].at = "running" => run[i].copy.enabled
    BY DEF TypeOK, Copies
  <2>2. queued \in Runs /\ (queued.at = "running" => queued.copy.enabled)
    BY <1>12, <2>1
  <2>3. run' = [run EXCEPT ![j] = queued]
    BY <1>12, <2>1 DEF Enqueued
  <2> HIDE DEF Runs, queued
  <2>4. run' \in [Jobs -> Runs] /\ \A i \in Jobs : run'[i].at = "running" => run'[i].copy.enabled
    BY <2>1, <2>2, <2>3
  <2>5. QED BY <2>4 DEF Runs
<1>13. CASE Receive
  <2>1. Head(chan) \in Jobs /\ Tail(chan) \in Seq(Jobs) /\ Len(Tail(chan)) < Len(chan)
    BY <1>13, TakeFirst DEF Receive, TypeOK
  <2>2. Len(chan) \in Nat /\ Len(Tail(chan)) \in Nat /\ Len(chan) <= MaxChan
    BY <2>1, LenProperties DEF TypeOK
  <2>3. /\ run' \in [Jobs -> [at : {"idle", "queued", "running"}, copy : Copies]]
        /\ \A i \in Jobs : run'[i].at = "running" => run'[i].copy.enabled
    BY <1>12, <1>13, <2>1 DEF Receive
  <2>4. chan' \in Seq(Jobs) /\ Len(chan') <= MaxChan
    <3>1. chan' = Tail(chan)
      BY <1>13 DEF Receive
    <3>2. MaxChan \in Nat
      BY BoundsAssumption
    <3>3. Len(Tail(chan)) <= MaxChan
      BY <2>1, <2>2, <3>2
    <3>4. QED BY <2>1, <3>1, <3>3
  <2>5. QED BY <1>13, <2>3, <2>4 DEF Receive, TypeOK, observed, Copies
<1>14. ASSUME NEW j \in Jobs, UserRun(j) PROVE TypeOK'
  BY <1>12, <1>14 DEF UserRun, TypeOK, watching, observed, Copies
<1>15. ASSUME NEW j \in Jobs, RunLoad(j) PROVE TypeOK'
  BY <1>15 DEF RunLoad, NotRunning, TypeOK, watching, observed
<1>16. ASSUME NEW j \in Jobs, RunSave(j) PROVE TypeOK'
  BY <1>16 DEF RunSave, NotRunning, TypeOK, watching, observed
<1>17. ASSUME NEW j \in Jobs, RunFails(j) PROVE TypeOK'
  BY <1>17 DEF RunFails, NotRunning, TypeOK, watching, observed
<1>18. CASE Tick
  <2>1. (clock + 1) % Day \in 0..(Day - 1)
    BY DEF TypeOK
  <2>2. QED BY <1>18, <2>1 DEF Tick, TypeOK, watching, observed
<1>19. CASE SchedList
  <2>1. \A j \in Jobs : UntilNext(row[j]) \in 1..Never
    BY DEF UntilNext, Never, TypeOK
  <2>2. sched'.next \in [Jobs -> 1..Never]
    BY <1>19, <2>1 DEF SchedList, Asleep
  <2>3. QED BY <1>19, <2>2 DEF SchedList, Asleep, TypeOK, watching, observed
<1>20. Asleep.next \in [Jobs -> 1..Never]
  BY DEF Asleep, Never
<1>21. CASE SchedNow
  BY <1>20, <1>21 DEF SchedNow, Asleep, TypeOK, watching, observed
<1>22. ASSUME NEW j \in Jobs, SchedGet(j) PROVE TypeOK'
  BY <1>22 DEF SchedGet, TypeOK, watching, observed
<1>23. CASE SchedSave
  BY <1>23 DEF SchedSave, TypeOK, watching, observed
<1>24. CASE SchedEnqueue
  <2>1. sched.job \in Jobs
    BY <1>24 DEF SchedEnqueue, TypeOK
  <2>2. QED BY <1>12, <1>24, <2>1 DEF SchedEnqueue, TypeOK, watching, observed, Copies
<1>25. CASE SchedSleep
  BY <1>20, <1>25 DEF SchedSleep, Asleep, TypeOK, watching, observed
<1>26. CASE UNCHANGED vars
  BY <1>26 DEF vars, TypeOK, watching, observed
<1>27. QED
  BY <1>1, <1>2, <1>3, <1>4, <1>5, <1>6, <1>7, <1>8, <1>9, <1>10, <1>11, <1>13, <1>14, <1>15,
     <1>16, <1>17, <1>18, <1>19, <1>21, <1>22, <1>23, <1>24, <1>25, <1>26
  DEF Next, ClientStep, SyncStep, BootStep, Sending, WatcherSends, PollerSends, RunStep, SchedStep

\* The variables keep their types: in particular only enabled jobs run, and no
\* job is registered with a watcher that its copy did not ask for.
THEOREM TypeInvariant == Spec => []TypeOK
<1>1. QED BY InitTypeOK, TypeOKStep, PTL DEF Spec

-----------------------------------------------------------------------------
(***************************************************************************)
(* RowIsAsked.  Its invariant says what is in the copies: unless the job   *)
(* is in stale, a run's and the scheduler's is the row as it is, and a     *)
(* toggle's differs from it in enabled at most.                            *)
(***************************************************************************)

CopiesAgree(j) ==
  /\ run[j].at = "running" => run[j].copy = row[j]
  /\ sched.at = "save" /\ sched.job = j => sched.copy = row[j]
  /\ \A c \in Clients :
       sync[c].at = "save" /\ sync[c].job = j =>
         /\ row[j] # NoRow
         /\ sync[c].copy = [row[j] EXCEPT !.enabled = sync[c].copy.enabled]

RowInv == \A j \in Jobs \ stale : row[j] = asked[j] /\ CopiesAgree(j)

\* At startup nobody holds a copy.
LEMMA RowInvInit == Init => RowInv
<1> SUFFICES ASSUME Init PROVE RowInv
  OBVIOUS
<1>1. \A c \in Clients : sync[c].at = "idle"
  BY ClientsAssumption DEF Init, Callers, NotCalling
<1>2. \A j \in Jobs : run[j].at = "idle"
  BY DEF Init, NotRunning
<1>3. sched.at = "asleep"
  BY DEF Init, Asleep
<1>4. QED BY <1>1, <1>2, <1>3 DEF Init, RowInv, CopiesAgree

\* What is in a step that writes no row: a new copy is the row as it is.
RunsKeep  == \A j \in Jobs : run'[j].at = "running" => run'[j].copy = row[j] \/ run'[j] = run[j]
SchedKeeps == sched'.at = "save" =>
                \/ sched'.copy = row[sched'.job]
                \/ sched.at = "save" /\ sched'.job = sched.job /\ sched'.copy = sched.copy
TogglesKeep == \A c \in Clients : sync'[c].at = "save" => sync'[c] = sync[c]

\* A step that writes no row keeps the invariant if new copies are the row as
\* it is.
LEMMA CopiesKept ==
  ASSUME RowInv, UNCHANGED <<row, asked, stale>>, RunsKeep, SchedKeeps, TogglesKeep
  PROVE  RowInv'
  BY DEF RowInv, CopiesAgree, RunsKeep, SchedKeeps, TogglesKeep

\* Enqueueing gives no run a copy.
LEMMA RunsKeepWhenEnqueued ==
  ASSUME TypeOK, NEW j \in Jobs, run' = Enqueued(j)
  PROVE  RunsKeep
  BY DEF TypeOK, Enqueued, RunsKeep

\* The end of a run takes its copy away.
LEMMA RunsKeepWhenEnded ==
  ASSUME TypeOK, NEW j \in Jobs, run' = [run EXCEPT ![j] = NotRunning]
  PROVE  RunsKeep
  BY DEF TypeOK, NotRunning, RunsKeep

\* Everything but a toggle leaves the callers' calls out of "save".
LEMMA TogglesKeepWhenSynced ==
  ASSUME TypeOK, NEW c \in Callers,
         \/ Finished(c)
         \/ sync' = [sync EXCEPT ![c] = NotCalling]
         \/ sync' = [sync EXCEPT ![c].at = "register"]
         \/ c = Boot /\ sync' = [sync EXCEPT ![c].at = "next"]
         \/ \E j \in Jobs, r \in Copies :
              sync' = [sync EXCEPT ![c] = [at |-> "unregister", job |-> j, copy |-> r]]
  PROVE  TogglesKeep
<1>1. PICK call : call.at # "save" /\ sync' = [sync EXCEPT ![c] = call]
  <2>1. CASE Finished(c)
    BY <2>1, IdleCall DEF Finished
  <2>2. CASE sync' = [sync EXCEPT ![c] = NotCalling]
    BY <2>2, IdleCall
  <2>3. CASE sync' = [sync EXCEPT ![c].at = "register"]
    <3>1. [sync[c] EXCEPT !.at = "register"].at = "register"
      BY DEF TypeOK
    <3>2. QED BY <2>3, <3>1
  <2>4. CASE c = Boot /\ sync' = [sync EXCEPT ![c].at = "next"]
    <3>1. [sync[c] EXCEPT !.at = "next"].at = "next"
      BY DEF TypeOK
    <3>2. QED BY <2>4, <3>1
  <2>5. CASE \E j \in Jobs, r \in Copies :
               sync' = [sync EXCEPT ![c] = [at |-> "unregister", job |-> j, copy |-> r]]
    BY <2>5
  <2>6. QED BY <2>1, <2>2, <2>3, <2>4, <2>5
<1>2. QED BY <1>1 DEF TogglesKeep, TypeOK, Callers

\* A client's write: whoever holds an older copy makes the job stale.
LEMMA RowInvWrite ==
  ASSUME TypeOK, RowInv, NEW c \in Clients, NEW j \in Jobs, NEW r, NEW wanted,
         Write(c, j, r, wanted), UNCHANGED <<run, sched>>,
         j \notin stale => r = wanted
  PROVE  RowInv'
<1>1. \A d \in Clients : sync'[d] = IF d = c THEN [at |-> "unregister", job |-> j, copy |-> r]
                                    ELSE sync[d]
  BY DEF Write, TypeOK, Callers
<1>2. row' = [row EXCEPT ![j] = r] /\ asked' = [asked EXCEPT ![j] = wanted]
  BY DEF Write
<1>3. ASSUME NEW i \in Jobs \ stale', i # j PROVE row'[i] = asked'[i] /\ CopiesAgree(i)'
  <2>1. i \notin stale
    BY <1>3 DEF Write
  <2>2. row'[i] = row[i] /\ asked'[i] = asked[i]
    BY <1>2, <1>3 DEF TypeOK
  <2>3. QED BY <1>1, <1>3, <2>1, <2>2 DEF RowInv, CopiesAgree
<1>4. ASSUME j \notin stale' PROVE row'[j] = asked'[j] /\ CopiesAgree(j)'
  <2>1. ~Held(j, Clients \ {c})
    BY <1>4 DEF Write
  <2>2. r = wanted
    BY <1>4, <2>1 DEF Write
  <2>3. row'[j] = asked'[j]
    BY <1>2, <2>2 DEF TypeOK
  <2>4. CopiesAgree(j)'
    BY <1>1, <2>1 DEF CopiesAgree, Held
  <2>5. QED BY <2>3, <2>4
<1>5. QED BY <1>3, <1>4 DEF RowInv

\* A row written back from the copy of a run or of the scheduler.
LEMMA RowInvWriteBack ==
  ASSUME TypeOK, RowInv, NEW j \in Jobs, NEW r, row' = [row EXCEPT ![j] = r],
         j \notin stale => r = row[j],
         RunsKeep, SchedKeeps, UNCHANGED <<sync, asked, stale>>
  PROVE  RowInv'
<1>1. \A i \in Jobs \ stale : row'[i] = row[i]
  BY DEF TypeOK
<1>2. QED BY <1>1 DEF RowInv, CopiesAgree, RunsKeep, SchedKeeps

\* The scheduler's copy is read from the row in the same step.
LEMMA SchedStepKeeps ==
  ASSUME TypeOK, SchedStep
  PROVE  SchedKeeps
<1>1. CASE SchedList
  <2> DEFINE next == [j \in Jobs |-> UntilNext(row[j])]
  <2>1. sched' = [Asleep EXCEPT !.at = "listed", !.next = next]
    BY <1>1 DEF SchedList
  <2> HIDE DEF next
  <2>2. QED BY <2>1 DEF Asleep, SchedKeeps
<1>2. CASE SchedNow
  <2> DEFINE due == {j \in Jobs : sched.next[j] <= sched.lag}
  <2>1. sched' = IF due = {} THEN Asleep ELSE [Asleep EXCEPT !.at = "get", !.due = due]
    BY <1>2 DEF SchedNow
  <2> HIDE DEF due
  <2>2. QED BY <2>1 DEF Asleep, SchedKeeps
<1>3. CASE SchedSleep
  BY <1>3 DEF SchedSleep, Asleep, SchedKeeps
<1>4. ASSUME NEW j \in Jobs, SchedGet(j) PROVE SchedKeeps
  BY <1>4 DEF SchedGet, SchedKeeps, TypeOK
<1>5. CASE SchedSave
  BY <1>5 DEF SchedSave, SchedKeeps, TypeOK
<1>6. CASE SchedEnqueue
  BY <1>6 DEF SchedEnqueue, SchedKeeps, TypeOK
<1>7. QED BY <1>1, <1>2, <1>3, <1>4, <1>5, <1>6 DEF SchedStep

\* Every step keeps the invariant: a client's write makes a job stale, a write
\* from a copy writes the row as it is.
LEMMA RowInvStep == TypeOK /\ RowInv /\ [Next]_vars => RowInv'
<1> SUFFICES ASSUME TypeOK, RowInv, [Next]_vars PROVE RowInv'
  OBVIOUS
<1>0. /\ UNCHANGED run => RunsKeep
      /\ UNCHANGED sched => SchedKeeps
      /\ UNCHANGED sync => TogglesKeep
  BY DEF RunsKeep, SchedKeeps, TogglesKeep
<1>1. ASSUME NEW c \in Clients, NEW j \in Jobs, Save(c, j) PROVE RowInv'
  <2>1. PICK r : Write(c, j, r, r)
    BY <1>1 DEF Save
  <2>2. UNCHANGED <<run, sched>>
    BY <1>1 DEF Save
  <2>3. QED BY <2>1, <2>2, RowInvWrite
<1>2. ASSUME NEW c \in Clients, NEW j \in Jobs, Delete(c, j) PROVE RowInv'
  BY <1>2, RowInvWrite DEF Delete
<1>3. ASSUME NEW c \in Clients, NEW j \in Jobs, ToggleGet(c, j) PROVE RowInv'
  <2> DEFINE r == [row[j] EXCEPT !.enabled = ~@]
  <2>1. row[j] \in Rows /\ r = [row[j] EXCEPT !.enabled = r.enabled]
    BY <1>3 DEF ToggleGet, Exists, TypeOK, Rows
  <2>2. /\ UNCHANGED <<row, asked, stale, run, sched>>
        /\ sync' = [sync EXCEPT ![c] = [at |-> "save", job |-> j, copy |-> r]]
    BY <1>3 DEF ToggleGet, observed
  <2> HIDE DEF r
  <2>3. \A d \in Clients : sync'[d] = IF d = c THEN [at |-> "save", job |-> j, copy |-> r] ELSE sync[d]
    BY <2>2 DEF TypeOK, Callers
  <2>4. row[j] # NoRow
    BY <1>3 DEF ToggleGet, Exists
  <2>5. QED BY <2>1, <2>2, <2>3, <2>4 DEF RowInv, CopiesAgree
<1>4. ASSUME NEW c \in Clients, ToggleSave(c) PROVE RowInv'
  <2> DEFINE j == sync[c].job
             r == sync[c].copy
             wanted == IF asked[j] = NoRow THEN NoRow ELSE [asked[j] EXCEPT !.enabled = r.enabled]
  <2>1. j \in Jobs /\ Write(c, j, r, wanted) /\ UNCHANGED <<run, sched>>
    BY <1>4 DEF ToggleSave, TypeOK, Callers
  <2>2. j \notin stale => r = wanted
    BY <1>4, <2>1 DEF ToggleSave, RowInv, CopiesAgree
  <2> HIDE DEF j, r, wanted
  <2>3. QED BY <2>1, <2>2, RowInvWrite
<1>5. ASSUME NEW c \in Callers, SyncStep(c) PROVE RowInv'
  <2>1. TogglesKeep
    BY <1>5, TogglesKeepWhenSynced DEF SyncStep, Unregister, ShouldWatch, Register, RegisterFails, Failed
  <2>2. UNCHANGED <<row, asked, stale, run, sched>>
    BY <1>5 DEF SyncStep, Unregister, Register, RegisterFails, observed
  <2>3. QED BY <1>0, <2>1, <2>2, CopiesKept
<1>6. CASE BootStep
  <2>1. TogglesKeep
    <3>1. Boot \in Callers /\ \A j \in Jobs : row[j] \in Copies
      BY DEF Callers, TypeOK, Copies
    <3>2. CASE BootList
      BY <3>1, <3>2, TogglesKeepWhenSynced DEF BootList
    <3>3. CASE BootDone
      BY <3>1, <3>3, TogglesKeepWhenSynced DEF BootDone
    <3>4. ASSUME NEW j \in Jobs, BootGet(j) PROVE TogglesKeep
      BY <3>1, <3>4, TogglesKeepWhenSynced DEF BootGet
    <3>5. QED BY <1>6, <3>2, <3>3, <3>4 DEF BootStep
  <2>2. UNCHANGED <<row, asked, stale, run, sched>>
    BY <1>6 DEF BootStep, BootList, BootDone, BootGet, observed
  <2>3. QED BY <1>0, <2>1, <2>2, CopiesKept
<1>7. CASE Sending \/ Tick \/ UNCHANGED vars
  <2>1. UNCHANGED <<row, asked, stale, run, sync>>
    BY <1>7 DEF Sending, WatcherSends, PollerSends, Send, Tick, observed, vars
  <2>2. SchedKeeps
    <3>1. CASE Tick
      BY <3>1 DEF Tick, SchedKeeps, TypeOK
    <3>2. CASE Sending \/ UNCHANGED vars
      BY <1>0, <3>2 DEF Sending, WatcherSends, PollerSends, Send, vars
    <3>3. QED BY <1>7, <3>1, <3>2
  <2>3. QED BY <1>0, <2>1, <2>2, CopiesKept
<1>8. CASE Receive
  <2>1. Head(chan) \in Jobs
    BY <1>8, TakeFirst DEF Receive, TypeOK
  <2>2. RunsKeep
    BY <1>8, <2>1, RunsKeepWhenEnqueued DEF Receive
  <2>3. QED BY <1>0, <1>8, <2>2, CopiesKept DEF Receive, observed
<1>9. ASSUME NEW j \in Jobs, RunStep(j) PROVE RowInv'
  <2>1. CASE UserRun(j)
    BY <1>0, <2>1, RunsKeepWhenEnqueued, CopiesKept DEF UserRun, observed
  <2>2. CASE RunLoad(j)
    <3>1. RunsKeep
      BY <2>2 DEF RunLoad, RunsKeep, TypeOK, NotRunning
    <3>2. QED BY <1>0, <2>2, <3>1, CopiesKept DEF RunLoad, observed
  <2>3. CASE RunSave(j)
    <3>1. RunsKeep
      BY <2>3, RunsKeepWhenEnded DEF RunSave
    <3>2. j \notin stale => run[j].copy = row[j]
      BY <2>3 DEF RunSave, RowInv, CopiesAgree
    <3>3. QED BY <1>0, <2>3, <3>1, <3>2, RowInvWriteBack DEF RunSave, observed
  <2>4. CASE RunFails(j)
    BY <1>0, <2>4, RunsKeepWhenEnded, CopiesKept DEF RunFails, observed
  <2>5. QED BY <1>9, <2>1, <2>2, <2>3, <2>4 DEF RunStep
<1>10. CASE SchedStep
  <2>0. SchedKeeps
    BY <1>10, SchedStepKeeps
  <2>1. CASE SchedList \/ SchedNow \/ SchedSleep
    BY <1>0, <2>0, <2>1, CopiesKept DEF SchedList, SchedNow, SchedSleep, observed
  <2>2. ASSUME NEW j \in Jobs, SchedGet(j) PROVE RowInv'
    BY <1>0, <2>0, <2>2, CopiesKept DEF SchedGet, observed
  <2>3. CASE SchedSave
    <3>1. sched.job \in Jobs /\ (sched.job \notin stale => sched.copy = row[sched.job])
      BY <2>3 DEF SchedSave, TypeOK, RowInv, CopiesAgree
    <3>2. QED BY <1>0, <2>0, <2>3, <3>1, RowInvWriteBack DEF SchedSave, observed
  <2>4. CASE SchedEnqueue
    <3>1. RunsKeep
      BY <2>4, RunsKeepWhenEnqueued DEF SchedEnqueue, TypeOK
    <3>2. QED BY <1>0, <2>0, <2>4, <3>1, CopiesKept DEF SchedEnqueue, observed
  <2>5. QED BY <1>10, <2>1, <2>2, <2>3, <2>4 DEF SchedStep
<1>11. QED
  BY <1>1, <1>2, <1>3, <1>4, <1>5, <1>6, <1>7, <1>8, <1>9, <1>10 DEF Next, ClientStep

\* Nobody's edit is lost, and no deleted job comes back, but to a run, to the
\* scheduler or to a toggle that held an older copy when the user asked.
THEOREM NoOtherLostUpdate == Spec => []RowIsAsked
<1>1. RowInv => RowIsAsked
  BY DEF RowInv, RowIsAsked
<1>2. QED BY InitTypeOK, TypeOKStep, RowInvInit, RowInvStep, <1>1, PTL DEF Spec

-----------------------------------------------------------------------------
(***************************************************************************)
(* WatchMatchesRow.  Its invariant says that, unless the job is in         *)
(* unwatched, all that hold a copy of its row hold the row as it is, the   *)
(* syncs under way included, and that the job's handle is right whenever   *)
(* the startup has seen to the job and no sync of it is under way.         *)
(***************************************************************************)

Syncs(c, j) == sync[c].at \in {"unregister", "register"} /\ sync[c].job = j

\* The startup has seen to job j, or will find no row.
Booted(j) == IF sync[Boot].at = "list" THEN row[j] = NoRow ELSE j \notin toSync

WatchCopies(j) ==
  /\ run[j].at = "running" => run[j].copy = row[j]
  /\ sched.at = "save" /\ sched.job = j => sched.copy = row[j]
  /\ \A c \in Callers : Syncs(c, j) => sync[c].copy = row[j]

WatchInv ==
  \A j \in Jobs \ unwatched :
    WatchCopies(j) /\ (Booted(j) => Syncing(j) \/ handle[j] = Due(j))

\* Startup and the clients are callers.
LEMMA BootCalls == Boot \in Callers /\ Clients \subseteq Callers
  BY DEF Callers

\* A job is being synchronised if a call synchronises it.
LEMMA SyncingMeans == \A j : Syncing(j) <=> \E c \in Callers : Syncs(c, j)
  BY DEF Syncing, Syncs

\* Before the startup no job counts as seen to, but those that are not there.
LEMMA WatchInvInit == Init => WatchInv
<1> SUFFICES ASSUME Init PROVE WatchInv
  OBVIOUS
<1>1. /\ \A c \in Callers : sync[c].at \in {"idle", "list"}
      /\ sync[Boot].at = "list"
  BY DEF Init, Callers, NotCalling
<1>2. /\ \A j \in Jobs : run[j].at = "idle" /\ handle[j] = "none"
      /\ sched.at = "asleep"
  BY DEF Init, NotRunning, Asleep
<1>3. Wanted(NoRow) = "none"
  BY DEF Wanted, NoRow, Row
<1>4. QED BY <1>1, <1>2, <1>3 DEF WatchInv, WatchCopies, Syncs, Booted, Due

\* A step that leaves the watches and the calls alone, and the rows of the jobs
\* that are not in unwatched.
LEMMA WatchKept ==
  ASSUME WatchInv, UNCHANGED <<sync, toSync, handle, unwatched, unfound>>,
         \A j \in Jobs \ unwatched : row'[j] = row[j],
         RunsKeep, SchedKeeps
  PROVE  WatchInv'
<1> SUFFICES ASSUME NEW j \in Jobs \ unwatched
             PROVE  (WatchCopies(j) /\ (Booted(j) => Syncing(j) \/ handle[j] = Due(j)))'
  BY DEF WatchInv
<1>1. row'[j] = row[j] /\ WatchCopies(j) /\ (Booted(j) => Syncing(j) \/ handle[j] = Due(j))
  BY DEF WatchInv
<1>2. WatchCopies(j)'
  BY <1>1 DEF WatchCopies, Syncs, RunsKeep, SchedKeeps
<1>3. (Booted(j)' <=> Booted(j)) /\ (Syncing(j)' <=> Syncing(j))
  BY <1>1 DEF Booted, Syncing
<1>4. Due(j)' = Due(j)
  BY <1>1 DEF Due, Wanted
<1>5. QED BY <1>1, <1>2, <1>3, <1>4

\* A client's write begins a sync with the row it wrote, or makes the job
\* unwatched.
LEMMA WatchInvWrite ==
  ASSUME TypeOK, WatchInv, NEW c \in Clients, NEW j \in Jobs, NEW r, NEW wanted,
         Write(c, j, r, wanted), sync[c].at \in {"idle", "save"},
         UNCHANGED <<toSync, handle, run, sched>>
  PROVE  WatchInv'
<1>1. \A d \in Callers : sync'[d] = IF d = c THEN [at |-> "unregister", job |-> j, copy |-> r]
                                    ELSE sync[d]
  BY BootCalls DEF Write, TypeOK
<1>2. row' = [row EXCEPT ![j] = r]
  BY DEF Write
<1>3. c # Boot /\ sync'[Boot] = sync[Boot]
  BY <1>1, BootCalls, ClientsAssumption
<1>4. ASSUME NEW i \in Jobs \ unwatched', i # j
      PROVE  (WatchCopies(i) /\ (Booted(i) => Syncing(i) \/ handle[i] = Due(i)))'
  <2>1. i \notin unwatched /\ row'[i] = row[i] /\ unfound' = unfound
    BY <1>2, <1>4 DEF Write, TypeOK
  <2>2. \A d \in Callers : Syncs(d, i)' => Syncs(d, i) /\ sync'[d] = sync[d]
    BY <1>1, <1>4 DEF Syncs
  <2>3. WatchCopies(i)'
    BY <2>1, <2>2 DEF WatchInv, WatchCopies
  <2>4. \A d \in Callers : Syncs(d, i) => Syncs(d, i)'
    BY <1>1 DEF Syncs
  <2>5. Booted(i)' <=> Booted(i)
    BY <1>3, <2>1 DEF Booted
  <2>6. Due(i)' = Due(i)
    BY <2>1 DEF Due, Wanted
  <2>7. QED BY <1>4, <2>1, <2>3, <2>4, <2>5, <2>6, SyncingMeans DEF WatchInv, Syncing, Syncs
<1>5. ASSUME j \notin unwatched'
      PROVE  (WatchCopies(j) /\ (Booted(j) => Syncing(j) \/ handle[j] = Due(j)))'
  <2>1. ~Syncing(j) /\ ~Held(j, Clients \ {c})
    BY <1>5 DEF Write
  <2>2. \A d \in Callers : Syncs(d, j)' => d = c
    BY <1>1, <2>1 DEF Syncing, Syncs
  <2>3. row'[j] = r /\ sync'[c].copy = r /\ Syncs(c, j)'
    BY <1>1, <1>2, BootCalls DEF TypeOK, Syncs
  <2>4. WatchCopies(j)'
    BY <2>1, <2>2, <2>3 DEF WatchCopies, Held
  <2>5. Syncing(j)'
    BY <2>3, BootCalls DEF Syncing, Syncs
  <2>6. QED BY <2>4, <2>5
<1>6. QED BY <1>4, <1>5 DEF WatchInv

\* A step of call c, which replaces it, for a job that stays out of unwatched.
LEMMA WatchCallStep ==
  ASSUME TypeOK, WatchInv, NEW c \in Callers, NEW call,
         sync' = [sync EXCEPT ![c] = call], sync[c].at # "list",
         UNCHANGED <<row, run, sched>>,
         NEW j \in Jobs \ unwatched,
         call.at \in {"unregister", "register"} /\ call.job = j => call.copy = row[j]
  PROVE  /\ WatchCopies(j)'
         /\ call.at # "list" => row'[j] = row[j] /\ (sync'[Boot].at = "list" <=> sync[Boot].at = "list")
         /\ \A d \in Callers \ {c} : Syncs(d, j)' <=> Syncs(d, j)
         /\ Syncs(c, j)' <=> call.at \in {"unregister", "register"} /\ call.job = j
<1>1. \A d \in Callers : sync'[d] = IF d = c THEN call ELSE sync[d]
  BY DEF TypeOK
<1>2. \A d \in Callers \ {c} : Syncs(d, j)' <=> Syncs(d, j)
  BY <1>1 DEF Syncs
<1>3. Syncs(c, j)' <=> call.at \in {"unregister", "register"} /\ call.job = j
  BY <1>1 DEF Syncs
<1>4. WatchCopies(j)'
  <2>1. \A d \in Callers : Syncs(d, j)' => sync'[d].copy = row[j]
    BY <1>1, <1>2, <1>3 DEF WatchInv, WatchCopies
  <2>2. QED BY <2>1 DEF WatchInv, WatchCopies
<1>5. call.at # "list" => (sync'[Boot].at = "list" <=> sync[Boot].at = "list")
  BY <1>1, BootCalls
<1>6. QED BY <1>2, <1>3, <1>4, <1>5

\* The first half of a sync: the handle goes, and the copy decides whether the
\* second half comes.
LEMMA UnregisterKeeps ==
  ASSUME TypeOK, WatchInv, NEW c \in Callers, Unregister(c)
  PROVE  WatchInv'
<1>1. PICK i \in Jobs :
        /\ i = sync[c].job /\ Syncs(c, i) /\ sync[c].at # "list"
        /\ handle' = [handle EXCEPT ![i] = "none"]
        /\ UNCHANGED <<row, toSync, run, sched, unwatched>>
  BY DEF Unregister, Unregistered, TypeOK, Syncs
<1>2. PICK call :
        /\ sync' = [sync EXCEPT ![c] = call]
        /\ call.at \in {"idle", "next", "register"}
        /\ call.at = "register" => call.job = i /\ call.copy = sync[c].copy
        /\ \A j \in Jobs \ {i} : j \in unfound' <=> j \in unfound
        /\ call.at # "register" => Wanted(sync[c].copy) = "none" \/ i \in unfound'
  <2>1. CASE Finished(c)
    <3>1. PICK call \in Calls : call.at \in {"idle", "next"} /\ sync' = [sync EXCEPT ![c] = call]
      BY <2>1, IdleCall DEF Finished
    <3>2. \/ Wanted(sync[c].copy) = "none" /\ unfound' = unfound \ {i}
          \/ unfound' = unfound \cup {i}
          \/ sync' = [sync EXCEPT ![c].at = "register"]
      BY <1>1 DEF Unregister, ShouldWatch
    <3>3. sync' # [sync EXCEPT ![c].at = "register"]
      <4>1. sync'[c].at \in {"idle", "next"}
        BY <3>1 DEF TypeOK
      <4>2. [sync EXCEPT ![c].at = "register"][c].at = "register"
        BY DEF TypeOK
      <4>3. QED BY <4>1, <4>2
    <3>4. QED BY <3>1, <3>2, <3>3
  <2>2. CASE sync' = [sync EXCEPT ![c].at = "register"] /\ UNCHANGED unfound
    <3> DEFINE call == [sync[c] EXCEPT !.at = "register"]
    <3>1. call.at = "register" /\ call.job = sync[c].job /\ call.copy = sync[c].copy
      BY DEF TypeOK
    <3>2. sync' = [sync EXCEPT ![c] = call]
      BY <2>2
    <3> HIDE DEF call
    <3>3. QED BY <1>1, <2>2, <3>1, <3>2
  <2>3. QED BY <2>1, <2>2 DEF Unregister, ShouldWatch
<1> SUFFICES ASSUME NEW j \in Jobs \ unwatched
             PROVE  (WatchCopies(j) /\ (Booted(j) => Syncing(j) \/ handle[j] = Due(j)))'
  BY <1>1 DEF WatchInv
<1>3. j = i => sync[c].copy = row[j]
  BY <1>1 DEF WatchInv, WatchCopies
<1>4. /\ WatchCopies(j)'
      /\ row'[j] = row[j] /\ (sync'[Boot].at = "list" <=> sync[Boot].at = "list")
      /\ \A d \in Callers \ {c} : Syncs(d, j)' <=> Syncs(d, j)
      /\ Syncs(c, j)' <=> call.at = "register" /\ i = j
  <2>1. call.at \in {"unregister", "register"} /\ call.job = j => call.copy = row[j]
    BY <1>2, <1>3
  <2>2. /\ WatchCopies(j)'
        /\ call.at # "list" => row'[j] = row[j] /\ (sync'[Boot].at = "list" <=> sync[Boot].at = "list")
        /\ \A d \in Callers \ {c} : Syncs(d, j)' <=> Syncs(d, j)
        /\ Syncs(c, j)' <=> call.at \in {"unregister", "register"} /\ call.job = j
    <3>1. sync[c].at # "list" /\ UNCHANGED <<row, run, sched>> /\ sync' = [sync EXCEPT ![c] = call]
      BY <1>1, <1>2
    <3>2. QED BY <2>1, <3>1, WatchCallStep
  <2>3. QED BY <1>2, <2>2
<1>5. Booted(j)' <=> Booted(j)
  BY <1>1, <1>4 DEF Booted
<1>6. CASE j = i
  <2>1. handle'[j] = "none"
    BY <1>1, <1>6 DEF TypeOK
  <2>2. call.at # "register" => handle'[j] = Due(j)'
    <3>1. Wanted(sync[c].copy) = "none" => Wanted(row[j])' = "none"
      BY <1>3, <1>4, <1>6 DEF Wanted
    <3>2. QED BY <1>2, <1>6, <2>1, <3>1 DEF Due
  <2>3. call.at = "register" => Syncing(j)'
    BY <1>4, <1>6 DEF Syncing, Syncs
  <2>4. QED BY <1>4, <2>2, <2>3
<1>7. CASE j # i
  <2>1. handle'[j] = handle[j]
    BY <1>1, <1>7 DEF TypeOK
  <2>2. Due(j)' = Due(j)
    BY <1>2, <1>4, <1>7 DEF Due, Wanted
  <2>3. Syncing(j) => Syncing(j)'
    <3>1. ~Syncs(c, j)
      BY <1>1, <1>7 DEF Syncs
    <3>2. QED BY <1>4, <3>1 DEF Syncing, Syncs
  <2>4. QED BY <1>4, <1>5, <2>1, <2>2, <2>3 DEF WatchInv
<1>8. QED BY <1>6, <1>7

\* The second half of a sync: the handle is what the copy wants, and the copy
\* is the row.
LEMMA RegisterKeeps ==
  ASSUME TypeOK, WatchInv, NEW c \in Callers, Register(c)
  PROVE  WatchInv'
<1>1. PICK i \in Jobs :
        /\ i = sync[c].job /\ Syncs(c, i) /\ sync[c].at # "list"
        /\ handle' = [handle EXCEPT ![i] = sync[c].copy.trigger]
        /\ unfound' = unfound \ {i}
        /\ UNCHANGED <<row, toSync, run, sched, unwatched>>
  BY DEF Register, TypeOK, Syncs
<1>2. PICK call \in Calls : call.at \in {"idle", "next"} /\ sync' = [sync EXCEPT ![c] = call]
  BY IdleCall DEF Register, Finished
<1>3. sync[c].copy.trigger = Wanted(sync[c].copy)
  BY DEF Register, TypeOK, Wanted
<1> SUFFICES ASSUME NEW j \in Jobs \ unwatched
             PROVE  (WatchCopies(j) /\ (Booted(j) => Syncing(j) \/ handle[j] = Due(j)))'
  BY <1>1 DEF WatchInv
<1>4. j = i => sync[c].copy = row[j]
  BY <1>1 DEF WatchInv, WatchCopies
<1>5. /\ WatchCopies(j)'
      /\ row'[j] = row[j] /\ (sync'[Boot].at = "list" <=> sync[Boot].at = "list")
      /\ \A d \in Callers \ {c} : Syncs(d, j)' <=> Syncs(d, j)
  BY <1>1, <1>2, WatchCallStep
<1>6. Booted(j)' <=> Booted(j)
  BY <1>1, <1>5 DEF Booted
<1>7. CASE j = i
  <2>1. j \notin unfound'
    BY <1>1, <1>7
  <2>2. Wanted(row[j])' = Wanted(sync[c].copy)
    BY <1>4, <1>5, <1>7 DEF Wanted
  <2>3. handle'[j] = sync[c].copy.trigger
    BY <1>1, <1>7 DEF TypeOK
  <2>4. QED BY <1>3, <1>5, <2>1, <2>2, <2>3 DEF Due
<1>8. CASE j # i
  <2>1. handle'[j] = handle[j]
    BY <1>1, <1>8 DEF TypeOK
  <2>2. Due(j)' = Due(j)
    BY <1>1, <1>5, <1>8 DEF Due, Wanted
  <2>3. Syncing(j) => Syncing(j)'
    <3>1. ~Syncs(c, j)
      BY <1>1, <1>8 DEF Syncs
    <3>2. QED BY <1>5, <3>1 DEF Syncing, Syncs
  <2>4. QED BY <1>5, <1>6, <2>1, <2>2, <2>3 DEF WatchInv
<1>9. QED BY <1>7, <1>8

\* A job whose registration fails, and those that the startup then never sees
\* to, are in unwatched.
LEMMA RegisterFailsKeeps ==
  ASSUME TypeOK, WatchInv, NEW c \in Callers, RegisterFails(c)
  PROVE  WatchInv'
<1>1. PICK i \in Jobs :
        /\ i = sync[c].job /\ sync[c].at # "list"
        /\ sync' = [sync EXCEPT ![c] = NotCalling]
        /\ unwatched' = unwatched \cup {i} \cup (IF c = Boot THEN toSync ELSE {})
        /\ toSync' = IF c = Boot THEN {} ELSE toSync
        /\ UNCHANGED <<row, run, sched, handle, unfound>>
  BY DEF RegisterFails, Failed, TypeOK, watching
<1> SUFFICES ASSUME NEW j \in Jobs \ unwatched'
             PROVE  (WatchCopies(j) /\ (Booted(j) => Syncing(j) \/ handle[j] = Due(j)))'
  BY DEF WatchInv
<1>2. j \in Jobs \ unwatched /\ j # i /\ (j \in toSync' <=> j \in toSync)
  BY <1>1
<1>3. NotCalling.at = "idle"
  BY DEF NotCalling
<1>4. /\ WatchCopies(j)'
      /\ NotCalling.at # "list" => row'[j] = row[j] /\ (sync'[Boot].at = "list" <=> sync[Boot].at = "list")
      /\ \A d \in Callers \ {c} : Syncs(d, j)' <=> Syncs(d, j)
  BY <1>1, <1>2, <1>3, WatchCallStep
<1>5. Booted(j)' <=> Booted(j)
  BY <1>1, <1>2, <1>3, <1>4 DEF Booted
<1>6. Due(j)' = Due(j)
  BY <1>1, <1>3, <1>4 DEF Due, Wanted
<1>7. Syncing(j) => Syncing(j)'
  <2>1. ~Syncs(c, j)
    BY <1>1, <1>2 DEF Syncs
  <2>2. QED BY <1>4, <2>1 DEF Syncing, Syncs
<1>8. QED BY <1>1, <1>2, <1>4, <1>5, <1>6, <1>7 DEF WatchInv

\* The startup synchronises a job with the row as it is.
LEMMA BootStepKeeps ==
  ASSUME TypeOK, WatchInv, BootStep
  PROVE  WatchInv'
<1>1. ASSUME BootList PROVE WatchInv'
  <2>1. /\ sync[Boot].at = "list" /\ UNCHANGED <<row, run, sched, handle, unwatched, unfound>>
        /\ toSync' = {j \in Jobs : Exists(j)}
    BY <1>1 DEF BootList, watching, observed
  <2>2. /\ \A d \in Callers \ {Boot} : sync'[d] = sync[d]
        /\ sync'[Boot].at = "next"
    BY <1>1, BootCalls DEF BootList, TypeOK
  <2> SUFFICES ASSUME NEW j \in Jobs \ unwatched
               PROVE  (WatchCopies(j) /\ (Booted(j) => Syncing(j) \/ handle[j] = Due(j)))'
    BY <2>1 DEF WatchInv
  <2>3. \A d \in Callers : (Syncs(d, j)' <=> Syncs(d, j)) /\ (Syncs(d, j)' => sync'[d] = sync[d])
    BY <2>1, <2>2, BootCalls DEF Syncs
  <2>4. WatchCopies(j)'
    BY <2>1, <2>3 DEF WatchInv, WatchCopies
  <2>5. Booted(j)' => Booted(j)
    BY <2>1, <2>2 DEF Booted, Exists
  <2>6. Due(j)' = Due(j)
    BY <2>1 DEF Due, Wanted
  <2>7. Syncing(j) => Syncing(j)'
    BY <2>3 DEF Syncing, Syncs
  <2>8. QED BY <2>1, <2>4, <2>5, <2>6, <2>7 DEF WatchInv
<1>2. ASSUME BootDone PROVE WatchInv'
  <2>1. /\ sync[Boot].at = "next" /\ sync' = [sync EXCEPT ![Boot] = NotCalling]
        /\ UNCHANGED <<row, toSync, run, sched, handle, unwatched, unfound>>
    BY <1>2 DEF BootDone, watching, observed
  <2>2. NotCalling.at = "idle"
    BY DEF NotCalling
  <2>3. /\ \A d \in Callers \ {Boot} : sync'[d] = sync[d]
        /\ sync'[Boot].at = "idle"
    BY <2>1, <2>2, BootCalls DEF TypeOK
  <2> SUFFICES ASSUME NEW j \in Jobs \ unwatched
               PROVE  (WatchCopies(j) /\ (Booted(j) => Syncing(j) \/ handle[j] = Due(j)))'
    BY <2>1 DEF WatchInv
  <2>4. \A d \in Callers : (Syncs(d, j)' <=> Syncs(d, j)) /\ (Syncs(d, j)' => sync'[d] = sync[d])
    BY <2>1, <2>3, BootCalls DEF Syncs
  <2>5. WatchCopies(j)'
    BY <2>1, <2>4 DEF WatchInv, WatchCopies
  <2>6. (Booted(j)' <=> Booted(j)) /\ Due(j)' = Due(j)
    BY <2>1, <2>3 DEF Booted, Due, Wanted
  <2>7. Syncing(j) => Syncing(j)'
    BY <2>4 DEF Syncing, Syncs
  <2>8. QED BY <2>1, <2>5, <2>6, <2>7 DEF WatchInv
<1>3. ASSUME NEW i \in Jobs, BootGet(i), Exists(i) PROVE WatchInv'
  <2> DEFINE call == [at |-> "unregister", job |-> i, copy |-> row[i]]
  <2>1. /\ sync[Boot].at = "next" /\ i \in toSync /\ toSync' = toSync \ {i}
        /\ UNCHANGED <<row, run, sched, handle, unwatched, unfound>>
        /\ sync' = [sync EXCEPT ![Boot] = call]
    BY <1>3 DEF BootGet, watching
  <2>2. /\ \A d \in Callers \ {Boot} : sync'[d] = sync[d]
        /\ sync'[Boot].at = "unregister" /\ sync'[Boot].job = i /\ sync'[Boot].copy = row[i]
    BY <2>1, BootCalls DEF TypeOK
  <2> SUFFICES ASSUME NEW j \in Jobs \ unwatched
               PROVE  (WatchCopies(j) /\ (Booted(j) => Syncing(j) \/ handle[j] = Due(j)))'
    BY <2>1 DEF WatchInv
  <2>3. \A d \in Callers : Syncs(d, j)' => sync'[d].copy = row[j]
    BY <2>2, BootCalls DEF Syncs, WatchInv, WatchCopies
  <2>4. WatchCopies(j)'
    BY <2>1, <2>3 DEF WatchInv, WatchCopies
  <2>5. Due(j)' = Due(j)
    BY <2>1 DEF Due, Wanted
  <2>6. Syncing(j) => Syncing(j)'
    BY <2>1, <2>2 DEF Syncing
  <2>7. j = i => Syncing(j)'
    BY <2>2, BootCalls DEF Syncing
  <2>8. j # i => (Booted(j)' <=> Booted(j))
    BY <2>1, <2>2 DEF Booted
  <2>9. QED BY <2>1, <2>4, <2>5, <2>6, <2>7, <2>8 DEF WatchInv
<1>4. ASSUME NEW i \in Jobs, BootGet(i), ~Exists(i) PROVE WatchInv'
  <2>1. /\ sync[Boot].at = "next" /\ sync' = [sync EXCEPT ![Boot] = NotCalling]
        /\ toSync' = {} /\ unwatched' = unwatched \cup toSync
        /\ UNCHANGED <<row, run, sched, handle, unfound>>
    BY <1>4 DEF BootGet, watching
  <2>2. NotCalling.at = "idle"
    BY DEF NotCalling
  <2>3. /\ \A d \in Callers \ {Boot} : sync'[d] = sync[d]
        /\ sync'[Boot].at = "idle"
    BY <2>1, <2>2, BootCalls DEF TypeOK
  <2> SUFFICES ASSUME NEW j \in Jobs \ unwatched'
               PROVE  (WatchCopies(j) /\ (Booted(j) => Syncing(j) \/ handle[j] = Due(j)))'
    BY <2>1 DEF WatchInv
  <2>4. \A d \in Callers : (Syncs(d, j)' <=> Syncs(d, j)) /\ (Syncs(d, j)' => sync'[d] = sync[d])
    BY <2>1, <2>3, BootCalls DEF Syncs
  <2>5. WatchCopies(j)'
    BY <2>1, <2>4 DEF WatchInv, WatchCopies
  <2>6. (Booted(j)' <=> Booted(j)) /\ Due(j)' = Due(j)
    BY <2>1, <2>3 DEF Booted, Due, Wanted
  <2>7. Syncing(j) => Syncing(j)'
    BY <2>4 DEF Syncing, Syncs
  <2>8. QED BY <2>1, <2>5, <2>6, <2>7 DEF WatchInv
<1>5. QED BY <1>1, <1>2, <1>3, <1>4 DEF BootStep

\* Every step keeps the invariant.
LEMMA WatchInvStep == TypeOK /\ WatchInv /\ [Next]_vars => WatchInv'
<1> SUFFICES ASSUME TypeOK, WatchInv, [Next]_vars PROVE WatchInv'
  OBVIOUS
<1>0. /\ UNCHANGED run => RunsKeep
      /\ UNCHANGED sched => SchedKeeps
  BY DEF RunsKeep, SchedKeeps
<1>1. ASSUME NEW c \in Clients, ClientStep(c) \/ ToggleSave(c) PROVE WatchInv'
  <2>1. ASSUME NEW j \in Jobs, NEW r, NEW wanted, Write(c, j, r, wanted),
               Save(c, j) \/ Delete(c, j) \/ ToggleSave(c)
        PROVE  WatchInv'
    <3>1. sync[c].at \in {"idle", "save"} /\ UNCHANGED <<toSync, handle, run, sched>>
      BY <2>1 DEF Save, Delete, ToggleSave, watching
    <3>2. QED BY <2>1, <3>1, WatchInvWrite
  <2>2. ASSUME NEW j \in Jobs, Save(c, j) PROVE WatchInv'
    <3>1. PICK r : Write(c, j, r, r)
      BY <2>2 DEF Save
    <3>2. QED BY <2>1, <2>2, <3>1
  <2>3. ASSUME NEW j \in Jobs, Delete(c, j) PROVE WatchInv'
    <3>1. Write(c, j, NoRow, NoRow)
      BY <2>3 DEF Delete
    <3>2. QED BY <2>1, <2>3, <3>1
  <2>4. CASE ToggleSave(c)
    <3>1. PICK j \in Jobs : \E r, wanted : Write(c, j, r, wanted)
      BY <2>4 DEF ToggleSave, TypeOK, Callers
    <3>2. PICK r, wanted : Write(c, j, r, wanted)
      BY <3>1
    <3>3. QED BY <2>1, <2>4, <3>2
  <2>5. ASSUME NEW j \in Jobs, ToggleGet(c, j) PROVE WatchInv'
    <3>1. PICK r : sync' = [sync EXCEPT ![c] = [at |-> "save", job |-> j, copy |-> r]]
      BY <2>5 DEF ToggleGet
    <3>2. /\ UNCHANGED <<row, toSync, handle, run, sched, unwatched, unfound>>
          /\ sync[c].at = "idle" /\ c # Boot
      BY <2>5, ClientsAssumption DEF ToggleGet, watching, observed
    <3>3. /\ \A i \in Jobs, d \in Callers :
               (Syncs(d, i)' <=> Syncs(d, i)) /\ (Syncs(d, i)' => sync'[d] = sync[d])
          /\ sync'[Boot] = sync[Boot]
      <4>1. \A d \in Callers : sync'[d] = IF d = c THEN [at |-> "save", job |-> j, copy |-> r] ELSE sync[d]
        BY <3>1, BootCalls DEF TypeOK
      <4>2. QED BY <3>2, <4>1, BootCalls DEF Syncs
    <3>4. QED BY <3>2, <3>3 DEF WatchInv, WatchCopies, Booted, Syncing, Syncs, Due, Wanted
  <2>6. QED BY <1>1, <2>2, <2>3, <2>4, <2>5 DEF ClientStep
<1>2. ASSUME NEW c \in Callers, SyncStep(c) PROVE WatchInv'
  BY <1>2, UnregisterKeeps, RegisterKeeps, RegisterFailsKeeps DEF SyncStep
<1>3. CASE BootStep
  BY <1>3, BootStepKeeps
<1>4. CASE Sending \/ Tick \/ UNCHANGED vars
  <2>1. UNCHANGED <<row, sync, toSync, handle, run, unwatched, unfound>>
    BY <1>4 DEF Sending, WatcherSends, PollerSends, Send, Tick, watching, observed, vars
  <2>2. SchedKeeps
    <3>1. CASE Tick
      BY <3>1 DEF Tick, SchedKeeps, TypeOK
    <3>2. CASE Sending \/ UNCHANGED vars
      BY <1>0, <3>2 DEF Sending, WatcherSends, PollerSends, Send, vars
    <3>3. QED BY <1>4, <3>1, <3>2
  <2>3. QED BY <1>0, <2>1, <2>2, WatchKept
<1>5. CASE Receive
  <2>1. RunsKeep
    BY <1>5, TakeFirst, RunsKeepWhenEnqueued DEF Receive, TypeOK
  <2>2. QED BY <1>0, <1>5, <2>1, WatchKept DEF Receive, observed
<1>6. ASSUME NEW j \in Jobs, RunStep(j) PROVE WatchInv'
  <2>1. RunsKeep
    <3>1. CASE UserRun(j)
      BY <3>1, RunsKeepWhenEnqueued DEF UserRun
    <3>2. CASE RunLoad(j)
      BY <3>2 DEF RunLoad, RunsKeep, TypeOK, NotRunning
    <3>3. CASE RunSave(j) \/ RunFails(j)
      BY <3>3, RunsKeepWhenEnded DEF RunSave, RunFails
    <3>4. QED BY <1>6, <3>1, <3>2, <3>3 DEF RunStep
  <2>2. \A i \in Jobs \ unwatched : row'[i] = row[i]
    BY <1>6 DEF RunStep, UserRun, RunLoad, RunSave, RunFails, WatchInv, WatchCopies, TypeOK
  <2>3. UNCHANGED <<sync, toSync, handle, unwatched, unfound, sched>>
    BY <1>6 DEF RunStep, UserRun, RunLoad, RunSave, RunFails, watching, observed
  <2>4. QED BY <1>0, <2>1, <2>2, <2>3, WatchKept
<1>7. CASE SchedStep
  <2>1. UNCHANGED <<sync, toSync, handle, unwatched, unfound>>
    BY <1>7 DEF SchedStep, SchedList, SchedNow, SchedGet, SchedSave, SchedEnqueue, SchedSleep,
                watching, observed
  <2>2. SchedKeeps
    BY <1>7, SchedStepKeeps
  <2>3. RunsKeep
    <3>1. CASE SchedEnqueue
      BY <3>1, RunsKeepWhenEnqueued DEF SchedEnqueue, TypeOK
    <3>2. CASE ~SchedEnqueue
      BY <1>0, <1>7, <3>2 DEF SchedStep, SchedList, SchedNow, SchedGet, SchedSave, SchedSleep
    <3>3. QED BY <3>1, <3>2
  <2>4. \A i \in Jobs \ unwatched : row'[i] = row[i]
    <3>1. CASE SchedSave
      BY <3>1 DEF SchedSave, WatchInv, WatchCopies, TypeOK
    <3>2. CASE ~SchedSave
      BY <1>7, <3>2 DEF SchedStep, SchedList, SchedNow, SchedGet, SchedEnqueue, SchedSleep
    <3>3. QED BY <3>1, <3>2
  <2>5. QED BY <2>1, <2>2, <2>3, <2>4, WatchKept
<1>8. QED BY <1>1, <1>2, <1>3, <1>4, <1>5, <1>6, <1>7 DEF Next

\* A job is watched as its row says, whatever calls, runs, syncs and the
\* startup interleave, but for the three ways named in unwatched.
THEOREM WatchesFollowRows == Spec => []WatchMatchesRow
<1>1. WatchInv => WatchMatchesRow
  BY DEF WatchInv, WatchMatchesRow, Booted
<1>2. QED BY InitTypeOK, TypeOKStep, WatchInvInit, WatchInvStep, <1>1, PTL DEF Spec

=============================================================================
