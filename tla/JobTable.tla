------------------------------ MODULE JobTable ------------------------------
(***************************************************************************)
(* The jobs table and those who read and write its rows: the calls of      *)
(* AppState (autoflow-core/src/lib.rs) and of the remote agent             *)
(* (autoflow-core/src/admin.rs), the runs (run_job), the scheduler         *)
(* (autoflow-core/src/scheduler.rs) and, for what a row says of watching,  *)
(* the WatchService (autoflow-core/src/watch.rs).                          *)
(*                                                                         *)
(* There are no transactions: who writes a row writes all of it, from the  *)
(* copy they read before.  A row is <<enabled, trigger, edit>>; normalize  *)
(* makes watch and schedule exclusive, so a job has one trigger, and edit  *)
(* stands for everything else that a user can change.                      *)
(*                                                                         *)
(* Time matters only to the scheduler.  It passes in ticks, longer than    *)
(* the scheduler needs from list() to now() and shorter than an interval.  *)
(* The job queue is reduced to what enqueue answers; JobQueue models it.   *)
(* A definition named _Broken... is a plausible bug in the one after it.   *)
(***************************************************************************)
EXTENDS Integers, Sequences

CONSTANTS
  Jobs,
  Clients,      \* callers of create, update, delete and toggle
  Triggers,     \* the triggers a user may choose
  Day,          \* ticks between two runs of a daily schedule
  Interval,     \* ticks of an interval schedule
  MaxEdits,     \* bound: saves and deletions by clients
  MaxChan,      \* bound: watch events waiting
  MaxFaults     \* bound: watchers that cannot be registered

Realtime  == {"realtime", "hybrid"}
Polling   == {"polling", "hybrid"}
Watched   == Realtime \cup Polling
Scheduled == {"interval", "daily"}

ASSUME TriggersAssumption == Triggers \subseteq {"manual"} \cup Watched \cup Scheduled
ASSUME TimeAssumption == Day \in Nat \ {0, 1} /\ Interval \in Nat \ {0, 1}
ASSUME BoundsAssumption == MaxEdits \in Nat /\ MaxChan \in Nat /\ MaxFaults \in Nat

VARIABLES
  row,          \* the jobs table, NoRow for a job that is not there
  sync,         \* each caller's call in progress; Boot is sync_all at startup
  toSync,       \* jobs that Boot has not synchronised yet
  handle,       \* WatchService.handles: the trigger registered, or "none"
  pollers,      \* polling tasks alive
  chan,         \* WatchService's channel of JobTriggered events
  run,          \* each job's place in the queue and the copy its run works with
  sched,        \* the scheduler
  clock,        \* the time of day
  edits, faults,
  (*************************************************************************)
  (* Observed by the properties.                                           *)
  (*************************************************************************)
  asked,        \* the row as the last client to save or delete it wanted it
  stale,        \* jobs of which somebody held an older copy at that time
  unwatched,    \* jobs whose last registration failed or was raced by another
  unfound       \* jobs not watched because a sync found their directory missing

watching == <<handle, pollers, chan>>
observed == <<asked, stale, unwatched, unfound>>
vars == <<row, sync, toSync, watching, run, sched, clock, edits, faults, observed>>

Row(enabled, trigger, edit) == [enabled |-> enabled, trigger |-> trigger, edit |-> edit]
NoRow == Row(FALSE, "none", 0)
Rows  == [enabled : BOOLEAN, trigger : Triggers, edit : 0..MaxEdits]

Boot    == "boot"
Callers == Clients \cup {Boot}
NoJob   == "none"

ASSUME ClientsAssumption == Boot \notin Clients

NotCalling == [at |-> "idle", job |-> NoJob, copy |-> NoRow]
NotRunning == [at |-> "idle", copy |-> NoRow]
Never      == Day + Interval
Asleep     == [at |-> "asleep", next |-> [j \in Jobs |-> Never], lag |-> 0,
               due |-> {}, job |-> NoJob, copy |-> NoRow]

Init ==
  /\ row \in [Jobs -> {r \in Rows : r.edit = 0} \cup {NoRow}]
  /\ sync = [c \in Callers |-> IF c = Boot THEN [NotCalling EXCEPT !.at = "list"] ELSE NotCalling]
  /\ toSync = {}
  /\ handle = [j \in Jobs |-> "none"]
  /\ pollers = [j \in Jobs |-> 0]
  /\ chan = <<>>
  /\ run = [j \in Jobs |-> NotRunning]
  /\ sched = Asleep
  /\ clock = 0
  /\ edits = 0 /\ faults = 0
  /\ asked = row
  /\ stale = {} /\ unwatched = {} /\ unfound = {}

Exists(j) == row[j] # NoRow

-----------------------------------------------------------------------------
(***************************************************************************)
(* Clients.                                                                *)
(***************************************************************************)

\* A run, the scheduler or one of these clients will write j's row from a copy
\* it has read.
Held(j, clients) ==
  \/ run[j].at = "running"
  \/ sched.at = "save" /\ sched.job = j
  \/ \E c \in clients : sync[c].at = "save" /\ sync[c].job = j

Syncing(j) == \E c \in Callers : sync[c].at \in {"unregister", "register"} /\ sync[c].job = j

Write_BrokenDoesNothingOnConflict(c, j, r, wanted) ==
  /\ row' = [row EXCEPT ![j] = IF Exists(j) /\ r # NoRow THEN @ ELSE r]
  /\ sync' = [sync EXCEPT ![c] = [at |-> "unregister", job |-> j, copy |-> r]]
  /\ asked' = [asked EXCEPT ![j] = wanted]
  /\ stale' = IF Held(j, Clients \ {c}) THEN stale \cup {j}
              ELSE IF r = wanted THEN stale \ {j} ELSE stale
  /\ unwatched' = IF Syncing(j) \/ Held(j, Clients \ {c}) THEN unwatched \cup {j}
                  ELSE unwatched \ {j}
  /\ UNCHANGED unfound

\* Client c's row r for job j reaches the table, wanted is what the user meant
\* by it; a sync follows.
Write(c, j, r, wanted) ==
  /\ row' = [row EXCEPT ![j] = r]
  /\ sync' = [sync EXCEPT ![c] = [at |-> "unregister", job |-> j, copy |-> r]]
  /\ asked' = [asked EXCEPT ![j] = wanted]
  /\ stale' = IF Held(j, Clients \ {c}) THEN stale \cup {j}
              ELSE IF r = wanted THEN stale \ {j} ELSE stale
  /\ unwatched' = IF Syncing(j) \/ Held(j, Clients \ {c}) THEN unwatched \cup {j}
                  ELSE unwatched \ {j}
  /\ UNCHANGED unfound

\* create_job and update_job, with a row the caller made up.
Save(c, j) ==
  /\ sync[c].at = "idle" /\ edits < MaxEdits
  /\ edits' = edits + 1
  /\ \E enabled \in BOOLEAN, trigger \in Triggers :
       LET r == Row(enabled, trigger, edits + 1) IN Write(c, j, r, r)
  /\ UNCHANGED <<toSync, watching, run, sched, clock, faults>>

Delete(c, j) ==
  /\ sync[c].at = "idle" /\ edits < MaxEdits
  /\ Exists(j)
  /\ edits' = edits + 1
  /\ Write(c, j, NoRow, NoRow)
  /\ UNCHANGED <<toSync, watching, run, sched, clock, faults>>

\* toggle_jobs: get_job, then update_job with the copy, enabled changed.
ToggleGet(c, j) ==
  /\ sync[c].at = "idle" /\ edits < MaxEdits
  /\ Exists(j)
  /\ edits' = edits + 1
  /\ sync' = [sync EXCEPT ![c] = [at |-> "save", job |-> j,
                                  copy |-> [row[j] EXCEPT !.enabled = ~@]]]
  /\ UNCHANGED <<row, toSync, watching, run, sched, clock, faults, observed>>

ToggleSave(c) ==
  /\ sync[c].at = "save"
  /\ LET j == sync[c].job
         r == sync[c].copy
     IN  Write(c, j, r, IF asked[j] = NoRow THEN NoRow ELSE [asked[j] EXCEPT !.enabled = r.enabled])
  /\ UNCHANGED <<toSync, watching, run, sched, clock, edits, faults>>

-----------------------------------------------------------------------------
(***************************************************************************)
(* WatchService: sync_job, unregister_job, sync_all.                       *)
(***************************************************************************)

Wanted(r) == IF r.enabled /\ r.trigger \in Watched THEN r.trigger ELSE "none"

Finished(c) == sync' = [sync EXCEPT ![c] = IF c = Boot THEN [NotCalling EXCEPT !.at = "next"] ELSE NotCalling]

\* The first error ends sync_all.
Failed(c) ==
  /\ sync' = [sync EXCEPT ![c] = NotCalling]
  /\ toSync' = IF c = Boot THEN {} ELSE toSync
  /\ unwatched' = unwatched \cup {sync[c].job} \cup (IF c = Boot THEN toSync ELSE {})

\* WatchService::unregister.
Unregistered(c) == handle' = [handle EXCEPT ![sync[c].job] = "none"]

\* should_watch_job, where the directory is missing or not at that moment; a sync
\* that finds it missing ends without an error.
ShouldWatch(c) ==
  LET j == sync[c].job
  IN  IF Wanted(sync[c].copy) = "none" THEN Finished(c) /\ unfound' = unfound \ {j}
      ELSE \/ sync' = [sync EXCEPT ![c].at = "register"] /\ UNCHANGED unfound
           \/ Finished(c) /\ unfound' = unfound \cup {j}

Unregister_BrokenKeepsUnwanted(c) ==
  /\ sync[c].at = "unregister"
  /\ IF Wanted(sync[c].copy) = "none" THEN UNCHANGED handle ELSE Unregistered(c)
  /\ ShouldWatch(c)
  /\ UNCHANGED <<row, toSync, pollers, chan, run, sched, clock, edits, faults, asked, stale, unwatched>>

\* Dropping the handle drops the watcher; a dropped JoinHandle lets its task run on.
Unregister(c) ==
  /\ sync[c].at = "unregister"
  /\ Unregistered(c) /\ ShouldWatch(c)
  /\ UNCHANGED <<row, toSync, pollers, chan, run, sched, clock, edits, faults, asked, stale, unwatched>>

Register(c) ==
  LET trigger == sync[c].copy.trigger
      j == sync[c].job
  IN  /\ sync[c].at = "register"
      /\ handle' = [handle EXCEPT ![j] = trigger]
      /\ pollers' = IF trigger \in Polling THEN [pollers EXCEPT ![j] = @ + 1] ELSE pollers
      /\ unfound' = unfound \ {j}
      /\ Finished(c)
      /\ UNCHANGED <<row, toSync, chan, run, sched, clock, edits, faults, asked, stale, unwatched>>

\* The source directory has gone since, or the system has no watcher left.
RegisterFails(c) ==
  /\ sync[c].at = "register" /\ faults < MaxFaults
  /\ faults' = faults + 1
  /\ Failed(c)
  /\ UNCHANGED <<row, watching, run, sched, clock, edits, asked, stale, unfound>>

BootList ==
  /\ sync[Boot].at = "list"
  /\ toSync' = {j \in Jobs : Exists(j)}
  /\ sync' = [sync EXCEPT ![Boot].at = "next"]
  /\ UNCHANGED <<row, watching, run, sched, clock, edits, faults, observed>>

\* get of a job deleted since the list is an error like any other.
BootGet(j) ==
  /\ sync[Boot].at = "next" /\ j \in toSync
  /\ IF Exists(j)
     THEN /\ toSync' = toSync \ {j}
          /\ sync' = [sync EXCEPT ![Boot] = [at |-> "unregister", job |-> j, copy |-> row[j]]]
          /\ UNCHANGED unwatched
     ELSE /\ toSync' = {}
          /\ sync' = [sync EXCEPT ![Boot] = NotCalling]
          /\ unwatched' = unwatched \cup toSync
  /\ UNCHANGED <<row, watching, run, sched, clock, edits, faults, asked, stale, unfound>>

BootDone ==
  /\ sync[Boot].at = "next" /\ toSync = {}
  /\ sync' = [sync EXCEPT ![Boot] = NotCalling]
  /\ UNCHANGED <<row, toSync, watching, run, sched, clock, edits, faults, observed>>

-----------------------------------------------------------------------------
(***************************************************************************)
(* Watch events and runs.                                                  *)
(***************************************************************************)

Send(j) ==
  /\ Len(chan) < MaxChan
  /\ chan' = Append(chan, j)
  /\ UNCHANGED <<row, sync, toSync, handle, pollers, run, sched, clock, edits, faults, observed>>

\* The directory of job j changed, and a watcher or a polling task saw it.
WatcherSends(j) == handle[j] \in Realtime /\ Send(j)
PollerSends(j)  == pollers[j] > 0 /\ Send(j)

\* JobQueue::enqueue, AlreadyRunning being no concern of its callers.
Enqueued(j) == [run EXCEPT ![j].at = IF @ = "idle" THEN "queued" ELSE @]

\* The body of the loop `while let Some(event) = trigger_rx.recv().await`.
Receive ==
  /\ chan # <<>>
  /\ chan' = Tail(chan)
  /\ run' = Enqueued(Head(chan))
  /\ UNCHANGED <<row, sync, toSync, handle, pollers, sched, clock, edits, faults, observed>>

UserRun(j) ==
  /\ run[j].at = "idle"
  /\ run' = Enqueued(j)
  /\ UNCHANGED <<row, sync, toSync, watching, sched, clock, edits, faults, observed>>

RunLoad_BrokenUnchecked(j) ==
  /\ run[j].at = "queued"
  /\ run' = [run EXCEPT ![j] = [at |-> "running", copy |-> row[j]]]
  /\ UNCHANGED <<row, sync, toSync, watching, sched, clock, edits, faults, observed>>

RunLoad(j) ==
  /\ run[j].at = "queued"
  /\ run' = [run EXCEPT ![j] = IF row[j].enabled THEN [at |-> "running", copy |-> row[j]]
                                                 ELSE NotRunning]
  /\ UNCHANGED <<row, sync, toSync, watching, sched, clock, edits, faults, observed>>

\* jobs.save at the end of run_job inserts or replaces the whole row.
RunSave(j) ==
  /\ run[j].at = "running"
  /\ row' = [row EXCEPT ![j] = run[j].copy]
  /\ run' = [run EXCEPT ![j] = NotRunning]
  /\ UNCHANGED <<sync, toSync, watching, sched, clock, edits, faults, observed>>

\* The source directory is missing, or a script, an encrypted package or the
\* audit log failed.
RunFails(j) ==
  /\ run[j].at = "running"
  /\ run' = [run EXCEPT ![j] = NotRunning]
  /\ UNCHANGED <<row, sync, toSync, watching, sched, clock, edits, faults, observed>>

-----------------------------------------------------------------------------
(***************************************************************************)
(* The scheduler.                                                          *)
(***************************************************************************)

\* compute_next_run: ticks from now to the job's next run.
UntilNext(r) ==
  IF ~r.enabled \/ r.trigger \notin Scheduled THEN Never
  ELSE IF r.trigger = "daily" THEN Day - clock ELSE Interval

Tick ==
  /\ sched.lag = 0
  /\ clock' = (clock + 1) % Day
  /\ sched' = [sched EXCEPT !.lag = IF sched.at = "listed" THEN 1 ELSE 0]
  /\ UNCHANGED <<row, sync, toSync, watching, run, edits, faults, observed>>

\* list() reads every row, and normalize computes next_run anew.
SchedList ==
  /\ sched.at = "asleep"
  /\ sched' = [Asleep EXCEPT !.at = "listed", !.next = [j \in Jobs |-> UntilNext(row[j])]]
  /\ UNCHANGED <<row, sync, toSync, watching, run, clock, edits, faults, observed>>

\* next_run is compared with now().  It is never old enough to be recorded as
\* missed: that takes 90 seconds between the two calls.
SchedNow ==
  /\ sched.at = "listed"
  /\ LET due == {j \in Jobs : sched.next[j] <= sched.lag}
     IN  sched' = IF due = {} THEN Asleep ELSE [Asleep EXCEPT !.at = "get", !.due = due]
  /\ UNCHANGED <<row, sync, toSync, watching, run, clock, edits, faults, observed>>

\* The row is read again, because list() has only summaries.
SchedGet(j) ==
  /\ sched.at = "get" /\ j \in sched.due
  /\ sched' = IF Exists(j) THEN [sched EXCEPT !.at = "save", !.job = j, !.copy = row[j]]
                           ELSE [sched EXCEPT !.due = @ \ {j}]
  /\ UNCHANGED <<row, sync, toSync, watching, run, clock, edits, faults, observed>>

\* Saved before it is enqueued, "so a failed or long-running job does not get
\* re-enqueued every minute with the same next_run".
SchedSave ==
  /\ sched.at = "save"
  /\ row' = [row EXCEPT ![sched.job] = sched.copy]
  /\ sched' = [sched EXCEPT !.at = "enqueue"]
  /\ UNCHANGED <<sync, toSync, watching, run, clock, edits, faults, observed>>

SchedEnqueue ==
  /\ sched.at = "enqueue"
  /\ run' = Enqueued(sched.job)
  /\ sched' = [sched EXCEPT !.at = "get", !.due = @ \ {sched.job}, !.job = NoJob, !.copy = NoRow]
  /\ UNCHANGED <<row, sync, toSync, watching, clock, edits, faults, observed>>

SchedSleep ==
  /\ sched.at = "get" /\ sched.due = {}
  /\ sched' = Asleep
  /\ UNCHANGED <<row, sync, toSync, watching, run, clock, edits, faults, observed>>

-----------------------------------------------------------------------------
ClientStep(c) == \E j \in Jobs : Save(c, j) \/ Delete(c, j) \/ ToggleGet(c, j)

SyncStep(c) == Unregister(c) \/ Register(c) \/ RegisterFails(c)

BootStep == BootList \/ BootDone \/ (\E j \in Jobs : BootGet(j))

Sending == \E j \in Jobs : WatcherSends(j) \/ PollerSends(j)

RunStep(j) == UserRun(j) \/ RunLoad(j) \/ RunSave(j) \/ RunFails(j)

SchedStep ==
  \/ SchedList \/ SchedNow \/ SchedSave \/ SchedEnqueue \/ SchedSleep
  \/ \E j \in Jobs : SchedGet(j)

Next ==
  \/ \E c \in Clients : ClientStep(c) \/ ToggleSave(c)
  \/ \E c \in Callers : SyncStep(c)
  \/ BootStep \/ Sending \/ Receive \/ SchedStep \/ Tick
  \/ \E j \in Jobs : RunStep(j)

Spec == Init /\ [][Next]_vars

\* Every task of the runtime makes progress, and time passes; users, clients
\* and changes of files need not come, and a run may take for ever.
Fairness ==
  /\ WF_vars(BootStep) /\ WF_vars(Receive) /\ WF_vars(SchedStep) /\ WF_vars(Tick)
  /\ \A c \in Callers : WF_vars(SyncStep(c))

FairSpec == Spec /\ Fairness

-----------------------------------------------------------------------------
(***************************************************************************)
(* Properties.                                                             *)
(***************************************************************************)

TypeOK ==
  /\ row \in [Jobs -> Rows \cup {NoRow}] /\ asked \in [Jobs -> Rows \cup {NoRow}]
  /\ sync \in [Callers -> [at : {"idle", "list", "next", "save", "unregister", "register"},
                           job : Jobs \cup {NoJob}, copy : Rows \cup {NoRow}]]
  /\ \A c \in Callers : sync[c].at \in {"save", "unregister", "register"} => sync[c].job \in Jobs
  /\ \A c \in Callers : sync[c].at = "register" => Wanted(sync[c].copy) # "none"
  /\ handle \in [Jobs -> Watched \cup {"none"}]
  /\ pollers \in [Jobs -> Nat]
  /\ chan \in Seq(Jobs) /\ Len(chan) <= MaxChan
  /\ run \in [Jobs -> [at : {"idle", "queued", "running"}, copy : Rows \cup {NoRow}]]
  /\ \A j \in Jobs : run[j].at = "running" => run[j].copy.enabled
  /\ sched \in [at : {"asleep", "listed", "get", "save", "enqueue"},
                next : [Jobs -> 1..Never], lag : {0, 1},
                due : SUBSET Jobs, job : Jobs \cup {NoJob}, copy : Rows \cup {NoRow}]
  /\ sched.at \in {"save", "enqueue"} => sched.job \in Jobs
  /\ clock \in 0..(Day - 1) /\ edits \in 0..MaxEdits /\ faults \in 0..MaxFaults
  /\ (toSync \cup stale \cup unwatched \cup unfound) \subseteq Jobs

\* A job is as its users last asked for it, deleted if they deleted it, unless
\* a run, the scheduler or a toggle held an older copy when they asked: no
\* other interleaving loses an edit or brings a deleted job back.
RowIsAsked == \A j \in Jobs \ stale : row[j] = asked[j]

\* What a job's last sync leaves registered, by the row as it is.
Due(j) == IF j \in unfound THEN "none" ELSE Wanted(row[j])

\* Once the startup and the calls are over, a job is watched exactly as its
\* row says, and not at all if its directory was missing when a sync last
\* looked for it, unless its last registration failed (or startup failed before
\* its turn), two syncs of it overlapped, or an older copy has replaced its row.
WatchMatchesRow ==
  \A j \in Jobs \ (unwatched \cup toSync) :
    sync[Boot].at # "list" /\ ~Syncing(j) => handle[j] = Due(j)

\* "Run jobs on configured intervals or calendar-based schedules" (README.md):
\* a job that stays scheduled is enqueued again and again.
ScheduledJobsRun ==
  \A j \in Jobs :
    <>[](row[j].enabled /\ row[j].trigger \in Scheduled)
      => []<>(sched.at = "enqueue" /\ sched.job = j)

=============================================================================
