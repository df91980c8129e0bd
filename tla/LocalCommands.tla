---------------------------- MODULE LocalCommands ----------------------------
(***************************************************************************)
(* The command queue of the desktop program itself (admin_enqueue_command, *)
(* admin_process_next_command, table admin_commands) with the dispatch that*)
(* obeys the settings of DesktopSettings.  Nothing works the queue off but *)
(* clicks on a button, each of which starts a call of its own; a call      *)
(* selects the oldest pending command, marks it, dispatches it and stores  *)
(* the result, statement by statement.                                     *)
(***************************************************************************)
EXTENDS DesktopSettings, Sequences

VARIABLES
  commands,     \* table admin_commands, oldest first
  picked,       \* the command each click has selected, or 0
  (*************************************************************************)
  (* Observed by the properties.                                           *)
  (*************************************************************************)
  runs,         \* how often each command did work on this machine
  contested     \* commands that two clicks had selected at a time

queueVars == <<commands, picked, runs, contested>>
localVars      == <<settingsVars, bounds, queueVars>>

Final == {"completed", "failed", "skipped"}

\* What a command asks for: work on this machine, on several flows of it, or on
\* other machines, which waits for a server.
Asks == {"one", "several", "elsewhere"}

LocalInit ==
  /\ SettingsInit
  /\ commands = <<>> /\ runs = <<>>
  /\ picked = [k \in Clicks |-> 0]
  /\ contested = {}

-----------------------------------------------------------------------------
Enqueue ==
  /\ Act
  /\ \E asks \in Asks : commands' = Append(commands, [asks |-> asks, status |-> "pending"])
  /\ runs' = Append(runs, 0)
  /\ UNCHANGED <<settingsVars, picked, contested, faults>>

PendingAt(c) == commands[c].status = "pending"

\* next_pending
ClickSelects(k) ==
  /\ Act
  /\ Start(k, Task("dispatch", "mark"))
  /\ \E c \in DOMAIN commands :
       /\ PendingAt(c) /\ \A older \in DOMAIN commands : PendingAt(older) => c <= older
       /\ picked' = [picked EXCEPT ![k] = c]
       /\ contested' = IF \E other \in Clicks \ {k} : picked[other] = c
                       THEN contested \cup {c} ELSE contested
  /\ UNCHANGED <<row, cache, page, version, commands, runs, faults>>

ClickTo(k, at) == task' = [task EXCEPT ![k].at = at]

ClickEnds(k) == task' = [task EXCEPT ![k] = NoTask] /\ picked' = [picked EXCEPT ![k] = 0]

ClickMarks_BrokenSkipped(k) ==
  /\ At(k, "dispatch", "mark")
  /\ ClickTo(k, "read")
  /\ UNCHANGED <<row, cache, page, version, bounds, queueVars>>

\* mark_running
ClickMarks(k) ==
  /\ At(k, "dispatch", "mark")
  /\ commands' = [commands EXCEPT ![picked[k]].status = "running"]
  /\ ClickTo(k, "read")
  /\ UNCHANGED <<row, cache, page, version, bounds, picked, runs, contested>>

\* dispatch_command asks get_settings, and takes the defaults when that fails.
DispatchReads(k) ==
  /\ At(k, "dispatch", "read")
  /\ \/ GetReads(k)
     \/ /\ Fault
        /\ task' = [task EXCEPT ![k].copy = Default, ![k].at = "work"]
        /\ UNCHANGED <<row, cache, page, version, acts>>
  /\ UNCHANGED queueVars

DispatchCaches(k) ==
  /\ At(k, "dispatch", "cache")
  /\ cache' = task[k].copy
  /\ ClickTo(k, "work")
  /\ UNCHANGED <<row, page, version, bounds, queueVars>>

\* The result of dispatch_command: its work, one flow after the other, is
\* accepted, refused by the jobs or the queue, or never begun.
Allowed(asks, s) ==
  s.enabled /\ asks # "elsewhere" /\ (asks = "several" => s.batch)

DispatchWorks(k) ==
  LET c == picked[k]
      allowed == Allowed(commands[c].asks, task[k].copy)
  IN  /\ At(k, "dispatch", "work")
      /\ \E result \in IF allowed THEN Final ELSE {"skipped"} :
           task' = [task EXCEPT ![k].at = "finish", ![k].meant = {result}]
      /\ runs' = IF allowed THEN [runs EXCEPT ![c] = @ + 1] ELSE runs
      /\ UNCHANGED <<row, cache, page, version, bounds, commands, picked, contested>>

\* finish
ClickFinishes(k) ==
  /\ At(k, "dispatch", "finish")
  /\ \E result \in task[k].meant : commands' = [commands EXCEPT ![picked[k]].status = result]
  /\ ClickEnds(k)
  /\ UNCHANGED <<row, cache, page, version, bounds, runs, contested>>

\* mark_running or finish fails: the command stays as it is.
ClickFails(k) ==
  /\ Fault
  /\ At(k, "dispatch", "mark") \/ At(k, "dispatch", "finish")
  /\ ClickEnds(k)
  /\ UNCHANGED <<row, cache, page, version, acts, commands, runs, contested>>

Restart ==
  /\ Fault
  /\ SettingsRestart
  /\ picked' = [k \in Clicks |-> 0]
  /\ UNCHANGED <<acts, commands, runs, contested>>

-----------------------------------------------------------------------------
SettingsStep(k) == task[k].op # "dispatch" /\ CallStep(k)

ClickStep(k) ==
  ClickMarks(k) \/ DispatchReads(k) \/ DispatchCaches(k) \/ DispatchWorks(k) \/ ClickFinishes(k)

LocalNext ==
  \/ (UserStep \/ WorkerReads \/ \E k \in Callers : SettingsStep(k) \/ StatementFails(k))
       /\ UNCHANGED queueVars
  \/ Enqueue
  \/ \E k \in Clicks : ClickSelects(k) \/ ClickStep(k) \/ ClickFails(k)
  \/ Restart

\* Calls go on, and the worker wakes up again and again.
Fairness ==
  /\ \A k \in Callers : WF_localVars(SettingsStep(k) /\ UNCHANGED queueVars)
  /\ WF_localVars(WorkerReads /\ UNCHANGED queueVars)
  /\ \A k \in Clicks : WF_localVars(ClickStep(k))

LocalSpec == LocalInit /\ [][LocalNext]_localVars /\ Fairness

-----------------------------------------------------------------------------
(***************************************************************************)
(* Properties.                                                             *)
(***************************************************************************)

\* A write of the settings stores exactly what its caller meant to change, and
\* takes nothing else back, unless another write came after its copy was taken:
\* an old form or an overlapping call is the only way to lose a setting.
SavesExact ==
  [][\E k \in Callers :
       /\ task[k].at = "write" /\ task'[k] # task[k]
       /\ \A f \in Fields :
            IF f \in task[k].meant THEN row'[f] = task[k].copy[f]
            ELSE row'[f] = row[f] \/ task[k].copied < version]_row

\* The window's events see the settings that are stored, in the end: readers and
\* writers overtake each other between the row and the cache, but the cache
\* cannot stay behind for ever.
CacheCatchesUp == <>[](cache = row)

\* A queued command does its work at most once, unless two clicks had selected
\* it before either had marked it; no failed statement or restart repeats it.
OnceUnlessContested == \A c \in DOMAIN commands : runs[c] <= 1 \/ c \in contested

=============================================================================
