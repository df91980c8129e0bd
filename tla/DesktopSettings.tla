--------------------------- MODULE DesktopSettings ---------------------------
(***************************************************************************)
(* The settings of the desktop program: one row in the database, a copy in *)
(* memory for the window's events, and whoever reads or changes them       *)
(* (autoflow-core/src/lib.rs, the settings store, AppSettings of           *)
(* autoflow-domain and the settings screen).                               *)
(*                                                                         *)
(* Every change reads the whole row and writes a whole row.  A call is a   *)
(* sequence of steps: a statement, or taking the lock of the cache.  The   *)
(* screen has one call at a time, but the user can leave it while the call *)
(* goes on and open it again.  The heartbeat worker and the remote agent   *)
(* read the settings all the time.  A definition named _Broken... is a     *)
(* plausible bug in the one that follows it and is not part of the model.  *)
(***************************************************************************)
EXTENDS Integers

CONSTANTS
  Pins,         \* PINs that the user may choose
  Limits,       \* bandwidth limits; 0 is none
  NoPin,        \* no PIN
  Clicks,       \* other calls that read the settings: see LocalCommands
  MaxActs,      \* bound: what users do, but for opening the screen
  MaxFaults     \* bound: failed statements and restarts

ASSUME PinsAssumption == NoPin \notin Pins
ASSUME LimitsAssumption == 0 \in Limits /\ Limits \subseteq Nat
ASSUME ClicksAssumption == Clicks \cap {"page", "left", "worker"} = {}
ASSUME BoundsAssumption == {MaxActs, MaxFaults} \subseteq Nat

VARIABLES
  row,          \* table settings
  cache,        \* settings_cache
  task,         \* the call of each caller
  page,         \* the settings screen: its form and what was edited in it
  version,      \* how often the row was written: observed by the properties
  acts, faults

settingsVars == <<row, cache, task, page, version>>
bounds       == <<acts, faults>>

\* pin: security.access_pin_hash; flag: admin.enrollment_token_configured;
\* limit and flat: performance.global_bandwidth_limit_mbps and its older twin
\* bandwidth_limit_mbps.
Fields == {"pinOn", "pin", "flag", "enabled", "batch", "limit", "flat"}

Rows == [pinOn : BOOLEAN, pin : Pins \cup {NoPin}, flag : BOOLEAN, enabled : BOOLEAN,
         batch : BOOLEAN, limit : Limits, flat : Limits]

\* AppSettings::default
Default == [pinOn |-> FALSE, pin |-> NoPin, flag |-> FALSE, enabled |-> TRUE,
            batch |-> FALSE, limit |-> 0, flat |-> 0]

Normalized(s) ==
  LET limit == IF s.limit = 0 /\ s.flat > 0 THEN s.flat ELSE s.limit
  IN  [s EXCEPT !.limit = limit, !.flat = limit]

\* AppSettings::validate, as far as two fields must agree.
Valid(s) == s.pinOn => s.pin # NoPin

Callers == {"page", "left", "worker"} \cup Clicks

\* copy is what the call has read or will write, copied its version, meant the
\* fields it wants to change; newPin is what handleSave still has to set.
NoTask == [op |-> "none", at |-> "idle", copy |-> Default, copied |-> 0, meant |-> {}, newPin |-> NoPin]

Task(op, at) == [NoTask EXCEPT !.op = op, !.at = at]

\* A call whose first statement has read the row, which the store normalizes.
Reader(op) == [Task(op, "cache") EXCEPT !.copy = Normalized(row), !.copied = version]

Closed == [open |-> FALSE, loaded |-> FALSE, form |-> Default, taken |-> 0, edited |-> {}]

SettingsInit ==
  /\ \E p \in Pins \cup {NoPin}, n \in Limits :
       row = [Default EXCEPT !.pinOn = p # NoPin, !.pin = p, !.limit = n, !.flat = n]
  /\ cache = row
  /\ task = [k \in Callers |-> NoTask]
  /\ page = Closed
  /\ version = 0
  /\ acts = 0 /\ faults = 0

-----------------------------------------------------------------------------
(***************************************************************************)
(* Steps of a call.                                                        *)
(***************************************************************************)

At(k, op, at) == task[k].op = op /\ task[k].at = at

\* The call ends; the screen shows what it returned, and handleSave goes on to
\* set the PIN when its first call has succeeded.
Finish(k, ok, answer) ==
  /\ task' = [task EXCEPT ![k] =
       IF ok /\ task[k].newPin # NoPin /\ task[k].op = "save"
       THEN [Task("pin", "read") EXCEPT !.newPin = task[k].newPin] ELSE NoTask]
  /\ page' = IF ok /\ k = "page"
             THEN [page EXCEPT !.loaded = TRUE, !.form = answer, !.taken = task[k].copied, !.edited = {}] ELSE page

\* get_settings inside a call that has done something before.
GetReads(k) ==
  /\ task[k].at = "read"
  /\ task' = [task EXCEPT ![k] = [Reader(task[k].op) EXCEPT !.newPin = task[k].newPin]]
  /\ UNCHANGED <<row, cache, page, version, bounds>>

\* What security_set_pin and set_admin_secret_configured do to their copy.
Changed(t) ==
  IF t.op = "pin" THEN [t.copy EXCEPT !.pinOn = TRUE, !.pin = t.newPin]
  ELSE [t.copy EXCEPT !.flag = (t.op = "setSecret")]

GetCaches_BrokenOnlyUpdates(k) ==
  /\ task[k].at = "cache"
  /\ IF task[k].op = "get"
     THEN Finish(k, TRUE, task[k].copy)
     ELSE /\ task' = [task EXCEPT ![k].copy = Changed(task[k]), ![k].at = "write",
                        ![k].meant = IF task[k].op = "pin" THEN {"pinOn", "pin"} ELSE {"flag"}]
          /\ UNCHANGED page
  /\ UNCHANGED <<row, cache, version, bounds>>

GetCaches(k) ==
  /\ task[k].at = "cache" /\ task[k].op # "dispatch"
  /\ cache' = task[k].copy
  /\ IF task[k].op = "get"
     THEN Finish(k, TRUE, task[k].copy)
     ELSE /\ task' = [task EXCEPT ![k].copy = Changed(task[k]), ![k].at = "write",
                        ![k].meant = IF task[k].op = "pin" THEN {"pinOn", "pin"} ELSE {"flag"}]
          /\ UNCHANGED page
  /\ UNCHANGED <<row, version, bounds>>

\* update_settings: normalize, validate, write.
UpdateWrites(k) ==
  LET new == Normalized(task[k].copy)
  IN  /\ task[k].at = "write"
      /\ IF Valid(new)
         THEN /\ row' = new /\ version' = version + 1
              /\ task' = [task EXCEPT ![k].at = "reread"]
              /\ UNCHANGED page
         ELSE Finish(k, FALSE, row) /\ UNCHANGED <<row, version>>
      /\ UNCHANGED <<cache, bounds>>

UpdateReads(k) ==
  /\ task[k].at = "reread"
  /\ task' = [task EXCEPT ![k].copy = Normalized(row), ![k].copied = version, ![k].at = "recache"]
  /\ UNCHANGED <<row, cache, page, version, bounds>>

UpdateCaches(k) ==
  /\ task[k].at = "recache"
  /\ cache' = task[k].copy
  /\ Finish(k, TRUE, task[k].copy)
  /\ UNCHANGED <<row, version, bounds>>

Fault == faults < MaxFaults /\ faults' = faults + 1

\* A statement fails, at "cache" the one just run: the call returns an error.
StatementFails(k) ==
  /\ Fault
  /\ task[k].at \in {"read", "cache", "write", "reread"} /\ task[k].op # "dispatch"
  /\ Finish(k, FALSE, row)
  /\ UNCHANGED <<row, cache, version, acts>>

-----------------------------------------------------------------------------
(***************************************************************************)
(* Callers.                                                                *)
(***************************************************************************)

Act == acts < MaxActs /\ acts' = acts + 1

Start(k, t) == task[k] = NoTask /\ task' = [task EXCEPT ![k] = t]

\* The worker, as every other reader in the background.
WorkerReads ==
  /\ Start("worker", Reader("get"))
  /\ UNCHANGED <<row, cache, page, version, bounds>>

OpenPage ==
  /\ ~page.open
  /\ Start("page", Reader("get"))
  /\ page' = [Closed EXCEPT !.open = TRUE]
  /\ UNCHANGED <<row, cache, version, bounds>>

\* Whoever leaves the screen leaves its call running.
LeavePage ==
  /\ Act
  /\ page.open /\ task["left"] = NoTask
  /\ page' = Closed
  /\ task' = [task EXCEPT !["left"] = task["page"], !["page"] = NoTask]
  /\ UNCHANGED <<row, cache, version, faults>>

EditForm ==
  /\ Act
  /\ page.loaded /\ task["page"] = NoTask
  /\ \E f \in {"pinOn", "enabled", "batch", "limit"} :
       \E v \in (IF f = "limit" THEN Limits ELSE BOOLEAN) \ {page.form[f]} :
         page' = [page EXCEPT !.form[f] = v, !.edited = @ \cup {f}]
  /\ UNCHANGED <<row, cache, task, version, faults>>

\* handleSave: the older twin follows the limit, and a PIN switched off is cleared.
Prepared_BrokenTwinKept(s) == [s EXCEPT !.pin = IF s.pinOn THEN @ ELSE NoPin]

Prepared(s) ==
  [s EXCEPT !.flat = s.limit, !.pin = IF s.pinOn THEN @ ELSE NoPin]

SavePage(newPin) ==
  /\ Act
  /\ page.loaded
  /\ Start("page", [Task("save", "write") EXCEPT
       !.copy = Prepared(page.form), !.copied = page.taken,
       !.meant = page.edited \cup (IF page.form.pinOn THEN {} ELSE {"pin"}) \cup
                 (IF "limit" \in page.edited THEN {"flat"} ELSE {}),
       !.newPin = IF page.form.pinOn THEN newPin ELSE NoPin])
  /\ UNCHANGED <<row, cache, page, version, faults>>

\* The secret is in the keyring; its flag is still to follow.
SetOrClearSecret ==
  /\ Act
  /\ page.loaded
  /\ \E op \in {"setSecret", "clearSecret"} : Start("page", Reader(op))
  /\ UNCHANGED <<row, cache, page, version, faults>>

\* AppState::new after the program has stopped: no call, no screen, a new cache.
SettingsRestart ==
  /\ task' = [k \in Callers |-> NoTask]
  /\ page' = Closed
  /\ cache' = Normalized(row)
  /\ UNCHANGED <<row, version>>

CallStep(k) == GetReads(k) \/ GetCaches(k) \/ UpdateWrites(k) \/ UpdateReads(k) \/ UpdateCaches(k)

UserStep ==
  \/ OpenPage \/ LeavePage \/ EditForm \/ SetOrClearSecret
  \/ \E newPin \in Pins \cup {NoPin} : SavePage(newPin)

=============================================================================
