----------------------------- MODULE AdminServer -----------------------------
(***************************************************************************)
(* Who is in the fleet: enrolment, signed heartbeats, rotation of secrets, *)
(* machine groups, batch requests and the central audit of                 *)
(* autoflow-admin-server, with the installations that call it              *)
(* (autoflow-core: the heartbeat worker of lib.rs and the remote agent of  *)
(* admin.rs).  What becomes of a command is in CommandDelivery.            *)
(*                                                                         *)
(* A handler of the server is a sequence of single statements, so it can   *)
(* stop between two of them and others can come in between.  An            *)
(* installation sends heartbeats from two loops that know nothing of each  *)
(* other; each has one request at a time, and a handler that outlives its  *)
(* connection is over before the next request of the same loop, which      *)
(* sleeps at least ten seconds.                                            *)
(*                                                                         *)
(* Requests are made by the program itself: their paths, instance ids and  *)
(* kinds agree.  A signature is the secret that made it.  A definition     *)
(* named _Broken... is a plausible bug in the one that follows it and is   *)
(* not part of the model.                                                  *)
(***************************************************************************)
EXTENDS Integers, SequencesExt

CONSTANTS
  Machines,     \* instance ids of the installations
  Secrets,      \* agent secrets
  Contents,     \* what a snapshot can show of a machine
  Roles,        \* the operator tokens configured, each with its role
  Tokens,       \* the tokens that operators present
  IdLists,      \* lists of instance ids that operators write
  Nothing,      \* no secret, no snapshot, a blank instance id
  MaxActs,      \* bound: changes by users and rotation tools, requests of operators
  MaxFaults     \* bound: failed statements, lost connections, restarts

ASSUME NothingAssumption == Nothing \notin Secrets \cup Contents \cup Machines
ASSUME IdListsAssumption == IdLists \subseteq Seq(Machines \cup {Nothing})
ASSUME BoundsAssumption == {MaxActs, MaxFaults} \subseteq Nat

VARIABLES
  settings,     \* AdminSettings of each machine
  keyring,      \* the secret in the keyring of each machine's system
  flagging,     \* a secret stored whose flag in the settings is still to follow
  content,      \* what each machine would show now
  loop,         \* start_remote_agent
  worker,       \* start_admin_heartbeat_worker
  bootstrap,    \* the server's AUTOFLOW_ADMIN_BOOTSTRAP_SECRET for each machine
  agents,       \* table admin_agents
  groups,       \* table admin_machine_groups, in order of creation
  commands,     \* table admin_server_commands, in order of creation
  audit,        \* table admin_central_audit: how many entries of each kind
  call,         \* the request of each caller with its handler, if any
  (*************************************************************************)
  (* Observed by the properties.                                           *)
  (*************************************************************************)
  done,         \* changes of each audited kind that handlers have made
  told,         \* and for how many of them the caller was told of success
  changed,      \* machines whose secret was replaced on one of the two sides
  acts, faults

desktop  == <<settings, keyring, flagging, content, loop, worker>>
tables   == <<agents, groups, commands, audit>>
observed == <<done, told, changed>>
bounds   == <<acts, faults>>
vars     == <<desktop, bootstrap, tables, call, observed, bounds>>

Audited == {"enroll", "rotate", "group", "batch"}
Kinds   == Audited \cup {"heartbeat"}

LoopOf(m)   == <<m, "loop">>
WorkerOf(m) == <<m, "worker">>
ToolOf(m)   == <<m, "tool">>
Operator    == <<Nothing, "operator">>
Callers     == (Machines \X {"loop", "worker", "tool"}) \cup {Operator}

NoCall == [at |-> "none"]

\* secret is the one enrolled with, signed with or, of an operator, the token;
\* value is the snapshot, the new secret or the operator's request.
Call(kind, m, secret, value) ==
  [at |-> "sent", kind |-> kind, machine |-> m, secret |-> secret, value |-> value,
   fresh |-> TRUE, waiting |-> TRUE, ok |-> FALSE]

NewAgent(secret) == [secret |-> secret, snapshot |-> Nothing]

Init ==
  /\ keyring \in [Machines -> Secrets \cup {Nothing}]
  /\ \E enabled, managed, invited \in [Machines -> BOOLEAN] :
       settings = [m \in Machines |->
         [enabled |-> enabled[m], managed |-> managed[m], invited |-> invited[m],
          configured |-> keyring[m] # Nothing]]
  /\ flagging = [m \in Machines |-> FALSE]
  /\ content \in [Machines -> Contents]
  /\ loop = [m \in Machines |-> [at |-> "idle", enrolled |-> FALSE]]
  /\ worker = [m \in Machines |-> "idle"]
  /\ bootstrap \in [Machines -> Secrets \cup {Nothing}]
  /\ agents = [m \in Machines |-> NewAgent(bootstrap[m])]
  /\ groups = <<>> /\ commands = <<>>
  /\ audit = [k \in Audited |-> 0]
  /\ call = [c \in Callers |-> NoCall]
  /\ done = [k \in Audited |-> 0] /\ told = [k \in Audited |-> 0]
  /\ changed = {}
  /\ acts = 0 /\ faults = 0

-----------------------------------------------------------------------------
(***************************************************************************)
(* An installation.  Reading the settings and the keyring, building the    *)
(* snapshot and posting it are one step: a change in between is as if it   *)
(* came after.                                                             *)
(***************************************************************************)

Post(c, request) == call[c] = NoCall /\ call' = [call EXCEPT ![c] = request]

\* The conditions of the remote agent's loop; should_send_admin_heartbeat.
MayAct(m)  == /\ settings[m].enabled /\ settings[m].managed
              /\ keyring[m] # Nothing
MayBeat(m) == MayAct(m) /\ settings[m].configured

AgentEnrolls(m) ==
  /\ loop[m].at = "idle" /\ ~loop[m].enrolled /\ MayAct(m)
  /\ Post(LoopOf(m), Call("enroll", m, keyring[m], content[m]))
  /\ loop' = [loop EXCEPT ![m].at = "enrolling"]
  /\ UNCHANGED <<settings, keyring, flagging, content, worker, bootstrap, tables, observed, bounds>>

AgentEnrolled_BrokenAnyAnswer(m) ==
  /\ loop[m].at = "enrolling" /\ call[LoopOf(m)].at = "answered"
  /\ loop' = [loop EXCEPT ![m] = [at |-> "beat", enrolled |-> TRUE]]
  /\ call' = [call EXCEPT ![LoopOf(m)] = NoCall]
  /\ UNCHANGED <<settings, keyring, flagging, content, worker, bootstrap, tables, observed, bounds>>

\* enrolled is never reset while the program runs.
AgentEnrolled(m) ==
  /\ loop[m].at = "enrolling" /\ call[LoopOf(m)].at = "answered"
  /\ loop' = [loop EXCEPT ![m] = IF call[LoopOf(m)].ok THEN [at |-> "beat", enrolled |-> TRUE]
                                 ELSE [at |-> "idle", enrolled |-> FALSE]]
  /\ call' = [call EXCEPT ![LoopOf(m)] = NoCall]
  /\ UNCHANGED <<settings, keyring, flagging, content, worker, bootstrap, tables, observed, bounds>>

\* admin_send_signed_heartbeat_once asks only whether monitoring is enabled.
CanSend(m) == settings[m].enabled /\ keyring[m] # Nothing

AgentBeats(m) ==
  /\ \/ loop[m].at = "idle" /\ loop[m].enrolled /\ MayAct(m)
     \/ loop[m].at = "beat" /\ CanSend(m)
  /\ Post(LoopOf(m), Call("heartbeat", m, keyring[m], content[m]))
  /\ loop' = [loop EXCEPT ![m].at = "beating"]
  /\ UNCHANGED <<settings, keyring, flagging, content, worker, bootstrap, tables, observed, bounds>>

\* Whatever came back: the agent polls for commands and sleeps.
AgentSleeps(m) ==
  /\ \/ loop[m].at = "beating" /\ call[LoopOf(m)].at = "answered"
        /\ call' = [call EXCEPT ![LoopOf(m)] = NoCall]
     \/ loop[m].at = "beat" /\ ~CanSend(m) /\ UNCHANGED call
  /\ loop' = [loop EXCEPT ![m].at = "idle"]
  /\ UNCHANGED <<settings, keyring, flagging, content, worker, bootstrap, tables, observed, bounds>>

WorkerBeats(m) ==
  /\ worker[m] = "idle" /\ MayBeat(m)
  /\ Post(WorkerOf(m), Call("heartbeat", m, keyring[m], content[m]))
  /\ worker' = [worker EXCEPT ![m] = "beating"]
  /\ UNCHANGED <<settings, keyring, flagging, content, loop, bootstrap, tables, observed, bounds>>

WorkerSleeps(m) ==
  /\ worker[m] = "beating" /\ call[WorkerOf(m)].at = "answered"
  /\ worker' = [worker EXCEPT ![m] = "idle"]
  /\ call' = [call EXCEPT ![WorkerOf(m)] = NoCall]
  /\ UNCHANGED <<settings, keyring, flagging, content, loop, bootstrap, tables, observed, bounds>>

-----------------------------------------------------------------------------
(***************************************************************************)
(* Users of an installation, and a tool that rotates its secret on the     *)
(* server: the desktop itself never does.                                  *)
(***************************************************************************)

Act == acts < MaxActs /\ acts' = acts + 1

UserSetsSecret(m) ==
  /\ Act
  /\ \E s \in (Secrets \cup {Nothing}) \ {keyring[m]} : keyring' = [keyring EXCEPT ![m] = s]
  /\ flagging' = [flagging EXCEPT ![m] = TRUE]
  /\ changed' = IF keyring[m] = Nothing THEN changed ELSE changed \cup {m}
  /\ UNCHANGED <<settings, content, loop, worker, bootstrap, tables, call, done, told, faults>>

\* set_admin_secret_configured, which may fail after the secret was stored.
UserFlagged(m) ==
  /\ flagging[m]
  /\ flagging' = [flagging EXCEPT ![m] = FALSE]
  /\ \/ settings' = [settings EXCEPT ![m].configured = (keyring[m] # Nothing)] /\ UNCHANGED faults
     \/ faults < MaxFaults /\ faults' = faults + 1 /\ UNCHANGED settings
  /\ UNCHANGED <<keyring, content, loop, worker, bootstrap, tables, call, observed, acts>>

UserSwitches(m) ==
  /\ Act
  /\ settings' = [settings EXCEPT ![m].enabled = ~@]
  /\ UNCHANGED <<keyring, flagging, content, loop, worker, bootstrap, tables, call, observed, faults>>

MachineChanges(m) ==
  /\ Act
  /\ \E v \in Contents \ {content[m]} : content' = [content EXCEPT ![m] = v]
  /\ UNCHANGED <<settings, keyring, flagging, loop, worker, bootstrap, tables, call, observed, faults>>

ToolRotates(m) ==
  /\ Act
  /\ \E s \in Secrets : \E new \in Secrets \ {s} : Post(ToolOf(m), Call("rotate", m, s, new))
  /\ UNCHANGED <<desktop, bootstrap, tables, observed, faults>>

\* The request of an operator: a new group, or a command for machines and groups.
OperatorAsks ==
  /\ Act
  /\ \E token \in Tokens, ids \in IdLists, kind \in {"group", "batch"} :
       \E ofGroups \in IF kind = "batch" THEN {<<>>, <<1>>, <<1, 1>>} ELSE {<<>>} :
         Post(Operator, Call(kind, Nothing, token, [ids |-> ids, groups |-> ofGroups]))
  /\ UNCHANGED <<desktop, bootstrap, tables, observed, faults>>

-----------------------------------------------------------------------------
(***************************************************************************)
(* Handlers.                                                               *)
(***************************************************************************)

AtHandler(c, at, kinds) == call[c].at = at /\ call[c].kind \in kinds

HandlerTo(c, at) == call' = [call EXCEPT ![c].at = at]

\* The answer of the handler: nobody may be waiting for it any more.
Answer(c, ok) ==
  /\ call' = [call EXCEPT ![c] = IF call[c].waiting /\ c[2] \in {"loop", "worker"}
                                 THEN [call[c] EXCEPT !.at = "answered", !.ok = ok] ELSE NoCall]
  /\ told' = IF ok /\ call[c].kind \in Audited THEN [told EXCEPT ![call[c].kind] = @ + 1] ELSE told

Done(kind) == done' = [done EXCEPT ![kind] = @ + 1]

Refuse(c) == Answer(c, FALSE) /\ UNCHANGED <<tables, done, changed>>

\* verify_agent_command_envelope and its like: registered, not expired, signed.
Verified(c) ==
  /\ call[c].fresh
  /\ agents[call[c].machine].secret # Nothing
  /\ call[c].secret = agents[call[c].machine].secret

\* enroll_agent, first statement: an invitation registers whatever secret it brings.
EnrollAgent(c) ==
  LET m == call[c].machine
  IN  /\ AtHandler(c, "sent", {"enroll"})
      /\ IF settings[m].invited
         THEN /\ agents' = [agents EXCEPT ![m].secret = call[c].secret]
              /\ HandlerTo(c, "save")
              /\ Done("enroll")
              /\ UNCHANGED <<groups, commands, audit, told, changed>>
         ELSE Refuse(c)
      /\ UNCHANGED <<desktop, bootstrap, bounds>>

\* receive_heartbeat and rotate_agent_secret, up to their first await.
VerifyEnvelope(c) ==
  /\ AtHandler(c, "sent", {"heartbeat", "rotate"})
  /\ IF Verified(c) THEN HandlerTo(c, "save") /\ UNCHANGED <<tables, done, told, changed>> ELSE Refuse(c)
  /\ UNCHANGED <<desktop, bootstrap, bounds>>

SaveInstance_BrokenOnlyFirst(c) ==
  LET m == call[c].machine
  IN  /\ AtHandler(c, "save", {"enroll", "heartbeat"})
      /\ agents' = IF agents[m].snapshot = Nothing
                   THEN [agents EXCEPT ![m].snapshot = call[c].value] ELSE agents
      /\ IF call[c].kind = "enroll" THEN HandlerTo(c, "audit") /\ UNCHANGED told ELSE Answer(c, TRUE)
      /\ UNCHANGED <<desktop, bootstrap, groups, commands, audit, done, changed, bounds>>

\* save_instance: the last snapshot to arrive stays.
SaveInstance(c) ==
  /\ AtHandler(c, "save", {"enroll", "heartbeat"})
  /\ agents' = [agents EXCEPT ![call[c].machine].snapshot = call[c].value]
  /\ IF call[c].kind = "enroll" THEN HandlerTo(c, "audit") /\ UNCHANGED told ELSE Answer(c, TRUE)
  /\ UNCHANGED <<desktop, bootstrap, groups, commands, audit, done, changed, bounds>>

\* rotate_agent_secret, last statement.
RotateAgentSecret(c) ==
  LET m == call[c].machine
  IN  /\ AtHandler(c, "save", {"rotate"})
      /\ agents' = [agents EXCEPT ![m].secret = call[c].value]
      /\ changed' = changed \cup {m}
      /\ Done("rotate") /\ HandlerTo(c, "audit")
      /\ UNCHANGED <<desktop, bootstrap, groups, commands, audit, told, bounds>>

\* authorize_operator for AdminPermission::Operate.
Authorized(token) ==
  \/ DOMAIN Roles = {}
  \/ token \in DOMAIN Roles /\ Roles[token] \in {"operator", "admin"}

\* normalize_instance_ids: blank ids and repetitions go.
Normalized(ids) ==
  LET kept[k \in 0..Len(ids)] ==
        IF k = 0 THEN <<>>
        ELSE IF ids[k] = Nothing \/ Contains(kept[k - 1], ids[k]) THEN kept[k - 1]
        ELSE Append(kept[k - 1], ids[k])
  IN  kept[Len(ids)]

CreateMachineGroup(c) ==
  /\ AtHandler(c, "sent", {"group"})
  /\ IF Authorized(call[c].secret)
     THEN /\ groups' = Append(groups, Normalized(call[c].value.ids))
          /\ Done("group") /\ HandlerTo(c, "audit")
          /\ UNCHANGED <<agents, commands, audit, told, changed>>
     ELSE Refuse(c)
  /\ UNCHANGED <<desktop, bootstrap, bounds>>

ResolveBatchTargets_BrokenNotAgain(request) ==
  Normalized(request.ids) \o FlattenSeq([k \in DOMAIN request.groups |-> groups[request.groups[k]]])

ResolveBatchTargets(request) ==
  Normalized(Normalized(request.ids) \o
    FlattenSeq([k \in DOMAIN request.groups |-> groups[request.groups[k]]]))

EnqueueBatchCommand(c) ==
  LET request == call[c].value
      targets == ResolveBatchTargets(request)
  IN  /\ AtHandler(c, "sent", {"batch"})
      /\ IF Authorized(call[c].secret) /\ Range(request.groups) \subseteq DOMAIN groups /\ targets # <<>>
         THEN /\ commands' = Append(commands, [request |-> request, targets |-> targets])
              /\ Done("batch") /\ HandlerTo(c, "audit")
              /\ UNCHANGED <<agents, groups, audit, told, changed>>
         ELSE Refuse(c)
      /\ UNCHANGED <<desktop, bootstrap, bounds>>

AppendCentralAudit(c) ==
  /\ AtHandler(c, "audit", Audited)
  /\ audit' = [audit EXCEPT ![call[c].kind] = @ + 1]
  /\ Answer(c, TRUE)
  /\ UNCHANGED <<desktop, bootstrap, agents, groups, commands, done, changed, bounds>>

Fault == faults < MaxFaults /\ faults' = faults + 1

StatementFails_BrokenAuditIgnored(c) ==
  /\ Fault
  /\ call[c].at \in {"sent", "save", "audit"}
  /\ Answer(c, call[c].at = "audit") /\ UNCHANGED <<tables, done, changed>>
  /\ UNCHANGED <<desktop, bootstrap, acts>>

\* A statement fails: the caller gets an error, what was done before stays done.
StatementFails(c) ==
  /\ Fault
  /\ call[c].at \in {"sent", "save", "audit"}
  /\ Refuse(c)
  /\ UNCHANGED <<desktop, bootstrap, acts>>

-----------------------------------------------------------------------------
(***************************************************************************)
(* Connections and restarts.                                               *)
(***************************************************************************)

\* The loop or the worker goes on as with any other error.
Released(hit(_)) ==
  /\ loop' = [m \in Machines |->
                IF hit(LoopOf(m)) /\ loop[m].at \in {"enrolling", "beating"}
                THEN [loop[m] EXCEPT !.at = "idle"] ELSE loop[m]]
  /\ worker' = [m \in Machines |-> IF hit(WorkerOf(m)) THEN "idle" ELSE worker[m]]

Late(c) ==
  /\ Fault
  /\ AtHandler(c, "sent", {"heartbeat", "rotate"}) /\ call[c].fresh
  /\ call' = [call EXCEPT ![c].fresh = FALSE]
  /\ UNCHANGED <<desktop, bootstrap, tables, observed, acts>>

\* The handler goes on without its caller, unless the request never came.
ConnectionLost(c) ==
  /\ Fault
  /\ call[c].at \in {"sent", "save", "audit", "answered"} /\ call[c].waiting
  /\ Released(LAMBDA d : d = c)
  /\ \/ call' = [call EXCEPT ![c] = IF call[c].at = "answered" THEN NoCall
                                    ELSE [call[c] EXCEPT !.waiting = FALSE]]
     \/ call[c].at = "sent" /\ call' = [call EXCEPT ![c] = NoCall]
  /\ UNCHANGED <<settings, keyring, flagging, content, bootstrap, tables, observed, acts>>

\* A handler without a connection may be dropped at any await.
HandlerDropped(c) ==
  /\ call[c].at \in {"sent", "save", "audit"} /\ ~call[c].waiting
  /\ call' = [call EXCEPT ![c] = NoCall]
  /\ UNCHANGED <<desktop, bootstrap, tables, observed, bounds>>

DesktopRestarts(m) ==
  /\ Fault
  /\ loop' = [loop EXCEPT ![m] = [at |-> "idle", enrolled |-> FALSE]]
  /\ worker' = [worker EXCEPT ![m] = "idle"]
  /\ flagging' = [flagging EXCEPT ![m] = FALSE]
  /\ call' = [c \in Callers |->
                IF c \notin {LoopOf(m), WorkerOf(m)} \/ call[c].at = "none" THEN call[c]
                ELSE IF call[c].at = "answered" THEN NoCall
                ELSE [call[c] EXCEPT !.waiting = FALSE]]
  /\ UNCHANGED <<settings, keyring, content, bootstrap, tables, observed, acts>>

\* The server stops and starts again: main registers the bootstrap secret once
\* more, over whatever the machine has enrolled or rotated since.
ServerRestarts ==
  /\ Fault
  /\ Released(LAMBDA c : call[c].at # "none")
  /\ call' = [c \in Callers |-> NoCall]
  /\ agents' = [m \in Machines |->
                  IF bootstrap[m] = Nothing THEN agents[m] ELSE [agents[m] EXCEPT !.secret = bootstrap[m]]]
  /\ UNCHANGED <<settings, keyring, flagging, content, bootstrap, groups, commands, audit, observed, acts>>

-----------------------------------------------------------------------------
LoopStep(m) == AgentEnrolls(m) \/ AgentEnrolled(m) \/ AgentBeats(m) \/ AgentSleeps(m)

WorkerStep(m) == WorkerBeats(m) \/ WorkerSleeps(m)

UserStep(m) ==
  UserSetsSecret(m) \/ UserFlagged(m) \/ UserSwitches(m) \/ MachineChanges(m) \/ ToolRotates(m)

Handler(c) ==
  \/ EnrollAgent(c) \/ VerifyEnvelope(c) \/ SaveInstance(c) \/ RotateAgentSecret(c)
  \/ CreateMachineGroup(c) \/ EnqueueBatchCommand(c) \/ AppendCentralAudit(c)

Next ==
  \/ \E m \in Machines : LoopStep(m) \/ WorkerStep(m) \/ UserStep(m) \/ DesktopRestarts(m)
  \/ OperatorAsks
  \/ \E c \in Callers : Handler(c) \/ StatementFails(c) \/ Late(c) \/ ConnectionLost(c) \/ HandlerDropped(c)
  \/ ServerRestarts

\* Both loops sleep for bounded times, the handler of a request runs to its end,
\* and a connection that is lost is noticed (the client sets no timeout of its
\* own): a loop and its handler take turns.  Nothing forces users, tools,
\* operators or faults.
Fairness ==
  \A m \in Machines : /\ WF_vars(LoopStep(m) \/ Handler(LoopOf(m)))
                      /\ WF_vars(WorkerStep(m) \/ Handler(WorkerOf(m)))

Spec == Init /\ [][Next]_vars /\ Fairness

-----------------------------------------------------------------------------
(***************************************************************************)
(* Properties.                                                             *)
(***************************************************************************)

\* What a caller was told of is in the central audit, and everything in the
\* audit has happened: a handler does its work, then appends the entry, then
\* answers, whatever statement fails and whoever restarts in between.  (Work
\* whose caller got an error may be missing in the audit.)
AuditTrail == \A k \in Audited : told[k] <= audit[k] /\ audit[k] <= done[k]

\* A command goes to the machines that its operator named and to the members of
\* the groups that the operator named, each once, and to at least one.
BatchTargetsExact ==
  \A k \in DOMAIN commands :
    LET request == commands[k].request
        named == Range(request.ids) \cup UNION {Range(groups[g]) : g \in Range(request.groups)}
    IN  /\ Range(commands[k].targets) = named \ {Nothing}
        /\ IsInjective(commands[k].targets)
        /\ commands[k].targets # <<>>

\* The machine's secret is still the one it enrolled with, and the server
\* starts with no other.
Unchanged(m) == m \notin changed /\ bootstrap[m] \in {Nothing, keyring[m]}

\* A loop that believes it is enrolled is known to the server by the secret in
\* its keyring, unless somebody replaced one of the two, or a restart of the
\* server brought the bootstrap secret back: enrolled is never reset, so that
\* machine stays locked out until it is started again.
LockedOutOnlyByChange ==
  \A m \in Machines :
    loop[m].enrolled /\ agents[m].secret # keyring[m] => ~Unchanged(m)

Ready(m) ==
  /\ MayAct(m) /\ settings[m].invited
  /\ Unchanged(m)

\* The fleet converges: what the server shows of a machine that stays managed,
\* invited and unchanged in its secret ends up being what the machine is,
\* although two loops send snapshots past each other and requests get lost.
FleetConverges ==
  \A m \in Machines : <>[]Ready(m) => <>[](agents[m].snapshot = content[m])

=============================================================================
