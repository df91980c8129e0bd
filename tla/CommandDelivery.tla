--------------------------- MODULE CommandDelivery ---------------------------
(***************************************************************************)
(* Remote commands: the central server of autoflow-admin-server on its     *)
(* SQLite store, and the polling agents of autoflow-core/src/admin.rs.     *)
(*                                                                         *)
(* A handler of the server runs its SQL statements one by one, without a   *)
(* transaction, so a step is one statement.  Handlers of different agents  *)
(* and of operators interleave.  An agent is one sequential loop: it polls,*)
(* dispatches what it got and posts the result once, ignoring errors.  A   *)
(* lost connection sends the agent back to sleep; the handler either stops *)
(* at its next await or finishes with nobody to answer.                    *)
(*                                                                         *)
(* The agent sleeps at least ten seconds between rounds, so a handler that *)
(* outlives its connection is taken to be over before the next request of  *)
(* the same agent.                                                         *)
(*                                                                         *)
(* Whether an agent polls at all is up to its settings, which leave remote *)
(* commands off by default, and whether the server accepts its envelopes is*)
(* up to the secret it was enrolled with; users and operators change both. *)
(*                                                                         *)
(* A definition named _Broken... is a plausible bug in the one that follows*)
(* it and is not part of the model.                                        *)
(***************************************************************************)
EXTENDS Integers, FiniteSets

CONSTANTS
  Targets,      \* instance ids of the enrolled agents
  Audiences,    \* bound: the sets of targets that the batch of a command may name
  MaxCmds,      \* bound: commands issued; their order is that of created_at
  MaxDrops      \* bound: lost connections, lost posts, agent crashes, and
                \* changes of an agent's settings or secrets

ASSUME MaxCmdsAssumption == MaxCmds \in Nat
ASSUME MaxDropsAssumption == MaxDrops \in Nat

VARIABLES
  status,       \* admin_server_commands.status, or "absent"
  delivery,     \* admin_command_deliveries.status per command and target
  issued,       \* commands that operators have issued so far
  left,         \* deliveries a batch handler has still to insert
  handler,      \* the request handler at work for each agent, if any
  agent,        \* each agent's loop
  allowed,      \* agents that are configured, enrolled and take remote commands
  trusted,      \* agents whose envelopes the server can verify
  (*************************************************************************)
  (* Observed by the properties.                                           *)
  (*************************************************************************)
  executed,     \* how often each agent dispatched each command
  orphaned,     \* pairs whose assignment or result was lost on the way
  early,        \* commands aggregated while deliveries were being inserted
  stale,        \* commands whose last aggregate may be older than a result
  drops         \* faults and changes of settings or secrets so far

store    == <<status, delivery>>
batch    == <<issued, left>>
observed == <<executed, orphaned, early, stale, drops>>
access   == <<allowed, trusted>>
vars     == <<store, batch, handler, agent, access, observed>>

Cmds     == 1..MaxCmds
Terminal == {"completed", "failed", "skipped"}
Statuses == {"absent", "pending", "running"} \cup Terminal

\* A target's handler: the operation and the statement it is about to run, the
\* command, the outcome it reports or the aggregate it has computed, and
\* whether the agent still waits for the answer.
NoHandler == [at |-> "none", cmd |-> 0, value |-> "absent", client |-> TRUE]
HandlerPlaces == {"none", "verifyPoll", "select", "markDelivery", "markCommand",
                  "reply", "verifyResult", "check", "record", "read", "write"}

Idle == [at |-> "idle", cmd |-> 0, outcome |-> "absent"]
AgentPlaces == {"idle", "waiting", "working", "reporting"}

Init ==
  /\ status = [c \in Cmds |-> "absent"]
  /\ delivery = [c \in Cmds |-> [t \in Targets |-> "absent"]]
  /\ issued = 0
  /\ left = [c \in Cmds |-> {}]
  /\ handler = [t \in Targets |-> NoHandler]
  /\ agent = [t \in Targets |-> Idle]
  /\ allowed \in SUBSET Targets /\ trusted \in SUBSET Targets
  /\ executed = [c \in Cmds |-> [t \in Targets |-> 0]]
  /\ orphaned = {} /\ early = {} /\ stale = {} /\ drops = 0

-----------------------------------------------------------------------------
(***************************************************************************)
(* enqueue_batch_command: the command row, then one delivery at a time.    *)
(***************************************************************************)

BatchAccept(targets) ==
  /\ issued < MaxCmds
  /\ targets # {} /\ targets \in Audiences[issued + 1]
  /\ issued' = issued + 1
  /\ left' = [left EXCEPT ![issued + 1] = targets]
  /\ UNCHANGED <<store, handler, agent, access, observed>>

BatchInsertCommand(c) ==
  /\ left[c] # {} /\ status[c] = "absent"
  /\ status' = [status EXCEPT ![c] = "pending"]
  /\ UNCHANGED <<delivery, batch, handler, agent, access, observed>>

BatchInsertDelivery(c, t) ==
  /\ status[c] # "absent" /\ t \in left[c]
  /\ delivery' = [delivery EXCEPT ![c][t] = "pending"]
  /\ left' = [left EXCEPT ![c] = @ \ {t}]
  /\ UNCHANGED <<status, issued, handler, agent, access, observed>>

\* A statement fails, or the operator's connection is lost: what is inserted
\* stays.
BatchAbort(c) ==
  /\ drops < MaxDrops
  /\ left[c] # {}
  /\ left' = [left EXCEPT ![c] = {}]
  /\ drops' = drops + 1
  /\ UNCHANGED <<store, issued, handler, agent, access, executed, orphaned, early, stale>>

-----------------------------------------------------------------------------
(***************************************************************************)
(* poll_next_command and assign_next_command.                              *)
(***************************************************************************)

AtHandler(t, from) == handler[t].at = from

HandlerTo(t, to) == handler' = [handler EXCEPT ![t].at = to]

\* The answer reaches the agent, if it still waits.
Answer(t, newState) ==
  /\ handler' = [handler EXCEPT ![t] = NoHandler]
  /\ agent' = IF handler[t].client THEN [agent EXCEPT ![t] = newState] ELSE agent

\* Nobody polls for a machine that is not enabled, managed, given a server, a
\* token and a secret, enrolled, and allowed to take remote commands.
AgentPoll(t) ==
  /\ agent[t].at = "idle" /\ AtHandler(t, "none") /\ t \in allowed
  /\ agent' = [agent EXCEPT ![t].at = "waiting"]
  /\ HandlerTo(t, "verifyPoll")
  /\ UNCHANGED <<store, batch, access, observed>>

\* SELECT agent_secret: an envelope it does not verify is refused.
VerifyPoll(t) ==
  /\ AtHandler(t, "verifyPoll")
  /\ IF t \in trusted THEN HandlerTo(t, "select") /\ UNCHANGED agent
                      ELSE Answer(t, Idle)
  /\ UNCHANGED <<store, batch, access, observed>>

Pending_BrokenAnyOpen(t) == {c \in Cmds : delivery[c][t] \in {"pending", "running"}}

Pending_BrokenByCommand(t) ==
  {c \in Cmds : delivery[c][t] # "absent" /\ status[c] \in {"pending", "running"}}

Pending(t) == {c \in Cmds : delivery[c][t] = "pending"}

\* SELECT ... WHERE d.status = 'pending' ORDER BY c.created_at LIMIT 1
PollSelect(t) ==
  /\ AtHandler(t, "select")
  /\ \/ /\ Pending(t) = {}
        /\ Answer(t, Idle)
     \/ /\ \E c \in Pending(t) :
             /\ \A older \in Pending(t) : c <= older
             /\ handler' = [handler EXCEPT ![t].cmd = c, ![t].at = "markDelivery"]
        /\ UNCHANGED agent
  /\ UNCHANGED <<store, batch, access, observed>>

PollMarkDelivery(t) ==
  /\ AtHandler(t, "markDelivery")
  /\ delivery' = [delivery EXCEPT ![handler[t].cmd][t] = "running"]
  /\ HandlerTo(t, "markCommand")
  /\ UNCHANGED <<status, batch, agent, access, observed>>

PollMarkCommand(t) ==
  /\ AtHandler(t, "markCommand")
  /\ status' = [status EXCEPT ![handler[t].cmd] = "running"]
  /\ HandlerTo(t, "reply")
  /\ UNCHANGED <<delivery, batch, agent, access, observed>>

PollReply(t) ==
  LET c == handler[t].cmd
  IN  /\ AtHandler(t, "reply")
      /\ Answer(t, [Idle EXCEPT !.at = "working", !.cmd = c])
      /\ orphaned' = IF handler[t].client THEN orphaned ELSE orphaned \cup {<<c, t>>}
      /\ UNCHANGED <<store, batch, access, executed, early, stale, drops>>

-----------------------------------------------------------------------------
(***************************************************************************)
(* The agent dispatches and posts its result; complete_command and         *)
(* record_command_completion.                                              *)
(***************************************************************************)

AgentDispatch(t) ==
  /\ agent[t].at = "working"
  /\ \E outcome \in {"completed", "failed"} :
       agent' = [agent EXCEPT ![t].at = "reporting", ![t].outcome = outcome]
  /\ executed' = [executed EXCEPT ![agent[t].cmd][t] = @ + 1]
  /\ UNCHANGED <<store, batch, handler, access, orphaned, early, stale, drops>>

AgentReport(t) ==
  /\ agent[t].at = "reporting" /\ AtHandler(t, "none")
  /\ handler' = [handler EXCEPT ![t] = [at |-> "verifyResult", cmd |-> agent[t].cmd,
                                        value |-> agent[t].outcome, client |-> TRUE]]
  /\ agent' = [agent EXCEPT ![t].at = "waiting"]
  /\ UNCHANGED <<store, batch, access, observed>>

\* The result of an agent whose secret was replaced meanwhile is refused, and
\* the agent, which ignores the answer, never posts it again.
VerifyResult(t) ==
  /\ AtHandler(t, "verifyResult")
  /\ \/ /\ t \in trusted
        /\ HandlerTo(t, "check")
        /\ UNCHANGED <<agent, orphaned>>
     \/ /\ t \notin trusted
        /\ Answer(t, Idle)
        /\ orphaned' = orphaned \cup {<<handler[t].cmd, t>>}
  /\ UNCHANGED <<store, batch, access, executed, early, stale, drops>>

\* SELECT status: only a running delivery may be completed.
CompleteCheck(t) ==
  /\ AtHandler(t, "check")
  /\ IF delivery[handler[t].cmd][t] = "running"
     THEN HandlerTo(t, "record") /\ UNCHANGED agent
     ELSE Answer(t, Idle)
  /\ UNCHANGED <<store, batch, access, observed>>

CompleteRecord_BrokenNotStored(t) ==
  /\ AtHandler(t, "record")
  /\ HandlerTo(t, "read")
  /\ UNCHANGED <<store, batch, agent, access, observed>>

\* The command of t, if another completion of it has read the deliveries and
\* not yet written what it made of them.
Overtaken(t) ==
  {handler[other].cmd : other \in {o \in Targets \ {t} : AtHandler(o, "write")}}
  \cap {handler[t].cmd}

CompleteRecord(t) ==
  /\ AtHandler(t, "record")
  /\ delivery' = [delivery EXCEPT ![handler[t].cmd][t] = handler[t].value]
  /\ HandlerTo(t, "read")
  /\ stale' = stale \cup Overtaken(t)
  /\ UNCHANGED <<status, batch, agent, access, executed, orphaned, early, drops>>

Aggregate_BrokenIgnoresPending(states) ==
  IF "running" \in states THEN "running"
  ELSE IF "failed" \in states THEN "failed"
  ELSE IF states \subseteq {"skipped"} THEN "skipped"
  ELSE "completed"

\* aggregate_command_status, on the set of statuses of a command's deliveries.
Aggregate(states) ==
  IF states \cap {"pending", "running"} # {} THEN "running"
  ELSE IF "failed" \in states THEN "failed"
  ELSE IF states \subseteq {"skipped"} THEN "skipped"
  ELSE "completed"

DeliveryStates(c) == {delivery[c][t] : t \in Targets} \ {"absent"}

CompleteRead(t) ==
  LET c == handler[t].cmd
  IN  /\ AtHandler(t, "read")
      /\ handler' = [handler EXCEPT ![t].value = Aggregate(DeliveryStates(c)),
                                    ![t].at = "write"]
      /\ early' = IF left[c] # {} THEN early \cup {c} ELSE early
      /\ UNCHANGED <<store, batch, agent, access, executed, orphaned, stale, drops>>

CompleteWrite(t) ==
  /\ AtHandler(t, "write")
  /\ status' = [status EXCEPT ![handler[t].cmd] = handler[t].value]
  /\ Answer(t, Idle)
  /\ UNCHANGED <<delivery, batch, access, observed>>

-----------------------------------------------------------------------------
(***************************************************************************)
(* Faults.                                                                 *)
(***************************************************************************)

\* The pair <<c, t>> that nobody will finish if t's handler stops where it is.
Abandoned(t) ==
  IF handler[t].at \in {"markCommand", "reply", "verifyResult", "check", "record"}
  THEN {<<handler[t].cmd, t>>} ELSE {}

\* The command whose result is recorded and whose aggregate nobody will write.
Unwritten(t) ==
  IF handler[t].at \in {"read", "write"} THEN {handler[t].cmd} ELSE {}

\* The agent gives up waiting; the handler stops at once or finishes unheard.
ConnectionLost(t) ==
  /\ drops < MaxDrops
  /\ agent[t].at = "waiting" /\ handler[t].client
  /\ drops' = drops + 1
  /\ agent' = [agent EXCEPT ![t] = Idle]
  /\ \/ /\ handler' = [handler EXCEPT ![t] = NoHandler]
        /\ orphaned' = orphaned \cup Abandoned(t)
        /\ stale' = stale \cup Unwritten(t)
     \/ /\ handler' = [handler EXCEPT ![t].client = FALSE]
        /\ UNCHANGED <<orphaned, stale>>
  /\ UNCHANGED <<store, batch, access, executed, early>>

\* The agent crashes, rejects the signature, or fails to post its result, and
\* forgets the assignment: only the server remembers it, as running.
AgentForgets(t) ==
  /\ drops < MaxDrops
  /\ agent[t].at \in {"working", "reporting"}
  /\ drops' = drops + 1
  /\ orphaned' = orphaned \cup {<<agent[t].cmd, t>>}
  /\ agent' = [agent EXCEPT ![t] = Idle]
  /\ UNCHANGED <<store, batch, handler, access, executed, early, stale>>

-----------------------------------------------------------------------------
(***************************************************************************)
(* Users and operators change what an agent may do.  The loop reads its    *)
(* settings once per round, so what is under way goes on.                  *)
(***************************************************************************)

\* The admin settings of t's machine are saved, or its enrolment is lost with a
\* restart or made again.
SettingsChange(t) ==
  /\ drops < MaxDrops
  /\ drops' = drops + 1
  /\ allowed' = IF t \in allowed THEN allowed \ {t} ELSE allowed \cup {t}
  /\ UNCHANGED <<store, batch, handler, agent, trusted, executed, orphaned, early, stale>>

\* The server's or the agent's copy of the secret is replaced.
SecretsChange(t) ==
  /\ drops < MaxDrops
  /\ drops' = drops + 1
  /\ trusted' = IF t \in trusted THEN trusted \ {t} ELSE trusted \cup {t}
  /\ UNCHANGED <<store, batch, handler, agent, allowed, executed, orphaned, early, stale>>

AccessChange(t) == SettingsChange(t) \/ SecretsChange(t)

-----------------------------------------------------------------------------
BatchStep(c) == BatchInsertCommand(c) \/ \E t \in Targets : BatchInsertDelivery(c, t)

HandlerStep(t) ==
  \/ VerifyPoll(t) \/ PollSelect(t) \/ PollMarkDelivery(t) \/ PollMarkCommand(t)
  \/ PollReply(t)
  \/ VerifyResult(t) \/ CompleteCheck(t) \/ CompleteRecord(t) \/ CompleteRead(t) \/ CompleteWrite(t)

AgentStep(t) == AgentPoll(t) \/ AgentDispatch(t) \/ AgentReport(t)

Next ==
  \/ \E targets \in SUBSET Targets : BatchAccept(targets)
  \/ \E c \in Cmds : BatchStep(c) \/ BatchAbort(c)
  \/ \E t \in Targets : \/ HandlerStep(t) \/ AgentStep(t)
                        \/ ConnectionLost(t) \/ AgentForgets(t)
                        \/ AccessChange(t)

Spec == Init /\ [][Next]_vars

\* The server and the agents keep running; operators and faults are free.
FairSpec ==
  /\ Spec
  /\ \A c \in Cmds : WF_vars(BatchStep(c))
  /\ \A t \in Targets : WF_vars(HandlerStep(t)) /\ WF_vars(AgentStep(t))

-----------------------------------------------------------------------------
(***************************************************************************)
(* Properties.                                                             *)
(***************************************************************************)

TypeOK ==
  /\ status \in [Cmds -> Statuses]
  /\ delivery \in [Cmds -> [Targets -> Statuses]]
  /\ issued \in 0..MaxCmds
  /\ left \in [Cmds -> SUBSET Targets]
  /\ handler \in [Targets -> [at : HandlerPlaces, cmd : 0..MaxCmds,
                              value : Statuses, client : BOOLEAN]]
  /\ agent \in [Targets -> [at : AgentPlaces, cmd : 0..MaxCmds,
                            outcome : Statuses]]
  /\ \A t \in Targets :
       /\ agent[t].at \in {"working", "reporting"} => agent[t].cmd \in Cmds
       /\ handler[t].at \notin {"none", "verifyPoll", "select"} => handler[t].cmd \in Cmds
  /\ allowed \subseteq Targets /\ trusted \subseteq Targets
  /\ executed \in [Cmds -> [Targets -> Nat]]
  /\ orphaned \subseteq Cmds \X Targets
  /\ early \subseteq Cmds /\ stale \subseteq Cmds
  /\ drops \in 0..MaxDrops

\* An agent never dispatches a command twice, whatever is lost on the way.
AtMostOnceExecution == \A c \in Cmds, t \in Targets : executed[c][t] <= 1

\* All deliveries of the command have ended, and nobody is at work on it.
Settled(c) ==
  /\ left[c] = {}
  /\ DeliveryStates(c) # {} /\ DeliveryStates(c) \subseteq Terminal
  /\ \A t \in Targets : handler[t].cmd # c

\* What the panel shows of a command.  One shown as finished has no unfinished
\* delivery, unless it was aggregated while the batch was still inserting
\* deliveries; and once all have ended it shows their aggregate ("recalcula o
\* status agregado"), unless two completions overlapped (the one that read
\* first wrote last) or a handler stopped after it had recorded its result.
StatusFollowsDeliveries ==
  \A c \in Cmds :
    /\ status[c] \in Terminal /\ c \notin early =>
         DeliveryStates(c) \subseteq Terminal
    /\ Settled(c) /\ c \notin stale =>
         status[c] = Aggregate(DeliveryStates(c))

\* A recorded result of one machine is never overwritten.
ResultsAreFinal ==
  [][\A c \in Cmds, t \in Targets :
       delivery[c][t] \in Terminal => delivery'[c][t] = delivery[c][t]]_delivery

\* A delivery waits for as long as its machine does not poll or is not trusted:
\* from the time it does and is, every pending delivery ends with a result,
\* unless a fault orphans it.  One that was handed out ends in any case, whatever
\* becomes of the settings, unless a fault or a replaced secret orphans it.
DeliveriesEnd ==
  \A c \in Cmds, t \in Targets :
    /\ <>[](t \in allowed \cap trusted) =>
         (delivery[c][t] = "pending" ~>
            delivery[c][t] \in Terminal \/ <<c, t>> \in orphaned)
    /\ delivery[c][t] = "running" ~>
         delivery[c][t] \in Terminal \/ <<c, t>> \in orphaned

=============================================================================
