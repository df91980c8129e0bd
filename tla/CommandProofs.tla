--------------------------- MODULE CommandProofs ----------------------------
(***************************************************************************)
(* Theorems about CommandDelivery, for every set of agents and every bound *)
(* on commands and faults.                                                 *)
(***************************************************************************)
EXTENDS CommandDelivery, LocalCommands, SequenceTheorems, TLAPS

\* What one step of t's loop, of t's handler or of a fault may touch.
OthersKept(t) ==
  \A u \in Targets : u # t =>
    /\ handler'[u] = handler[u] /\ agent'[u] = agent[u]
    /\ \A c \in Cmds : delivery'[c][u] = delivery[c][u] /\ executed'[c][u] = executed[c][u]

HandlerTypes == [at : HandlerPlaces, cmd : 0..MaxCmds, value : Statuses, client : BOOLEAN]
AgentTypes   == [at : AgentPlaces, cmd : 0..MaxCmds, outcome : Statuses]

\* A handler and an agent in a state of their types.
Typed(h, a) ==
  /\ h \in HandlerTypes /\ (h.at \notin {"none", "verifyPoll", "select"} => h.cmd \in Cmds)
  /\ a \in AgentTypes /\ (a.at \in {"working", "reporting"} => a.cmd \in Cmds)

\* A step of one agent or its handler gives the two of them new values.
Gives(t, h, a) ==
  /\ handler' = [handler EXCEPT ![t] = h]
  /\ agent' = [agent EXCEPT ![t] = a]

\* The initial values are typed.
LEMMA IdleTyped == NoHandler \in HandlerTypes /\ Idle \in AgentTypes
<1>1. MaxCmds \in Nat
  BY MaxCmdsAssumption
<1>2. 0 \in 0..MaxCmds
  BY <1>1
<1>3. QED BY <1>2 DEF NoHandler, HandlerTypes, HandlerPlaces, Idle, AgentTypes, AgentPlaces,
                       Statuses, Terminal

\* The new values of one handler and one agent keep the types of all.
LEMMA OneTyped ==
  ASSUME TypeOK, NEW t \in Targets, NEW h, NEW a, Typed(h, a),
         handler' = [handler EXCEPT ![t] = h], agent' = [agent EXCEPT ![t] = a]
  PROVE  /\ handler' \in [Targets -> HandlerTypes] /\ agent' \in [Targets -> AgentTypes]
         /\ \A u \in Targets :
              /\ agent'[u].at \in {"working", "reporting"} => agent'[u].cmd \in Cmds
              /\ handler'[u].at \notin {"none", "verifyPoll", "select"} => handler'[u].cmd \in Cmds
<1>1. handler \in [Targets -> HandlerTypes] /\ agent \in [Targets -> AgentTypes]
  BY DEF TypeOK, HandlerTypes, AgentTypes
<1>2. h \in HandlerTypes /\ a \in AgentTypes
  BY DEF Typed
<1>3. handler' \in [Targets -> HandlerTypes] /\ agent' \in [Targets -> AgentTypes]
  BY <1>1, <1>2
<1>4. handler'[t] = h /\ agent'[t] = a
  BY <1>1
<1>5. \A u \in Targets : u # t => handler'[u] = handler[u] /\ agent'[u] = agent[u]
  BY <1>1
<1>6. ASSUME NEW u \in Targets
      PROVE  /\ agent'[u].at \in {"working", "reporting"} => agent'[u].cmd \in Cmds
             /\ handler'[u].at \notin {"none", "verifyPoll", "select"} => handler'[u].cmd \in Cmds
  BY <1>4, <1>5 DEF Typed, TypeOK
<1>7. QED BY <1>3, <1>6

\* The same with the tables that a step of an agent or of its handler changes.
LEMMA StepTyped ==
  ASSUME TypeOK, NEW t \in Targets, NEW h, NEW a, Typed(h, a),
         Gives(t, h, a), status' \in [Cmds -> Statuses], delivery' \in [Cmds -> [Targets -> Statuses]],
         executed' \in [Cmds -> [Targets -> Nat]],
         orphaned' \subseteq Cmds \X Targets, early' \subseteq Cmds, stale' \subseteq Cmds,
         drops' \in 0..MaxDrops, UNCHANGED <<batch, access>>
  PROVE  TypeOK'
  BY OneTyped DEF Gives, TypeOK, batch, access, HandlerTypes, AgentTypes

\* The first state is well typed.
LEMMA InitTypeOK == Init => TypeOK
<1> SUFFICES ASSUME Init PROVE TypeOK
  OBVIOUS
<1>1. NoHandler \in HandlerTypes /\ Idle \in AgentTypes
  BY IdleTyped
<1>2. handler \in [Targets -> HandlerTypes] /\ agent \in [Targets -> AgentTypes]
  BY <1>1 DEF Init
<1>3. 0 \in 0..MaxCmds /\ 0 \in 0..MaxDrops
  BY MaxCmdsAssumption, MaxDropsAssumption
<1>4. \A t \in Targets : agent[t].at = "idle" /\ handler[t].at = "none"
  BY DEF Init, NoHandler, Idle
<1>5. /\ status \in [Cmds -> Statuses] /\ delivery \in [Cmds -> [Targets -> Statuses]]
      /\ left \in [Cmds -> SUBSET Targets] /\ executed \in [Cmds -> [Targets -> Nat]]
  BY DEF Init, Statuses
<1>6. QED BY <1>2, <1>3, <1>4, <1>5 DEF Init, TypeOK, HandlerTypes, AgentTypes


\* An answer ends the handler and, if the agent waits for it, tells the agent.
LEMMA AnswerGives ==
  ASSUME TypeOK, NEW t \in Targets, NEW a, Answer(t, a)
  PROVE  Gives(t, NoHandler, IF handler[t].client THEN a ELSE agent[t])
<1>1. agent = [agent EXCEPT ![t] = agent[t]]
  BY DEF TypeOK
<1>2. QED BY <1>1 DEF Answer, Gives

\* A handler goes on to another statement, and its agent goes on waiting.
LEMMA HandlerGives ==
  ASSUME TypeOK, NEW t \in Targets, NEW to, HandlerTo(t, to)
  PROVE  /\ handler' = [handler EXCEPT ![t] = [handler[t] EXCEPT !.at = to]]
         /\ agent' = agent => Gives(t, [handler[t] EXCEPT !.at = to], agent[t])
<1>1. handler' = [handler EXCEPT ![t] = [handler[t] EXCEPT !.at = to]]
  BY DEF TypeOK, HandlerTo
<1>2. agent = [agent EXCEPT ![t] = agent[t]]
  BY DEF TypeOK
<1>3. QED BY <1>1, <1>2 DEF Gives

\* A poll starts a handler.
LEMMA AgentPollGives ==
  ASSUME TypeOK, NEW t \in Targets, AgentPoll(t)
  PROVE  Gives(t, [handler[t] EXCEPT !.at = "verifyPoll"], [agent[t] EXCEPT !.at = "waiting"])
  BY HandlerGives DEF AgentPoll, Gives, TypeOK

\* A poll finds nothing and ends, or goes on with a pending delivery.
LEMMA PollSelectGives ==
  ASSUME TypeOK, NEW t \in Targets, PollSelect(t)
  PROVE  \/ Gives(t, NoHandler, IF handler[t].client THEN Idle ELSE agent[t])
         \/ \E c \in Pending(t) :
              Gives(t, [handler[t] EXCEPT !.cmd = c, !.at = "markDelivery"], agent[t])
<1>1. CASE Answer(t, Idle)
  BY <1>1, AnswerGives
<1>2. ASSUME NEW c \in Pending(t), UNCHANGED agent,
             handler' = [handler EXCEPT ![t].cmd = c, ![t].at = "markDelivery"]
      PROVE  Gives(t, [handler[t] EXCEPT !.cmd = c, !.at = "markDelivery"], agent[t])
  <2>1. handler' = [handler EXCEPT ![t] = [handler[t] EXCEPT !.cmd = c, !.at = "markDelivery"]]
    BY <1>2 DEF TypeOK
  <2>2. agent' = [agent EXCEPT ![t] = agent[t]]
    BY <1>2 DEF TypeOK
  <2>3. QED BY <2>1, <2>2 DEF Gives
<1>3. QED BY <1>1, <1>2 DEF PollSelect

\* The agent has executed its command.
LEMMA AgentDispatchGives ==
  ASSUME TypeOK, NEW t \in Targets, AgentDispatch(t)
  PROVE  \E outcome \in {"completed", "failed"} :
           Gives(t, handler[t], [agent[t] EXCEPT !.at = "reporting", !.outcome = outcome])
<1>1. PICK outcome \in {"completed", "failed"} :
        agent' = [agent EXCEPT ![t].at = "reporting", ![t].outcome = outcome]
  BY DEF AgentDispatch
<1>2. agent' = [agent EXCEPT ![t] = [agent[t] EXCEPT !.at = "reporting", !.outcome = outcome]]
  BY <1>1 DEF TypeOK
<1>3. handler' = [handler EXCEPT ![t] = handler[t]]
  BY DEF AgentDispatch, TypeOK
<1>4. QED BY <1>2, <1>3 DEF Gives

\* The handler that a report starts.
Report(t) == [at |-> "verifyResult", cmd |-> agent[t].cmd, value |-> agent[t].outcome, client |-> TRUE]

\* The agent's result starts a handler.
LEMMA AgentReportGives ==
  ASSUME TypeOK, NEW t \in Targets, AgentReport(t)
  PROVE  Gives(t, Report(t), [agent[t] EXCEPT !.at = "waiting"])
  BY DEF AgentReport, Gives, Report, TypeOK

\* A completion keeps what it has made of the deliveries.
LEMMA CompleteReadGives ==
  ASSUME TypeOK, NEW t \in Targets, CompleteRead(t)
  PROVE  Gives(t, [handler[t] EXCEPT !.value = Aggregate(DeliveryStates(handler[t].cmd)),
                                     !.at = "write"], agent[t])
<1> DEFINE value == Aggregate(DeliveryStates(handler[t].cmd))
<1>1. handler' = [handler EXCEPT ![t].value = value, ![t].at = "write"] /\ agent' = agent
  BY DEF CompleteRead
<1> HIDE DEF value
<1>2. handler' = [handler EXCEPT ![t] = [handler[t] EXCEPT !.value = value, !.at = "write"]]
  BY <1>1 DEF TypeOK
<1>3. agent' = [agent EXCEPT ![t] = agent[t]]
  BY <1>1 DEF TypeOK
<1>4. Gives(t, [handler[t] EXCEPT !.value = value, !.at = "write"], agent[t])
  BY <1>2, <1>3 DEF Gives
<1>5. QED BY <1>4 DEF value

\* A lost connection sends the agent back to sleep.
LEMMA ConnectionLostGives ==
  ASSUME TypeOK, NEW t \in Targets, ConnectionLost(t)
  PROVE  \/ Gives(t, NoHandler, Idle)
         \/ Gives(t, [handler[t] EXCEPT !.client = FALSE], Idle)
  BY DEF ConnectionLost, Gives, TypeOK

\* A fault of the agent leaves the server alone.
LEMMA AgentForgetsGives ==
  ASSUME TypeOK, NEW t \in Targets, AgentForgets(t)
  PROVE  Gives(t, handler[t], Idle)
  BY DEF AgentForgets, Gives, TypeOK


\* The steps of batches, which leave agents and their handlers alone.
LEMMA BatchTypeOK ==
  ASSUME TypeOK,
         \/ \E targets \in SUBSET Targets : BatchAccept(targets)
         \/ \E c \in Cmds : BatchStep(c) \/ BatchAbort(c)
  PROVE  TypeOK'
<1> USE MaxCmdsAssumption, MaxDropsAssumption
<1>1. ASSUME NEW targets \in SUBSET Targets, BatchAccept(targets) PROVE TypeOK'
  <2>1. issued + 1 \in Cmds /\ issued' \in 0..MaxCmds
    BY <1>1 DEF BatchAccept, TypeOK, Cmds
  <2>2. left' \in [Cmds -> SUBSET Targets]
    BY <1>1 DEF BatchAccept, TypeOK
  <2>3. QED BY <1>1, <2>1, <2>2 DEF BatchAccept, TypeOK, access, store, observed
<1>2. ASSUME NEW c \in Cmds, BatchInsertCommand(c) PROVE TypeOK'
  <2>1. status' \in [Cmds -> Statuses]
    BY <1>2 DEF BatchInsertCommand, TypeOK, Statuses
  <2>2. QED BY <1>2, <2>1 DEF BatchInsertCommand, TypeOK, access, batch, observed
<1>3. ASSUME NEW c \in Cmds, NEW t \in Targets, BatchInsertDelivery(c, t) PROVE TypeOK'
  <2>1. /\ delivery' \in [Cmds -> [Targets -> Statuses]]
        /\ left' \in [Cmds -> SUBSET Targets]
    BY <1>3 DEF BatchInsertDelivery, TypeOK, Statuses
  <2>2. QED BY <1>3, <2>1 DEF BatchInsertDelivery, TypeOK, access, observed
<1>4. ASSUME NEW c \in Cmds, BatchAbort(c) PROVE TypeOK'
  <2>1. left' \in [Cmds -> SUBSET Targets]
    BY <1>4 DEF BatchAbort, TypeOK
  <2>2. drops' \in 0..MaxDrops
    BY <1>4 DEF BatchAbort, TypeOK
  <2>3. QED BY <1>4, <2>1, <2>2 DEF BatchAbort, TypeOK, access, store
<1>5. QED BY <1>1, <1>2, <1>3, <1>4 DEF BatchStep

\* What an aggregate is.
LEMMA AggregateType == \A states : Aggregate(states) \in Statuses \ {"absent", "pending"}
  BY DEF Aggregate, Statuses, Terminal

\* No step leaves the types.
LEMMA TypeOKStep == TypeOK /\ [Next]_vars => TypeOK'
<1> SUFFICES ASSUME TypeOK, [Next]_vars PROVE TypeOK'
  OBVIOUS
<1> USE MaxCmdsAssumption, MaxDropsAssumption
<1>1. ASSUME \/ \E targets \in SUBSET Targets : BatchAccept(targets)
             \/ \E c \in Cmds : BatchStep(c) \/ BatchAbort(c)
      PROVE  TypeOK'
  BY <1>1, BatchTypeOK
<1>2. ASSUME NEW t \in Targets,
             \/ HandlerStep(t) \/ AgentStep(t) \/ ConnectionLost(t) \/ AgentForgets(t)
      PROVE  TypeOK'
  <2>1. /\ handler[t] \in HandlerTypes /\ agent[t] \in AgentTypes
        /\ agent[t].at \in {"working", "reporting"} => agent[t].cmd \in Cmds
        /\ handler[t].at \notin {"none", "verifyPoll", "select"} => handler[t].cmd \in Cmds
    BY DEF TypeOK, HandlerTypes, AgentTypes
  <2>2. /\ NoHandler \in HandlerTypes /\ NoHandler.at = "none"
        /\ Idle \in AgentTypes /\ Idle.at = "idle"
    BY IdleTyped DEF NoHandler, Idle
  <2>3. Typed(handler[t], agent[t]) /\ Typed(NoHandler, Idle) /\ Typed(handler[t], Idle)
        /\ Typed(NoHandler, agent[t])
    BY <2>1, <2>2 DEF Typed
  <2>4. ASSUME NEW to \in {"select", "markDelivery", "markCommand", "reply", "check", "record", "read", "write"},
               to # "select" => handler[t].at \notin {"none", "verifyPoll", "select"}
        PROVE  Typed([handler[t] EXCEPT !.at = to], agent[t])
    BY <2>1, <2>4 DEF Typed, HandlerTypes, HandlerPlaces
  <2>5. ASSUME UNCHANGED <<status, delivery, executed, orphaned, early, stale, drops, batch, access>>,
               NEW h, NEW a, Typed(h, a), Gives(t, h, a)
        PROVE  TypeOK'
    BY <2>5, StepTyped DEF Gives, TypeOK
  <2>6. CASE AgentPoll(t)
    <3>1. Typed([handler[t] EXCEPT !.at = "verifyPoll"], [agent[t] EXCEPT !.at = "waiting"])
      BY <2>1 DEF Typed, HandlerTypes, HandlerPlaces, AgentTypes, AgentPlaces
    <3>2. QED BY <2>5, <2>6, <3>1, AgentPollGives DEF AgentPoll, store, observed
  <2>7. CASE PollSelect(t)
    <3>1. UNCHANGED <<status, delivery, executed, orphaned, early, stale, drops, batch, access>>
      BY <2>7 DEF PollSelect, store, observed
    <3>2. CASE Gives(t, NoHandler, IF handler[t].client THEN Idle ELSE agent[t])
      BY <2>3, <2>5, <3>1, <3>2
    <3>3. ASSUME NEW c \in Pending(t),
                 Gives(t, [handler[t] EXCEPT !.cmd = c, !.at = "markDelivery"], agent[t])
          PROVE  TypeOK'
      <4>1. c \in Cmds /\ c \in 0..MaxCmds
        BY DEF Pending, Cmds
      <4>2. Typed([handler[t] EXCEPT !.cmd = c, !.at = "markDelivery"], agent[t])
        BY <2>1, <4>1 DEF Typed, HandlerTypes, HandlerPlaces
      <4>3. QED BY <2>5, <3>1, <3>3, <4>2
    <3>4. QED BY <2>7, <3>2, <3>3, PollSelectGives
  <2>8. CASE PollMarkDelivery(t)
    <3>1. Gives(t, [handler[t] EXCEPT !.at = "markCommand"], agent[t])
      BY <2>8, HandlerGives DEF PollMarkDelivery
    <3>2. Typed([handler[t] EXCEPT !.at = "markCommand"], agent[t])
      BY <2>4, <2>8 DEF PollMarkDelivery, AtHandler
    <3>3. delivery' \in [Cmds -> [Targets -> Statuses]]
      BY <2>8 DEF PollMarkDelivery, TypeOK, Statuses
    <3>4. QED BY <2>8, <3>1, <3>2, <3>3, StepTyped DEF PollMarkDelivery, Gives, TypeOK, observed
  <2>9. CASE PollMarkCommand(t)
    <3>1. Gives(t, [handler[t] EXCEPT !.at = "reply"], agent[t])
      BY <2>9, HandlerGives DEF PollMarkCommand
    <3>2. Typed([handler[t] EXCEPT !.at = "reply"], agent[t])
      BY <2>4, <2>9 DEF PollMarkCommand, AtHandler
    <3>3. status' \in [Cmds -> Statuses]
      BY <2>9 DEF PollMarkCommand, TypeOK, Statuses
    <3>4. QED BY <2>9, <3>1, <3>2, <3>3, StepTyped DEF PollMarkCommand, Gives, TypeOK, observed
  <2>10. CASE PollReply(t)
    <3> DEFINE c == handler[t].cmd
               a == [Idle EXCEPT !.at = "working", !.cmd = c]
    <3>1. c \in Cmds /\ c \in 0..MaxCmds
      BY <2>1, <2>10 DEF PollReply, AtHandler, Cmds
    <3>2. Typed(NoHandler, a)
      BY <2>2, <3>1 DEF Typed, AgentTypes, AgentPlaces
    <3>3. Gives(t, NoHandler, IF handler[t].client THEN a ELSE agent[t])
      BY <2>10, AnswerGives DEF PollReply
    <3>4. orphaned' \subseteq Cmds \X Targets
      BY <2>10, <3>1 DEF PollReply, TypeOK
    <3>5. Typed(NoHandler, IF handler[t].client THEN a ELSE agent[t])
      BY <2>3, <3>2
    <3> HIDE DEF c, a
    <3>6. QED BY <2>10, <3>3, <3>4, <3>5, StepTyped DEF PollReply, Gives, TypeOK, store
  <2>11. CASE AgentDispatch(t)
    <3>1. PICK outcome \in {"completed", "failed"} :
            Gives(t, handler[t], [agent[t] EXCEPT !.at = "reporting", !.outcome = outcome])
      BY <2>11, AgentDispatchGives
    <3>2. Typed(handler[t], [agent[t] EXCEPT !.at = "reporting", !.outcome = outcome])
      BY <2>1, <2>11 DEF AgentDispatch, Typed, AgentTypes, AgentPlaces, Statuses, Terminal
    <3>3. executed' \in [Cmds -> [Targets -> Nat]]
      BY <2>11 DEF AgentDispatch, TypeOK
    <3>4. /\ UNCHANGED <<status, delivery, orphaned, early, stale, drops, batch, access>>
          /\ status' \in [Cmds -> Statuses] /\ delivery' \in [Cmds -> [Targets -> Statuses]]
          /\ orphaned' \subseteq Cmds \X Targets /\ early' \subseteq Cmds
          /\ stale' \subseteq Cmds /\ drops' \in 0..MaxDrops
      BY <2>11 DEF AgentDispatch, TypeOK, store
    <3>5. QED BY <3>1, <3>2, <3>3, <3>4, StepTyped
  <2>12. CASE AgentReport(t)
    <3>1. Typed(Report(t), [agent[t] EXCEPT !.at = "waiting"])
      BY <2>1, <2>12 DEF AgentReport, Report, Typed, HandlerTypes, HandlerPlaces, AgentTypes, AgentPlaces
    <3>2. QED BY <2>5, <2>12, <3>1, AgentReportGives DEF AgentReport, store, observed
  <2>13. CASE CompleteCheck(t)
    <3>1. UNCHANGED <<status, delivery, executed, orphaned, early, stale, drops, batch, access>>
      BY <2>13 DEF CompleteCheck, store, observed
    <3>2. CASE Answer(t, Idle)
      BY <2>3, <2>5, <3>1, <3>2, AnswerGives
    <3>3. CASE HandlerTo(t, "record") /\ UNCHANGED agent
      BY <2>4, <2>5, <2>13, <3>1, <3>3, HandlerGives DEF CompleteCheck, AtHandler
    <3>4. QED BY <2>13, <3>2, <3>3 DEF CompleteCheck
  <2>14. CASE CompleteRecord(t)
    <3>1. Gives(t, [handler[t] EXCEPT !.at = "read"], agent[t])
      BY <2>14, HandlerGives DEF CompleteRecord
    <3>2. Typed([handler[t] EXCEPT !.at = "read"], agent[t])
      BY <2>4, <2>14 DEF CompleteRecord, AtHandler
    <3>3. delivery' \in [Cmds -> [Targets -> Statuses]]
      BY <2>1, <2>14 DEF CompleteRecord, TypeOK, HandlerTypes
    <3>4. stale' \subseteq Cmds
      BY <2>1, <2>14 DEF CompleteRecord, TypeOK, Overtaken, AtHandler
    <3>5. /\ status' \in [Cmds -> Statuses] /\ executed' \in [Cmds -> [Targets -> Nat]]
          /\ orphaned' \subseteq Cmds \X Targets /\ early' \subseteq Cmds
          /\ drops' \in 0..MaxDrops /\ UNCHANGED <<batch, access>>
      BY <2>14 DEF CompleteRecord, TypeOK
    <3>6. QED BY <3>1, <3>2, <3>3, <3>4, <3>5, StepTyped
  <2>15. CASE CompleteRead(t)
    <3> DEFINE value == Aggregate(DeliveryStates(handler[t].cmd))
    <3>1. value \in Statuses
      BY AggregateType
    <3>2. Typed([handler[t] EXCEPT !.value = value, !.at = "write"], agent[t])
      BY <2>1, <2>15, <3>1 DEF CompleteRead, AtHandler, Typed, HandlerTypes, HandlerPlaces
    <3>3. Gives(t, [handler[t] EXCEPT !.value = value, !.at = "write"], agent[t])
      BY <2>15, CompleteReadGives
    <3>4. early' \subseteq Cmds
      BY <2>1, <2>15 DEF CompleteRead, TypeOK, AtHandler
    <3> HIDE DEF value
    <3>5. /\ status' \in [Cmds -> Statuses] /\ delivery' \in [Cmds -> [Targets -> Statuses]]
          /\ executed' \in [Cmds -> [Targets -> Nat]]
          /\ orphaned' \subseteq Cmds \X Targets /\ stale' \subseteq Cmds
          /\ drops' \in 0..MaxDrops /\ UNCHANGED <<batch, access>>
      BY <2>15 DEF CompleteRead, TypeOK, store
    <3>6. QED BY <3>2, <3>3, <3>4, <3>5, StepTyped
  <2>16. CASE CompleteWrite(t)
    <3>1. Gives(t, NoHandler, IF handler[t].client THEN Idle ELSE agent[t])
      BY <2>16, AnswerGives DEF CompleteWrite
    <3>2. status' \in [Cmds -> Statuses]
      BY <2>1, <2>16 DEF CompleteWrite, TypeOK, HandlerTypes
    <3>3. QED BY <2>3, <2>16, <3>1, <3>2, StepTyped DEF CompleteWrite, Gives, TypeOK, observed
  <2>17. CASE ConnectionLost(t)
    <3>1. \/ Gives(t, NoHandler, Idle)
          \/ Gives(t, [handler[t] EXCEPT !.client = FALSE], Idle)
      BY <2>17, ConnectionLostGives
    <3>2. Typed([handler[t] EXCEPT !.client = FALSE], Idle)
      BY <2>1, <2>3 DEF Typed, HandlerTypes
    <3>3. Abandoned(t) \subseteq Cmds \X Targets /\ Unwritten(t) \subseteq Cmds
      BY <2>1 DEF Abandoned, Unwritten
    <3>4. orphaned' \subseteq Cmds \X Targets /\ stale' \subseteq Cmds
      BY <2>17, <3>3 DEF ConnectionLost, TypeOK
    <3>5. drops' \in 0..MaxDrops
      BY <2>17 DEF ConnectionLost, TypeOK
    <3>6. /\ status' \in [Cmds -> Statuses] /\ delivery' \in [Cmds -> [Targets -> Statuses]]
          /\ executed' \in [Cmds -> [Targets -> Nat]]
          /\ early' \subseteq Cmds /\ UNCHANGED <<batch, access>>
      BY <2>17 DEF ConnectionLost, TypeOK, store
    <3>7. QED BY <2>3, <3>1, <3>2, <3>4, <3>5, <3>6, StepTyped
  <2>18. CASE AgentForgets(t)
    <3>1. Gives(t, handler[t], Idle)
      BY <2>18, AgentForgetsGives
    <3>2. orphaned' \subseteq Cmds \X Targets
      BY <2>1, <2>18 DEF AgentForgets, TypeOK
    <3>3. drops' \in 0..MaxDrops
      BY <2>18 DEF AgentForgets, TypeOK
    <3>4. QED BY <2>3, <2>18, <3>1, <3>2, <3>3, StepTyped DEF AgentForgets, Gives, TypeOK, store
  <2>19. CASE VerifyPoll(t)
    <3>1. UNCHANGED <<status, delivery, executed, orphaned, early, stale, drops, batch, access>>
      BY <2>19 DEF VerifyPoll, store, observed
    <3>2. CASE Answer(t, Idle)
      BY <2>3, <2>5, <3>1, <3>2, AnswerGives
    <3>3. CASE HandlerTo(t, "select") /\ UNCHANGED agent
      BY <2>4, <2>5, <3>1, <3>3, HandlerGives
    <3>4. QED BY <2>19, <3>2, <3>3 DEF VerifyPoll
  <2>20. CASE VerifyResult(t)
    <3>1. /\ handler[t].at = "verifyResult" /\ handler[t].cmd \in Cmds
          /\ UNCHANGED <<status, delivery, executed, early, stale, drops, batch, access>>
      BY <2>1, <2>20 DEF VerifyResult, AtHandler, store
    <3>2. orphaned' \subseteq Cmds \X Targets
      BY <2>20, <3>1 DEF VerifyResult, TypeOK
    <3>3. ASSUME NEW h, NEW a, Typed(h, a), Gives(t, h, a) PROVE TypeOK'
      BY <3>1, <3>2, <3>3, StepTyped DEF Gives, TypeOK
    <3>4. CASE Answer(t, Idle)
      BY <2>3, <3>3, <3>4, AnswerGives
    <3>5. CASE HandlerTo(t, "check") /\ UNCHANGED agent
      BY <2>4, <3>1, <3>3, <3>5, HandlerGives
    <3>6. QED BY <2>20, <3>4, <3>5 DEF VerifyResult
  <2>21. QED BY <1>2, <2>6, <2>7, <2>8, <2>9, <2>10, <2>11, <2>12, <2>13, <2>14,
                <2>15, <2>16, <2>17, <2>18, <2>19, <2>20 DEF HandlerStep, AgentStep
<1>3. CASE UNCHANGED vars
  BY <1>3 DEF TypeOK, vars, store, batch, access, observed
<1>4. ASSUME NEW t \in Targets, AccessChange(t) PROVE TypeOK'
  <2>1. UNCHANGED <<store, batch, handler, agent, executed, orphaned, early, stale>>
    BY <1>4 DEF AccessChange, SettingsChange, SecretsChange
  <2>2. allowed' \subseteq Targets /\ trusted' \subseteq Targets
    BY <1>4 DEF AccessChange, SettingsChange, SecretsChange, TypeOK
  <2>3. drops' \in 0..MaxDrops
    BY <1>4 DEF AccessChange, SettingsChange, SecretsChange, TypeOK
  <2>4. QED BY <2>1, <2>2, <2>3 DEF TypeOK, store, batch
<1>5. QED BY <1>1, <1>2, <1>3, <1>4 DEF Next

\* The variables of the server, of its handlers and of the agents keep their
\* types; a handler that is past its selection has a command.
THEOREM TypeInvariant == Spec => []TypeOK
  BY InitTypeOK, TypeOKStep, PTL DEF Spec


-----------------------------------------------------------------------------
(***************************************************************************)
(* Executions and results.  That no command is executed twice by an agent  *)
(* is not inductive: one must know that an assignment in somebody's hands  *)
(* is still running and not executed, and that nobody but the agent's own  *)
(* handler touches its deliveries.                                         *)
(***************************************************************************)

\* A command that is not yet delivered to t has not been executed there, and a
\* batch has no row for what it has still to insert.
DeliveryRows(t) ==
  \A c \in Cmds :
    /\ executed[c][t] <= 1
    /\ delivery[c][t] \in {"absent", "pending"} => executed[c][t] = 0
    /\ t \in left[c] => delivery[c][t] = "absent"
    /\ c > issued => t \notin left[c] /\ delivery[c][t] = "absent"

\* What t's handler knows of the delivery it is about to change.
HandlerHolds(t) ==
  LET c == handler[t].cmd
  IN  /\ handler[t].at = "markDelivery" => delivery[c][t] = "pending"
      /\ handler[t].at \in {"markCommand", "reply"} =>
           delivery[c][t] = "running" /\ executed[c][t] = 0
      /\ handler[t].at = "record" => delivery[c][t] = "running"
      /\ handler[t].at \in {"verifyResult", "check", "record"} => handler[t].value \in {"completed", "failed"}

\* What t's agent holds in its hands; it has no handler then.
AgentHolds(t) ==
  LET c == agent[t].cmd
  IN  /\ handler[t].at # "none" => agent[t].at \in {"idle", "waiting"}
      /\ agent[t].at \in {"working", "reporting"} => delivery[c][t] = "running"
      /\ agent[t].at = "working" => executed[c][t] = 0
      /\ agent[t].at = "reporting" => agent[t].outcome \in {"completed", "failed"}

Sound(t) == DeliveryRows(t) /\ HandlerHolds(t) /\ AgentHolds(t)

DeliveryInv == TypeOK /\ \A t \in Targets : Sound(t)

\* Nothing is issued, assigned or executed at first.
LEMMA InitDelivery == Init => DeliveryInv
<1> SUFFICES ASSUME Init PROVE DeliveryInv
  OBVIOUS
<1>1. ASSUME NEW t \in Targets PROVE Sound(t)
  BY DEF Init, Sound, DeliveryRows, HandlerHolds, AgentHolds, NoHandler, Idle
<1>2. QED BY <1>1, InitTypeOK DEF DeliveryInv

\* What is said of u depends on u's own entries only.
LEMMA SoundFrame ==
  ASSUME NEW u \in Targets, Sound(u), UNCHANGED batch,
         handler'[u] = handler[u], agent'[u] = agent[u],
         \A c \in Cmds : delivery'[c][u] = delivery[c][u] /\ executed'[c][u] = executed[c][u],
         handler[u].at \notin {"none", "verifyPoll", "select"} => handler[u].cmd \in Cmds,
         agent[u].at \in {"working", "reporting"} => agent[u].cmd \in Cmds
  PROVE  Sound(u)'
<1>1. DeliveryRows(u)'
  BY DEF Sound, DeliveryRows, batch
<1>2. HandlerHolds(u)'
  BY DEF Sound, HandlerHolds
<1>3. AgentHolds(u)'
  BY DEF Sound, AgentHolds
<1>4. QED BY <1>1, <1>2, <1>3 DEF Sound

\* The steps of batches.
LEMMA BatchSound ==
  ASSUME DeliveryInv, NEW u \in Targets,
         \/ \E targets \in SUBSET Targets : BatchAccept(targets)
         \/ \E c \in Cmds : BatchStep(c) \/ BatchAbort(c)
  PROVE  Sound(u)'
<1> USE MaxCmdsAssumption DEF DeliveryInv
<1>0. /\ Sound(u) /\ TypeOK
      /\ handler[u].at \notin {"none", "verifyPoll", "select"} => handler[u].cmd \in Cmds
      /\ agent[u].at \in {"working", "reporting"} => agent[u].cmd \in Cmds
  BY DEF TypeOK
<1>1. ASSUME NEW targets \in SUBSET Targets, BatchAccept(targets) PROVE Sound(u)'
  <2>1. UNCHANGED <<handler, agent, delivery, executed>>
    BY <1>1 DEF BatchAccept, store, observed
  <2>2. HandlerHolds(u)' /\ AgentHolds(u)'
    BY <1>0, <2>1 DEF Sound, HandlerHolds, AgentHolds
  <2>3. /\ issued \in Nat /\ issued' = issued + 1 /\ Cmds \subseteq Nat
        /\ \A c \in Cmds : c # issued + 1 => left'[c] = left[c]
    BY <1>0, <1>1 DEF BatchAccept, TypeOK, Cmds
  <2>4. ASSUME NEW c \in Cmds
        PROVE  /\ u \in left'[c] => delivery[c][u] = "absent"
               /\ c > issued' => u \notin left'[c] /\ delivery[c][u] = "absent"
    BY <1>0, <2>3 DEF Sound, DeliveryRows
  <2>5. DeliveryRows(u)'
    BY <1>0, <2>1, <2>4 DEF Sound, DeliveryRows
  <2>6. QED BY <2>2, <2>5 DEF Sound
<1>2. ASSUME NEW c \in Cmds, BatchInsertCommand(c) PROVE Sound(u)'
  BY <1>0, <1>2, SoundFrame DEF BatchInsertCommand, observed
<1>3. ASSUME NEW c \in Cmds, NEW t \in Targets, BatchInsertDelivery(c, t) PROVE Sound(u)'
  <2>1. UNCHANGED <<handler, agent, executed, issued>>
    BY <1>3 DEF BatchInsertDelivery, observed
  <2>2. /\ t \in left[c] /\ delivery[c][t] = "absent"
        /\ c <= issued
    BY <1>3 DEF BatchInsertDelivery, Sound, DeliveryRows, TypeOK, Cmds
  <2>3. /\ \A d \in Cmds : left'[d] = IF d = c THEN left[d] \ {t} ELSE left[d]
        /\ \A d \in Cmds : delivery'[d][u] = IF d = c /\ u = t THEN "pending" ELSE delivery[d][u]
    BY <1>0, <1>3 DEF BatchInsertDelivery, TypeOK
  <2>4. ASSUME NEW d \in Cmds
        PROVE  /\ delivery'[d][u] \in {"absent", "pending"} => executed[d][u] = 0
               /\ u \in left'[d] => delivery'[d][u] = "absent"
               /\ d > issued => u \notin left'[d] /\ delivery'[d][u] = "absent"
    <3>1. CASE d = c /\ u = t
      <4>1. executed[d][u] = 0 /\ u \notin left'[d] /\ d <= issued
        BY <1>0, <2>2, <2>3, <3>1 DEF Sound, DeliveryRows
      <4>2. d \in Nat /\ issued \in Nat
        BY <1>0 DEF TypeOK, Cmds
      <4>3. QED BY <4>1, <4>2
    <3>2. CASE d # c \/ u # t
      <4>1. delivery'[d][u] = delivery[d][u] /\ left'[d] \subseteq left[d]
        BY <2>3, <3>2
      <4>2. QED BY <1>0, <4>1 DEF Sound, DeliveryRows
    <3>3. QED BY <3>1, <3>2
  <2>5. DeliveryRows(u)'
    BY <1>0, <2>1, <2>4 DEF Sound, DeliveryRows
  <2>6. ASSUME NEW d \in Cmds, delivery[d][u] \in {"pending", "running"}
        PROVE  delivery'[d][u] = delivery[d][u]
    BY <2>2, <2>3, <2>6
  <2>7. HandlerHolds(u)' /\ AgentHolds(u)'
    BY <1>0, <2>1, <2>6 DEF Sound, HandlerHolds, AgentHolds
  <2>8. QED BY <2>5, <2>7 DEF Sound
<1>4. ASSUME NEW c \in Cmds, BatchAbort(c) PROVE Sound(u)'
  <2>1. /\ UNCHANGED <<handler, agent, executed, issued, delivery>>
        /\ \A d \in Cmds : left'[d] \subseteq left[d]
    BY <1>0, <1>4 DEF BatchAbort, TypeOK, store
  <2>2. QED BY <1>0, <2>1 DEF Sound, DeliveryRows, HandlerHolds, AgentHolds
<1>5. QED BY <1>1, <1>2, <1>3, <1>4 DEF BatchStep

\* A step of one agent, of its handler or of a fault leaves the others alone.
LEMMA OneAtATime ==
  ASSUME TypeOK, NEW t \in Targets,
         HandlerStep(t) \/ AgentStep(t) \/ ConnectionLost(t) \/ AgentForgets(t)
  PROVE  OthersKept(t) /\ UNCHANGED batch
<1>1. ASSUME NEW h, NEW a, Gives(t, h, a), UNCHANGED <<delivery, executed>> PROVE OthersKept(t)
  BY <1>1 DEF OthersKept, Gives, TypeOK
<1>2. CASE AgentPoll(t)
  BY <1>1, <1>2, AgentPollGives DEF AgentPoll, store, observed
<1>3. CASE PollSelect(t)
  BY <1>1, <1>3, PollSelectGives DEF PollSelect, store, observed
<1>4. CASE PollMarkDelivery(t)
  BY <1>4 DEF PollMarkDelivery, HandlerTo, OthersKept, TypeOK, observed
<1>5. CASE PollMarkCommand(t)
  BY <1>5 DEF PollMarkCommand, HandlerTo, OthersKept, TypeOK, observed
<1>6. CASE PollReply(t)
  <2>1. UNCHANGED <<delivery, executed, batch>>
    BY <1>6 DEF PollReply, store
  <2>2. PICK a : Answer(t, a)
    BY <1>6 DEF PollReply
  <2>3. Gives(t, NoHandler, IF handler[t].client THEN a ELSE agent[t])
    BY <2>2, AnswerGives
  <2>4. QED BY <1>1, <2>1, <2>3
<1>7. CASE AgentDispatch(t)
  BY <1>7 DEF AgentDispatch, OthersKept, TypeOK, store
<1>8. CASE AgentReport(t)
  BY <1>1, <1>8, AgentReportGives DEF AgentReport, store, observed
<1>9. CASE CompleteCheck(t)
  <2>1. UNCHANGED <<delivery, executed, batch>>
    BY <1>9 DEF CompleteCheck, store, observed
  <2>2. CASE HandlerTo(t, "record") /\ UNCHANGED agent
    BY <1>1, <2>1, <2>2, HandlerGives
  <2>3. CASE Answer(t, Idle)
    BY <1>1, <2>1, <2>3, AnswerGives
  <2>4. QED BY <1>9, <2>1, <2>2, <2>3 DEF CompleteCheck
<1>10. CASE CompleteRecord(t)
  BY <1>10 DEF CompleteRecord, HandlerTo, OthersKept, TypeOK
<1>11. CASE CompleteRead(t)
  BY <1>1, <1>11, CompleteReadGives DEF CompleteRead, store
<1>12. CASE CompleteWrite(t)
  BY <1>1, <1>12, AnswerGives DEF CompleteWrite, observed
<1>13. CASE ConnectionLost(t)
  BY <1>1, <1>13, ConnectionLostGives DEF ConnectionLost, store
<1>14. CASE AgentForgets(t)
  BY <1>1, <1>14, AgentForgetsGives DEF AgentForgets, store
<1>15. CASE VerifyPoll(t)
  <2>1. UNCHANGED <<delivery, executed, batch>>
    BY <1>15 DEF VerifyPoll, store, observed
  <2>2. CASE HandlerTo(t, "select") /\ UNCHANGED agent
    BY <1>1, <2>1, <2>2, HandlerGives
  <2>3. CASE Answer(t, Idle)
    BY <1>1, <2>1, <2>3, AnswerGives
  <2>4. QED BY <1>15, <2>1, <2>2, <2>3 DEF VerifyPoll
<1>16. CASE VerifyResult(t)
  <2>1. UNCHANGED <<delivery, executed, batch>>
    BY <1>16 DEF VerifyResult, store
  <2>2. CASE HandlerTo(t, "check") /\ UNCHANGED agent
    BY <1>1, <2>1, <2>2, HandlerGives
  <2>3. CASE Answer(t, Idle)
    BY <1>1, <2>1, <2>3, AnswerGives
  <2>4. QED BY <1>16, <2>1, <2>2, <2>3 DEF VerifyResult
<1>17. QED BY <1>2, <1>3, <1>4, <1>5, <1>6, <1>7, <1>8, <1>9, <1>10, <1>11, <1>12, <1>13,
              <1>14, <1>15, <1>16 DEF HandlerStep, AgentStep

\* What is said of t when its deliveries and executions do not change.
LEMMA SameRows ==
  ASSUME NEW t \in Targets, DeliveryRows(t), UNCHANGED batch,
         \A c \in Cmds : delivery'[c][t] = delivery[c][t] /\ executed'[c][t] = executed[c][t]
  PROVE  DeliveryRows(t)'
  BY DEF DeliveryRows, batch

\* The steps of an agent and of its handler, and the faults, for the agent
\* itself.
LEMMA OwnSound ==
  ASSUME DeliveryInv, NEW t \in Targets,
         HandlerStep(t) \/ AgentStep(t) \/ ConnectionLost(t) \/ AgentForgets(t)
  PROVE  Sound(t)'
<1>1. /\ TypeOK /\ DeliveryRows(t) /\ HandlerHolds(t) /\ AgentHolds(t) /\ UNCHANGED batch
      /\ handler[t].at \notin {"none", "verifyPoll", "select"} => handler[t].cmd \in Cmds
      /\ agent[t].at \in {"working", "reporting"} => agent[t].cmd \in Cmds
      /\ handler[t] \in HandlerTypes /\ agent[t] \in AgentTypes
  BY OneAtATime DEF DeliveryInv, Sound, TypeOK, HandlerTypes, AgentTypes
<1>2. ASSUME NEW h, NEW a, Gives(t, h, a)
      PROVE  handler'[t] = h /\ agent'[t] = a
  BY <1>1, <1>2 DEF Gives, TypeOK
<1>3. NoHandler.at = "none" /\ Idle.at = "idle"
  BY DEF NoHandler, Idle
<1>4. ASSUME UNCHANGED <<delivery, executed>>, NEW h, NEW a, Gives(t, h, a),
             h.at = "none" \/ (h.at = handler[t].at /\ h.cmd = handler[t].cmd
                                 /\ h.value = handler[t].value),
             a.at \in {"idle", "waiting"} \/ (a = agent[t] /\ h.at = "none")
      PROVE  Sound(t)'
  <2>1. DeliveryRows(t)'
    BY <1>1, <1>4, SameRows
  <2>2. handler'[t] = h /\ agent'[t] = a
    BY <1>2, <1>4
  <2>3. HandlerHolds(t)'
    BY <1>1, <1>4, <2>2 DEF HandlerHolds
  <2>4. AgentHolds(t)'
    BY <1>1, <1>4, <2>2 DEF AgentHolds
  <2>5. QED BY <2>1, <2>3, <2>4 DEF Sound
<1>5. CASE AgentPoll(t)
  <2>1. /\ UNCHANGED <<delivery, executed>> /\ handler'[t].at = "verifyPoll"
        /\ agent'[t].at = "waiting"
    BY <1>1, <1>5 DEF AgentPoll, HandlerTo, TypeOK, store, observed
  <2>2. DeliveryRows(t)' /\ HandlerHolds(t)' /\ AgentHolds(t)'
    BY <1>1, <2>1, SameRows DEF HandlerHolds, AgentHolds
  <2>3. QED BY <2>2 DEF Sound
<1>6. CASE PollSelect(t)
  <2>1. UNCHANGED <<delivery, executed>> /\ handler[t].at = "select"
    BY <1>6 DEF PollSelect, store, observed, AtHandler
  <2>2. agent[t].at \in {"idle", "waiting"}
    BY <1>1, <2>1 DEF AgentHolds
  <2>3. CASE Gives(t, NoHandler, IF handler[t].client THEN Idle ELSE agent[t])
    BY <1>3, <1>4, <2>1, <2>2, <2>3
  <2>4. ASSUME NEW c \in Pending(t),
               Gives(t, [handler[t] EXCEPT !.cmd = c, !.at = "markDelivery"], agent[t])
        PROVE  Sound(t)'
    <3>1. handler'[t].at = "markDelivery" /\ handler'[t].cmd = c /\ agent'[t] = agent[t]
      BY <1>1, <2>4 DEF Gives, TypeOK
    <3>2. c \in Cmds /\ delivery'[c][t] = "pending"
      BY <2>1 DEF Pending
    <3>3. DeliveryRows(t)' /\ HandlerHolds(t)' /\ AgentHolds(t)'
      BY <1>1, <2>1, <2>2, <3>1, <3>2, SameRows DEF HandlerHolds, AgentHolds
    <3>4. QED BY <3>3 DEF Sound
  <2>5. QED BY <1>1, <1>6, <2>3, <2>4, PollSelectGives
<1>7. CASE PollMarkDelivery(t)
  <2> DEFINE c == handler[t].cmd
  <2>1. /\ c \in Cmds /\ delivery[c][t] = "pending" /\ executed[c][t] = 0
        /\ agent[t].at \in {"idle", "waiting"}
    BY <1>1, <1>7 DEF PollMarkDelivery, AtHandler, HandlerHolds, AgentHolds, DeliveryRows
  <2>2. /\ UNCHANGED <<executed, agent>> /\ handler'[t].at = "markCommand" /\ handler'[t].cmd = c
        /\ \A d \in Cmds : delivery'[d][t] = IF d = c THEN "running" ELSE delivery[d][t]
    BY <1>1, <1>7 DEF PollMarkDelivery, HandlerTo, TypeOK, observed
  <2> HIDE DEF c
  <2>3. c <= issued /\ c \in Nat /\ issued \in Nat /\ UNCHANGED issued /\ c \notin {d \in Cmds : t \in left[d]}
    BY <1>1, <2>1 DEF DeliveryRows, TypeOK, Cmds, batch
  <2>4. DeliveryRows(t)'
    BY <1>1, <2>1, <2>2, <2>3 DEF DeliveryRows, batch
  <2>5. HandlerHolds(t)' /\ AgentHolds(t)'
    BY <2>1, <2>2 DEF HandlerHolds, AgentHolds
  <2>6. QED BY <2>4, <2>5 DEF Sound
<1>8. CASE PollMarkCommand(t)
  <2>1. /\ UNCHANGED <<executed, agent, delivery>> /\ handler[t].at = "markCommand"
        /\ handler'[t].at = "reply" /\ handler'[t].cmd = handler[t].cmd
    BY <1>1, <1>8 DEF PollMarkCommand, AtHandler, HandlerTo, TypeOK, observed
  <2>2. DeliveryRows(t)' /\ HandlerHolds(t)' /\ AgentHolds(t)'
    BY <1>1, <2>1, SameRows DEF HandlerHolds, AgentHolds
  <2>3. QED BY <2>2 DEF Sound
<1>9. CASE PollReply(t)
  <2> DEFINE c == handler[t].cmd
             a == [Idle EXCEPT !.at = "working", !.cmd = c]
  <2>1. /\ UNCHANGED <<delivery, executed>> /\ handler[t].at = "reply"
        /\ Gives(t, NoHandler, IF handler[t].client THEN a ELSE agent[t])
    BY <1>1, <1>9, AnswerGives DEF PollReply, AtHandler, store
  <2>2. /\ c \in Cmds /\ delivery[c][t] = "running" /\ executed[c][t] = 0
        /\ agent[t].at \in {"idle", "waiting"}
    BY <1>1, <2>1 DEF HandlerHolds, AgentHolds
  <2>3. a.at = "working" /\ a.cmd = c
    BY DEF Idle
  <2>4. CASE ~handler[t].client
    BY <1>3, <1>4, <2>1, <2>2, <2>4
  <2>5. CASE handler[t].client
    <3>1. handler'[t] = NoHandler /\ agent'[t] = a
      BY <1>2, <2>1, <2>5
    <3> HIDE DEF c, a
    <3>2. DeliveryRows(t)' /\ HandlerHolds(t)' /\ AgentHolds(t)'
      BY <1>1, <1>3, <2>1, <2>2, <2>3, <3>1, SameRows DEF HandlerHolds, AgentHolds
    <3>3. QED BY <3>2 DEF Sound
  <2>6. QED BY <2>4, <2>5
<1>10. CASE AgentDispatch(t)
  <2> DEFINE c == agent[t].cmd
  <2>1. /\ c \in Cmds /\ delivery[c][t] = "running" /\ executed[c][t] = 0
        /\ agent[t].at = "working" /\ handler[t].at = "none"
    BY <1>1, <1>10 DEF AgentDispatch, AgentHolds, AgentTypes, HandlerTypes
  <2>2. PICK outcome \in {"completed", "failed"} :
          Gives(t, handler[t], [agent[t] EXCEPT !.at = "reporting", !.outcome = outcome])
    BY <1>1, <1>10, AgentDispatchGives
  <2>3. /\ handler'[t] = handler[t] /\ agent'[t].at = "reporting" /\ agent'[t].cmd = c
        /\ agent'[t].outcome \in {"completed", "failed"}
    BY <1>1, <2>2 DEF Gives, TypeOK
  <2>4. /\ UNCHANGED delivery
        /\ \A d \in Cmds : executed'[d][t] = IF d = c THEN executed[d][t] + 1 ELSE executed[d][t]
    BY <1>1, <1>10 DEF AgentDispatch, TypeOK, store
  <2> HIDE DEF c
  <2>5. DeliveryRows(t)'
    BY <1>1, <2>1, <2>4 DEF DeliveryRows, batch
  <2>6. HandlerHolds(t)' /\ AgentHolds(t)'
    BY <1>1, <2>1, <2>3, <2>4 DEF HandlerHolds, AgentHolds
  <2>7. QED BY <2>5, <2>6 DEF Sound
<1>11. CASE AgentReport(t)
  <2>1. /\ UNCHANGED <<delivery, executed>> /\ agent[t].outcome \in {"completed", "failed"}
        /\ handler'[t] = Report(t) /\ agent'[t].at = "waiting"
    BY <1>1, <1>11 DEF AgentReport, Report, AgentHolds, TypeOK, store, observed
  <2>2. handler'[t].at = "verifyResult" /\ handler'[t].value \in {"completed", "failed"}
    BY <2>1 DEF Report
  <2>3. DeliveryRows(t)' /\ HandlerHolds(t)' /\ AgentHolds(t)'
    BY <1>1, <2>1, <2>2, SameRows DEF HandlerHolds, AgentHolds
  <2>4. QED BY <2>3 DEF Sound
<1>12. CASE CompleteCheck(t)
  <2>1. UNCHANGED <<delivery, executed>> /\ handler[t].at = "check"
    BY <1>12 DEF CompleteCheck, store, observed, AtHandler
  <2>2. agent[t].at \in {"idle", "waiting"} /\ handler[t].value \in {"completed", "failed"}
    BY <1>1, <2>1 DEF AgentHolds, HandlerHolds
  <2>3. CASE Answer(t, Idle)
    BY <1>1, <1>3, <1>4, <2>1, <2>2, <2>3, AnswerGives
  <2>4. CASE HandlerTo(t, "record") /\ UNCHANGED agent /\ delivery[handler[t].cmd][t] = "running"
    <3>1. /\ handler'[t].at = "record" /\ handler'[t].cmd = handler[t].cmd
          /\ handler'[t].value = handler[t].value
      BY <1>1, <2>4 DEF HandlerTo, TypeOK
    <3>2. DeliveryRows(t)' /\ HandlerHolds(t)' /\ AgentHolds(t)'
      BY <1>1, <2>1, <2>2, <2>4, <3>1, SameRows DEF HandlerHolds, AgentHolds
    <3>3. QED BY <3>2 DEF Sound
  <2>5. QED BY <1>12, <2>3, <2>4 DEF CompleteCheck
<1>13. CASE CompleteRecord(t)
  <2> DEFINE c == handler[t].cmd
             value == handler[t].value
  <2>1. /\ c \in Cmds /\ delivery[c][t] = "running" /\ value \in {"completed", "failed"}
        /\ agent[t].at \in {"idle", "waiting"}
    BY <1>1, <1>13 DEF CompleteRecord, AtHandler, HandlerHolds, AgentHolds
  <2>2. /\ UNCHANGED <<executed, agent>> /\ handler'[t].at = "read"
        /\ \A d \in Cmds : delivery'[d][t] = IF d = c THEN value ELSE delivery[d][t]
    BY <1>1, <1>13 DEF CompleteRecord, HandlerTo, TypeOK
  <2> HIDE DEF c, value
  <2>3. c <= issued /\ c \in Nat /\ issued \in Nat /\ UNCHANGED issued /\ c \notin {d \in Cmds : t \in left[d]}
    BY <1>1, <2>1 DEF DeliveryRows, TypeOK, Cmds, batch
  <2>4. DeliveryRows(t)'
    BY <1>1, <2>1, <2>2, <2>3 DEF DeliveryRows, batch
  <2>5. HandlerHolds(t)' /\ AgentHolds(t)'
    BY <2>1, <2>2 DEF HandlerHolds, AgentHolds
  <2>6. QED BY <2>4, <2>5 DEF Sound
<1>14. CASE CompleteRead(t)
  <2>1. /\ UNCHANGED <<executed, agent, delivery>> /\ handler[t].at = "read"
        /\ handler'[t].at = "write"
    BY <1>1, <1>14 DEF CompleteRead, AtHandler, TypeOK, store
  <2>2. DeliveryRows(t)' /\ HandlerHolds(t)' /\ AgentHolds(t)'
    BY <1>1, <2>1, SameRows DEF HandlerHolds, AgentHolds
  <2>3. QED BY <2>2 DEF Sound
<1>15. CASE CompleteWrite(t)
  <2>1. /\ UNCHANGED <<executed, delivery>> /\ handler[t].at = "write"
        /\ Gives(t, NoHandler, IF handler[t].client THEN Idle ELSE agent[t])
    BY <1>1, <1>15, AnswerGives DEF CompleteWrite, AtHandler, observed
  <2>2. QED BY <1>1, <1>3, <1>4, <2>1
<1>16. CASE ConnectionLost(t)
  <2>1. UNCHANGED <<executed, delivery>>
    BY <1>16 DEF ConnectionLost, store
  <2>2. CASE Gives(t, NoHandler, Idle)
    BY <1>3, <1>4, <2>1, <2>2
  <2>3. CASE Gives(t, [handler[t] EXCEPT !.client = FALSE], Idle)
    <3> DEFINE h == [handler[t] EXCEPT !.client = FALSE]
    <3>1. h.at = handler[t].at /\ h.cmd = handler[t].cmd /\ h.value = handler[t].value
      BY <1>1 DEF HandlerTypes
    <3> HIDE DEF h
    <3>2. Gives(t, h, Idle)
      BY <2>3 DEF h
    <3>3. QED BY <1>3, <1>4, <2>1, <3>1, <3>2
  <2>4. QED BY <1>1, <1>16, <2>2, <2>3, ConnectionLostGives
<1>17. CASE AgentForgets(t)
  <2>1. UNCHANGED <<executed, delivery>> /\ Gives(t, handler[t], Idle)
    BY <1>1, <1>17, AgentForgetsGives DEF AgentForgets, store
  <2>2. QED BY <1>3, <1>4, <2>1
<1>18. CASE VerifyPoll(t)
  <2>1. UNCHANGED <<delivery, executed>> /\ handler[t].at = "verifyPoll"
    BY <1>18 DEF VerifyPoll, store, observed, AtHandler
  <2>2. agent[t].at \in {"idle", "waiting"}
    BY <1>1, <2>1 DEF AgentHolds
  <2>3. CASE Answer(t, Idle)
    BY <1>1, <1>3, <1>4, <2>1, <2>2, <2>3, AnswerGives
  <2>4. CASE HandlerTo(t, "select") /\ UNCHANGED agent
    <3>1. handler'[t].at = "select"
      BY <1>1, <2>4 DEF HandlerTo, TypeOK
    <3>2. DeliveryRows(t)' /\ HandlerHolds(t)' /\ AgentHolds(t)'
      BY <1>1, <2>1, <2>2, <2>4, <3>1, SameRows DEF HandlerHolds, AgentHolds
    <3>3. QED BY <3>2 DEF Sound
  <2>5. QED BY <1>18, <2>3, <2>4 DEF VerifyPoll
<1>19. CASE VerifyResult(t)
  <2>1. UNCHANGED <<delivery, executed>> /\ handler[t].at = "verifyResult"
    BY <1>19 DEF VerifyResult, store, AtHandler
  <2>2. agent[t].at \in {"idle", "waiting"} /\ handler[t].value \in {"completed", "failed"}
    BY <1>1, <2>1 DEF AgentHolds, HandlerHolds
  <2>3. CASE Answer(t, Idle)
    BY <1>1, <1>3, <1>4, <2>1, <2>2, <2>3, AnswerGives
  <2>4. CASE HandlerTo(t, "check") /\ UNCHANGED agent
    <3>1. /\ handler'[t].at = "check" /\ handler'[t].cmd = handler[t].cmd
          /\ handler'[t].value = handler[t].value
      BY <1>1, <2>4 DEF HandlerTo, TypeOK
    <3>2. DeliveryRows(t)' /\ HandlerHolds(t)' /\ AgentHolds(t)'
      BY <1>1, <2>1, <2>2, <2>4, <3>1, SameRows DEF HandlerHolds, AgentHolds
    <3>3. QED BY <3>2 DEF Sound
  <2>5. QED BY <1>19, <2>3, <2>4 DEF VerifyResult
<1>20. QED BY <1>5, <1>6, <1>7, <1>8, <1>9, <1>10, <1>11, <1>12, <1>13, <1>14, <1>15, <1>16,
              <1>17, <1>18, <1>19 DEF HandlerStep, AgentStep

\* No step leaves the invariant.
LEMMA DeliveryStep == DeliveryInv /\ [Next]_vars => DeliveryInv'
<1> SUFFICES ASSUME DeliveryInv, [Next]_vars PROVE DeliveryInv'
  OBVIOUS
<1>1. TypeOK'
  BY TypeOKStep DEF DeliveryInv
<1>2. ASSUME NEW u \in Targets PROVE Sound(u)'
  <2>1. /\ TypeOK /\ Sound(u)
        /\ handler[u].at \notin {"none", "verifyPoll", "select"} => handler[u].cmd \in Cmds
        /\ agent[u].at \in {"working", "reporting"} => agent[u].cmd \in Cmds
    BY DEF DeliveryInv, TypeOK
  <2>2. ASSUME NEW t \in Targets,
               HandlerStep(t) \/ AgentStep(t) \/ ConnectionLost(t) \/ AgentForgets(t)
        PROVE  Sound(u)'
    <3>1. CASE u = t
      BY <2>2, <3>1, OwnSound
    <3>2. CASE u # t
      <4>1. OthersKept(t) /\ UNCHANGED batch
        BY <2>1, <2>2, OneAtATime
      <4>2. QED BY <2>1, <3>2, <4>1, SoundFrame DEF OthersKept
    <3>3. QED BY <3>1, <3>2
  <2>3. CASE UNCHANGED vars
    BY <2>1, <2>3, SoundFrame DEF vars, store, observed
  <2>4. ASSUME NEW t \in Targets, AccessChange(t) PROVE Sound(u)'
    BY <2>1, <2>4, SoundFrame DEF AccessChange, SettingsChange, SecretsChange, store
  <2>5. QED BY <2>2, <2>3, <2>4, BatchSound DEF Next
<1>3. QED BY <1>1, <1>2 DEF DeliveryInv

\* The invariant holds throughout.
LEMMA DeliveryInvariant == Spec => []DeliveryInv
  BY InitDelivery, DeliveryStep, PTL DEF Spec

\* No agent executes a command twice, whatever is lost on the way.
THEOREM AtMostOnce == Spec => []AtMostOnceExecution
<1>1. DeliveryInv => AtMostOnceExecution
  BY DEF DeliveryInv, Sound, DeliveryRows, AtMostOnceExecution
<1>2. QED BY <1>1, DeliveryInvariant, PTL

\* A delivery is inserted, assigned and completed, in this order and once each.
LEMMA DeliveryMoves ==
  ASSUME DeliveryInv, [Next]_vars, NEW c \in Cmds, NEW u \in Targets
  PROVE  \/ delivery'[c][u] = delivery[c][u]
         \/ delivery[c][u] = "absent" /\ delivery'[c][u] = "pending"
         \/ delivery[c][u] = "pending" /\ delivery'[c][u] = "running"
         \/ delivery[c][u] = "running" /\ delivery'[c][u] \in {"completed", "failed"}
<1>1. TypeOK /\ \A t \in Targets : DeliveryRows(t) /\ HandlerHolds(t)
  BY DEF DeliveryInv, Sound
<1>2. CASE UNCHANGED delivery
  BY <1>2
<1>3. ASSUME NEW d \in Cmds, NEW t \in Targets, BatchInsertDelivery(d, t)
      PROVE  \/ delivery'[c][u] = delivery[c][u]
             \/ delivery[c][u] = "absent" /\ delivery'[c][u] = "pending"
  BY <1>1, <1>3 DEF BatchInsertDelivery, DeliveryRows, TypeOK
<1>4. ASSUME NEW t \in Targets, PollMarkDelivery(t)
      PROVE  \/ delivery'[c][u] = delivery[c][u]
             \/ delivery[c][u] = "pending" /\ delivery'[c][u] = "running"
  BY <1>1, <1>4 DEF PollMarkDelivery, AtHandler, HandlerHolds, TypeOK
<1>5. ASSUME NEW t \in Targets, CompleteRecord(t)
      PROVE  \/ delivery'[c][u] = delivery[c][u]
             \/ delivery[c][u] = "running" /\ delivery'[c][u] \in {"completed", "failed"}
  BY <1>1, <1>5 DEF CompleteRecord, AtHandler, HandlerHolds, TypeOK
<1>6. ASSUME NEW t \in Targets, HandlerStep(t) PROVE
        PollMarkDelivery(t) \/ CompleteRecord(t) \/ UNCHANGED delivery
  BY <1>6 DEF HandlerStep, VerifyPoll, PollSelect, PollMarkCommand, PollReply, VerifyResult,
              CompleteCheck, CompleteRead, CompleteWrite, store
<1>7. ASSUME NEW t \in Targets,
             AgentStep(t) \/ ConnectionLost(t) \/ AgentForgets(t) \/ AccessChange(t)
      PROVE  UNCHANGED delivery
  BY <1>7 DEF AgentStep, AgentPoll, AgentDispatch, AgentReport, ConnectionLost, AgentForgets,
              AccessChange, SettingsChange, SecretsChange, store
<1>8. ASSUME NEW d \in Cmds, BatchStep(d) \/ BatchAbort(d)
      PROVE  (\E t \in Targets : BatchInsertDelivery(d, t)) \/ UNCHANGED delivery
  BY <1>8 DEF BatchStep, BatchInsertCommand, BatchAbort, store
<1>9. ASSUME NEW targets \in SUBSET Targets, BatchAccept(targets) PROVE UNCHANGED delivery
  BY <1>9 DEF BatchAccept, store
<1>10. CASE UNCHANGED vars
  BY <1>2, <1>10 DEF vars, store
<1>11. QED BY <1>2, <1>3, <1>4, <1>5, <1>6, <1>7, <1>8, <1>9, <1>10 DEF Next

\* A recorded result of one machine is never overwritten.
THEOREM FinalResults == Spec => ResultsAreFinal
<1> DEFINE Lasts == \A c \in Cmds, t \in Targets :
                      delivery[c][t] \in Terminal => delivery'[c][t] = delivery[c][t]
<1>1. DeliveryInv /\ [Next]_vars => [Lasts]_delivery
  <2> SUFFICES ASSUME DeliveryInv, [Next]_vars, NEW c \in Cmds, NEW t \in Targets,
                      delivery[c][t] \in Terminal
               PROVE  delivery'[c][t] = delivery[c][t]
    OBVIOUS
  <2>1. QED BY DeliveryMoves DEF Terminal
<1>2. QED BY <1>1, DeliveryInvariant, PTL DEF Spec, ResultsAreFinal

-----------------------------------------------------------------------------
(***************************************************************************)
(* Statuses of commands.  What the panel shows is not inductive: one must  *)
(* also know what the completions on their way have read, that nothing can *)
(* be added to a command once its batch is through, and that a completion  *)
(* is still coming wherever the status lags behind.                        *)
(***************************************************************************)

Finished(c) == DeliveryStates(c) \subseteq Terminal

\* Some completion of c has its result recorded and its status to write.
Completing(c) ==
  \E t \in Targets : handler[t].cmd = c /\ handler[t].at \in {"read", "write"}

\* A command's row follows its deliveries, or a completion is on its way.
CommandHolds(c) ==
  /\ status[c] = "absent" => DeliveryStates(c) = {}
  /\ c > issued => status[c] = "absent"
  /\ status[c] \in Terminal /\ c \notin early => Finished(c) /\ left[c] = {}
  /\ c \notin stale /\ Finished(c) /\ DeliveryStates(c) # {} =>
       Completing(c) \/ status[c] = Aggregate(DeliveryStates(c))

\* What t's completion is about to write is still true, with the exceptions.
CompletionHolds(t) ==
  LET c == handler[t].cmd
  IN  /\ handler[t].at \in {"read", "write"} => delivery[c][t] \in Terminal
      /\ handler[t].at = "write" =>
           /\ handler[t].value \notin {"absent", "pending"}
           /\ handler[t].value \in Terminal /\ c \notin early => Finished(c) /\ left[c] = {}
           /\ c \notin stale /\ Finished(c) => handler[t].value = Aggregate(DeliveryStates(c))

StatusInv ==
  /\ \A c \in Cmds : CommandHolds(c)
  /\ \A t \in Targets : CompletionHolds(t)

\* No open delivery is left once the aggregate is a final one.
LEMMA AggregateTerminal ==
  ASSUME TypeOK, NEW c \in Cmds, Aggregate(DeliveryStates(c)) \in Terminal
  PROVE  Finished(c)
<1>1. \A states : Aggregate(states) \in Terminal => states \cap {"pending", "running"} = {}
  BY DEF Aggregate, Terminal
<1>2. DeliveryStates(c) \cap {"pending", "running"} = {}
  BY <1>1
<1>3. \A t \in Targets : delivery[c][t] \in Statuses
  BY DEF TypeOK
<1>4. QED BY <1>2, <1>3 DEF DeliveryStates, Finished, Statuses

\* One open delivery keeps a command open.
LEMMA OpenDelivery ==
  ASSUME NEW c \in Cmds, NEW t \in Targets, delivery[c][t] \in {"pending", "running"}
  PROVE  ~Finished(c) /\ DeliveryStates(c) # {}
  BY DEF Finished, DeliveryStates, Terminal

\* A command of which no delivery changes.
LEMMA StatesKept ==
  ASSUME NEW c \in Cmds, \A t \in Targets : delivery'[c][t] = delivery[c][t]
  PROVE  DeliveryStates(c)' = DeliveryStates(c) /\ Finished(c)' = Finished(c)
  BY DEF DeliveryStates, Finished

\* What is said of a command that a step leaves alone.
LEMMA CommandFrame ==
  ASSUME NEW c \in Cmds, CommandHolds(c), status'[c] = status[c],
         \A t \in Targets : delivery'[c][t] = delivery[c][t],
         left'[c] \subseteq left[c], c > issued' => c > issued,
         early \subseteq early', stale \subseteq stale',
         c \notin stale' /\ Completing(c) => Completing(c)'
  PROVE  CommandHolds(c)'
<1>1. DeliveryStates(c)' = DeliveryStates(c) /\ Finished(c)' = Finished(c)
  BY StatesKept
<1>2. QED BY <1>1 DEF CommandHolds

\* A completion that a step leaves alone, or that is none afterwards.
LEMMA CompletionFrame ==
  ASSUME NEW u \in Targets, CompletionHolds(u), early \subseteq early', stale \subseteq stale',
         handler'[u].at \in {"read", "write"} =>
           /\ handler'[u].at = handler[u].at /\ handler'[u].cmd = handler[u].cmd
           /\ handler'[u].value = handler[u].value /\ handler[u].cmd \in Cmds
           /\ \A t \in Targets : delivery'[handler[u].cmd][t] = delivery[handler[u].cmd][t]
           /\ left'[handler[u].cmd] \subseteq left[handler[u].cmd]
  PROVE  CompletionHolds(u)'
<1>1. CASE handler'[u].at \notin {"read", "write"}
  BY <1>1 DEF CompletionHolds
<1>2. CASE handler'[u].at \in {"read", "write"}
  <2> DEFINE c == handler[u].cmd
  <2>1. c \in Cmds /\ DeliveryStates(c)' = DeliveryStates(c) /\ Finished(c)' = Finished(c)
    BY <1>2, StatesKept
  <2>2. QED BY <1>2, <2>1 DEF CompletionHolds, DeliveryStates, Finished
<1>3. QED BY <1>1, <1>2

\* Steps that change neither the store nor the batches, and no completion but
\* one that a fault ends.
LEMMA QuietStep ==
  ASSUME DeliveryInv, StatusInv, UNCHANGED <<store, batch>>,
         early \subseteq early', stale \subseteq stale',
         \A u \in Targets : handler'[u].at \in {"read", "write"} =>
           /\ handler'[u].at = handler[u].at /\ handler'[u].cmd = handler[u].cmd
           /\ handler'[u].value = handler[u].value,
         \A u \in Targets : handler[u].at \in {"read", "write"} =>
           \/ handler[u].cmd \in stale'
           \/ handler'[u].at = handler[u].at /\ handler'[u].cmd = handler[u].cmd
  PROVE  StatusInv'
<1>1. \A u \in Targets : handler[u].at \in {"read", "write"} => handler[u].cmd \in Cmds
  BY DEF DeliveryInv, TypeOK
<1>2. ASSUME NEW c \in Cmds PROVE CommandHolds(c)'
  <2>1. c \notin stale' /\ Completing(c) => Completing(c)'
    BY DEF Completing
  <2>2. CommandHolds(c)
    BY DEF StatusInv
  <2>3. QED BY <2>1, <2>2, CommandFrame DEF store, batch
<1>3. ASSUME NEW u \in Targets PROVE CompletionHolds(u)'
  <2>1. CompletionHolds(u)
    BY DEF StatusInv
  <2>2. QED BY <1>1, <2>1, CompletionFrame DEF store, batch
<1>4. QED BY <1>2, <1>3 DEF StatusInv

\* The steps of batches.
LEMMA BatchStatus ==
  ASSUME DeliveryInv, StatusInv,
         \/ \E targets \in SUBSET Targets : BatchAccept(targets)
         \/ \E c \in Cmds : BatchStep(c) \/ BatchAbort(c)
  PROVE  StatusInv'
<1>1. /\ TypeOK /\ \A t \in Targets : DeliveryRows(t)
      /\ \A c \in Cmds : CommandHolds(c)
      /\ \A t \in Targets : CompletionHolds(t)
      /\ \A t \in Targets : handler[t].at \in {"read", "write"} => handler[t].cmd \in Cmds
  BY DEF DeliveryInv, Sound, StatusInv, TypeOK
<1>2. ASSUME NEW c \in Cmds, DeliveryStates(c) # {} PROVE c <= issued
  <2>1. PICK t \in Targets : delivery[c][t] # "absent"
    BY <1>2 DEF DeliveryStates
  <2>2. c \in Nat /\ issued \in Nat
    BY <1>1 DEF TypeOK, Cmds
  <2>3. QED BY <1>1, <2>1, <2>2 DEF DeliveryRows
<1>3. ASSUME NEW t \in Targets, handler[t].at \in {"read", "write"}
      PROVE  handler[t].cmd <= issued /\ delivery[handler[t].cmd][t] \in Terminal
  <2>1. delivery[handler[t].cmd][t] \in Terminal
    BY <1>1, <1>3 DEF CompletionHolds
  <2>2. DeliveryStates(handler[t].cmd) # {}
    BY <2>1 DEF DeliveryStates, Terminal
  <2>3. QED BY <1>1, <1>2, <1>3, <2>1, <2>2
<1>4. ASSUME NEW targets \in SUBSET Targets, BatchAccept(targets) PROVE StatusInv'
  <2>1. /\ UNCHANGED <<status, delivery, handler, early, stale>>
        /\ issued \in Nat /\ issued' = issued + 1 /\ Cmds \subseteq Nat
        /\ \A c \in Cmds : c # issued + 1 => left'[c] = left[c]
    BY <1>1, <1>4 DEF BatchAccept, store, observed, TypeOK, Cmds
  <2>2. ASSUME NEW c \in Cmds, c # issued + 1 PROVE CommandHolds(c)'
    BY <1>1, <2>1, <2>2, CommandFrame DEF Completing
  <2>3. ASSUME NEW c \in Cmds, c = issued + 1 PROVE CommandHolds(c)'
    <3>1. status[c] = "absent" /\ DeliveryStates(c) = {}
      BY <1>1, <2>1, <2>3 DEF CommandHolds
    <3>2. status'[c] = "absent" /\ DeliveryStates(c)' = {}
      BY <2>1, <3>1 DEF DeliveryStates
    <3>3. QED BY <3>2 DEF CommandHolds, Terminal
  <2>4. ASSUME NEW u \in Targets PROVE CompletionHolds(u)'
    <3>1. handler[u].at \in {"read", "write"} => left'[handler[u].cmd] = left[handler[u].cmd]
      BY <1>1, <1>3, <2>1
    <3>2. QED BY <1>1, <2>1, <3>1, CompletionFrame
  <2>5. QED BY <2>2, <2>3, <2>4 DEF StatusInv
<1>5. ASSUME NEW d \in Cmds, BatchInsertCommand(d) PROVE StatusInv'
  <2>1. /\ UNCHANGED <<delivery, handler, early, stale, issued, left>>
        /\ left[d] # {} /\ status[d] = "absent" /\ status'[d] = "pending"
        /\ \A c \in Cmds : c # d => status'[c] = status[c]
    BY <1>1, <1>5 DEF BatchInsertCommand, batch, observed, TypeOK
  <2>2. ASSUME NEW c \in Cmds, c # d PROVE CommandHolds(c)'
    BY <1>1, <2>1, <2>2, CommandFrame DEF Completing
  <2>3. CommandHolds(d)'
    <3>1. DeliveryStates(d) = {} /\ DeliveryStates(d)' = {}
      BY <1>1, <2>1 DEF CommandHolds, DeliveryStates
    <3>2. ~(d > issued)
      BY <1>1, <2>1 DEF DeliveryRows, TypeOK
    <3>3. QED BY <2>1, <3>1, <3>2 DEF CommandHolds, Terminal
  <2>4. ASSUME NEW u \in Targets PROVE CompletionHolds(u)'
    BY <1>1, <2>1, CompletionFrame
  <2>5. QED BY <2>2, <2>3, <2>4 DEF StatusInv
<1>6. ASSUME NEW d \in Cmds, NEW t \in Targets, BatchInsertDelivery(d, t) PROVE StatusInv'
  <2>1. /\ UNCHANGED <<status, handler, early, stale, issued>>
        /\ t \in left[d] /\ status[d] # "absent" /\ delivery'[d][t] = "pending"
        /\ \A c \in Cmds : left'[c] \subseteq left[c]
        /\ \A c \in Cmds, u \in Targets : c # d \/ u # t => delivery'[c][u] = delivery[c][u]
    BY <1>1, <1>6 DEF BatchInsertDelivery, observed, TypeOK
  <2>2. ASSUME NEW c \in Cmds, c # d PROVE CommandHolds(c)'
    BY <1>1, <2>1, <2>2, CommandFrame DEF Completing
  <2>3. ~Finished(d)'
    BY <2>1 DEF Finished, DeliveryStates, Terminal
  <2>4. CommandHolds(d)'
    <3>1. ~(d > issued) /\ (status[d] \in Terminal => d \in early)
      BY <1>1, <2>1 DEF DeliveryRows, CommandHolds
    <3>2. QED BY <2>1, <2>3, <3>1 DEF CommandHolds
  <2>5. ASSUME NEW u \in Targets PROVE CompletionHolds(u)'
    <3>1. CASE handler[u].at \notin {"read", "write"} \/ handler[u].cmd # d
      BY <1>1, <2>1, <3>1, CompletionFrame
    <3>2. CASE handler[u].at \in {"read", "write"} /\ handler[u].cmd = d
      <4>1. delivery[d][t] = "absent" /\ delivery[d][u] \in Terminal
        BY <1>1, <1>3, <2>1, <3>2 DEF DeliveryRows
      <4>2. delivery'[d][u] \in Terminal
        BY <2>1, <4>1 DEF Terminal
      <4>3. /\ handler[u].at = "write" => handler[u].value \notin {"absent", "pending"}
            /\ handler[u].at = "write" /\ handler[u].value \in Terminal => d \in early
        BY <1>1, <2>1, <3>2 DEF CompletionHolds
      <4>4. QED BY <2>1, <2>3, <3>2, <4>2, <4>3 DEF CompletionHolds
    <3>3. QED BY <3>1, <3>2
  <2>6. QED BY <2>2, <2>4, <2>5 DEF StatusInv
<1>7. ASSUME NEW d \in Cmds, BatchAbort(d) PROVE StatusInv'
  <2>1. /\ UNCHANGED <<status, delivery, handler, early, stale, issued>>
        /\ \A c \in Cmds : left'[c] \subseteq left[c]
    BY <1>1, <1>7 DEF BatchAbort, store, TypeOK
  <2>2. ASSUME NEW c \in Cmds PROVE CommandHolds(c)'
    BY <1>1, <2>1, CommandFrame DEF Completing
  <2>3. ASSUME NEW u \in Targets PROVE CompletionHolds(u)'
    BY <1>1, <2>1, CompletionFrame
  <2>4. QED BY <2>2, <2>3 DEF StatusInv
<1>8. QED BY <1>4, <1>5, <1>6, <1>7 DEF BatchStep

\* The steps of handlers that write to the store or aggregate it.
LEMMA HandlerStatus ==
  ASSUME DeliveryInv, StatusInv, NEW t \in Targets,
         \/ PollMarkDelivery(t) \/ PollMarkCommand(t)
         \/ CompleteRecord(t) \/ CompleteRead(t) \/ CompleteWrite(t)
  PROVE  StatusInv'
<1>1. /\ TypeOK /\ DeliveryRows(t) /\ HandlerHolds(t) /\ UNCHANGED batch
      /\ \A c \in Cmds : CommandHolds(c)
      /\ \A u \in Targets : CompletionHolds(u)
      /\ \A u \in Targets : handler[u].at \in {"read", "write"} => handler[u].cmd \in Cmds
  BY OneAtATime DEF DeliveryInv, Sound, StatusInv, TypeOK, HandlerStep
<1>2. PICK d \in Cmds : d = handler[t].cmd
  BY <1>1 DEF PollMarkDelivery, PollMarkCommand, CompleteRecord, CompleteRead, CompleteWrite,
              AtHandler, TypeOK
<1>3. /\ \A u \in Targets : u # t => handler'[u] = handler[u]
      /\ \A c \in Cmds, u \in Targets : u # t => delivery'[c][u] = delivery[c][u]
  BY <1>1, OneAtATime DEF OthersKept, HandlerStep
<1>4. ASSUME delivery[d][t] # "absent" PROVE ~(d > issued) /\ status[d] # "absent"
  <2>1. DeliveryStates(d) # {}
    BY <1>4 DEF DeliveryStates
  <2>2. QED BY <1>1, <1>2, <1>4, <2>1 DEF DeliveryRows, CommandHolds
<1>5. CASE PollMarkDelivery(t)
  <2>1. /\ UNCHANGED <<status, early, stale, issued, left>> /\ delivery[d][t] = "pending"
        /\ handler[t].at = "markDelivery" /\ handler'[t].at = "markCommand"
        /\ delivery'[d][t] = "running"
        /\ \A c \in Cmds : c # d => delivery'[c] = delivery[c]
    BY <1>1, <1>2, <1>5 DEF PollMarkDelivery, AtHandler, HandlerHolds, HandlerTo, TypeOK,
                            batch, observed
  <2>2. ASSUME NEW c \in Cmds, c # d PROVE CommandHolds(c)'
    BY <1>1, <1>3, <2>1, <2>2, CommandFrame DEF Completing
  <2>3. ~Finished(d) /\ ~Finished(d)'
    BY <1>2, <2>1 DEF Finished, DeliveryStates, Terminal
  <2>4. CommandHolds(d)'
    BY <1>1, <1>2, <1>4, <2>1, <2>3 DEF CommandHolds
  <2>5. ASSUME NEW u \in Targets PROVE CompletionHolds(u)'
    <3>1. CASE u = t \/ handler[u].at \notin {"read", "write"} \/ handler[u].cmd # d
      BY <1>1, <1>3, <2>1, <3>1, CompletionFrame
    <3>2. CASE u # t /\ handler[u].at \in {"read", "write"} /\ handler[u].cmd = d
      BY <1>1, <1>2, <1>3, <2>1, <2>3, <3>2 DEF CompletionHolds
    <3>3. QED BY <3>1, <3>2
  <2>6. QED BY <2>2, <2>4, <2>5 DEF StatusInv
<1>6. CASE PollMarkCommand(t)
  <2>1. /\ UNCHANGED <<delivery, early, stale, issued, left>> /\ delivery[d][t] = "running"
        /\ handler[t].at = "markCommand" /\ handler'[t].at = "reply"
        /\ status'[d] = "running"
        /\ \A c \in Cmds : c # d => status'[c] = status[c]
    BY <1>1, <1>2, <1>6 DEF PollMarkCommand, AtHandler, HandlerHolds, HandlerTo, TypeOK,
                            batch, observed
  <2>2. ASSUME NEW c \in Cmds, c # d PROVE CommandHolds(c)'
    BY <1>1, <1>3, <2>1, <2>2, CommandFrame DEF Completing
  <2>3. ~Finished(d)'
    BY <1>2, <2>1 DEF Finished, DeliveryStates, Terminal
  <2>4. CommandHolds(d)'
    BY <1>2, <1>4, <2>1, <2>3 DEF CommandHolds, Terminal
  <2>5. ASSUME NEW u \in Targets PROVE CompletionHolds(u)'
    BY <1>1, <1>3, <2>1, CompletionFrame
  <2>6. QED BY <2>2, <2>4, <2>5 DEF StatusInv
<1>7. CASE CompleteRecord(t)
  <2>1. /\ UNCHANGED <<status, early, issued, left>> /\ delivery[d][t] = "running"
        /\ handler[t].at = "record" /\ handler'[t].at = "read" /\ handler'[t].cmd = d
        /\ delivery'[d][t] \in Terminal
        /\ stale \subseteq stale'
        /\ \A u \in Targets : u # t /\ handler[u].at = "write" /\ handler[u].cmd = d => d \in stale'
        /\ \A c \in Cmds : c # d => delivery'[c] = delivery[c]
    BY <1>1, <1>2, <1>7 DEF CompleteRecord, AtHandler, HandlerHolds, HandlerTo, TypeOK,
                            batch, Overtaken, Terminal
  <2>2. ASSUME NEW c \in Cmds, c # d PROVE CommandHolds(c)'
    BY <1>1, <1>3, <2>1, <2>2, CommandFrame DEF Completing
  <2>3. ~Finished(d)
    BY <1>2, <2>1 DEF Finished, DeliveryStates, Terminal
  <2>4. CommandHolds(d)'
    <3>1. Completing(d)'
      BY <2>1 DEF Completing
    <3>2. QED BY <1>1, <1>2, <1>4, <2>1, <2>3, <3>1 DEF CommandHolds
  <2>5. ASSUME NEW u \in Targets PROVE CompletionHolds(u)'
    <3>1. CASE u # t /\ (handler[u].at \notin {"read", "write"} \/ handler[u].cmd # d)
      BY <1>1, <1>3, <2>1, <3>1, CompletionFrame
    <3>2. CASE u # t /\ handler[u].at \in {"read", "write"} /\ handler[u].cmd = d
      BY <1>1, <1>2, <1>3, <2>1, <2>3, <3>2 DEF CompletionHolds
    <3>3. CASE u = t
      BY <2>1, <3>3 DEF CompletionHolds
    <3>4. QED BY <3>1, <3>2, <3>3
  <2>6. QED BY <2>2, <2>4, <2>5 DEF StatusInv
<1>8. CASE CompleteRead(t)
  <2> DEFINE value == Aggregate(DeliveryStates(d))
  <2>1. /\ UNCHANGED <<status, delivery, stale, issued, left>>
        /\ handler[t].at = "read" /\ early \subseteq early' /\ (left[d] # {} => d \in early')
    BY <1>1, <1>2, <1>8 DEF CompleteRead, AtHandler, store, batch
  <2>2. handler'[t] = [handler[t] EXCEPT !.value = value, !.at = "write"]
    <3>1. handler[t].cmd = d /\ handler = [u \in Targets |-> handler[u]]
      <4>1. handler = [u \in Targets |-> handler[u]]
        BY <1>1 DEF TypeOK
      <4>2. QED BY <1>2, <4>1
    <3>2. Gives(t, [handler[t] EXCEPT !.value = Aggregate(DeliveryStates(handler[t].cmd)),
                                      !.at = "write"], agent[t])
      BY <1>1, <1>8, CompleteReadGives, Zenon
    <3>3. QED BY <3>1, <3>2 DEF Gives
  <2> HIDE DEF value
  <2>3. handler'[t].at = "write" /\ handler'[t].cmd = d /\ handler'[t].value = value
    BY <1>1, <1>2, <2>2 DEF TypeOK
  <2>4. ASSUME NEW c \in Cmds PROVE CommandHolds(c)'
    <3>1. Completing(c) => Completing(c)'
      BY <1>2, <1>3, <2>3 DEF Completing
    <3>2. QED BY <1>1, <2>1, <3>1, CommandFrame
  <2>5. ASSUME NEW u \in Targets, u # t PROVE CompletionHolds(u)'
    BY <1>1, <1>3, <2>1, <2>5, CompletionFrame
  <2>6. CompletionHolds(t)'
    <3>1. delivery[d][t] \in Terminal
      BY <1>1, <1>2, <2>1 DEF CompletionHolds
    <3>2. value \notin {"absent", "pending"} /\ (value \in Terminal => Finished(d))
      BY <1>1, <1>2, AggregateType, AggregateTerminal DEF value
    <3>3. Finished(d)' = Finished(d) /\ DeliveryStates(d)' = DeliveryStates(d)
      BY <1>2, <2>1, StatesKept
    <3>4. QED BY <2>1, <2>3, <3>1, <3>2, <3>3 DEF CompletionHolds, value
  <2>7. QED BY <2>4, <2>5, <2>6 DEF StatusInv
<1>9. CASE CompleteWrite(t)
  <2> DEFINE value == handler[t].value
  <2>1. /\ UNCHANGED <<delivery, early, stale, issued, left>>
        /\ handler[t].at = "write" /\ handler'[t].at = "none"
        /\ status'[d] = value
        /\ \A c \in Cmds : c # d => status'[c] = status[c]
    BY <1>1, <1>2, <1>9 DEF CompleteWrite, AtHandler, Answer, NoHandler, TypeOK, batch, observed
  <2>2. ASSUME NEW c \in Cmds, c # d PROVE CommandHolds(c)'
    <3>1. Completing(c) => Completing(c)'
      BY <1>2, <1>3, <2>2 DEF Completing
    <3>2. QED BY <1>1, <2>1, <2>2, <3>1, CommandFrame
  <2>3. CommandHolds(d)'
    <3>1. /\ delivery[d][t] \in Terminal
          /\ value \notin {"absent", "pending"}
          /\ value \in Terminal /\ d \notin early => Finished(d) /\ left[d] = {}
          /\ d \notin stale /\ Finished(d) => value = Aggregate(DeliveryStates(d))
      BY <1>1, <1>2, <2>1 DEF CompletionHolds
    <3>2. Finished(d)' = Finished(d) /\ DeliveryStates(d)' = DeliveryStates(d)
      BY <1>2, <2>1, StatesKept
    <3>3. ~(d > issued)
      BY <1>4, <3>1 DEF Terminal
    <3> HIDE DEF value
    <3>4. QED BY <2>1, <3>1, <3>2, <3>3 DEF CommandHolds
  <2>4. ASSUME NEW u \in Targets PROVE CompletionHolds(u)'
    <3>1. handler'[u].at \in {"read", "write"} => handler'[u] = handler[u]
      BY <1>3, <2>1
    <3>2. QED BY <1>1, <2>1, <3>1, CompletionFrame
  <2>5. QED BY <2>2, <2>3, <2>4 DEF StatusInv
<1>10. QED BY <1>5, <1>6, <1>7, <1>8, <1>9

\* The other steps: a handler that completes nothing, an agent, a fault.
LEMMA QuietStatus ==
  ASSUME DeliveryInv, StatusInv, NEW t \in Targets,
         \/ VerifyPoll(t) \/ PollSelect(t) \/ PollReply(t) \/ VerifyResult(t) \/ CompleteCheck(t)
         \/ AgentStep(t) \/ ConnectionLost(t) \/ AgentForgets(t)
  PROVE  StatusInv'
<1>1. TypeOK /\ AgentHolds(t)
  BY DEF DeliveryInv, Sound
<1>2. /\ UNCHANGED batch
      /\ \A u \in Targets : u # t => handler'[u] = handler[u]
  BY <1>1, OneAtATime DEF OthersKept, HandlerStep
<1>3. /\ UNCHANGED store /\ early' = early /\ stale \subseteq stale'
  BY DEF VerifyPoll, PollSelect, PollReply, VerifyResult, CompleteCheck, AgentStep, AgentPoll, AgentDispatch, AgentReport,
         ConnectionLost, AgentForgets, observed
<1>4. ASSUME \/ handler'[t] = handler[t]
             \/ /\ handler'[t].at \notin {"read", "write"}
                /\ handler[t].at \notin {"read", "write"} \/ handler[t].cmd \in stale'
             \/ /\ handler'[t].at = handler[t].at /\ handler'[t].cmd = handler[t].cmd
                /\ handler'[t].value = handler[t].value
      PROVE  StatusInv'
  BY <1>2, <1>3, <1>4, QuietStep
<1>5. CASE PollSelect(t)
  <2>1. handler[t].at = "select"
    BY <1>5 DEF PollSelect, AtHandler
  <2>2. CASE Answer(t, Idle)
    BY <1>1, <1>4, <2>1, <2>2 DEF Answer, NoHandler, TypeOK
  <2>3. ASSUME NEW c \in Pending(t),
               handler' = [handler EXCEPT ![t].cmd = c, ![t].at = "markDelivery"]
        PROVE  StatusInv'
    <3>1. handler'[t].at = "markDelivery"
      BY <1>1, <2>3 DEF TypeOK
    <3>2. QED BY <1>4, <2>1, <3>1
  <2>4. QED BY <1>5, <2>2, <2>3 DEF PollSelect
<1>6. CASE PollReply(t)
  BY <1>1, <1>4, <1>6 DEF PollReply, AtHandler, Answer, NoHandler, TypeOK
<1>7. CASE CompleteCheck(t)
  BY <1>1, <1>4, <1>7 DEF CompleteCheck, AtHandler, Answer, HandlerTo, NoHandler, TypeOK
<1>8. CASE AgentPoll(t)
  BY <1>1, <1>4, <1>8 DEF AgentPoll, AtHandler, HandlerTo, TypeOK
<1>9. CASE AgentDispatch(t) \/ AgentForgets(t)
  BY <1>4, <1>9 DEF AgentDispatch, AgentForgets
<1>10. CASE AgentReport(t)
  BY <1>1, <1>4, <1>10 DEF AgentReport, AtHandler, TypeOK
<1>11. CASE ConnectionLost(t)
  BY <1>1, <1>4, <1>11 DEF ConnectionLost, Unwritten, NoHandler, TypeOK
<1>12. CASE VerifyPoll(t)
  BY <1>1, <1>4, <1>12 DEF VerifyPoll, AtHandler, Answer, HandlerTo, NoHandler, TypeOK
<1>13. CASE VerifyResult(t)
  BY <1>1, <1>4, <1>13 DEF VerifyResult, AtHandler, Answer, HandlerTo, NoHandler, TypeOK
<1>14. QED BY <1>5, <1>6, <1>7, <1>8, <1>9, <1>10, <1>11, <1>12, <1>13 DEF AgentStep

\* No step leaves the invariant.
LEMMA StatusStep == DeliveryInv /\ StatusInv /\ [Next]_vars => StatusInv'
<1> SUFFICES ASSUME DeliveryInv, StatusInv, [Next]_vars PROVE StatusInv'
  OBVIOUS
<1>1. CASE UNCHANGED vars
  BY <1>1, QuietStep DEF vars, store, observed
<1>2. ASSUME NEW t \in Targets, AccessChange(t) PROVE StatusInv'
  BY <1>2, QuietStep DEF AccessChange, SettingsChange, SecretsChange, store
<1>3. QED BY <1>1, <1>2, BatchStatus, HandlerStatus, QuietStatus DEF Next, HandlerStep

\* Nothing has a status at first, and nobody is completing anything.
LEMMA InitStatus == Init => StatusInv
<1> SUFFICES ASSUME Init PROVE StatusInv
  OBVIOUS
<1>1. \A c \in Cmds : status[c] = "absent" /\ DeliveryStates(c) = {}
  BY DEF Init, DeliveryStates
<1>2. \A t \in Targets : handler[t].at = "none"
  BY DEF Init, NoHandler
<1>3. QED BY <1>1, <1>2 DEF StatusInv, CommandHolds, CompletionHolds, Terminal

\* A command shown as finished has no unfinished delivery, and once all have
\* ended it shows their aggregate, with the exceptions the property names.
THEOREM StatusFollows == Spec => []StatusFollowsDeliveries
<1>1. DeliveryInv /\ StatusInv => StatusFollowsDeliveries
  <2> SUFFICES ASSUME StatusInv, NEW c \in Cmds
               PROVE  /\ status[c] \in Terminal /\ c \notin early => DeliveryStates(c) \subseteq Terminal
                      /\ Settled(c) /\ c \notin stale => status[c] = Aggregate(DeliveryStates(c))
    BY DEF StatusFollowsDeliveries
  <2>1. CommandHolds(c)
    BY DEF StatusInv
  <2>2. Settled(c) => Finished(c) /\ DeliveryStates(c) # {} /\ ~Completing(c)
    BY DEF Settled, Finished, Completing
  <2>3. QED BY <2>1, <2>2 DEF CommandHolds, Finished
<1>2. QED BY <1>1, InitStatus, StatusStep, DeliveryInvariant, PTL DEF Spec

-----------------------------------------------------------------------------
(***************************************************************************)
(* What holds of the settings and of the local command queue for all PINs, *)
(* limits, calls, acts of users and faults: a save loses only what an older*)
(* copy overlaps, and a command works once unless two clicks selected it.  *)
(***************************************************************************)

Ops    == {"none", "get", "save", "pin", "setSecret", "clearSecret", "dispatch"}
Places == {"idle", "read", "cache", "write", "reread", "recache", "mark", "work", "finish"}

Tasks == [op : Ops, at : Places, copy : Rows, copied : Nat,
          meant : SUBSET (Fields \cup Final), newPin : Pins \cup {NoPin}]

Pages == [open : BOOLEAN, loaded : BOOLEAN, form : Rows, taken : Nat, edited : SUBSET Fields]

-----------------------------------------------------------------------------
(***************************************************************************)
(* Rows.                                                                   *)
(***************************************************************************)

\* The limit and its older twin agree.
Level(s) == s.limit = s.flat

\* The default settings are a row.
LEMMA DefaultRow == Default \in Rows /\ Level(Default)
  BY LimitsAssumption DEF Default, Rows, Level

\* normalize levels the two limits and leaves a level row alone.
LEMMA NormalizedRow ==
  ASSUME NEW s \in Rows
  PROVE  /\ Normalized(s) \in Rows /\ Level(Normalized(s))
         /\ Level(s) => Normalized(s) = s
<1> DEFINE limit == IF s.limit = 0 /\ s.flat > 0 THEN s.flat ELSE s.limit
<1>1. limit \in Limits /\ (Level(s) => limit = s.limit)
  BY DEF Rows, Level
<1>2. Normalized(s) = [s EXCEPT !.limit = limit, !.flat = limit]
  BY DEF Normalized
<1> HIDE DEF limit
<1>3. QED BY <1>1, <1>2 DEF Rows, Level

\* handleSave levels the limits too, and touches nothing else but a PIN that is
\* switched off.
LEMMA PreparedRow ==
  ASSUME NEW s \in Rows
  PROVE  /\ Prepared(s) \in Rows /\ Level(Prepared(s))
         /\ \A f \in Fields \ {"flat", "pin"} : Prepared(s)[f] = s[f]
         /\ s.pinOn => Prepared(s).pin = s.pin
  BY DEF Prepared, Rows, Level, Fields

-----------------------------------------------------------------------------
(***************************************************************************)
(* Copies.  A copy is stale when a write has come after it was taken.      *)
(***************************************************************************)

\* A copy in a call: as long as it is not stale it is the row but for what the
\* caller means to change.
Fresh(t, r, v) ==
  /\ t.copied <= v
  /\ t.at \in {"cache", "write", "recache"} => Level(t.copy)
  /\ t.at \in {"cache", "recache"} /\ t.copied = v => t.copy = r
  /\ t.at = "write" /\ t.copied = v => \A f \in Fields \ t.meant : t.copy[f] = r[f]

\* The form on the screen likewise.
FormFresh(p, r, v) ==
  /\ p.taken <= v
  /\ p.loaded /\ p.taken = v => \A f \in Fields \ p.edited : p.form[f] = r[f]

SettingsInv ==
  /\ row \in Rows /\ Level(row) /\ cache \in Rows /\ version \in Nat
  /\ task \in [Callers -> Tasks]
  /\ \A k \in Callers : Fresh(task[k], row, version)
  /\ page \in Pages /\ FormFresh(page, row, version)

\* What no call holds.
LEMMA NoTaskFresh ==
  ASSUME NEW r, NEW v \in Nat
  PROVE  NoTask \in Tasks /\ Fresh(NoTask, r, v)
  BY DefaultRow DEF NoTask, Tasks, Ops, Places, Fresh

\* The closed screen.
LEMMA ClosedFresh ==
  ASSUME NEW r, NEW v \in Nat
  PROVE  Closed \in Pages /\ FormFresh(Closed, r, v)
  BY DefaultRow DEF Closed, Pages, FormFresh

\* A call that is about to read.
LEMMA TaskFresh ==
  ASSUME NEW op \in Ops, NEW at \in {"read", "mark"}, NEW pin \in Pins \cup {NoPin},
         NEW r, NEW v \in Nat
  PROVE  /\ [Task(op, at) EXCEPT !.newPin = pin] \in Tasks
         /\ Fresh([Task(op, at) EXCEPT !.newPin = pin], r, v)
         /\ Task(op, at) \in Tasks /\ Fresh(Task(op, at), r, v)
         /\ Task(op, at).op = op /\ Task(op, at).at = at
<1>1. NoTask \in Tasks /\ NoTask.copied = 0
  BY NoTaskFresh, DefaultRow DEF NoTask
<1>2. at \in Places
  BY DEF Places
<1>3. /\ Task(op, at) \in Tasks /\ Task(op, at).copied = 0
      /\ Task(op, at).op = op /\ Task(op, at).at = at
  BY <1>1, <1>2 DEF Task, Tasks
<1> DEFINE t == [Task(op, at) EXCEPT !.newPin = pin]
<1>4. t \in Tasks /\ t.copied = 0 /\ t.at = at
  BY <1>3 DEF Tasks
<1> HIDE DEF t
<1>5. Fresh(t, r, v) /\ Fresh(Task(op, at), r, v)
  BY <1>3, <1>4 DEF Fresh
<1>6. QED BY <1>3, <1>4, <1>5 DEF t

\* A call that has just read.
LEMMA ReaderFresh ==
  ASSUME row \in Rows, Level(row), version \in Nat, NEW op \in Ops, NEW pin \in Pins \cup {NoPin}
  PROVE  /\ Reader(op) \in Tasks /\ Fresh(Reader(op), row, version)
         /\ [Reader(op) EXCEPT !.newPin = pin] \in Tasks
         /\ Fresh([Reader(op) EXCEPT !.newPin = pin], row, version)
         /\ [Reader(op) EXCEPT !.newPin = pin].op = op
         /\ [Reader(op) EXCEPT !.newPin = pin].at = "cache"
<1>1. NoTask \in Tasks /\ Normalized(row) = row
  BY NoTaskFresh, NormalizedRow
<1>2. "cache" \in Places
  BY DEF Places
<1>3. Task(op, "cache") \in Tasks /\ Task(op, "cache").op = op /\ Task(op, "cache").at = "cache"
  BY <1>1, <1>2 DEF Task, Tasks
<1> DEFINE t == Reader(op)
<1>4. /\ t \in Tasks /\ t.op = op /\ t.at = "cache"
      /\ t.copy = row /\ t.copied = version
  BY <1>1, <1>3 DEF Reader, Tasks
<1> HIDE DEF t
<1> DEFINE s == [t EXCEPT !.newPin = pin]
<1>5. /\ s \in Tasks /\ s.op = op /\ s.at = "cache"
      /\ s.copy = row /\ s.copied = version
  BY <1>4 DEF Tasks
<1> HIDE DEF s
<1>6. Fresh(t, row, version) /\ Fresh(s, row, version)
  BY <1>4, <1>5 DEF Fresh
<1>7. QED BY <1>4, <1>5, <1>6 DEF s, t

-----------------------------------------------------------------------------
(***************************************************************************)
(* Steps that write no row.                                                *)
(***************************************************************************)

\* One call goes on with a fresh copy, and the form stays fresh.
LEMMA OneCall ==
  ASSUME SettingsInv, UNCHANGED <<row, version>>, cache' \in Rows, NEW k \in Callers,
         \E t \in Tasks : Fresh(t, row, version) /\ task' = [task EXCEPT ![k] = t],
         page' \in Pages, FormFresh(page', row, version)
  PROVE  SettingsInv'
<1>1. PICK t \in Tasks : Fresh(t, row, version) /\ task' = [task EXCEPT ![k] = t]
  OBVIOUS
<1>2. task' \in [Callers -> Tasks]
  BY <1>1 DEF SettingsInv
<1>3. \A d \in Callers : task'[d] = IF d = k THEN t ELSE task[d]
  BY <1>1 DEF SettingsInv
<1>4. \A d \in Callers : Fresh(task'[d], row, version)
  BY <1>1, <1>3 DEF SettingsInv
<1>5. QED BY <1>2, <1>4 DEF SettingsInv

\* A call that returns the settings, and one that returns an error.
LEMMA Returns ==
  ASSUME SettingsInv, UNCHANGED <<row, version>>, cache' \in Rows, NEW k \in Callers,
         \/ Finish(k, FALSE, row)
         \/ Finish(k, TRUE, task[k].copy) /\ (task[k].copied = version => task[k].copy = row)
  PROVE  SettingsInv'
<1> USE DEF SettingsInv
<1>0. task[k] \in Tasks /\ Fresh(task[k], row, version) /\ NoTask \in Tasks
      /\ Fresh(NoTask, row, version)
  BY NoTaskFresh
<1>1. PICK pin \in Pins \cup {NoPin} : pin = task[k].newPin
  BY <1>0 DEF Tasks
<1> DEFINE next == [Task("pin", "read") EXCEPT !.newPin = pin]
<1>2. next \in Tasks /\ Fresh(next, row, version)
  BY TaskFresh DEF Ops
<1>3. task' = [task EXCEPT ![k] = next] \/ task' = [task EXCEPT ![k] = NoTask]
  BY <1>1 DEF Finish
<1> HIDE DEF next
<1>4. \E t \in Tasks : Fresh(t, row, version) /\ task' = [task EXCEPT ![k] = t]
  BY <1>0, <1>2, <1>3
<1>5. page' \in Pages /\ FormFresh(page', row, version)
  <2>1. CASE page' = page
    BY <2>1
  <2>2. CASE page' # page
    <3>1. /\ page' = [page EXCEPT !.loaded = TRUE, !.form = task[k].copy,
                                  !.taken = task[k].copied, !.edited = {}]
          /\ task[k].copied = version => task[k].copy = row
      BY <2>2 DEF Finish
    <3>2. /\ page' \in Pages /\ page'.taken = task[k].copied
          /\ page'.form = task[k].copy /\ page'.edited = {}
      BY <1>0, <3>1 DEF Pages, Tasks
    <3>3. task[k].copied <= version
      BY <1>0 DEF Fresh
    <3>4. QED BY <3>1, <3>2, <3>3 DEF FormFresh
  <2>3. QED BY <2>1, <2>2
<1>6. QED BY <1>4, <1>5, OneCall

\* What the PIN and secret commands make of their copy.
LEMMA ChangedCopy ==
  ASSUME NEW t \in Tasks, Level(t.copy)
  PROVE  /\ Changed(t) \in Rows /\ Level(Changed(t))
         /\ \A f \in Fields \ (IF t.op = "pin" THEN {"pinOn", "pin"} ELSE {"flag"}) :
              Changed(t)[f] = t.copy[f]
<1>1. t.copy \in Rows /\ t.newPin \in Pins \cup {NoPin}
  BY DEF Tasks
<1>2. QED BY <1>1 DEF Changed, Rows, Level, Fields

\* get_settings: the read and the cache.
LEMMA GetSteps ==
  ASSUME SettingsInv, NEW k \in Callers, GetReads(k) \/ GetCaches(k)
  PROVE  SettingsInv'
<1> USE DEF SettingsInv
<1>0. task[k] \in Tasks /\ Fresh(task[k], row, version)
  OBVIOUS
<1>1. CASE GetReads(k)
  <2>1. PICK pin \in Pins \cup {NoPin}, op \in Ops : pin = task[k].newPin /\ op = task[k].op
    BY <1>0 DEF Tasks
  <2>2. task' = [task EXCEPT ![k] = [Reader(op) EXCEPT !.newPin = pin]]
        /\ UNCHANGED <<row, cache, page, version>>
    BY <1>1, <2>1 DEF GetReads
  <2>3. QED BY <2>2, ReaderFresh, OneCall
<1>2. CASE GetCaches(k) /\ task[k].op = "get"
  <2>1. Finish(k, TRUE, task[k].copy) /\ cache' = task[k].copy /\ UNCHANGED <<row, version>>
        /\ task[k].at = "cache"
    BY <1>2 DEF GetCaches
  <2>2. cache' \in Rows /\ (task[k].copied = version => task[k].copy = row)
    BY <1>0, <2>1 DEF Fresh, Tasks
  <2>3. QED BY <2>1, <2>2, Returns
<1>3. CASE GetCaches(k) /\ task[k].op # "get"
  <2> DEFINE c == Changed(task[k])
             m == IF task[k].op = "pin" THEN {"pinOn", "pin"} ELSE {"flag"}
             t == [task[k] EXCEPT !.copy = c, !.at = "write", !.meant = m]
  <2>1. /\ task' = [task EXCEPT ![k].copy = c, ![k].at = "write", ![k].meant = m]
        /\ task[k].at = "cache" /\ cache' = task[k].copy /\ UNCHANGED <<row, version, page>>
    BY <1>3 DEF GetCaches
  <2>2. Level(task[k].copy) /\ (task[k].copied = version => task[k].copy = row)
        /\ task[k].copied <= version /\ task[k].copied \in Nat /\ task[k].copy \in Rows
    BY <1>0, <2>1 DEF Fresh, Tasks
  <2>3. c \in Rows /\ Level(c) /\ \A f \in Fields \ m : c[f] = task[k].copy[f]
    BY <1>0, <2>2, ChangedCopy
  <2>4. m \in SUBSET (Fields \cup Final)
    BY DEF Fields
  <2> HIDE DEF c, m
  <2>5. t \in Tasks /\ t.copy = c /\ t.copied = task[k].copied /\ t.meant = m /\ t.at = "write"
    BY <1>0, <2>3, <2>4 DEF Tasks, Places
  <2>6. task' = [task EXCEPT ![k] = t]
    BY <1>0, <2>1 DEF Tasks
  <2> HIDE DEF t
  <2>7. Fresh(t, row, version)
    BY <2>2, <2>3, <2>5 DEF Fresh
  <2>8. QED BY <2>1, <2>2, <2>5, <2>6, <2>7, OneCall
<1>4. QED BY <1>1, <1>2, <1>3

\* The end of update_settings, a failed statement and the worker.
LEMMA OtherCallSteps ==
  ASSUME SettingsInv, NEW k \in Callers,
         UpdateReads(k) \/ UpdateCaches(k) \/ StatementFails(k) \/ WorkerReads
  PROVE  SettingsInv'
<1> USE DEF SettingsInv
<1>0. task[k] \in Tasks /\ Fresh(task[k], row, version) /\ Normalized(row) = row
  BY NormalizedRow
<1>1. CASE UpdateReads(k)
  <2> DEFINE t == [task[k] EXCEPT !.copy = row, !.copied = version, !.at = "recache"]
  <2>1. /\ task' = [task EXCEPT ![k].copy = row, ![k].copied = version, ![k].at = "recache"]
        /\ UNCHANGED <<row, cache, version, page>>
    BY <1>0, <1>1 DEF UpdateReads
  <2>2. t \in Tasks /\ t.copy = row /\ t.copied = version /\ t.at = "recache"
    BY <1>0 DEF Tasks, Places
  <2>3. task' = [task EXCEPT ![k] = t]
    BY <1>0, <2>1 DEF Tasks
  <2> HIDE DEF t
  <2>4. Fresh(t, row, version)
    BY <2>2 DEF Fresh
  <2>5. QED BY <2>1, <2>2, <2>3, <2>4, OneCall
<1>2. CASE UpdateCaches(k)
  <2>1. Finish(k, TRUE, task[k].copy) /\ cache' = task[k].copy /\ UNCHANGED <<row, version>>
        /\ task[k].at = "recache"
    BY <1>2 DEF UpdateCaches
  <2>2. cache' \in Rows /\ (task[k].copied = version => task[k].copy = row)
    BY <1>0, <2>1 DEF Fresh, Tasks
  <2>3. QED BY <2>1, <2>2, Returns
<1>3. CASE StatementFails(k)
  BY <1>3, Returns DEF StatementFails
<1>4. CASE WorkerReads
  <2>1. task' = [task EXCEPT !["worker"] = Reader("get")] /\ UNCHANGED <<row, cache, version, page>>
    BY <1>4 DEF WorkerReads, Start
  <2>2. Reader("get") \in Tasks /\ Fresh(Reader("get"), row, version)
    BY ReaderFresh DEF Ops
  <2>3. "worker" \in Callers
    BY DEF Callers
  <2>4. QED BY <2>1, <2>2, <2>3, OneCall
<1>5. QED BY <1>1, <1>2, <1>3, <1>4

\* update_settings writes: every copy that was fresh is stale now.
LEMMA WriteStep ==
  ASSUME SettingsInv, NEW k \in Callers, UpdateWrites(k)
  PROVE  SettingsInv'
<1> USE DEF SettingsInv
<1>0. task[k] \in Tasks /\ task[k].copy \in Rows
  BY DEF Tasks
<1>1. Normalized(task[k].copy) \in Rows /\ Level(Normalized(task[k].copy))
  BY <1>0, NormalizedRow
<1>2. CASE Finish(k, FALSE, row) /\ UNCHANGED <<row, version, cache>>
  BY <1>2, Returns
<1>3. CASE /\ row' = Normalized(task[k].copy) /\ version' = version + 1
           /\ task' = [task EXCEPT ![k].at = "reread"] /\ UNCHANGED <<page, cache>>
  <2>1. task' \in [Callers -> Tasks] /\ \A d \in Callers : task'[d].copied = task[d].copied
    BY <1>0, <1>3 DEF Tasks, Places
  <2>2. \A d \in Callers : task'[d].at \in {"cache", "write", "recache"} => task'[d] = task[d]
    BY <1>0, <1>3 DEF Tasks
  <2>3. \A d \in Callers : task[d].copied <= version /\ task[d].copied \in Nat
    BY DEF Fresh, Tasks
  <2>4. ASSUME NEW d \in Callers PROVE Fresh(task'[d], row', version')
    <3>1. Fresh(task[d], row, version)
      OBVIOUS
    <3>2. task'[d].copied <= version' /\ task'[d].copied # version'
      BY <1>3, <2>1, <2>3
    <3>3. QED BY <2>2, <3>1, <3>2 DEF Fresh
  <2>5. FormFresh(page', row', version')
    <3>1. page.taken \in Nat /\ page.taken <= version
      BY DEF FormFresh, Pages
    <3>2. page'.taken <= version' /\ page'.taken # version'
      BY <1>3, <3>1
    <3>3. QED BY <3>2 DEF FormFresh
  <2>6. QED BY <1>1, <1>3, <2>1, <2>4, <2>5
<1>4. QED BY <1>2, <1>3 DEF UpdateWrites

-----------------------------------------------------------------------------
(***************************************************************************)
(* The screen, the local commands and the restart.                         *)
(***************************************************************************)

\* Saving the form: what was not edited is as the form was loaded.
LEMMA SaveStep ==
  ASSUME SettingsInv, NEW newPin \in Pins \cup {NoPin}, SavePage(newPin)
  PROVE  SettingsInv'
<1> USE DEF SettingsInv
<1> DEFINE form  == page.form
           copy  == Prepared(form)
           meant == page.edited \cup (IF form.pinOn THEN {} ELSE {"pin"}) \cup
                    (IF "limit" \in page.edited THEN {"flat"} ELSE {})
           pin   == IF form.pinOn THEN newPin ELSE NoPin
           base  == Task("save", "write")
           t     == [base EXCEPT !.copy = copy, !.copied = page.taken, !.meant = meant, !.newPin = pin]
<1>1. /\ page.loaded /\ task' = [task EXCEPT !["page"] = t]
      /\ UNCHANGED <<row, cache, page, version>>
  BY DEF SavePage, Start
<1>2. form \in Rows /\ page.taken \in Nat /\ page.edited \in SUBSET Fields
  BY DEF Pages
<1>3. copy \in Rows /\ Level(copy) /\ (\A f \in Fields \ {"flat", "pin"} : copy[f] = form[f])
      /\ (form.pinOn => copy.pin = form.pin)
  BY <1>2, PreparedRow
<1>4. base \in Tasks /\ base.at = "write"
  <2>1. NoTask \in Tasks
    BY NoTaskFresh
  <2> HIDE DEF NoTask
  <2>2. QED BY <2>1 DEF Task, Tasks, Ops, Places
<1>5. meant \in SUBSET (Fields \cup Final) /\ pin \in Pins \cup {NoPin}
  BY <1>2 DEF Fields
<1>6. page.taken = version => \A f \in Fields \ meant : copy[f] = row[f]
  <2> SUFFICES ASSUME page.taken = version, NEW f \in Fields \ meant PROVE copy[f] = row[f]
    OBVIOUS
  <2>1. \A g \in Fields \ page.edited : form[g] = row[g]
    BY <1>1 DEF FormFresh
  <2>2. f \in Fields \ page.edited
    OBVIOUS
  <2>3. CASE f \notin {"flat", "pin"}
    BY <1>3, <2>1, <2>2, <2>3
  <2>4. CASE f = "pin"
    <3>1. form.pinOn
      BY <2>4
    <3>2. QED BY <1>3, <2>1, <2>2, <2>4, <3>1
  <2>5. CASE f = "flat"
    <3>1. "limit" \notin page.edited
      BY <2>5
    <3>2. form.limit = row.limit
      BY <2>1, <3>1 DEF Fields
    <3>3. copy.limit = form.limit
      BY <1>3 DEF Fields
    <3>4. copy.flat = row.flat
      BY <1>3, <3>2, <3>3 DEF Level
    <3>5. QED BY <2>5, <3>4
  <2>6. QED BY <2>3, <2>4, <2>5
<1>7. page.taken <= version
  BY DEF FormFresh
<1> HIDE DEF form, copy, meant, pin, base
<1>8. t \in Tasks /\ t.copy = copy /\ t.copied = page.taken /\ t.meant = meant /\ t.at = "write"
  BY <1>2, <1>3, <1>4, <1>5 DEF Tasks
<1> HIDE DEF t
<1>9. Fresh(t, row, version)
  BY <1>3, <1>6, <1>7, <1>8 DEF Fresh
<1>10. "page" \in Callers
  BY DEF Callers
<1>11. QED BY <1>1, <1>8, <1>9, <1>10, OneCall

\* Everything else at the screen.
LEMMA UserSteps ==
  ASSUME SettingsInv, UserStep
  PROVE  SettingsInv'
<1> USE DEF SettingsInv
<1>0. /\ {"page", "left"} \subseteq Callers
      /\ Closed \in Pages /\ NoTask \in Tasks /\ Fresh(NoTask, row, version)
  BY ClosedFresh, NoTaskFresh DEF Callers
<1>1. CASE OpenPage
  <2>1. /\ task' = [task EXCEPT !["page"] = Reader("get")]
        /\ page' = [Closed EXCEPT !.open = TRUE] /\ UNCHANGED <<row, cache, version>>
    BY <1>1 DEF OpenPage, Start
  <2>2. Reader("get") \in Tasks /\ Fresh(Reader("get"), row, version)
    BY ReaderFresh DEF Ops
  <2>3. Closed.loaded = FALSE /\ Closed.taken = 0
    BY DEF Closed
  <2> HIDE DEF Closed
  <2>4. page' \in Pages /\ page'.loaded = FALSE /\ page'.taken = 0
    BY <1>0, <2>1, <2>3 DEF Pages
  <2>5. FormFresh(page', row, version)
    BY <2>4 DEF FormFresh
  <2>6. QED BY <1>0, <2>1, <2>2, <2>4, <2>5, OneCall
<1>2. CASE LeavePage
  <2>1. /\ task' = [task EXCEPT !["left"] = task["page"], !["page"] = NoTask]
        /\ page' = Closed /\ UNCHANGED <<row, cache, version>>
    BY <1>2 DEF LeavePage
  <2>2. task["page"] \in Tasks /\ Fresh(task["page"], row, version)
    BY <1>0
  <2>3. task' \in [Callers -> Tasks]
    BY <1>0, <2>1, <2>2
  <2>4. \A d \in Callers : task'[d] \in {task[d], task["page"], NoTask}
    BY <1>0, <2>1
  <2>5. \A d \in Callers : Fresh(task'[d], row, version)
    BY <1>0, <2>2, <2>4
  <2>6. FormFresh(page', row, version) /\ page' \in Pages
    BY <1>0, <2>1, ClosedFresh
  <2>7. QED BY <2>1, <2>3, <2>5, <2>6
<1>3. CASE EditForm
  <2>1. UNCHANGED <<row, cache, task, version>>
    BY <1>3 DEF EditForm
  <2>2. PICK f \in {"pinOn", "enabled", "batch", "limit"} :
          \E v \in (IF f = "limit" THEN Limits ELSE BOOLEAN) \ {page.form[f]} :
            page' = [page EXCEPT !.form[f] = v, !.edited = @ \cup {f}]
    BY <1>3 DEF EditForm
  <2>3. PICK v \in (IF f = "limit" THEN Limits ELSE BOOLEAN) :
          page' = [page EXCEPT !.form[f] = v, !.edited = @ \cup {f}]
    BY <2>2
  <2> DEFINE form == [page.form EXCEPT ![f] = v]
  <2>4. page.form \in Rows
    BY DEF Pages
  <2>5. form \in Rows /\ \A g \in Fields \ {f} : form[g] = page.form[g]
    BY <2>3, <2>4 DEF Rows, Fields
  <2>6. page' = [page EXCEPT !.form = form, !.edited = page.edited \cup {f}]
    BY <2>3 DEF Pages
  <2> HIDE DEF form
  <2>7. /\ page' \in Pages /\ page'.form = form /\ page'.edited = page.edited \cup {f}
        /\ page'.taken = page.taken /\ page'.loaded = page.loaded
    BY <2>5, <2>6 DEF Pages, Fields
  <2>8. FormFresh(page', row, version)
    BY <2>5, <2>7 DEF FormFresh
  <2>9. QED BY <2>1, <2>7, <2>8
<1>4. CASE SetOrClearSecret
  <2>1. PICK op \in {"setSecret", "clearSecret"} : Start("page", Reader(op))
    BY <1>4 DEF SetOrClearSecret
  <2>2. Reader(op) \in Tasks /\ Fresh(Reader(op), row, version)
    BY ReaderFresh DEF Ops
  <2>3. UNCHANGED <<row, cache, page, version>>
    BY <1>4 DEF SetOrClearSecret
  <2>4. QED BY <1>0, <2>1, <2>2, <2>3, OneCall DEF Start
<1>5. QED BY <1>1, <1>2, <1>3, <1>4, SaveStep DEF UserStep

\* A click goes on: its call keeps no copy that it would write.
LEMMA ClickMoves ==
  ASSUME SettingsInv, UNCHANGED <<row, version, page>>, cache' \in Rows, NEW k \in Clicks,
         NEW at \in {"read", "work", "finish"}, NEW copy \in Rows, NEW meant \in SUBSET Final,
         \/ task' = [task EXCEPT ![k].at = at]
         \/ task' = [task EXCEPT ![k].copy = copy, ![k].at = at]
         \/ task' = [task EXCEPT ![k].at = at, ![k].meant = meant]
  PROVE  SettingsInv'
<1> USE DEF SettingsInv
<1>0. k \in Callers /\ task[k] \in Tasks /\ Fresh(task[k], row, version)
  BY DEF Callers
<1>1. PICK t : /\ task' = [task EXCEPT ![k] = t]
               /\ \/ t = [task[k] EXCEPT !.at = at]
                  \/ t = [task[k] EXCEPT !.copy = copy, !.at = at]
                  \/ t = [task[k] EXCEPT !.at = at, !.meant = meant]
  BY <1>0 DEF Tasks
<1>2. t \in Tasks /\ t.at = at /\ t.copied = task[k].copied
  BY <1>0, <1>1 DEF Tasks, Places
<1>3. Fresh(t, row, version)
  BY <1>0, <1>2 DEF Fresh
<1>4. QED BY <1>0, <1>1, <1>2, <1>3, OneCall

\* The clicks.
LEMMA ClickSteps ==
  ASSUME SettingsInv, NEW k \in Clicks, ClickSelects(k) \/ ClickStep(k) \/ ClickFails(k)
  PROVE  SettingsInv'
<1> USE DEF SettingsInv
<1>0. k \in Callers /\ task[k] \in Tasks /\ NoTask \in Tasks /\ Fresh(NoTask, row, version)
      /\ Default \in Rows
  BY NoTaskFresh, DefaultRow DEF Callers
<1>1. CASE ClickSelects(k)
  <2>1. Task("dispatch", "mark") \in Tasks /\ Fresh(Task("dispatch", "mark"), row, version)
    BY TaskFresh DEF Ops
  <2>2. QED BY <1>0, <1>1, <2>1, OneCall DEF ClickSelects, Start
<1>2. CASE ClickMarks(k)
  BY <1>0, <1>2, ClickMoves DEF ClickMarks, ClickTo
<1>3. CASE DispatchReads(k)
  <2>1. CASE GetReads(k)
    BY <1>0, <2>1, GetSteps
  <2>2. CASE ~GetReads(k)
    BY <1>0, <1>3, <2>2, ClickMoves DEF DispatchReads
  <2>3. QED BY <2>1, <2>2
<1>4. CASE DispatchCaches(k)
  <2>1. task[k].copy \in Rows
    BY <1>0 DEF Tasks
  <2>2. QED BY <1>0, <1>4, <2>1, ClickMoves DEF DispatchCaches, ClickTo
<1>5. CASE DispatchWorks(k)
  <2>1. PICK result \in Final : task' = [task EXCEPT ![k].at = "finish", ![k].meant = {result}]
    BY <1>5 DEF DispatchWorks, Final
  <2>2. PICK meant \in SUBSET Final : meant = {result}
    OBVIOUS
  <2>3. task' = [task EXCEPT ![k].at = "finish", ![k].meant = meant]
        /\ UNCHANGED <<row, cache, page, version>>
    BY <1>5, <2>1, <2>2 DEF DispatchWorks
  <2>4. QED BY <1>0, <2>3, ClickMoves
<1>6. CASE ClickFinishes(k) \/ ClickFails(k)
  BY <1>0, <1>6, OneCall DEF ClickFinishes, ClickFails, ClickEnds
<1>7. QED BY <1>1, <1>2, <1>3, <1>4, <1>5, <1>6 DEF ClickStep

\* After a restart no call has a copy.
LEMMA RestartStep ==
  ASSUME SettingsInv, Restart
  PROVE  SettingsInv'
<1> USE DEF SettingsInv
<1>1. /\ task' = [k \in Callers |-> NoTask] /\ page' = Closed /\ cache' = Normalized(row)
      /\ UNCHANGED <<row, version>>
  BY DEF Restart, SettingsRestart
<1>2. Normalized(row) \in Rows
  BY NormalizedRow
<1>3. NoTask \in Tasks /\ Fresh(NoTask, row, version)
      /\ Closed \in Pages /\ FormFresh(Closed, row, version)
  BY NoTaskFresh, ClosedFresh
<1>4. task' \in [Callers -> Tasks] /\ \A d \in Callers : Fresh(task'[d], row, version)
  BY <1>1, <1>3
<1>5. QED BY <1>1, <1>2, <1>3, <1>4

\* At the start there are no copies, and the row is level.
LEMMA InitSettings == LocalInit => SettingsInv
<1> SUFFICES ASSUME LocalInit PROVE SettingsInv
  OBVIOUS
<1> DEFINE first(p, n) == [Default EXCEPT !.pinOn = p # NoPin, !.pin = p, !.limit = n, !.flat = n]
<1>0. ASSUME NEW p \in Pins \cup {NoPin}, NEW n \in Limits
      PROVE  first(p, n) \in Rows /\ Level(first(p, n))
  BY DefaultRow DEF Rows, Level
<1>1. \E p \in Pins \cup {NoPin}, n \in Limits : row = first(p, n)
  BY DEF LocalInit, SettingsInit
<1> HIDE DEF first
<1>2. row \in Rows /\ Level(row)
  BY <1>0, <1>1
<1>3. /\ task = [k \in Callers |-> NoTask] /\ page = Closed /\ version = 0 /\ cache = row
  BY DEF LocalInit, SettingsInit
<1>4. QED BY <1>2, <1>3, NoTaskFresh, ClosedFresh DEF SettingsInv

\* Every step keeps the copies fresh.
LEMMA SettingsInvStep == SettingsInv /\ [LocalNext]_localVars => SettingsInv'
<1> SUFFICES ASSUME SettingsInv, [LocalNext]_localVars PROVE SettingsInv'
  OBVIOUS
<1>1. CASE UNCHANGED settingsVars
  BY <1>1 DEF settingsVars, SettingsInv
<1>2. ASSUME NEW k \in Callers, SettingsStep(k) \/ StatementFails(k) \/ WorkerReads
      PROVE  SettingsInv'
  BY <1>2, GetSteps, OtherCallSteps, WriteStep DEF SettingsStep, CallStep
<1>3. CASE Enqueue \/ UNCHANGED localVars
  BY <1>1, <1>3 DEF Enqueue, localVars
<1>4. \E k \in Callers : TRUE
  BY DEF Callers
<1>5. QED BY <1>2, <1>3, <1>4, UserSteps, ClickSteps, RestartStep DEF LocalNext

-----------------------------------------------------------------------------
(***************************************************************************)
(* Settings: what a write stores.                                          *)
(***************************************************************************)

\* What SavesExact asks of a step that changes the row.
ExactWrite ==
  \E k \in Callers :
    /\ task[k].at = "write" /\ task'[k] # task[k]
    /\ \A f \in Fields :
         IF f \in task[k].meant THEN row'[f] = task[k].copy[f]
         ELSE row'[f] = row[f] \/ task[k].copied < version

\* Only update_settings changes the row.
LEMMA OnlyUpdatesWrite ==
  ASSUME [LocalNext]_localVars, row' # row
  PROVE  \E k \in Callers : UpdateWrites(k)
<1> USE DEF settingsVars, localVars
<1>1. ASSUME UserStep \/ WorkerReads PROVE FALSE
  BY <1>1 DEF UserStep, OpenPage, LeavePage, EditForm, SetOrClearSecret, SavePage, WorkerReads
<1>2. ASSUME NEW k \in Callers, SettingsStep(k) \/ StatementFails(k) PROVE UpdateWrites(k)
  BY <1>2 DEF SettingsStep, StatementFails, CallStep, GetReads, GetCaches, UpdateReads, UpdateCaches
<1>3. ASSUME NEW k \in Clicks, ClickSelects(k) \/ ClickStep(k) \/ ClickFails(k) PROVE FALSE
  BY <1>3 DEF ClickSelects, ClickStep, ClickFails, ClickMarks, DispatchReads, DispatchCaches,
     DispatchWorks, ClickFinishes, GetReads
<1>4. ASSUME Enqueue \/ Restart PROVE FALSE
  BY <1>4 DEF Enqueue, Restart, SettingsRestart
<1>5. QED BY <1>1, <1>2, <1>3, <1>4 DEF LocalNext

\* A write stores a fresh copy, or one that is known to be stale.
LEMMA ExactStep == SettingsInv /\ [LocalNext]_localVars => [ExactWrite]_row
<1> SUFFICES ASSUME SettingsInv, [LocalNext]_localVars, row' # row PROVE ExactWrite
  OBVIOUS
<1>1. PICK k \in Callers : UpdateWrites(k)
  BY OnlyUpdatesWrite
<1>2. /\ task[k] \in Tasks /\ Fresh(task[k], row, version)
      /\ task[k].copied \in Nat /\ version \in Nat
  BY DEF SettingsInv, Tasks
<1>3. /\ task[k].at = "write" /\ row' = Normalized(task[k].copy)
      /\ task' = [task EXCEPT ![k].at = "reread"]
  BY <1>1 DEF UpdateWrites
<1>4. row' = task[k].copy
  <2>1. task[k].copy \in Rows /\ Level(task[k].copy)
    BY <1>2, <1>3 DEF Fresh, Tasks
  <2>2. QED BY <1>3, <2>1, NormalizedRow
<1>5. task'[k].at = "reread"
  BY <1>2, <1>3 DEF SettingsInv, Tasks
<1>6. task[k].copied < version \/ \A f \in Fields \ task[k].meant : task[k].copy[f] = row[f]
  BY <1>2, <1>3 DEF Fresh
<1>7. QED BY <1>3, <1>4, <1>5, <1>6 DEF ExactWrite

\* Settings and copies have their types, the two limits agree in every row that
\* is stored, and a copy that no write has overtaken is the row (lib.rs).
THEOREM CopiesAreFresh == LocalSpec => []SettingsInv
<1>1. QED BY InitSettings, SettingsInvStep, PTL DEF LocalSpec

\* A write of the settings stores what its caller meant and takes nothing else
\* back, unless another write came after its copy was taken (update_settings).
THEOREM NoOtherLostSetting == LocalSpec => SavesExact
<1>1. QED BY InitSettings, SettingsInvStep, ExactStep, PTL DEF LocalSpec, SavesExact, ExactWrite

-----------------------------------------------------------------------------
(***************************************************************************)
(* The command queue.                                                      *)
(***************************************************************************)

Commands == [asks : Asks, status : {"pending", "running"} \cup Final]

\* A click that serves a command has selected one, and knows its result at the end.
Serving(k) ==
  /\ task[k].op = "dispatch" /\ picked[k] \in DOMAIN commands
  /\ task[k].at = "finish" => task[k].meant \subseteq Final

Resting(k) == task[k] = NoTask /\ picked[k] = 0

\* An uncontested command has one click that selected it, and that click has not
\* worked before "finish"; one that has done its work is not offered again.
OnceAt(c) ==
  /\ \A k1, k2 \in Clicks : picked[k1] = c /\ picked[k2] = c => k1 = k2
  /\ runs[c] <= 1
  /\ runs[c] # 0 => ~PendingAt(c)
  /\ \A k \in Clicks :
       /\ picked[k] = c /\ task[k].at # "finish" => runs[c] = 0
       /\ picked[k] = c /\ task[k].at \notin {"mark", "finish"} => ~PendingAt(c)

QueueInv ==
  /\ commands \in Seq(Commands) /\ runs \in Seq(Nat) /\ Len(runs) = Len(commands)
  /\ picked \in [Clicks -> Nat]
  /\ \A k \in Clicks : Serving(k) \/ Resting(k)
  /\ \A c \in DOMAIN commands : c \in contested \/ OnceAt(c)

\* The empty queue.
LEMMA InitQueue == LocalInit => QueueInv
<1> SUFFICES ASSUME LocalInit PROVE QueueInv
  OBVIOUS
<1>1. /\ commands = <<>> /\ runs = <<>> /\ picked = [k \in Clicks |-> 0]
      /\ task = [k \in Callers |-> NoTask]
  BY DEF LocalInit, SettingsInit
<1>2. \A k \in Clicks : Resting(k)
  BY <1>1 DEF Resting, Callers
<1>3. QED BY <1>1, <1>2, EmptySeq DEF QueueInv

\* Steps outside the queue leave the clicks where they are.
LEMMA OutsideStep ==
  ASSUME QueueInv, UNCHANGED queueVars, \A k \in Clicks : task'[k] = task[k]
  PROVE  QueueInv'
<1>1. UNCHANGED <<commands, picked, runs, contested>>
  BY DEF queueVars
<1>2. \A k \in Clicks : (Serving(k) \/ Resting(k))'
  BY <1>1 DEF QueueInv, Serving, Resting
<1>3. ASSUME NEW c \in DOMAIN commands, OnceAt(c) PROVE OnceAt(c)'
  BY <1>1, <1>3 DEF OnceAt, PendingAt
<1>4. QED BY <1>1, <1>2, <1>3 DEF QueueInv

\* A settings call is none of the clicks'.
LEMMA OutsideClicks ==
  ASSUME SettingsInv, QueueInv, NEW k \in Callers, NEW d \in Clicks,
         (SettingsStep(k) \/ StatementFails(k) \/ WorkerReads \/ UserStep)
  PROVE  task'[d] = task[d]
<1>0. d \notin {"page", "left", "worker"} /\ d \in Callers /\ task \in [Callers -> Tasks]
  BY ClicksAssumption DEF SettingsInv, Callers
<1>1. CASE UserStep \/ WorkerReads
  BY <1>0, <1>1 DEF UserStep, OpenPage, LeavePage, EditForm, SetOrClearSecret, SavePage,
     WorkerReads, Start
<1>2. CASE SettingsStep(k) \/ StatementFails(k)
  <2>1. task[k].op # "dispatch" /\ task[k].at # "idle"
    BY <1>2 DEF SettingsStep, StatementFails, CallStep, GetReads, GetCaches, UpdateWrites,
       UpdateReads, UpdateCaches
  <2>2. k # d
    BY <2>1 DEF QueueInv, Serving, Resting, NoTask
  <2>3. \E t : task' = [task EXCEPT ![k] = t]
    BY <1>0, <1>2 DEF SettingsStep, StatementFails, CallStep, GetReads, GetCaches, UpdateWrites,
       UpdateReads, UpdateCaches, Finish
  <2>4. QED BY <1>0, <2>2, <2>3
<1>3. QED BY <1>1, <1>2

\* Which clicks and commands a step leaves as they are.
SameClick(k) == task'[k] = task[k] /\ picked'[k] = picked[k]

SameCommand(c) == commands'[c] = commands[c] /\ runs'[c] = runs[c]

\* A command that no changed click serves, before or after.
LEMMA OnceKept ==
  ASSUME NEW c, OnceAt(c), SameCommand(c),
         \A k \in Clicks : SameClick(k) \/ (picked'[k] # c)
  PROVE  OnceAt(c)'
  BY DEF OnceAt, SameCommand, SameClick, PendingAt

\* A step of one click, which changes at most the command that it serves.
LEMMA OneClick ==
  ASSUME QueueInv, NEW k \in Clicks, NEW c \in DOMAIN commands,
         commands' \in Seq(Commands), runs' \in Seq(Nat),
         Len(commands') = Len(commands), Len(runs') = Len(runs), picked' \in [Clicks -> Nat],
         picked[k] \in {0, c}, picked'[k] \in {0, c},
         Serving(k)' \/ Resting(k)', \A d \in Clicks \ {k} : SameClick(d),
         \A b \in DOMAIN commands \ {c} : SameCommand(b),
         contested \subseteq contested',
         c \in contested' \/ (OnceAt(c) => OnceAt(c)'), c \in contested => c \in contested'
  PROVE  QueueInv'
<1> USE DEF QueueInv
<1>1. DOMAIN commands' = DOMAIN commands /\ 0 \notin DOMAIN commands
  BY LenProperties
<1>2. ASSUME NEW d \in Clicks PROVE (Serving(d) \/ Resting(d))'
  BY <1>1, <1>2 DEF Serving, Resting, SameClick
<1>3. ASSUME NEW b \in DOMAIN commands, b # c PROVE b \in contested' \/ OnceAt(b)'
  <2>1. \A d \in Clicks : SameClick(d) \/ picked'[d] # b
    BY <1>1, <1>3
  <2>2. QED BY <1>3, <2>1, OnceKept
<1>4. QED BY <1>1, <1>2, <1>3

\* A click selects.
LEMMA SelectStep ==
  ASSUME SettingsInv, QueueInv, NEW k \in Clicks, ClickSelects(k)
  PROVE  QueueInv'
<1>1. PICK c \in DOMAIN commands :
        /\ PendingAt(c) /\ picked' = [picked EXCEPT ![k] = c]
        /\ contested' = IF \E other \in Clicks \ {k} : picked[other] = c
                        THEN contested \cup {c} ELSE contested
  BY DEF ClickSelects
<1> DEFINE t == Task("dispatch", "mark")
<1>2. /\ task[k] = NoTask /\ task' = [task EXCEPT ![k] = t]
      /\ UNCHANGED <<commands, runs>>
  BY DEF ClickSelects, Start
<1>3. t.op = "dispatch" /\ t.at = "mark"
  BY TaskFresh DEF Ops
<1> HIDE DEF t
<1>4. /\ k \in Callers /\ task \in [Callers -> Tasks] /\ picked \in [Clicks -> Nat]
      /\ c \in Nat /\ Clicks \subseteq Callers
  BY LenProperties DEF Callers, SettingsInv, QueueInv
<1>5. picked[k] = 0
  BY <1>2 DEF QueueInv, Serving, Resting, NoTask
<1>6. /\ task'[k] = t /\ picked'[k] = c /\ picked' \in [Clicks -> Nat]
      /\ \A d \in Clicks \ {k} : SameClick(d)
  BY <1>1, <1>2, <1>4 DEF SameClick
<1>7. Serving(k)'
  BY <1>2, <1>3, <1>6 DEF Serving
<1>8. c \in contested' \/ (OnceAt(c) => OnceAt(c)')
  <2> SUFFICES ASSUME c \notin contested', OnceAt(c) PROVE OnceAt(c)'
    OBVIOUS
  <2>1. \A d \in Clicks \ {k} : picked[d] # c
    BY <1>1
  <2>2. \A d \in Clicks : picked'[d] = c => d = k
    BY <1>6, <2>1 DEF SameClick
  <2>3. runs'[c] = 0
    BY <1>1, <1>2, <1>4 DEF OnceAt
  <2>4. QED BY <1>3, <1>6, <2>2, <2>3 DEF OnceAt
<1>9. contested \subseteq contested'
  BY <1>1
<1>10. QED BY <1>2, <1>5, <1>6, <1>7, <1>8, <1>9, OneClick DEF QueueInv, SameCommand

\* A click that reads the settings or puts them into the cache.
LEMMA DispatchStep ==
  ASSUME SettingsInv, QueueInv, NEW k \in Clicks, DispatchReads(k) \/ DispatchCaches(k)
  PROVE  QueueInv'
<1>0. /\ k \in Callers /\ task[k] \in Tasks /\ task \in [Callers -> Tasks]
      /\ Clicks \subseteq Callers /\ UNCHANGED <<commands, runs, picked, contested>>
  BY DEF Callers, SettingsInv, DispatchReads, DispatchCaches, queueVars
<1>1. /\ task[k].op = "dispatch" /\ task[k].at \in {"read", "cache"}
      /\ \E t \in Tasks : t.op = "dispatch" /\ t.at \in {"cache", "work"} /\ task' = [task EXCEPT ![k] = t]
  <2>1. CASE GetReads(k) /\ At(k, "dispatch", "read")
    <3>1. PICK pin \in Pins \cup {NoPin} : pin = task[k].newPin
      BY <1>0 DEF Tasks
    <3>2. task' = [task EXCEPT ![k] = [Reader("dispatch") EXCEPT !.newPin = pin]]
      BY <2>1, <3>1 DEF GetReads, At
    <3> DEFINE t == [Reader("dispatch") EXCEPT !.newPin = pin]
    <3>3. "dispatch" \in Ops /\ row \in Rows /\ Level(row) /\ version \in Nat
      BY DEF Ops, SettingsInv
    <3>4. t \in Tasks /\ t.op = "dispatch" /\ t.at = "cache"
      BY <3>3, ReaderFresh
    <3>5. task' = [task EXCEPT ![k] = t]
      BY <3>2
    <3>6. task[k].op = "dispatch" /\ task[k].at = "read"
      BY <2>1 DEF At
    <3> HIDE DEF t
    <3>7. QED BY <3>4, <3>5, <3>6
  <2>2. CASE task' = [task EXCEPT ![k].copy = Default, ![k].at = "work"] /\ At(k, "dispatch", "read")
    <3> DEFINE t == [task[k] EXCEPT !.copy = Default, !.at = "work"]
    <3>1. t \in Tasks /\ t.op = "dispatch" /\ t.at = "work"
      BY <1>0, <2>2, DefaultRow DEF Tasks, Places, At
    <3>2. task' = [task EXCEPT ![k] = t]
      BY <1>0, <2>2 DEF Tasks
    <3> HIDE DEF t
    <3>3. QED BY <2>2, <3>1, <3>2 DEF At
  <2>3. CASE DispatchCaches(k)
    <3> DEFINE t == [task[k] EXCEPT !.at = "work"]
    <3>1. task' = [task EXCEPT ![k].at = "work"] /\ task[k].op = "dispatch" /\ task[k].at = "cache"
      BY <2>3 DEF DispatchCaches, ClickTo, At
    <3>2. t \in Tasks /\ t.op = "dispatch" /\ t.at = "work"
      BY <1>0, <3>1 DEF Tasks, Places
    <3>3. task' = [task EXCEPT ![k] = t]
      BY <1>0, <3>1 DEF Tasks
    <3> HIDE DEF t
    <3>4. QED BY <3>1, <3>2, <3>3
  <2>4. QED BY <2>1, <2>2, <2>3 DEF DispatchReads
<1>2. /\ task'[k].op = "dispatch" /\ task'[k].at \in {"cache", "work"}
      /\ \A d \in Clicks \ {k} : SameClick(d)
  BY <1>0, <1>1 DEF SameClick
<1>3. PICK c \in DOMAIN commands : c = picked[k]
  BY <1>1 DEF QueueInv, Serving, Resting, NoTask
<1>4. Serving(k)'
  BY <1>0, <1>2, <1>3 DEF Serving
<1>5. ASSUME OnceAt(c) PROVE OnceAt(c)'
  <2>1. runs[c] = 0 /\ ~PendingAt(c)
    BY <1>1, <1>3, <1>5 DEF OnceAt
  <2>2. runs'[c] = 0 /\ ~PendingAt(c)'
    BY <1>0, <2>1 DEF PendingAt
  <2>3. QED BY <1>0, <1>5, <2>2 DEF OnceAt
<1>6. QED BY <1>0, <1>2, <1>3, <1>4, <1>5, OneClick DEF QueueInv, SameCommand

\* The row of a command that gets a status.
LEMMA StatusOf ==
  ASSUME QueueInv, NEW c \in DOMAIN commands, NEW s \in {"pending", "running"} \cup Final,
         commands' = [commands EXCEPT ![c].status = s]
  PROVE  /\ commands' \in Seq(Commands) /\ Len(commands') = Len(commands)
         /\ commands'[c].status = s
         /\ \A b \in DOMAIN commands \ {c} : commands'[b] = commands[b]
<1>1. commands \in Seq(Commands) /\ c \in 1 .. Len(commands) /\ commands[c] \in Commands
  BY ElementOfSeq DEF QueueInv
<1> DEFINE e == [commands[c] EXCEPT !.status = s]
<1>2. e \in Commands /\ e.status = s
  BY <1>1 DEF Commands
<1>3. commands' = [commands EXCEPT ![c] = e]
  BY <1>1
<1> HIDE DEF e
<1>4. QED BY <1>1, <1>2, <1>3, ExceptSeq

\* A click that serves a command, and the command.
LEMMA Served ==
  ASSUME SettingsInv, QueueInv, NEW k \in Clicks, task[k].op = "dispatch"
  PROVE  /\ k \in Callers /\ Clicks \subseteq Callers
         /\ task \in [Callers -> Tasks] /\ task[k] \in Tasks /\ NoTask \in Tasks
         /\ picked[k] \in DOMAIN commands /\ picked \in [Clicks -> Nat] /\ Serving(k)
<1>1. NoTask \in Tasks
  BY NoTaskFresh DEF SettingsInv
<1>2. ~Resting(k)
  BY DEF Resting, NoTask
<1>3. QED BY <1>1, <1>2 DEF SettingsInv, QueueInv, Serving, Callers

\* A click marks its command.
LEMMA MarkStep ==
  ASSUME SettingsInv, QueueInv, NEW k \in Clicks, ClickMarks(k)
  PROVE  QueueInv'
<1>1. /\ task[k].op = "dispatch" /\ task[k].at = "mark"
      /\ commands' = [commands EXCEPT ![picked[k]].status = "running"]
      /\ task' = [task EXCEPT ![k].at = "read"] /\ UNCHANGED <<picked, runs, contested>>
  BY DEF ClickMarks, At, ClickTo
<1>2. PICK c \in DOMAIN commands : c = picked[k]
  BY <1>1, Served
<1>3. /\ commands' \in Seq(Commands) /\ Len(commands') = Len(commands)
      /\ commands'[c].status = "running"
      /\ \A b \in DOMAIN commands \ {c} : commands'[b] = commands[b]
  BY <1>1, <1>2, StatusOf
<1>4. /\ task'[k].op = "dispatch" /\ task'[k].at = "read"
      /\ \A d \in Clicks \ {k} : SameClick(d)
  BY <1>1, Served DEF Tasks, SameClick
<1>5. Serving(k)'
  <2>1. DOMAIN commands' = DOMAIN commands
    BY <1>3, LenProperties DEF QueueInv
  <2>2. QED BY <1>1, <1>2, <1>4, <2>1 DEF Serving
<1>6. ASSUME OnceAt(c) PROVE OnceAt(c)'
  <2>1. runs'[c] = 0 /\ ~PendingAt(c)'
    BY <1>1, <1>2, <1>3, <1>6 DEF OnceAt, PendingAt
  <2>2. QED BY <1>1, <1>6, <2>1 DEF OnceAt
<1>7. QED BY <1>1, <1>2, <1>3, <1>4, <1>5, <1>6, OneClick DEF QueueInv, SameCommand

\* A click does what its command asks for.
LEMMA WorkStep ==
  ASSUME SettingsInv, QueueInv, NEW k \in Clicks, DispatchWorks(k)
  PROVE  QueueInv'
<1>1. /\ task[k].op = "dispatch" /\ task[k].at = "work"
      /\ \E result \in Final :
           task' = [task EXCEPT ![k].at = "finish", ![k].meant = {result}]
      /\ runs' = [runs EXCEPT ![picked[k]] = @ + 1] \/ runs' = runs
      /\ UNCHANGED <<commands, picked, contested>>
  BY DEF DispatchWorks, At, Final
<1>2. PICK c \in DOMAIN commands : c = picked[k]
  BY <1>1, Served
<1>3. PICK result \in Final :
        task' = [task EXCEPT ![k].at = "finish", ![k].meant = {result}]
  BY <1>1
<1>4. /\ task'[k].op = "dispatch" /\ task'[k].at = "finish" /\ task'[k].meant = {result}
      /\ \A d \in Clicks \ {k} : SameClick(d)
  BY <1>1, <1>3, Served DEF Tasks, SameClick
<1>5. Serving(k)'
  BY <1>1, <1>2, <1>4 DEF Serving
<1>6. c \in DOMAIN runs /\ runs \in Seq(Nat) /\ runs[c] \in Nat
  BY LenProperties, ElementOfSeq DEF QueueInv
<1>7. /\ runs' \in Seq(Nat) /\ Len(runs') = Len(runs)
      /\ runs'[c] \in {runs[c], runs[c] + 1}
      /\ \A b \in DOMAIN commands \ {c} : runs'[b] = runs[b]
  <2>1. CASE runs' = runs
    BY <1>6, <2>1 DEF QueueInv
  <2>2. CASE runs' = [runs EXCEPT ![c] = runs[c] + 1]
    <3>1. runs[c] + 1 \in Nat
      BY <1>6
    <3>2. DOMAIN runs = DOMAIN commands
      BY LenProperties DEF QueueInv
    <3>3. QED BY <1>6, <2>2, <3>1, <3>2, ExceptSeq, LenProperties
  <2>3. QED BY <1>1, <1>2, <2>1, <2>2
<1>8. ASSUME OnceAt(c) PROVE OnceAt(c)'
  <2>1. runs[c] = 0 /\ ~PendingAt(c)
    BY <1>1, <1>2, <1>8 DEF OnceAt
  <2>2. runs'[c] <= 1 /\ ~PendingAt(c)'
    BY <1>1, <1>7, <2>1 DEF PendingAt
  <2>3. \A d \in Clicks : picked'[d] = c => d = k
    BY <1>1, <1>2, <1>8 DEF OnceAt
  <2>4. QED BY <1>1, <1>4, <1>8, <2>2, <2>3 DEF OnceAt
<1>9. QED BY <1>1, <1>2, <1>4, <1>5, <1>7, <1>8, OneClick DEF QueueInv, SameCommand

\* A click stores the result, or fails to mark or to finish.
LEMMA EndStep ==
  ASSUME SettingsInv, QueueInv, NEW k \in Clicks, ClickFinishes(k) \/ ClickFails(k)
  PROVE  QueueInv'
<1>1. /\ task[k].op = "dispatch"
      /\ task' = [task EXCEPT ![k] = NoTask] /\ picked' = [picked EXCEPT ![k] = 0]
      /\ UNCHANGED <<runs, contested>>
  BY DEF ClickFinishes, ClickFails, At, ClickEnds
<1>2. PICK c \in DOMAIN commands : c = picked[k]
  BY <1>1, Served
<1>3. /\ commands' \in Seq(Commands) /\ Len(commands') = Len(commands)
      /\ \A b \in DOMAIN commands \ {c} : commands'[b] = commands[b]
      /\ PendingAt(c)' => PendingAt(c)
  <2>1. CASE ClickFails(k)
    BY <2>1 DEF ClickFails, QueueInv, PendingAt
  <2>2. CASE ClickFinishes(k)
    <3>1. PICK result \in task[k].meant :
            commands' = [commands EXCEPT ![picked[k]].status = result]
      BY <2>2 DEF ClickFinishes
    <3>2. result \in Final
      BY <1>1, <2>2, Served DEF ClickFinishes, At, Serving
    <3>3. QED BY <1>2, <3>1, <3>2, StatusOf DEF PendingAt, Final
  <2>3. QED BY <2>1, <2>2
<1>4. /\ task'[k] = NoTask /\ picked'[k] = 0 /\ picked' \in [Clicks -> Nat]
      /\ \A d \in Clicks \ {k} : SameClick(d)
  BY <1>1, Served DEF SameClick
<1>5. Resting(k)'
  BY <1>4 DEF Resting
<1>6. ASSUME OnceAt(c) PROVE OnceAt(c)'
  <2>1. c # 0
    BY LenProperties DEF QueueInv
  <2>2. \A d \in Clicks : picked'[d] # c
    BY <1>2, <1>4, <1>6, <2>1 DEF OnceAt, SameClick
  <2>3. QED BY <1>1, <1>3, <1>6, <2>2 DEF OnceAt
<1>7. QED BY <1>1, <1>2, <1>3, <1>4, <1>5, <1>6, OneClick DEF QueueInv, SameCommand

\* A restart ends every call.
LEMMA RestartQueue ==
  ASSUME QueueInv, Restart
  PROVE  QueueInv'
<1>1. /\ task' = [k \in Callers |-> NoTask] /\ picked' = [k \in Clicks |-> 0]
      /\ UNCHANGED <<commands, runs, contested>>
  BY DEF Restart, SettingsRestart
<1>2. \A k \in Clicks : Resting(k)'
  BY <1>1 DEF Resting, Callers
<1>3. ASSUME NEW c \in DOMAIN commands, OnceAt(c) PROVE OnceAt(c)'
  <2>1. c # 0
    BY LenProperties DEF QueueInv
  <2>2. \A k \in Clicks : picked'[k] # c
    BY <1>1, <2>1
  <2>3. QED BY <1>1, <1>3, <2>2 DEF OnceAt, PendingAt
<1>4. QED BY <1>1, <1>2, <1>3 DEF QueueInv

\* A new command is picked by no click and has done nothing.
LEMMA EnqueueStep ==
  ASSUME QueueInv, Enqueue
  PROVE  QueueInv'
<1>1. PICK asks \in Asks : commands' = Append(commands, [asks |-> asks, status |-> "pending"])
  BY DEF Enqueue
<1> DEFINE e == [asks |-> asks, status |-> "pending"]
           n == Len(commands) + 1
<1>2. runs' = Append(runs, 0) /\ UNCHANGED <<task, picked, contested>>
  BY DEF Enqueue, settingsVars
<1>3. e \in Commands
  BY DEF Commands
<1> HIDE DEF e
<1>4. commands \in Seq(Commands) /\ runs \in Seq(Nat) /\ Len(runs) = Len(commands)
  BY DEF QueueInv
<1>5. /\ commands' \in Seq(Commands) /\ Len(commands') = n
      /\ \A b \in 1 .. Len(commands) : commands'[b] = commands[b]
  BY <1>1, <1>3, <1>4, AppendProperties DEF e
<1>6. /\ runs' \in Seq(Nat) /\ Len(runs') = n /\ runs'[n] = 0
      /\ \A b \in 1 .. Len(commands) : runs'[b] = runs[b]
  BY <1>2, <1>4, AppendProperties
<1>7. DOMAIN commands = 1 .. Len(commands) /\ DOMAIN commands' = 1 .. n
      /\ Len(commands) \in Nat
  BY <1>4, <1>5, LenProperties
<1>8. \A k \in Clicks : (Serving(k) \/ Resting(k))'
  BY <1>2, <1>7 DEF QueueInv, Serving, Resting
<1>9. ASSUME NEW b \in DOMAIN commands' PROVE b \in contested' \/ OnceAt(b)'
  <2>1. CASE b # n
    <3>1. b \in DOMAIN commands /\ SameCommand(b)
      BY <1>5, <1>6, <1>7, <1>9, <2>1 DEF SameCommand
    <3>2. QED BY <1>2, <3>1, OnceKept DEF QueueInv, SameClick
  <2>2. CASE b = n
    <3>1. \A k \in Clicks : picked[k] # n
      BY <1>7 DEF QueueInv, Serving, Resting
    <3>2. QED BY <1>2, <1>6, <2>2, <3>1 DEF OnceAt
  <2>3. QED BY <2>1, <2>2
<1>10. QED BY <1>2, <1>5, <1>6, <1>8, <1>9 DEF QueueInv

\* Every step of the program keeps the queue's invariant.
LEMMA QueueInvStep == SettingsInv /\ QueueInv /\ [LocalNext]_localVars => QueueInv'
<1> SUFFICES ASSUME SettingsInv, QueueInv, [LocalNext]_localVars PROVE QueueInv'
  OBVIOUS
<1>1. CASE UNCHANGED localVars
  <2>1. UNCHANGED queueVars /\ UNCHANGED task
    BY <1>1 DEF localVars, settingsVars
  <2>2. QED BY <2>1, OutsideStep
<1>2. ASSUME NEW k \in Callers, UNCHANGED queueVars,
             UserStep \/ WorkerReads \/ SettingsStep(k) \/ StatementFails(k)
      PROVE  QueueInv'
  <2>1. \A d \in Clicks : task'[d] = task[d]
    BY <1>2, OutsideClicks
  <2>2. QED BY <1>2, <2>1, OutsideStep
<1>3. ASSUME NEW k \in Clicks, ClickSelects(k) \/ ClickStep(k) \/ ClickFails(k)
      PROVE  QueueInv'
  BY <1>3, SelectStep, MarkStep, DispatchStep, WorkStep, EndStep DEF ClickStep
<1>4. \E k \in Callers : TRUE
  BY DEF Callers
<1>5. QED BY <1>1, <1>2, <1>3, <1>4, EnqueueStep, RestartQueue DEF LocalNext

\* A click that has lost no race does each command's work at most once, over
\* failed statements and restarts (admin_process_next_command).
THEOREM CommandsWorkOnce == LocalSpec => []OnceUnlessContested
<1>1. QueueInv => OnceUnlessContested
  BY DEF QueueInv, OnceAt, OnceUnlessContested
<1>2. QED BY <1>1, InitSettings, SettingsInvStep, InitQueue, QueueInvStep, PTL DEF LocalSpec

=============================================================================
