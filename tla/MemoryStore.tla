----------------------------- MODULE MemoryStore -----------------------------
(***************************************************************************)
(* MemoryAdminServerStore of autoflow-admin-server: commands in one        *)
(* RwLock, their deliveries in another.  Threads serve requests; a batch   *)
(* takes the lock of the commands first, a poll and a completion take that *)
(* of the deliveries first, and each keeps its first lock until it has done*)
(* its work under the second.                                              *)
(*                                                                         *)
(* A step takes a lock and does what the code does up to the next lock.    *)
(* Taking and giving up a lock within a step needs no trace of it in the   *)
(* state.  A definition named _Broken... is a plausible bug in the one that*)
(* follows it and is not part of the model.                                *)
(***************************************************************************)
EXTENDS Integers, SequencesExt

CONSTANTS
  Threads,      \* threads of the server's runtime
  Targets,      \* instance ids of the agents
  MaxCmds,      \* bound: batches
  MaxRequests   \* bound: polls, completions and lists

ASSUME TargetsAssumption == IsFiniteSet(Targets)
ASSUME StoreBoundsAssumption == {MaxCmds, MaxRequests} \subseteq Nat

VARIABLES
  status,       \* command_queue: the status of each command, or "absent"
  deliveries,   \* command_deliveries, in the order they were pushed
  thread,       \* the request each thread serves and where it is
  commandsLock, \* who has the write lock of command_queue while a step ends
  deliveriesLock,
  issued,       \* commands so far
  requests      \* other requests so far

storeVars == <<status, deliveries, thread, commandsLock, deliveriesLock, issued, requests>>

Cmds == 1..MaxCmds
Free == <<>>

Idle == [op |-> "none", at |-> "idle"]

StoreInit ==
  /\ status = [c \in Cmds |-> "absent"]
  /\ deliveries = <<>>
  /\ thread = [th \in Threads |-> Idle]
  /\ commandsLock = Free /\ deliveriesLock = Free
  /\ issued = 0 /\ requests = 0

At(th, op, at) == thread[th].op = op /\ thread[th].at = at

\* What can be seen of the store: a batch that has inserted its command, and an
\* assignment or completion that has changed its delivery, still hold the lock.
Unpushed == {thread[th].cmd : th \in {h \in Threads : At(h, "batch", "deliveries")}}

SeenStatus == [c \in Cmds |-> IF c \in Unpushed THEN "absent" ELSE status[c]]

SeenState(k) ==
  IF deliveriesLock = Free \/ deliveriesLock[2] # k THEN deliveries[k].status
  ELSE IF thread[deliveriesLock[1]].op = "poll" THEN "pending" ELSE "running"

SeenDelivery ==
  [c \in Cmds |-> [t \in Targets |->
     LET mine == {k \in DOMAIN deliveries : deliveries[k].cmd = c /\ deliveries[k].target = t}
     IN  IF mine = {} THEN "absent" ELSE SeenState(CHOOSE k \in mine : TRUE)]]

Seen == INSTANCE CommandLedger WITH status <- SeenStatus, delivery <- SeenDelivery

-----------------------------------------------------------------------------
Serve(th, request) == thread[th] = Idle /\ thread' = [thread EXCEPT ![th] = request]

To(th, at) == thread' = [thread EXCEPT ![th].at = at]

End(th) == thread' = [thread EXCEPT ![th] = Idle]

\* The requests that arrive.  An agent reports commands that it was given; it
\* may report one again when it has not heard of the first report's success.
BatchArrives(th) ==
  /\ issued < MaxCmds /\ issued' = issued + 1
  /\ \E targets \in (SUBSET Targets) \ {{}} :
       Serve(th, [op |-> "batch", at |-> "commands", cmd |-> issued + 1, targets |-> targets])
  /\ UNCHANGED <<status, deliveries, commandsLock, deliveriesLock, requests>>

RequestArrives(th) ==
  /\ requests < MaxRequests /\ requests' = requests + 1
  /\ \/ \E t \in Targets : Serve(th, [op |-> "poll", at |-> "deliveries", target |-> t])
     \/ \E k \in DOMAIN deliveries, outcome \in {"completed", "failed"} :
          /\ deliveries[k].status # "pending"
          /\ Serve(th, [op |-> "complete", at |-> "deliveries", index |-> k, outcome |-> outcome])
     \/ Serve(th, [op |-> "list", at |-> "commands"])
  /\ UNCHANGED <<status, deliveries, commandsLock, deliveriesLock, issued>>

-----------------------------------------------------------------------------
\* save_batch_command: the lock of the commands, then that of the deliveries.
BatchInserts(th) ==
  /\ At(th, "batch", "commands") /\ commandsLock = Free
  /\ commandsLock' = <<th>>
  /\ status' = [status EXCEPT ![thread[th].cmd] = "pending"]
  /\ To(th, "deliveries")
  /\ UNCHANGED <<deliveries, deliveriesLock, issued, requests>>

BatchPushes(th) ==
  /\ At(th, "batch", "deliveries") /\ deliveriesLock = Free
  /\ deliveries' = deliveries \o
       SetToSeq({[cmd |-> thread[th].cmd, target |-> t, status |-> "pending"] : t \in thread[th].targets})
  /\ commandsLock' = Free
  /\ End(th)
  /\ UNCHANGED <<status, deliveriesLock, issued, requests>>

\* The deliveries of the agent that th serves which are still to be given out.
Wanted(th) ==
  {k \in DOMAIN deliveries : deliveries[k].target = thread[th].target /\ deliveries[k].status = "pending"}

PollAssigns_BrokenNoneKeepsLock(th) ==
  /\ At(th, "poll", "deliveries") /\ deliveriesLock = Free
  /\ \/ /\ Wanted(th) = {}
        /\ To(th, "count") /\ deliveriesLock' = <<th, 0>>
        /\ UNCHANGED deliveries
     \/ \E k \in Wanted(th) :
          /\ \A j \in Wanted(th) : k <= j
          /\ deliveries' = [deliveries EXCEPT ![k].status = "running"]
          /\ deliveriesLock' = <<th, k>>
          /\ To(th, "commands")
  /\ UNCHANGED <<status, commandsLock, issued, requests>>

\* assign_next_command: the first pending delivery of the agent.
PollAssigns(th) ==
  /\ At(th, "poll", "deliveries") /\ deliveriesLock = Free
  /\ \/ /\ Wanted(th) = {}
        /\ To(th, "count")
        /\ UNCHANGED <<deliveries, deliveriesLock>>
     \/ \E k \in Wanted(th) :
          /\ \A j \in Wanted(th) : k <= j
          /\ deliveries' = [deliveries EXCEPT ![k].status = "running"]
          /\ deliveriesLock' = <<th, k>>
          /\ To(th, "commands")
  /\ UNCHANGED <<status, commandsLock, issued, requests>>

PollMarksCommand(th) ==
  /\ At(th, "poll", "commands") /\ commandsLock = Free
  /\ status' = [status EXCEPT ![deliveries[deliveriesLock[2]].cmd] = "running"]
  /\ deliveriesLock' = Free
  /\ To(th, "count")
  /\ UNCHANGED <<deliveries, commandsLock, issued, requests>>

\* pending_command_count, once assign_next_command has given up both locks.
PollCounts(th) ==
  /\ At(th, "poll", "count") /\ deliveriesLock = Free
  /\ End(th)
  /\ UNCHANGED <<status, deliveries, commandsLock, deliveriesLock, issued, requests>>

CompleteRecords_BrokenNoCheck(th) ==
  LET k == thread[th].index
  IN  /\ At(th, "complete", "deliveries") /\ deliveriesLock = Free
      /\ deliveries' = [deliveries EXCEPT ![k].status = thread[th].outcome]
      /\ deliveriesLock' = <<th, k>>
      /\ To(th, "commands")
      /\ UNCHANGED <<status, commandsLock, issued, requests>>

\* record_command_completion: only a running delivery takes a result.
CompleteRecords(th) ==
  LET k == thread[th].index
  IN  /\ At(th, "complete", "deliveries") /\ deliveriesLock = Free
      /\ IF deliveries[k].status # "running"
         THEN End(th) /\ UNCHANGED <<deliveries, deliveriesLock>>
         ELSE /\ deliveries' = [deliveries EXCEPT ![k].status = thread[th].outcome]
              /\ deliveriesLock' = <<th, k>>
              /\ To(th, "commands")
      /\ UNCHANGED <<status, commandsLock, issued, requests>>

States(c) == {deliveries[k].status : k \in {j \in DOMAIN deliveries : deliveries[j].cmd = c}}

CompleteAggregates(th) ==
  LET c == deliveries[thread[th].index].cmd
  IN  /\ At(th, "complete", "commands") /\ commandsLock = Free
      /\ status' = [status EXCEPT ![c] = Seen!Aggregate(States(c))]
      /\ deliveriesLock' = Free
      /\ End(th)
      /\ UNCHANGED <<deliveries, commandsLock, issued, requests>>

\* list_queued_commands
ListReads(th) ==
  /\ At(th, "list", "commands") /\ commandsLock = Free
  /\ End(th)
  /\ UNCHANGED <<status, deliveries, commandsLock, deliveriesLock, issued, requests>>

Step(th) ==
  \/ BatchInserts(th) \/ BatchPushes(th) \/ PollAssigns(th) \/ PollMarksCommand(th)
  \/ PollCounts(th) \/ CompleteRecords(th) \/ CompleteAggregates(th) \/ ListReads(th)

StoreNext == \E th \in Threads : BatchArrives(th) \/ RequestArrives(th) \/ Step(th)

\* A thread goes on whenever the lock it waits for is free; the requests that
\* could keep taking it are bounded.
StoreSpec == StoreInit /\ [][StoreNext]_storeVars /\ \A th \in Threads : WF_storeVars(Step(th))

-----------------------------------------------------------------------------
(***************************************************************************)
(* Properties.                                                             *)
(***************************************************************************)

\* Through the locks, batches, assignments and completions happen at once, and a
\* command's status is what its deliveries say, as the store promises.
ImplementsLedger == Seen!Spec

\* A batch that has the commands and a poll or completion that has the
\* deliveries wait for each other for ever.
Crossed ==
  \E b, h \in Threads :
    At(b, "batch", "deliveries") /\ thread[h].op \in {"poll", "complete"} /\ thread[h].at = "commands"

\* Every request is answered, unless a batch and a poll or completion have taken
\* the two locks in opposite orders: nothing else blocks the store.
StuckOnlyByBatch == \A th \in Threads : thread[th] # Idle ~> thread[th] = Idle \/ Crossed

=============================================================================
