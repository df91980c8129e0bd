---------------------------- MODULE CommandLedger ----------------------------
(***************************************************************************)
(* What a store of autoflow-admin-server promises about commands: a batch, *)
(* an assignment and a completion each happen at once, and the status of a *)
(* command follows from its deliveries.                                    *)
(***************************************************************************)
EXTENDS Integers

CONSTANTS
  Targets,      \* instance ids of the agents
  Cmds          \* ids of commands

VARIABLES
  status,       \* of a command, or "absent"
  delivery      \* of a command to a target, or "absent"

Terminal == {"completed", "failed", "skipped"}
Statuses == {"absent", "pending", "running"} \cup Terminal

\* aggregate_command_status, on the statuses of a command's deliveries.
Aggregate(states) ==
  IF states \cap {"pending", "running"} # {} THEN "running"
  ELSE IF "failed" \in states THEN "failed"
  ELSE IF states \subseteq {"skipped"} THEN "skipped"
  ELSE "completed"

Init ==
  /\ status = [c \in Cmds |-> "absent"]
  /\ delivery = [c \in Cmds |-> [t \in Targets |-> "absent"]]

Enqueue(c, targets) ==
  /\ status[c] = "absent"
  /\ status' = [status EXCEPT ![c] = "pending"]
  /\ delivery' = [delivery EXCEPT ![c] = [t \in Targets |-> IF t \in targets THEN "pending" ELSE "absent"]]

Assign(c, t) ==
  /\ delivery[c][t] = "pending"
  /\ delivery' = [delivery EXCEPT ![c][t] = "running"]
  /\ status' = [status EXCEPT ![c] = "running"]

Record(c, t, outcome) ==
  /\ delivery[c][t] = "running"
  /\ delivery' = [delivery EXCEPT ![c][t] = outcome]
  /\ status' = [status EXCEPT ![c] = Aggregate({delivery'[c][s] : s \in Targets} \ {"absent"})]

Next ==
  \E c \in Cmds :
    \/ \E targets \in (SUBSET Targets) \ {{}} : Enqueue(c, targets)
    \/ \E t \in Targets : Assign(c, t) \/ \E outcome \in Terminal : Record(c, t, outcome)

Spec == Init /\ [][Next]_<<status, delivery>>

=============================================================================
