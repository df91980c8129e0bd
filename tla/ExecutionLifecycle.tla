------------------------- MODULE ExecutionLifecycle -------------------------
(***************************************************************************)
(* What the job queue promises about executions, whatever its internals:   *)
(* an execution is accepted once and started at most once, two executions  *)
(* of one job never run at the same time, and an execution that is closed  *)
(* (reported as completed, or thrown away) stays closed.                   *)
(***************************************************************************)

CONSTANTS Jobs,     \* the configured jobs
          Execs,    \* execution ids
          NoJob     \* the job of an id that no call has handed out

VARIABLES jobOf,    \* the job each execution id was handed out for
          stage     \* how far each execution has come

Init ==
  /\ jobOf = [e \in Execs |-> NoJob]
  /\ stage = [e \in Execs |-> "new"]

\* A call hands out a fresh id for job j.
Accept(e, j) ==
  /\ stage[e] = "new"
  /\ stage' = [stage EXCEPT ![e] = "accepted"]
  /\ jobOf' = [jobOf EXCEPT ![e] = j]

\* The job must not be running already.
Start(e) ==
  /\ stage[e] = "accepted"
  /\ \A other \in Execs : stage[other] = "running" => jobOf[other] # jobOf[e]
  /\ stage' = [stage EXCEPT ![e] = "running"]
  /\ UNCHANGED jobOf

\* The run ended, or the execution was cancelled or dropped before it started.
Close(e) ==
  /\ stage[e] \in {"accepted", "running"}
  /\ stage' = [stage EXCEPT ![e] = "closed"]
  /\ UNCHANGED jobOf

Next ==
  \E e \in Execs :
    \/ \E j \in Jobs : Accept(e, j)
    \/ Start(e)
    \/ Close(e)

Spec == Init /\ [][Next]_<<jobOf, stage>>

=============================================================================
