---------------------------- MODULE ProfilerJob ----------------------------
(***************************************************************************)
(* What an offline profiling job promises, whatever its threads do: every  *)
(* source it took in gets exactly one outcome, and the store is closed     *)
(* only when every source has one.                                         *)
(***************************************************************************)
CONSTANT Sources

VARIABLES
  outcome,   \* what became of each source
  closed     \* has the store been torn down?

vars == <<outcome, closed>>

Outcomes == {"listed", "submitted", "profiled", "failed"}

Init ==
  /\ outcome = [s \in Sources |-> "listed"]
  /\ closed = FALSE

Submit(s) ==
  /\ ~closed /\ outcome[s] = "listed"
  /\ outcome' = [outcome EXCEPT ![s] = "submitted"]
  /\ UNCHANGED closed

\* The last moment at which the store may be in use for s.
Settle(s) ==
  /\ ~closed /\ outcome[s] = "submitted"
  /\ \E o \in {"profiled", "failed"} : outcome' = [outcome EXCEPT ![s] = o]
  /\ UNCHANGED closed

Close ==
  /\ ~closed /\ \A s \in Sources : outcome[s] \in {"profiled", "failed"}
  /\ closed' = TRUE
  /\ UNCHANGED outcome

Next ==
  \/ \E s \in Sources : Submit(s) \/ Settle(s)
  \/ Close

SafetySpec == Init /\ [][Next]_vars
\* While the job can go on it does.
Progress == WF_vars(Next)

Spec == SafetySpec /\ Progress
=============================================================================
