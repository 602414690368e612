---------------------------- MODULE LaneService -----------------------------
(***************************************************************************)
(* What the live lane promises to its callers, without threads, queue or   *)
(* shared runner: at most Slots requests are served at a time; a request   *)
(* is rejected, or served step by step and then settled with one result,   *)
(* which is delivered only after its slot is free again.  A result says    *)
(* "completed" only after every step asked for, "cancelled" only after a   *)
(* cancellation.                                                           *)
(***************************************************************************)
EXTENDS Naturals, FiniteSets

CONSTANTS Request, Slots, MaxSteps

VARIABLES
  phase,     \* idle, rejected, serving, settled or answered
  steps,     \* decode steps done for the request
  cancelled, \* has the request been cancelled?
  result     \* the result delivered

serviceVars == <<phase, steps, cancelled, result>>

Serving == {r \in Request : phase[r] = "serving"}

Init ==
  /\ phase = [r \in Request |-> "idle"]
  /\ steps = [r \in Request |-> 0]
  /\ cancelled = [r \in Request |-> FALSE]
  /\ result = [r \in Request |-> "none"]

Move(r, from, to) ==
  /\ phase[r] = from
  /\ phase' = [phase EXCEPT ![r] = to]

Accept(r) ==
  /\ Cardinality(Serving) < Slots
  /\ Move(r, "idle", "serving")
  /\ UNCHANGED <<steps, cancelled, result>>

Reject(r) ==
  /\ Move(r, "idle", "rejected")
  /\ UNCHANGED <<steps, cancelled, result>>

Cancel(r) ==
  /\ cancelled' = [cancelled EXCEPT ![r] = TRUE]
  /\ UNCHANGED <<phase, steps, result>>

DecodeStep(r) ==
  /\ phase[r] = "serving"
  /\ steps[r] < MaxSteps[r]
  /\ steps' = [steps EXCEPT ![r] = @ + 1]
  /\ UNCHANGED <<phase, cancelled, result>>

Settle(r) ==
  /\ Move(r, "serving", "settled")
  /\ UNCHANGED <<steps, cancelled, result>>

Deliver(r) ==
  /\ Move(r, "settled", "answered")
  /\ \E kind \in {"completed", "cancelled", "failed"} :
       /\ kind = "completed" => steps[r] = MaxSteps[r]
       /\ kind = "cancelled" => cancelled[r]
       /\ result' = [result EXCEPT ![r] = kind]
  /\ UNCHANGED <<steps, cancelled>>

Next ==
  \E r \in Request :
    \/ Accept(r) \/ Reject(r) \/ Cancel(r)
    \/ DecodeStep(r) \/ Settle(r) \/ Deliver(r)

(* Every accepted request is settled and answered. *)
Fairness ==
  \A r \in Request : WF_serviceVars(Settle(r)) /\ WF_serviceVars(Deliver(r))

Spec == Init /\ [][Next]_serviceVars
FairSpec == Spec /\ Fairness

=============================================================================
