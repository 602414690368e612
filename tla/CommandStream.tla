--------------------------- MODULE CommandStream ----------------------------
(***************************************************************************)
(* What a compute queue promises: the packets of the publications that     *)
(* were accepted are executed once each, in order, and no more than Slots  *)
(* of them wait at a time.  A refused or abandoned publication leaves no   *)
(* trace.  A packet is named by the publication it belongs to.             *)
(***************************************************************************)
EXTENDS Naturals, Sequences

CONSTANTS Slots, MaxChain, MaxPublications

VARIABLES accepted, executed

streamVars == <<accepted, executed>>

Init == accepted = <<>> /\ executed = <<>>

Accept ==
  \E serial \in 1..MaxPublications, n \in 1..MaxChain :
    /\ Len(accepted) + n <= Len(executed) + Slots
    /\ accepted' = accepted \o [k \in 1..n |-> serial]
    /\ UNCHANGED executed

Execute ==
  /\ Len(executed) < Len(accepted)
  /\ executed' = Append(executed, accepted[Len(executed) + 1])
  /\ UNCHANGED accepted

Next == Accept \/ Execute

Spec == Init /\ [][Next]_streamVars

(* What was accepted is executed in the end. *)
FairSpec == Spec /\ WF_streamVars(Execute)

=============================================================================
