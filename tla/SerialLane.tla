----------------------------- MODULE SerialLane -----------------------------
(***************************************************************************)
(* What the OLMo lane promises, without threads, channels or a KV cache:    *)
(* prompts are accepted while there is room and served one at a time in the *)
(* order they were accepted, each to an end of its own that says why.  An   *)
(* answer is complete when it has as many tokens as the request asked for,  *)
(* the model's end of sequence leaves and the cache has room for.           *)
(***************************************************************************)
EXTENDS Integers, Sequences, FiniteSetsExt

CONSTANTS Request, Slots, MaxSeq, Ask

VARIABLES
  phase,   \* new, waiting, serving, refused, or how the request ended
  line,    \* the accepted requests not yet served
  emitted, \* tokens of each answer
  spoilt,  \* requests that met what an earlier one left on the device
  broken   \* has the worker died?

serialVars == <<phase, line, emitted, spoilt, broken>>

Init ==
  /\ phase = [r \in Request |-> "new"]
  /\ line = <<>>
  /\ emitted = [r \in Request |-> 0]
  /\ spoilt = {}
  /\ broken = FALSE

(* The length of a complete answer: the last token is emitted without      *)
(* being put into the cache.                                               *)
Limit(r) == Min({Ask[r].max_new, MaxSeq - Ask[r].prompt + 1})
Wanted(r) == Min({Limit(r), Ask[r].eos})
Most(r) == IF r \in spoilt THEN Limit(r) ELSE Wanted(r)

Move(r, from, to) == phase[r] = from /\ phase' = [phase EXCEPT ![r] = to]

Accept(r) ==
  /\ ~broken /\ Len(line) < Slots
  /\ Move(r, "new", "waiting")
  /\ line' = Append(line, r)
  /\ UNCHANGED <<emitted, spoilt, broken>>

Refuse(r) ==
  /\ broken \/ Len(line) = Slots
  /\ Move(r, "new", "refused")
  /\ UNCHANGED <<line, emitted, spoilt, broken>>

Serve ==
  /\ line # <<>>
  /\ \A r \in Request : phase[r] # "serving"
  /\ Move(Head(line), "waiting", "serving")
  /\ line' = Tail(line)
  /\ UNCHANGED <<emitted, spoilt, broken>>

Emit(r) ==
  /\ phase[r] = "serving" /\ emitted[r] < Most(r)
  /\ emitted' = [emitted EXCEPT ![r] = @ + 1]
  /\ UNCHANGED <<phase, line, spoilt, broken>>

(* The end of sequence is not promised to an answer that was disturbed.    *)
Spoil(r) ==
  /\ phase[r] = "serving"
  /\ spoilt' = spoilt \cup {r}
  /\ UNCHANGED <<phase, line, emitted, broken>>

End(r, how) ==
  /\ Move(r, "serving", how)
  /\ how = "complete" /\ r \notin spoilt => emitted[r] = Wanted(r)
  /\ how = "too long" => Ask[r].prompt > MaxSeq
  /\ UNCHANGED <<line, emitted, spoilt, broken>>

Ends == {"complete", "hung up", "not encoded", "too long", "device"}

Break ==
  /\ broken' = TRUE
  /\ phase' = [r \in Request |->
                 IF phase[r] \in {"waiting", "serving"} THEN "cut" ELSE phase[r]]
  /\ line' = <<>>
  /\ UNCHANGED <<emitted, spoilt>>

Progress == \E r \in Request : Emit(r) \/ \E how \in Ends : End(r, how)

Next ==
  \/ \E r \in Request : Accept(r) \/ Refuse(r) \/ Spoil(r)
  \/ Serve \/ Progress \/ Break

Spec == Init /\ [][Next]_serialVars

(* Every accepted request is served and ended, or cut off with the worker. *)
FairSpec == Spec /\ WF_serialVars(Serve \/ Progress)

=============================================================================
