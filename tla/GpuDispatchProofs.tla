------------------------- MODULE GpuDispatchProofs -------------------------
(***************************************************************************)
(* Proofs about GpuDispatch, for every number of kernarg slots, dedicated  *)
(* signals and dispatches.  Without faults, every wait is truthful and no  *)
(* kernel arguments change under a queued packet.  With failing arms and   *)
(* expired waits, the dedicated signals keep their promise all the same.   *)
(***************************************************************************)
EXTENDS GpuDispatch, SequenceTheorems, TLAPS

NoFaults == ~MayFail /\ ~MayTimeout

LEMMA SignalFacts ==
  /\ Shared \in Signal /\ Shared \notin Dedicated /\ NoSignal \notin Signal
  /\ NoSlot \notin KernargSlot
  /\ Signal = Dedicated \cup {Shared}
BY DispatchAssumption DEF Signal, Shared, Dedicated, NoSignal, NoSlot, KernargSlot

(* The next dispatch carries the requested dedicated signal, the shared    *)
(* one, or none.                                                           *)
LEMMA SignalOfType ==
  ASSUME NEW forced \in BOOLEAN, nextDedicated \in Signal
  PROVE  /\ SignalOf(forced) \in Signal \cup {NoSignal}
         /\ SignalOf(forced) \in Dedicated => SignalOf(forced) = nextDedicated
BY SignalFacts DEF SignalOf

LEMMA WaitSignalType ==
  ASSUME TypeOK PROVE WaitSignal \in Signal
BY SignalFacts DEF TypeOK, WaitSignal

-----------------------------------------------------------------------------
(* What the steps that touch the queue do to it. *)
LEMMA PublishSequence ==
  ASSUME TypeOK, NEW forced \in BOOLEAN, NEW slot \in KernargSlot \cup {NoSlot},
         Publish(slot, forced)
  PROVE  LET p == [id |-> NextId, karg |-> slot, signal |-> SignalOf(forced)] IN
         /\ p \in Packet
         /\ pending' \in Seq(Packet)
         /\ Len(pending) \in Nat
         /\ Len(pending') = Len(pending) + 1
         /\ \A i \in 1..Len(pending) : pending'[i] = pending[i]
         /\ pending'[Len(pending')] = p
<1> DEFINE p == [id |-> NextId, karg |-> slot, signal |-> SignalOf(forced)]
<1>1. p \in Packet
  BY SignalOfType DEF TypeOK, Packet, NextId
<1>2. pending' = Append(pending, p) /\ pending \in Seq(Packet)
  BY DEF Publish, TypeOK
<1>3. Len(pending) \in Nat
  BY <1>2
<1> HIDE DEF p
<1>4. /\ pending' \in Seq(Packet)
      /\ Len(pending') = Len(pending) + 1
      /\ \A i \in 1..Len(pending) : pending'[i] = pending[i]
      /\ pending'[Len(pending) + 1] = p
  BY <1>1, <1>2, AppendProperties
<1> QED
  BY <1>1, <1>3, <1>4 DEF p

LEMMA ReplaySequence ==
  ASSUME TypeOK, Replay
  PROVE  /\ pending' \in Seq(Packet)
         /\ Len(pending) \in Nat
         /\ Len(pending') = Len(pending) + 2
         /\ \A i \in 1..Len(pending) : pending'[i] = pending[i]
         /\ pending'[Len(pending) + 1].signal = NoSignal
         /\ pending'[Len(pending) + 2].signal = Shared
         /\ pending'[Len(pending) + 1].karg = NoSlot
         /\ pending'[Len(pending) + 2].karg = NoSlot
<1> DEFINE a == [id |-> NextId, karg |-> NoSlot, signal |-> NoSignal]
           b == [id |-> NextId, karg |-> NoSlot, signal |-> Shared]
<1>1. a \in Packet /\ b \in Packet
  BY SignalFacts DEF TypeOK, Packet, NextId
<1>2. pending' = pending \o <<a, b>> /\ pending \in Seq(Packet)
  BY DEF Replay, ReplayPackets, TypeOK
<1>3. a.signal = NoSignal /\ a.karg = NoSlot /\ b.signal = Shared /\ b.karg = NoSlot
  OBVIOUS
<1> HIDE DEF a, b
<1>4. <<a, b>> \in Seq(Packet) /\ Len(<<a, b>>) = 2 /\ <<a, b>>[1] = a /\ <<a, b>>[2] = b
  BY <1>1
<1> DEFINE t == <<a, b>>
<1> HIDE DEF t
<1>5. /\ pending \o t \in Seq(Packet)
      /\ Len(pending \o t) = Len(pending) + Len(t)
      /\ \A i \in 1..Len(pending) + Len(t) :
           (pending \o t)[i] = IF i <= Len(pending) THEN pending[i]
                               ELSE t[i - Len(pending)]
  BY <1>2, <1>4, ConcatProperties DEF t
<1>6. Len(pending) \in Nat /\ Len(t) = 2 /\ t[1] = a /\ t[2] = b /\ pending' = pending \o t
  BY <1>2, <1>4 DEF t
<1>7. /\ pending'[Len(pending) + 1] = t[1]
      /\ pending'[Len(pending) + 2] = t[2]
      /\ \A i \in 1..Len(pending) : pending'[i] = pending[i]
  BY <1>5, <1>6
<1> QED
  BY <1>3, <1>5, <1>6, <1>7

LEMMA RetireSequence ==
  ASSUME TypeOK, Retire
  PROVE  /\ pending' \in Seq(Packet)
         /\ Len(pending) \in Nat \ {0}
         /\ Len(pending') = Len(pending) - 1
         /\ \A i \in 1..Len(pending') : pending'[i] = pending[i + 1]
         /\ Head(pending) = pending[1]
         /\ Head(pending) \in Packet
<1>1. pending \in Seq(Packet) /\ pending # <<>> /\ pending' = Tail(pending)
  BY DEF TypeOK, Retire
<1>2. Len(pending) \in Nat \ {0}
  BY <1>1, EmptySeq
<1> QED
  BY <1>1, <1>2, HeadTailProperties

-----------------------------------------------------------------------------
(* Type correctness, step by step. *)
LEMMA CheckoutType ==
  ASSUME TypeOK, NEW forced \in BOOLEAN, Checkout(forced)
  PROVE  /\ nextSignal' \in BOOLEAN
         /\ nextDedicated' \in Signal
         /\ value' \in [Signal -> Int]
         /\ lease' \in [Dedicated -> [epoch : Nat, inFlight : BOOLEAN]]
<1>1. SignalOf(forced) \in Signal \cup {NoSignal}
  BY SignalOfType DEF TypeOK
<1>2. nextSignal' \in BOOLEAN /\ nextDedicated' \in Signal /\ value' \in [Signal -> Int]
  BY <1>1, SignalFacts DEF Checkout, TypeOK
<1>3. lease' \in [Dedicated -> [epoch : Nat, inFlight : BOOLEAN]]
  BY <1>1, SignalFacts DEF Checkout, TypeOK
<1> QED
  BY <1>2, <1>3

LEMMA WriteKernargType ==
  ASSUME TypeOK, WriteKernarg
  PROVE  kargIdx' \in KernargSlot /\ karg' \in [KernargSlot -> Nat]
<1>1. kargIdx \in Int /\ KernargSlots \in Nat \ {0}
  BY DispatchAssumption DEF TypeOK, KernargSlot
<1>2. (kargIdx + 1) % KernargSlots \in 0..KernargSlots - 1
  BY <1>1
<1>3. NextId \in Nat
  BY DEF TypeOK, NextId
<1> QED
  BY <1>2, <1>3 DEF WriteKernarg, TypeOK, KernargSlot

LEMMA PublishType ==
  ASSUME TypeOK, NEW forced \in BOOLEAN, NEW slot \in KernargSlot \cup {NoSlot},
         Publish(slot, forced)
  PROVE  /\ pending' \in Seq(Packet)
         /\ last' \in [signal : Signal \cup {NoSignal}, epoch : Nat]
         /\ armed' \in Nat /\ linked' \in BOOLEAN /\ waiting' \in BOOLEAN
<1>1. pending' \in Seq(Packet)
  BY PublishSequence
<1>2. SignalOf(forced) \in Signal \cup {NoSignal}
  BY SignalOfType DEF TypeOK
<1>3. last' \in [signal : Signal \cup {NoSignal}, epoch : Nat]
  BY <1>2 DEF Publish, TypeOK
<1>4. linked' \in BOOLEAN /\ waiting' \in BOOLEAN
  BY Zenon DEF Publish
<1>5. armed' \in Nat
  BY DEF Publish, TypeOK
<1> QED
  BY <1>1, <1>3, <1>4, <1>5

LEMMA TypeStep ==
  ASSUME TypeOK, [Next]_vars
  PROVE  TypeOK'
<1> USE DEF ringVars, signalVars
<1>1. CASE ChainNext
  BY <1>1 DEF ChainNext, TypeOK
<1>2. ASSUME NEW s \in Dedicated, ArmNextDedicated(s) PROVE TypeOK'
  BY <1>2, SignalFacts DEF ArmNextDedicated, TypeOK
<1>3. CASE Arm
  <2>1. kargIdx \in KernargSlot \cup {NoSlot}
    BY DEF TypeOK
  <2>2. unretired' \in 0..KernargSlots
    BY <1>3, DispatchAssumption DEF Arm, HasKernargSlot, TypeOK
  <2>3. kargIdx' \in KernargSlot /\ karg' \in [KernargSlot -> Nat]
    BY <1>3, WriteKernargType DEF Arm
  <2>4. /\ nextSignal' \in BOOLEAN
        /\ nextDedicated' \in Signal
        /\ value' \in [Signal -> Int]
        /\ lease' \in [Dedicated -> [epoch : Nat, inFlight : BOOLEAN]]
    BY <1>3, CheckoutType DEF Arm
  <2>5. /\ pending' \in Seq(Packet)
        /\ last' \in [signal : Signal \cup {NoSignal}, epoch : Nat]
        /\ armed' \in Nat /\ linked' \in BOOLEAN /\ waiting' \in BOOLEAN
    BY <1>3, <2>1, PublishType DEF Arm
  <2> QED
    BY <2>2, <2>3, <2>4, <2>5 DEF TypeOK
<1>4. CASE ArmRefused
  BY <1>4 DEF ArmRefused, TypeOK
<1>5. CASE ArmFailsEarly
  <2>1. kargIdx' \in KernargSlot /\ karg' \in [KernargSlot -> Nat]
    BY <1>5, WriteKernargType DEF ArmFailsEarly
  <2>2. armed' \in Nat
    BY <1>5 DEF ArmFailsEarly, TypeOK
  <2> QED
    BY <1>5, <2>1, <2>2, Zenon DEF ArmFailsEarly, TypeOK
<1>6. CASE ArmFailsLate
  <2>1. kargIdx' \in KernargSlot /\ karg' \in [KernargSlot -> Nat]
    BY <1>6, WriteKernargType DEF ArmFailsLate
  <2>2. /\ nextSignal' \in BOOLEAN
        /\ nextDedicated' \in Signal
        /\ value' \in [Signal -> Int]
        /\ lease' \in [Dedicated -> [epoch : Nat, inFlight : BOOLEAN]]
    BY <1>6, CheckoutType DEF ArmFailsLate
  <2>3. armed' \in Nat
    BY <1>6 DEF ArmFailsLate, TypeOK
  <2> QED
    BY <1>6, <2>1, <2>2, <2>3, Zenon DEF ArmFailsLate, TypeOK
<1>7. CASE ArmBlocking
  <2>1. /\ nextSignal' \in BOOLEAN
        /\ nextDedicated' \in Signal
        /\ value' \in [Signal -> Int]
        /\ lease' \in [Dedicated -> [epoch : Nat, inFlight : BOOLEAN]]
    BY <1>7, CheckoutType DEF ArmBlocking
  <2>2. /\ pending' \in Seq(Packet)
        /\ last' \in [signal : Signal \cup {NoSignal}, epoch : Nat]
        /\ armed' \in Nat /\ linked' \in BOOLEAN /\ waiting' \in BOOLEAN
    BY <1>7, PublishType DEF ArmBlocking
  <2> QED
    BY <1>7, <2>1, <2>2 DEF ArmBlocking, TypeOK
<1>8. CASE Replay
  <2>1. pending' \in Seq(Packet)
    BY <1>8, ReplaySequence
  <2> QED
    BY <1>8, <2>1, SignalFacts DEF Replay, TypeOK
<1>9. CASE Retire
  <2>1. pending' \in Seq(Packet) /\ Head(pending) \in Packet
    BY <1>9, RetireSequence
  <2>2. Head(pending).signal \in Signal \cup {NoSignal}
    BY <2>1 DEF Packet
  <2>3. value' \in [Signal -> Int]
    BY <1>9, <2>2 DEF Retire, TypeOK
  <2> QED
    BY <1>9, <2>1, <2>3 DEF Retire, TypeOK
<1>10. CASE WaitDone
  <2>1. lease' \in [Dedicated -> [epoch : Nat, inFlight : BOOLEAN]]
    BY <1>10 DEF WaitDone, EndLease, TypeOK
  <2>2. unretired' \in 0..KernargSlots
    BY <1>10, DispatchAssumption DEF WaitDone
  <2> QED
    BY <1>10, <2>1, <2>2, Zenon DEF WaitDone, TypeOK
<1>11. CASE CompletionObserved
  <2>1. unretired' \in 0..KernargSlots
    BY <1>11, DispatchAssumption DEF CompletionObserved
  <2> QED
    BY <1>11, <2>1, Zenon DEF CompletionObserved, TypeOK
<1>12. CASE WaitTimesOut
  BY <1>12 DEF WaitTimesOut, TypeOK
<1>13. CASE UNCHANGED vars
  BY <1>13 DEF vars, TypeOK
<1> QED
  BY <1>1, <1>2, <1>3, <1>4, <1>5, <1>6, <1>7, <1>8, <1>9, <1>10, <1>11,
     <1>12, <1>13 DEF Next, Caller

LEMMA TypeInit == Init => TypeOK
<1> SUFFICES ASSUME Init PROVE TypeOK
  OBVIOUS
<1>1. <<>> \in Seq(Packet)
  OBVIOUS
<1>2. kargIdx \in KernargSlot /\ unretired \in 0..KernargSlots /\ armed \in Nat
  BY DispatchAssumption DEF Init, KernargSlot
<1>3. value \in [Signal -> Int] /\ karg \in [KernargSlot -> Nat]
  BY DEF Init
<1>4. lease \in [Dedicated -> [epoch : Nat, inFlight : BOOLEAN]]
  BY DEF Init, Unleased
<1>5. last \in [signal : Signal \cup {NoSignal}, epoch : Nat]
  BY DEF Init
<1>6. nextSignal \in BOOLEAN /\ nextDedicated \in Signal /\ linked \in BOOLEAN
      /\ waiting \in BOOLEAN
  BY SignalFacts, Zenon DEF Init
<1> QED
  BY <1>1, <1>2, <1>3, <1>4, <1>5, <1>6 DEF Init, TypeOK

(* The variables of GpuDispatch keep their types whatever fails. *)
THEOREM DispatchType == Spec => []TypeOK
BY TypeInit, TypeStep, PTL DEF Spec

-----------------------------------------------------------------------------
(* Why a wait is truthful.  Without faults the caller's idea of a chain    *)
(* and next_signal agree, only the newest packet can carry a signal, and   *)
(* it does so exactly while its caller waits for it: then the signal that  *)
(* the wait polls is at one until that packet has retired.                 *)
ChainInv ==
  /\ nextSignal <=> ~linked
  /\ \A i \in 1..Len(pending) : i < Len(pending) => pending[i].signal = NoSignal
  /\ ~waiting => \A i \in 1..Len(pending) : pending[i].signal = NoSignal
  /\ waiting /\ Len(pending) > 0 =>
       pending[Len(pending)].signal = WaitSignal /\ value[WaitSignal] = 1

(* A published dispatch is waited for exactly if it carries a signal. *)
LEMMA PublishChain ==
  ASSUME TypeOK, ChainInv, ~waiting, NEW forced \in BOOLEAN,
         NEW slot \in KernargSlot \cup {NoSlot},
         Checkout(forced), Publish(slot, forced)
  PROVE  ChainInv'
<1> DEFINE s == SignalOf(forced)
<1>0. /\ Len(pending) \in Nat
      /\ Len(pending') = Len(pending) + 1
      /\ \A i \in 1..Len(pending) : pending'[i] = pending[i]
      /\ pending'[Len(pending')] = [id |-> NextId, karg |-> slot, signal |-> s]
  BY PublishSequence, Zenon
<1>1. /\ Len(pending) \in Nat
      /\ Len(pending') = Len(pending) + 1
      /\ \A i \in 1..Len(pending) : pending'[i] = pending[i]
      /\ pending'[Len(pending')].signal = s
  BY <1>0
<1>2. s \in Signal \cup {NoSignal}
  BY SignalOfType DEF TypeOK
<1>3. \A i \in 1..Len(pending) : pending[i].signal = NoSignal
  BY DEF ChainInv
<1>4. last'.signal = s
  BY DEF Publish
<1>5. s # NoSignal => WaitSignal' = s /\ value'[s] = 1
  BY <1>2, <1>4, SignalFacts DEF WaitSignal, Checkout, TypeOK
<1>6. waiting' <=> s # NoSignal
  <2>1. nextSignal <=> ~linked
    BY DEF ChainInv
  <2>2. waiting' <=> (~linked \/ forced \/ nextDedicated # Shared)
    BY Zenon DEF Publish
  <2>3. nextDedicated # NoSignal /\ Shared # NoSignal
    BY SignalFacts DEF TypeOK
  <2>4. CASE nextDedicated # Shared
    BY <2>2, <2>3, <2>4, Zenon DEF SignalOf
  <2>5. CASE nextDedicated = Shared
    BY <2>1, <2>2, <2>3, <2>5, Zenon DEF SignalOf
  <2> QED
    BY <2>4, <2>5
<1>7. nextSignal' <=> ~linked'
  BY Zenon DEF Checkout, Publish
<1> HIDE DEF s
<1>8. \A i \in 1..Len(pending') : i < Len(pending') => pending'[i].signal = NoSignal
  BY <1>1, <1>3
<1>9. ~waiting' => \A i \in 1..Len(pending') : pending'[i].signal = NoSignal
  <2> SUFFICES ASSUME s = NoSignal, NEW i \in 1..Len(pending')
               PROVE  pending'[i].signal = NoSignal
    BY <1>6, Zenon
  <2> QED
    BY <1>1, <1>8
<1>10. waiting' => pending'[Len(pending')].signal = WaitSignal' /\ value'[WaitSignal'] = 1
  BY <1>1, <1>5, <1>6, Zenon
<1> QED
  BY <1>7, <1>8, <1>9, <1>10, Zenon DEF ChainInv

LEMMA ChainStep ==
  ASSUME NoFaults, TypeOK, ChainInv, [Next]_vars
  PROVE  ChainInv'
<1> USE DEF ringVars, signalVars
<1>1. CASE ChainNext
  BY <1>1, Zenon DEF ChainNext, CanArm, ChainInv, WaitSignal
<1>2. ASSUME NEW s \in Dedicated, ArmNextDedicated(s) PROVE ChainInv'
  BY <1>2, Zenon DEF ArmNextDedicated, ChainInv, WaitSignal
<1>3. CASE Arm
  BY <1>3, PublishChain DEF Arm, CanArm, TypeOK
<1>4. CASE ArmBlocking
  BY <1>4, PublishChain DEF ArmBlocking, CanArm
<1>5. CASE Replay
  <2>1. /\ Len(pending) \in Nat
        /\ Len(pending') = Len(pending) + 2
        /\ \A i \in 1..Len(pending) : pending'[i] = pending[i]
        /\ pending'[Len(pending) + 1].signal = NoSignal
        /\ pending'[Len(pending) + 2].signal = Shared
    BY <1>5, ReplaySequence
  <2>2. \A i \in 1..Len(pending) : pending[i].signal = NoSignal
    BY <1>5 DEF Replay, CanReplay, CanArm, ChainInv
  <2>3. \A i \in 1..Len(pending') : i < Len(pending') => pending'[i].signal = NoSignal
    BY <2>1, <2>2
  <2>5. WaitSignal' = Shared
    BY <1>5, SignalFacts DEF Replay, CanReplay, WaitSignal, TypeOK
  <2>6. value'[Shared] = 1
    BY <1>5, SignalFacts DEF Replay, TypeOK
  <2>7. pending'[Len(pending')].signal = Shared
    BY <2>1
  <2>8. waiting' /\ (nextSignal' <=> ~linked')
    BY <1>5, Zenon DEF Replay, ChainInv
  <2> QED
    BY <2>3, <2>5, <2>6, <2>7, <2>8, Zenon DEF ChainInv
<1>6. CASE Retire
  <2>1. /\ Len(pending) \in Nat \ {0}
        /\ Len(pending') = Len(pending) - 1
        /\ \A i \in 1..Len(pending') : pending'[i] = pending[i + 1]
        /\ Head(pending) = pending[1]
    BY <1>6, RetireSequence
  <2>2. WaitSignal' = WaitSignal /\ waiting' = waiting /\ (nextSignal' <=> ~linked')
    BY <1>6, Zenon DEF Retire, WaitSignal, ChainInv
  <2>3. \A i \in 1..Len(pending') : i < Len(pending') => pending'[i].signal = NoSignal
    BY <2>1 DEF ChainInv
  <2>4. ~waiting' => \A i \in 1..Len(pending') : pending'[i].signal = NoSignal
    <3> SUFFICES ASSUME ~waiting, NEW i \in 1..Len(pending')
                 PROVE  pending'[i].signal = NoSignal
      BY <2>2, Zenon
    <3>1. i + 1 \in 1..Len(pending) /\ pending'[i] = pending[i + 1]
      BY <2>1
    <3> QED
      BY <3>1, Zenon DEF ChainInv
  <2>5. ASSUME waiting', Len(pending') > 0
        PROVE  pending'[Len(pending')].signal = WaitSignal' /\ value'[WaitSignal'] = 1
    <3>1. 1 \in 1..Len(pending) /\ 1 < Len(pending)
      BY <2>1, <2>5
    <3>2. Head(pending).signal = NoSignal
      BY <2>1, <3>1 DEF ChainInv
    <3>3. value' = value
      BY <1>6, <3>2 DEF Retire
    <3>4. pending'[Len(pending')] = pending[Len(pending)]
      BY <2>1, <2>5
    <3>5. Len(pending) > 0
      BY <2>1
    <3> QED
      BY <2>2, <2>5, <3>3, <3>4, <3>5, Zenon DEF ChainInv
  <2> QED
    BY <2>2, <2>3, <2>4, <2>5, Zenon DEF ChainInv
<1>7. ASSUME waiting, value[WaitSignal] <= 0, UNCHANGED <<nextSignal, linked, pending>>
      PROVE  ChainInv'
  <2>1. Len(pending) \in Nat
    BY DEF TypeOK
  <2>2. ~(Len(pending) > 0)
    BY <1>7 DEF ChainInv
  <2>3. Len(pending') = 0
    BY <1>7, <2>1, <2>2
  <2>4. /\ ~(Len(pending') > 0)
        /\ \A i \in 1..Len(pending') : i < Len(pending') => pending'[i].signal = NoSignal
        /\ \A i \in 1..Len(pending') : pending'[i].signal = NoSignal
    BY <2>3
  <2>5. nextSignal' <=> ~linked'
    BY <1>7, Zenon DEF ChainInv
  <2> QED
    BY <2>4, <2>5, Zenon DEF ChainInv
<1>8. CASE WaitDone
  BY <1>7, <1>8, Zenon DEF WaitDone
<1>9. CASE CompletionObserved
  <2>1. waiting /\ value[WaitSignal] <= 0 /\ UNCHANGED <<nextSignal, linked, pending>>
    BY <1>9 DEF CompletionObserved
  <2> QED
    BY <1>7, <2>1, Zenon
<1>10. CASE UNCHANGED vars
  BY <1>10, Zenon DEF vars, ChainInv, WaitSignal
<1> QED
  BY <1>1, <1>2, <1>3, <1>4, <1>5, <1>6, <1>8, <1>9, <1>10
     DEF Next, Caller, NoFaults, ArmRefused, ArmFailsEarly, ArmFailsLate, WaitTimesOut

LEMMA ChainInit == Init => ChainInv
<1> SUFFICES ASSUME Init PROVE ChainInv
  OBVIOUS
<1>1. Len(pending) = 0
  BY DEF Init
<1>2. nextSignal <=> ~linked
  BY Zenon DEF Init
<1> QED
  BY <1>1, <1>2 DEF ChainInv

(* If no fault interferes, a wait that could return finds an empty queue:  *)
(* wait means that every dispatch armed before it has retired.             *)
THEOREM DispatchWaitMeansRetired ==
  ASSUME NoFaults PROVE Spec => []WaitMeansRetired
<1>1. ASSUME TypeOK, ChainInv PROVE WaitMeansRetired
  <2> SUFFICES ASSUME waiting, value[WaitSignal] <= 0 PROVE pending = <<>>
    BY DEF WaitMeansRetired
  <2>1. ~(Len(pending) > 0)
    BY <1>1 DEF ChainInv
  <2>2. pending \in Seq(Packet) /\ Len(pending) \in Nat
    BY <1>1 DEF TypeOK
  <2>3. Len(pending) = 0
    BY <2>1, <2>2
  <2> QED
    BY <2>2, <2>3, EmptySeq
<1>2. Init => TypeOK /\ ChainInv
  BY TypeInit, ChainInit
<1>3. TypeOK /\ ChainInv /\ [Next]_vars => (TypeOK /\ ChainInv)'
  BY TypeStep, ChainStep
<1> QED
  BY <1>1, <1>2, <1>3, PTL DEF Spec

-----------------------------------------------------------------------------
(* Why kernel arguments are stable.  The slots of queued packets lie       *)
(* behind karg_idx, no further back than there are unretired dispatches,   *)
(* so the slot at karg_idx is free as long as those are fewer than slots.  *)
Age(k) == IF k < kargIdx THEN kargIdx - k ELSE kargIdx + KernargSlots - k

KernargInv ==
  \A i \in 1..Len(pending) :
    pending[i].karg # NoSlot =>
      /\ karg[pending[i].karg] = pending[i].id
      /\ Age(pending[i].karg) <= unretired

LEMMA NextSlot ==
  ASSUME NEW K \in Nat \ {0}, NEW n \in 0..K - 1
  PROVE  (n + 1) % K = IF n + 1 = K THEN 0 ELSE n + 1
<1>1. CASE n + 1 = K
  BY <1>1, SMT
<1>2. CASE n + 1 < K
  BY <1>2, SMT
<1> QED
  BY <1>1, <1>2

LEMMA PacketAt ==
  ASSUME TypeOK, NEW i \in 1..Len(pending)
  PROVE  pending[i].karg \in KernargSlot \cup {NoSlot} /\ pending[i].id \in Nat
<1>1. pending[i] \in Packet
  BY DEF TypeOK
<1> QED
  BY <1>1 DEF Packet

LEMMA KernargStep ==
  ASSUME NoFaults, TypeOK, ChainInv, KernargInv, [Next]_vars
  PROVE  KernargInv'
<1> USE DEF ringVars, signalVars
<1>1. ASSUME UNCHANGED <<ringVars, pending>> PROVE KernargInv'
  BY <1>1 DEF KernargInv, Age
<1>2. CASE Arm
  <2>1. /\ Len(pending) \in Nat
        /\ Len(pending') = Len(pending) + 1
        /\ \A i \in 1..Len(pending) : pending'[i] = pending[i]
        /\ pending'[Len(pending')]
             = [id |-> NextId, karg |-> kargIdx, signal |-> SignalOf(FALSE)]
    BY <1>2, PublishSequence, Zenon DEF Arm, TypeOK
  <2>2. /\ kargIdx \in 0..KernargSlots - 1
        /\ KernargSlots \in Nat \ {0}
        /\ unretired \in Nat /\ unretired < KernargSlots /\ unretired' = unretired + 1
    BY <1>2, DispatchAssumption DEF TypeOK, KernargSlot, Arm, HasKernargSlot
  <2>3. /\ kargIdx' = IF kargIdx + 1 = KernargSlots THEN 0 ELSE kargIdx + 1
        /\ karg' = [karg EXCEPT ![kargIdx] = NextId]
    BY <1>2, <2>2, NextSlot DEF Arm, WriteKernarg
  <2>4. karg \in [KernargSlot -> Nat] /\ kargIdx \in KernargSlot
    BY DEF TypeOK
  <2>5. ASSUME NEW i \in 1..Len(pending), pending[i].karg # NoSlot
        PROVE  /\ karg'[pending[i].karg] = pending[i].id
               /\ Age(pending[i].karg)' <= unretired'
    <3>1. /\ karg[pending[i].karg] = pending[i].id
          /\ Age(pending[i].karg) <= unretired
      BY <2>5 DEF KernargInv
    <3>2. pending[i].karg \in KernargSlot
      BY <2>5, PacketAt
    <3> DEFINE k == pending[i].karg
    <3>3. k \in 0..KernargSlots - 1 /\ Age(k) <= unretired
      BY <3>1, <3>2 DEF KernargSlot
    <3> DEFINE n == pending[i].id
    <3>4. karg[k] = n
      BY <3>1
    <3>5. Age(k)' = IF k < kargIdx' THEN kargIdx' - k ELSE kargIdx' + KernargSlots - k
      <4>1. \A q : Age(q)' = IF q < kargIdx' THEN kargIdx' - q ELSE kargIdx' + KernargSlots - q
        BY DEF Age
      <4>2. i \in 1..Len(pending') /\ pending'[i] = pending[i]
        BY <2>1
      <4> QED
        BY <4>1, <4>2
    <3> HIDE DEF k, n
    <3>6. k # kargIdx
      BY <2>2, <3>3 DEF Age
    <3>7. karg'[k] = n
      BY <2>3, <2>4, <3>3, <3>4, <3>6 DEF KernargSlot
    <3>8. Age(k)' <= unretired'
      BY <2>2, <2>3, <3>3, <3>5, <3>6 DEF Age
    <3> QED
      BY <3>7, <3>8 DEF k, n
  <2>6. karg'[kargIdx] = NextId
    BY <2>3, <2>4
  <2>7. kargIdx' - kargIdx = 1 \/ kargIdx' + KernargSlots - kargIdx = 1
    BY <2>2, <2>3
  <2> QED
    BY <2>1, <2>2, <2>3, <2>5, <2>6, <2>7 DEF KernargInv, Age
<1>3. CASE ArmBlocking
  <2>1. /\ Len(pending) \in Nat
        /\ Len(pending') = Len(pending) + 1
        /\ \A i \in 1..Len(pending) : pending'[i] = pending[i]
        /\ pending'[Len(pending')]
             = [id |-> NextId, karg |-> NoSlot, signal |-> SignalOf(TRUE)]
    BY <1>3, PublishSequence, Zenon DEF ArmBlocking
  <2>2. UNCHANGED <<kargIdx, karg, unretired>>
    BY <1>3 DEF ArmBlocking
  <2>3. pending'[Len(pending')].karg = NoSlot
    BY <2>1
  <2>4. \A i \in 1..Len(pending') :
          pending'[i].karg # NoSlot => i \in 1..Len(pending) /\ pending'[i] = pending[i]
    BY <2>1, <2>3
  <2> QED
    BY <2>2, <2>4 DEF KernargInv, Age
<1>4. CASE Replay
  <2>1. /\ Len(pending) \in Nat
        /\ Len(pending') = Len(pending) + 2
        /\ \A i \in 1..Len(pending) : pending'[i] = pending[i]
        /\ pending'[Len(pending) + 1].karg = NoSlot
        /\ pending'[Len(pending) + 2].karg = NoSlot
    BY <1>4, ReplaySequence
  <2>2. \A i \in 1..Len(pending') :
          i \in 1..Len(pending) \/ i = Len(pending) + 1 \/ i = Len(pending) + 2
    BY <2>1
  <2>3. \A i \in 1..Len(pending') :
          pending'[i].karg # NoSlot => i \in 1..Len(pending) /\ pending'[i] = pending[i]
    BY <2>1, <2>2, Zenon
  <2>4. UNCHANGED <<kargIdx, karg, unretired>>
    BY <1>4 DEF Replay
  <2> QED
    BY <2>3, <2>4 DEF KernargInv, Age
<1>5. CASE Retire
  <2>1. /\ Len(pending) \in Nat \ {0}
        /\ Len(pending') = Len(pending) - 1
        /\ \A i \in 1..Len(pending') : pending'[i] = pending[i + 1]
    BY <1>5, RetireSequence
  <2>2. UNCHANGED <<kargIdx, karg, unretired>>
    BY <1>5 DEF Retire
  <2>3. \A i \in 1..Len(pending') : i + 1 \in 1..Len(pending) /\ pending'[i] = pending[i + 1]
    BY <2>1
  <2> QED
    BY <2>2, <2>3 DEF KernargInv, Age
<1>6. ASSUME waiting, value[WaitSignal] <= 0, UNCHANGED pending PROVE KernargInv'
  <2>1. Len(pending) \in Nat /\ ~(Len(pending) > 0)
    BY <1>6 DEF TypeOK, ChainInv
  <2>2. \A i \in 1..Len(pending') : FALSE
    BY <1>6, <2>1
  <2> QED
    BY <2>2, Zenon DEF KernargInv
<1>7. CASE WaitDone
  BY <1>6, <1>7, Zenon DEF WaitDone
<1>8. CASE CompletionObserved
  BY <1>6, <1>8, Zenon DEF CompletionObserved
<1> QED
  BY <1>1, <1>2, <1>3, <1>4, <1>5, <1>7, <1>8
     DEF Next, Caller, NoFaults, ChainNext, ArmNextDedicated, ArmRefused,
         ArmFailsEarly, ArmFailsLate, WaitTimesOut, vars

LEMMA KernargInit == Init => KernargInv
<1> SUFFICES ASSUME Init PROVE KernargInv
  OBVIOUS
<1>1. Len(pending) = 0
  BY DEF Init
<1> QED
  BY <1>1 DEF KernargInv

(* If no fault interferes, the arguments of a queued packet never change:  *)
(* the count of unretired dispatches guards the ring of kernarg slots.     *)
THEOREM DispatchKernargStable ==
  ASSUME NoFaults PROVE Spec => []KernargStable
<1>1. KernargInv => KernargStable
  BY DEF KernargInv, KernargStable
<1>2. Init => TypeOK /\ ChainInv /\ KernargInv
  BY TypeInit, ChainInit, KernargInit
<1>3. TypeOK /\ ChainInv /\ KernargInv /\ [Next]_vars => (TypeOK /\ ChainInv /\ KernargInv)'
  BY TypeStep, ChainStep, KernargStep
<1> QED
  BY <1>1, <1>2, <1>3, PTL DEF Spec

-----------------------------------------------------------------------------
(* Why a dedicated signal is sound whatever fails.  A queued packet's      *)
(* dedicated signal is leased, at one, and no other packet's; a slot that  *)
(* is requested is not leased; and while the caller waits on a dedicated   *)
(* signal, the newest packet carries it.                                   *)
DedicatedInv ==
  /\ nextDedicated \in Dedicated => ~lease[nextDedicated].inFlight
  /\ \A i \in 1..Len(pending) :
       pending[i].signal \in Dedicated =>
         lease[pending[i].signal].inFlight /\ value[pending[i].signal] = 1
  /\ \A i, j \in 1..Len(pending) :
       pending[i].signal \in Dedicated /\ pending[i].signal = pending[j].signal
         => i = j
  /\ waiting /\ last.signal \in Dedicated /\ Len(pending) > 0
       => pending[Len(pending)].signal = last.signal

(* A checkout leaves the signals of queued packets as they are.            *)
LEMMA CheckoutDedicated ==
  ASSUME TypeOK, DedicatedInv, NEW forced \in BOOLEAN, Checkout(forced)
  PROVE  /\ nextDedicated' \notin Dedicated
         /\ SignalOf(forced) \in Dedicated =>
              lease'[SignalOf(forced)].inFlight /\ value'[SignalOf(forced)] = 1
         /\ \A i \in 1..Len(pending) :
              pending[i].signal \in Dedicated =>
                /\ pending[i].signal # SignalOf(forced)
                /\ lease'[pending[i].signal].inFlight
                /\ value'[pending[i].signal] = 1
<1> DEFINE s == SignalOf(forced)
<1>1. s \in Signal \cup {NoSignal} /\ (s \in Dedicated => s = nextDedicated)
  BY SignalOfType DEF TypeOK
<1>2. nextDedicated' \notin Dedicated
  BY SignalFacts DEF Checkout
<1>3. /\ value' = IF s = NoSignal THEN value ELSE [value EXCEPT ![s] = 1]
      /\ lease' = IF s \in Dedicated
                    THEN [lease EXCEPT ![s] = [epoch |-> lease[s].epoch + 1,
                                               inFlight |-> TRUE]]
                    ELSE lease
  BY DEF Checkout
<1>4. /\ value \in [Signal -> Int]
      /\ lease \in [Dedicated -> [epoch : Nat, inFlight : BOOLEAN]]
  BY DEF TypeOK
<1> HIDE DEF s
<1>5. s \in Dedicated => lease'[s].inFlight /\ value'[s] = 1
  BY <1>1, <1>3, <1>4, SignalFacts
<1>6. ASSUME NEW i \in 1..Len(pending), pending[i].signal \in Dedicated
      PROVE  /\ pending[i].signal # s
             /\ lease'[pending[i].signal].inFlight
             /\ value'[pending[i].signal] = 1
  <2> DEFINE t == pending[i].signal
  <2>1. t \in Dedicated /\ lease[t].inFlight /\ value[t] = 1
    BY <1>6, Zenon DEF DedicatedInv
  <2>2. s \in Dedicated => ~lease[s].inFlight
    BY <1>1, Zenon DEF DedicatedInv
  <2> HIDE DEF t
  <2>3. t # s
    BY <2>1, <2>2, Zenon
  <2>4. lease'[t] = lease[t] /\ value'[t] = value[t]
    BY <1>3, <1>4, <2>1, <2>3, SignalFacts
  <2>5. lease'[t].inFlight /\ value'[t] = 1
    BY <2>1, <2>4, Zenon
  <2> QED
    BY <2>3, <2>5, Zenon DEF t
<1> QED
  BY <1>2, <1>5, <1>6, Zenon DEF s

LEMMA PublishDedicated ==
  ASSUME TypeOK, DedicatedInv, NEW forced \in BOOLEAN,
         NEW slot \in KernargSlot \cup {NoSlot},
         Checkout(forced), Publish(slot, forced)
  PROVE  DedicatedInv'
<1> DEFINE s == SignalOf(forced)
<1>1. /\ Len(pending) \in Nat
      /\ Len(pending') = Len(pending) + 1
      /\ \A i \in 1..Len(pending) : pending'[i] = pending[i]
      /\ pending'[Len(pending')] = [id |-> NextId, karg |-> slot, signal |-> s]
  BY PublishSequence, Zenon
<1>2. /\ nextDedicated' \notin Dedicated
      /\ s \in Dedicated => lease'[s].inFlight /\ value'[s] = 1
      /\ \A i \in 1..Len(pending) :
           pending[i].signal \in Dedicated =>
             /\ pending[i].signal # s
             /\ lease'[pending[i].signal].inFlight
             /\ value'[pending[i].signal] = 1
  BY CheckoutDedicated, Zenon
<1>3. last'.signal = s
  BY DEF Publish
<1> HIDE DEF s
<1>4. pending'[Len(pending')].signal = s
  BY <1>1
<1>5. \A i \in 1..Len(pending') :
        \/ i = Len(pending') /\ pending'[i].signal = s
        \/ i \in 1..Len(pending) /\ pending'[i] = pending[i]
  BY <1>1, <1>4
<1>6. \A i \in 1..Len(pending') :
        pending'[i].signal \in Dedicated =>
          lease'[pending'[i].signal].inFlight /\ value'[pending'[i].signal] = 1
  BY <1>2, <1>5, Zenon
<1>7. \A i, j \in 1..Len(pending') :
        pending'[i].signal \in Dedicated /\ pending'[i].signal = pending'[j].signal
          => i = j
  <2> SUFFICES ASSUME NEW i \in 1..Len(pending'), NEW j \in 1..Len(pending'),
                      pending'[i].signal \in Dedicated,
                      pending'[i].signal = pending'[j].signal
               PROVE  i = j
    OBVIOUS
  <2>1. CASE i = Len(pending') /\ j = Len(pending')
    BY <2>1
  <2>2. CASE i = Len(pending') /\ j \in 1..Len(pending) /\ pending'[j] = pending[j]
    BY <1>2, <1>4, <2>2, Zenon
  <2>3. CASE i \in 1..Len(pending) /\ pending'[i] = pending[i] /\ j = Len(pending')
    BY <1>2, <1>4, <2>3, Zenon
  <2>4. CASE /\ i \in 1..Len(pending) /\ pending'[i] = pending[i]
             /\ j \in 1..Len(pending) /\ pending'[j] = pending[j]
    BY <2>4, Zenon DEF DedicatedInv
  <2> QED
    BY <1>5, <2>1, <2>2, <2>3, <2>4, Zenon
<1> QED
  BY <1>2, <1>3, <1>4, <1>6, <1>7, Zenon DEF DedicatedInv

LEMMA DedicatedStep ==
  ASSUME TypeOK, DedicatedInv, [Next]_vars
  PROVE  DedicatedInv'
<1> USE DEF ringVars, signalVars
<1>1. ASSUME UNCHANGED <<nextDedicated, value, lease, last, pending>>,
             waiting' => waiting
      PROVE  DedicatedInv'
  BY <1>1, Zenon DEF DedicatedInv
<1>2. ASSUME NEW s \in Dedicated, ArmNextDedicated(s) PROVE DedicatedInv'
  BY <1>2, Zenon DEF ArmNextDedicated, DedicatedInv
<1>3. CASE Arm
  BY <1>3, PublishDedicated DEF Arm, TypeOK
<1>4. CASE ArmBlocking
  BY <1>4, PublishDedicated DEF ArmBlocking
<1>5. CASE ArmFailsLate
  <2>1. /\ nextDedicated' \notin Dedicated
        /\ \A i \in 1..Len(pending) :
             pending[i].signal \in Dedicated =>
               /\ lease'[pending[i].signal].inFlight
               /\ value'[pending[i].signal] = 1
    BY <1>5, CheckoutDedicated, Zenon DEF ArmFailsLate
  <2>2. UNCHANGED <<pending, last, waiting>>
    BY <1>5 DEF ArmFailsLate
  <2> QED
    BY <2>1, <2>2, Zenon DEF DedicatedInv
<1>6. CASE Replay
  <2>1. /\ Len(pending) \in Nat
        /\ Len(pending') = Len(pending) + 2
        /\ \A i \in 1..Len(pending) : pending'[i] = pending[i]
        /\ pending'[Len(pending) + 1].signal = NoSignal
        /\ pending'[Len(pending) + 2].signal = Shared
    BY <1>6, ReplaySequence
  <2>2. \A i \in 1..Len(pending') :
          i \in 1..Len(pending) \/ i = Len(pending) + 1 \/ i = Len(pending) + 2
    BY <2>1
  <2>3. \A i \in 1..Len(pending') :
          pending'[i].signal \in Dedicated => i \in 1..Len(pending) /\ pending'[i] = pending[i]
    BY <2>1, <2>2, SignalFacts, Zenon
  <2>4. \A t \in Dedicated : value'[t] = value[t]
    BY <1>6, SignalFacts DEF Replay, TypeOK
  <2>5. UNCHANGED <<nextDedicated, lease, last>> /\ last.signal \notin Dedicated
    BY <1>6 DEF Replay, CanReplay
  <2>6. \A i \in 1..Len(pending') :
          pending'[i].signal \in Dedicated =>
            lease'[pending'[i].signal].inFlight /\ value'[pending'[i].signal] = 1
    BY <2>3, <2>4, <2>5 DEF DedicatedInv
  <2>7. \A i, j \in 1..Len(pending') :
          pending'[i].signal \in Dedicated /\ pending'[i].signal = pending'[j].signal
            => i = j
    <3> SUFFICES ASSUME NEW i \in 1..Len(pending'), NEW j \in 1..Len(pending'),
                        pending'[i].signal \in Dedicated,
                        pending'[i].signal = pending'[j].signal
                 PROVE  i = j
      OBVIOUS
    <3> QED
      BY <2>3, Zenon DEF DedicatedInv
  <2> QED
    BY <2>5, <2>6, <2>7, Zenon DEF DedicatedInv
<1>7. CASE Retire
  <2>1. /\ Len(pending) \in Nat \ {0}
        /\ Len(pending') = Len(pending) - 1
        /\ \A i \in 1..Len(pending') : pending'[i] = pending[i + 1]
        /\ Head(pending) = pending[1]
        /\ Head(pending) \in Packet
    BY <1>7, RetireSequence
  <2>2. UNCHANGED <<nextDedicated, lease, last, waiting>>
    BY <1>7 DEF Retire
  <2> DEFINE h == pending[1].signal
  <2>3. h \in Signal \cup {NoSignal}
    BY <2>1 DEF Packet
  <2>4. \A t \in Dedicated : t # h => value'[t] = value[t]
    BY <1>7, <2>1, <2>3, SignalFacts DEF Retire, TypeOK
  <2> HIDE DEF h
  <2>5. ASSUME NEW i \in 1..Len(pending')
        PROVE  /\ i + 1 \in 1..Len(pending)
               /\ pending'[i] = pending[i + 1]
               /\ pending[i + 1].signal \in Dedicated => pending[i + 1].signal # h
    <3>1. i + 1 \in 1..Len(pending) /\ 1 \in 1..Len(pending) /\ i + 1 # 1
      BY <2>1
    <3>2. pending[i + 1].signal \in Dedicated => pending[i + 1].signal # pending[1].signal
      BY <3>1, Zenon DEF DedicatedInv
    <3> QED
      BY <2>1, <3>1, <3>2 DEF h
  <2>6. \A i \in 1..Len(pending') :
          pending'[i].signal \in Dedicated =>
            lease'[pending'[i].signal].inFlight /\ value'[pending'[i].signal] = 1
    <3> SUFFICES ASSUME NEW i \in 1..Len(pending'), pending'[i].signal \in Dedicated
                 PROVE  lease'[pending'[i].signal].inFlight /\ value'[pending'[i].signal] = 1
      OBVIOUS
    <3> DEFINE t == pending[i + 1].signal
    <3>1. pending'[i].signal = t /\ t \in Dedicated /\ t # h
      BY <2>5, Zenon
    <3>2. lease[t].inFlight /\ value[t] = 1
      BY <2>5, <3>1, Zenon DEF DedicatedInv
    <3> HIDE DEF t
    <3>3. lease'[t].inFlight /\ value'[t] = 1
      BY <2>2, <2>4, <3>1, <3>2, Zenon
    <3> QED
      BY <3>1, <3>3, Zenon
  <2>7. \A i, j \in 1..Len(pending') :
          pending'[i].signal \in Dedicated /\ pending'[i].signal = pending'[j].signal
            => i = j
    <3> SUFFICES ASSUME NEW i \in 1..Len(pending'), NEW j \in 1..Len(pending'),
                        pending'[i].signal \in Dedicated,
                        pending'[i].signal = pending'[j].signal
                 PROVE  i = j
      OBVIOUS
    <3>1. i + 1 = j + 1
      BY <2>5, Zenon DEF DedicatedInv
    <3> QED
      BY <3>1
  <2>8. ASSUME waiting', last'.signal \in Dedicated, Len(pending') > 0
        PROVE  pending'[Len(pending')].signal = last'.signal
    <3>1. pending'[Len(pending')] = pending[Len(pending)] /\ Len(pending) > 0
      BY <2>1, <2>8
    <3> QED
      BY <2>2, <2>8, <3>1, Zenon DEF DedicatedInv
  <2> QED
    BY <2>2, <2>6, <2>7, <2>8, Zenon DEF DedicatedInv
<1>8. CASE WaitDone
  <2>1. UNCHANGED <<nextDedicated, value, last, pending>> /\ ~waiting'
    BY <1>8 DEF WaitDone
  <2>2. lease \in [Dedicated -> [epoch : Nat, inFlight : BOOLEAN]]
    BY DEF TypeOK
  <2>3. CASE last.signal \in Dedicated
    <3>1. WaitSignal = last.signal
      BY <2>3, SignalFacts DEF WaitSignal
    <3>2. value[last.signal] <= 0
      BY <1>8, <3>1 DEF WaitDone
    <3>3. Len(pending) \in Nat
      BY DEF TypeOK
    <3>4. ~(Len(pending) > 0)
      <4> SUFFICES ASSUME Len(pending) > 0 PROVE FALSE
        OBVIOUS
      <4>1. Len(pending) \in 1..Len(pending)
        BY <3>3
      <4>2. pending[Len(pending)].signal = last.signal
        BY <1>8, <2>3, Zenon DEF DedicatedInv, WaitDone
      <4>3. value[last.signal] = 1
        BY <2>3, <4>1, <4>2, Zenon DEF DedicatedInv
      <4> QED
        BY <3>2, <4>3
    <3>5. \A i \in 1..Len(pending) : FALSE
      BY <3>3, <3>4
    <3>6. nextDedicated \in Dedicated => ~lease'[nextDedicated].inFlight
      <4> SUFFICES ASSUME nextDedicated \in Dedicated
                   PROVE  ~lease'[nextDedicated].inFlight
        OBVIOUS
      <4>1. ~lease[nextDedicated].inFlight
        BY DEF DedicatedInv
      <4> QED
        BY <1>8, <2>2, <4>1 DEF WaitDone, EndLease
    <3> QED
      BY <2>1, <3>5, <3>6, Zenon DEF DedicatedInv
  <2>4. CASE last.signal \notin Dedicated
    <3>1. lease' = lease
      BY <1>8, <2>4 DEF WaitDone, EndLease
    <3> QED
      BY <1>1, <2>1, <3>1, Zenon
  <2> QED
    BY <2>3, <2>4
<1>9. CASE ChainNext
  BY <1>1, <1>9, Zenon DEF ChainNext
<1>10. CASE ArmRefused
  BY <1>1, <1>10, Zenon DEF ArmRefused
<1>11. CASE ArmFailsEarly
  BY <1>1, <1>11, Zenon DEF ArmFailsEarly
<1>12. CASE CompletionObserved
  BY <1>1, <1>12, Zenon DEF CompletionObserved
<1>13. CASE WaitTimesOut
  BY <1>1, <1>13, Zenon DEF WaitTimesOut
<1>14. CASE UNCHANGED vars
  BY <1>1, <1>14, Zenon DEF vars
<1> QED
  BY <1>2, <1>3, <1>4, <1>5, <1>6, <1>7, <1>8, <1>9, <1>10, <1>11, <1>12,
     <1>13, <1>14 DEF Next, Caller

LEMMA DedicatedInit == Init => DedicatedInv
<1> SUFFICES ASSUME Init PROVE DedicatedInv
  OBVIOUS
<1>1. Len(pending) = 0 /\ nextDedicated = Shared
  BY DEF Init
<1> QED
  BY <1>1, SignalFacts DEF DedicatedInv

(* Whatever arms fail and waits expire: a wait on a dedicated signal       *)
(* returns only after everything retired, and a signal is leased to at     *)
(* most one queued packet.                                                 *)
THEOREM DispatchDedicatedSound == Spec => []DedicatedSound
<1>1. ASSUME TypeOK, DedicatedInv PROVE DedicatedSound
  <2>1. ASSUME waiting, last.signal \in Dedicated, value[last.signal] <= 0
        PROVE  pending = <<>>
    <3>1. pending \in Seq(Packet) /\ Len(pending) \in Nat
      BY <1>1 DEF TypeOK
    <3>2. ~(Len(pending) > 0)
      <4> SUFFICES ASSUME Len(pending) > 0 PROVE FALSE
        OBVIOUS
      <4>1. Len(pending) \in 1..Len(pending)
        BY <3>1
      <4>2. pending[Len(pending)].signal = last.signal
        BY <1>1, <2>1, Zenon DEF DedicatedInv
      <4>3. value[last.signal] = 1
        BY <1>1, <2>1, <4>1, <4>2, Zenon DEF DedicatedInv
      <4> QED
        BY <2>1, <4>3
    <3>3. Len(pending) = 0
      BY <3>1, <3>2
    <3> QED
      BY <3>1, <3>3, EmptySeq
  <2> QED
    BY <1>1, <2>1, Zenon DEF DedicatedInv, DedicatedSound
<1>2. Init => TypeOK /\ DedicatedInv
  BY TypeInit, DedicatedInit
<1>3. TypeOK /\ DedicatedInv /\ [Next]_vars => (TypeOK /\ DedicatedInv)'
  BY TypeStep, DedicatedStep
<1> QED
  BY <1>1, <1>2, <1>3, PTL DEF Spec

=============================================================================
