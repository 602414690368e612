---------------------------- MODULE GpuDispatch ----------------------------
(***************************************************************************)
(* Dispatches on one GpuDevice (crates/mainarch-core/src/gpu.rs): the ring *)
(* of kernel-argument slots, the completion signal every host wait polls,  *)
(* the dedicated completion signals with their leases, and next_signal,    *)
(* which links dispatches into chains that only their last one signals.    *)
(*                                                                         *)
(* The queue is taken as AqlQueue shows it: packets run in order, each     *)
(* after the one before (their headers carry the barrier bit).  The caller *)
(* keeps to the methods' documentation: a chain ends in a dispatch with a  *)
(* signal, and the device is waited for before another one is armed.       *)
(* MAINARCH_AQL_SERIALIZE and the replay shadow, which serve debugging,    *)
(* are left out.                                                           *)
(***************************************************************************)
EXTENDS Integers, Sequences, FiniteSets

CONSTANTS
  KernargSlots,    \* KERNARG_SLOTS
  DedicatedSlots,  \* DEDICATED_PACKET_COMPLETION_SIGNALS
  MaxDispatches,   \* bound on the dispatches that are armed
  MayFail,         \* does the caller go on after an arm returned an error?
  MayTimeout       \* does it go on after a wait ran out of time?

ASSUME DispatchAssumption ==
  /\ KernargSlots \in Nat \ {0}
  /\ DedicatedSlots \in Nat
  /\ MaxDispatches \in Nat
  /\ MayFail \in BOOLEAN
  /\ MayTimeout \in BOOLEAN

Shared == 0
Dedicated == 1..DedicatedSlots
Signal == {Shared} \cup Dedicated
NoSignal == -1
KernargSlot == 0..KernargSlots - 1
NoSlot == -1
Unleased == [epoch |-> 0, inFlight |-> FALSE]

VARIABLES
  kargIdx,        \* karg_idx
  unretired,      \* unretired_kernargs
  nextSignal,     \* next_signal
  nextDedicated,  \* next_dedicated_packet_completion_signal_slot, or Shared
  value,          \* value of each completion signal
  lease,          \* packet_completion_signal_leases
  last,           \* last_dispatch_completion: its signal and lease epoch
  karg,           \* the dispatch whose arguments each kernarg slot holds
  pending,        \* the packets in the queue that have not retired
  armed,          \* how many dispatches have been armed so far
  linked,         \* has the caller asked for a chain link since its last arm?
  waiting         \* has the caller armed a dispatch that it waits for?

ringVars == <<kargIdx, karg, unretired>>
signalVars == <<nextSignal, nextDedicated, value, lease>>
vars == <<ringVars, signalVars, last, pending, armed, linked, waiting>>

Init ==
  /\ kargIdx = 0
  /\ unretired = 0
  /\ nextSignal = TRUE
  /\ nextDedicated = Shared
  /\ value = [s \in Signal |-> 0]
  /\ lease = [s \in Dedicated |-> Unleased]
  /\ last = [signal |-> NoSignal, epoch |-> 0]
  /\ karg = [k \in KernargSlot |-> 0]
  /\ pending = <<>>
  /\ armed = 0
  /\ linked = FALSE
  /\ waiting = FALSE

-----------------------------------------------------------------------------
(* Arming a dispatch.  Its identity is the number of dispatches before it. *)
NextId == armed + 1
CanArm == ~waiting /\ armed < MaxDispatches

FaultyHasKernargSlot == unretired <= KernargSlots

(* The guard of reserve_kernarg_slot. *)
HasKernargSlot == unretired < KernargSlots

(* The slot is taken and the arguments are written into it at once. *)
WriteKernarg ==
  /\ kargIdx' = (kargIdx + 1) % KernargSlots
  /\ karg' = [karg EXCEPT ![kargIdx] = NextId]

(* The signal the next dispatch carries. *)
SignalOf(forced) ==
  IF nextDedicated # Shared THEN nextDedicated
  ELSE IF nextSignal \/ forced THEN Shared ELSE NoSignal

FaultyCheckoutKeepsLink(forced) ==
  LET s == SignalOf(forced) IN
  /\ nextDedicated' = Shared
  /\ value' = IF s = NoSignal THEN value ELSE [value EXCEPT ![s] = 1]
  /\ lease' = IF s \in Dedicated
                THEN [lease EXCEPT ![s] = [epoch |-> @.epoch + 1, inFlight |-> TRUE]]
                ELSE lease
  /\ UNCHANGED nextSignal

FaultyCheckoutUnleased(forced) ==
  LET s == SignalOf(forced) IN
  /\ nextSignal' = TRUE
  /\ nextDedicated' = Shared
  /\ value' = IF s = NoSignal THEN value ELSE [value EXCEPT ![s] = 1]
  /\ UNCHANGED lease

(* checkout_next_completion_signal: the signal is set to one before the    *)
(* packet that decrements it is published, a dedicated one is leased, and  *)
(* both one-shot requests are spent.                                       *)
Checkout(forced) ==
  LET s == SignalOf(forced) IN
  /\ nextSignal' = TRUE
  /\ nextDedicated' = Shared
  /\ value' = IF s = NoSignal THEN value ELSE [value EXCEPT ![s] = 1]
  /\ lease' = IF s \in Dedicated
                THEN [lease EXCEPT ![s] = [epoch |-> @.epoch + 1, inFlight |-> TRUE]]
                ELSE lease

(* The packet is published and recorded as the last dispatch.  The caller  *)
(* goes on to its wait unless it asked for a mere link of a chain.         *)
Publish(slot, forced) ==
  LET s == SignalOf(forced) IN
  /\ pending' = Append(pending, [id |-> NextId, karg |-> slot, signal |-> s])
  /\ last' = [signal |-> s,
              epoch |-> IF s \in Dedicated THEN lease[s].epoch + 1 ELSE 0]
  /\ waiting' = (~linked \/ forced \/ nextDedicated # Shared)
  /\ linked' = FALSE
  /\ armed' = armed + 1

(* chain_next *)
ChainNext ==
  /\ CanArm
  /\ ~linked
  /\ nextSignal' = FALSE
  /\ linked' = TRUE
  /\ UNCHANGED <<ringVars, nextDedicated, value, lease, last, pending, armed,
                 waiting>>

(* arm_next_dispatch_with_dedicated_completion_signal *)
ArmNextDedicated(s) ==
  /\ CanArm
  /\ nextDedicated = Shared
  /\ ~lease[s].inFlight
  /\ nextDedicated' = s
  /\ UNCHANGED <<ringVars, nextSignal, value, lease, last, pending, armed,
                 linked, waiting>>

(* arm_1d, arm_1d_trusted, arm_grid *)
Arm ==
  /\ CanArm
  /\ HasKernargSlot
  /\ WriteKernarg
  /\ unretired' = unretired + 1
  /\ Checkout(FALSE)
  /\ Publish(kargIdx, FALSE)

(* No kernarg slot is free: the arm is refused. *)
ArmRefused ==
  /\ MayFail
  /\ CanArm
  /\ ~HasKernargSlot
  /\ linked
  /\ linked' = FALSE
  /\ UNCHANGED <<ringVars, signalVars, last, pending, armed, waiting>>

(* An error after the slot is taken and before the checkout: the one-shot  *)
(* requests stay set.                                                      *)
ArmFailsEarly ==
  /\ MayFail
  /\ CanArm
  /\ HasKernargSlot
  /\ WriteKernarg
  /\ armed' = armed + 1
  /\ linked' = FALSE
  /\ UNCHANGED <<unretired, signalVars, last, pending, waiting>>

(* An error after the checkout: the packet is not published. *)
ArmFailsLate ==
  /\ MayFail
  /\ CanArm
  /\ HasKernargSlot
  /\ WriteKernarg
  /\ Checkout(FALSE)
  /\ armed' = armed + 1
  /\ linked' = FALSE
  /\ UNCHANGED <<unretired, last, pending, waiting>>

(* dispatch_1d_blocking up to its wait: the arguments are the caller's.    *)
ArmBlocking ==
  /\ CanArm
  /\ Checkout(TRUE)
  /\ Publish(NoSlot, TRUE)
  /\ UNCHANGED ringVars

(* No program of the repository replays a chain right after a dispatch     *)
(* with a dedicated signal, which the wait would then still poll.          *)
CanReplay == CanArm /\ ~linked /\ last.signal \notin Dedicated

ReplayPackets(signal) ==
  <<[id |-> NextId, karg |-> NoSlot, signal |-> NoSignal],
    [id |-> NextId, karg |-> NoSlot, signal |-> signal]>>

FaultyReplayUnsignalled ==
  /\ CanReplay
  /\ value' = [value EXCEPT ![Shared] = 1]
  /\ pending' = pending \o ReplayPackets(NoSignal)
  /\ armed' = armed + 1
  /\ waiting' = TRUE
  /\ UNCHANGED <<ringVars, nextSignal, nextDedicated, lease, last, linked>>

(* dispatch_qwen_..._replay_chain: a prepared chain of packets, the last   *)
(* of which carries the shared signal, is published past the checkout and  *)
(* is not recorded as the last dispatch.                                   *)
Replay ==
  /\ CanReplay
  /\ value' = [value EXCEPT ![Shared] = 1]
  /\ pending' = pending \o ReplayPackets(Shared)
  /\ armed' = armed + 1
  /\ waiting' = TRUE
  /\ UNCHANGED <<ringVars, nextSignal, nextDedicated, lease, last, linked>>

-----------------------------------------------------------------------------
(* The command processor retires the oldest packet and decrements its      *)
(* completion signal.                                                      *)
Retire ==
  /\ pending # <<>>
  /\ pending' = Tail(pending)
  /\ value' = LET s == Head(pending).signal IN
              IF s = NoSignal THEN value ELSE [value EXCEPT ![s] = @ - 1]
  /\ UNCHANGED <<ringVars, nextSignal, nextDedicated, lease, last, armed,
                 linked, waiting>>

(* current_wait_signal_value: the signal that a wait polls. *)
WaitSignal == IF last.signal = NoSignal THEN Shared ELSE last.signal

(* record_dispatch_completion_wait: the lease of the last dispatch ends.   *)
EndLease ==
  lease' = IF /\ last.signal \in Dedicated
              /\ lease[last.signal].inFlight
              /\ lease[last.signal].epoch = last.epoch
             THEN [lease EXCEPT ![last.signal].inFlight = FALSE]
             ELSE lease

(* wait, and the end of dispatch_1d_blocking: the poll succeeds. *)
WaitDone ==
  /\ waiting
  /\ value[WaitSignal] <= 0
  /\ EndLease
  /\ unretired' = 0
  /\ waiting' = FALSE
  /\ UNCHANGED <<kargIdx, karg, nextSignal, nextDedicated, value, last, pending,
                 armed, linked>>

(* A caller that polls completion_signal_value itself and then reports by  *)
(* mark_completion_observed.                                               *)
CompletionObserved ==
  /\ waiting
  /\ WaitSignal = Shared
  /\ value[Shared] <= 0
  /\ unretired' = 0
  /\ waiting' = FALSE
  /\ UNCHANGED <<kargIdx, karg, signalVars, last, pending, armed, linked>>

(* The wait gives up; the caller reports the error and may go on with the  *)
(* device, as the worker of LiveLane does.                                 *)
WaitTimesOut ==
  /\ MayTimeout
  /\ waiting
  /\ value[WaitSignal] > 0
  /\ waiting' = FALSE
  /\ UNCHANGED <<ringVars, signalVars, last, pending, armed, linked>>

Caller ==
  \/ ChainNext \/ (\E s \in Dedicated : ArmNextDedicated(s))
  \/ Arm \/ ArmRefused \/ ArmFailsEarly \/ ArmFailsLate
  \/ ArmBlocking \/ Replay
  \/ WaitDone \/ CompletionObserved \/ WaitTimesOut

Next == Caller \/ Retire

Spec == Init /\ [][Next]_vars

(* Kernels terminate and the command processor retires them; a poll that   *)
(* can succeed does.                                                       *)
FairSpec == Spec /\ WF_vars(Retire) /\ WF_vars(WaitDone)

-----------------------------------------------------------------------------
Packet == [id : Nat, karg : KernargSlot \cup {NoSlot},
           signal : Signal \cup {NoSignal}]

TypeOK ==
  /\ kargIdx \in KernargSlot
  /\ unretired \in 0..KernargSlots
  /\ nextSignal \in BOOLEAN
  /\ nextDedicated \in Signal
  /\ value \in [Signal -> Int]
  /\ lease \in [Dedicated -> [epoch : Nat, inFlight : BOOLEAN]]
  /\ last \in [signal : Signal \cup {NoSignal}, epoch : Nat]
  /\ karg \in [KernargSlot -> Nat]
  /\ pending \in Seq(Packet)
  /\ armed \in Nat
  /\ linked \in BOOLEAN
  /\ waiting \in BOOLEAN

(* A wait "for the most recently armed dispatch to retire" can return only *)
(* when nothing is left in the queue, chained links, blocking dispatches   *)
(* and replays included.                                                   *)
WaitMeansRetired ==
  waiting /\ value[WaitSignal] <= 0 => pending = <<>>

(* unretired_kernargs "prevents reusing a kernarg scratch slot while the   *)
(* CP may still fetch a packet that points at the old contents".           *)
KernargStable ==
  \A i \in 1..Len(pending) :
    pending[i].karg # NoSlot => karg[pending[i].karg] = pending[i].id

(* A wait on a dedicated signal is truthful even on a device whose earlier *)
(* arms failed and whose earlier waits timed out: the lease keeps a signal *)
(* from reuse until it was seen to complete, and no packet that is still   *)
(* queued carries a signal that is not leased.                             *)
DedicatedSound ==
  /\ waiting /\ last.signal \in Dedicated /\ value[last.signal] <= 0
       => pending = <<>>
  /\ \A i, j \in 1..Len(pending) :
       pending[i].signal \in Dedicated =>
         /\ lease[pending[i].signal].inFlight
         /\ pending[i].signal = pending[j].signal => i = j

(* Every wait returns. *)
WaitReturns == waiting ~> ~waiting

=============================================================================
