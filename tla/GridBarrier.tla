---------------------------- MODULE GridBarrier -----------------------------
(***************************************************************************)
(* The barrier across the workgroups of one kernel: grid_barrier in         *)
(* kernels/mainarch_kernels.cl, a sense-reversing barrier on two words of   *)
(* device memory.  Group is the set of resident workgroups (num_wg of       *)
(* them), Gpu the set of GPUs, each with a barrier of its own.  The module  *)
(* is extended by the kernels that use the barrier, and its own             *)
(* specification lets every workgroup enter whenever it is outside.         *)
(*                                                                          *)
(* A waiting workgroup gives up after 4e9 spins; GiveUp is allowed at any   *)
(* time here and restricted by the modules that use it.                     *)
(***************************************************************************)
EXTENDS Integers, FiniteSets

CONSTANTS Gpu, Group

ASSUME GridBarrierAssumption == IsFiniteSet(Group) /\ Group # {}

VARIABLES
  arrived, \* gbar[0] of each GPU
  sense,   \* gbar[1]
  bpc,     \* where each workgroup is in the barrier
  saved,   \* s, the sense it loaded
  entered, \* history: barriers each workgroup has entered
  left,    \* history: and left
  gaveUp   \* history: has a workgroup of the GPU given up?

barrierVars == <<arrived, sense, bpc, saved, entered, left, gaveUp>>

NumWg == Cardinality(Group)

BarrierInit ==
  /\ arrived = [g \in Gpu |-> 0]
  /\ sense = [g \in Gpu |-> 0]
  /\ bpc = [g \in Gpu |-> [w \in Group |-> "out"]]
  /\ saved = [g \in Gpu |-> [w \in Group |-> 0]]
  /\ entered = [g \in Gpu |-> [w \in Group |-> 0]]
  /\ left = [g \in Gpu |-> [w \in Group |-> 0]]
  /\ gaveUp = [g \in Gpu |-> FALSE]

Goto(g, w, place) == bpc' = [bpc EXCEPT ![g][w] = place]
Leave(g, w) ==
  /\ Goto(g, w, "out")
  /\ left' = [left EXCEPT ![g][w] = @ + 1]

(* A single workgroup passes at once.                                      *)
Enter(g, w) ==
  /\ bpc[g][w] = "out"
  /\ entered' = [entered EXCEPT ![g][w] = @ + 1]
  /\ IF NumWg = 1 THEN Leave(g, w) ELSE Goto(g, w, "load") /\ UNCHANGED left
  /\ UNCHANGED <<arrived, sense, saved, gaveUp>>

Load(g, w) ==
  /\ bpc[g][w] = "load"
  /\ saved' = [saved EXCEPT ![g][w] = sense[g]]
  /\ Goto(g, w, "add")
  /\ UNCHANGED <<arrived, sense, entered, left, gaveUp>>

FaultyAdd(g, w) ==
  /\ bpc[g][w] = "add"
  /\ arrived' = [arrived EXCEPT ![g] = @ + 1]
  /\ Goto(g, w, IF arrived[g] + 1 >= NumWg - 1 THEN "reset" ELSE "spin")
  /\ UNCHANGED <<sense, saved, entered, left, gaveUp>>

(* fetch_add: the last to arrive opens the barrier.                        *)
Add(g, w) ==
  /\ bpc[g][w] = "add"
  /\ arrived' = [arrived EXCEPT ![g] = @ + 1]
  /\ Goto(g, w, IF arrived[g] + 1 = NumWg THEN "reset" ELSE "spin")
  /\ UNCHANGED <<sense, saved, entered, left, gaveUp>>

FaultyReset(g, w) ==
  /\ bpc[g][w] = "reset"
  /\ Goto(g, w, "flip")
  /\ UNCHANGED <<arrived, sense, saved, entered, left, gaveUp>>

Reset(g, w) ==
  /\ bpc[g][w] = "reset"
  /\ arrived' = [arrived EXCEPT ![g] = 0]
  /\ Goto(g, w, "flip")
  /\ UNCHANGED <<sense, saved, entered, left, gaveUp>>

Flip(g, w) ==
  /\ bpc[g][w] = "flip"
  /\ sense' = [sense EXCEPT ![g] = 1 - saved[g][w]]
  /\ Leave(g, w)
  /\ UNCHANGED <<arrived, saved, entered, gaveUp>>

SpinEnds(g, w) ==
  /\ bpc[g][w] = "spin"
  /\ sense[g] # saved[g][w]
  /\ Leave(g, w)
  /\ UNCHANGED <<arrived, sense, saved, entered, gaveUp>>

GiveUp(g, w) ==
  /\ bpc[g][w] = "spin"
  /\ sense[g] = saved[g][w]
  /\ Leave(g, w)
  /\ gaveUp' = [gaveUp EXCEPT ![g] = TRUE]
  /\ UNCHANGED <<arrived, sense, saved, entered>>

Inside(g, w) ==
  \/ Load(g, w) \/ Add(g, w) \/ Reset(g, w) \/ Flip(g, w) \/ SpinEnds(g, w)

BarrierNext ==
  \E g \in Gpu, w \in Group : Enter(g, w) \/ Inside(g, w) \/ GiveUp(g, w)

BarrierSpec == BarrierInit /\ [][BarrierNext]_barrierVars
-----------------------------------------------------------------------------
(* A barrier holds: no workgroup leaves it before every workgroup of the   *)
(* GPU has entered it, unless one gave up.                                 *)
BarrierHolds ==
  \A g \in Gpu : ~gaveUp[g] =>
    \A v, w \in Group : left[g][v] <= entered[g][w]
=============================================================================
