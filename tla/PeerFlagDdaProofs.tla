------------------------- MODULE PeerFlagDdaProofs --------------------------
(***************************************************************************)
(* Proofs about the grid barrier and the persistent all-reduce that extends *)
(* it, for every number of ranks, workgroups and operations.                *)
(*                                                                          *)
(* The barrier: a GPU none of whose workgroups has given up is in a round:  *)
(* a number k such that every workgroup has left k barriers and entered k   *)
(* or k + 1, but for the stragglers still to see that the barrier before    *)
(* opened, which have left k - 1.                                           *)
(*                                                                          *)
(* The all-reduce uses the barrier as the barrier's own specification       *)
(* allows, so the barrier holds in it.                                      *)
(***************************************************************************)
EXTENDS PeerFlagDda, FiniteSetTheorems, TLAPS

Stops == {"out", "load", "add", "reset", "flip", "spin"}
Opening == {"reset", "flip"}

BarrierTypes ==
  /\ arrived \in [Gpu -> Nat] /\ sense \in [Gpu -> {0, 1}]
  /\ bpc \in [Gpu -> [Group -> Stops]]
  /\ saved \in [Gpu -> [Group -> {0, 1}]]
  /\ entered \in [Gpu -> [Group -> Nat]] /\ left \in [Gpu -> [Group -> Nat]]
  /\ gaveUp \in [Gpu -> BOOLEAN]

(* The workgroups that have been counted in this round.                    *)
Counted(g) ==
  {w \in Group : bpc[g][w] \in {"spin", "reset", "flip"}
                   /\ saved[g][w] = sense[g]}

Before(g, w, k) == bpc[g][w] = "out" /\ entered[g][w] = k /\ left[g][w] = k
Arriving(g, w, k) ==
  /\ bpc[g][w] \in {"load", "add", "spin", "reset", "flip"}
  /\ bpc[g][w] # "load" => saved[g][w] = sense[g]
  /\ entered[g][w] = k + 1 /\ left[g][w] = k
Straggling(g, w, k) ==
  /\ bpc[g][w] = "spin" /\ saved[g][w] # sense[g]
  /\ entered[g][w] = k /\ left[g][w] + 1 = k

(* The workgroup that opens the barrier is the last to be counted.         *)
OpenerIsLast(g) ==
  \A v, w \in Group : bpc[g][v] \in Opening /\ w # v =>
    bpc[g][w] = "spin" /\ saved[g][w] = sense[g]

ArrivedExact(g) ==
  IF \E v \in Group : bpc[g][v] = "flip"
  THEN arrived[g] = 0 ELSE arrived[g] = Cardinality(Counted(g))

Round(g, k) ==
  /\ \A w \in Group : Before(g, w, k) \/ Arriving(g, w, k) \/ Straggling(g, w, k)
  /\ NumWg = 1 => \A w \in Group : bpc[g][w] = "out"
  /\ OpenerIsLast(g)
  /\ ArrivedExact(g)
  /\ Counted(g) = Group => \E v \in Group : bpc[g][v] \in Opening

RoundInv == \A g \in Gpu : ~gaveUp[g] => \E k \in Nat : Round(g, k)
BarrierInv == BarrierTypes /\ RoundInv
-----------------------------------------------------------------------------
LEMMA NumWgPositive == NumWg \in Nat /\ NumWg >= 1
BY GridBarrierAssumption, FS_CardinalityType, FS_EmptySet DEF NumWg

LEMMA SoloGroup ==
  ASSUME NumWg = 1, NEW v \in Group, NEW w \in Group
  PROVE  v = w
BY GridBarrierAssumption, FS_Singleton DEF NumWg

LEMMA CountedFinite ==
  ASSUME NEW g \in Gpu
  PROVE  /\ IsFiniteSet(Counted(g))
         /\ Cardinality(Counted(g)) \in Nat
         /\ Cardinality(Counted(g)) <= NumWg
         /\ Cardinality(Counted(g)) = NumWg => Counted(g) = Group
<1>1. Counted(g) \subseteq Group
  BY DEF Counted
<1> QED
  BY <1>1, GridBarrierAssumption, FS_Subset, FS_CardinalityType DEF NumWg

LEMMA RoundImpliesHolds == BarrierInv => BarrierHolds
<1> SUFFICES ASSUME BarrierInv, NEW g \in Gpu, ~gaveUp[g],
                    NEW v \in Group, NEW w \in Group
             PROVE  left[g][v] <= entered[g][w]
  BY DEF BarrierHolds
<1>1. PICK k \in Nat : Round(g, k)
  BY DEF BarrierInv, RoundInv
<1>2. left[g][v] \in Nat /\ entered[g][w] \in Nat
  BY DEF BarrierInv, BarrierTypes
<1>3. left[g][v] <= k
  BY <1>1, <1>2 DEF Round, Before, Arriving, Straggling
<1>4. k <= entered[g][w]
  BY <1>1, <1>2 DEF Round, Before, Arriving, Straggling
<1> QED
  BY <1>2, <1>3, <1>4

LEMMA BarrierTypesStep ==
  BarrierTypes /\ [BarrierNext]_barrierVars => BarrierTypes'
<1> SUFFICES ASSUME BarrierTypes, [BarrierNext]_barrierVars
             PROVE  BarrierTypes'
  OBVIOUS
<1> USE DEF BarrierTypes, Stops, Goto, Leave
<1>1. CASE UNCHANGED barrierVars
  BY <1>1 DEF barrierVars
<1>2. ASSUME NEW g \in Gpu, NEW w \in Group, Enter(g, w)
      PROVE  BarrierTypes'
  <2>1. entered' \in [Gpu -> [Group -> Nat]]
    <3>1. entered' = [entered EXCEPT ![g][w] = @ + 1]
      BY <1>2 DEF Enter
    <3> QED
      BY <3>1
  <2>2. /\ bpc' \in [Gpu -> [Group -> Stops]]
        /\ left' \in [Gpu -> [Group -> Nat]]
    <3>1. CASE NumWg = 1
      <4>1. /\ bpc' = [bpc EXCEPT ![g][w] = "out"]
            /\ left' = [left EXCEPT ![g][w] = @ + 1]
        BY <1>2, <3>1 DEF Enter
      <4> QED
        BY <4>1
    <3>2. CASE NumWg # 1
      <4>1. bpc' = [bpc EXCEPT ![g][w] = "load"] /\ left' = left
        BY <1>2, <3>2 DEF Enter
      <4> QED
        BY <4>1
    <3> QED
      BY <3>1, <3>2
  <2> QED
    BY <1>2, <2>1, <2>2 DEF Enter
<1>3. ASSUME NEW g \in Gpu, NEW w \in Group, Load(g, w)
      PROVE  BarrierTypes'
  BY <1>3 DEF Load
<1>4. ASSUME NEW g \in Gpu, NEW w \in Group, Add(g, w)
      PROVE  BarrierTypes'
  BY <1>4 DEF Add
<1>5. ASSUME NEW g \in Gpu, NEW w \in Group, Reset(g, w)
      PROVE  BarrierTypes'
  BY <1>5 DEF Reset
<1>6. ASSUME NEW g \in Gpu, NEW w \in Group, Flip(g, w)
      PROVE  BarrierTypes'
  <2>1. sense' = [sense EXCEPT ![g] = 1 - saved[g][w]]
    BY <1>6 DEF Flip
  <2>2. saved[g][w] \in {0, 1}
    OBVIOUS
  <2>3. 1 - saved[g][w] \in {0, 1}
    BY <2>2
  <2>4. sense' \in [Gpu -> {0, 1}]
    BY <2>1, <2>3
  <2>5. /\ bpc' = [bpc EXCEPT ![g][w] = "out"]
        /\ left' = [left EXCEPT ![g][w] = @ + 1]
        /\ UNCHANGED <<arrived, saved, entered, gaveUp>>
    BY <1>6 DEF Flip
  <2> QED
    BY <2>4, <2>5
<1>7. ASSUME NEW g \in Gpu, NEW w \in Group, SpinEnds(g, w)
      PROVE  BarrierTypes'
  BY <1>7 DEF SpinEnds
<1>8. ASSUME NEW g \in Gpu, NEW w \in Group, GiveUp(g, w)
      PROVE  BarrierTypes'
  BY <1>8 DEF GiveUp
<1> QED
  BY <1>1, <1>2, <1>3, <1>4, <1>5, <1>6, <1>7, <1>8 DEF BarrierNext, Inside

(* A step on one GPU leaves the rounds of the others alone.                *)
SameAt(h) ==
  /\ arrived'[h] = arrived[h] /\ sense'[h] = sense[h] /\ bpc'[h] = bpc[h]
  /\ saved'[h] = saved[h] /\ entered'[h] = entered[h] /\ left'[h] = left[h]

LEMMA OtherGpu ==
  ASSUME NEW h \in Gpu, SameAt(h), NEW k \in Nat, Round(h, k)
  PROVE  Round(h, k)'
<1>1. Counted(h)' = Counted(h)
  BY DEF SameAt, Counted
<1>2. ArrivedExact(h)'
  BY <1>1 DEF SameAt, Round, ArrivedExact
<1>3. OpenerIsLast(h)'
  BY DEF SameAt, Round, OpenerIsLast
<1>4. (Counted(h) = Group => \E v \in Group : bpc[h][v] \in Opening)'
  BY <1>1 DEF SameAt, Round
<1>5. (NumWg = 1 => \A w \in Group : bpc[h][w] = "out")'
  BY DEF SameAt, Round, NumWg
<1>6. (\A w \in Group : Before(h, w, k) \/ Arriving(h, w, k) \/ Straggling(h, w, k))'
  BY DEF SameAt, Round, Before, Arriving, Straggling
<1> QED
  BY <1>2, <1>3, <1>4, <1>5, <1>6 DEF Round

LEMMA EnterRound ==
  ASSUME BarrierTypes, NEW g \in Gpu, NEW w \in Group, NEW k \in Nat,
         Round(g, k), Enter(g, w)
  PROVE  \E j \in Nat : Round(g, j)'
<1>1. entered' = [entered EXCEPT ![g][w] = @ + 1]
  BY DEF Enter
<1>2. bpc[g][w] = "out" /\ Before(g, w, k)
  BY DEF Enter, Round, Arriving, Straggling, Before
<1>3. CASE NumWg = 1
  <2>1. \A v \in Group : v = w
    BY <1>3, SoloGroup
  <2>2. /\ bpc' = [bpc EXCEPT ![g][w] = "out"]
        /\ left' = [left EXCEPT ![g][w] = @ + 1]
        /\ UNCHANGED <<arrived, sense, saved>>
    BY <1>3 DEF Enter, Leave, Goto
  <2>3. bpc' = bpc
    BY <1>2, <2>2 DEF BarrierTypes
  <2>4. Before(g, w, k + 1)'
    BY <1>1, <1>2, <2>2, <2>3 DEF Before, BarrierTypes
  <2>5. Counted(g)' = Counted(g)
    BY <2>2, <2>3 DEF Counted
  <2>6. ArrivedExact(g)' /\ OpenerIsLast(g)'
    BY <2>1, <2>2, <2>3, <2>5 DEF Round, ArrivedExact, OpenerIsLast
  <2>7. Round(g, k + 1)'
    BY <2>1, <2>3, <2>4, <2>5, <2>6, <1>3 DEF Round, NumWg
  <2> QED
    BY <2>7
<1>4. CASE NumWg # 1
  <2>1. /\ bpc' = [bpc EXCEPT ![g][w] = "load"] /\ left' = left
        /\ UNCHANGED <<arrived, sense, saved>>
    BY <1>4 DEF Enter, Goto
  <2>2. /\ bpc'[g][w] = "load"
        /\ \A v \in Group : v # w => bpc'[g][v] = bpc[g][v]
    BY <2>1 DEF BarrierTypes
  <2>3. Counted(g)' = Counted(g)
    BY <1>2, <2>1, <2>2 DEF Counted
  <2>4. ArrivedExact(g)'
    BY <1>2, <2>1, <2>2, <2>3 DEF Round, ArrivedExact
  <2>5. OpenerIsLast(g)'
    <3>1. \A v \in Group : bpc[g][v] \notin Opening
      BY <1>2 DEF Round, OpenerIsLast, Opening
    <3> QED
      BY <3>1, <2>2 DEF OpenerIsLast, Opening
  <2>6. Arriving(g, w, k)'
    BY <1>1, <1>2, <2>1, <2>2 DEF Arriving, Before, BarrierTypes
  <2>7. \A v \in Group : v # w =>
          (Before(g, v, k) \/ Arriving(g, v, k) \/ Straggling(g, v, k))'
    BY <1>1, <2>1, <2>2 DEF Round, Before, Arriving, Straggling, BarrierTypes
  <2>8. (Counted(g) = Group => \E v \in Group : bpc[g][v] \in Opening)'
    BY <1>2, <2>3, <2>1 DEF Counted
  <2> QED
    BY <1>4, <2>4, <2>5, <2>6, <2>7, <2>8 DEF Round, NumWg
<1> QED
  BY <1>3, <1>4

LEMMA LoadRound ==
  ASSUME BarrierTypes, NEW g \in Gpu, NEW w \in Group, NEW k \in Nat,
         Round(g, k), Load(g, w)
  PROVE  Round(g, k)'
<1>1. /\ bpc[g][w] = "load"
      /\ saved' = [saved EXCEPT ![g][w] = sense[g]]
      /\ bpc' = [bpc EXCEPT ![g][w] = "add"]
      /\ UNCHANGED <<arrived, sense, entered, left>>
  BY DEF Load, Goto
<1>2. /\ bpc'[g][w] = "add" /\ saved'[g][w] = sense[g]
      /\ \A v \in Group : v # w => /\ bpc'[g][v] = bpc[g][v]
                                   /\ saved'[g][v] = saved[g][v]
  BY <1>1 DEF BarrierTypes
<1>3. Counted(g)' = Counted(g)
  BY <1>1, <1>2 DEF Counted
<1>4. ArrivedExact(g)'
  BY <1>1, <1>2, <1>3 DEF Round, ArrivedExact
<1>5. OpenerIsLast(g)'
  <2>1. \A v \in Group : bpc[g][v] \notin Opening
    BY <1>1 DEF Round, OpenerIsLast, Opening
  <2> QED
    BY <2>1, <1>2 DEF OpenerIsLast, Opening
<1>6. Arriving(g, w, k)'
  BY <1>1, <1>2 DEF Round, Before, Straggling, Arriving
<1>7. \A v \in Group : v # w =>
        (Before(g, v, k) \/ Arriving(g, v, k) \/ Straggling(g, v, k))'
  BY <1>1, <1>2 DEF Round, Before, Arriving, Straggling
<1>8. (Counted(g) = Group => \E v \in Group : bpc[g][v] \in Opening)'
  BY <1>1, <1>3 DEF Counted
<1>9. (NumWg = 1 => \A v \in Group : bpc[g][v] = "out")'
  BY <1>1 DEF Round, NumWg
<1> QED
  BY <1>4, <1>5, <1>6, <1>7, <1>8, <1>9 DEF Round

LEMMA AddRound ==
  ASSUME BarrierTypes, NEW g \in Gpu, NEW w \in Group, NEW k \in Nat,
         Round(g, k), Add(g, w)
  PROVE  Round(g, k)'
<1> DEFINE to == IF arrived[g] + 1 = NumWg THEN "reset" ELSE "spin"
<1>1. /\ bpc[g][w] = "add"
      /\ arrived' = [arrived EXCEPT ![g] = @ + 1]
      /\ bpc' = [bpc EXCEPT ![g][w] = to]
      /\ UNCHANGED <<sense, saved, entered, left>>
  BY DEF Add, Goto
<1>2. /\ bpc'[g][w] = to /\ arrived'[g] = arrived[g] + 1
      /\ \A v \in Group : v # w => bpc'[g][v] = bpc[g][v]
  BY <1>1 DEF BarrierTypes
<1>3. to \in {"reset", "spin"}
  OBVIOUS
<1>4. Arriving(g, w, k) /\ saved[g][w] = sense[g]
  BY <1>1 DEF Round, Before, Straggling, Arriving
<1>5. \A v \in Group : bpc[g][v] \notin Opening
  BY <1>1 DEF Round, OpenerIsLast, Opening
<1>6. w \notin Counted(g) /\ Counted(g)' = Counted(g) \cup {w}
  BY <1>1, <1>2, <1>3, <1>4 DEF Counted
<1>7. arrived[g] = Cardinality(Counted(g)) /\ arrived[g] \in Nat
  BY <1>5 DEF Round, ArrivedExact, Opening, BarrierTypes
<1>8. Cardinality(Counted(g)') = arrived[g] + 1
  <2>1. IsFiniteSet(Counted(g))
    BY CountedFinite
  <2>2. Cardinality(Counted(g) \cup {w}) = Cardinality(Counted(g)) + 1
    BY <1>6, <2>1, FS_AddElement
  <2> QED
    BY <1>6, <1>7, <2>2
<1> HIDE DEF to
<1>9. \A v \in Group : bpc'[g][v] # "flip"
  BY <1>2, <1>3, <1>5 DEF Opening
<1>10. ArrivedExact(g)'
  BY <1>2, <1>8, <1>9 DEF ArrivedExact
<1>11. to = "reset" => Counted(g)' = Group
  <2>1. Counted(g)' \subseteq Group
    BY DEF Counted
  <2>2. to = "reset" => Cardinality(Counted(g)') = Cardinality(Group)
    BY <1>8 DEF to, NumWg
  <2> QED
    BY <2>1, <2>2, GridBarrierAssumption, FS_Subset
<1>12. to = "spin" => Counted(g)' # Group
  BY <1>7, <1>8 DEF to, NumWg
<1>13. OpenerIsLast(g)'
  <2>1. SUFFICES ASSUME NEW v \in Group, bpc'[g][v] \in Opening,
                        NEW u \in Group, u # v
                 PROVE  bpc'[g][u] = "spin" /\ saved'[g][u] = sense'[g]
    BY DEF OpenerIsLast
  <2>2. v = w /\ to = "reset"
    BY <1>2, <1>3, <1>5, <2>1 DEF Opening
  <2>3. u \in Counted(g) /\ bpc'[g][u] = bpc[g][u]
    BY <1>2, <1>6, <1>11, <2>1, <2>2
  <2> QED
    BY <1>1, <1>5, <2>3 DEF Counted, Opening
<1>14. (Counted(g) = Group => \E v \in Group : bpc[g][v] \in Opening)'
  BY <1>2, <1>3, <1>12 DEF Opening
<1>15. Arriving(g, w, k)'
  BY <1>1, <1>2, <1>3, <1>4 DEF Arriving
<1>16. \A v \in Group : v # w =>
        (Before(g, v, k) \/ Arriving(g, v, k) \/ Straggling(g, v, k))'
  BY <1>1, <1>2 DEF Round, Before, Arriving, Straggling
<1>17. (NumWg = 1 => \A v \in Group : bpc[g][v] = "out")'
  BY <1>1 DEF Round, NumWg
<1> QED
  BY <1>10, <1>13, <1>14, <1>15, <1>16, <1>17 DEF Round

LEMMA ResetRound ==
  ASSUME BarrierTypes, NEW g \in Gpu, NEW w \in Group, NEW k \in Nat,
         Round(g, k), Reset(g, w)
  PROVE  Round(g, k)'
<1>1. /\ bpc[g][w] = "reset"
      /\ arrived' = [arrived EXCEPT ![g] = 0]
      /\ bpc' = [bpc EXCEPT ![g][w] = "flip"]
      /\ UNCHANGED <<sense, saved, entered, left>>
  BY DEF Reset, Goto
<1>2. /\ bpc'[g][w] = "flip" /\ arrived'[g] = 0
      /\ \A v \in Group : v # w => bpc'[g][v] = bpc[g][v]
  BY <1>1 DEF BarrierTypes
<1>3. \A v \in Group : v # w => bpc[g][v] = "spin" /\ saved[g][v] = sense[g]
  BY <1>1 DEF Round, OpenerIsLast, Opening
<1>4. ArrivedExact(g)'
  BY <1>2 DEF ArrivedExact
<1>5. OpenerIsLast(g)'
  BY <1>1, <1>2, <1>3 DEF OpenerIsLast, Opening
<1>6. (Counted(g) = Group => \E v \in Group : bpc[g][v] \in Opening)'
  BY <1>2 DEF Opening
<1>7. Arriving(g, w, k)'
  BY <1>1, <1>2 DEF Round, Before, Straggling, Arriving
<1>8. \A v \in Group : v # w =>
        (Before(g, v, k) \/ Arriving(g, v, k) \/ Straggling(g, v, k))'
  BY <1>1, <1>2 DEF Round, Before, Arriving, Straggling
<1>9. (NumWg = 1 => \A v \in Group : bpc[g][v] = "out")'
  BY <1>1 DEF Round, NumWg
<1> QED
  BY <1>4, <1>5, <1>6, <1>7, <1>8, <1>9 DEF Round

(* The barrier opens: the next round begins, and every other workgroup is  *)
(* a straggler in it.                                                      *)
LEMMA FlipRound ==
  ASSUME BarrierTypes, NEW g \in Gpu, NEW w \in Group, NEW k \in Nat,
         Round(g, k), Flip(g, w)
  PROVE  Round(g, k + 1)'
<1>1. /\ bpc[g][w] = "flip"
      /\ sense' = [sense EXCEPT ![g] = 1 - saved[g][w]]
      /\ bpc' = [bpc EXCEPT ![g][w] = "out"]
      /\ left' = [left EXCEPT ![g][w] = @ + 1]
      /\ UNCHANGED <<arrived, saved, entered>>
  BY DEF Flip, Leave, Goto
<1>2. Arriving(g, w, k) /\ saved[g][w] = sense[g]
  BY <1>1 DEF Round, Before, Straggling, Arriving
<1>3. \A v \in Group : v # w => bpc[g][v] = "spin" /\ saved[g][v] = sense[g]
  BY <1>1 DEF Round, OpenerIsLast, Opening
<1>4. sense'[g] # sense[g]
  <2>1. sense'[g] = 1 - sense[g]
    BY <1>1, <1>2 DEF BarrierTypes
  <2>2. sense[g] \in {0, 1}
    BY DEF BarrierTypes
  <2> QED
    BY <2>1, <2>2
<1>5. /\ bpc'[g][w] = "out" /\ left'[g][w] = left[g][w] + 1
      /\ \A v \in Group : v # w => /\ bpc'[g][v] = bpc[g][v]
                                   /\ left'[g][v] = left[g][v]
  BY <1>1 DEF BarrierTypes
<1>6. Before(g, w, k + 1)'
  BY <1>1, <1>2, <1>5 DEF Before, Arriving
<1>7. \A v \in Group : v # w => Straggling(g, v, k + 1)'
  BY <1>1, <1>3, <1>4, <1>5 DEF Round, Before, Arriving, Straggling
<1>8. Counted(g)' = {}
  BY <1>1, <1>3, <1>4, <1>5 DEF Counted
<1>9. ArrivedExact(g)'
  <2>1. arrived'[g] = 0
    BY <1>1 DEF Round, ArrivedExact
  <2>2. Cardinality(Counted(g)') = 0
    BY <1>8, FS_EmptySet
  <2> QED
    BY <2>1, <2>2 DEF ArrivedExact
<1>10. OpenerIsLast(g)'
  BY <1>3, <1>5 DEF OpenerIsLast, Opening
<1>11. (Counted(g) = Group => \E v \in Group : bpc[g][v] \in Opening)'
  BY <1>8, GridBarrierAssumption
<1>12. (NumWg = 1 => \A v \in Group : bpc[g][v] = "out")'
  BY <1>1 DEF Round, NumWg
<1> QED
  BY <1>6, <1>7, <1>9, <1>10, <1>11, <1>12 DEF Round

LEMMA SpinEndsRound ==
  ASSUME BarrierTypes, NEW g \in Gpu, NEW w \in Group, NEW k \in Nat,
         Round(g, k), SpinEnds(g, w)
  PROVE  Round(g, k)'
<1>1. /\ bpc[g][w] = "spin" /\ sense[g] # saved[g][w]
      /\ bpc' = [bpc EXCEPT ![g][w] = "out"]
      /\ left' = [left EXCEPT ![g][w] = @ + 1]
      /\ UNCHANGED <<arrived, sense, saved, entered>>
  BY DEF SpinEnds, Leave, Goto
<1>2. Straggling(g, w, k)
  BY <1>1 DEF Round, Before, Straggling, Arriving
<1>3. /\ bpc'[g][w] = "out" /\ left'[g][w] = left[g][w] + 1
      /\ \A v \in Group : v # w => /\ bpc'[g][v] = bpc[g][v]
                                   /\ left'[g][v] = left[g][v]
  BY <1>1 DEF BarrierTypes
<1>4. Before(g, w, k)'
  BY <1>1, <1>2, <1>3 DEF Before, Straggling
<1>5. \A v \in Group : v # w =>
        (Before(g, v, k) \/ Arriving(g, v, k) \/ Straggling(g, v, k))'
  BY <1>1, <1>3 DEF Round, Before, Arriving, Straggling
<1>6. Counted(g)' = Counted(g)
  BY <1>1, <1>3 DEF Counted
<1>7. ArrivedExact(g)'
  BY <1>1, <1>3, <1>6 DEF Round, ArrivedExact
<1>8. OpenerIsLast(g)'
  <2>1. \A v \in Group : bpc[g][v] \notin Opening
    BY <1>1 DEF Round, OpenerIsLast, Opening
  <2> QED
    BY <2>1, <1>3 DEF OpenerIsLast, Opening
<1>9. (Counted(g) = Group => \E v \in Group : bpc[g][v] \in Opening)'
  BY <1>1, <1>6 DEF Counted
<1>10. (NumWg = 1 => \A v \in Group : bpc[g][v] = "out")'
  BY <1>1 DEF Round, NumWg
<1> QED
  BY <1>4, <1>5, <1>7, <1>8, <1>9, <1>10 DEF Round
-----------------------------------------------------------------------------
LEMMA LocalStep ==
  ASSUME BarrierTypes, RoundInv, NEW g \in Gpu,
         \A h \in Gpu : h # g => SameAt(h),
         gaveUp' = gaveUp,
         \A k \in Nat : Round(g, k) => \E j \in Nat : Round(g, j)'
  PROVE  RoundInv'
<1> SUFFICES ASSUME NEW h \in Gpu, ~gaveUp'[h]
             PROVE  \E j \in Nat : Round(h, j)'
  BY DEF RoundInv
<1>1. PICK k \in Nat : Round(h, k)
  BY DEF RoundInv
<1>2. CASE h = g
  BY <1>1, <1>2
<1>3. CASE h # g
  <2>1. SameAt(h)
    BY <1>3
  <2>2. Round(h, k)'
    BY <1>1, <2>1, OtherGpu
  <2> QED
    BY <2>2
<1> QED
  BY <1>2, <1>3

LEMMA BarrierInit_Inv == BarrierInit => BarrierInv
<1> SUFFICES ASSUME BarrierInit PROVE BarrierInv
  OBVIOUS
<1>1. BarrierTypes
  BY DEF BarrierInit, BarrierTypes, Stops
<1>2. SUFFICES ASSUME NEW g \in Gpu PROVE Round(g, 0)
  BY <1>1 DEF BarrierInv, RoundInv
<1>3. \A w \in Group : Before(g, w, 0)
  BY DEF BarrierInit, Before
<1>4. \A w \in Group : bpc[g][w] = "out"
  BY DEF BarrierInit
<1>5. Counted(g) = {}
  BY <1>4 DEF Counted
<1>6. ArrivedExact(g)
  <2>1. arrived[g] = 0 /\ Cardinality(Counted(g)) = 0
    BY <1>5, FS_EmptySet DEF BarrierInit
  <2> QED
    BY <2>1 DEF ArrivedExact
<1> QED
  BY <1>3, <1>4, <1>5, <1>6, GridBarrierAssumption
  DEF Round, OpenerIsLast, Opening

LEMMA BarrierStep ==
  BarrierInv /\ [BarrierNext]_barrierVars => BarrierInv'
<1> SUFFICES ASSUME BarrierInv, [BarrierNext]_barrierVars
             PROVE  BarrierInv'
  OBVIOUS
<1>1. BarrierTypes /\ BarrierTypes' /\ RoundInv
  BY BarrierTypesStep DEF BarrierInv
<1>2. SUFFICES RoundInv'
  BY <1>1 DEF BarrierInv
<1>3. CASE UNCHANGED barrierVars
  <2>1. \A h \in Gpu : SameAt(h)
    BY <1>3 DEF barrierVars, SameAt
  <2>2. SUFFICES ASSUME NEW h \in Gpu, ~gaveUp'[h]
                 PROVE  \E j \in Nat : Round(h, j)'
    BY DEF RoundInv
  <2>3. PICK k \in Nat : Round(h, k)
    BY <1>1, <1>3, <2>2 DEF RoundInv, barrierVars
  <2> QED
    BY <2>1, <2>3, OtherGpu
<1>4. ASSUME NEW g \in Gpu, NEW w \in Group, Enter(g, w) PROVE RoundInv'
  <2>1. gaveUp' = gaveUp
    BY <1>4 DEF Enter
  <2>2. \A h \in Gpu : h # g => SameAt(h)
    <3>1. CASE NumWg = 1
      BY <1>1, <1>4, <3>1 DEF Enter, Leave, Goto, SameAt, BarrierTypes
    <3>2. CASE NumWg # 1
      BY <1>1, <1>4, <3>2 DEF Enter, Leave, Goto, SameAt, BarrierTypes
    <3> QED
      BY <3>1, <3>2
  <2> QED
    BY <1>1, <1>4, <2>1, <2>2, EnterRound, LocalStep
<1>5. ASSUME NEW g \in Gpu, NEW w \in Group, Load(g, w) PROVE RoundInv'
  <2>1. gaveUp' = gaveUp
    BY <1>5 DEF Load
  <2>2. \A h \in Gpu : h # g => SameAt(h)
    BY <1>1, <1>5 DEF Load, Goto, SameAt, BarrierTypes
  <2> QED
    BY <1>1, <1>5, <2>1, <2>2, LoadRound, LocalStep
<1>6. ASSUME NEW g \in Gpu, NEW w \in Group, Add(g, w) PROVE RoundInv'
  <2>1. gaveUp' = gaveUp
    BY <1>6 DEF Add
  <2>2. \A h \in Gpu : h # g => SameAt(h)
    BY <1>1, <1>6 DEF Add, Goto, SameAt, BarrierTypes
  <2> QED
    BY <1>1, <1>6, <2>1, <2>2, AddRound, LocalStep
<1>7. ASSUME NEW g \in Gpu, NEW w \in Group, Reset(g, w) PROVE RoundInv'
  <2>1. gaveUp' = gaveUp
    BY <1>7 DEF Reset
  <2>2. \A h \in Gpu : h # g => SameAt(h)
    BY <1>1, <1>7 DEF Reset, Goto, SameAt, BarrierTypes
  <2> QED
    BY <1>1, <1>7, <2>1, <2>2, ResetRound, LocalStep
<1>8. ASSUME NEW g \in Gpu, NEW w \in Group, Flip(g, w) PROVE RoundInv'
  <2>1. gaveUp' = gaveUp
    BY <1>8 DEF Flip
  <2>2. \A h \in Gpu : h # g => SameAt(h)
    BY <1>1, <1>8 DEF Flip, Leave, Goto, SameAt, BarrierTypes
  <2>3. \A k \in Nat : k + 1 \in Nat
    OBVIOUS
  <2> QED
    BY <1>1, <1>8, <2>1, <2>2, <2>3, FlipRound, LocalStep
<1>9. ASSUME NEW g \in Gpu, NEW w \in Group, SpinEnds(g, w) PROVE RoundInv'
  <2>1. gaveUp' = gaveUp
    BY <1>9 DEF SpinEnds
  <2>2. \A h \in Gpu : h # g => SameAt(h)
    BY <1>1, <1>9 DEF SpinEnds, Leave, Goto, SameAt, BarrierTypes
  <2> QED
    BY <1>1, <1>9, <2>1, <2>2, SpinEndsRound, LocalStep
<1>10. ASSUME NEW g \in Gpu, NEW w \in Group, GiveUp(g, w) PROVE RoundInv'
  <2>1. gaveUp' = [gaveUp EXCEPT ![g] = TRUE]
    BY <1>10 DEF GiveUp
  <2>2. \A h \in Gpu : h # g => SameAt(h)
    BY <1>1, <1>10 DEF GiveUp, Leave, Goto, SameAt, BarrierTypes
  <2>3. SUFFICES ASSUME NEW h \in Gpu, ~gaveUp'[h]
                 PROVE  \E j \in Nat : Round(h, j)'
    BY DEF RoundInv
  <2>4. h # g /\ ~gaveUp[h]
    <3>1. gaveUp \in [Gpu -> BOOLEAN]
      BY <1>1 DEF BarrierTypes
    <3> QED
      BY <2>1, <2>3, <3>1
  <2>5. PICK k \in Nat : Round(h, k)
    BY <1>1, <2>4 DEF RoundInv
  <2> QED
    BY <2>2, <2>4, <2>5, OtherGpu
<1> QED
  BY <1>3, <1>4, <1>5, <1>6, <1>7, <1>8, <1>9, <1>10 DEF BarrierNext, Inside

THEOREM BarrierInvariant == BarrierSpec => []BarrierInv
<1>1. BarrierInit => BarrierInv
  BY BarrierInit_Inv
<1>2. BarrierInv /\ [BarrierNext]_barrierVars => BarrierInv'
  BY BarrierStep
<1> QED
  BY <1>1, <1>2, PTL DEF BarrierSpec

(* grid_barrier, by itself: however the workgroups of a GPU interleave over *)
(* any number of barriers, none leaves one that another has not entered,    *)
(* unless a workgroup gave up at its spin cap.                              *)
THEOREM BarrierAlwaysHolds == BarrierSpec => []BarrierHolds
BY BarrierInvariant, RoundImpliesHolds, PTL

-----------------------------------------------------------------------------
(* Every step of the host and of the kernels is, for the barrier, one of   *)
(* its own steps or none.                                                  *)
LEMMA StepIsBarrierStep == [Next]_vars => [BarrierNext]_barrierVars
<1> SUFFICES ASSUME [Next]_vars PROVE [BarrierNext]_barrierVars
  OBVIOUS
<1>1. CASE UNCHANGED vars
  BY <1>1 DEF vars
<1>2. CASE HostStep \/ HostTimesOut
  BY <1>2 DEF HostStep, HostWrite, HostGo, HostPollEnds, HostCheck, HostNext,
     HostDrained, HostTimesOut
<1>3. ASSUME NEW g \in Gpu, LeaderStep(g) \/ Watchdog(g)
      PROVE  UNCHANGED barrierVars
  BY <1>3 DEF LeaderStep, Watchdog, Start, SignalReady, AwaitReady,
     SignalConsumed, AwaitConsumed, Report, StartTrips, AwaitReadyTrips,
     AwaitConsumedTrips, Signal, Await, AwaitTrips
<1>4. ASSUME NEW g \in Gpu, NEW w \in Group, GroupStep(g, w)
      PROVE  [BarrierNext]_barrierVars
  <2>1. CASE EnterBarrier(g, w) \/ InBarrier(g, w) \/ BarrierGivesUp(g, w)
    BY <2>1 DEF EnterBarrier, InBarrier, BarrierGivesUp, BarrierNext
  <2>2. CASE Check1(g, w) \/ Compute(g, w) \/ After2(g, w) \/ Check3(g, w)
    BY <2>2 DEF Check1, Compute, After2, Check3
  <2> QED
    BY <1>4, <2>1, <2>2 DEF GroupStep
<1> QED
  BY <1>1, <1>2, <1>3, <1>4 DEF Next

(* The kernels and their host implement the grid barrier's specification.  *)
THEOREM ImplementsBarrier == Spec => BarrierSpec
<1>1. Init => BarrierInit
  BY DEF Init
<1> QED
  BY <1>1, StepIsBarrierStep, PTL DEF Spec, BarrierSpec

(* No workgroup of the persistent kernel passes grid_barrier before every  *)
(* workgroup of its GPU has come to it, unless one gave up.                *)
THEOREM DdaBarrierHolds == Spec => []BarrierHolds
BY ImplementsBarrier, BarrierAlwaysHolds, PTL
-----------------------------------------------------------------------------
(* The inductive invariant behind OutExact and InputsStable.                *)

BarriersAt(place) ==
  IF place \in {"start", "ready", "awaitReady", "barrier1"} THEN 0
  ELSE IF place \in {"check1", "compute", "barrier2"} THEN 1
  ELSE IF place = "check3" THEN 3 ELSE 2

(* Where a workgroup is tells how many barriers it has entered and left; a *)
(* workgroup that retired without an error has served every operation.     *)
Progress ==
  \A g \in Gpu, w \in Group :
    /\ wpc[g][w] # "gone" =>
         entered[g][w] = 3 * (wseq[g][w] - 1) + BarriersAt(wpc[g][w])
    /\ wpc[g][w] = "gone" =>
         /\ entered[g][w] \in {3 * wseq[g][w] - 2, 3 * wseq[g][w]}
         /\ err[g] = 0 => entered[g][w] = 3 * TotalOps
         /\ bpc[g][w] = "out"
    /\ left[g][w] = IF bpc[g][w] = "out" THEN entered[g][w]
                    ELSE entered[g][w] - 1

(* A leader's error makes its whole rank retire at the next check, and     *)
(* only then does a barrier give up.                                       *)
ErrorsSeen ==
  /\ \A g \in Gpu :
       wpc[g][0] \in {"start", "ready", "compute", "barrier2", "after2", "consumed"}
       => err[g] = 0
  /\ \A g \in Gpu : gaveUp[g] => err[g] # 0

(* No rank is ahead of the host.                                           *)
Started ==
  /\ \A g \in Gpu : err[g] = 0 =>
       wseq[g][0] <= ctrlGo + (IF wpc[g][0] = "start" THEN 1 ELSE 0)
  /\ \A g \in Gpu, w \in Group :
       /\ wpc[g][w] \in {"compute", "barrier2"} => wseq[g][w] <= ctrlGo
       /\ entered[g][w] <= 3 * ctrlGo + 1

(* What a flag, and the done word, tell of the rank that set it.           *)
SignalsLeft(place) ==
  IF place = "start" THEN 2
  ELSE IF place \in {"ready", "awaitReady", "barrier1", "check1", "compute",
                     "barrier2", "after2"} THEN 1 ELSE 0
FlagsMean ==
  /\ \A q, p \in Gpu :
       flag[q][p] <= 2 * wseq[p][0] - SignalsLeft(wpc[p][0])
  /\ \A q, p \in Gpu, s \in 1..TotalOps :
       flag[q][p] >= 2 * s => left[p][0] >= 3 * s - 1
  /\ \A q \in Gpu : flag[q][0] <= 2 * ctrlGo
DoneMeans ==
  /\ \A p \in Gpu : flag[0][p] >= 2 * ctrlDone
  /\ wpc[0][0] = "awaitConsumed" /\ err[0] = 0 =>
       \A p \in Gpu : p < hop[0] => flag[0][p] >= 2 * wseq[0][0]
  /\ wpc[0][0] = "report" /\ err[0] = 0 =>
       \A p \in Gpu : flag[0][p] >= 2 * wseq[0][0]

(* The host is at most one operation ahead of every workgroup.             *)
Summed(g, w, s) == entered[g][w] >= 3 * s - 1
HostInv ==
  /\ ctrlGo = IF hpc \in {"write", "go"} THEN op - 1 ELSE op
  /\ hpc \notin {"write", "check", "failed"} => hrank = 0
  /\ \A g \in Gpu : hpc # "write" \/ g < hrank => input[g] = op
  /\ \A g \in Gpu, w \in Group : Summed(g, w, op - 1)
  /\ hpc = "check" =>
       \/ /\ ctrlDone >= op
          /\ \A g \in Gpu, w \in Group : g < hrank => Summed(g, w, op)
       \/ \E g \in Gpu : g >= hrank /\ err[g] # 0
  /\ hpc = "accept" => \A g \in Gpu, w \in Group : Summed(g, w, op)

SlicesExact ==
  \A g \in Gpu, w \in Group :
    \/ wpc[g][w] = "barrier2" /\ wseq[g][w] = op
    \/ Summed(g, w, op)
    => out[g][w] = {<<p, op>> : p \in Gpu}

DdaRest ==
  /\ Progress /\ ErrorsSeen /\ Started
  /\ FlagsMean /\ DoneMeans /\ HostInv /\ SlicesExact
DdaInv == TypeOK /\ BarrierInv /\ DdaRest
-----------------------------------------------------------------------------
(* Types.                                                                  *)

LEMMA Constants ==
  /\ Parts \in Nat \ {0} /\ TotalOps \in Nat \ {0}
  /\ Gpu = 0..(Parts - 1) /\ 0 \in Gpu /\ 0 \in Group
  /\ \A g \in Gpu : g \in Nat /\ (g + 1 < Parts => g + 1 \in Gpu)
BY PeerFlagDdaAssumption

LEMMA HostTypes ==
  ASSUME TypeOK, HostStep \/ HostTimesOut
  PROVE  TypeOK'
<1> USE DEF TypeOK, kernelVars
<1>1. CASE HostWrite
  <2>1. /\ input' = [input EXCEPT ![hrank] = op]
        /\ out' = [out EXCEPT ![hrank] = Nothing]
        /\ UNCHANGED <<op, ctrlGo, ctrlDone, err, flag, wpc, wseq, hop>>
    BY <1>1 DEF HostWrite
  <2>2. hrank' \in Gpu /\ hpc' \in {"write", "go"}
    BY <1>1, Constants DEF HostWrite
  <2>3. input' \in [Gpu -> 0..TotalOps]
    BY <2>1
  <2>4. out' \in [Gpu -> [Group -> SUBSET (Gpu \X (0..TotalOps))]]
    <3>1. Nothing \in [Group -> SUBSET (Gpu \X (0..TotalOps))]
      BY DEF Nothing
    <3> QED
      BY <2>1, <3>1
  <2> QED
    BY <2>1, <2>2, <2>3, <2>4
<1>2. CASE HostGo
  BY <1>2 DEF HostGo
<1>3. CASE HostPollEnds \/ HostTimesOut \/ HostDrained
  BY <1>3 DEF HostPollEnds, HostTimesOut, HostDrained
<1>4. CASE HostCheck
  <2>1. hrank' \in Gpu /\ hpc' \in {"check", "accept", "failed"}
    BY <1>4, Constants DEF HostCheck
  <2> QED
    BY <1>4, <2>1 DEF HostCheck
<1>5. CASE HostNext
  <2>1. op' \in 1..TotalOps /\ hpc' \in {"write", "drain"}
    <3>1. op \in Int /\ 1 <= op /\ op <= TotalOps /\ TotalOps \in Nat
      BY Constants
    <3>2. CASE op < TotalOps
      <4>1. op' = op + 1 /\ hpc' = "write"
        BY <1>5, <3>2 DEF HostNext
      <4> QED
        BY <3>1, <3>2, <4>1
    <3>3. CASE ~(op < TotalOps)
      BY <1>5, <3>3 DEF HostNext
    <3> QED
      BY <3>2, <3>3
  <2> QED
    BY <1>5, <2>1 DEF HostNext
<1> QED
  BY <1>1, <1>2, <1>3, <1>4, <1>5 DEF HostStep

LEMMA GoOnTypes ==
  ASSUME TypeOK, NEW g \in Gpu, NEW w \in Group, NEW place \in Places,
         GoOn(g, w, place)
  PROVE  wpc' \in [Gpu -> [Group -> Places]]
BY DEF TypeOK, GoOn

LEMMA HopTypes ==
  ASSUME TypeOK, NEW g \in Gpu, NEW from \in Places, NEW to \in Places,
         Hop(g, from, to)
  PROVE  /\ hop' \in [Gpu -> Gpu]
         /\ wpc' \in [Gpu -> [Group -> Places]]
<1>1. CASE hop[g] + 1 < Parts
  <2>1. hop[g] + 1 \in Gpu
    BY <1>1, Constants DEF TypeOK
  <2>2. hop' = [hop EXCEPT ![g] = @ + 1] /\ GoOn(g, 0, from)
    BY <1>1 DEF Hop
  <2> QED
    BY <2>1, <2>2, GoOnTypes, Constants DEF TypeOK
<1>2. CASE ~(hop[g] + 1 < Parts)
  <2>1. hop' = [hop EXCEPT ![g] = 0] /\ GoOn(g, 0, to)
    BY <1>2 DEF Hop
  <2> QED
    BY <2>1, GoOnTypes, Constants DEF TypeOK
<1> QED
  BY <1>1, <1>2

LEMMA LeaderTypes ==
  ASSUME TypeOK, NEW g \in Gpu, LeaderStep(g) \/ Watchdog(g)
  PROVE  TypeOK'
<1> USE DEF hostVars
<1>1. wseq[g][0] \in 1..TotalOps
  BY Constants DEF TypeOK
<1>2. Ready(wseq[g][0]) \in 0..(2 * TotalOps)
  BY <1>1, Constants DEF Ready
<1>3. Consumed(wseq[g][0]) \in 0..(2 * TotalOps)
  BY <1>1, Constants DEF Consumed
<1>4. ASSUME NEW from \in Places, NEW to \in Places,
             NEW value \in 0..(2 * TotalOps), Signal(g, from, to, value)
      PROVE  TypeOK'
  <2>1. hop' \in [Gpu -> Gpu] /\ wpc' \in [Gpu -> [Group -> Places]]
    BY <1>4, HopTypes DEF Signal
  <2>2. flag' \in [Gpu -> [Gpu -> 0..(2 * TotalOps)]]
    BY <1>4 DEF Signal, TypeOK
  <2> QED
    BY <1>4, <2>1, <2>2 DEF Signal, TypeOK
<1>5. ASSUME NEW from \in Places, NEW to \in Places,
             NEW value, Await(g, from, to, value)
      PROVE  TypeOK'
  <2>1. hop' \in [Gpu -> Gpu] /\ wpc' \in [Gpu -> [Group -> Places]]
    BY <1>5, HopTypes DEF Await
  <2> QED
    BY <1>5, <2>1 DEF Await, TypeOK
<1>6. ASSUME NEW from \in Places, NEW to \in Places,
             NEW value, NEW code \in 1..4, AwaitTrips(g, from, to, value, code)
      PROVE  TypeOK'
  <2>1. hop' \in [Gpu -> Gpu] /\ wpc' \in [Gpu -> [Group -> Places]]
    BY <1>6, HopTypes DEF AwaitTrips
  <2>2. err' \in [Gpu -> 0..4]
    BY <1>6 DEF AwaitTrips, TypeOK
  <2> QED
    BY <1>6, <2>1, <2>2 DEF AwaitTrips, TypeOK
<1>7. CASE Start(g)
  <2>1. wpc' \in [Gpu -> [Group -> Places]]
    BY <1>7, Constants, GoOnTypes DEF Start, Places
  <2> QED
    BY <1>7, <2>1 DEF Start, TypeOK
<1>8. CASE StartTrips(g)
  <2>1. wpc' \in [Gpu -> [Group -> Places]]
    BY <1>8, Constants, GoOnTypes DEF StartTrips, Places
  <2>2. err' \in [Gpu -> 0..4]
    <3> DEFINE code == IF g = 0 THEN 1 ELSE 2
    <3>1. err' = [err EXCEPT ![g] = code]
      BY <1>8 DEF StartTrips
    <3>2. code \in 0..4
      OBVIOUS
    <3> HIDE DEF code
    <3> QED
      BY <3>1, <3>2 DEF TypeOK
  <2> QED
    BY <1>8, <2>1, <2>2 DEF StartTrips, TypeOK
<1>9. CASE Report(g)
  <2>1. wpc' \in [Gpu -> [Group -> Places]]
    BY <1>9, Constants, GoOnTypes DEF Report, Places
  <2>2. ctrlDone' \in 0..TotalOps
    BY <1>9, <1>1 DEF Report, TypeOK
  <2> QED
    BY <1>9, <2>1, <2>2 DEF Report, TypeOK
<1>10. CASE SignalReady(g) \/ SignalConsumed(g)
  BY <1>2, <1>3, <1>4, <1>10 DEF SignalReady, SignalConsumed, Places
<1>11. CASE AwaitReady(g) \/ AwaitConsumed(g)
  BY <1>5, <1>11 DEF AwaitReady, AwaitConsumed, Places
<1>12. CASE AwaitReadyTrips(g) \/ AwaitConsumedTrips(g)
  <2>1. CASE AwaitReadyTrips(g)
    <3>1. AwaitTrips(g, "awaitReady", "barrier1", Ready(wseq[g][0]), 3)
      BY <2>1 DEF AwaitReadyTrips
    <3>2. "awaitReady" \in Places /\ "barrier1" \in Places /\ 3 \in 1..4
      BY DEF Places
    <3> QED
      BY <1>6, <3>1, <3>2
  <2>2. CASE AwaitConsumedTrips(g)
    <3>1. AwaitTrips(g, "awaitConsumed", "report", Consumed(wseq[g][0]), 4)
      BY <2>2 DEF AwaitConsumedTrips
    <3>2. "awaitConsumed" \in Places /\ "report" \in Places /\ 4 \in 1..4
      BY DEF Places
    <3> QED
      BY <1>6, <3>1, <3>2
  <2> QED
    BY <1>12, <2>1, <2>2
<1> QED
  BY <1>7, <1>8, <1>9, <1>10, <1>11, <1>12 DEF LeaderStep, Watchdog

LEMMA GroupTypes ==
  ASSUME TypeOK, NEW g \in Gpu, NEW w \in Group, GroupStep(g, w)
  PROVE  TypeOK'
<1> USE DEF hostVars, kernelVars
<1>1. CASE InBarrier(g, w) \/ BarrierGivesUp(g, w)
  BY <1>1 DEF InBarrier, BarrierGivesUp, TypeOK
<1>2. CASE EnterBarrier(g, w)
  <2>1. PICK k \in {<<"barrier1", "check1">>, <<"barrier2", "after2">>,
                    <<"barrier3", "check3">>} : GoOn(g, w, k[2])
    BY <1>2 DEF EnterBarrier
  <2>2. wpc' \in [Gpu -> [Group -> Places]]
    <3>1. GoOn(g, w, "check1") \/ GoOn(g, w, "after2") \/ GoOn(g, w, "check3")
      BY <2>1
    <3> QED
      BY <3>1, GoOnTypes DEF Places
  <2> QED
    BY <1>2, <2>2 DEF EnterBarrier, TypeOK
<1>3. CASE Check1(g, w)
  <2>1. wpc' \in [Gpu -> [Group -> Places]]
    BY <1>3, GoOnTypes DEF Check1, Places
  <2> QED
    BY <1>3, <2>1 DEF Check1, TypeOK
<1>4. CASE Compute(g, w)
  <2>1. wpc' \in [Gpu -> [Group -> Places]]
    BY <1>4, GoOnTypes DEF Compute, Places
  <2>2. out' \in [Gpu -> [Group -> SUBSET (Gpu \X (0..TotalOps))]]
    <3>1. SumOf(input) \in SUBSET (Gpu \X (0..TotalOps))
      BY DEF SumOf, TypeOK
    <3>2. out' = [out EXCEPT ![g][w] = SumOf(input)]
      BY <1>4 DEF Compute
    <3> QED
      BY <3>1, <3>2 DEF TypeOK
  <2> QED
    BY <1>4, <2>1, <2>2 DEF Compute, TypeOK
<1>5. CASE After2(g, w)
  <2>1. wpc' \in [Gpu -> [Group -> Places]]
    BY <1>5, GoOnTypes DEF After2, Places
  <2> QED
    BY <1>5, <2>1 DEF After2, TypeOK
<1>6. CASE Check3(g, w)
  <2>1. CASE err[g] # 0 \/ wseq[g][w] = TotalOps
    <3>1. wpc' \in [Gpu -> [Group -> Places]]
      BY <1>6, <2>1, GoOnTypes DEF Check3, Places
    <3> QED
      BY <1>6, <2>1, <3>1 DEF Check3, TypeOK
  <2>2. CASE ~(err[g] # 0 \/ wseq[g][w] = TotalOps)
    <3>1. wpc' \in [Gpu -> [Group -> Places]]
      BY <1>6, <2>2, GoOnTypes DEF Check3, First, Places
    <3>2. wseq[g][w] + 1 \in 1..TotalOps
      <4>1. wseq[g][w] \in 1..TotalOps
        BY DEF TypeOK
      <4> QED
        BY <2>2, <4>1, Constants
    <3>3. wseq' = [wseq EXCEPT ![g][w] = @ + 1]
      BY <1>6, <2>2 DEF Check3
    <3>4. wseq' \in [Gpu -> [Group -> 1..TotalOps]]
      BY <3>2, <3>3 DEF TypeOK
    <3> QED
      BY <1>6, <2>2, <3>1, <3>4 DEF Check3, TypeOK
  <2> QED
    BY <2>1, <2>2
<1> QED
  BY <1>1, <1>2, <1>3, <1>4, <1>5, <1>6 DEF GroupStep

LEMMA TypeOKStep == TypeOK /\ [Next]_vars => TypeOK'
<1> SUFFICES ASSUME TypeOK, [Next]_vars PROVE TypeOK'
  OBVIOUS
<1>1. CASE UNCHANGED vars
  BY <1>1 DEF vars, hostVars, kernelVars, TypeOK
<1> QED
  BY <1>1, HostTypes, LeaderTypes, GroupTypes DEF Next
-----------------------------------------------------------------------------
(* The types the arithmetic needs.                                         *)
LEMMA HostNumbers ==
  ASSUME DdaInv
  PROVE  /\ op \in Nat /\ 1 <= op /\ op <= TotalOps
         /\ ctrlGo \in Nat /\ hrank \in Gpu
         /\ ctrlDone \in Nat /\ ctrlDone <= TotalOps /\ TotalOps \in Nat
BY Constants DEF DdaInv, TypeOK

LEMMA GroupNumbers ==
  ASSUME DdaInv, NEW g \in Gpu, NEW w \in Group
  PROVE  /\ entered[g][w] \in Nat /\ left[g][w] \in Nat
         /\ wseq[g][w] \in Nat /\ 1 <= wseq[g][w] /\ wseq[g][w] <= TotalOps
<1>1. /\ entered \in [Gpu -> [Group -> Nat]]
      /\ left \in [Gpu -> [Group -> Nat]]
  BY DEF DdaInv, BarrierInv, BarrierTypes
<1>2. wseq \in [Gpu -> [Group -> 1..TotalOps]]
  BY DEF DdaInv, TypeOK
<1>3. TotalOps \in Nat /\ wseq[g][w] \in 1..TotalOps
  BY <1>2, Constants
<1>4. /\ wseq[g][w] \in Nat /\ 1 <= wseq[g][w] /\ wseq[g][w] <= TotalOps
  BY <1>3
<1> QED
  BY <1>1, <1>4

LEMMA RankNumbers ==
  ASSUME DdaInv, NEW g \in Gpu
  PROVE  /\ hop[g] \in Gpu
         /\ \A q \in Gpu : flag[q][g] \in Nat /\ flag[g][q] \in Nat
<1>1. hop \in [Gpu -> Gpu] /\ flag \in [Gpu -> [Gpu -> 0..(2 * TotalOps)]]
  BY DEF DdaInv, TypeOK
<1>2. \A n \in 0..(2 * TotalOps) : n \in Nat
  BY Constants
<1> QED
  BY <1>1, <1>2

LEMMA Numbers ==
  ASSUME DdaInv
  PROVE  /\ op \in Nat /\ 1 <= op /\ op <= TotalOps
         /\ ctrlGo \in Nat /\ ctrlDone \in Nat /\ hrank \in Gpu
         /\ \A g \in Gpu, w \in Group :
              /\ entered[g][w] \in Nat /\ left[g][w] \in Nat
              /\ wseq[g][w] \in Nat /\ 1 <= wseq[g][w] /\ wseq[g][w] <= TotalOps
         /\ \A g \in Gpu :
              /\ hop[g] \in Gpu /\ left[g][0] \in Nat
              /\ wseq[g][0] \in Nat /\ 1 <= wseq[g][0] /\ wseq[g][0] <= TotalOps
         /\ \A q, p \in Gpu : flag[q][p] \in Nat
BY HostNumbers, GroupNumbers, RankNumbers, Constants

(* The kernels' own parts of the invariant, when only the host moves.      *)
LEMMA HostOnly ==
  ASSUME DdaInv, UNCHANGED <<barrierVars, ctrlDone, err, flag, wpc, wseq, hop>>,
         ctrlGo' \in Nat, ctrlGo <= ctrlGo'
  PROVE  Progress' /\ ErrorsSeen' /\ Started' /\ FlagsMean' /\ DoneMeans'
<1> USE DEF DdaInv, DdaRest, barrierVars
<1>1. Progress'
  BY DEF Progress
<1>2. ErrorsSeen'
  BY DEF ErrorsSeen
<1>3. Started'
  <2>1. \A g \in Gpu : err[g] = 0 =>
          wseq[g][0] <= ctrlGo' + (IF wpc[g][0] = "start" THEN 1 ELSE 0)
    BY Numbers DEF Started
  <2>2. \A g \in Gpu, w \in Group :
          /\ wpc[g][w] \in {"compute", "barrier2"} => wseq[g][w] <= ctrlGo'
          /\ entered[g][w] <= 3 * ctrlGo' + 1
    BY Numbers DEF Started
  <2> QED
    BY <2>1, <2>2 DEF Started
<1>4. FlagsMean'
  <2>1. \A q \in Gpu : flag[q][0] <= 2 * ctrlGo'
    <3>1. \A q \in Gpu : flag[q][0] \in Nat /\ flag[q][0] <= 2 * ctrlGo
      <4>1. \A q \in Gpu : flag[q][0] <= 2 * ctrlGo
        BY DEF FlagsMean
      <4> QED
        BY <4>1, Numbers, Constants
    <3> QED
      BY <3>1, Numbers
  <2> QED
    BY <2>1 DEF FlagsMean
<1>5. DoneMeans'
  BY DEF DoneMeans
<1> QED
  BY <1>1, <1>2, <1>3, <1>4, <1>5

(* While the host writes, no workgroup has begun the operation.            *)
LEMMA NoneBegun ==
  ASSUME DdaInv, hpc \in {"write", "go"}, NEW g \in Gpu, NEW w \in Group
  PROVE  ~(wpc[g][w] = "barrier2" /\ wseq[g][w] = op) /\ ~Summed(g, w, op)
<1>1. ctrlGo = op - 1
  BY DEF DdaInv, DdaRest, HostInv
<1>2. wpc[g][w] = "barrier2" => wseq[g][w] <= op - 1
  BY <1>1 DEF DdaInv, DdaRest, Started
<1>3. entered[g][w] <= 3 * (op - 1) + 1
  BY <1>1 DEF DdaInv, DdaRest, Started
<1> QED
  BY <1>2, <1>3, Numbers DEF Summed

LEMMA HostWriteInv ==
  ASSUME DdaInv, HostWrite
  PROVE  DdaRest'
<1>1. /\ hpc = "write"
      /\ input' = [input EXCEPT ![hrank] = op]
      /\ out' = [out EXCEPT ![hrank] = Nothing]
      /\ UNCHANGED <<barrierVars, op, ctrlGo, ctrlDone, err, flag, wpc, wseq, hop>>
  BY DEF HostWrite
<1>2. Progress' /\ ErrorsSeen' /\ Started' /\ FlagsMean' /\ DoneMeans'
  BY <1>1, HostOnly, HostNumbers
<1>3. \A g \in Gpu, w \in Group : Summed(g, w, op)' <=> Summed(g, w, op)
  BY <1>1 DEF Summed, barrierVars
<1>4. SlicesExact'
  BY <1>1, <1>3, NoneBegun DEF SlicesExact
<1>5. \A g \in Gpu, w \in Group : Summed(g, w, op - 1)'
  BY <1>1 DEF DdaInv, DdaRest, HostInv, Summed, barrierVars
<1>6. \A g \in Gpu : g <= hrank => input'[g] = op
  BY <1>1, HostNumbers, Constants DEF DdaInv, DdaRest, HostInv, TypeOK
<1>7. CASE hrank + 1 < Parts
  <2>1. hrank' = hrank + 1 /\ hpc' = "write"
    BY <1>1, <1>7 DEF HostWrite
  <2>2. \A g \in Gpu : g < hrank' => input'[g] = op
    BY <1>6, <2>1, HostNumbers, Constants
  <2>3. HostInv'
    BY <1>1, <1>5, <2>1, <2>2 DEF DdaInv, DdaRest, HostInv
  <2> QED
    BY <1>2, <1>4, <2>3 DEF DdaRest
<1>8. CASE ~(hrank + 1 < Parts)
  <2>1. hrank' = 0 /\ hpc' = "go"
    BY <1>8 DEF HostWrite
  <2>2. \A g \in Gpu : input'[g] = op
    BY <1>6, <1>8, HostNumbers, Constants
  <2>3. HostInv'
    BY <1>1, <1>5, <2>1, <2>2 DEF DdaInv, DdaRest, HostInv
  <2> QED
    BY <1>2, <1>4, <2>3 DEF DdaRest
<1> QED
  BY <1>7, <1>8

LEMMA HostGoInv ==
  ASSUME DdaInv, HostGo
  PROVE  DdaRest'
<1>1. /\ hpc = "go" /\ hpc' = "poll" /\ ctrlGo' = op
      /\ UNCHANGED <<barrierVars, hrank, op, input, out, ctrlDone, err, flag,
                     wpc, wseq, hop>>
  BY DEF HostGo, kernelVars
<1>2. Progress' /\ ErrorsSeen' /\ Started' /\ FlagsMean' /\ DoneMeans'
  <2>1. ctrlGo = op - 1
    BY <1>1 DEF DdaInv, DdaRest, HostInv
  <2>2. ctrlGo' \in Nat /\ ctrlGo <= ctrlGo'
    BY <1>1, <2>1, HostNumbers
  <2> QED
    BY <1>1, <2>2, HostOnly
<1>3. SlicesExact'
  BY <1>1 DEF DdaInv, DdaRest, SlicesExact, Summed, barrierVars
<1>4. HostInv'
  BY <1>1 DEF DdaInv, DdaRest, HostInv, Summed, barrierVars
<1> QED
  BY <1>2, <1>3, <1>4 DEF DdaRest

LEMMA HostReads ==
  ASSUME DdaInv, UNCHANGED <<barrierVars, op, input, ctrlGo, kernelVars>>
  PROVE  /\ Progress' /\ ErrorsSeen' /\ Started' /\ FlagsMean' /\ DoneMeans'
         /\ SlicesExact'
         /\ \A g \in Gpu, w \in Group, s \in Int : Summed(g, w, s)' <=> Summed(g, w, s)
<1>1. Progress' /\ ErrorsSeen' /\ Started' /\ FlagsMean' /\ DoneMeans'
  BY HostOnly, HostNumbers DEF kernelVars
<1>2. SlicesExact'
  BY DEF DdaInv, DdaRest, SlicesExact, Summed, barrierVars, kernelVars
<1>3. \A g \in Gpu, w \in Group, s \in Int : Summed(g, w, s)' <=> Summed(g, w, s)
  BY DEF Summed, barrierVars
<1> QED
  BY <1>1, <1>2, <1>3

(* The done word, without an error on a rank, means that every workgroup   *)
(* of the rank has summed.                                                 *)
LEMMA DoneMeansSummed ==
  ASSUME DdaInv, NEW g \in Gpu, err[g] = 0, ctrlDone >= op, NEW w \in Group
  PROVE  Summed(g, w, op)
<1>1. ctrlDone \in 1..TotalOps /\ op \in 1..TotalOps
  BY HostNumbers
<1>2. flag[0][g] >= 2 * ctrlDone
  BY DEF DdaInv, DdaRest, DoneMeans
<1>3. left[g][0] >= 3 * ctrlDone - 1
  BY <1>1, <1>2, Constants DEF DdaInv, DdaRest, FlagsMean
<1>4. ~gaveUp[g]
  BY DEF DdaInv, DdaRest, ErrorsSeen
<1>5. left[g][0] <= entered[g][w]
  BY <1>4, RoundImpliesHolds, Constants DEF DdaInv, BarrierHolds
<1> QED
  BY <1>1, <1>3, <1>5, Numbers, Constants DEF Summed

LEMMA HostPollEndsInv ==
  ASSUME DdaInv, HostPollEnds
  PROVE  DdaRest'
<1>1. /\ hpc = "poll" /\ hpc' = "check"
      /\ ctrlDone >= op \/ \E g \in Gpu : err[g] # 0
      /\ UNCHANGED <<barrierVars, hrank, op, input, ctrlGo, kernelVars>>
  BY DEF HostPollEnds
<1>2. hrank = 0
  BY <1>1 DEF DdaInv, DdaRest, HostInv
<1>3. HostInv'
  <2>1. \A g \in Gpu, w \in Group, s \in Int : Summed(g, w, s)' <=> Summed(g, w, s)
    BY <1>1, HostReads
  <2>2. \/ ctrlDone >= op
        \/ \E g \in Gpu : g >= hrank /\ err[g] # 0
    BY <1>1, <1>2, Constants
  <2>3. \A g \in Gpu : ~(g < hrank)
    BY <1>2, Constants
  <2>4. UNCHANGED <<hrank, op, input, ctrlGo, ctrlDone, err>>
    BY <1>1 DEF kernelVars
  <2>5. op \in Int /\ op - 1 \in Int
    BY HostNumbers
  <2> QED
    BY <1>1, <2>1, <2>2, <2>3, <2>4, <2>5 DEF DdaInv, DdaRest, HostInv
<1> QED
  BY <1>1, <1>3, HostReads DEF DdaRest

LEMMA HostCheckInv ==
  ASSUME DdaInv, HostCheck
  PROVE  DdaRest'
<1>1. /\ hpc = "check"
      /\ UNCHANGED <<barrierVars, op, input, ctrlGo, kernelVars>>
  BY DEF HostCheck
<1>2. UNCHANGED <<op, input, ctrlGo, ctrlDone, err>>
  BY <1>1 DEF kernelVars
<1>3. \A g \in Gpu, w \in Group, s \in Int : Summed(g, w, s)' <=> Summed(g, w, s)
  BY <1>1, HostReads
<1>4. op \in Int /\ op - 1 \in Int /\ op' = op
  BY <1>2, HostNumbers
<1>5. /\ \A g \in Gpu, w \in Group : Summed(g, w, op - 1)'
      /\ \A g \in Gpu : input'[g] = op'
      /\ ctrlGo' = op'
  BY <1>1, <1>2, <1>3, <1>4 DEF DdaInv, DdaRest, HostInv
<1>6. CASE err[hrank] # 0
  <2>1. hpc' = "failed"
    BY <1>6 DEF HostCheck
  <2> QED
    BY <1>1, <1>5, <2>1, HostReads DEF DdaRest, HostInv
<1>7. CASE err[hrank] = 0
  <2>1. \/ /\ ctrlDone >= op
           /\ \A g \in Gpu, w \in Group : g <= hrank => Summed(g, w, op)
        \/ \E g \in Gpu : g > hrank /\ err[g] # 0
    <3>1. CASE ctrlDone >= op
               /\ \A g \in Gpu, w \in Group : g < hrank => Summed(g, w, op)
      <4>1. \A w \in Group : Summed(hrank, w, op)
        BY <1>7, <3>1, DoneMeansSummed, HostNumbers
      <4>2. \A g \in Gpu : g <= hrank => g < hrank \/ g = hrank
        BY HostNumbers, Constants
      <4> QED
        BY <3>1, <4>1, <4>2
    <3>2. CASE \E g \in Gpu : g >= hrank /\ err[g] # 0
      BY <1>7, <3>2, HostNumbers, Constants
    <3> QED
      BY <1>1, <3>1, <3>2 DEF DdaInv, DdaRest, HostInv
  <2>2. CASE hrank + 1 < Parts
    <3>1. hrank' = hrank + 1 /\ hpc' = "check"
      BY <1>1, <1>7, <2>2 DEF HostCheck
    <3>2. \A g \in Gpu : /\ g < hrank' => g <= hrank
                         /\ g > hrank => g >= hrank'
      BY <3>1, HostNumbers, Constants
    <3>3. HostInv'
      BY <1>2, <1>3, <1>4, <1>5, <2>1, <3>1, <3>2 DEF HostInv
    <3> QED
      BY <1>1, <3>3, HostReads DEF DdaRest
  <2>3. CASE ~(hrank + 1 < Parts)
    <3>1. hrank' = 0 /\ hpc' = "accept"
      BY <1>7, <2>3 DEF HostCheck
    <3>2. \A g \in Gpu : g <= hrank
      BY <2>3, HostNumbers, Constants
    <3>3. \A g \in Gpu : ~(g > hrank)
      BY <3>2, HostNumbers, Constants
    <3>4. \A g \in Gpu, w \in Group : Summed(g, w, op)'
      BY <1>3, <1>4, <2>1, <3>2, <3>3
    <3>5. HostInv'
      BY <1>5, <3>1, <3>4 DEF HostInv
    <3> QED
      BY <1>1, <3>5, HostReads DEF DdaRest
  <2> QED
    BY <2>2, <2>3
<1> QED
  BY <1>6, <1>7

LEMMA HostNextInv ==
  ASSUME DdaInv, HostNext
  PROVE  DdaRest'
<1>1. /\ hpc = "accept"
      /\ UNCHANGED <<barrierVars, hrank, input, ctrlGo, kernelVars>>
  BY DEF HostNext
<1>2. \A g \in Gpu, w \in Group : Summed(g, w, op)
  BY <1>1 DEF DdaInv, DdaRest, HostInv
<1>3. hrank = 0 /\ ctrlGo = op
  BY <1>1 DEF DdaInv, DdaRest, HostInv
<1>4. CASE op < TotalOps
  <2>1. op' = op + 1 /\ hpc' = "write"
    BY <1>1, <1>4 DEF HostNext
  <2>2. UNCHANGED <<barrierVars, out, ctrlDone, err, flag, wpc, wseq, hop>>
    BY <1>1 DEF kernelVars
  <2>3. Progress' /\ ErrorsSeen' /\ Started' /\ FlagsMean' /\ DoneMeans'
    BY <1>1, <2>2, HostOnly, HostNumbers
  <2>4. SlicesExact'
    <3> SUFFICES ASSUME NEW g \in Gpu, NEW w \in Group
                 PROVE  ~((wpc[g][w] = "barrier2" /\ wseq[g][w] = op + 1)
                          \/ entered[g][w] >= 3 * (op + 1) - 1)
      BY <2>1, <2>2 DEF SlicesExact, Summed, barrierVars
    <3>1. wpc[g][w] = "barrier2" => wseq[g][w] <= op
      BY <1>3 DEF DdaInv, DdaRest, Started
    <3>2. entered[g][w] <= 3 * op + 1
      BY <1>3 DEF DdaInv, DdaRest, Started
    <3> QED
      BY <3>1, <3>2, Numbers
  <2>5. HostInv'
    <3>1. \A g \in Gpu, w \in Group : Summed(g, w, op - 1)'
      BY <1>2, <2>1, <2>2, Numbers DEF Summed, barrierVars
    <3>2. \A g \in Gpu : ~(g < hrank')
      BY <1>1, <1>3, Constants
    <3>3. ctrlGo' = op' - 1
      BY <1>1, <1>3, <2>1, HostNumbers
    <3> QED
      BY <2>1, <3>1, <3>2, <3>3 DEF HostInv
  <2> QED
    BY <2>3, <2>4, <2>5 DEF DdaRest
<1>5. CASE ~(op < TotalOps)
  <2>1. hpc' = "drain" /\ op' = op
    BY <1>5 DEF HostNext
  <2>2. HostInv'
    BY <1>1, <1>3, <2>1 DEF DdaInv, DdaRest, HostInv, Summed, barrierVars
  <2> QED
    BY <1>1, <2>1, <2>2, HostReads DEF DdaRest
<1> QED
  BY <1>4, <1>5

LEMMA HostEndsInv ==
  ASSUME DdaInv, HostDrained \/ HostTimesOut
  PROVE  DdaRest'
<1>1. /\ hpc \in {"poll", "drain"} /\ hpc' \in {"finished", "failed"}
      /\ UNCHANGED <<barrierVars, hrank, op, input, ctrlGo, kernelVars>>
  BY DEF HostDrained, HostTimesOut
<1>2. HostInv'
  BY <1>1 DEF DdaInv, DdaRest, HostInv, Summed, barrierVars
<1> QED
  BY <1>1, <1>2, HostReads DEF DdaRest
-----------------------------------------------------------------------------
(* The leaders.                                                            *)

LeaderPlaces == {"start", "ready", "awaitReady", "barrier1", "consumed",
                 "awaitConsumed", "report", "barrier3"}

Moves(g, from, to) ==
  /\ wpc[g][0] = from /\ bpc[g][0] = "out"
  /\ wpc'[g][0] = to
  /\ \A h \in Gpu, w \in Group : h # g \/ w # 0 => wpc'[h][w] = wpc[h][w]

LEMMA GoOnMoves ==
  ASSUME DdaInv, NEW g \in Gpu, NEW from, NEW to, At(g, 0, from), GoOn(g, 0, to)
  PROVE  Moves(g, from, to)
BY Constants DEF DdaInv, TypeOK, At, GoOn, Moves

(* What holds after every step of a leader between two barriers.           *)
ErrorsStay == \A h \in Gpu : err[h] # 0 => err'[h] # 0

LEMMA LeaderFrame ==
  ASSUME DdaInv, NEW g \in Gpu, NEW from \in LeaderPlaces, NEW to \in LeaderPlaces,
         Moves(g, from, to), BarriersAt(from) = BarriersAt(to), ErrorsStay,
         ctrlDone' \in Nat, ctrlDone <= ctrlDone',
         UNCHANGED <<barrierVars, hostVars, out, wseq>>
  PROVE  /\ Progress' /\ HostInv' /\ SlicesExact'
         /\ \A h \in Gpu : gaveUp'[h] => err'[h] # 0
         /\ \A h \in Gpu, w \in Group :
              /\ wpc'[h][w] \in {"compute", "barrier2"} => wseq'[h][w] <= ctrlGo'
              /\ entered'[h][w] <= 3 * ctrlGo' + 1
<1>1. UNCHANGED <<entered, left, bpc, gaveUp, hpc, hrank, op, input, ctrlGo, out, wseq>>
  BY DEF barrierVars, hostVars
<1>2. from # "gone" /\ to \notin {"gone", "compute", "barrier2"}
  BY DEF LeaderPlaces
<1>3. Progress'
  <2> SUFFICES ASSUME NEW h \in Gpu, NEW w \in Group
               PROVE  /\ wpc'[h][w] # "gone" =>
                           entered'[h][w] = 3 * (wseq'[h][w] - 1) + BarriersAt(wpc'[h][w])
                      /\ wpc'[h][w] = "gone" =>
                           /\ entered'[h][w] \in {3 * wseq'[h][w] - 2, 3 * wseq'[h][w]}
                           /\ err'[h] = 0 => entered'[h][w] = 3 * TotalOps
                           /\ bpc'[h][w] = "out"
                      /\ left'[h][w] = IF bpc'[h][w] = "out" THEN entered'[h][w]
                                       ELSE entered'[h][w] - 1
    BY DEF Progress
  <2>1. CASE h = g /\ w = 0
    BY <1>1, <1>2, <2>1 DEF DdaInv, DdaRest, Progress, Moves
  <2>2. CASE h # g \/ w # 0
    BY <1>1, <2>2 DEF DdaInv, DdaRest, Progress, Moves, ErrorsStay
  <2> QED
    BY <2>1, <2>2
<1>4. \A h \in Gpu, w \in Group, s \in Int : Summed(h, w, s)' <=> Summed(h, w, s)
  BY <1>1 DEF Summed
<1>5. op \in Int /\ op - 1 \in Int
  BY HostNumbers
<1>6. HostInv'
  <2>1. ctrlDone >= op => ctrlDone' >= op
    BY Numbers
  <2>2. \A h \in Gpu : h >= hrank /\ err[h] # 0 => h >= hrank' /\ err'[h] # 0
    BY <1>1 DEF ErrorsStay
  <2> QED
    BY <1>1, <1>4, <1>5, <2>1, <2>2 DEF DdaInv, DdaRest, HostInv
<1>7. SlicesExact'
  BY <1>1, <1>2, <1>4, <1>5 DEF DdaInv, DdaRest, SlicesExact, Moves
<1>8. \A h \in Gpu : gaveUp'[h] => err'[h] # 0
  BY <1>1 DEF DdaInv, DdaRest, ErrorsSeen, ErrorsStay
<1>9. \A h \in Gpu, w \in Group :
        /\ wpc'[h][w] \in {"compute", "barrier2"} => wseq'[h][w] <= ctrlGo'
        /\ entered'[h][w] <= 3 * ctrlGo' + 1
  BY <1>1, <1>2 DEF DdaInv, DdaRest, Started, Moves
<1> QED
  BY <1>3, <1>6, <1>7, <1>8, <1>9

LEMMA SignalsLeftType ==
  ASSUME NEW place
  PROVE  SignalsLeft(place) \in {0, 1, 2}
<1>1. CASE place = "start"
  BY <1>1 DEF SignalsLeft
<1>2. CASE place # "start"
  BY <1>2 DEF SignalsLeft
<1> QED
  BY <1>1, <1>2

LEMMA FlagsKept ==
  ASSUME DdaInv, UNCHANGED <<flag, ctrlGo, wseq>>,
         \A p \in Gpu : SignalsLeft(wpc'[p][0]) <= SignalsLeft(wpc[p][0]),
         \A p \in Gpu : left'[p][0] \in Nat /\ left[p][0] <= left'[p][0]
  PROVE  FlagsMean'
<1>1. \A q, p \in Gpu : flag'[q][p] <= 2 * wseq'[p][0] - SignalsLeft(wpc'[p][0])
  <2> SUFFICES ASSUME NEW q \in Gpu, NEW p \in Gpu
               PROVE  flag[q][p] <= 2 * wseq[p][0] - SignalsLeft(wpc'[p][0])
    OBVIOUS
  <2>1. flag[q][p] <= 2 * wseq[p][0] - SignalsLeft(wpc[p][0])
    BY DEF DdaInv, DdaRest, FlagsMean
  <2>2. SignalsLeft(wpc'[p][0]) \in Int /\ SignalsLeft(wpc[p][0]) \in Int
    BY SignalsLeftType
  <2> QED
    BY <2>1, <2>2, Numbers
<1>2. \A q, p \in Gpu, s \in 1..TotalOps :
        flag'[q][p] >= 2 * s => left'[p][0] >= 3 * s - 1
  <2> SUFFICES ASSUME NEW q \in Gpu, NEW p \in Gpu, NEW s \in 1..TotalOps,
                      flag[q][p] >= 2 * s
               PROVE  left'[p][0] >= 3 * s - 1
    OBVIOUS
  <2>1. left[p][0] >= 3 * s - 1
    BY DEF DdaInv, DdaRest, FlagsMean
  <2> QED
    BY <2>1, Numbers, Constants
<1>3. \A q \in Gpu : flag'[q][0] <= 2 * ctrlGo'
  BY DEF DdaInv, DdaRest, FlagsMean
<1> QED
  BY <1>1, <1>2, <1>3 DEF FlagsMean

LEMMA StartInv ==
  ASSUME DdaInv, NEW g \in Gpu, Start(g)
  PROVE  DdaRest'
<1>1. /\ wpc[g][0] = "start" /\ err[g] = 0 /\ StartSeen(g)
      /\ Moves(g, "start", "ready")
      /\ UNCHANGED <<barrierVars, hostVars, out, ctrlDone, err, flag, wseq, hop>>
  BY GoOnMoves DEF Start, At, DdaInv, DdaRest, ErrorsSeen
<1>2. UNCHANGED <<left, ctrlGo>>
  BY <1>1 DEF barrierVars, hostVars
<1>3. /\ Progress' /\ HostInv' /\ SlicesExact'
      /\ \A h \in Gpu : gaveUp'[h] => err'[h] # 0
      /\ \A h \in Gpu, w \in Group :
           /\ wpc'[h][w] \in {"compute", "barrier2"} => wseq'[h][w] <= ctrlGo'
           /\ entered'[h][w] <= 3 * ctrlGo' + 1
  <2>1. ErrorsStay
    BY <1>1 DEF ErrorsStay
  <2>2. /\ "start" \in LeaderPlaces /\ "ready" \in LeaderPlaces
        /\ BarriersAt("start") = BarriersAt("ready")
    BY DEF LeaderPlaces, BarriersAt
  <2>3. ctrlDone' \in Nat /\ ctrlDone <= ctrlDone'
    BY <1>1, HostNumbers
  <2> QED
    BY <1>1, <2>1, <2>2, <2>3, LeaderFrame
<1>4. ErrorsSeen'
  BY <1>1, <1>3, Constants DEF DdaInv, DdaRest, ErrorsSeen, Moves
<1>5. wseq[g][0] <= ctrlGo
  <2>1. CASE g = 0
    BY <1>1, <2>1, Numbers DEF StartSeen
  <2>2. CASE g # 0
    <3>1. flag[g][0] >= 2 * wseq[g][0] - 1
      BY <1>1, <2>2 DEF StartSeen, Ready
    <3>2. flag[g][0] <= 2 * ctrlGo
      BY DEF DdaInv, DdaRest, FlagsMean
    <3>3. ctrlGo \in Nat /\ wseq[g][0] \in Nat /\ flag[g][0] \in Nat
      BY HostNumbers, GroupNumbers, RankNumbers, Constants
    <3> QED
      BY <3>1, <3>2, <3>3
  <2> QED
    BY <2>1, <2>2
<1>6. Started'
  <2>1. \A h \in Gpu : err'[h] = 0 =>
          wseq'[h][0] <= ctrlGo' + (IF wpc'[h][0] = "start" THEN 1 ELSE 0)
    <3> SUFFICES ASSUME NEW h \in Gpu, err[h] = 0
                 PROVE  wseq[h][0] <= ctrlGo +
                          (IF wpc'[h][0] = "start" THEN 1 ELSE 0)
      BY <1>1, <1>2
    <3>1. CASE h = g
      BY <1>1, <1>5, <3>1, Numbers DEF Moves
    <3>2. CASE h # g
      BY <1>1, <3>2, Constants DEF DdaInv, DdaRest, Started, Moves
    <3> QED
      BY <3>1, <3>2
  <2> QED
    BY <1>3, <2>1 DEF Started
<1>7. FlagsMean'
  <2>1. \A p \in Gpu : SignalsLeft(wpc'[p][0]) <= SignalsLeft(wpc[p][0])
    <3> SUFFICES ASSUME NEW p \in Gpu
                 PROVE  SignalsLeft(wpc'[p][0]) <= SignalsLeft(wpc[p][0])
      OBVIOUS
    <3>1. CASE p = g
      BY <1>1, <3>1 DEF SignalsLeft, Moves
    <3>2. CASE p # g
      <4>1. wpc'[p][0] = wpc[p][0]
        BY <1>1, <3>2, Constants DEF Moves
      <4> QED
        BY <4>1, SignalsLeftType
    <3> QED
      BY <3>1, <3>2
  <2> QED
    BY <1>1, <1>2, <2>1, FlagsKept, Numbers, Constants
<1>8. DoneMeans'
  BY <1>1, Constants DEF DdaInv, DdaRest, DoneMeans, Moves
<1> QED
  BY <1>3, <1>4, <1>6, <1>7, <1>8 DEF DdaRest

LEMMA LeaderStarted ==
  ASSUME DdaInv, NEW g \in Gpu, NEW from, NEW to, Moves(g, from, to),
         to # "start", from # "start" \/ err'[g] # 0, ErrorsStay,
         UNCHANGED <<hostVars, wseq>>
  PROVE  \A h \in Gpu : err'[h] = 0 =>
           wseq'[h][0] <= ctrlGo' + (IF wpc'[h][0] = "start" THEN 1 ELSE 0)
<1> SUFFICES ASSUME NEW h \in Gpu, err'[h] = 0
             PROVE  wseq[h][0] <= ctrlGo +
                      (IF wpc'[h][0] = "start" THEN 1 ELSE 0)
  BY DEF hostVars
<1>1. err[h] = 0
  BY DEF ErrorsStay
<1>2. wseq[h][0] <= ctrlGo + (IF wpc[h][0] = "start" THEN 1 ELSE 0)
  BY <1>1 DEF DdaInv, DdaRest, Started
<1>3. wpc'[h][0] = "start" <=> wpc[h][0] = "start"
  <2>1. CASE h = g
    BY <2>1 DEF Moves
  <2>2. CASE h # g
    BY <2>2, Constants DEF Moves
  <2> QED
    BY <2>1, <2>2
<1> QED
  BY <1>2, <1>3

LEMMA LeaderFlags ==
  ASSUME DdaInv, NEW g \in Gpu, NEW from, NEW to, Moves(g, from, to),
         SignalsLeft(to) <= SignalsLeft(from),
         UNCHANGED <<barrierVars, hostVars, flag, wseq>>
  PROVE  FlagsMean'
<1>1. UNCHANGED <<left, ctrlGo>>
  BY DEF barrierVars, hostVars
<1>2. \A p \in Gpu : SignalsLeft(wpc'[p][0]) <= SignalsLeft(wpc[p][0])
  <2> SUFFICES ASSUME NEW p \in Gpu
               PROVE  SignalsLeft(wpc'[p][0]) <= SignalsLeft(wpc[p][0])
    OBVIOUS
  <2>1. CASE p = g
    BY <2>1 DEF Moves
  <2>2. CASE p # g
    <3>1. wpc'[p][0] = wpc[p][0]
      BY <2>2, Constants DEF Moves
    <3> QED
      BY <3>1, SignalsLeftType
  <2> QED
    BY <2>1, <2>2
<1> QED
  BY <1>1, <1>2, FlagsKept, Numbers, Constants

LEMMA DoneKept ==
  ASSUME DdaInv, UNCHANGED <<ctrlDone, wseq>>,
         \A p \in Gpu : flag'[0][p] \in Nat /\ flag[0][p] <= flag'[0][p],
         err'[0] = 0 => err[0] = 0,
         wpc'[0][0] = "awaitConsumed" /\ err'[0] = 0 =>
           \/ hop'[0] = 0
           \/ wpc[0][0] = "awaitConsumed" /\ hop'[0] = hop[0],
         wpc'[0][0] = "report" /\ err'[0] = 0 => wpc[0][0] = "report"
  PROVE  DoneMeans'
<1>1. /\ ctrlDone \in Nat /\ wseq[0][0] \in Nat /\ ctrlDone' = ctrlDone
      /\ wseq'[0][0] = wseq[0][0]
      /\ \A p \in Gpu : flag[0][p] \in Nat /\ p \in Nat
  BY HostNumbers, GroupNumbers, RankNumbers, Constants
<1>2. \A p \in Gpu : flag'[0][p] >= 2 * ctrlDone'
  <2> SUFFICES ASSUME NEW p \in Gpu PROVE flag'[0][p] >= 2 * ctrlDone
    BY <1>1
  <2>1. flag[0][p] >= 2 * ctrlDone
    BY DEF DdaInv, DdaRest, DoneMeans
  <2>2. flag'[0][p] \in Nat /\ flag[0][p] \in Nat /\ flag[0][p] <= flag'[0][p]
    BY <1>1
  <2> QED
    BY <1>1, <2>1, <2>2
<1>3. ASSUME wpc'[0][0] = "awaitConsumed", err'[0] = 0, NEW p \in Gpu, p < hop'[0]
      PROVE  flag'[0][p] >= 2 * wseq'[0][0]
  <2>1. p \in Nat /\ flag'[0][p] \in Nat /\ flag[0][p] \in Nat
        /\ flag[0][p] <= flag'[0][p]
    BY <1>1, <1>3
  <2>2. hop'[0] # 0
    BY <1>3, <2>1
  <2>3. flag[0][p] >= 2 * wseq[0][0]
    BY <1>3, <2>2 DEF DdaInv, DdaRest, DoneMeans
  <2> QED
    BY <1>1, <2>1, <2>3
<1>4. ASSUME wpc'[0][0] = "report", err'[0] = 0, NEW p \in Gpu
      PROVE  flag'[0][p] >= 2 * wseq'[0][0]
  <2>1. flag[0][p] >= 2 * wseq[0][0]
    BY <1>4 DEF DdaInv, DdaRest, DoneMeans
  <2>2. flag'[0][p] \in Nat /\ flag[0][p] \in Nat /\ flag[0][p] <= flag'[0][p]
    BY <1>1
  <2> QED
    BY <1>1, <2>1, <2>2
<1> QED
  BY <1>2, <1>3, <1>4 DEF DoneMeans

LEMMA HopMoves ==
  ASSUME DdaInv, NEW g \in Gpu, NEW from, NEW to, At(g, 0, from), Hop(g, from, to)
  PROVE  /\ \/ /\ Moves(g, from, from)
               /\ hop[g] + 1 < Parts /\ hop'[g] = hop[g] + 1
            \/ /\ Moves(g, from, to)
               /\ \A p \in Gpu : p <= hop[g]
               /\ hop'[g] = 0
         /\ \A h \in Gpu : h # g => hop'[h] = hop[h]
<1>1. hop \in [Gpu -> Gpu]
  BY DEF DdaInv, TypeOK
<1>2. CASE hop[g] + 1 < Parts
  <2>1. hop' = [hop EXCEPT ![g] = @ + 1] /\ Moves(g, from, from)
    BY <1>2, GoOnMoves DEF Hop
  <2> QED
    BY <1>1, <1>2, <2>1
<1>3. CASE ~(hop[g] + 1 < Parts)
  <2>1. hop' = [hop EXCEPT ![g] = 0] /\ Moves(g, from, to)
    BY <1>3, GoOnMoves DEF Hop
  <2>2. \A p \in Gpu : p <= hop[g]
    BY <1>1, <1>3, Constants
  <2> QED
    BY <1>1, <2>1, <2>2
<1> QED
  BY <1>2, <1>3

LEMMA StartTripsInv ==
  ASSUME DdaInv, NEW g \in Gpu, StartTrips(g)
  PROVE  DdaRest'
<1> DEFINE code == IF g = 0 THEN 1 ELSE 2
<1>1. /\ err' = [err EXCEPT ![g] = code]
      /\ Moves(g, "start", "awaitReady")
      /\ UNCHANGED <<barrierVars, hostVars, out, ctrlDone, flag, wseq, hop>>
  BY GoOnMoves DEF StartTrips
<1>2. code # 0
  OBVIOUS
<1> HIDE DEF code
<1>3. err'[g] # 0 /\ \A h \in Gpu : h # g => err'[h] = err[h]
  BY <1>1, <1>2 DEF DdaInv, TypeOK
<1>4. ErrorsStay
  BY <1>3 DEF ErrorsStay
<1>5. /\ Progress' /\ HostInv' /\ SlicesExact'
      /\ \A h \in Gpu : gaveUp'[h] => err'[h] # 0
      /\ \A h \in Gpu, w \in Group :
           /\ wpc'[h][w] \in {"compute", "barrier2"} => wseq'[h][w] <= ctrlGo'
           /\ entered'[h][w] <= 3 * ctrlGo' + 1
  <2>1. /\ "start" \in LeaderPlaces /\ "awaitReady" \in LeaderPlaces
        /\ BarriersAt("start") = BarriersAt("awaitReady")
    BY DEF LeaderPlaces, BarriersAt
  <2>2. ctrlDone' \in Nat /\ ctrlDone <= ctrlDone'
    <3>1. ctrlDone' = ctrlDone
      BY <1>1
    <3> QED
      BY <3>1, HostNumbers
  <2> QED
    BY <1>1, <1>4, <2>1, <2>2, LeaderFrame
<1>6. ErrorsSeen'
  BY <1>1, <1>3, <1>5, Constants DEF DdaInv, DdaRest, ErrorsSeen, Moves
<1>7. Started'
  BY <1>1, <1>3, <1>4, <1>5, LeaderStarted DEF Started
<1>8. FlagsMean'
  <2>1. SignalsLeft("awaitReady") <= SignalsLeft("start")
    BY DEF SignalsLeft
  <2> QED
    BY <1>1, <2>1, LeaderFlags
<1>9. DoneMeans'
  <2>1. wpc'[0][0] \in {"awaitConsumed", "report"} => wpc[0][0] = wpc'[0][0]
    BY <1>1, Constants DEF Moves
  <2>2. \A p \in Gpu : flag'[0][p] \in Nat /\ flag[0][p] <= flag'[0][p]
    <3>1. flag' = flag
      BY <1>1
    <3> QED
      BY <3>1, RankNumbers, Constants
  <2> QED
    BY <1>1, <1>4, <2>1, <2>2, DoneKept, Constants DEF ErrorsStay
<1> QED
  BY <1>5, <1>6, <1>7, <1>8, <1>9 DEF DdaRest

(* Waiting for the ready flags, with or without its watchdog.              *)
LEMMA AwaitReadyInv ==
  ASSUME DdaInv, NEW g \in Gpu, AwaitReady(g) \/ AwaitReadyTrips(g)
  PROVE  DdaRest'
<1>1. /\ At(g, 0, "awaitReady") /\ Hop(g, "awaitReady", "barrier1")
      /\ err' = err \/ err' = [err EXCEPT ![g] = 3]
      /\ UNCHANGED <<barrierVars, hostVars, out, ctrlDone, flag, wseq>>
  BY DEF AwaitReady, AwaitReadyTrips, Await, AwaitTrips
<1>2. /\ ctrlDone' \in Nat /\ ctrlDone <= ctrlDone'
      /\ \A p \in Gpu : flag'[0][p] \in Nat /\ flag[0][p] <= flag'[0][p]
  <2>1. ctrlDone' = ctrlDone /\ flag' = flag
    BY <1>1
  <2> QED
    BY <2>1, HostNumbers, RankNumbers, Constants
<1>3. ErrorsStay /\ \A h \in Gpu : h # g => err'[h] = err[h]
  <2>1. CASE err' = err
    BY <2>1 DEF ErrorsStay
  <2>2. CASE err' = [err EXCEPT ![g] = 3]
    BY <2>2 DEF ErrorsStay, DdaInv, TypeOK
  <2> QED
    BY <1>1, <2>1, <2>2
<1>4. /\ SignalsLeft("awaitReady") <= SignalsLeft("awaitReady")
      /\ SignalsLeft("barrier1") <= SignalsLeft("awaitReady")
  BY DEF SignalsLeft
<1>5. PICK to \in {"awaitReady", "barrier1"} :
        /\ Moves(g, "awaitReady", to)
        /\ \A h \in Gpu : h # g => hop'[h] = hop[h]
  BY <1>1, HopMoves
<1>6. /\ Progress' /\ HostInv' /\ SlicesExact'
      /\ \A h \in Gpu : gaveUp'[h] => err'[h] # 0
      /\ \A h \in Gpu, w \in Group :
           /\ wpc'[h][w] \in {"compute", "barrier2"} => wseq'[h][w] <= ctrlGo'
           /\ entered'[h][w] <= 3 * ctrlGo' + 1
  <2>1. /\ "awaitReady" \in LeaderPlaces /\ to \in LeaderPlaces
        /\ BarriersAt("awaitReady") = BarriersAt(to)
    BY DEF LeaderPlaces, BarriersAt
  <2> QED
    BY <1>1, <1>5, <1>2, <1>3, <2>1, LeaderFrame
<1>7. ErrorsSeen'
  BY <1>5, <1>3, <1>6, Constants DEF DdaInv, DdaRest, ErrorsSeen, Moves
<1>8. Started'
  BY <1>1, <1>5, <1>3, <1>6, LeaderStarted DEF Started
<1>9. FlagsMean'
  <2>1. SignalsLeft(to) <= SignalsLeft("awaitReady")
    BY <1>4
  <2> QED
    BY <1>1, <1>5, <2>1, LeaderFlags
<1>10. DoneMeans'
  <2>1. wpc'[0][0] \in {"awaitConsumed", "report"} =>
          wpc[0][0] = wpc'[0][0] /\ hop'[0] = hop[0]
    BY <1>5, Constants DEF Moves
  <2> QED
    BY <1>1, <1>2, <1>3, <2>1, DoneKept, Constants DEF ErrorsStay
<1> QED
  BY <1>6, <1>7, <1>8, <1>9, <1>10 DEF DdaRest

(* A leader signals only after its rank has started without an error; the  *)
(* flag rises, and tells the truth.                                        *)
LEMMA SignalInv ==
  ASSUME DdaInv, NEW g \in Gpu, SignalReady(g) \/ SignalConsumed(g)
  PROVE  DdaRest'
<1> DEFINE from == IF wpc[g][0] = "ready" THEN "ready" ELSE "consumed"
<1> DEFINE after == IF wpc[g][0] = "ready" THEN "awaitReady" ELSE "awaitConsumed"
<1> DEFINE value == IF wpc[g][0] = "ready" THEN 2 * wseq[g][0] - 1 ELSE 2 * wseq[g][0]
<1>1. Signal(g, from, after, value)
  <2>1. CASE SignalReady(g)
    <3>1. wpc[g][0] = "ready"
      BY <2>1 DEF SignalReady, Signal, At
    <3> QED
      BY <2>1, <3>1 DEF SignalReady, Ready
  <2>2. CASE SignalConsumed(g)
    <3>1. wpc[g][0] = "consumed"
      BY <2>2 DEF SignalConsumed, Signal, At
    <3> QED
      BY <2>2, <3>1 DEF SignalConsumed, Consumed
  <2> QED
    BY <2>1, <2>2
<1>2. /\ from \in {"ready", "consumed"}
      /\ from = "ready" => after = "awaitReady" /\ value = 2 * wseq[g][0] - 1
      /\ from = "consumed" => after = "awaitConsumed" /\ value = 2 * wseq[g][0]
  OBVIOUS
<1> HIDE DEF from, after, value
<1>3. /\ At(g, 0, from) /\ Hop(g, from, after)
      /\ flag' = [flag EXCEPT ![hop[g]][g] = value]
      /\ UNCHANGED <<barrierVars, hostVars, out, ctrlDone, err, wseq>>
  BY <1>1 DEF Signal
<1>4. /\ wseq[g][0] \in Nat /\ wseq[g][0] >= 1 /\ wseq[g][0] <= TotalOps
      /\ ctrlDone' \in Nat /\ ctrlDone <= ctrlDone' /\ ctrlGo \in Nat
  <2>1. ctrlDone' = ctrlDone
    BY <1>3
  <2> QED
    BY <2>1, HostNumbers, GroupNumbers, Constants
<1>5. value \in Nat /\ value = 2 * wseq[g][0] - SignalsLeft(from)
  BY <1>2, <1>4 DEF SignalsLeft
<1>6. g = 0 /\ wseq[0][0] <= ctrlGo => value <= 2 * ctrlGo
  BY <1>2, <1>4
<1>7. PICK to \in {from, after} :
        /\ Moves(g, from, to)
        /\ to = after => hop'[g] = 0
        /\ \A h \in Gpu : h # g => hop'[h] = hop[h]
  BY <1>2, <1>3, HopMoves
<1>8. err[g] = 0 /\ wpc[g][0] = from /\ bpc[g][0] = "out"
  BY <1>2, <1>3 DEF At, DdaInv, DdaRest, ErrorsSeen
<1>9. ErrorsStay
  BY <1>3 DEF ErrorsStay
<1>10. /\ Progress' /\ HostInv' /\ SlicesExact'
       /\ \A h \in Gpu : gaveUp'[h] => err'[h] # 0
       /\ \A h \in Gpu, w \in Group :
            /\ wpc'[h][w] \in {"compute", "barrier2"} => wseq'[h][w] <= ctrlGo'
            /\ entered'[h][w] <= 3 * ctrlGo' + 1
  <2>1. /\ from \in LeaderPlaces /\ to \in LeaderPlaces
        /\ BarriersAt(from) = BarriersAt(to)
    BY <1>2 DEF LeaderPlaces, BarriersAt
  <2> QED
    BY <1>3, <1>7, <1>9, <1>4, <2>1, LeaderFrame
<1>11. ErrorsSeen'
  <2> SUFFICES ASSUME NEW h \in Gpu,
                      wpc'[h][0] \in {"start", "ready", "compute", "barrier2",
                                     "after2", "consumed"}
               PROVE  err'[h] = 0
    BY <1>10 DEF ErrorsSeen
  <2>1. err' = err
    BY <1>3
  <2>2. CASE h = g
    BY <1>8, <2>1, <2>2
  <2>3. CASE h # g
    <3>1. wpc'[h][0] = wpc[h][0]
      BY <1>7, <2>3, Constants DEF Moves
    <3> QED
      BY <2>1, <3>1 DEF DdaInv, DdaRest, ErrorsSeen
  <2> QED
    BY <2>2, <2>3
<1>12. Started'
  <2>1. to # "start" /\ from # "start"
    BY <1>2
  <2> QED
    <3>1. \A h \in Gpu : err'[h] = 0 =>
            wseq'[h][0] <= ctrlGo' + (IF wpc'[h][0] = "start" THEN 1 ELSE 0)
      <4>1. UNCHANGED <<hostVars, wseq>>
        BY <1>3
      <4> QED
        BY <1>7, <1>9, <2>1, <4>1, LeaderStarted
    <3> QED
      BY <1>10, <3>1 DEF Started
<1>13. /\ \A q, p \in Gpu : flag'[q][p] = IF q = hop[g] /\ p = g THEN value
                                          ELSE flag[q][p]
       /\ value \in Nat
  <2>1. flag \in [Gpu -> [Gpu -> 0..(2 * TotalOps)]] /\ hop[g] \in Gpu
    BY DEF DdaInv, TypeOK
  <2> QED
    BY <1>3, <1>5, <2>1
<1>14. \A q \in Gpu : flag[q][g] <= value
  <2>1. \A q \in Gpu : flag[q][g] <= 2 * wseq[g][0] - SignalsLeft(from)
    BY <1>8 DEF DdaInv, DdaRest, FlagsMean
  <2> QED
    BY <1>5, <2>1
<1>15. FlagsMean'
  <2>1. \A q, p \in Gpu : flag'[q][p] <= 2 * wseq'[p][0] - SignalsLeft(wpc'[p][0])
    <3> SUFFICES ASSUME NEW q \in Gpu, NEW p \in Gpu
                 PROVE  flag'[q][p] <= 2 * wseq[p][0] - SignalsLeft(wpc'[p][0])
      BY <1>3
    <3>1. CASE p = g
      <4>1. SignalsLeft(wpc'[p][0]) = SignalsLeft(from)
        BY <1>2, <1>7, <3>1 DEF Moves, SignalsLeft
      <4> QED
        BY <1>13, <1>14, <1>5, <3>1, <4>1
    <3>2. CASE p # g
      <4>1. wpc'[p][0] = wpc[p][0]
        BY <1>7, <3>2, Constants DEF Moves
      <4> QED
        BY <1>13, <3>2, <4>1 DEF DdaInv, DdaRest, FlagsMean
    <3> QED
      BY <3>1, <3>2
  <2>2. \A q, p \in Gpu, s \in 1..TotalOps :
          flag'[q][p] >= 2 * s => left'[p][0] >= 3 * s - 1
    <3> SUFFICES ASSUME NEW q \in Gpu, NEW p \in Gpu, NEW s \in 1..TotalOps,
                        flag'[q][p] >= 2 * s
                 PROVE  left[p][0] >= 3 * s - 1
      BY <1>3 DEF barrierVars
    <3>1. CASE q = hop[g] /\ p = g
      <4>1. value >= 2 * s
        BY <1>13, <3>1
      <4>2. left[g][0] = 3 * (wseq[g][0] - 1) + BarriersAt(from)
        <5>1. wpc[g][0] # "gone" /\ wpc[g][0] = from /\ bpc[g][0] = "out"
          BY <1>2, <1>8
        <5> QED
          BY <5>1, Constants DEF DdaInv, DdaRest, Progress
      <4>3. CASE from = "ready"
        <5>1. BarriersAt(from) = 0 /\ value = 2 * wseq[g][0] - 1
          BY <1>2, <4>3 DEF BarriersAt
        <5>2. s <= wseq[g][0] - 1 /\ left[g][0] = 3 * (wseq[g][0] - 1)
          BY <4>1, <4>2, <5>1, <1>4, Constants
        <5> QED
          BY <3>1, <5>2, <1>4, Constants
      <4>4. CASE from = "consumed"
        <5>1. BarriersAt(from) = 2 /\ value = 2 * wseq[g][0]
          BY <1>2, <4>4 DEF BarriersAt
        <5>2. s <= wseq[g][0] /\ left[g][0] = 3 * (wseq[g][0] - 1) + 2
          BY <4>1, <4>2, <5>1, <1>4, Constants
        <5> QED
          BY <3>1, <5>2, <1>4, Constants
      <4> QED
        BY <1>2, <4>3, <4>4
    <3>2. CASE ~(q = hop[g] /\ p = g)
      BY <1>13, <3>2 DEF DdaInv, DdaRest, FlagsMean
    <3> QED
      BY <3>1, <3>2
  <2>3. \A q \in Gpu : flag'[q][0] <= 2 * ctrlGo'
    <3> SUFFICES ASSUME NEW q \in Gpu PROVE flag'[q][0] <= 2 * ctrlGo
      BY <1>3 DEF hostVars
    <3>1. CASE g = 0
      <4>1. wseq[0][0] <= ctrlGo
        <5>1. /\ wseq[0][0] <= ctrlGo + (IF wpc[0][0] = "start" THEN 1 ELSE 0)
              /\ wpc[0][0] # "start" /\ ctrlGo \in Nat
          BY <1>2, <1>8, <3>1, HostNumbers DEF DdaInv, DdaRest, Started
        <5> QED
          BY <5>1
      <4>2. value <= 2 * ctrlGo
        BY <1>6, <3>1, <4>1
      <4> QED
        BY <1>13, <3>1, <4>2, Constants DEF DdaInv, DdaRest, FlagsMean
    <3>2. CASE g # 0
      BY <1>13, <3>2, Constants DEF DdaInv, DdaRest, FlagsMean
    <3> QED
      BY <3>1, <3>2
  <2> QED
    BY <2>1, <2>2, <2>3 DEF FlagsMean
<1>16. DoneMeans'
  <2>1. \A p \in Gpu : flag'[0][p] \in Nat /\ flag[0][p] <= flag'[0][p]
    BY <1>13, <1>14, RankNumbers, Constants
  <2>2. wpc'[0][0] = "awaitConsumed" =>
          hop'[0] = 0 \/ (wpc[0][0] = "awaitConsumed" /\ hop'[0] = hop[0])
    BY <1>2, <1>7, Constants DEF Moves
  <2>3. wpc'[0][0] = "report" => wpc[0][0] = "report"
    BY <1>2, <1>7, Constants DEF Moves
  <2> QED
    BY <1>3, <2>1, <2>2, <2>3, DoneKept
<1> QED
  BY <1>10, <1>11, <1>12, <1>15, <1>16 DEF DdaRest

(* Waiting for the consumed flags: rank 0 has seen those of the peers it   *)
(* has passed, unless its watchdog fired.                                  *)
LEMMA AwaitConsumedInv ==
  ASSUME DdaInv, NEW g \in Gpu, AwaitConsumed(g) \/ AwaitConsumedTrips(g)
  PROVE  DdaRest'
<1>1. /\ At(g, 0, "awaitConsumed") /\ Hop(g, "awaitConsumed", "report")
      /\ err' = err \/ err' = [err EXCEPT ![g] = 4]
      /\ UNCHANGED <<barrierVars, hostVars, out, ctrlDone, flag, wseq>>
  BY DEF AwaitConsumed, AwaitConsumedTrips, Await, AwaitTrips
<1>2. /\ \/ /\ Moves(g, "awaitConsumed", "awaitConsumed")
            /\ hop[g] + 1 < Parts /\ hop'[g] = hop[g] + 1
         \/ /\ Moves(g, "awaitConsumed", "report")
            /\ \A p \in Gpu : p <= hop[g]
            /\ hop'[g] = 0
      /\ \A h \in Gpu : h # g => hop'[h] = hop[h]
  BY <1>1, HopMoves
<1>3. PICK to \in {"awaitConsumed", "report"} : Moves(g, "awaitConsumed", to)
  BY <1>2
<1>4. ErrorsStay /\ \A h \in Gpu : h # g => err'[h] = err[h]
  <2>1. CASE err' = err
    BY <2>1 DEF ErrorsStay
  <2>2. CASE err' = [err EXCEPT ![g] = 4]
    BY <2>2 DEF ErrorsStay, DdaInv, TypeOK
  <2> QED
    BY <1>1, <2>1, <2>2
<1>5. /\ Progress' /\ HostInv' /\ SlicesExact'
      /\ \A h \in Gpu : gaveUp'[h] => err'[h] # 0
      /\ \A h \in Gpu, w \in Group :
           /\ wpc'[h][w] \in {"compute", "barrier2"} => wseq'[h][w] <= ctrlGo'
           /\ entered'[h][w] <= 3 * ctrlGo' + 1
  <2>1. /\ "awaitConsumed" \in LeaderPlaces /\ to \in LeaderPlaces
        /\ BarriersAt("awaitConsumed") = BarriersAt(to)
    BY DEF LeaderPlaces, BarriersAt
  <2>2. ctrlDone' \in Nat /\ ctrlDone <= ctrlDone'
    <3>1. ctrlDone' = ctrlDone
      BY <1>1
    <3> QED
      BY <3>1, HostNumbers
  <2> QED
    BY <1>1, <1>3, <1>4, <2>1, <2>2, LeaderFrame
<1>6. ErrorsSeen'
  BY <1>3, <1>4, <1>5, Constants DEF DdaInv, DdaRest, ErrorsSeen, Moves
<1>7. Started'
  BY <1>1, <1>3, <1>4, <1>5, LeaderStarted DEF Started
<1>8. FlagsMean'
  <2>1. SignalsLeft(to) <= SignalsLeft("awaitConsumed")
    BY DEF SignalsLeft
  <2> QED
    BY <1>1, <1>3, <2>1, LeaderFlags
<1>9. DoneMeans'
  <2>1. CASE g # 0
    <3>1. wpc'[0][0] = wpc[0][0] /\ hop'[0] = hop[0] /\ err'[0] = err[0]
      BY <1>2, <1>3, <1>4, <2>1, Constants DEF Moves
    <3> QED
      BY <1>1, <3>1 DEF DdaInv, DdaRest, DoneMeans
  <2>2. CASE g = 0 /\ err'[0] # 0
    BY <1>1, <2>2 DEF DdaInv, DdaRest, DoneMeans
  <2>3. CASE g = 0 /\ err'[0] = 0
    <3>1. err[0] = 0 /\ wpc[0][0] = "awaitConsumed"
      BY <1>3, <1>4, <2>3 DEF ErrorsStay, Moves
    <3>2. \A p \in Gpu : p < hop[0] => flag[0][p] >= 2 * wseq[0][0]
      BY <3>1 DEF DdaInv, DdaRest, DoneMeans
    <3>3. flag[0][hop[0]] >= 2 * wseq[0][0]
      <4>1. CASE AwaitConsumed(g)
        BY <2>3, <4>1 DEF AwaitConsumed, Await, Consumed
      <4>2. CASE AwaitConsumedTrips(g)
        <5>1. err' = [err EXCEPT ![g] = 4]
          BY <4>2 DEF AwaitConsumedTrips, AwaitTrips
        <5> QED
          BY <2>3, <5>1 DEF DdaInv, TypeOK
      <4> QED
        BY <4>1, <4>2
    <3>4. hop[0] \in Nat /\ \A p \in Gpu : p \in Nat
      BY RankNumbers, Constants
    <3>5. \A p \in Gpu : p <= hop[0] => flag[0][p] >= 2 * wseq[0][0]
      <4>1. \A p \in Gpu : p <= hop[0] => p < hop[0] \/ p = hop[0]
        BY <3>4
      <4> QED
        BY <3>2, <3>3, <4>1
    <3>6. CASE /\ Moves(g, "awaitConsumed", "awaitConsumed")
               /\ hop'[g] = hop[g] + 1
      <4>1. \A p \in Gpu : p < hop'[0] => p <= hop[0]
        BY <2>3, <3>4, <3>6
      <4>2. wpc'[0][0] = "awaitConsumed"
        BY <2>3, <3>6 DEF Moves
      <4> QED
        BY <1>1, <3>5, <4>1, <4>2 DEF DdaInv, DdaRest, DoneMeans
    <3>7. CASE /\ Moves(g, "awaitConsumed", "report")
               /\ \A p \in Gpu : p <= hop[g]
      <4>1. wpc'[0][0] = "report"
        BY <2>3, <3>7 DEF Moves
      <4> QED
        BY <1>1, <2>3, <3>5, <3>7, <4>1 DEF DdaInv, DdaRest, DoneMeans
    <3> QED
      BY <1>2, <3>6, <3>7
  <2> QED
    BY <2>1, <2>2, <2>3
<1> QED
  BY <1>5, <1>6, <1>7, <1>8, <1>9 DEF DdaRest

LEMMA ReportInv ==
  ASSUME DdaInv, NEW g \in Gpu, Report(g)
  PROVE  DdaRest'
<1>1. /\ Moves(g, "report", "barrier3")
      /\ ctrlDone' = IF g = 0 /\ err[g] = 0 THEN wseq[g][0] ELSE ctrlDone
      /\ UNCHANGED <<barrierVars, hostVars, out, err, flag, wseq, hop>>
  BY GoOnMoves DEF Report
<1>2. ErrorsStay
  BY <1>1 DEF ErrorsStay
(* The last operation reported done is an earlier one.                     *)
<1>3. /\ ctrlDone' \in Nat /\ ctrlDone <= ctrlDone'
      /\ \A p \in Gpu : flag[0][p] >= 2 * ctrlDone'
  <2>1. CASE g = 0 /\ err[g] = 0
    <3>1. ctrlDone' = wseq[0][0] /\ wpc[0][0] = "report"
      BY <1>1, <2>1 DEF Moves
    <3>2. \A p \in Gpu : flag[0][p] >= 2 * wseq[0][0]
      BY <2>1, <3>1 DEF DdaInv, DdaRest, DoneMeans
    <3>3. flag[0][0] >= 2 * ctrlDone
      BY Constants DEF DdaInv, DdaRest, DoneMeans
    <3>4. flag[0][0] <= 2 * wseq[0][0]
      <4>1. flag[0][0] <= 2 * wseq[0][0] - SignalsLeft(wpc[0][0])
        BY Constants DEF DdaInv, DdaRest, FlagsMean
      <4>2. SignalsLeft(wpc[0][0]) = 0
        BY <3>1 DEF SignalsLeft
      <4> QED
        BY <4>1, <4>2, GroupNumbers, Constants
    <3>5. flag[0][0] \in Nat /\ wseq[0][0] \in Nat /\ ctrlDone \in Nat
      BY RankNumbers, GroupNumbers, HostNumbers, Constants
    <3> QED
      BY <3>1, <3>2, <3>3, <3>4, <3>5
  <2>2. CASE ~(g = 0 /\ err[g] = 0)
    <3>1. ctrlDone' = ctrlDone
      BY <1>1, <2>2
    <3> QED
      BY <3>1, HostNumbers DEF DdaInv, DdaRest, DoneMeans
  <2> QED
    BY <2>1, <2>2
<1>4. /\ Progress' /\ HostInv' /\ SlicesExact'
      /\ \A h \in Gpu : gaveUp'[h] => err'[h] # 0
      /\ \A h \in Gpu, w \in Group :
           /\ wpc'[h][w] \in {"compute", "barrier2"} => wseq'[h][w] <= ctrlGo'
           /\ entered'[h][w] <= 3 * ctrlGo' + 1
  <2>1. /\ "report" \in LeaderPlaces /\ "barrier3" \in LeaderPlaces
        /\ BarriersAt("report") = BarriersAt("barrier3")
    BY DEF LeaderPlaces, BarriersAt
  <2> QED
    BY <1>1, <1>2, <1>3, <2>1, LeaderFrame
<1>5. ErrorsSeen'
  BY <1>1, <1>4, Constants DEF DdaInv, DdaRest, ErrorsSeen, Moves
<1>6. Started'
  BY <1>1, <1>2, <1>4, LeaderStarted DEF Started
<1>7. FlagsMean'
  <2>1. SignalsLeft("barrier3") <= SignalsLeft("report")
    BY DEF SignalsLeft
  <2> QED
    BY <1>1, <2>1, LeaderFlags
<1>8. DoneMeans'
  <2>1. flag' = flag /\ err' = err /\ wseq' = wseq /\ hop' = hop
    BY <1>1
  <2>2. CASE g = 0
    <3>1. wpc'[0][0] = "barrier3"
      BY <1>1, <2>2 DEF Moves
    <3> QED
      BY <1>3, <2>1, <3>1 DEF DoneMeans
  <2>3. CASE g # 0
    <3>1. wpc'[0][0] = wpc[0][0]
      BY <1>1, <2>3, Constants DEF Moves
    <3> QED
      BY <1>3, <2>1, <3>1 DEF DdaInv, DdaRest, DoneMeans
  <2> QED
    BY <2>2, <2>3
<1> QED
  BY <1>4, <1>5, <1>6, <1>7, <1>8 DEF DdaRest
-----------------------------------------------------------------------------
(* The workgroups in a barrier.                                            *)

(* A workgroup is one place further, inside the barrier or out of it.      *)
Advances(g, w) ==
  /\ \/ bpc'[g][w] = "out" /\ left'[g][w] = left[g][w] + 1
     \/ bpc'[g][w] # "out" /\ left'[g][w] = left[g][w]
  /\ \A h \in Gpu, v \in Group : h # g \/ v # w =>
       bpc'[h][v] = bpc[h][v] /\ left'[h][v] = left[h][v]

LEMMA GotoAdvances ==
  ASSUME BarrierTypes, NEW g \in Gpu, NEW w \in Group, NEW place,
         place # "out", Goto(g, w, place), UNCHANGED left
  PROVE  Advances(g, w)
BY DEF BarrierTypes, Goto, Advances

LEMMA LeaveAdvances ==
  ASSUME BarrierTypes, NEW g \in Gpu, NEW w \in Group, Leave(g, w)
  PROVE  Advances(g, w)
<1>1. /\ bpc' = [bpc EXCEPT ![g][w] = "out"]
      /\ left' = [left EXCEPT ![g][w] = @ + 1]
  BY DEF Leave, Goto
<1> QED
  BY <1>1 DEF BarrierTypes, Advances

LEMMA InsideAdvances ==
  ASSUME BarrierTypes, NEW g \in Gpu, NEW w \in Group,
         Inside(g, w) \/ GiveUp(g, w)
  PROVE  /\ Advances(g, w) /\ bpc[g][w] # "out" /\ entered' = entered
         /\ Inside(g, w) => gaveUp' = gaveUp
<1>1. CASE Load(g, w)
  BY <1>1, GotoAdvances DEF Load
<1>2. CASE Add(g, w)
  <2>1. (IF arrived[g] + 1 = NumWg THEN "reset" ELSE "spin") # "out"
    OBVIOUS
  <2> QED
    BY <1>2, <2>1, GotoAdvances DEF Add
<1>3. CASE Reset(g, w)
  BY <1>3, GotoAdvances DEF Reset
<1>4. CASE Flip(g, w)
  BY <1>4, LeaveAdvances DEF Flip
<1>5. CASE SpinEnds(g, w)
  BY <1>5, LeaveAdvances DEF SpinEnds
<1>6. CASE GiveUp(g, w)
  <2>1. Advances(g, w) /\ bpc[g][w] = "spin" /\ entered' = entered
    BY <1>6, LeaveAdvances DEF GiveUp
  <2>2. ~Inside(g, w) \/ gaveUp' = gaveUp
    BY DEF Inside, Load, Add, Reset, Flip, SpinEnds
  <2> QED
    BY <2>1, <2>2
<1> QED
  BY <1>1, <1>2, <1>3, <1>4, <1>5, <1>6 DEF Inside

LEMMA AdvancesLeft ==
  ASSUME DdaInv, NEW g \in Gpu, NEW w \in Group, Advances(g, w)
  PROVE  \A p \in Gpu : left'[p][0] \in Nat /\ left[p][0] <= left'[p][0]
<1> SUFFICES ASSUME NEW p \in Gpu
             PROVE  left'[p][0] \in Nat /\ left[p][0] <= left'[p][0]
  OBVIOUS
<1>1. left[p][0] \in Nat
  BY GroupNumbers, Constants
<1>2. left'[p][0] = left[p][0] \/ left'[p][0] = left[p][0] + 1
  BY Constants DEF Advances
<1> QED
  BY <1>1, <1>2

LEMMA BarrierFrame ==
  ASSUME DdaInv, NEW g \in Gpu, NEW w \in Group, Advances(g, w),
         bpc[g][w] # "out", entered' = entered,
         \A h \in Gpu : gaveUp'[h] => err[h] # 0,
         UNCHANGED <<hostVars, kernelVars>>
  PROVE  DdaRest'
<1>1. UNCHANGED <<hpc, hrank, op, input, ctrlGo, out, ctrlDone, err, flag, wpc,
                  wseq, hop>>
  BY DEF hostVars, kernelVars
<1>2. Progress'
  <2> SUFFICES ASSUME NEW h \in Gpu, NEW v \in Group
               PROVE  /\ wpc[h][v] # "gone" =>
                           entered[h][v] = 3 * (wseq[h][v] - 1) + BarriersAt(wpc[h][v])
                      /\ wpc[h][v] = "gone" =>
                           /\ entered[h][v] \in {3 * wseq[h][v] - 2, 3 * wseq[h][v]}
                           /\ err[h] = 0 => entered[h][v] = 3 * TotalOps
                           /\ bpc'[h][v] = "out"
                      /\ left'[h][v] = IF bpc'[h][v] = "out" THEN entered[h][v]
                                       ELSE entered[h][v] - 1
    BY <1>1 DEF Progress
  <2>1. entered[h][v] \in Nat /\ left[h][v] \in Nat
    BY GroupNumbers
  <2>2. /\ wpc[h][v] # "gone" =>
             entered[h][v] = 3 * (wseq[h][v] - 1) + BarriersAt(wpc[h][v])
        /\ wpc[h][v] = "gone" =>
             /\ entered[h][v] \in {3 * wseq[h][v] - 2, 3 * wseq[h][v]}
             /\ err[h] = 0 => entered[h][v] = 3 * TotalOps
             /\ bpc[h][v] = "out"
        /\ left[h][v] = IF bpc[h][v] = "out" THEN entered[h][v]
                        ELSE entered[h][v] - 1
    BY DEF DdaInv, DdaRest, Progress
  <2>3. CASE h = g /\ v = w
    <3>1. left[h][v] = entered[h][v] - 1 /\ wpc[h][v] # "gone"
      BY <2>2, <2>3
    <3>2. left'[h][v] = IF bpc'[h][v] = "out" THEN entered[h][v]
                        ELSE entered[h][v] - 1
      BY <2>1, <2>3, <3>1 DEF Advances
    <3> QED
      BY <2>2, <3>1, <3>2
  <2>4. CASE h # g \/ v # w
    <3>1. bpc'[h][v] = bpc[h][v] /\ left'[h][v] = left[h][v]
      BY <2>4 DEF Advances
    <3> QED
      BY <2>2, <3>1
  <2> QED
    BY <2>3, <2>4
<1>3. ErrorsSeen' /\ Started' /\ DoneMeans'
  BY <1>1 DEF DdaInv, DdaRest, ErrorsSeen, Started, DoneMeans
<1>4. FlagsMean'
  <2>1. \A p \in Gpu : SignalsLeft(wpc'[p][0]) <= SignalsLeft(wpc[p][0])
    <3>1. wpc' = wpc
      BY <1>1
    <3>2. \A p \in Gpu : SignalsLeft(wpc[p][0]) <= SignalsLeft(wpc[p][0])
      BY SignalsLeftType
    <3> QED
      BY <3>1, <3>2
  <2> QED
    BY <1>1, <2>1, FlagsKept, AdvancesLeft
<1>5. HostInv' /\ SlicesExact'
  BY <1>1 DEF DdaInv, DdaRest, HostInv, SlicesExact, Summed
<1> QED
  BY <1>2, <1>3, <1>4, <1>5 DEF DdaRest

LEMMA InBarrierInv ==
  ASSUME DdaInv, NEW g \in Gpu, NEW w \in Group, InBarrier(g, w)
  PROVE  DdaRest'
<1>1. Inside(g, w) /\ UNCHANGED <<hostVars, kernelVars>>
  BY DEF InBarrier
<1>2. /\ Advances(g, w) /\ bpc[g][w] # "out" /\ entered' = entered
      /\ gaveUp' = gaveUp
  BY <1>1, InsideAdvances DEF DdaInv, BarrierInv
<1>3. \A h \in Gpu : gaveUp'[h] => err[h] # 0
  BY <1>2 DEF DdaInv, DdaRest, ErrorsSeen
<1> QED
  BY <1>1, <1>2, <1>3, BarrierFrame

(* Without an error a barrier does not give up: a workgroup that retired   *)
(* without one has left the last barrier, which all have entered.          *)
LEMMA GivesUpAfterError ==
  ASSUME DdaInv, NEW g \in Gpu, NEW w \in Group, BarrierGivesUp(g, w)
  PROVE  err[g] # 0
<1> SUFFICES ASSUME err[g] = 0 PROVE FALSE
  OBVIOUS
<1>1. PICK v \in Group : wpc[g][v] = "gone"
  BY DEF BarrierGivesUp
<1>2. entered[g][v] = 3 * TotalOps /\ bpc[g][v] = "out"
  BY <1>1 DEF DdaInv, DdaRest, Progress
<1>3. ~gaveUp[g]
  BY DEF DdaInv, DdaRest, ErrorsSeen
<1>4. PICK k \in Nat : Round(g, k)
  BY <1>3 DEF DdaInv, BarrierInv, RoundInv
<1>5. Before(g, v, k)
  BY <1>2, <1>4 DEF Round, Arriving, Straggling
<1>6. k = 3 * TotalOps
  BY <1>2, <1>5 DEF Before
<1>7. bpc[g][w] = "spin" /\ saved[g][w] = sense[g]
  BY DEF BarrierGivesUp, GiveUp
<1>8. Arriving(g, w, k)
  BY <1>4, <1>7 DEF Round, Before, Straggling
<1>9. entered[g][w] = 3 * TotalOps + 1
  BY <1>6, <1>8 DEF Arriving
<1>10. wpc[g][w] # "gone"
  BY <1>7 DEF DdaInv, DdaRest, Progress
<1>11. /\ entered[g][w] = 3 * (wseq[g][w] - 1) + BarriersAt(wpc[g][w])
       /\ BarriersAt(wpc[g][w]) \in {0, 1, 2, 3}
  BY <1>10 DEF DdaInv, DdaRest, Progress, BarriersAt
<1>12. wseq[g][w] \in Nat /\ wseq[g][w] <= TotalOps
  BY GroupNumbers
<1> QED
  BY <1>9, <1>11, <1>12, Constants

LEMMA BarrierGivesUpInv ==
  ASSUME DdaInv, NEW g \in Gpu, NEW w \in Group, BarrierGivesUp(g, w)
  PROVE  DdaRest'
<1>1. GiveUp(g, w) /\ UNCHANGED <<hostVars, kernelVars>>
  BY DEF BarrierGivesUp
<1>2. Advances(g, w) /\ bpc[g][w] # "out" /\ entered' = entered
  BY <1>1, InsideAdvances DEF DdaInv, BarrierInv
<1>3. \A h \in Gpu : gaveUp'[h] => err[h] # 0
  <2> SUFFICES ASSUME NEW h \in Gpu, gaveUp'[h] PROVE err[h] # 0
    OBVIOUS
  <2>1. gaveUp' = [gaveUp EXCEPT ![g] = TRUE]
    BY <1>1 DEF GiveUp
  <2>2. CASE h = g
    BY <2>2, GivesUpAfterError
  <2>3. CASE h # g
    <3>1. gaveUp \in [Gpu -> BOOLEAN]
      BY DEF DdaInv, BarrierInv, BarrierTypes
    <3>2. gaveUp[h]
      BY <2>1, <2>3, <3>1
    <3> QED
      BY <3>2 DEF DdaInv, DdaRest, ErrorsSeen
  <2> QED
    BY <2>2, <2>3
<1> QED
  BY <1>1, <1>2, <1>3, BarrierFrame
-----------------------------------------------------------------------------
(* The workgroups between two barriers.                                     *)

Steps(g, w, from, to) ==
  /\ wpc[g][w] = from /\ wpc'[g][w] = to
  /\ \A h \in Gpu, v \in Group : h # g \/ v # w => wpc'[h][v] = wpc[h][v]

LEMMA GoOnSteps ==
  ASSUME DdaInv, NEW g \in Gpu, NEW w \in Group, NEW to, GoOn(g, w, to)
  PROVE  Steps(g, w, wpc[g][w], to)
BY DEF DdaInv, TypeOK, GoOn, Steps

LEMMA StepsSignals ==
  ASSUME DdaInv, NEW g \in Gpu, NEW w \in Group, NEW from, NEW to,
         Steps(g, w, from, to), SignalsLeft(to) <= SignalsLeft(from)
  PROVE  \A p \in Gpu : SignalsLeft(wpc'[p][0]) <= SignalsLeft(wpc[p][0])
<1> SUFFICES ASSUME NEW p \in Gpu
             PROVE  SignalsLeft(wpc'[p][0]) <= SignalsLeft(wpc[p][0])
  OBVIOUS
<1>1. CASE p = g /\ w = 0
  BY <1>1 DEF Steps
<1>2. CASE ~(p = g /\ w = 0)
  <2>1. wpc'[p][0] = wpc[p][0]
    BY <1>2, Constants DEF Steps
  <2> QED
    BY <2>1, SignalsLeftType
<1> QED
  BY <1>1, <1>2

Checked == {"check1", "compute", "after2", "check3"}

(* A step of a workgroup that keeps to its operation.                      *)
LEMMA GroupFrame ==
  ASSUME DdaInv, NEW g \in Gpu, NEW w \in Group, NEW from \in Checked, NEW to,
         Steps(g, w, from, to), bpc[g][w] = "out",
         UNCHANGED <<barrierVars, hostVars, ctrlDone, err, flag, wseq, hop>>,
         \/ to \in {"compute", "barrier2", "consumed", "barrier3"}
            /\ BarriersAt(to) = BarriersAt(from)
         \/ to = "gone" /\ from = "check1" /\ err[g] # 0
         \/ to = "gone" /\ from = "check3"
            /\ (err[g] # 0 \/ wseq[g][w] = TotalOps),
         to \in {"compute", "barrier2"} => wseq[g][w] <= ctrlGo,
         w = 0 /\ to # "gone" /\ to # "barrier3" => err[g] = 0,
         SignalsLeft(to) <= SignalsLeft(from)
  PROVE  /\ Progress' /\ ErrorsSeen' /\ Started' /\ FlagsMean' /\ DoneMeans'
         /\ HostInv'
<1>1. UNCHANGED <<entered, left, bpc, gaveUp, hpc, hrank, op, input, ctrlGo, wseq,
                  err, flag, ctrlDone, hop>>
  BY DEF barrierVars, hostVars
<1>2. Progress'
  <2> SUFFICES ASSUME NEW h \in Gpu, NEW v \in Group
               PROVE  /\ wpc'[h][v] # "gone" =>
                           entered[h][v] = 3 * (wseq[h][v] - 1) + BarriersAt(wpc'[h][v])
                      /\ wpc'[h][v] = "gone" =>
                           /\ entered[h][v] \in {3 * wseq[h][v] - 2, 3 * wseq[h][v]}
                           /\ err[h] = 0 => entered[h][v] = 3 * TotalOps
                           /\ bpc[h][v] = "out"
                      /\ left[h][v] = IF bpc[h][v] = "out" THEN entered[h][v]
                                      ELSE entered[h][v] - 1
    BY <1>1 DEF Progress
  <2>1. CASE h = g /\ v = w
    <3>1. wpc[h][v] = from /\ wpc'[h][v] = to /\ from # "gone"
      BY <2>1 DEF Steps, Checked
    <3>2. /\ entered[h][v] = 3 * (wseq[h][v] - 1) + BarriersAt(from)
          /\ left[h][v] = IF bpc[h][v] = "out" THEN entered[h][v]
                          ELSE entered[h][v] - 1
      BY <3>1 DEF DdaInv, DdaRest, Progress
    <3>3. CASE to = "gone" /\ from = "check1"
      <4>1. BarriersAt(from) = 1 /\ err[g] # 0
        BY <3>3 DEF BarriersAt
      <4>2. entered[h][v] = 3 * wseq[h][v] - 2
        BY <3>2, <4>1, GroupNumbers
      <4> QED
        BY <2>1, <3>1, <3>2, <3>3, <4>1, <4>2
    <3>4. CASE to # "gone"
      <4>1. BarriersAt(to) = BarriersAt(from)
        BY <3>4
      <4> QED
        BY <3>1, <3>2, <3>4, <4>1
    <3>5. CASE to = "gone" /\ from = "check3"
      <4>1. BarriersAt(from) = 3 /\ (err[g] # 0 \/ wseq[g][w] = TotalOps)
        BY <3>5 DEF BarriersAt
      <4>2. entered[h][v] = 3 * wseq[h][v]
        BY <3>2, <4>1, GroupNumbers
      <4> QED
        BY <2>1, <3>1, <3>2, <3>5, <4>1, <4>2
    <3> QED
      BY <3>3, <3>4, <3>5
  <2>2. CASE ~(h = g /\ v = w)
    <3>1. wpc'[h][v] = wpc[h][v]
      BY <2>2 DEF Steps
    <3> QED
      BY <3>1 DEF DdaInv, DdaRest, Progress
  <2> QED
    BY <2>1, <2>2
<1>3. ErrorsSeen'
  <2> SUFFICES ASSUME NEW h \in Gpu,
                      wpc'[h][0] \in {"start", "ready", "compute", "barrier2",
                                     "after2", "consumed"}
               PROVE  err[h] = 0
    BY <1>1 DEF DdaInv, DdaRest, ErrorsSeen
  <2>1. CASE h = g /\ w = 0
    BY <2>1 DEF Steps
  <2>2. CASE ~(h = g /\ w = 0)
    <3>1. wpc'[h][0] = wpc[h][0]
      BY <2>2, Constants DEF Steps
    <3> QED
      BY <3>1 DEF DdaInv, DdaRest, ErrorsSeen
  <2> QED
    BY <2>1, <2>2
<1>4. Started'
  <2>1. to # "start" /\ from # "start"
    BY DEF Checked
  <2>2. \A h \in Gpu : wpc'[h][0] = "start" <=> wpc[h][0] = "start"
    BY <2>1, Constants DEF Steps
  <2>3. \A h \in Gpu : err[h] = 0 =>
          wseq[h][0] <= ctrlGo + (IF wpc'[h][0] = "start" THEN 1 ELSE 0)
    BY <2>2 DEF DdaInv, DdaRest, Started
  <2>4. \A h \in Gpu, v \in Group :
          wpc'[h][v] \in {"compute", "barrier2"} => wseq[h][v] <= ctrlGo
    BY DEF DdaInv, DdaRest, Started, Steps
  <2>5. \A h \in Gpu, v \in Group : entered[h][v] <= 3 * ctrlGo + 1
    BY DEF DdaInv, DdaRest, Started
  <2> QED
    BY <1>1, <2>3, <2>4, <2>5 DEF Started
<1>5. FlagsMean'
  BY <1>1, StepsSignals, FlagsKept, GroupNumbers, Constants
<1>6. DoneMeans'
  <2>1. to \notin {"awaitConsumed", "report"}
    BY DEF Checked
  <2>2. wpc'[0][0] \in {"awaitConsumed", "report"} => wpc'[0][0] = wpc[0][0]
    BY <2>1, Constants DEF Steps
  <2>3. \A p \in Gpu : flag'[0][p] \in Nat /\ flag[0][p] <= flag'[0][p]
    BY <1>1, RankNumbers, Constants
  <2> QED
    BY <1>1, <2>2, <2>3, DoneKept
<1>7. HostInv'
  BY <1>1 DEF DdaInv, DdaRest, HostInv, Summed
<1> QED
  BY <1>2, <1>3, <1>4, <1>5, <1>6, <1>7

LEMMA SlicesKept ==
  ASSUME DdaInv, NEW g \in Gpu, NEW w \in Group, NEW from, NEW to,
         Steps(g, w, from, to), to # "barrier2",
         UNCHANGED <<barrierVars, hostVars, out, wseq>>
  PROVE  SlicesExact'
<1>1. UNCHANGED <<entered, op, out, wseq>>
  BY DEF barrierVars, hostVars
<1>2. \A h \in Gpu, v \in Group : wpc'[h][v] = "barrier2" => wpc[h][v] = "barrier2"
  BY DEF Steps
<1> QED
  BY <1>1, <1>2 DEF DdaInv, DdaRest, SlicesExact, Summed

(* A workgroup that passes the first barrier without an error follows its  *)
(* leader, which saw the host's word or rank 0's flag.                     *)
LEMMA Check1Inv ==
  ASSUME DdaInv, NEW g \in Gpu, NEW w \in Group, Check1(g, w)
  PROVE  DdaRest'
<1> DEFINE to == IF err[g] # 0 THEN "gone" ELSE "compute"
<1>1. /\ wpc[g][w] = "check1" /\ bpc[g][w] = "out" /\ GoOn(g, w, to)
      /\ UNCHANGED <<barrierVars, hostVars, out, ctrlDone, err, flag, wseq, hop>>
  BY DEF Check1, At
<1>2. \/ to = "compute" /\ err[g] = 0
      \/ to = "gone" /\ err[g] # 0
  OBVIOUS
<1> HIDE DEF to
<1>3. Steps(g, w, "check1", to)
  BY <1>1, GoOnSteps
<1>4. err[g] = 0 => wseq[g][w] <= ctrlGo
  <2> SUFFICES ASSUME err[g] = 0 PROVE wseq[g][w] <= ctrlGo
    OBVIOUS
  <2>1. ~gaveUp[g]
    BY DEF DdaInv, DdaRest, ErrorsSeen
  <2>2. left[g][w] <= entered[g][0]
    BY <2>1, RoundImpliesHolds, Constants DEF DdaInv, BarrierHolds
  <2>3. left[g][w] = 3 * wseq[g][w] - 2
    <3>1. /\ entered[g][w] = 3 * (wseq[g][w] - 1) + BarriersAt("check1")
          /\ left[g][w] = entered[g][w]
      BY <1>1 DEF DdaInv, DdaRest, Progress
    <3>2. BarriersAt("check1") = 1
      BY DEF BarriersAt
    <3> QED
      BY <3>1, <3>2, GroupNumbers
  <2>4. wseq[g][0] <= ctrlGo + (IF wpc[g][0] = "start" THEN 1 ELSE 0)
    BY DEF DdaInv, DdaRest, Started
  <2>5. CASE wpc[g][0] = "start"
    <3>1. entered[g][0] = 3 * (wseq[g][0] - 1)
      <4>1. entered[g][0] = 3 * (wseq[g][0] - 1) + BarriersAt("start")
        BY <2>5, Constants DEF DdaInv, DdaRest, Progress
      <4>2. BarriersAt("start") = 0
        BY DEF BarriersAt
      <4> QED
        BY <4>1, <4>2, GroupNumbers, Constants
    <3>2. wseq[g][0] <= ctrlGo + 1
      BY <2>4, <2>5
    <3>3. /\ wseq[g][w] \in Nat /\ wseq[g][0] \in Nat /\ ctrlGo \in Nat
          /\ left[g][w] \in Nat /\ entered[g][0] \in Nat
      BY GroupNumbers, HostNumbers, Constants
    <3> QED
      BY <2>2, <2>3, <3>1, <3>2, <3>3
  <2>6. CASE wpc[g][0] # "start"
    <3>1. entered[g][0] <= 3 * wseq[g][0]
      <4>1. CASE wpc[g][0] = "gone"
        <5>1. entered[g][0] \in {3 * wseq[g][0] - 2, 3 * wseq[g][0]}
          BY <4>1, Constants DEF DdaInv, DdaRest, Progress
        <5> QED
          BY <5>1, GroupNumbers, Constants
      <4>2. CASE wpc[g][0] # "gone"
        <5>1. entered[g][0] = 3 * (wseq[g][0] - 1) + BarriersAt(wpc[g][0])
          BY <4>2, Constants DEF DdaInv, DdaRest, Progress
        <5>2. BarriersAt(wpc[g][0]) \in {0, 1, 2, 3}
          BY DEF BarriersAt
        <5> QED
          BY <5>1, <5>2, GroupNumbers, Constants
      <4> QED
        BY <4>1, <4>2
    <3>2. wseq[g][0] <= ctrlGo
      BY <2>4, <2>6, HostNumbers
    <3>3. /\ wseq[g][w] \in Nat /\ wseq[g][0] \in Nat /\ ctrlGo \in Nat
          /\ left[g][w] \in Nat /\ entered[g][0] \in Nat
      BY GroupNumbers, HostNumbers, Constants
    <3> QED
      BY <2>2, <2>3, <3>1, <3>2, <3>3
  <2> QED
    BY <2>5, <2>6
<1>5. /\ BarriersAt("compute") = BarriersAt("check1")
      /\ SignalsLeft(to) <= SignalsLeft("check1")
  BY <1>2 DEF BarriersAt, SignalsLeft
<1>6. /\ Progress' /\ ErrorsSeen' /\ Started' /\ FlagsMean' /\ DoneMeans'
      /\ HostInv'
  <2>1. "check1" \in Checked
    BY DEF Checked
  <2> QED
    BY <1>1, <1>2, <1>3, <1>4, <1>5, <2>1, GroupFrame
<1>7. SlicesExact'
  <2>1. to # "barrier2"
    BY <1>2
  <2> QED
    BY <1>1, <1>3, <2>1, SlicesKept
<1> QED
  BY <1>6, <1>7 DEF DdaRest

LEMMA After2Inv ==
  ASSUME DdaInv, NEW g \in Gpu, NEW w \in Group, After2(g, w)
  PROVE  DdaRest'
<1> DEFINE to == IF w = 0 THEN "consumed" ELSE "barrier3"
<1>1. /\ wpc[g][w] = "after2" /\ bpc[g][w] = "out" /\ GoOn(g, w, to)
      /\ UNCHANGED <<barrierVars, hostVars, out, ctrlDone, err, flag, wseq, hop>>
  BY DEF After2, At
<1>2. to \in {"consumed", "barrier3"}
  OBVIOUS
<1> HIDE DEF to
<1>3. Steps(g, w, "after2", to)
  BY <1>1, GoOnSteps
<1>4. w = 0 => err[g] = 0
  BY <1>1 DEF DdaInv, DdaRest, ErrorsSeen
<1>5. /\ BarriersAt(to) = BarriersAt("after2")
      /\ SignalsLeft(to) <= SignalsLeft("after2")
  BY <1>2 DEF BarriersAt, SignalsLeft
<1>6. /\ Progress' /\ ErrorsSeen' /\ Started' /\ FlagsMean' /\ DoneMeans'
      /\ HostInv'
  <2>1. "after2" \in Checked /\ to # "compute" /\ to # "barrier2"
    BY <1>2 DEF Checked
  <2> QED
    BY <1>1, <1>2, <1>3, <1>4, <1>5, <2>1, GroupFrame
<1>7. SlicesExact'
  <2>1. to # "barrier2"
    BY <1>2
  <2> QED
    BY <1>1, <1>3, <2>1, SlicesKept
<1> QED
  BY <1>6, <1>7 DEF DdaRest

(* A workgroup that sums does so for the host's operation, whose inputs    *)
(* are all written.                                                        *)
LEMMA SumsThisOperation ==
  ASSUME DdaInv, NEW g \in Gpu, NEW w \in Group, wpc[g][w] = "compute"
  PROVE  /\ hpc \notin {"write", "go"}
         /\ wseq[g][w] = op
<1>1. entered[g][w] = 3 * wseq[g][w] - 2
  <2>1. entered[g][w] = 3 * (wseq[g][w] - 1) + BarriersAt("compute")
    BY DEF DdaInv, DdaRest, Progress
  <2>2. BarriersAt("compute") = 1
    BY DEF BarriersAt
  <2> QED
    BY <2>1, <2>2, GroupNumbers
<1>2. entered[g][w] >= 3 * (op - 1) - 1
  BY DEF DdaInv, DdaRest, HostInv, Summed
<1>3. wseq[g][w] <= ctrlGo
  BY DEF DdaInv, DdaRest, Started
<1>4. ctrlGo = IF hpc \in {"write", "go"} THEN op - 1 ELSE op
  BY DEF DdaInv, DdaRest, HostInv
<1>5. wseq[g][w] >= op
  BY <1>1, <1>2, GroupNumbers, HostNumbers
<1> QED
  BY <1>3, <1>4, <1>5, GroupNumbers, HostNumbers

LEMMA ComputeInv ==
  ASSUME DdaInv, NEW g \in Gpu, NEW w \in Group, Compute(g, w)
  PROVE  DdaRest'
<1>1. /\ wpc[g][w] = "compute" /\ bpc[g][w] = "out" /\ GoOn(g, w, "barrier2")
      /\ out' = [out EXCEPT ![g][w] = SumOf(input)]
      /\ UNCHANGED <<barrierVars, hostVars, ctrlDone, err, flag, wseq, hop>>
  BY DEF Compute, At
<1>2. Steps(g, w, "compute", "barrier2")
  BY <1>1, GoOnSteps
<1>3. wseq[g][w] <= ctrlGo /\ (w = 0 => err[g] = 0)
  BY <1>1 DEF DdaInv, DdaRest, Started, ErrorsSeen
<1>4. /\ BarriersAt("barrier2") = BarriersAt("compute")
      /\ SignalsLeft("barrier2") <= SignalsLeft("compute")
      /\ "compute" \in Checked
  BY DEF BarriersAt, SignalsLeft, Checked
<1>5. /\ Progress' /\ ErrorsSeen' /\ Started' /\ FlagsMean' /\ DoneMeans'
      /\ HostInv'
  BY <1>1, <1>2, <1>3, <1>4, GroupFrame
<1>6. SlicesExact'
  <2>1. SumOf(input) = {<<p, op>> : p \in Gpu}
    <3>1. \A p \in Gpu : input[p] = op
      BY <1>1, SumsThisOperation DEF DdaInv, DdaRest, HostInv
    <3> QED
      BY <3>1 DEF SumOf
  <2>2. UNCHANGED <<entered, op, wseq>>
    BY <1>1 DEF barrierVars, hostVars
  <2>3. out' = [out EXCEPT ![g][w] = {<<p, op>> : p \in Gpu}]
    BY <1>1, <2>1
  <2>4. out \in [Gpu -> [Group -> SUBSET (Gpu \X (0..TotalOps))]]
    BY DEF DdaInv, TypeOK
  <2> QED
    BY <1>2, <2>2, <2>3, <2>4 DEF DdaInv, DdaRest, SlicesExact, Summed, Steps
<1> QED
  BY <1>5, <1>6 DEF DdaRest

(* A workgroup goes on to the next operation.                              *)
LEMMA NextOpInv ==
  ASSUME DdaInv, NEW g \in Gpu, NEW w \in Group, Check3(g, w),
         err[g] = 0, wseq[g][w] # TotalOps
  PROVE  DdaRest'
<1>1. /\ wpc[g][w] = "check3" /\ bpc[g][w] = "out"
      /\ Steps(g, w, "check3", First(w))
      /\ wseq' = [wseq EXCEPT ![g][w] = @ + 1]
      /\ UNCHANGED <<barrierVars, hostVars, out, ctrlDone, err, flag, hop>>
  BY GoOnSteps DEF Check3, At
<1>2. First(w) = IF w = 0 THEN "start" ELSE "barrier1"
  BY DEF First
<1>3. /\ wseq'[g][w] = wseq[g][w] + 1
      /\ \A h \in Gpu, v \in Group : h # g \/ v # w => wseq'[h][v] = wseq[h][v]
  BY <1>1 DEF DdaInv, TypeOK
<1>4. UNCHANGED <<entered, left, bpc, gaveUp, hpc, hrank, op, input, ctrlGo,
                  out, ctrlDone, err, flag, hop>>
  BY <1>1 DEF barrierVars, hostVars
<1>5. /\ wpc'[g][w] = First(w) /\ wpc[g][w] = "check3"
      /\ \A h \in Gpu, v \in Group : h # g \/ v # w => wpc'[h][v] = wpc[h][v]
  BY <1>1 DEF Steps
<1>6. entered[g][w] = 3 * wseq[g][w] /\ left[g][w] = entered[g][w]
  <2>1. /\ entered[g][w] = 3 * (wseq[g][w] - 1) + BarriersAt("check3")
        /\ left[g][w] = entered[g][w]
    BY <1>1 DEF DdaInv, DdaRest, Progress
  <2>2. BarriersAt("check3") = 3
    BY DEF BarriersAt
  <2> QED
    BY <2>1, <2>2, GroupNumbers
<1>7. Progress'
  <2> SUFFICES ASSUME NEW h \in Gpu, NEW v \in Group
               PROVE  /\ wpc'[h][v] # "gone" =>
                           entered[h][v] = 3 * (wseq'[h][v] - 1) + BarriersAt(wpc'[h][v])
                      /\ wpc'[h][v] = "gone" =>
                           /\ entered[h][v] \in {3 * wseq'[h][v] - 2, 3 * wseq'[h][v]}
                           /\ err[h] = 0 => entered[h][v] = 3 * TotalOps
                           /\ bpc[h][v] = "out"
                      /\ left[h][v] = IF bpc[h][v] = "out" THEN entered[h][v]
                                      ELSE entered[h][v] - 1
    BY <1>4 DEF Progress
  <2>1. CASE h = g /\ v = w
    <3>1. wpc'[h][v] = First(w) /\ First(w) # "gone" /\ BarriersAt(First(w)) = 0
      BY <1>2, <1>5, <2>1 DEF BarriersAt
    <3>2. entered[h][v] = 3 * (wseq'[h][v] - 1)
      BY <1>3, <1>6, <2>1, GroupNumbers
    <3>3. entered[h][v] = 3 * (wseq'[h][v] - 1) + 0
      BY <3>2, GroupNumbers
    <3>4. left[h][v] = entered[h][v] /\ bpc[h][v] = "out"
      BY <1>1, <1>6, <2>1
    <3> QED
      BY <3>1, <3>3, <3>4
  <2>2. CASE ~(h = g /\ v = w)
    <3>1. wpc'[h][v] = wpc[h][v] /\ wseq'[h][v] = wseq[h][v]
      BY <1>3, <1>5, <2>2
    <3> QED
      BY <3>1 DEF DdaInv, DdaRest, Progress
  <2> QED
    BY <2>1, <2>2
<1>8. ErrorsSeen'
  <2> SUFFICES ASSUME NEW h \in Gpu,
                      wpc'[h][0] \in {"start", "ready", "compute", "barrier2",
                                     "after2", "consumed"}
               PROVE  err[h] = 0
    BY <1>4 DEF DdaInv, DdaRest, ErrorsSeen
  <2>1. CASE h = g
    BY <2>1
  <2>2. CASE h # g
    <3>1. wpc'[h][0] = wpc[h][0]
      BY <1>5, <2>2, Constants
    <3> QED
      BY <3>1 DEF DdaInv, DdaRest, ErrorsSeen
  <2> QED
    BY <2>1, <2>2
<1>9. Started'
  <2>1. ASSUME NEW h \in Gpu, err[h] = 0
        PROVE  wseq'[h][0] <= ctrlGo + (IF wpc'[h][0] = "start" THEN 1 ELSE 0)
    <3>1. wseq[h][0] <= ctrlGo + (IF wpc[h][0] = "start" THEN 1 ELSE 0)
      BY <2>1 DEF DdaInv, DdaRest, Started
    <3>2. CASE h = g /\ w = 0
      <4>1. wpc[h][0] # "start" /\ wpc'[h][0] = "start"
        BY <1>2, <1>5, <3>2
      <4>2. wseq[h][0] <= ctrlGo
        BY <3>1, <4>1, HostNumbers
      <4>3. wseq'[h][0] = wseq[h][0] + 1
        BY <1>3, <3>2
      <4>4. wseq[h][0] \in Nat /\ ctrlGo \in Nat
        BY GroupNumbers, HostNumbers, Constants
      <4>5. wseq'[h][0] <= ctrlGo + 1
        BY <4>2, <4>3, <4>4
      <4> QED
        BY <4>1, <4>5
    <3>3. CASE ~(h = g /\ w = 0)
      <4>1. wpc'[h][0] = wpc[h][0] /\ wseq'[h][0] = wseq[h][0]
        BY <1>3, <1>5, <3>3, Constants
      <4> QED
        BY <3>1, <4>1
    <3> QED
      BY <3>2, <3>3
  <2>2. ASSUME NEW h \in Gpu, NEW v \in Group, wpc'[h][v] \in {"compute", "barrier2"}
        PROVE  wseq'[h][v] <= ctrlGo
    <3>1. h # g \/ v # w
      BY <1>2, <1>5, <2>2
    <3>2. wpc'[h][v] = wpc[h][v] /\ wseq'[h][v] = wseq[h][v]
      BY <1>3, <1>5, <3>1
    <3> QED
      BY <2>2, <3>2 DEF DdaInv, DdaRest, Started
  <2>3. \A h \in Gpu, v \in Group : entered[h][v] <= 3 * ctrlGo + 1
    BY DEF DdaInv, DdaRest, Started
  <2> QED
    BY <1>4, <2>1, <2>2, <2>3 DEF Started
<1>10. FlagsMean'
  <2>1. ASSUME NEW q \in Gpu, NEW p \in Gpu
        PROVE  flag[q][p] <= 2 * wseq'[p][0] - SignalsLeft(wpc'[p][0])
    <3>1. flag[q][p] <= 2 * wseq[p][0] - SignalsLeft(wpc[p][0])
      BY DEF DdaInv, DdaRest, FlagsMean
    <3>2. CASE p = g /\ w = 0
      <4>1. SignalsLeft(wpc[p][0]) = 0 /\ SignalsLeft(wpc'[p][0]) = 2
        BY <1>2, <1>5, <3>2 DEF SignalsLeft
      <4>2. wseq'[p][0] = wseq[p][0] + 1
        BY <1>3, <3>2
      <4>3. flag[q][p] \in Nat /\ wseq[p][0] \in Nat
        BY RankNumbers, GroupNumbers, Constants
      <4> QED
        BY <3>1, <4>1, <4>2, <4>3
    <3>3. CASE ~(p = g /\ w = 0)
      <4>1. wpc'[p][0] = wpc[p][0] /\ wseq'[p][0] = wseq[p][0]
        BY <1>3, <1>5, <3>3, Constants
      <4> QED
        BY <3>1, <4>1
    <3> QED
      BY <3>2, <3>3
  <2>2. /\ \A q, p \in Gpu, s \in 1..TotalOps :
             flag[q][p] >= 2 * s => left[p][0] >= 3 * s - 1
        /\ \A q \in Gpu : flag[q][0] <= 2 * ctrlGo
    BY DEF DdaInv, DdaRest, FlagsMean
  <2> QED
    BY <1>4, <2>1, <2>2 DEF FlagsMean
<1>11. DoneMeans'
  <2>1. \A p \in Gpu : flag[0][p] >= 2 * ctrlDone
    BY DEF DdaInv, DdaRest, DoneMeans
  <2>2. wpc'[0][0] \in {"awaitConsumed", "report"} =>
          wpc'[0][0] = wpc[0][0] /\ wseq'[0][0] = wseq[0][0]
    BY <1>2, <1>3, <1>5, Constants
  <2> QED
    BY <1>4, <2>1, <2>2 DEF DdaInv, DdaRest, DoneMeans
<1>12. HostInv'
  BY <1>4 DEF DdaInv, DdaRest, HostInv, Summed
<1>13. SlicesExact'
  <2>1. ASSUME NEW h \in Gpu, NEW v \in Group, wpc'[h][v] = "barrier2"
        PROVE  wpc[h][v] = "barrier2" /\ wseq'[h][v] = wseq[h][v]
    BY <1>2, <1>3, <1>5, <2>1
  <2> QED
    BY <1>4, <2>1 DEF DdaInv, DdaRest, SlicesExact, Summed
<1> QED
  BY <1>7, <1>8, <1>9, <1>10, <1>11, <1>12, <1>13 DEF DdaRest

LEMMA Check3Inv ==
  ASSUME DdaInv, NEW g \in Gpu, NEW w \in Group, Check3(g, w)
  PROVE  DdaRest'
<1>1. CASE err[g] # 0 \/ wseq[g][w] = TotalOps
  <2>1. /\ wpc[g][w] = "check3" /\ bpc[g][w] = "out"
        /\ Steps(g, w, "check3", "gone")
        /\ UNCHANGED <<barrierVars, hostVars, out, ctrlDone, err, flag, wseq, hop>>
    BY <1>1, GoOnSteps DEF Check3, At
  <2>2. "check3" \in Checked /\ SignalsLeft("gone") <= SignalsLeft("check3")
    BY DEF Checked, SignalsLeft
  <2>3. /\ Progress' /\ ErrorsSeen' /\ Started' /\ FlagsMean' /\ DoneMeans'
        /\ HostInv'
    BY <1>1, <2>1, <2>2, GroupFrame
  <2>4. SlicesExact'
    BY <2>1, SlicesKept
  <2> QED
    BY <2>3, <2>4 DEF DdaRest
<1>2. CASE ~(err[g] # 0 \/ wseq[g][w] = TotalOps)
  BY <1>2, NextOpInv
<1> QED
  BY <1>1, <1>2

(* A workgroup comes to a barrier.                                         *)
LEMMA EnterBarrierInv ==
  ASSUME DdaInv, NEW g \in Gpu, NEW w \in Group, EnterBarrier(g, w)
  PROVE  DdaRest'
<1>1. PICK from, to :
        /\ \/ from = "barrier1" /\ to = "check1"
           \/ from = "barrier2" /\ to = "after2"
           \/ from = "barrier3" /\ to = "check3"
        /\ wpc[g][w] = from /\ GoOn(g, w, to)
  <2>1. PICK k \in {<<"barrier1", "check1">>, <<"barrier2", "after2">>,
                    <<"barrier3", "check3">>} :
          wpc[g][w] = k[1] /\ GoOn(g, w, k[2])
    BY DEF EnterBarrier
  <2> QED
    BY <2>1
<1>2. /\ \/ from = "barrier1" /\ to = "check1"
         \/ from = "barrier2" /\ to = "after2"
         \/ from = "barrier3" /\ to = "check3"
      /\ Steps(g, w, from, to)
  BY <1>1, GoOnSteps
<1>3. /\ bpc[g][w] = "out" /\ Enter(g, w)
      /\ UNCHANGED <<hostVars, out, ctrlDone, err, flag, wseq, hop>>
  BY DEF EnterBarrier
<1>4. entered' = [entered EXCEPT ![g][w] = @ + 1] /\ gaveUp' = gaveUp
  BY <1>3 DEF Enter
<1>5. Advances(g, w)
  <2>1. CASE NumWg = 1
    BY <1>3, <2>1, LeaveAdvances DEF Enter, DdaInv, BarrierInv
  <2>2. CASE NumWg # 1
    BY <1>3, <2>2, GotoAdvances DEF Enter, DdaInv, BarrierInv
  <2> QED
    BY <2>1, <2>2
<1>6. /\ entered'[g][w] = entered[g][w] + 1
      /\ \A h \in Gpu, v \in Group : h # g \/ v # w => entered'[h][v] = entered[h][v]
  BY <1>4 DEF DdaInv, BarrierInv, BarrierTypes
<1>7. UNCHANGED <<hpc, hrank, op, input, ctrlGo, out, ctrlDone, err, flag, wseq,
                  hop, gaveUp>>
  BY <1>3, <1>4 DEF hostVars
<1>8. /\ wpc'[g][w] = to /\ wpc[g][w] = from
      /\ \A h \in Gpu, v \in Group : h # g \/ v # w => wpc'[h][v] = wpc[h][v]
  BY <1>2 DEF Steps
<1>9. /\ entered[g][w] = 3 * (wseq[g][w] - 1) + BarriersAt(from)
      /\ left[g][w] = entered[g][w]
      /\ BarriersAt(to) = BarriersAt(from) + 1 /\ BarriersAt(from) \in Nat
      /\ from # "gone" /\ to # "gone"
  <2>1. from # "gone" /\ to # "gone"
    BY <1>2
  <2>2. BarriersAt(to) = BarriersAt(from) + 1 /\ BarriersAt(from) \in Nat
    BY <1>2 DEF BarriersAt
  <2> QED
    BY <1>3, <1>8, <2>1, <2>2 DEF DdaInv, DdaRest, Progress
<1>10. \A h \in Gpu, v \in Group :
         entered'[h][v] \in Nat /\ entered[h][v] <= entered'[h][v]
  <2> SUFFICES ASSUME NEW h \in Gpu, NEW v \in Group
               PROVE  entered'[h][v] \in Nat /\ entered[h][v] <= entered'[h][v]
    OBVIOUS
  <2>1. entered'[h][v] = entered[h][v] \/ entered'[h][v] = entered[h][v] + 1
    BY <1>6
  <2> QED
    BY <2>1, GroupNumbers
<1>11. Progress'
  <2> SUFFICES ASSUME NEW h \in Gpu, NEW v \in Group
               PROVE  /\ wpc'[h][v] # "gone" =>
                           entered'[h][v] = 3 * (wseq[h][v] - 1) + BarriersAt(wpc'[h][v])
                      /\ wpc'[h][v] = "gone" =>
                           /\ entered'[h][v] \in {3 * wseq[h][v] - 2, 3 * wseq[h][v]}
                           /\ err[h] = 0 => entered'[h][v] = 3 * TotalOps
                           /\ bpc'[h][v] = "out"
                      /\ left'[h][v] = IF bpc'[h][v] = "out" THEN entered'[h][v]
                                       ELSE entered'[h][v] - 1
    BY <1>7 DEF Progress
  <2>1. CASE h = g /\ v = w
    <3>1. entered'[g][w] = 3 * (wseq[g][w] - 1) + BarriersAt(to)
      BY <1>6, <1>9, GroupNumbers
    <3>2. left'[g][w] = IF bpc'[g][w] = "out" THEN entered'[g][w]
                        ELSE entered'[g][w] - 1
      <4>1. entered[g][w] \in Nat
        BY GroupNumbers
      <4>2. CASE bpc'[g][w] = "out"
        BY <1>5, <1>6, <1>9, <4>1, <4>2 DEF Advances
      <4>3. CASE bpc'[g][w] # "out"
        <5>1. left'[g][w] = left[g][w]
          BY <1>5, <4>3 DEF Advances
        <5> QED
          BY <1>6, <1>9, <4>1, <4>3, <5>1
      <4> QED
        BY <4>2, <4>3
    <3> QED
      BY <1>8, <1>9, <2>1, <3>1, <3>2
  <2>2. CASE ~(h = g /\ v = w)
    <3>1. /\ wpc'[h][v] = wpc[h][v] /\ entered'[h][v] = entered[h][v]
          /\ bpc'[h][v] = bpc[h][v] /\ left'[h][v] = left[h][v]
      BY <1>5, <1>6, <1>8, <2>2 DEF Advances
    <3> QED
      BY <3>1 DEF DdaInv, DdaRest, Progress
  <2> QED
    BY <2>1, <2>2
<1>12. ErrorsSeen'
  <2> SUFFICES ASSUME NEW h \in Gpu,
                      wpc'[h][0] \in {"start", "ready", "compute", "barrier2",
                                     "after2", "consumed"}
               PROVE  err[h] = 0
    BY <1>7 DEF DdaInv, DdaRest, ErrorsSeen
  <2>1. CASE h = g /\ w = 0
    <3>1. wpc[g][0] = "barrier2"
      BY <1>2, <1>8, <2>1
    <3> QED
      BY <2>1, <3>1 DEF DdaInv, DdaRest, ErrorsSeen
  <2>2. CASE ~(h = g /\ w = 0)
    <3>1. wpc'[h][0] = wpc[h][0]
      BY <1>8, <2>2, Constants
    <3> QED
      BY <3>1 DEF DdaInv, DdaRest, ErrorsSeen
  <2> QED
    BY <2>1, <2>2
(* No rank goes ahead of the host: a workgroup that enters the first       *)
(* barrier enters 3 s - 2 at most, and the leader has started s.           *)
<1>13. entered'[g][w] <= 3 * ctrlGo + 1
  <2>1. /\ entered[g][w] <= 3 * ctrlGo + 1 /\ entered[g][w] \in Nat
        /\ wseq[g][w] \in Nat /\ ctrlGo \in Nat
    BY GroupNumbers, HostNumbers DEF DdaInv, DdaRest, Started
  <2>2. CASE from = "barrier1"
    <3>1. BarriersAt(from) = 0
      BY <2>2 DEF BarriersAt
    <3> QED
      BY <1>6, <1>9, <2>1, <3>1
  <2>3. CASE from = "barrier2"
    <3>1. wseq[g][w] <= ctrlGo
      BY <1>8, <2>3 DEF DdaInv, DdaRest, Started
    <3>2. BarriersAt(from) = 1
      BY <2>3 DEF BarriersAt
    <3> QED
      BY <1>6, <1>9, <2>1, <3>1, <3>2
  <2>4. CASE from = "barrier3"
    <3>1. BarriersAt(from) = 2
      BY <2>4 DEF BarriersAt
    <3> QED
      BY <1>6, <1>9, <2>1, <3>1
  <2> QED
    BY <1>2, <2>2, <2>3, <2>4
<1>14. Started'
  <2>1. from # "start" /\ to \notin {"start", "compute", "barrier2"}
    BY <1>2
  <2>2. \A h \in Gpu : wpc'[h][0] = "start" <=> wpc[h][0] = "start"
    BY <1>8, <2>1, Constants
  <2>3. \A h \in Gpu : err[h] = 0 =>
          wseq[h][0] <= ctrlGo + (IF wpc'[h][0] = "start" THEN 1 ELSE 0)
    BY <2>2 DEF DdaInv, DdaRest, Started
  <2>4. \A h \in Gpu, v \in Group :
          wpc'[h][v] \in {"compute", "barrier2"} => wseq[h][v] <= ctrlGo
    BY <1>8, <2>1 DEF DdaInv, DdaRest, Started
  <2>5. \A h \in Gpu, v \in Group : entered'[h][v] <= 3 * ctrlGo + 1
    BY <1>6, <1>13 DEF DdaInv, DdaRest, Started
  <2> QED
    BY <1>7, <2>3, <2>4, <2>5 DEF Started
<1>15. FlagsMean'
  <2>1. SignalsLeft(to) <= SignalsLeft(from)
    BY <1>2 DEF SignalsLeft
  <2> QED
    BY <1>2, <1>5, <1>7, <2>1, StepsSignals, AdvancesLeft, FlagsKept
<1>16. DoneMeans'
  <2>1. wpc'[0][0] \in {"awaitConsumed", "report"} => wpc'[0][0] = wpc[0][0]
    BY <1>2, <1>8, Constants
  <2>2. \A p \in Gpu : flag'[0][p] \in Nat /\ flag[0][p] <= flag'[0][p]
    BY <1>7, RankNumbers, Constants
  <2> QED
    BY <1>7, <2>1, <2>2, DoneKept
<1>17. \A h \in Gpu, v \in Group, s \in Int : Summed(h, v, s) => Summed(h, v, s)'
  <2> SUFFICES ASSUME NEW h \in Gpu, NEW v \in Group, NEW s \in Int,
                      entered[h][v] >= 3 * s - 1
               PROVE  entered'[h][v] >= 3 * s - 1
    BY DEF Summed
  <2> QED
    BY <1>10, GroupNumbers
<1>18. op \in Int /\ op - 1 \in Int /\ op' = op
  BY <1>7, HostNumbers
<1>19. HostInv'
  BY <1>7, <1>17, <1>18 DEF DdaInv, DdaRest, HostInv
<1>20. SlicesExact'
  <2> SUFFICES ASSUME NEW h \in Gpu, NEW v \in Group,
                      \/ wpc'[h][v] = "barrier2" /\ wseq[h][v] = op
                      \/ entered'[h][v] >= 3 * op - 1
               PROVE  \/ wpc[h][v] = "barrier2" /\ wseq[h][v] = op
                      \/ entered[h][v] >= 3 * op - 1
    BY <1>7 DEF DdaInv, DdaRest, SlicesExact, Summed
  <2>1. CASE ~(h = g /\ v = w)
    BY <1>6, <1>8, <2>1
  <2>2. CASE h = g /\ v = w
    <3>1. /\ entered[g][w] \in Nat /\ wseq[g][w] \in Nat /\ op \in Nat
          /\ ctrlGo \in Nat /\ ctrlGo <= op
      BY GroupNumbers, HostNumbers DEF DdaInv, DdaRest, HostInv
    <3>2. to # "barrier2"
      BY <1>2
    <3>3. entered[g][w] + 1 >= 3 * op - 1
      BY <1>6, <1>8, <2>2, <3>2
    <3>4. CASE from = "barrier2"
      <4>1. wseq[g][w] <= ctrlGo /\ BarriersAt(from) = 1
        BY <1>8, <3>4 DEF DdaInv, DdaRest, Started, BarriersAt
      <4>2. wseq[g][w] = op
        BY <1>9, <3>1, <3>3, <4>1
      <4> QED
        BY <1>8, <2>2, <3>4, <4>2
    <3>5. CASE from = "barrier1"
      <4>1. BarriersAt(from) = 0
        BY <3>5 DEF BarriersAt
      <4>2. entered[g][w] >= 3 * op - 1
        BY <1>9, <3>1, <3>3, <4>1
      <4> QED
        BY <2>2, <4>2
    <3>6. CASE from = "barrier3"
      <4>1. BarriersAt(from) = 2
        BY <3>6 DEF BarriersAt
      <4>2. entered[g][w] >= 3 * op - 1
        BY <1>9, <3>1, <3>3, <4>1
      <4> QED
        BY <2>2, <4>2
    <3> QED
      BY <1>2, <3>4, <3>5, <3>6
  <2> QED
    BY <2>1, <2>2
<1> QED
  BY <1>11, <1>12, <1>14, <1>15, <1>16, <1>19, <1>20 DEF DdaRest
-----------------------------------------------------------------------------
(* The invariant, and what follows from it.                                *)

LEMMA DdaInit == Init => DdaInv
<1> SUFFICES ASSUME Init PROVE DdaInv
  OBVIOUS
<1>1. BarrierInit
  BY DEF Init
<1>2. /\ hpc = "write" /\ hrank = 0 /\ op = 1
      /\ input = [g \in Gpu |-> 0]
      /\ out = [g \in Gpu |-> Nothing]
      /\ ctrlGo = 0 /\ ctrlDone = 0
      /\ err = [g \in Gpu |-> 0]
      /\ flag = [g \in Gpu |-> [p \in Gpu |-> 0]]
      /\ wpc = [g \in Gpu |-> [w \in Group |-> First(w)]]
      /\ wseq = [g \in Gpu |-> [w \in Group |-> 1]]
      /\ hop = [g \in Gpu |-> 0]
  BY DEF Init
<1>3. TypeOK
  <2>1. \A w \in Group : First(w) \in Places
    BY DEF First, Places
  <2>2. Nothing \in [Group -> SUBSET (Gpu \X (0..TotalOps))]
    BY DEF Nothing
  <2>3. 1 \in 1..TotalOps /\ 0 \in 0..TotalOps /\ 0 \in 0..(2 * TotalOps) /\ 0 \in 0..4
    BY Constants
  <2>4. hrank \in Gpu /\ hop \in [Gpu -> Gpu]
    BY <1>2, Constants
  <2>5. wpc \in [Gpu -> [Group -> Places]]
    BY <1>2, <2>1
  <2>6. out \in [Gpu -> [Group -> SUBSET (Gpu \X (0..TotalOps))]]
    BY <1>2, <2>2
  <2> QED
    BY <1>2, <2>3, <2>4, <2>5, <2>6 DEF TypeOK
<1>4. \A g \in Gpu, w \in Group :
        /\ entered[g][w] = 0 /\ left[g][w] = 0 /\ bpc[g][w] = "out"
        /\ wseq[g][w] = 1 /\ wpc[g][w] \in {"start", "barrier1"}
  BY <1>1, <1>2 DEF BarrierInit, First
<1>5. Progress
  <2>1. BarriersAt("start") = 0 /\ BarriersAt("barrier1") = 0
    BY DEF BarriersAt
  <2> SUFFICES ASSUME NEW g \in Gpu, NEW w \in Group
               PROVE  /\ wpc[g][w] # "gone" =>
                           entered[g][w] = 3 * (wseq[g][w] - 1) + BarriersAt(wpc[g][w])
                      /\ wpc[g][w] # "gone"
                      /\ left[g][w] = IF bpc[g][w] = "out" THEN entered[g][w]
                                      ELSE entered[g][w] - 1
    BY DEF Progress
  <2>2. BarriersAt(wpc[g][w]) = 0 /\ wpc[g][w] # "gone"
    BY <1>4, <2>1
  <2> QED
    BY <1>4, <2>2
<1>6. ErrorsSeen
  BY <1>1, <1>2 DEF ErrorsSeen, BarrierInit
<1>7. \A g \in Gpu : wpc[g][0] = "start" /\ wseq[g][0] = 1
  BY <1>2, Constants DEF First
<1>8. Started
  <2>1. \A g \in Gpu : wseq[g][0] <= ctrlGo + (IF wpc[g][0] = "start" THEN 1 ELSE 0)
    BY <1>2, <1>7
  <2>2. \A g \in Gpu, w \in Group :
          /\ wpc[g][w] \notin {"compute", "barrier2"}
          /\ entered[g][w] <= 3 * ctrlGo + 1
    <3>1. ctrlGo = 0
      BY <1>2
    <3> QED
      BY <1>4, <3>1
  <2> QED
    BY <2>1, <2>2 DEF Started
<1>9. FlagsMean
  <2>1. SignalsLeft("start") = 2
    BY DEF SignalsLeft
  <2>2. \A q, p \in Gpu : flag[q][p] = 0
    BY <1>2
  <2> QED
    BY <1>2, <1>7, <2>1, <2>2, Constants DEF FlagsMean
<1>10. DoneMeans
  <2>1. \A p \in Gpu : flag[0][p] = 0
    BY <1>2, Constants
  <2>2. ctrlDone = 0
    BY <1>2
  <2>3. wpc[0][0] = "start"
    BY <1>7, Constants
  <2> QED
    BY <2>1, <2>2, <2>3 DEF DoneMeans
<1>11. HostInv
  <2>1. \A g \in Gpu : ~(g < hrank)
    BY <1>2, Constants
  <2>2. \A g \in Gpu, w \in Group : Summed(g, w, op - 1)
    BY <1>2, <1>4 DEF Summed
  <2> QED
    BY <1>2, <2>1, <2>2 DEF HostInv
<1>12. SlicesExact
  <2>1. op = 1
    BY <1>2
  <2>2. \A g \in Gpu, w \in Group : wpc[g][w] # "barrier2" /\ ~Summed(g, w, op)
    BY <1>4, <2>1 DEF Summed
  <2> QED
    BY <2>2 DEF SlicesExact
<1> QED
  BY <1>1, <1>3, <1>5, <1>6, <1>8, <1>9, <1>10, <1>11, <1>12, BarrierInit_Inv
     DEF DdaInv, DdaRest

LEMMA DdaStutters == DdaInv /\ UNCHANGED vars => DdaRest'
<1> SUFFICES ASSUME DdaInv, UNCHANGED vars PROVE DdaRest'
  OBVIOUS
<1>1. UNCHANGED <<barrierVars, hrank, op, input, ctrlGo, kernelVars>>
  BY DEF vars, hostVars
<1>2. HostInv'
  BY DEF vars, hostVars, kernelVars, barrierVars, DdaInv, DdaRest, HostInv, Summed
<1> QED
  BY <1>1, <1>2, HostReads DEF DdaRest

LEMMA DdaStep == DdaInv /\ [Next]_vars => DdaInv'
<1> SUFFICES ASSUME DdaInv, [Next]_vars PROVE DdaInv'
  OBVIOUS
<1>1. TypeOK'
  BY TypeOKStep DEF DdaInv
<1>2. BarrierInv'
  BY StepIsBarrierStep, BarrierStep DEF DdaInv
<1>3. DdaRest'
  <2>1. CASE UNCHANGED vars
    BY <2>1, DdaStutters
  <2>2. CASE HostStep \/ HostTimesOut
    BY <2>2, HostWriteInv, HostGoInv, HostPollEndsInv, HostCheckInv, HostNextInv,
       HostEndsInv DEF HostStep
  <2>3. ASSUME NEW g \in Gpu, LeaderStep(g) \/ Watchdog(g)
        PROVE  DdaRest'
    BY <2>3, StartInv, StartTripsInv, SignalInv, AwaitReadyInv, AwaitConsumedInv,
       ReportInv DEF LeaderStep, Watchdog
  <2>4. ASSUME NEW g \in Gpu, NEW w \in Group, GroupStep(g, w)
        PROVE  DdaRest'
    BY <2>4, EnterBarrierInv, InBarrierInv, BarrierGivesUpInv, Check1Inv,
       ComputeInv, After2Inv, Check3Inv DEF GroupStep
  <2> QED
    BY <2>1, <2>2, <2>3, <2>4 DEF Next
<1> QED
  BY <1>1, <1>2, <1>3 DEF DdaInv

THEOREM Invariant == Spec => []DdaInv
BY DdaInit, DdaStep, PTL DEF Spec

(* The variables keep their types.                                         *)
THEOREM TypeCorrect == Spec => []TypeOK
<1>1. DdaInv => TypeOK
  BY DEF DdaInv
<1> QED
  BY <1>1, Invariant, PTL

(* benchmark_persistent_dda_peer_flat accepts an operation only when every *)
(* slice of every rank holds the sum of all inputs of that operation.      *)
THEOREM AcceptedIsExact == Spec => []OutExact
<1>1. DdaInv => OutExact
  BY DEF DdaInv, DdaRest, HostInv, SlicesExact, OutExact
<1> QED
  BY <1>1, Invariant, PTL

(* The host writes no input of the next operation while a workgroup of any *)
(* rank is summing.                                                        *)
THEOREM InputsAreStable == Spec => []InputsStable
<1>1. DdaInv => InputsStable
  BY SumsThisOperation DEF InputsStable
<1> QED
  BY <1>1, Invariant, PTL
=============================================================================
