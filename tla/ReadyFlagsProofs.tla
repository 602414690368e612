-------------------------- MODULE ReadyFlagsProofs --------------------------
(***************************************************************************)
(* Proofs about the all-reduce that waits for ready flags, for every number *)
(* of ranks, workgroups and operations: type correctness, and that an       *)
(* operation that returns Ok has summed every input of its own exactly once.*)
(***************************************************************************)
EXTENDS ReadyFlags, FiniteSetTheorems, TLAPS

Inputs == (Rank \cup {NoRank}) \X (0..MaxOps)

Types ==
  /\ hpc \in {"idle", "wait", "check", "ok", "failed"}
  /\ op \in 0..MaxOps /\ terminal \in BOOLEAN /\ bad \in Rank \cup {NoRank}
  /\ ppc \in [Rank -> [Group -> {"none", "compute", "count", "publish", "done"}]]
  /\ count \in [Rank -> 0..(CountWidth - 1)]
  /\ flag \in [Rank -> {0, 1}] /\ error \in {0, 1}
  /\ rpc \in [Group -> {"none", "poll", "trip", "read", "sum", "done"}]
  /\ bpc \in [Group -> {"none", "copy", "done"}]
  /\ buf \in [Rank -> [Group -> SUBSET Inputs]]

(* The workgroups of a producer that its counter has counted.              *)
Counted(p) == {w \in Group : ppc[p][w] \in {"publish", "done"}}
Written(p) == \A w \in Group : ppc[p][w] \notin {"none", "compute"}

(* A poisoned counter starts one short of wrapping to zero, and so stays   *)
(* one behind.                                                             *)
CountExact ==
  \A p \in Rank :
    /\ terminal =>
         count[p] = IF p # bad THEN Cardinality(Counted(p))
                    ELSE IF Counted(p) = {} THEN CountWidth - 1
                    ELSE Cardinality(Counted(p)) - 1
    /\ ~terminal =>
         /\ p # bad => count[p] = 0
         /\ \A w \in Group : ppc[p][w] \notin {"count", "publish"}

(* A flag is set, and a workgroup is about to set it, only when the whole  *)
(* input is written, and never for a poisoned counter.                     *)
FlagMeansWritten ==
  /\ \A p \in Rank :
       flag[p] = 1 => Written(p) /\ (terminal => p # bad)
  /\ \A p \in Rank, w \in Group :
       ppc[p][w] = "publish" => Written(p) /\ (terminal => p # bad)

(* Without an error nobody has passed the flags before they were all set.  *)
PassedReady ==
  \A w \in Group :
    \/ rpc[w] = "sum"
    \/ rpc[w] \in {"read", "done"} /\ error = 0
    => Ready

Sums == {<<q, op>> : q \in Rank}

(* What the slices hold: the producer's input until it is overwritten, the *)
(* sum on rank 0 after the reduce, and on every rank after the broadcast.  *)
InputInPlace ==
  \A p \in Rank, w \in Group :
    ppc[p][w] \notin {"none", "compute"} /\ ~(p = 0 /\ rpc[w] = "done")
      /\ bpc[w] # "done"
    => buf[p][w] = {<<p, op>>}
SumInPlace ==
  error = 0 => \A w \in Group :
    /\ rpc[w] = "done" => buf[0][w] = Sums
    /\ bpc[w] = "done" => \A p \in Rank : buf[p][w] = Sums

(* The order of the queue and of the host.                                 *)
InOrder ==
  /\ \A v, w \in Group : bpc[v] = "done" => rpc[w] = "done"
  /\ hpc \in {"check", "ok", "failed"} => \A w \in Group : bpc[w] = "done"
  /\ hpc = "ok" => error = 0

Inv ==
  /\ Types /\ CountExact /\ FlagMeansWritten /\ PassedReady
  /\ InputInPlace /\ SumInPlace /\ InOrder
-----------------------------------------------------------------------------
LEMMA Constants ==
  /\ 0 \in Rank /\ Rank # {} /\ NoRank \notin Rank
  /\ Group # {} /\ IsFiniteSet(Group) /\ Cardinality(Group) = NumWg
  /\ NumWg \in Nat /\ NumWg >= 1
  /\ CountWidth \in Nat /\ NumWg <= CountWidth - 1
<1>1. /\ Parts \in Nat /\ Parts >= 2 /\ NumWg \in Nat \ {0}
      /\ CountWidth \in Nat /\ CountWidth > NumWg
  BY ReadyFlagsAssumption
<1>2. 0 \in Rank /\ NoRank \notin Rank /\ 0 \in Group
  BY <1>1 DEF Rank, NoRank, Group
<1>3. /\ IsFiniteSet(Group) /\ Cardinality(Group) = NumWg
  <2>1. /\ IsFiniteSet(0..(NumWg - 1))
        /\ Cardinality(0..(NumWg - 1)) =
             IF 0 > NumWg - 1 THEN 0 ELSE (NumWg - 1) - 0 + 1
    BY <1>1, FS_Interval
  <2> QED
    BY <1>1, <2>1 DEF Group
<1> QED
  BY <1>1, <1>2, <1>3

LEMMA CountedFinite ==
  ASSUME NEW p \in Rank
  PROVE  /\ IsFiniteSet(Counted(p)) /\ Cardinality(Counted(p)) \in Nat
         /\ Cardinality(Counted(p)) <= NumWg
         /\ Cardinality(Counted(p)) = NumWg => Counted(p) = Group
<1>1. Counted(p) \subseteq Group
  BY DEF Counted
<1> QED
  BY <1>1, Constants, FS_Subset, FS_CardinalityType

LEMMA InvImpliesTypeOK == Inv => TypeOK
<1> SUFFICES ASSUME Inv PROVE TypeOK
  OBVIOUS
<1>1. \A p \in Rank : count[p] <= NumWg \/ p = bad
  <2> SUFFICES ASSUME NEW p \in Rank, p # bad PROVE count[p] <= NumWg
    OBVIOUS
  <2>1. CASE terminal
    BY <2>1, CountedFinite DEF Inv, CountExact
  <2>2. CASE ~terminal
    BY <2>2, Constants DEF Inv, CountExact
  <2> QED
    BY <2>1, <2>2
<1> QED
  BY <1>1 DEF Inv, Types, TypeOK, Inputs

LEMMA InvImpliesOkMeansExact == Inv => OkMeansExact
<1> SUFFICES ASSUME Inv, hpc = "ok"
             PROVE  /\ \A p \in Rank, w \in Group : buf[p][w] = Sums
                    /\ terminal => bad = NoRank
  BY DEF OkMeansExact, Sums
<1>1. error = 0 /\ \A w \in Group : bpc[w] = "done" /\ rpc[w] = "done"
  BY Constants DEF Inv, InOrder
<1>2. \A p \in Rank, w \in Group : buf[p][w] = Sums
  BY <1>1 DEF Inv, SumInPlace
<1>3. Ready
  BY <1>1, Constants DEF Inv, PassedReady
<1>4. terminal => bad \notin Rank
  BY <1>3 DEF Inv, FlagMeansWritten, Ready
<1> QED
  BY <1>2, <1>4 DEF Inv, Types

LEMMA Init_Inv == Init => Inv
<1> SUFFICES ASSUME Init PROVE Inv
  OBVIOUS
<1>1. Types
  BY ReadyFlagsAssumption, Constants DEF Init, Types, All
<1>2. \A p \in Rank, w \in Group : ppc[p][w] = "none"
  BY DEF Init, All
<1>3. \A w \in Group : rpc[w] = "none" /\ bpc[w] = "none"
  BY DEF Init, All
<1>4. CountExact
  <2>1. \A p \in Rank : Counted(p) = {}
    BY <1>2 DEF Counted
  <2> QED
    BY <2>1, FS_EmptySet, Constants DEF Init, CountExact
<1>5. FlagMeansWritten /\ PassedReady /\ InputInPlace /\ SumInPlace /\ InOrder
  BY <1>2, <1>3 DEF Init, FlagMeansWritten, PassedReady, InputInPlace,
     SumInPlace, InOrder
<1> QED
  BY <1>1, <1>4, <1>5 DEF Inv
-----------------------------------------------------------------------------
(* Types.                                                                  *)

LEMMA CountTypes ==
  ASSUME Types, NEW p \in Rank, NEW w \in Group, Count(p, w)
  PROVE  Types'
<1> DEFINE new == (count[p] + 1) % CountWidth
<1> DEFINE to == IF new = NumWg THEN "publish" ELSE "done"
<1>1. /\ count' = [count EXCEPT ![p] = new]
      /\ ppc' = [ppc EXCEPT ![p][w] = to]
      /\ UNCHANGED <<hostVars, flag, error, rpc, bpc, buf>>
  BY DEF Count, Produce
<1>2. new \in 0..(CountWidth - 1)
  <2>1. count[p] \in Nat /\ CountWidth \in Nat \ {0}
    BY ReadyFlagsAssumption DEF Types
  <2> QED
    BY <2>1
<1>3. to \in {"publish", "done"}
  OBVIOUS
<1> HIDE DEF new, to
<1>4. count' \in [Rank -> 0..(CountWidth - 1)]
  BY <1>1, <1>2 DEF Types
<1>5. ppc' \in [Rank -> [Group -> {"none", "compute", "count", "publish", "done"}]]
  BY <1>1, <1>3 DEF Types
<1> QED
  BY <1>1, <1>4, <1>5 DEF Types, hostVars

LEMMA TotalType ==
  ASSUME Types, NEW w \in Group
  PROVE  Total(w) \in SUBSET Inputs
<1>1. Garbage \subseteq Inputs
  BY ReadyFlagsAssumption DEF Garbage, Inputs
<1>2. UNION {buf[p][w] : p \in Rank} \subseteq Inputs
  BY DEF Types
<1> QED
  BY <1>1, <1>2 DEF Total

LEMMA TypesStep == Types /\ [Next]_vars => Types'
<1> SUFFICES ASSUME Types, [Next]_vars PROVE Types'
  OBVIOUS
<1> USE DEF Types, hostVars, producerVars
<1>1. CASE UNCHANGED vars
  BY <1>1 DEF vars
<1>2. CASE Begin
  <2>1. op' \in 0..MaxOps /\ hpc' = "wait"
    BY <1>2, ReadyFlagsAssumption DEF Begin
  <2>2. terminal' \in BOOLEAN /\ bad' \in Rank \cup {NoRank}
    BY <1>2 DEF Begin
  <2>3. flag' \in [Rank -> {0, 1}] /\ error' \in {0, 1}
    BY <1>2 DEF Begin, FreshFlags
  <2>4. count' \in [Rank -> 0..(CountWidth - 1)]
    BY <1>2, ReadyFlagsAssumption DEF Begin, FreshCounts
  <2>5. /\ ppc' \in [Rank -> [Group -> {"none", "compute", "count", "publish", "done"}]]
        /\ rpc' \in [Group -> {"none", "poll", "trip", "read", "sum", "done"}]
        /\ bpc' \in [Group -> {"none", "copy", "done"}]
    BY <1>2 DEF Begin, All
  <2>6. buf' = buf
    BY <1>2 DEF Begin
  <2> QED
    BY <2>1, <2>2, <2>3, <2>4, <2>5, <2>6
<1>3. CASE WaitEnds
  BY <1>3 DEF WaitEnds
<1>4. CASE Check
  BY <1>4 DEF Check
<1>5. ASSUME NEW p \in Rank, PublishBehind(p) PROVE Types'
  BY <1>5 DEF PublishBehind
<1>6. ASSUME NEW p \in Rank, NEW w \in Group, Compute(p, w) PROVE Types'
  <2> DEFINE to == IF terminal THEN "count" ELSE "done"
  <2>1. /\ buf' = [buf EXCEPT ![p][w] = {<<p, op>>}]
        /\ ppc' = [ppc EXCEPT ![p][w] = to]
        /\ UNCHANGED <<hostVars, count, flag, error, rpc, bpc>>
    BY <1>6 DEF Compute, Produce
  <2>2. to \in {"count", "done"}
    OBVIOUS
  <2>3. {<<p, op>>} \in SUBSET Inputs
    BY DEF Inputs
  <2> HIDE DEF to
  <2>4. ppc' \in [Rank -> [Group -> {"none", "compute", "count", "publish", "done"}]]
    BY <2>1, <2>2
  <2>5. buf' \in [Rank -> [Group -> SUBSET Inputs]]
    BY <2>1, <2>3
  <2> QED
    BY <2>1, <2>4, <2>5
<1>7. ASSUME NEW p \in Rank, NEW w \in Group, Count(p, w) PROVE Types'
  BY <1>7, CountTypes
<1>8. ASSUME NEW p \in Rank, NEW w \in Group, Publish(p, w) PROVE Types'
  BY <1>8 DEF Publish, Produce
<1>9. ASSUME NEW w \in Group, SeeReady(w) PROVE Types'
  BY <1>9 DEF SeeReady, Reduce
<1>10. ASSUME NEW w \in Group, Late(w) PROVE Types'
  BY <1>10 DEF Late, Reduce
<1>11. ASSUME NEW w \in Group, Trip(w) PROVE Types'
  BY <1>11 DEF Trip, Reduce
<1>12. ASSUME NEW w \in Group, ReadError(w) PROVE Types'
  BY <1>12 DEF ReadError, Reduce
<1>13. ASSUME NEW w \in Group, Sum(w) PROVE Types'
  <2>1. buf' \in [Rank -> [Group -> SUBSET Inputs]]
    BY <1>13, TotalType, Constants DEF Sum
  <2> QED
    BY <1>13, <2>1 DEF Sum, Reduce
<1>14. ASSUME NEW w \in Group, Copy(w) PROVE Types'
  <2>1. buf' = [p \in Rank |-> [buf[p] EXCEPT ![w] = buf[0][w]]]
    BY <1>14 DEF Copy
  <2>2. buf[0][w] \in SUBSET Inputs
    BY Constants
  <2>3. buf' \in [Rank -> [Group -> SUBSET Inputs]]
    BY <2>1, <2>2
  <2> QED
    BY <1>14, <2>3 DEF Copy
<1> QED
  BY <1>1, <1>2, <1>3, <1>4, <1>5, <1>6, <1>7, <1>8, <1>9, <1>10, <1>11,
     <1>12, <1>13, <1>14 DEF Next, ReduceStep
-----------------------------------------------------------------------------
(* The producers.                                                          *)

LEMMA ComputeInv ==
  ASSUME Inv, NEW p \in Rank, NEW w \in Group, Compute(p, w)
  PROVE  /\ CountExact' /\ FlagMeansWritten' /\ PassedReady'
         /\ InputInPlace' /\ SumInPlace' /\ InOrder'
<1> DEFINE to == IF terminal THEN "count" ELSE "done"
<1>1. /\ ppc[p][w] = "compute"
      /\ buf' = [buf EXCEPT ![p][w] = {<<p, op>>}]
      /\ ppc' = [ppc EXCEPT ![p][w] = to]
      /\ UNCHANGED <<hostVars, count, flag, error, rpc, bpc>>
  BY DEF Compute, Produce
<1>2. /\ buf'[p][w] = {<<p, op>>} /\ ppc'[p][w] = to
      /\ \A q \in Rank, v \in Group : <<q, v>> # <<p, w>> =>
           buf'[q][v] = buf[q][v] /\ ppc'[q][v] = ppc[q][v]
  BY <1>1 DEF Inv, Types
<1>3. to \in {"count", "done"} /\ (terminal <=> to = "count")
  OBVIOUS
<1> HIDE DEF to
<1> USE DEF hostVars
<1>4. CountExact'
  <2> SUFFICES ASSUME NEW q \in Rank
               PROVE  /\ terminal' =>
                           count'[q] = IF q # bad' THEN Cardinality(Counted(q)')
                                      ELSE IF Counted(q)' = {} THEN CountWidth - 1
                                      ELSE Cardinality(Counted(q)') - 1
                      /\ ~terminal' =>
                           /\ q # bad' => count'[q] = 0
                           /\ \A v \in Group : ppc'[q][v] \notin {"count", "publish"}
    BY DEF CountExact
  <2>1. terminal => Counted(q)' = Counted(q)
    BY <1>1, <1>2, <1>3 DEF Counted
  <2>2. CASE terminal
    BY <1>1, <2>1, <2>2 DEF Inv, CountExact
  <2>3. CASE ~terminal
    BY <1>1, <1>2, <1>3, <2>3 DEF Inv, CountExact
  <2> QED
    BY <2>2, <2>3
<1>5. ~Written(p) /\ flag[p] # 1 /\ ~Ready
  BY <1>1 DEF Written, Inv, FlagMeansWritten, Ready
<1>6. \A q \in Rank : Written(q) => Written(q)'
  BY <1>2, <1>3 DEF Written
<1>7. FlagMeansWritten'
  BY <1>1, <1>2, <1>3, <1>6 DEF Inv, FlagMeansWritten
<1>8. Ready' <=> Ready
  BY <1>1 DEF Ready
<1>9. PassedReady'
  BY <1>1, <1>8 DEF Inv, PassedReady
<1>10. InputInPlace'
  BY <1>1, <1>2 DEF Inv, InputInPlace
<1>11. error = 0 => \A v \in Group : rpc[v] # "done" /\ bpc[v] # "done"
  BY <1>5 DEF Inv, PassedReady, InOrder
<1>12. SumInPlace'
  BY <1>1, <1>11 DEF SumInPlace
<1>13. InOrder'
  BY <1>1 DEF Inv, InOrder
<1> QED
  BY <1>4, <1>7, <1>9, <1>10, <1>12, <1>13

LEMMA CountInv ==
  ASSUME Inv, NEW p \in Rank, NEW w \in Group, Count(p, w)
  PROVE  /\ CountExact' /\ FlagMeansWritten' /\ PassedReady'
         /\ InputInPlace' /\ SumInPlace' /\ InOrder'
<1> DEFINE new == (count[p] + 1) % CountWidth
<1> DEFINE to == IF new = NumWg THEN "publish" ELSE "done"
<1>1. /\ ppc[p][w] = "count"
      /\ count' = [count EXCEPT ![p] = new]
      /\ ppc' = [ppc EXCEPT ![p][w] = to]
      /\ UNCHANGED <<hostVars, flag, error, rpc, bpc, buf>>
  BY DEF Count, Produce
<1>2. /\ count'[p] = new /\ ppc'[p][w] = to
      /\ \A q \in Rank : q # p => count'[q] = count[q] /\ ppc'[q] = ppc[q]
      /\ \A v \in Group : v # w => ppc'[p][v] = ppc[p][v]
  BY <1>1 DEF Inv, Types
<1>3. to \in {"publish", "done"}
  OBVIOUS
<1>4. terminal
  BY <1>1 DEF Inv, CountExact
<1> USE DEF hostVars
<1>5. w \notin Counted(p) /\ Counted(p)' = Counted(p) \cup {w}
  BY <1>1, <1>2, <1>3 DEF Counted
<1>6. /\ Cardinality(Counted(p)') = Cardinality(Counted(p)) + 1
      /\ Cardinality(Counted(p)') <= NumWg
      /\ Cardinality(Counted(p)') = NumWg => Counted(p)' = Group
  <2>1. IsFiniteSet(Counted(p))
    BY CountedFinite
  <2>2. Cardinality(Counted(p) \cup {w}) = Cardinality(Counted(p)) + 1
    BY <1>5, <2>1, FS_AddElement
  <2>3. Counted(p)' \subseteq Group
    BY DEF Counted
  <2>4. /\ Cardinality(Counted(p)') <= Cardinality(Group)
        /\ Cardinality(Counted(p)') = Cardinality(Group) => Counted(p)' = Group
    BY <2>3, Constants, FS_Subset
  <2> QED
    BY <1>5, <2>2, <2>4, Constants
<1> DEFINE n == Cardinality(Counted(p))
<1>7. n \in Nat
  BY CountedFinite
<1>8. new = IF p # bad THEN n + 1 ELSE n
  <2>1. CASE p # bad
    <3>1. count[p] = n
      BY <1>4, <2>1 DEF Inv, CountExact
    <3>2. n + 1 \in Nat /\ n + 1 < CountWidth
      BY <1>6, <1>7, Constants
    <3> HIDE DEF n
    <3> QED
      BY <2>1, <3>1, <3>2, Constants
  <2>2. CASE p = bad /\ Counted(p) = {}
    <3>1. count[p] = CountWidth - 1 /\ n = 0
      BY <1>4, <2>2, FS_EmptySet DEF Inv, CountExact
    <3>2. CountWidth % CountWidth = 0
      BY Constants
    <3> HIDE DEF n
    <3>3. count[p] + 1 = CountWidth
      BY <3>1, Constants
    <3> QED
      BY <2>2, <3>1, <3>2, <3>3
  <2>3. CASE p = bad /\ Counted(p) # {}
    <3>1. count[p] = n - 1
      BY <1>4, <2>3 DEF Inv, CountExact
    <3>2. count[p] \in Nat
      BY DEF Inv, Types
    <3>3. n < CountWidth
      BY <1>6, <1>7, Constants
    <3> HIDE DEF n
    <3>4. count[p] + 1 = n
      BY <1>7, <3>1, <3>2
    <3> QED
      BY <1>7, <2>3, <3>3, <3>4, Constants
  <2> QED
    BY <2>1, <2>2, <2>3
<1> HIDE DEF new
<1>9. to = "publish" => p # bad /\ Counted(p)' = Group
  <2>1. CASE p # bad
    BY <1>6, <1>7, <1>8, <2>1
  <2>2. CASE p = bad
    BY <1>6, <1>7, <1>8, <2>2, Constants
  <2> QED
    BY <2>1, <2>2
<1>10. count'[p] = IF p # bad' THEN Cardinality(Counted(p)')
                   ELSE IF Counted(p)' = {} THEN CountWidth - 1
                   ELSE Cardinality(Counted(p)') - 1
  BY <1>1, <1>2, <1>5, <1>6, <1>7, <1>8
<1> HIDE DEF to, n
<1>11. CountExact'
  <2>1. \A q \in Rank : q # p => Counted(q)' = Counted(q)
    BY <1>2 DEF Counted
  <2> QED
    BY <1>1, <1>2, <1>4, <1>10, <2>1 DEF Inv, CountExact
<1>12. \A q \in Rank : Written(q) => Written(q)'
  BY <1>2, <1>3 DEF Written
<1>13. to = "publish" => Written(p)'
  BY <1>9 DEF Written, Counted
<1>14. FlagMeansWritten'
  <2>1. \A q \in Rank : flag'[q] = 1 => Written(q)' /\ (terminal' => q # bad')
    BY <1>1, <1>12 DEF Inv, FlagMeansWritten
  <2>2. \A q \in Rank, v \in Group :
          ppc'[q][v] = "publish" => Written(q)' /\ (terminal' => q # bad')
    BY <1>1, <1>2, <1>3, <1>9, <1>12, <1>13 DEF Inv, FlagMeansWritten
  <2> QED
    BY <2>1, <2>2 DEF FlagMeansWritten
<1>15. PassedReady'
  BY <1>1 DEF Inv, PassedReady, Ready
<1>16. InputInPlace'
  BY <1>1, <1>2 DEF Inv, InputInPlace
<1>17. SumInPlace' /\ InOrder'
  BY <1>1 DEF Inv, SumInPlace, InOrder, Sums
<1> QED
  BY <1>11, <1>14, <1>15, <1>16, <1>17

LEMMA PublishInv ==
  ASSUME Inv, NEW p \in Rank, NEW w \in Group, Publish(p, w)
  PROVE  /\ CountExact' /\ FlagMeansWritten' /\ PassedReady'
         /\ InputInPlace' /\ SumInPlace' /\ InOrder'
<1>1. /\ ppc[p][w] = "publish"
      /\ flag' = [flag EXCEPT ![p] = 1]
      /\ ppc' = [ppc EXCEPT ![p][w] = "done"]
      /\ UNCHANGED <<hostVars, count, error, rpc, bpc, buf>>
  BY DEF Publish, Produce
<1>2. /\ flag'[p] = 1 /\ ppc'[p][w] = "done"
      /\ \A q \in Rank : q # p => flag'[q] = flag[q] /\ ppc'[q] = ppc[q]
      /\ \A v \in Group : v # w => ppc'[p][v] = ppc[p][v]
  BY <1>1 DEF Inv, Types
<1> USE DEF hostVars
<1>3. \A q \in Rank : Counted(q)' = Counted(q)
  BY <1>1, <1>2 DEF Counted
<1>4. CountExact'
  <2>1. \A q \in Rank, v \in Group :
          ppc[q][v] \notin {"count", "publish"} =>
          ppc'[q][v] \notin {"count", "publish"}
    BY <1>2
  <2> QED
    BY <1>1, <1>3, <2>1 DEF Inv, CountExact
<1>5. \A q \in Rank : Written(q) => Written(q)'
  BY <1>2 DEF Written
<1>6. FlagMeansWritten'
  BY <1>1, <1>2, <1>5 DEF Inv, FlagMeansWritten
<1>7. Ready => Ready'
  BY <1>2 DEF Ready
<1>8. PassedReady'
  BY <1>1, <1>7 DEF Inv, PassedReady
<1>9. InputInPlace'
  BY <1>1, <1>2 DEF Inv, InputInPlace
<1>10. SumInPlace' /\ InOrder'
  BY <1>1 DEF Inv, SumInPlace, InOrder, Sums
<1> QED
  BY <1>4, <1>6, <1>8, <1>9, <1>10

LEMMA PublishBehindInv ==
  ASSUME Inv, NEW p \in Rank, PublishBehind(p)
  PROVE  /\ CountExact' /\ FlagMeansWritten' /\ PassedReady'
         /\ InputInPlace' /\ SumInPlace' /\ InOrder'
<1>1. /\ ~terminal /\ ppc[p] = All("done")
      /\ flag' = [flag EXCEPT ![p] = 1]
      /\ UNCHANGED <<hostVars, ppc, count, error, rpc, bpc, buf>>
  BY DEF PublishBehind
<1>2. flag'[p] = 1 /\ \A q \in Rank : q # p => flag'[q] = flag[q]
  BY <1>1 DEF Inv, Types
<1> USE DEF hostVars
<1>3. \A q \in Rank : Counted(q)' = Counted(q)
  BY <1>1 DEF Counted
<1>4. CountExact'
  BY <1>1, <1>3 DEF Inv, CountExact
<1>5. Written(p)
  BY <1>1 DEF Written, All
<1>6. \A q \in Rank : Written(q) => Written(q)'
  BY <1>1 DEF Written
<1>7. FlagMeansWritten'
  BY <1>1, <1>2, <1>5, <1>6 DEF Inv, FlagMeansWritten
<1>8. Ready => Ready'
  BY <1>2 DEF Ready
<1>9. PassedReady'
  BY <1>1, <1>8 DEF Inv, PassedReady
<1>10. InputInPlace' /\ SumInPlace' /\ InOrder'
  BY <1>1 DEF Inv, InputInPlace, SumInPlace, InOrder, Sums
<1> QED
  BY <1>4, <1>7, <1>9, <1>10
-----------------------------------------------------------------------------
(* The host.                                                               *)

LEMMA BeginInv ==
  ASSUME Inv, Types', Begin
  PROVE  /\ CountExact' /\ FlagMeansWritten' /\ PassedReady'
         /\ InputInPlace' /\ SumInPlace' /\ InOrder'
<1>1. /\ \A p \in Rank, w \in Group : ppc'[p][w] = "compute"
      /\ \A w \in Group : rpc'[w] = "poll" /\ bpc'[w] = "copy"
      /\ \A p \in Rank : flag'[p] = 0
      /\ hpc' = "wait" /\ error' = 0
  BY DEF Begin, All, FreshFlags
<1>2. \A p \in Rank : count'[p] = IF p = bad' THEN CountWidth - 1 ELSE 0
  BY DEF Begin, FreshCounts
<1>3. \A p \in Rank : Counted(p)' = {}
  BY <1>1 DEF Counted
<1>4. CountExact'
  BY <1>1, <1>2, <1>3, FS_EmptySet DEF CountExact
<1>5. FlagMeansWritten'
  BY <1>1 DEF FlagMeansWritten
<1>6. PassedReady' /\ InputInPlace' /\ SumInPlace' /\ InOrder'
  BY <1>1 DEF PassedReady, InputInPlace, SumInPlace, InOrder
<1> QED
  BY <1>4, <1>5, <1>6

LEMMA HostInv ==
  ASSUME Inv, WaitEnds \/ Check \/ UNCHANGED vars
  PROVE  /\ CountExact' /\ FlagMeansWritten' /\ PassedReady'
         /\ InputInPlace' /\ SumInPlace' /\ InOrder'
<1>1. /\ UNCHANGED <<op, terminal, bad, ppc, count, flag, error, rpc, bpc, buf>>
  BY DEF WaitEnds, Check, vars, hostVars, producerVars
<1>2. \A q \in Rank : Counted(q)' = Counted(q)
  BY <1>1 DEF Counted
<1>3. CountExact'
  BY <1>1, <1>2 DEF Inv, CountExact
<1>4. \A q \in Rank : Written(q)' <=> Written(q)
  BY <1>1 DEF Written
<1>5. FlagMeansWritten'
  BY <1>1, <1>4 DEF Inv, FlagMeansWritten
<1>6. PassedReady' /\ InputInPlace' /\ SumInPlace'
  BY <1>1 DEF Inv, PassedReady, InputInPlace, SumInPlace, Ready, Sums
<1>7. InOrder'
  <2>1. CASE WaitEnds
    BY <2>1, <1>1 DEF WaitEnds, All, Inv, InOrder
  <2>2. CASE Check
    BY <2>2, <1>1 DEF Check, Inv, InOrder
  <2>3. CASE UNCHANGED vars
    BY <2>3, <1>1 DEF vars, hostVars, Inv, InOrder
  <2> QED
    BY <2>1, <2>2, <2>3
<1> QED
  BY <1>3, <1>5, <1>6, <1>7
-----------------------------------------------------------------------------
(* Reduce and broadcast.                                                   *)

LEMMA ProducersAlone ==
  ASSUME Inv, UNCHANGED <<hostVars, producerVars>>
  PROVE  CountExact' /\ FlagMeansWritten' /\ Ready' = Ready
<1>1. UNCHANGED <<hpc, op, terminal, bad, ppc, count, flag>>
  BY DEF hostVars, producerVars
<1>2. \A q \in Rank : Counted(q)' = Counted(q)
  BY <1>1 DEF Counted
<1>3. CountExact'
  BY <1>1, <1>2 DEF Inv, CountExact
<1>4. \A q \in Rank : Written(q)' <=> Written(q)
  BY <1>1 DEF Written
<1> QED
  BY <1>1, <1>3, <1>4 DEF Inv, FlagMeansWritten, Ready

LEMMA ReduceInv ==
  ASSUME Inv, NEW w \in Group,
         SeeReady(w) \/ Late(w) \/ Trip(w) \/ ReadError(w)
  PROVE  /\ CountExact' /\ FlagMeansWritten' /\ PassedReady'
         /\ InputInPlace' /\ SumInPlace' /\ InOrder'
<1>1. UNCHANGED <<hostVars, producerVars, bpc, buf>>
  BY DEF SeeReady, Late, Trip, ReadError
<1>2. CountExact' /\ FlagMeansWritten' /\ Ready' = Ready
  BY <1>1, ProducersAlone
<1>3. UNCHANGED <<hpc, op, terminal, bad, ppc, count, flag, bpc, buf>>
  BY <1>1 DEF hostVars, producerVars
<1>4. /\ \A v \in Group : v # w => rpc'[v] = rpc[v]
      /\ rpc[w] \in {"poll", "trip", "read"}
  BY DEF SeeReady, Late, Trip, ReadError, Reduce, Inv, Types
<1>5. \A v \in Group : bpc[v] # "done"
  BY <1>4 DEF Inv, InOrder
<1>6. error' = error \/ error' = 1
  BY DEF SeeReady, Late, Trip, ReadError
<1>7. error' = 0 => /\ rpc'[w] = "done" => FALSE
                    /\ rpc'[w] \in {"sum", "read"} => Ready
  <2>1. CASE SeeReady(w)
    BY <2>1 DEF SeeReady, Reduce, Inv, Types
  <2>2. CASE Late(w)
    BY <2>2 DEF Late, Reduce, Inv, Types
  <2>3. CASE Trip(w)
    BY <2>3 DEF Trip
  <2>4. CASE ReadError(w)
    BY <2>4 DEF ReadError, Reduce, Inv, Types, PassedReady
  <2> QED
    BY <2>1, <2>2, <2>3, <2>4
<1>8. rpc'[w] = "sum" => error' = 0
  <2>1. CASE SeeReady(w)
    BY <2>1 DEF SeeReady, Reduce, Inv, Types
  <2>2. CASE Late(w)
    BY <2>2 DEF Late, Reduce, Inv, Types
  <2>3. CASE Trip(w)
    BY <2>3 DEF Trip, Reduce, Inv, Types
  <2>4. CASE ReadError(w)
    BY <2>4 DEF ReadError, Reduce, Inv, Types
  <2> QED
    BY <2>1, <2>2, <2>3, <2>4
<1>9. error \in {0, 1}
  BY DEF Inv, Types
<1>10. error' = 0 => error = 0
  BY <1>6, <1>9
<1>11. PassedReady'
  <2> SUFFICES ASSUME NEW v \in Group,
                      rpc'[v] = "sum" \/ (rpc'[v] \in {"read", "done"} /\ error' = 0)
               PROVE  Ready
    BY <1>2 DEF PassedReady
  <2>1. CASE v = w
    BY <1>7, <1>8, <2>1
  <2>2. CASE v # w
    BY <1>4, <1>10, <2>2 DEF Inv, PassedReady
  <2> QED
    BY <2>1, <2>2
<1>12. InputInPlace'
  BY <1>3, <1>4 DEF Inv, InputInPlace
<1>13. SumInPlace'
  BY <1>3, <1>4, <1>5, <1>7, <1>10 DEF Inv, SumInPlace, Sums
<1>14. InOrder'
  <2>1. \A v \in Group : bpc'[v] # "done"
    BY <1>3, <1>5
  <2>2. hpc' \notin {"check", "ok", "failed"}
    BY <1>3, <1>5, Constants DEF Inv, InOrder
  <2> QED
    BY <2>1, <2>2 DEF InOrder
<1> QED
  BY <1>2, <1>11, <1>12, <1>13, <1>14

LEMMA SumInv ==
  ASSUME Inv, NEW w \in Group, Sum(w)
  PROVE  /\ CountExact' /\ FlagMeansWritten' /\ PassedReady'
         /\ InputInPlace' /\ SumInPlace' /\ InOrder'
<1>1. /\ rpc[w] = "sum" /\ rpc' = [rpc EXCEPT ![w] = "done"]
      /\ buf' = [buf EXCEPT ![0][w] = Total(w)]
      /\ UNCHANGED <<hostVars, producerVars, error, bpc>>
  BY DEF Sum, Reduce
<1>2. CountExact' /\ FlagMeansWritten' /\ Ready' = Ready
  BY <1>1, ProducersAlone
<1>3. UNCHANGED <<hpc, op, terminal, bad, ppc, count, flag, error, bpc>>
  BY <1>1 DEF hostVars, producerVars
<1>4. /\ rpc'[w] = "done" /\ \A v \in Group : v # w => rpc'[v] = rpc[v]
      /\ buf'[0][w] = Total(w)
      /\ \A q \in Rank, v \in Group : q # 0 \/ v # w => buf'[q][v] = buf[q][v]
  BY <1>1, Constants DEF Inv, Types
<1>5. Ready
  BY <1>1 DEF Inv, PassedReady
<1>6. \A v \in Group : bpc[v] # "done"
  BY <1>1 DEF Inv, InOrder
<1>7. \A p \in Rank : buf[p][w] = {<<p, op>>}
  BY <1>1, <1>5, <1>6
  DEF Inv, InputInPlace, FlagMeansWritten, Written, Ready
<1>8. Total(w) = Sums
  <2>1. \A p, q \in Rank : p # q => buf[p][w] \cap buf[q][w] = {}
    BY <1>7
  <2>2. UNION {buf[p][w] : p \in Rank} = Sums
    BY <1>7 DEF Sums
  <2> QED
    BY <2>1, <2>2 DEF Total
<1>9. PassedReady'
  BY <1>2, <1>5 DEF PassedReady
<1>10. InputInPlace'
  BY <1>3, <1>4 DEF Inv, InputInPlace
<1>11. SumInPlace'
  BY <1>3, <1>4, <1>6, <1>8, Constants DEF Inv, SumInPlace, Sums
<1>12. InOrder'
  <2>1. hpc' \notin {"check", "ok", "failed"}
    BY <1>3, <1>6, Constants DEF Inv, InOrder
  <2> QED
    BY <1>3, <1>6, <2>1 DEF InOrder
<1> QED
  BY <1>2, <1>9, <1>10, <1>11, <1>12

LEMMA CopyInv ==
  ASSUME Inv, NEW w \in Group, Copy(w)
  PROVE  /\ CountExact' /\ FlagMeansWritten' /\ PassedReady'
         /\ InputInPlace' /\ SumInPlace' /\ InOrder'
<1>1. /\ \A v \in Group : rpc[v] = "done"
      /\ bpc[w] = "copy" /\ bpc' = [bpc EXCEPT ![w] = "done"]
      /\ buf' = [p \in Rank |-> [buf[p] EXCEPT ![w] = buf[0][w]]]
      /\ UNCHANGED <<hostVars, producerVars, error, rpc>>
  BY DEF Copy, All
<1>2. CountExact' /\ FlagMeansWritten' /\ Ready' = Ready
  BY <1>1, ProducersAlone
<1>3. UNCHANGED <<hpc, op, terminal, bad, ppc, count, flag, error, rpc>>
  BY <1>1 DEF hostVars, producerVars
<1>4. /\ bpc'[w] = "done" /\ \A v \in Group : v # w => bpc'[v] = bpc[v]
      /\ \A p \in Rank : buf'[p][w] = buf[0][w]
      /\ \A p \in Rank, v \in Group : v # w => buf'[p][v] = buf[p][v]
  BY <1>1 DEF Inv, Types
<1>5. PassedReady'
  BY <1>2, <1>3 DEF Inv, PassedReady
<1>6. InputInPlace'
  BY <1>3, <1>4 DEF Inv, InputInPlace
<1>7. error = 0 => buf[0][w] = Sums
  BY <1>1 DEF Inv, SumInPlace
<1>8. SumInPlace'
  BY <1>1, <1>3, <1>4, <1>7, Constants DEF Inv, SumInPlace, Sums
<1>9. InOrder'
  <2>1. hpc' \notin {"check", "ok", "failed"}
    BY <1>1, <1>3 DEF Inv, InOrder
  <2> QED
    BY <1>1, <1>3, <2>1 DEF InOrder
<1> QED
  BY <1>2, <1>5, <1>6, <1>8, <1>9
-----------------------------------------------------------------------------
LEMMA Inv_Step == Inv /\ [Next]_vars => Inv'
<1> SUFFICES ASSUME Inv, [Next]_vars PROVE Inv'
  OBVIOUS
<1>1. Types'
  BY TypesStep DEF Inv
<1> DEFINE Rest == /\ CountExact' /\ FlagMeansWritten' /\ PassedReady'
                   /\ InputInPlace' /\ SumInPlace' /\ InOrder'
<1>2. SUFFICES Rest
  BY <1>1 DEF Inv
<1>3. CASE Begin
  BY <1>1, <1>3, BeginInv
<1>4. CASE WaitEnds \/ Check \/ UNCHANGED vars
  BY <1>4, HostInv
<1>5. ASSUME NEW p \in Rank, PublishBehind(p) PROVE Rest
  BY <1>5, PublishBehindInv
<1>6. ASSUME NEW p \in Rank, NEW w \in Group, Compute(p, w) PROVE Rest
  BY <1>6, ComputeInv
<1>7. ASSUME NEW p \in Rank, NEW w \in Group, Count(p, w) PROVE Rest
  BY <1>7, CountInv
<1>8. ASSUME NEW p \in Rank, NEW w \in Group, Publish(p, w) PROVE Rest
  BY <1>8, PublishInv
<1>9. ASSUME NEW w \in Group, SeeReady(w) \/ Late(w) \/ Trip(w) \/ ReadError(w)
      PROVE  Rest
  BY <1>9, ReduceInv
<1>10. ASSUME NEW w \in Group, Sum(w) PROVE Rest
  BY <1>10, SumInv
<1>11. ASSUME NEW w \in Group, Copy(w) PROVE Rest
  BY <1>11, CopyInv
<1> HIDE DEF Rest
<1> QED
  BY <1>3, <1>4, <1>5, <1>6, <1>7, <1>8, <1>9, <1>10, <1>11
  DEF Next, ReduceStep

THEOREM Invariant == Spec => []Inv
<1>1. Init => Inv
  BY Init_Inv
<1>2. Inv /\ [Next]_vars => Inv'
  BY Inv_Step
<1> QED
  BY <1>1, <1>2, PTL DEF Spec

(* Types; and the ready counter of a GEMV that is not poisoned never passes *)
(* the number of its workgroups.                                            *)
THEOREM TypeCorrect == Spec => []TypeOK
BY Invariant, InvImpliesTypeOK, PTL

(* An all-reduce behind ready flags that returned Ok has put this           *)
(* operation's inputs, each once, into every slice of every rank.           *)
THEOREM OkIsExact == Spec => []OkMeansExact
BY Invariant, InvImpliesOkMeansExact, PTL
=============================================================================
