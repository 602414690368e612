-------------------------- MODULE AllReduceProofs ---------------------------
(***************************************************************************)
(* Proofs about the all-reduce, for every number of GPUs, every capacity   *)
(* and every sequence of calls.                                            *)
(*                                                                         *)
(* The vector: the shares partition it, the owner index of the kernels     *)
(* names the share an element lies in, the staging slots fit, and the      *)
(* bursts of a kernel's workgroups partition a share.                      *)
(*                                                                         *)
(* The host: the program of every scheme is "settled" (Settled): it waits  *)
(* for an agent after each time it arms it and between an arm and a refill *)
(* of the same agent, and all the work it hands out stays within the       *)
(* memory and the words of the group.  A settled program that has begun    *)
(* covers every agent that still has work (Covered).  From both follow     *)
(* TypeOK, QuietOnReturn and RefillsOnlyDrained.                           *)
(*                                                                         *)
(* Moves.  A layout L cuts the vector into one or two parts and each part  *)
(* into the shares of the GPUs; an operation on data is a move d, Op(L, d):*)
(* a scatter into a staging slot, the sum of the slots or of the peers'    *)
(* buffers, or a gather of the sum.  Their levels are 0, 1 and 2, and two  *)
(* operations clash when one disturbs the other (Clash).                   *)
(*                                                                         *)
(* Order.  In the program of a scheme, of two arms that clash the one with *)
(* the lower level comes first and the host waits in between (Orderly), or *)
(* their agents see to the order themselves: agents of S, with the work J, *)
(* whose signals and waits lead from the one to the other (Linked).  While *)
(* it runs, what agents still have to do and what is still to be armed is  *)
(* in order (Arranged), and no wait is passed before its signals (Synced); *)
(* together, Led.  So whatever may run comes before all that clashes with  *)
(* it, and nothing that may run at once clashes; AllReduceSumProofs shows  *)
(* that every scheme is so, and draws NoConflict from it.                  *)
(***************************************************************************)
EXTENDS AllReduce, SequenceTheorems, WellFoundedInduction, TLAPS

(* Division with a positive divisor.                                       *)
LEMMA DivBounds ==
  ASSUME NEW a \in Int, NEW b \in Nat \ {0}
  PROVE  /\ a \div b \in Int
         /\ b * (a \div b) <= a
         /\ a < b * (a \div b) + b
OBVIOUS

(* A multiple of b and the multiple b further on enclose one quotient.     *)
LEMMA DivUnique ==
  ASSUME NEW a \in Int, NEW b \in Nat \ {0}, NEW q \in Int,
         q * b <= a, a < q * b + b
  PROVE  q = a \div b
<1> DEFINE d == a \div b
<1>1. d \in Int /\ b * d <= a /\ a < b * d + b
  BY DivBounds
<1>2. (q - d) * b < b /\ (d - q) * b < b
  BY <1>1
<1>3. CASE q > d
  <2>1. (q - d) * b >= b
    BY <1>1, <1>3
  <2> QED
    BY <1>1, <1>2, <2>1
<1>4. CASE d > q
  <2>1. (d - q) * b >= b
    BY <1>1, <1>4
  <2> QED
    BY <1>1, <1>2, <2>1
<1> QED
  BY <1>1, <1>3, <1>4

(* r shares of n.div_ceil(r) elements hold n elements.                     *)
LEMMA CeilDivCovers ==
  ASSUME NEW a \in Nat, NEW b \in Nat \ {0}
  PROVE  CeilDiv(a, b) \in Nat /\ a <= b * CeilDiv(a, b)
<1>1. a + b - 1 \in Nat
  OBVIOUS
<1>2. CeilDiv(a, b) \in Int /\ a + b - 1 < b * CeilDiv(a, b) + b
  BY <1>1, DivBounds DEF CeilDiv
<1>3. CeilDiv(a, b) \in Nat
  <2>1. SUFFICES ASSUME CeilDiv(a, b) <= -1 PROVE FALSE
    BY <1>2
  <2>2. b * CeilDiv(a, b) <= b * (-1)
    BY <1>2, <2>1
  <2> QED
    BY <1>1, <1>2, <2>2
<1> QED
  BY <1>2, <1>3

(* round_up4 gives a multiple of four, and never less.                     *)
LEMMA RoundUp4Bounds ==
  ASSUME NEW x \in Nat
  PROVE  /\ RoundUp4(x) \in Nat
         /\ x <= RoundUp4(x) /\ RoundUp4(x) <= x + 3
         /\ \E k \in Nat : RoundUp4(x) = 4 * k
BY DEF RoundUp4

(* r shares of cl elements hold the vector; a vector that is not empty has *)
(* shares that are not.                                                    *)
LEMMA ChunkLengthCovers ==
  ASSUME NEW len \in Nat, NEW k \in Nat \ {0}
  PROVE  /\ ChunkLength(len, k) \in Nat
         /\ len <= k * ChunkLength(len, k)
         /\ \E m \in Nat : ChunkLength(len, k) = 4 * m
         /\ len > 0 => ChunkLength(len, k) > 0
<1> DEFINE d == CeilDiv(len, k)
<1> DEFINE cl == ChunkLength(len, k)
<1>1. d \in Nat /\ len <= k * d
  BY CeilDivCovers
<1>2. cl \in Nat /\ d <= cl /\ \E m \in Nat : cl = 4 * m
  BY <1>1, RoundUp4Bounds DEF ChunkLength
<1> HIDE DEF d, cl
<1>3. k * d <= k * cl
  BY <1>1, <1>2
<1>4. len <= k * cl
  BY <1>1, <1>2, <1>3
<1>5. len > 0 => cl > 0
  <2>1. cl = 0 => k * cl = 0
    BY <1>2
  <2> QED
    BY <1>2, <1>4, <2>1
<1> QED
  BY <1>2, <1>4, <1>5 DEF cl

(* A longer vector has shares at least as long.                            *)
LEMMA CeilDivMonotone ==
  ASSUME NEW a \in Nat, NEW c \in Nat, NEW b \in Nat \ {0}, a <= c
  PROVE  CeilDiv(a, b) <= CeilDiv(c, b)
<1> DEFINE x == CeilDiv(a, b)
<1> DEFINE y == CeilDiv(c, b)
<1>1. x \in Int /\ b * x <= a + b - 1
  BY DivBounds DEF CeilDiv
<1>2. y \in Int /\ c + b - 1 < b * y + b
  BY DivBounds DEF CeilDiv
<1> HIDE DEF x, y
<1>3. SUFFICES ASSUME x >= y + 1 PROVE FALSE
  BY <1>1, <1>2 DEF x, y
<1>4. b * x >= b * y + b
  BY <1>1, <1>2, <1>3
<1> QED
  BY <1>1, <1>2, <1>4

LEMMA ChunkLengthMonotone ==
  ASSUME NEW a \in Nat, NEW c \in Nat, NEW k \in Nat \ {0}, a <= c
  PROVE  ChunkLength(a, k) <= ChunkLength(c, k)
<1>1. CeilDiv(a, k) \in Nat /\ CeilDiv(c, k) \in Nat
  BY CeilDivCovers
<1>2. CeilDiv(a, k) <= CeilDiv(c, k)
  BY CeilDivMonotone
<1> QED
  BY <1>1, <1>2 DEF ChunkLength, RoundUp4

(* An element lies in share c exactly when the kernels' owner index is c.  *)
LEMMA OwnerIsTheShare ==
  ASSUME NEW cl \in Nat \ {0}, NEW k \in Nat \ {0}, NEW len \in Nat,
         len <= k * cl, NEW pos \in 0..(len - 1), NEW c \in 0..(k - 1)
  PROVE  InChunk(pos, c, cl, len) <=> c = Owner(pos, cl, k)
<1> DEFINE d == pos \div cl
<1>1. d \in Int /\ cl * d <= pos /\ pos < cl * d + cl
  BY DivBounds
<1>2. d < k
  <2>1. SUFFICES ASSUME d >= k PROVE FALSE
    BY <1>1
  <2>2. cl * d >= k * cl
    BY <1>1, <2>1
  <2> QED
    BY <1>1, <2>2
<1>3. Owner(pos, cl, k) = d
  BY <1>1, <1>2 DEF Owner
<1>4. ASSUME InChunk(pos, c, cl, len) PROVE c = d
  <2>1. c * cl \in Int
    OBVIOUS
  <2>2. c * cl <= pos /\ pos < c * cl + cl
    BY <1>4, <2>1 DEF InChunk, ChunkLen, Lesser
  <2> QED
    BY <2>2, DivUnique
<1>5. ASSUME c = d PROVE InChunk(pos, c, cl, len)
  <2>1. c * cl <= pos /\ pos < c * cl + cl /\ c * cl \in Int
    BY <1>1, <1>5
  <2> QED
    BY <2>1 DEF InChunk, ChunkLen, Lesser
<1> QED
  BY <1>3, <1>4, <1>5

(* For every vector, group and capacity: the shares partition the vector   *)
(* as the kernels compute owners, start on 16-byte boundaries, and the     *)
(* staging slots of a vector fit buffers sized for a longer one.           *)
THEOREM SharesAlwaysPartition ==
  ASSUME NEW len \in Nat, NEW k \in Nat \ {0}, NEW cap \in Nat
  PROVE  SharesPartition(len, k, cap)
<1> DEFINE cl == ChunkLength(len, k)
<1>1. /\ cl \in Nat /\ len <= k * cl /\ \E m \in Nat : cl = 4 * m
      /\ len > 0 => cl > 0
  BY ChunkLengthCovers
<1>2. \A pos \in 0..(len - 1) : \A c \in 0..(k - 1) :
        InChunk(pos, c, cl, len) <=> c = Owner(pos, cl, k)
  <2>1. TAKE pos \in 0..(len - 1)
  <2>2. TAKE c \in 0..(k - 1)
  <2>3. cl \in Nat \ {0}
    BY <1>1
  <2> QED
    BY <1>1, <2>3, OwnerIsTheShare
<1>3. \A c \in 0..(k - 1) : (c * cl) % 4 = 0
  <2>1. TAKE c \in 0..(k - 1)
  <2>2. PICK m \in Nat : cl = 4 * m
    BY <1>1
  <2>3. c * cl = 4 * (c * m) /\ c * m \in Nat
    BY <2>2
  <2> QED
    BY <2>3
<1>4. ASSUME len <= cap PROVE k * cl <= k * ChunkLength(cap, k)
  <2>1. cl <= ChunkLength(cap, k) /\ ChunkLength(cap, k) \in Nat
    BY <1>4, ChunkLengthMonotone, ChunkLengthCovers
  <2> QED
    BY <1>1, <2>1
<1> QED
  BY <1>2, <1>3, <1>4 DEF SharesPartition

(* Rounding leaves short or empty shares at the end only: all shares before *)
(* one that is not empty are full.                                         *)
THEOREM ShortSharesAtTheEnd ==
  ASSUME NEW len \in Nat, NEW cl \in Nat, NEW c \in Nat, NEW d \in Nat,
         c < d, ChunkLen(d, cl, len) > 0
  PROVE  ChunkLen(c, cl, len) = cl
<1>1. d * cl < len /\ d * cl \in Nat /\ c * cl \in Nat
  BY DEF ChunkLen
<1>2. c * cl + cl <= d * cl
  <2>1. (c + 1) * cl <= d * cl
    OBVIOUS
  <2> QED
    BY <2>1
<1> QED
  BY <1>1, <1>2 DEF ChunkLen, Lesser

(* The bursts of a kernel's workgroups partition a share: every element is *)
(* streamed by exactly one of the nslots slots, so none is lost and none   *)
(* is written twice.                                                       *)
THEOREM BurstsPartition ==
  ASSUME NEW len \in Nat, NEW nslots \in Nat \ {0}, NEW k \in 0..(len - 1)
  PROVE  \E s \in 0..(nslots - 1) :
           /\ InBurst(k, s, nslots, len)
           /\ \A t \in 0..(nslots - 1) : InBurst(k, t, nslots, len) => t = s
<1> DEFINE per == CeilDiv(len, nslots)
<1>1. per \in Nat /\ len <= nslots * per
  BY CeilDivCovers
<1>2. per # 0
  <2>1. per = 0 => nslots * per = 0
    OBVIOUS
  <2> QED
    BY <1>1, <2>1
<1> DEFINE s == k \div per
<1>3. s \in Int /\ per * s <= k /\ k < per * s + per
  BY <1>1, <1>2, DivBounds
<1> HIDE DEF s
<1>4. s >= 0
  <2>1. SUFFICES ASSUME s <= -1 PROVE FALSE
    BY <1>3
  <2>2. per * s <= per * (-1)
    BY <1>1, <1>3, <2>1
  <2> QED
    BY <1>1, <1>3, <2>2
<1>5. s < nslots
  <2>1. SUFFICES ASSUME s >= nslots PROVE FALSE
    BY <1>3
  <2>2. per * s >= nslots * per
    BY <1>1, <1>3, <2>1
  <2> QED
    BY <1>1, <1>3, <2>2
<1>6. InBurst(k, s, nslots, len)
  BY <1>1, <1>3 DEF InBurst, Lesser
<1>7. ASSUME NEW t \in 0..(nslots - 1), InBurst(k, t, nslots, len)
      PROVE  t = s
  <2>1. t * per <= k /\ k < t * per + per
    BY <1>1, <1>7 DEF InBurst, Lesser
  <2> QED
    BY <1>1, <1>2, <2>1, DivUnique DEF s
<1> QED
  BY <1>3, <1>4, <1>5, <1>6, <1>7

(* In every state of every group: the shares of the current vector         *)
(* partition it and fit the staging buffers.                               *)
ShapeInv == r \in RankCounts /\ n \in Nat

THEOREM ChunksPartitionAlways == Spec => []ChunksPartition
<1>1. Init => ShapeInv
  BY DEF Init, ShapeInv
<1>2. ShapeInv /\ [Next]_vars => ShapeInv'
  <2> SUFFICES ASSUME ShapeInv, [Next]_vars PROVE ShapeInv'
    OBVIOUS
  <2>1. CASE \E q \in Requests(r) : Call(q)
    BY <2>1, AllReduceAssumption DEF Call, ShapeInv
  <2>2. CASE HostArm
    BY <2>2 DEF HostArm, ShapeInv
  <2>3. CASE HostWait
    BY <2>3 DEF HostWait, ShapeInv
  <2>4. CASE \E a \in Agents : Step(a)
    BY <2>4 DEF Step, Run, ShapeInv
  <2>5. CASE UNCHANGED vars
    BY <2>5 DEF vars, ShapeInv
  <2> QED
    BY <2>1, <2>2, <2>3, <2>4, <2>5 DEF Next
<1>3. ShapeInv => ChunksPartition
  BY SharesAlwaysPartition, AllReduceAssumption DEF ShapeInv, ChunksPartition
<1> QED
  BY <1>1, <1>2, <1>3, PTL DEF Spec

-----------------------------------------------------------------------------
(* Sequences without a set their elements are drawn from.                  *)
IsSeq(p) == \E X : p \in Seq(X)

Joins(u, p, q) ==
  /\ IsSeq(u)
  /\ Len(p) \in Nat /\ Len(q) \in Nat /\ Len(u) = Len(p) + Len(q)
  /\ \A i \in 1..Len(p) : u[i] = p[i]
  /\ \A i \in 1..Len(q) : u[Len(p) + i] = q[i]
  /\ \A i \in 1..Len(u) : i <= Len(p) \/ \E j \in 1..Len(q) : i = Len(p) + j

(* A concatenation joins its parts.                                        *)
LEMMA Joined ==
  ASSUME NEW p, NEW q, IsSeq(p), IsSeq(q)
  PROVE  Joins(p \o q, p, q)
<1>1. PICK X : p \in Seq(X)
  BY DEF IsSeq
<1>2. PICK Y : q \in Seq(Y)
  BY DEF IsSeq
<1>3. p \in Seq(X \cup Y) /\ q \in Seq(X \cup Y)
  BY <1>1, <1>2, SeqMonotonic
<1>4. Len(p) \in Nat /\ Len(q) \in Nat
  BY <1>3, LenProperties
<1>5. /\ p \o q \in Seq(X \cup Y)
      /\ Len(p \o q) = Len(p) + Len(q)
      /\ \A i \in 1..(Len(p) + Len(q)) :
           (p \o q)[i] = IF i <= Len(p) THEN p[i] ELSE q[i - Len(p)]
  BY <1>3, ConcatProperties
<1>6. \A i \in 1..Len(p) : (p \o q)[i] = p[i]
  BY <1>4, <1>5
<1>7. ASSUME NEW i \in 1..Len(q) PROVE (p \o q)[Len(p) + i] = q[i]
  <2>1. Len(p) + i \in 1..(Len(p) + Len(q)) /\ ~(Len(p) + i <= Len(p))
        /\ (Len(p) + i) - Len(p) = i
    BY <1>4
  <2> QED
    BY <1>5, <2>1
<1>8. \A i \in 1..Len(p \o q) : i <= Len(p) \/ \E j \in 1..Len(q) : i = Len(p) + j
  <2> SUFFICES ASSUME NEW i \in 1..Len(p \o q), ~(i <= Len(p))
               PROVE  \E j \in 1..Len(q) : i = Len(p) + j
    OBVIOUS
  <2>1. i - Len(p) \in 1..Len(q) /\ i = Len(p) + (i - Len(p))
    BY <1>4, <1>5
  <2> QED
    BY <2>1
<1> QED
  BY <1>4, <1>5, <1>6, <1>7, <1>8 DEF Joins, IsSeq

LEMMA JoinAssociates ==
  ASSUME NEW p, NEW q, NEW s, IsSeq(p), IsSeq(q), IsSeq(s)
  PROVE  (p \o q) \o s = p \o (q \o s)
<1>1. PICK X : p \in Seq(X)
  BY DEF IsSeq
<1>2. PICK Y : q \in Seq(Y)
  BY DEF IsSeq
<1>3. PICK Z : s \in Seq(Z)
  BY DEF IsSeq
<1>4. /\ p \in Seq((X \cup Y) \cup Z) /\ q \in Seq((X \cup Y) \cup Z)
      /\ s \in Seq((X \cup Y) \cup Z)
  BY <1>1, <1>2, <1>3, SeqMonotonic
<1> QED
  BY <1>4, ConcatAssociative

LEMMA EmptyIsSeq == IsSeq(<<>>) /\ Len(<<>>) = 0
BY EmptySeq DEF IsSeq

LEMMA OneIsSeq ==
  ASSUME NEW c
  PROVE  IsSeq(<<c>>) /\ Len(<<c>>) = 1 /\ <<c>>[1] = c
<1>1. <<c>> \in Seq({c})
  OBVIOUS
<1> QED
  BY <1>1 DEF IsSeq

LEMMA IsSeqLen ==
  ASSUME NEW p, IsSeq(p)
  PROVE  Len(p) \in Nat /\ DOMAIN p = 1..Len(p)
<1>1. PICK X : p \in Seq(X)
  BY DEF IsSeq
<1> QED
  BY <1>1, LenProperties

-----------------------------------------------------------------------------
(* Induction over places: a set of numbers that is not empty has a least.  *)
LEMMA Least ==
  ASSUME NEW T, T \subseteq Nat, T # {}
  PROVE  \E x \in T : \A y \in T : ~(y < x)
<1>1. PICK R : R = {ss \in Nat \X Nat : ss[1] < ss[2]}
  OBVIOUS
<1>2. IsWellFoundedOn(R, Nat)
  BY <1>1, NatLessThanWellFounded DEF OpToRel
<1>3. \E x \in T : \A y \in T : ~(<<y, x>> \in R)
  BY <1>2, WFMin
<1> QED
  BY <1>1, <1>3

(* A set with 1 and with the successors of its members up to m has m.      *)
LEMMA Climb ==
  ASSUME NEW m \in Nat \ {0}, NEW G, 1 \in G,
         \A i \in 2..m : i - 1 \in G => i \in G
  PROVE  m \in G
<1>1. SUFFICES ASSUME m \notin G PROVE FALSE
  OBVIOUS
<1>2. PICK T : T = {i \in 1..m : i \notin G}
  OBVIOUS
<1>3. T \subseteq Nat /\ T # {}
  BY <1>1, <1>2
<1>4. PICK x \in T : \A y \in T : ~(y < x)
  BY <1>3, Least
<1>5. x \in 2..m /\ x - 1 \in 1..m /\ x - 1 < x
  BY <1>2, <1>4
<1>6. x - 1 \notin T
  BY <1>4, <1>5
<1> QED
  BY <1>2, <1>4, <1>5, <1>6

(* FlattenSeq joins its parts one by one.                                  *)
Unfolds(f, s, m) ==
  f[1] = s[1] /\ \A i \in 2..m : f[i] = f[i - 1] \o s[i]

IsFlat(f, s, m) ==
  f = [i \in 1..m |-> IF i = 1 THEN s[i] ELSE f[i - 1] \o s[i]]

LEMMA FlatExists ==
  ASSUME NEW m \in Nat \ {0}, NEW s
  PROVE  \E f : IsFlat(f, s, m)
<1>1. PICK G : G = {k \in 1..m : \E f : IsFlat(f, s, k)}
  OBVIOUS
<1>2. 1 \in G
  <2>1. PICK f : f = [i \in 1..1 |-> s[i]]
    OBVIOUS
  <2>2. IsFlat(f, s, 1)
    BY <2>1 DEF IsFlat
  <2> QED
    BY <1>1, <2>2
<1>3. ASSUME NEW k \in 2..m, k - 1 \in G PROVE k \in G
  <2>1. PICK g : IsFlat(g, s, k - 1)
    BY <1>1, <1>3
  <2>2. PICK f : f = [i \in 1..k |-> IF i = k THEN g[k - 1] \o s[k] ELSE g[i]]
    OBVIOUS
  <2>3. \A i \in 1..(k - 1) : g[i] = IF i = 1 THEN s[i] ELSE g[i - 1] \o s[i]
    BY <2>1 DEF IsFlat
  <2>4. ASSUME NEW i \in 1..k
        PROVE  f[i] = IF i = 1 THEN s[i] ELSE f[i - 1] \o s[i]
    <3>1. CASE i = k
      <4>1. k \in 1..k /\ k - 1 \in 1..k /\ k - 1 # k /\ k # 1
        OBVIOUS
      <4>2. f[k] = g[k - 1] \o s[k] /\ f[k - 1] = g[k - 1]
        BY <2>2, <4>1
      <4> QED
        BY <3>1, <4>1, <4>2
    <3>2. CASE i = 1
      BY <2>2, <2>3, <3>2
    <3>3. CASE i # k /\ i # 1
      <4>1. i \in 1..(k - 1) /\ i - 1 \in 1..k /\ i - 1 # k
        BY <3>3
      <4>2. f[i] = g[i] /\ f[i - 1] = g[i - 1]
        BY <2>2, <3>3, <4>1
      <4> QED
        BY <2>3, <3>3, <4>1, <4>2
    <3> QED
      BY <3>1, <3>2, <3>3
  <2>5. IsFlat(f, s, k)
    BY <2>2, <2>4 DEF IsFlat
  <2> QED
    BY <1>1, <2>5
<1>4. m \in G
  BY <1>2, <1>3, Climb
<1> QED
  BY <1>1, <1>4

LEMMA FlattenUnfolds ==
  ASSUME NEW m \in Nat \ {0}, NEW s, s = [i \in 1..m |-> s[i]]
  PROVE  \E f : Unfolds(f, s, m) /\ FlattenSeq(s) = f[m]
<1>1. Len(s) = m
  OBVIOUS
<1>2. PICK g : IsFlat(g, s, Len(s))
  BY <1>1, FlatExists
<1>3. \E f : IsFlat(f, s, Len(s)) /\ FlattenSeq(s) = f[Len(s)]
  BY <1>1, <1>2 DEF FlattenSeq, IsFlat
<1>4. PICK f : IsFlat(f, s, m) /\ FlattenSeq(s) = f[m]
  BY <1>1, <1>3
<1>5. \A i \in 1..m : f[i] = IF i = 1 THEN s[i] ELSE f[i - 1] \o s[i]
  BY <1>4 DEF IsFlat
<1>6. Unfolds(f, s, m)
  <2>1. f[1] = s[1]
    BY <1>5
  <2>2. ASSUME NEW i \in 2..m PROVE f[i] = f[i - 1] \o s[i]
    <3>1. i \in 1..m /\ i # 1
      OBVIOUS
    <3> QED
      BY <1>5, <3>1
  <2> QED
    BY <2>1, <2>2 DEF Unfolds
<1> QED
  BY <1>4, <1>6

LEMMA FlattenNothing ==
  ASSUME NEW s, s = [i \in 1..0 |-> s[i]]
  PROVE  FlattenSeq(s) = <<>>
<1>1. s = <<>>
  OBVIOUS
<1> QED
  BY <1>1 DEF FlattenSeq

-----------------------------------------------------------------------------
(* Blocks of a host program.  A block of arms: each agent of S at most     *)
(* once, with work of W.  A block of waits: each agent of S at least once. *)
ArmBlock(p, S, W) ==
  /\ IsSeq(p)
  /\ \A i \in 1..Len(p) :
       p[i].do = "arm" /\ p[i].agent \in S /\ p[i].work \in W
  /\ \A i, j \in 1..Len(p) : p[i].agent = p[j].agent => i = j

WaitBlock(p, S) ==
  /\ IsSeq(p)
  /\ \A i \in 1..Len(p) : p[i].do = "wait"
  /\ \A a \in S : \E i \in 1..Len(p) : p[i].agent = a

LEMMA BlockSeqs ==
  /\ \A p, S, W : ArmBlock(p, S, W) => IsSeq(p)
  /\ \A p, S : WaitBlock(p, S) => IsSeq(p)
BY DEF ArmBlock, WaitBlock

LEMMA ArmOne ==
  ASSUME NEW W, NEW a, NEW w, NEW S, a \in S, w \in W
  PROVE  ArmBlock(Arm(a, w), S, W) /\ ArmBlock(Refill(a, w), S, W)
<1>1. ASSUME NEW c, c.do = "arm", c.agent = a, c.work = w PROVE ArmBlock(<<c>>, S, W)
  BY <1>1, OneIsSeq DEF ArmBlock
<1> QED
  BY <1>1 DEF Arm, Refill

LEMMA WaitOne ==
  ASSUME NEW a
  PROVE  WaitBlock(Wait(a), {a})
<1>1. ASSUME NEW c, c.do = "wait", c.agent = a PROVE WaitBlock(<<c>>, {a})
  BY <1>1, OneIsSeq DEF WaitBlock
<1> QED
  BY <1>1 DEF Wait

LEMMA NoArms ==
  ASSUME NEW W, NEW S
  PROVE  ArmBlock(<<>>, S, W)
BY EmptyIsSeq DEF ArmBlock

LEMMA NoWaits == WaitBlock(<<>>, {})
BY EmptyIsSeq DEF WaitBlock

LEMMA ArmsOfMore ==
  ASSUME NEW W, NEW p, NEW S, NEW T, ArmBlock(p, S, W), S \subseteq T
  PROVE  ArmBlock(p, T, W)
BY DEF ArmBlock

LEMMA WaitsOfFewer ==
  ASSUME NEW p, NEW S, NEW T, WaitBlock(p, S), T \subseteq S
  PROVE  WaitBlock(p, T)
BY DEF WaitBlock

LEMMA ArmsJoin ==
  ASSUME NEW W, NEW p, NEW q, NEW S, NEW T,
         ArmBlock(p, S, W), ArmBlock(q, T, W), S \cap T = {}
  PROVE  ArmBlock(p \o q, S \cup T, W)
<1>1. PICK u : u = p \o q
  OBVIOUS
<1>2. Joins(u, p, q)
  BY <1>1, BlockSeqs, Joined
<1>3. PICK l, m : l = Len(p) /\ m = Len(q)
  OBVIOUS
<1>4. /\ l \in Nat /\ m \in Nat /\ Len(u) = l + m /\ IsSeq(u)
      /\ \A i \in 1..l : u[i] = p[i]
      /\ \A i \in 1..m : u[l + i] = q[i]
      /\ \A i \in 1..Len(u) : i <= l \/ \E j \in 1..m : i = l + j
  BY <1>2, <1>3 DEF Joins
<1>5. \A i \in 1..l : p[i].do = "arm" /\ p[i].agent \in S /\ p[i].work \in W
  BY <1>3 DEF ArmBlock
<1>6. \A i \in 1..m : q[i].do = "arm" /\ q[i].agent \in T /\ q[i].work \in W
  BY <1>3 DEF ArmBlock
<1>7. ASSUME NEW i \in 1..Len(u)
      PROVE  \/ i \in 1..l /\ u[i] = p[i]
             \/ \E j \in 1..m : i = l + j /\ u[i] = q[j]
  BY <1>4
<1>8. \A i \in 1..Len(u) :
        u[i].do = "arm" /\ u[i].agent \in S \cup T /\ u[i].work \in W
  BY <1>5, <1>6, <1>7
<1>9. ASSUME NEW i \in 1..Len(u), NEW j \in 1..Len(u), u[i].agent = u[j].agent
      PROVE  i = j
  <2>1. CASE i \in 1..l /\ u[i] = p[i] /\ j \in 1..l /\ u[j] = p[j]
    BY <1>3, <1>9, <2>1 DEF ArmBlock
  <2>2. CASE /\ \E k \in 1..m : i = l + k /\ u[i] = q[k]
             /\ \E k \in 1..m : j = l + k /\ u[j] = q[k]
    BY <1>3, <1>9, <2>2 DEF ArmBlock
  <2>3. CASE i \in 1..l /\ u[i] = p[i] /\ \E k \in 1..m : u[j] = q[k]
    BY <1>5, <1>6, <1>9, <2>3
  <2>4. CASE j \in 1..l /\ u[j] = p[j] /\ \E k \in 1..m : u[i] = q[k]
    BY <1>5, <1>6, <1>9, <2>4
  <2> QED
    BY <1>7, <2>1, <2>2, <2>3, <2>4
<1> QED
  BY <1>1, <1>4, <1>8, <1>9 DEF ArmBlock

LEMMA WaitsJoin ==
  ASSUME NEW p, NEW q, NEW S, NEW T, WaitBlock(p, S), WaitBlock(q, T)
  PROVE  WaitBlock(p \o q, S \cup T)
<1>1. PICK u : u = p \o q
  OBVIOUS
<1>2. Joins(u, p, q)
  BY <1>1, BlockSeqs, Joined
<1>3. PICK l, m : l = Len(p) /\ m = Len(q)
  OBVIOUS
<1>4. /\ l \in Nat /\ m \in Nat /\ Len(u) = l + m /\ IsSeq(u)
      /\ \A i \in 1..l : u[i] = p[i]
      /\ \A i \in 1..m : u[l + i] = q[i]
      /\ \A i \in 1..Len(u) : i <= l \/ \E j \in 1..m : i = l + j
  BY <1>2, <1>3 DEF Joins
<1>5. \A i \in 1..Len(u) : u[i].do = "wait"
  BY <1>3, <1>4 DEF WaitBlock
<1>6. ASSUME NEW a \in S PROVE \E i \in 1..Len(u) : u[i].agent = a
  <2>1. PICK i \in 1..l : p[i].agent = a
    BY <1>3 DEF WaitBlock
  <2>2. i \in 1..Len(u) /\ u[i] = p[i]
    BY <1>4
  <2> QED
    BY <2>1, <2>2
<1>7. ASSUME NEW a \in T PROVE \E i \in 1..Len(u) : u[i].agent = a
  <2>1. PICK i \in 1..m : q[i].agent = a
    BY <1>3 DEF WaitBlock
  <2>2. l + i \in 1..Len(u) /\ u[l + i] = q[i]
    BY <1>4
  <2> QED
    BY <2>1, <2>2
<1> QED
  BY <1>1, <1>4, <1>5, <1>6, <1>7 DEF WaitBlock

(* Blocks made of one block per rank (k = 2) or per queue (k = 3).         *)
Of(S, k, i) == {a \in S : a[k] = i}

(* Blocks for disjoint sets of agents, told apart by component k of their  *)
(* names, flatten to one block.                                            *)
LEMMA FlattenArms ==
  ASSUME NEW W, NEW m \in Nat, NEW s, s = [i \in 1..m |-> s[i]], NEW S, NEW k,
         \A i \in 1..m : ArmBlock(s[i], Of(S, k, i - 1), W)
  PROVE  ArmBlock(FlattenSeq(s), S, W)
<1>1. CASE m = 0
  BY <1>1, FlattenNothing, NoArms
<1>2. CASE m # 0
  <2>1. PICK f : Unfolds(f, s, m) /\ FlattenSeq(s) = f[m]
    BY <1>2, FlattenUnfolds
  <2>2. PICK U : U = [i \in 1..m |-> {a \in S : a[k] \in 0..(i - 1)}]
    OBVIOUS
  <2>3. PICK G : G = {i \in 1..m : ArmBlock(f[i], U[i], W)}
    OBVIOUS
  <2>4. 1 \in G
    <3>1. 1 \in 1..m
      BY <1>2
    <3>2. Of(S, k, 0) \subseteq U[1]
      BY <2>2, <3>1 DEF Of
    <3>3. ArmBlock(s[1], Of(S, k, 0), W)
      BY <3>1
    <3>4. ArmBlock(f[1], U[1], W)
      BY <2>1, <3>2, <3>3, ArmsOfMore DEF Unfolds
    <3> QED
      BY <2>3, <3>1, <3>4
  <2>5. ASSUME NEW i \in 2..m, i - 1 \in G PROVE i \in G
    <3>1. i \in 1..m /\ i - 1 \in 1..m
      OBVIOUS
    <3>2. ArmBlock(f[i - 1], U[i - 1], W) /\ ArmBlock(s[i], Of(S, k, i - 1), W)
      BY <2>3, <2>5, <3>1
    <3>3. \A x : x \in 0..((i - 1) - 1) => x # i - 1 /\ x \in 0..(i - 1)
      OBVIOUS
    <3>4. U[i - 1] \cap Of(S, k, i - 1) = {}
      BY <2>2, <3>1, <3>3 DEF Of
    <3>5. i - 1 \in 0..(i - 1)
      BY <3>1
    <3>6. U[i - 1] \cup Of(S, k, i - 1) \subseteq U[i]
      BY <2>2, <3>1, <3>3, <3>5 DEF Of
    <3>7. ArmBlock(f[i - 1] \o s[i], U[i - 1] \cup Of(S, k, i - 1), W)
      BY <3>2, <3>4, ArmsJoin
    <3>8. f[i] = f[i - 1] \o s[i]
      BY <2>1 DEF Unfolds
    <3>9. ArmBlock(f[i], U[i], W)
      BY <3>6, <3>7, <3>8, ArmsOfMore
    <3> QED
      BY <2>3, <3>1, <3>9
  <2>6. m \in G
    BY <1>2, <2>4, <2>5, Climb
  <2>7. ArmBlock(f[m], U[m], W) /\ U[m] \subseteq S
    BY <1>2, <2>2, <2>3, <2>6
  <2> QED
    BY <2>1, <2>7, ArmsOfMore
<1> QED
  BY <1>1, <1>2

LEMMA FlattenWaits ==
  ASSUME NEW m \in Nat, NEW s, s = [i \in 1..m |-> s[i]], NEW S, NEW k,
         \A i \in 1..m : WaitBlock(s[i], Of(S, k, i - 1)),
         \A a \in S : a[k] \in 0..(m - 1)
  PROVE  WaitBlock(FlattenSeq(s), S)
<1>1. CASE m = 0
  <2>1. S = {}
    BY <1>1
  <2> QED
    BY <1>1, <2>1, FlattenNothing, NoWaits
<1>2. CASE m # 0
  <2>1. PICK f : Unfolds(f, s, m) /\ FlattenSeq(s) = f[m]
    BY <1>2, FlattenUnfolds
  <2>2. PICK U : U = [i \in 1..m |-> {a \in S : a[k] \in 0..(i - 1)}]
    OBVIOUS
  <2>3. PICK G : G = {i \in 1..m : WaitBlock(f[i], U[i])}
    OBVIOUS
  <2>4. 1 \in G
    <3>1. 1 \in 1..m
      BY <1>2
    <3>2. U[1] \subseteq Of(S, k, 0)
      BY <2>2, <3>1 DEF Of
    <3>3. WaitBlock(s[1], Of(S, k, 0))
      BY <3>1
    <3>4. WaitBlock(f[1], U[1])
      BY <2>1, <3>2, <3>3, WaitsOfFewer DEF Unfolds
    <3> QED
      BY <2>3, <3>1, <3>4
  <2>5. ASSUME NEW i \in 2..m, i - 1 \in G PROVE i \in G
    <3>1. i \in 1..m /\ i - 1 \in 1..m
      OBVIOUS
    <3>2. WaitBlock(f[i - 1], U[i - 1]) /\ WaitBlock(s[i], Of(S, k, i - 1))
      BY <2>3, <2>5, <3>1
    <3>3. \A x : x \in 0..(i - 1) => x = i - 1 \/ x \in 0..((i - 1) - 1)
      BY <3>1
    <3>4. U[i] \subseteq U[i - 1] \cup Of(S, k, i - 1)
      BY <2>2, <3>1, <3>3 DEF Of
    <3>5. WaitBlock(f[i - 1] \o s[i], U[i - 1] \cup Of(S, k, i - 1))
      BY <3>2, WaitsJoin
    <3>6. f[i] = f[i - 1] \o s[i]
      BY <2>1 DEF Unfolds
    <3>7. WaitBlock(f[i], U[i])
      BY <3>4, <3>5, <3>6, WaitsOfFewer
    <3> QED
      BY <2>3, <3>1, <3>7
  <2>6. m \in G
    BY <1>2, <2>4, <2>5, Climb
  <2>7. WaitBlock(f[m], U[m])
    BY <2>3, <2>6
  <2>8. S \subseteq U[m]
    BY <1>2, <2>2
  <2> QED
    BY <2>1, <2>7, <2>8, WaitsOfFewer
<1> QED
  BY <1>1, <1>2

-----------------------------------------------------------------------------
(* A settled program on the agents of S: it waits for an agent after each  *)
(* time it arms it, and between an arm and a refill of the same agent.  All *)
(* work is of W.                                                           *)
Awaits(p, a, from, to) ==
  \E k \in from..to : p[k].do = "wait" /\ p[k].agent = a

ArmsAwaited(p, S) ==
  \A i \in 1..Len(p) : p[i].do = "arm" =>
    p[i].agent \in S /\ Awaits(p, p[i].agent, i + 1, Len(p))

WorkFrom(p, W) == \A i \in 1..Len(p) : p[i].do = "arm" => p[i].work \in W

RefillsSpaced(p) ==
  \A h, i \in 1..Len(p) :
    /\ h < i /\ p[h].do = "arm" /\ p[i].do = "arm"
    /\ p[i].refill /\ p[h].agent = p[i].agent
    => Awaits(p, p[i].agent, h + 1, i - 1)

Settled(p, S, W) ==
  IsSeq(p) /\ ArmsAwaited(p, S) /\ WorkFrom(p, W) /\ RefillsSpaced(p)

LEMMA SettledSeq == \A p, S, W : Settled(p, S, W) => IsSeq(p)
BY DEF Settled

LEMMA SettledNothing ==
  ASSUME NEW W, NEW S
  PROVE  Settled(<<>>, S, W)
BY EmptyIsSeq DEF Settled, ArmsAwaited, WorkFrom, RefillsSpaced

LEMMA SettledMore ==
  ASSUME NEW W, NEW p, NEW S, NEW T, Settled(p, S, W), S \subseteq T
  PROVE  Settled(p, T, W)
BY DEF Settled, ArmsAwaited

(* A round: arm some agents, then wait for them all.                       *)
LEMMA Round ==
  ASSUME NEW W, NEW p, NEW q, NEW S, ArmBlock(p, S, W), WaitBlock(q, S)
  PROVE  Settled(p \o q, S, W)
<1>1. PICK u : u = p \o q
  OBVIOUS
<1>2. Joins(u, p, q)
  BY <1>1, BlockSeqs, Joined
<1>3. PICK l, m : l = Len(p) /\ m = Len(q)
  OBVIOUS
<1>4. /\ l \in Nat /\ m \in Nat /\ Len(u) = l + m /\ IsSeq(u)
      /\ \A i \in 1..l : u[i] = p[i]
      /\ \A i \in 1..m : u[l + i] = q[i]
      /\ \A i \in 1..Len(u) : i <= l \/ \E j \in 1..m : i = l + j
  BY <1>2, <1>3 DEF Joins
<1>5. ASSUME NEW i \in 1..Len(u), u[i].do = "arm"
      PROVE  i \in 1..l /\ u[i] = p[i]
  <2>1. CASE i <= l
    BY <1>4, <2>1
  <2>2. CASE \E j \in 1..m : i = l + j
    BY <1>3, <1>4, <1>5, <2>2 DEF WaitBlock
  <2> QED
    BY <1>4, <2>1, <2>2
<1>6. ArmsAwaited(u, S)
  <2> SUFFICES ASSUME NEW i \in 1..Len(u), u[i].do = "arm"
               PROVE  u[i].agent \in S /\ Awaits(u, u[i].agent, i + 1, Len(u))
    BY DEF ArmsAwaited
  <2>1. i \in 1..l /\ u[i].agent \in S
    BY <1>3, <1>5 DEF ArmBlock
  <2>2. PICK j \in 1..m : q[j].agent = u[i].agent
    BY <1>3, <2>1 DEF WaitBlock
  <2>3. q[j].do = "wait"
    BY <1>3 DEF WaitBlock
  <2>4. l + j \in (i + 1)..Len(u) /\ u[l + j] = q[j]
    BY <1>4, <2>1
  <2> QED
    BY <2>1, <2>2, <2>3, <2>4 DEF Awaits
<1>7. RefillsSpaced(u)
  <2> SUFFICES ASSUME NEW h \in 1..Len(u), NEW i \in 1..Len(u), h < i,
                      u[h].do = "arm", u[i].do = "arm", u[h].agent = u[i].agent
               PROVE  FALSE
    BY DEF RefillsSpaced
  <2>1. h \in 1..l /\ i \in 1..l /\ p[h].agent = p[i].agent
    BY <1>5
  <2>2. h = i
    BY <1>3, <2>1 DEF ArmBlock
  <2> QED
    BY <1>4, <2>2
<1>8. WorkFrom(u, W)
  BY <1>3, <1>5 DEF WorkFrom, ArmBlock
<1> QED
  BY <1>1, <1>4, <1>6, <1>7, <1>8 DEF Settled

(* One settled program after another is settled.                           *)
LEMMA SettledJoin ==
  ASSUME NEW W, NEW p, NEW q, NEW S, Settled(p, S, W), Settled(q, S, W)
  PROVE  Settled(p \o q, S, W)
<1>1. PICK u : u = p \o q
  OBVIOUS
<1>2. Joins(u, p, q)
  BY <1>1, SettledSeq, Joined
<1>3. PICK l, m : l = Len(p) /\ m = Len(q)
  OBVIOUS
<1>4. /\ l \in Nat /\ m \in Nat /\ Len(u) = l + m /\ IsSeq(u)
      /\ \A i \in 1..l : u[i] = p[i]
      /\ \A i \in 1..m : u[l + i] = q[i]
      /\ \A i \in 1..Len(u) : i <= l \/ \E j \in 1..m : i = l + j
  BY <1>2, <1>3 DEF Joins
<1>5. ASSUME NEW i \in 1..Len(u)
      PROVE  \/ i \in 1..l /\ u[i] = p[i]
             \/ \E j \in 1..m : i = l + j /\ u[i] = q[j]
  BY <1>4
<1>6. ASSUME NEW a, NEW x \in Nat, NEW y \in Int, x >= 1, y <= l, Awaits(p, a, x, y)
      PROVE  Awaits(u, a, x, y)
  <2>1. PICK k \in x..y : p[k].do = "wait" /\ p[k].agent = a
    BY <1>6 DEF Awaits
  <2>2. k \in 1..l
    BY <1>4, <1>6
  <2>3. u[k] = p[k]
    BY <1>4, <2>2
  <2> QED
    BY <2>1, <2>3 DEF Awaits
<1>7. ASSUME NEW a, NEW x \in Nat, NEW y \in Int, x >= 1, y <= m, Awaits(q, a, x, y)
      PROVE  Awaits(u, a, l + x, l + y)
  <2>1. PICK k \in x..y : q[k].do = "wait" /\ q[k].agent = a
    BY <1>7 DEF Awaits
  <2>2. k \in 1..m /\ l + k \in (l + x)..(l + y)
    BY <1>4, <1>7
  <2>3. u[l + k] = q[k]
    BY <1>4, <2>2
  <2> QED
    BY <2>1, <2>2, <2>3 DEF Awaits
<1>8. ASSUME NEW a, NEW x \in Int, NEW y \in Int, NEW v \in Int, NEW w \in Int,
             Awaits(u, a, x, y), v <= x, y <= w
      PROVE  Awaits(u, a, v, w)
  <2>1. PICK k \in x..y : u[k].do = "wait" /\ u[k].agent = a
    BY <1>8 DEF Awaits
  <2>2. k \in v..w
    BY <1>8
  <2> QED
    BY <2>1, <2>2 DEF Awaits
<1>9. ArmsAwaited(u, S)
  <2> SUFFICES ASSUME NEW i \in 1..Len(u), u[i].do = "arm"
               PROVE  u[i].agent \in S /\ Awaits(u, u[i].agent, i + 1, Len(u))
    BY DEF ArmsAwaited
  <2>1. CASE i \in 1..l /\ u[i] = p[i]
    <3>1. u[i].agent \in S /\ Awaits(p, u[i].agent, i + 1, l)
      BY <1>3, <2>1 DEF Settled, ArmsAwaited
    <3>2. i + 1 \in Nat /\ i + 1 >= 1 /\ l \in Int /\ l <= l /\ l <= Len(u)
          /\ i + 1 <= i + 1 /\ Len(u) \in Int
      BY <1>4, <2>1
    <3>3. Awaits(u, u[i].agent, i + 1, l)
      BY <1>6, <3>1, <3>2
    <3> QED
      BY <1>8, <3>1, <3>2, <3>3
  <2>2. CASE \E j \in 1..m : i = l + j /\ u[i] = q[j]
    <3>1. PICK j \in 1..m : i = l + j /\ u[i] = q[j]
      BY <2>2
    <3>2. u[i].agent \in S /\ Awaits(q, u[i].agent, j + 1, m)
      BY <1>3, <3>1 DEF Settled, ArmsAwaited
    <3>3. j + 1 \in Nat /\ j + 1 >= 1 /\ m \in Int /\ m <= m
          /\ l + (j + 1) = i + 1 /\ l + m = Len(u)
      BY <1>4, <3>1
    <3> QED
      BY <1>7, <3>2, <3>3
  <2> QED
    BY <1>5, <2>1, <2>2
<1>10. RefillsSpaced(u)
  <2> SUFFICES ASSUME NEW h \in 1..Len(u), NEW i \in 1..Len(u), h < i,
                      u[h].do = "arm", u[i].do = "arm", u[i].refill,
                      u[h].agent = u[i].agent
               PROVE  Awaits(u, u[i].agent, h + 1, i - 1)
    BY DEF RefillsSpaced
  <2>1. CASE h \in 1..l /\ u[h] = p[h] /\ i \in 1..l /\ u[i] = p[i]
    <3>1. Awaits(p, u[i].agent, h + 1, i - 1)
      BY <1>3, <2>1 DEF Settled, RefillsSpaced
    <3>2. h + 1 \in Nat /\ h + 1 >= 1 /\ i - 1 \in Int /\ i - 1 <= l
      BY <1>4, <2>1
    <3> QED
      BY <1>6, <3>1, <3>2
  <2>2. CASE h \in 1..l /\ u[h] = p[h] /\ \E j \in 1..m : i = l + j
    <3>1. Awaits(p, u[h].agent, h + 1, l)
      BY <1>3, <2>2 DEF Settled, ArmsAwaited
    <3>2. h + 1 \in Nat /\ h + 1 >= 1 /\ l \in Int /\ l <= l
          /\ h + 1 <= h + 1 /\ l <= i - 1 /\ i - 1 \in Int
      BY <1>4, <2>2
    <3>3. Awaits(u, u[h].agent, h + 1, l)
      BY <1>6, <3>1, <3>2
    <3> QED
      BY <1>8, <3>2, <3>3
  <2>3. CASE /\ \E j \in 1..m : h = l + j /\ u[h] = q[j]
             /\ \E j \in 1..m : i = l + j /\ u[i] = q[j]
    <3>1. PICK v \in 1..m, w \in 1..m : h = l + v /\ u[h] = q[v] /\ i = l + w /\ u[i] = q[w]
      BY <2>3
    <3>2. v < w
      BY <1>4, <3>1
    <3>3. Awaits(q, u[i].agent, v + 1, w - 1)
      BY <1>3, <3>1, <3>2 DEF Settled, RefillsSpaced
    <3>4. v + 1 \in Nat /\ v + 1 >= 1 /\ w - 1 \in Int /\ w - 1 <= m
          /\ l + (v + 1) = h + 1 /\ l + (w - 1) = i - 1
      BY <1>4, <3>1
    <3> QED
      BY <1>7, <3>3, <3>4
  <2>4. ~(h > l /\ i <= l)
    BY <1>4
  <2> QED
    BY <1>4, <1>5, <2>1, <2>2, <2>3, <2>4
<1>11. WorkFrom(u, W)
  BY <1>3, <1>5 DEF Settled, WorkFrom
<1> QED
  BY <1>1, <1>4, <1>9, <1>10, <1>11 DEF Settled

(* A round that is open while a settled program runs on other agents.      *)
LEMMA Around ==
  ASSUME NEW W, NEW p, NEW q, NEW s, NEW S, NEW T,
         ArmBlock(p, S, W), Settled(q, T, W), WaitBlock(s, S), S \cap T = {}
  PROVE  Settled((p \o q) \o s, S \cup T, W)
<1>1. PICK v, u : v = p \o q /\ u = v \o s
  OBVIOUS
<1>2. Joins(v, p, q)
  BY <1>1, SettledSeq, BlockSeqs, Joined
<1>3. IsSeq(v)
  BY <1>2 DEF Joins
<1>4. Joins(u, v, s)
  BY <1>1, <1>3, BlockSeqs, Joined
<1>5. PICK l, m, n0 : l = Len(p) /\ m = Len(q) /\ n0 = Len(s)
  OBVIOUS
<1>6. /\ l \in Nat /\ m \in Nat /\ Len(v) = l + m
      /\ \A i \in 1..l : v[i] = p[i]
      /\ \A i \in 1..m : v[l + i] = q[i]
      /\ \A i \in 1..Len(v) : i <= l \/ \E j \in 1..m : i = l + j
  BY <1>2, <1>5 DEF Joins
<1>7. /\ n0 \in Nat /\ Len(u) = l + m + n0 /\ IsSeq(u)
      /\ \A i \in 1..(l + m) : u[i] = v[i]
      /\ \A i \in 1..n0 : u[l + m + i] = s[i]
      /\ \A i \in 1..Len(u) : i <= l + m \/ \E j \in 1..n0 : i = l + m + j
  BY <1>4, <1>5, <1>6 DEF Joins
<1>8. ASSUME NEW i \in 1..Len(u), u[i].do = "arm"
      PROVE  \/ i \in 1..l /\ u[i] = p[i] /\ u[i].agent \in S
             \/ \E j \in 1..m : i = l + j /\ u[i] = q[j] /\ u[i].agent \in T
  <2>1. CASE i <= l
    <3>1. i \in 1..l /\ i \in 1..(l + m)
      BY <1>6, <2>1
    <3>2. u[i] = p[i]
      BY <1>6, <1>7, <3>1
    <3> QED
      BY <1>5, <3>1, <3>2 DEF ArmBlock
  <2>2. CASE \E j \in 1..m : i = l + j
    <3>1. PICK j \in 1..m : i = l + j
      BY <2>2
    <3>2. i \in 1..(l + m)
      BY <1>6, <3>1
    <3>3. u[i] = q[j]
      BY <1>6, <1>7, <3>1, <3>2
    <3>4. q[j].agent \in T
      BY <1>5, <1>8, <3>3 DEF Settled, ArmsAwaited
    <3> QED
      BY <3>1, <3>3, <3>4
  <2>3. CASE \E j \in 1..n0 : i = l + m + j
    BY <1>5, <1>7, <1>8, <2>3 DEF WaitBlock
  <2>4. i <= l + m => i \in 1..Len(v)
    BY <1>6
  <2> QED
    BY <1>6, <1>7, <2>1, <2>2, <2>3, <2>4
<1>9. ASSUME NEW a, NEW x \in Nat, NEW y \in Int, x >= 1, y <= m, Awaits(q, a, x, y),
             NEW z \in Int, l + y <= z
      PROVE  Awaits(u, a, l + x, z)
  <2>1. PICK k \in x..y : q[k].do = "wait" /\ q[k].agent = a
    BY <1>9 DEF Awaits
  <2>2. k \in 1..m /\ l + k \in (l + x)..z /\ l + k \in 1..(l + m)
    BY <1>6, <1>9
  <2>3. u[l + k] = q[k]
    BY <1>6, <1>7, <2>2
  <2> QED
    BY <2>1, <2>2, <2>3 DEF Awaits
<1>10. ArmsAwaited(u, S \cup T)
  <2> SUFFICES ASSUME NEW i \in 1..Len(u), u[i].do = "arm"
               PROVE  u[i].agent \in S \cup T /\ Awaits(u, u[i].agent, i + 1, Len(u))
    BY DEF ArmsAwaited
  <2>1. CASE i \in 1..l /\ u[i] = p[i] /\ u[i].agent \in S
    <3>1. PICK j \in 1..n0 : s[j].agent = u[i].agent
      BY <1>5, <2>1 DEF WaitBlock
    <3>2. s[j].do = "wait"
      BY <1>5 DEF WaitBlock
    <3>3. l + m + j \in (i + 1)..Len(u) /\ u[l + m + j] = s[j]
      BY <1>6, <1>7, <2>1
    <3> QED
      BY <2>1, <3>1, <3>2, <3>3 DEF Awaits
  <2>2. CASE \E j \in 1..m : i = l + j /\ u[i] = q[j] /\ u[i].agent \in T
    <3>1. PICK j \in 1..m : i = l + j /\ u[i] = q[j] /\ u[i].agent \in T
      BY <2>2
    <3>2. Awaits(q, u[i].agent, j + 1, m)
      BY <1>5, <3>1 DEF Settled, ArmsAwaited
    <3>3. j + 1 \in Nat /\ j + 1 >= 1 /\ m \in Int /\ m <= m /\ l + (j + 1) = i + 1
          /\ l + m <= Len(u) /\ Len(u) \in Int
      BY <1>6, <1>7, <3>1
    <3> QED
      BY <1>9, <3>1, <3>2, <3>3
  <2> QED
    BY <1>8, <2>1, <2>2
<1>11. RefillsSpaced(u)
  <2> SUFFICES ASSUME NEW h \in 1..Len(u), NEW i \in 1..Len(u), h < i,
                      u[h].do = "arm", u[i].do = "arm", u[i].refill,
                      u[h].agent = u[i].agent
               PROVE  Awaits(u, u[i].agent, h + 1, i - 1)
    BY DEF RefillsSpaced
  <2>1. CASE h \in 1..l /\ u[h] = p[h] /\ i \in 1..l /\ u[i] = p[i]
    <3>1. h = i
      BY <1>5, <2>1 DEF ArmBlock
    <3> QED
      BY <1>6, <2>1, <3>1
  <2>2. CASE /\ \E j \in 1..m : h = l + j /\ u[h] = q[j]
             /\ \E j \in 1..m : i = l + j /\ u[i] = q[j]
    <3>1. PICK x \in 1..m, y \in 1..m : h = l + x /\ u[h] = q[x] /\ i = l + y /\ u[i] = q[y]
      BY <2>2
    <3>2. x < y
      BY <1>6, <3>1
    <3>3. Awaits(q, u[i].agent, x + 1, y - 1)
      BY <1>5, <3>1, <3>2 DEF Settled, RefillsSpaced
    <3>4. x + 1 \in Nat /\ x + 1 >= 1 /\ y - 1 \in Int /\ y - 1 <= m
          /\ l + (x + 1) = h + 1 /\ l + (y - 1) <= i - 1 /\ i - 1 \in Int
      BY <1>6, <3>1
    <3> QED
      BY <1>9, <3>3, <3>4
  <2> QED
    BY <1>8, <2>1, <2>2
<1>12. WorkFrom(u, W)
  BY <1>5, <1>8 DEF Settled, WorkFrom, ArmBlock
<1> QED
  BY <1>1, <1>7, <1>10, <1>11, <1>12 DEF Settled

(* So are any number of them.                                              *)
LEMMA FlattenSettled ==
  ASSUME NEW W, NEW m \in Nat, NEW s, s = [i \in 1..m |-> s[i]], NEW S,
         \A i \in 1..m : Settled(s[i], S, W)
  PROVE  Settled(FlattenSeq(s), S, W)
<1>1. CASE m = 0
  BY <1>1, FlattenNothing, SettledNothing
<1>2. CASE m # 0
  <2>1. PICK f : Unfolds(f, s, m) /\ FlattenSeq(s) = f[m]
    BY <1>2, FlattenUnfolds
  <2>2. PICK G : G = {i \in 1..m : Settled(f[i], S, W)}
    OBVIOUS
  <2>3. 1 \in G
    BY <1>2, <2>1, <2>2 DEF Unfolds
  <2>4. ASSUME NEW i \in 2..m, i - 1 \in G PROVE i \in G
    <3>1. i \in 1..m /\ Settled(f[i - 1], S, W)
      BY <2>2, <2>4
    <3>2. f[i] = f[i - 1] \o s[i]
      BY <2>1 DEF Unfolds
    <3>3. Settled(f[i], S, W)
      BY <3>1, <3>2, SettledJoin
    <3> QED
      BY <2>2, <3>1, <3>3
  <2>5. m \in G
    BY <1>2, <2>3, <2>4, Climb
  <2> QED
    BY <2>1, <2>2, <2>5
<1> QED
  BY <1>1, <1>2

(* Commands that refill nothing may be given before the agent has drained. *)
Plain(p) == \A i \in 1..Len(p) : p[i].refill = FALSE

LEMMA PlainJoin ==
  ASSUME NEW u, NEW p, NEW q, Joins(u, p, q), Plain(p), Plain(q)
  PROVE  Plain(u)
<1> SUFFICES ASSUME NEW i \in 1..Len(u) PROVE u[i].refill = FALSE
  BY DEF Plain
<1>1. CASE i <= Len(p)
  <2>1. i \in 1..Len(p) /\ u[i] = p[i]
    BY <1>1 DEF Joins
  <2> QED
    BY <2>1 DEF Plain
<1>2. CASE \E j \in 1..Len(q) : i = Len(p) + j
  <2>1. PICK j \in 1..Len(q) : i = Len(p) + j
    BY <1>2
  <2>2. u[i] = q[j]
    BY <2>1 DEF Joins
  <2> QED
    BY <2>1, <2>2 DEF Plain
<1> QED
  BY <1>1, <1>2 DEF Joins

LEMMA FlattenPlain ==
  ASSUME NEW m \in Nat, NEW s, s = [i \in 1..m |-> s[i]],
         \A i \in 1..m : IsSeq(s[i]) /\ Plain(s[i])
  PROVE  Plain(FlattenSeq(s))
<1>1. CASE m = 0
  BY <1>1, FlattenNothing DEF Plain
<1>2. CASE m # 0
  <2>1. PICK f : Unfolds(f, s, m) /\ FlattenSeq(s) = f[m]
    BY <1>2, FlattenUnfolds
  <2>2. PICK G : G = {i \in 1..m : IsSeq(f[i]) /\ Plain(f[i])}
    OBVIOUS
  <2>3. 1 \in G
    BY <1>2, <2>1, <2>2 DEF Unfolds
  <2>4. ASSUME NEW i \in 2..m, i - 1 \in G PROVE i \in G
    <3>1. i \in 1..m /\ IsSeq(f[i - 1]) /\ Plain(f[i - 1]) /\ IsSeq(s[i]) /\ Plain(s[i])
      BY <2>2, <2>4
    <3>2. f[i] = f[i - 1] \o s[i]
      BY <2>1 DEF Unfolds
    <3>3. Joins(f[i], f[i - 1], s[i])
      BY <3>1, <3>2, Joined
    <3>4. IsSeq(f[i]) /\ Plain(f[i])
      BY <3>1, <3>3, PlainJoin DEF Joins
    <3> QED
      BY <2>2, <3>1, <3>4
  <2>5. m \in G
    BY <1>2, <2>3, <2>4, Climb
  <2> QED
    BY <2>1, <2>2, <2>5
<1> QED
  BY <1>1, <1>2

LEMMA OnePlain ==
  ASSUME NEW a, NEW w
  PROVE  IsSeq(Arm(a, w)) /\ Plain(Arm(a, w)) /\ IsSeq(<<>>) /\ Plain(<<>>)
<1>1. ASSUME NEW c, c.refill = FALSE PROVE Plain(<<c>>)
  BY <1>1 DEF Plain
<1> QED
  BY <1>1, OneIsSeq, EmptyIsSeq DEF Arm, Plain

(* Agents armed twice before they are waited for, the second time without  *)
(* a refill.                                                               *)
LEMMA FollowUp ==
  ASSUME NEW W, NEW p, NEW q, NEW s, NEW S,
         ArmBlock(p, S, W), ArmBlock(q, S, W), Plain(q), WaitBlock(s, S)
  PROVE  Settled(p \o (q \o s), S, W)
<1>1. PICK v, u : v = q \o s /\ u = p \o v
  OBVIOUS
<1>2. Settled(v, S, W)
  BY <1>1, Round
<1>3. Joins(v, q, s)
  BY <1>1, BlockSeqs, Joined
<1>4. Joins(u, p, v)
  BY <1>1, <1>2, BlockSeqs, SettledSeq, Joined
<1>5. PICK l, m : l = Len(p) /\ m = Len(v)
  OBVIOUS
<1>6. /\ l \in Nat /\ m \in Nat /\ Len(u) = l + m /\ IsSeq(u)
      /\ \A i \in 1..l : u[i] = p[i]
      /\ \A i \in 1..m : u[l + i] = v[i]
      /\ \A i \in 1..Len(u) : i <= l \/ \E j \in 1..m : i = l + j
  BY <1>4, <1>5 DEF Joins
<1>7. ASSUME NEW i \in 1..m, v[i].do = "arm" PROVE v[i].refill = FALSE
  <2>1. CASE i <= Len(q)
    <3>1. i \in 1..Len(q) /\ v[i] = q[i]
      BY <1>3, <1>5, <2>1 DEF Joins
    <3> QED
      BY <3>1 DEF Plain
  <2>2. CASE \E j \in 1..Len(s) : i = Len(q) + j
    <3>1. PICK j \in 1..Len(s) : i = Len(q) + j
      BY <2>2
    <3>2. v[i] = s[j]
      BY <1>3, <3>1 DEF Joins
    <3> QED
      BY <1>7, <3>1, <3>2 DEF WaitBlock
  <2> QED
    BY <1>3, <1>5, <2>1, <2>2 DEF Joins
<1>8. ASSUME NEW a \in S PROVE \E j \in 1..m : v[j].do = "wait" /\ v[j].agent = a
  <2>1. PICK j \in 1..Len(s) : s[j].agent = a
    BY DEF WaitBlock
  <2>2. s[j].do = "wait"
    BY DEF WaitBlock
  <2>3. Len(q) + j \in 1..m /\ v[Len(q) + j] = s[j]
    BY <1>3, <1>5 DEF Joins
  <2> QED
    BY <2>1, <2>2, <2>3
<1>9. ASSUME NEW i \in 1..Len(u)
      PROVE  \/ i \in 1..l /\ u[i] = p[i]
             \/ \E j \in 1..m : i = l + j /\ u[i] = v[j]
  BY <1>6
<1>10. ArmsAwaited(u, S)
  <2> SUFFICES ASSUME NEW i \in 1..Len(u), u[i].do = "arm"
               PROVE  u[i].agent \in S /\ Awaits(u, u[i].agent, i + 1, Len(u))
    BY DEF ArmsAwaited
  <2>1. CASE i \in 1..l /\ u[i] = p[i]
    <3>1. u[i].agent \in S
      BY <1>5, <2>1 DEF ArmBlock
    <3>2. PICK j \in 1..m : v[j].do = "wait" /\ v[j].agent = u[i].agent
      BY <1>8, <3>1
    <3>3. l + j \in (i + 1)..Len(u) /\ u[l + j] = v[j]
      BY <1>6, <2>1
    <3> QED
      BY <3>1, <3>2, <3>3 DEF Awaits
  <2>2. CASE \E j \in 1..m : i = l + j /\ u[i] = v[j]
    <3>1. PICK j \in 1..m : i = l + j /\ u[i] = v[j]
      BY <2>2
    <3>2. u[i].agent \in S /\ Awaits(v, u[i].agent, j + 1, m)
      BY <1>2, <1>5, <3>1 DEF Settled, ArmsAwaited
    <3>3. PICK k \in (j + 1)..m : v[k].do = "wait" /\ v[k].agent = u[i].agent
      BY <3>2 DEF Awaits
    <3>4. k \in 1..m /\ l + k \in (i + 1)..Len(u) /\ u[l + k] = v[k]
      BY <1>6, <3>1
    <3> QED
      BY <3>2, <3>3, <3>4 DEF Awaits
  <2> QED
    BY <1>9, <2>1, <2>2
<1>11. RefillsSpaced(u)
  <2> SUFFICES ASSUME NEW h \in 1..Len(u), NEW i \in 1..Len(u), h < i,
                      u[h].do = "arm", u[i].do = "arm", u[i].refill,
                      u[h].agent = u[i].agent
               PROVE  FALSE
    BY DEF RefillsSpaced
  <2>1. i \in 1..l /\ u[i] = p[i]
    BY <1>7, <1>9
  <2>2. h \in 1..l /\ u[h] = p[h]
    BY <1>6, <2>1
  <2>3. h = i
    BY <1>5, <2>1, <2>2 DEF ArmBlock
  <2> QED
    BY <1>6, <2>1, <2>3
<1>12. WorkFrom(u, W)
  <2> SUFFICES ASSUME NEW i \in 1..Len(u), u[i].do = "arm" PROVE u[i].work \in W
    BY DEF WorkFrom
  <2>1. CASE i \in 1..l /\ u[i] = p[i]
    BY <1>5, <2>1 DEF ArmBlock
  <2>2. CASE \E j \in 1..m : i = l + j /\ u[i] = v[j]
    BY <1>2, <1>5, <2>2 DEF Settled, WorkFrom
  <2> QED
    BY <1>9, <2>1, <2>2
<1> QED
  BY <1>1, <1>6, <1>10, <1>11, <1>12 DEF Settled

-----------------------------------------------------------------------------
(* What agents may be given to do: sums within the memory of the group,    *)
(* signals and waits on its words, with values of at most s.               *)
GroupAssumption == r \in Nat \ {0} /\ Capacity \in Nat \ {0}

Extent(k) == IF k = "buf" THEN Groups(Capacity) ELSE r * Clv(Capacity)
Mems == {"buf", "stage", "stage_b"} \X Ranks
InMemory(l, len) ==
  l \in [mem : Mems, at : Nat] /\ l.at + len <= Extent(l.mem[1])

SumOps ==
  {o \in [op : {"sum"}, from : SUBSET [mem : Mems, at : Nat],
          to : [mem : Mems, at : Nat], len : Nat \ {0}] :
     InMemory(o.to, o.len) /\ \A l \in o.from : InMemory(l, o.len)}
WordOps(s) == [op : {"signal", "await"}, word : Words(r), val : 1..s]
Ops(s) == SumOps \cup WordOps(s)
Works(s) == Seq(SUBSET Ops(s))

LEMMA WorkOne ==
  ASSUME NEW s, NEW P, P \subseteq Ops(s)
  PROVE  <<P>> \in Works(s)
BY DEF Works

LEMMA WorkJoin ==
  ASSUME NEW s, NEW w \in Works(s), NEW v \in Works(s)
  PROVE  w \o v \in Works(s)
BY ConcatProperties DEF Works

LEMMA WorkFlatten ==
  ASSUME NEW s, NEW m \in Nat, NEW w, w = [i \in 1..m |-> w[i]],
         \A i \in 1..m : w[i] \in Works(s)
  PROVE  FlattenSeq(w) \in Works(s)
<1>1. CASE m = 0
  BY <1>1, FlattenNothing, EmptySeq DEF Works
<1>2. CASE m # 0
  <2>1. PICK f : Unfolds(f, w, m) /\ FlattenSeq(w) = f[m]
    BY <1>2, FlattenUnfolds
  <2>2. PICK G : G = {i \in 1..m : f[i] \in Works(s)}
    OBVIOUS
  <2>3. 1 \in G
    BY <1>2, <2>1, <2>2 DEF Unfolds
  <2>4. ASSUME NEW i \in 2..m, i - 1 \in G PROVE i \in G
    <3>1. i \in 1..m /\ f[i - 1] \in Works(s) /\ w[i] \in Works(s)
      BY <2>2, <2>4
    <3>2. f[i] = f[i - 1] \o w[i]
      BY <2>1 DEF Unfolds
    <3>3. f[i] \in Works(s)
      BY <3>1, <3>2, WorkJoin
    <3> QED
      BY <2>2, <3>1, <3>3
  <2>5. m \in G
    BY <1>2, <2>3, <2>4, Climb
  <2> QED
    BY <2>1, <2>2, <2>5
<1> QED
  BY <1>1, <1>2

LEMMA SumIn ==
  ASSUME NEW s, NEW srcs, NEW dst, NEW len \in Nat,
         len > 0 => InMemory(dst, len) /\ \A l \in srcs : InMemory(l, len)
  PROVE  Sum(srcs, dst, len) \subseteq Ops(s)
<1>1. CASE len = 0
  BY <1>1 DEF Sum
<1>2. CASE len # 0
  <2>1. dst \in [mem : Mems, at : Nat] /\ srcs \subseteq [mem : Mems, at : Nat]
    BY <1>2 DEF InMemory
  <2>2. PICK o : o = [op |-> "sum", from |-> srcs, to |-> dst, len |-> len]
    OBVIOUS
  <2>3. o \in SumOps
    BY <1>2, <2>1, <2>2 DEF SumOps
  <2>4. Sum(srcs, dst, len) = {o}
    BY <1>2, <2>2 DEF Sum
  <2> QED
    BY <2>3, <2>4 DEF Ops
<1> QED
  BY <1>1, <1>2

LEMMA CopyIn ==
  ASSUME NEW s, NEW src, NEW dst, NEW len \in Nat,
         len > 0 => InMemory(dst, len) /\ InMemory(src, len)
  PROVE  Copy(src, dst, len) \subseteq Ops(s)
BY SumIn DEF Copy

LEMMA BufIn ==
  ASSUME NEW g \in Ranks, NEW at \in Nat, NEW len \in Nat,
         at + len <= Groups(Capacity)
  PROVE  InMemory(Buf(g, at), len)
BY DEF InMemory, Buf, Mems, Extent

LEMMA StageIn ==
  ASSUME NEW k \in {"stage", "stage_b"}, NEW g \in Ranks, NEW at \in Nat, NEW len \in Nat,
         at + len <= r * Clv(Capacity)
  PROVE  InMemory(StageOf(k, g, at), len)
BY DEF InMemory, StageOf, Mems, Extent

LEMMA WordIn ==
  ASSUME NEW s \in Nat, NEW v \in 1..s
  PROVE  /\ \A w \in Words(r) : Signal(w, v) \subseteq Ops(s) /\ Await(w, v) \subseteq Ops(s)
         /\ \A g, h \in Ranks : Flag(g, h) \in Words(r)
         /\ \A g \in Ranks, i \in 0..(2 * r) : Sem(g, i) \in Words(r)
<1>1. ASSUME NEW w \in Words(r)
      PROVE  Signal(w, v) \subseteq Ops(s) /\ Await(w, v) \subseteq Ops(s)
  BY DEF Signal, Await, Ops, WordOps
<1>2. \A g, h \in Ranks : Flag(g, h) \in Words(r)
  BY DEF Flag, Words, Ranks
<1>3. \A g \in Ranks, i \in 0..(2 * r) : Sem(g, i) \in Words(r)
  BY DEF Sem, Words, Ranks
<1> QED
  BY <1>1, <1>2, <1>3

-----------------------------------------------------------------------------
(* Where the shares of a vector lie, in groups of four.                    *)
ShareFacts(len) ==
  /\ Clv(len) \in Nat
  /\ r * Clv(len) \in Nat /\ r * Clv(Capacity) \in Nat
  /\ r * Clv(len) <= r * Clv(Capacity)
  /\ Groups(len) \in Nat /\ Groups(Capacity) \in Nat
  /\ Groups(len) <= Groups(Capacity)
  /\ \A c \in Ranks :
       /\ c \in Nat /\ c * Clv(len) \in Nat
       /\ c * Clv(len) + Clv(len) <= r * Clv(len)
       /\ Len4(c, len) \in 0..Clv(len)
       /\ Len4(c, len) > 0 => c * Clv(len) + Len4(c, len) <= Groups(len)

LEMMA ClvIs ==
  ASSUME GroupAssumption, NEW len \in Nat
  PROVE  /\ Clv(len) \in Nat /\ ChunkLength(len, r) = 4 * Clv(len)
         /\ len <= r * (4 * Clv(len))
<1>1. PICK m \in Nat : ChunkLength(len, r) = 4 * m
  BY ChunkLengthCovers DEF GroupAssumption
<1>2. (4 * m) \div 4 = m
  OBVIOUS
<1>3. len <= r * ChunkLength(len, r)
  BY ChunkLengthCovers DEF GroupAssumption
<1> QED
  BY <1>1, <1>2, <1>3 DEF Clv

LEMMA Products ==
  ASSUME NEW a \in Nat, NEW b \in Nat, NEW c \in Nat, a < b
  PROVE  a * c \in Nat /\ a * c + c <= b * c
<1>1. (a + 1) * c <= b * c
  OBVIOUS
<1> QED
  BY <1>1

(* The shares of a vector that fits the buffers fit them too.              *)
LEMMA ShareSizes ==
  ASSUME GroupAssumption, NEW len \in 0..Capacity
  PROVE  ShareFacts(len)
<1>1. len \in Nat /\ Capacity \in Nat /\ len <= Capacity /\ r \in Nat \ {0}
  BY DEF GroupAssumption
<1>2. PICK v, w \in Nat : /\ v = Clv(len) /\ w = Clv(Capacity)
                          /\ ChunkLength(len, r) = 4 * v
                          /\ ChunkLength(Capacity, r) = 4 * w
  BY <1>1, ClvIs
<1>3. v <= w
  BY <1>1, <1>2, ChunkLengthMonotone
<1>4. r * v <= r * w /\ r * v \in Nat /\ r * w \in Nat
  BY <1>1, <1>3
<1>5. Groups(len) \in Nat /\ Groups(Capacity) \in Nat /\ Groups(len) <= Groups(Capacity)
  BY <1>1 DEF Groups, CeilDiv
<1>6. ASSUME NEW c \in Ranks
      PROVE  /\ c \in Nat /\ c * v \in Nat /\ c * v + v <= r * v
             /\ Len4(c, len) \in 0..v
             /\ Len4(c, len) > 0 => c * v + Len4(c, len) <= Groups(len)
  <2>1. c \in Nat /\ c < r
    BY <1>1 DEF Ranks
  <2>2. c * v \in Nat /\ c * v + v <= r * v
    BY <1>1, <2>1, Products
  <2>3. PICK q \in Nat : q = c * v
    BY <2>2
  <2>4. c * (4 * v) = 4 * q
    BY <2>1, <2>3
  <2>5. ChunkLen(c, 4 * v, len) = IF 4 * q >= len THEN 0 ELSE Lesser(4 * v, len - 4 * q)
    BY <2>4 DEF ChunkLen
  <2>6. PICK k \in Nat : /\ k = ChunkLen(c, 4 * v, len) /\ k <= 4 * v
                         /\ k > 0 => k <= len - 4 * q
    BY <1>1, <2>5 DEF Lesser
  <2>7. Len4(c, len) = (k + 3) \div 4
    BY <1>2, <2>6 DEF Len4, Groups, CeilDiv
  <2>8. Groups(len) = (len + 3) \div 4
    BY <1>1 DEF Groups, CeilDiv
  <2>9. (k + 3) \div 4 \in 0..v
    BY <2>6
  <2>10. (k + 3) \div 4 > 0 => q + ((k + 3) \div 4) <= (len + 3) \div 4
    BY <1>1, <2>6
  <2> QED
    BY <2>1, <2>2, <2>3, <2>7, <2>8, <2>9, <2>10
<1> QED
  BY <1>2, <1>4, <1>5, <1>6 DEF ShareFacts

LEMMA ShareInBuffer ==
  ASSUME NEW len, ShareFacts(len), NEW c \in Ranks
  PROVE  /\ c * Clv(len) \in Nat /\ Len4(c, len) \in Nat
         /\ Len4(c, len) > 0 => c * Clv(len) + Len4(c, len) <= Groups(Capacity)
<1>1. PICK a, b, d, e : a = c * Clv(len) /\ b = Len4(c, len) /\ d = Groups(len) /\ e = Groups(Capacity)
  OBVIOUS
<1>2. a \in Nat /\ d \in Nat /\ e \in Nat /\ d <= e
  BY <1>1 DEF ShareFacts
<1>3. b \in Nat
  <2>1. Clv(len) \in Nat /\ b \in 0..Clv(len)
    BY <1>1 DEF ShareFacts
  <2> QED
    BY <2>1
<1>4. b > 0 => a + b <= d
  BY <1>1 DEF ShareFacts
<1>5. b > 0 => a + b <= e
  BY <1>2, <1>3, <1>4
<1> QED
  BY <1>1, <1>2, <1>3, <1>5

LEMMA SlotInStaging ==
  ASSUME NEW len, ShareFacts(len), NEW c \in Ranks, NEW g \in Ranks
  PROVE  0 + g * Clv(len) + Len4(c, len) <= r * Clv(Capacity)
<1>1. PICK a, b, d, e, f :
        /\ a = g * Clv(len) /\ b = Clv(len) /\ d = r * Clv(len)
        /\ e = r * Clv(Capacity) /\ f = Len4(c, len)
  OBVIOUS
<1>2. a \in Nat /\ b \in Nat /\ d \in Nat /\ e \in Nat /\ f \in 0..b
      /\ a + b <= d /\ d <= e
  BY <1>1 DEF ShareFacts
<1> QED
  BY <1>1, <1>2

(* The same for the part of a vector that begins at group base.            *)
LEMMA ShareInBase ==
  ASSUME NEW len, ShareFacts(len), NEW c \in Ranks,
         NEW base \in Nat, base + Groups(len) <= Groups(Capacity)
  PROVE  /\ c * Clv(len) \in Nat /\ Len4(c, len) \in Nat
         /\ Len4(c, len) > 0 => base + c * Clv(len) + Len4(c, len) <= Groups(Capacity)
<1>1. PICK a, b, d, e : a = c * Clv(len) /\ b = Len4(c, len) /\ d = Groups(len) /\ e = Groups(Capacity)
  OBVIOUS
<1>2. a \in Nat /\ b \in Nat
  BY <1>1, ShareInBuffer
<1>3. d \in Nat /\ e \in Nat /\ base + d <= e
  BY <1>1 DEF ShareFacts
<1>4. b > 0 => a + b <= d
  BY <1>1 DEF ShareFacts
<1>5. b > 0 => base + a + b <= e
  BY <1>2, <1>3, <1>4
<1> QED
  BY <1>1, <1>2, <1>5

-----------------------------------------------------------------------------
(* The work of each kernel is in bounds.                                   *)
LEMMA ReducePeersWork ==
  ASSUME NEW s, NEW g \in Ranks, NEW at \in Nat, NEW len \in Nat,
         len > 0 => at + len <= Groups(Capacity)
  PROVE  ReducePeers(g, at, len) \in Works(s)
<1>1. len > 0 => \A p \in Ranks : InMemory(Buf(p, at), len)
  BY BufIn
<1>2. PICK srcs : srcs = {Buf(p, at) : p \in Ranks}
  OBVIOUS
<1>3. Sum(srcs, Buf(g, at), len) \subseteq Ops(s)
  BY <1>1, <1>2, SumIn
<1> QED
  BY <1>2, <1>3, WorkOne DEF ReducePeers

LEMMA ReduceScatterWork ==
  ASSUME NEW s, NEW len, ShareFacts(len), NEW g \in Ranks
  PROVE  ReduceScatter(g, len) \in Works(s)
<1>1. /\ g * Clv(len) \in Nat /\ Len4(g, len) \in Nat
      /\ Len4(g, len) > 0 => g * Clv(len) + Len4(g, len) <= Groups(Capacity)
  BY ShareInBuffer
<1> QED
  BY <1>1, ReducePeersWork DEF ReduceScatter

LEMMA BroadcastPeersWork ==
  ASSUME NEW s, NEW len, ShareFacts(len), GroupAssumption
  PROVE  BroadcastPeers(len) \in Works(s)
<1>1. 0 \in Ranks
  BY DEF GroupAssumption, Ranks
<1>2. ASSUME NEW p \in Ranks PROVE Copy(Buf(0, 0), Buf(p, 0), Groups(len)) \subseteq Ops(s)
  <2>1. Groups(len) \in Nat /\ 0 + Groups(len) <= Groups(Capacity)
    BY DEF ShareFacts
  <2> QED
    BY <1>1, <2>1, BufIn, CopyIn
<1>3. \A T \in SUBSET Ranks :
        UNION {Copy(Buf(0, 0), Buf(p, 0), Groups(len)) : p \in T} \subseteq Ops(s)
  BY <1>2
<1> QED
  BY <1>3, WorkOne DEF BroadcastPeers

LEMMA ShareCopy ==
  ASSUME NEW s, NEW len, ShareFacts(len), NEW c \in Ranks, NEW g \in Ranks, NEW p \in Ranks
  PROVE  /\ Copy(Buf(g, c * Clv(len)), Buf(p, c * Clv(len)), Len4(c, len)) \subseteq Ops(s)
         /\ Copy(Buf(g, c * Clv(len)), Stage(c, g * Clv(len)), Len4(c, len)) \subseteq Ops(s)
<1>1. /\ c * Clv(len) \in Nat /\ Len4(c, len) \in Nat /\ g * Clv(len) \in Nat
      /\ Len4(c, len) > 0 => c * Clv(len) + Len4(c, len) <= Groups(Capacity)
  BY ShareInBuffer
<1>2. g * Clv(len) + Len4(c, len) <= r * Clv(Capacity)
  <2>1. 0 + g * Clv(len) + Len4(c, len) <= r * Clv(Capacity)
    BY SlotInStaging
  <2> QED
    BY <1>1, <2>1
<1>3. Len4(c, len) > 0 => /\ InMemory(Buf(g, c * Clv(len)), Len4(c, len))
                          /\ InMemory(Buf(p, c * Clv(len)), Len4(c, len))
  BY <1>1, BufIn
<1>4. InMemory(StageOf("stage", c, g * Clv(len)), Len4(c, len))
  BY <1>1, <1>2, StageIn
<1> QED
  BY <1>1, <1>3, <1>4, CopyIn DEF Stage

LEMMA BroadcastChunkWork ==
  ASSUME NEW s, NEW len, ShareFacts(len), NEW g \in Ranks
  PROVE  BroadcastChunkSkipOwner(g, len) \in Works(s)
<1>1. UNION {Copy(Buf(g, g * Clv(len)), Buf(p, g * Clv(len)), Len4(g, len)) :
               p \in Ranks \ {g}} \subseteq Ops(s)
  BY ShareCopy
<1> QED
  BY <1>1, WorkOne DEF BroadcastChunkSkipOwner

LEMMA ScatterWork ==
  ASSUME NEW s, NEW len, ShareFacts(len), NEW g \in Ranks
  PROVE  ScatterToStaging(g, len) \in Works(s)
<1>1. UNION {Copy(Buf(g, c * Clv(len)), Stage(c, g * Clv(len)), Len4(c, len)) :
               c \in Ranks} \subseteq Ops(s)
  BY ShareCopy
<1> QED
  BY <1>1, WorkOne DEF ScatterToStaging

LEMMA AllGatherWork ==
  ASSUME NEW s, NEW len, ShareFacts(len), NEW g \in Ranks
  PROVE  AllGather(g, len) \in Works(s)
<1>1. UNION {Copy(Buf(c, c * Clv(len)), Buf(g, c * Clv(len)), Len4(c, len)) :
               c \in Ranks \ {g}} \subseteq Ops(s)
  BY ShareCopy
<1> QED
  BY <1>1, WorkOne DEF AllGather

(* Staging slots clv apart, read from "at" on.                             *)
LEMMA GatherReduceWork ==
  ASSUME NEW s, NEW k \in {"stage", "stage_b"}, NEW g \in Ranks, NEW h \in Ranks,
         NEW at \in Nat, NEW to \in Nat, NEW clv \in Nat, NEW len \in Nat,
         len > 0 => to + len <= Groups(Capacity),
         len > 0 => \A p \in Ranks : at + p * clv + len <= r * Clv(Capacity)
  PROVE  GatherReduceLocal(StageOf(k, g, at), Buf(h, to), clv, len) \in Works(s)
<1>1. PICK srcs : srcs = {[StageOf(k, g, at) EXCEPT !.at = @ + p * clv] : p \in Ranks}
  OBVIOUS
<1>2. ASSUME len > 0, NEW p \in Ranks
      PROVE  InMemory([StageOf(k, g, at) EXCEPT !.at = @ + p * clv], len)
  <2>1. p \in Nat
    BY DEF Ranks
  <2>2. p * clv \in Nat
    BY <2>1
  <2>3. PICK q \in Nat : q = at + p * clv
    BY <2>2
  <2>4. [StageOf(k, g, at) EXCEPT !.at = @ + p * clv] = StageOf(k, g, q)
    BY <2>3 DEF StageOf
  <2>5. q + len <= r * Clv(Capacity)
    BY <1>2, <2>3
  <2> QED
    BY <2>3, <2>4, <2>5, StageIn
<1>3. len > 0 => InMemory(Buf(h, to), len) /\ \A l \in srcs : InMemory(l, len)
  BY <1>1, <1>2, BufIn
<1>4. Sum(srcs, Buf(h, to), len) \subseteq Ops(s)
  BY <1>3, SumIn
<1> QED
  BY <1>1, <1>4, WorkOne DEF GatherReduceLocal

LEMMA OwnReduceWork ==
  ASSUME NEW s, NEW k \in {"stage", "stage_b"}, NEW len, ShareFacts(len), NEW g \in Ranks
  PROVE  GatherReduceLocal(StageOf(k, g, 0), Buf(g, g * Clv(len)), Clv(len), Len4(g, len))
           \in Works(s)
<1>1. /\ g * Clv(len) \in Nat /\ Len4(g, len) \in Nat
      /\ Len4(g, len) > 0 => g * Clv(len) + Len4(g, len) <= Groups(Capacity)
  BY ShareInBuffer
<1>2. Clv(len) \in Nat /\ 0 \in Nat
  BY DEF ShareFacts
<1>3. \A p \in Ranks : 0 + p * Clv(len) + Len4(g, len) <= r * Clv(Capacity)
  BY SlotInStaging
<1> QED
  BY <1>1, <1>2, <1>3, GatherReduceWork

(* Shares that are all of clv groups.                                      *)
EqualShares(clv) ==
  /\ clv \in Nat /\ Groups(Capacity) \in Nat /\ r * Clv(Capacity) \in Nat
  /\ \A c \in Ranks :
       /\ c * clv \in Nat
       /\ c * clv + clv <= Groups(Capacity)
       /\ c * clv + clv <= r * Clv(Capacity)

(* A part of share c, from "from" on, is in every buffer and in every slot *)
(* of the staging buffers.                                                 *)
LEMMA PartIn ==
  ASSUME NEW clv, EqualShares(clv), NEW c \in Ranks, NEW g \in Ranks,
         NEW k \in {"stage", "stage_b"},
         NEW from \in Nat, NEW len \in Nat, from + len <= clv
  PROVE  /\ c * clv + from \in Nat /\ c * clv \in Nat
         /\ InMemory(Buf(g, c * clv + from), len)
         /\ InMemory(StageOf(k, g, c * clv + from), len)
<1>1. PICK a, e, d : a = c * clv /\ e = Groups(Capacity) /\ d = r * Clv(Capacity)
  OBVIOUS
<1>2. /\ a \in Nat /\ e \in Nat /\ d \in Nat /\ clv \in Nat
      /\ a + clv <= e /\ a + clv <= d
  BY <1>1 DEF EqualShares
<1>3. a + from \in Nat /\ (a + from) + len <= e /\ (a + from) + len <= d
  BY <1>2
<1> QED
  BY <1>1, <1>2, <1>3, BufIn, StageIn

LEMMA PartInPlace ==
  ASSUME NEW clv, EqualShares(clv), NEW c \in Ranks, NEW g \in Ranks,
         NEW k \in {"stage", "stage_b"}, NEW len \in Nat, len <= clv
  PROVE  /\ InMemory(Buf(g, c * clv), len)
         /\ InMemory(StageOf(k, g, c * clv), len)
<1>1. /\ c * clv + 0 \in Nat /\ c * clv \in Nat
      /\ InMemory(Buf(g, c * clv + 0), len) /\ InMemory(StageOf(k, g, c * clv + 0), len)
  <2>1. 0 + len <= clv /\ 0 \in Nat
    OBVIOUS
  <2> QED
    BY <2>1, PartIn
<1>2. c * clv + 0 = c * clv
  BY <1>1
<1> QED
  BY <1>1, <1>2

LEMMA P2pBroadcastWork ==
  ASSUME NEW s, NEW src, NEW dsts, NEW len \in Nat,
         len > 0 => InMemory(src, len) /\ \A d \in dsts : InMemory(d, len)
  PROVE  P2pBroadcast(src, dsts, len) \in Works(s)
<1>1. UNION {Copy(src, d, len) : d \in dsts} \subseteq Ops(s)
  BY CopyIn
<1> QED
  BY <1>1, WorkOne DEF P2pBroadcast

LEMMA FunctionIsWork ==
  ASSUME NEW s, NEW m \in Nat, NEW f, f = [i \in 1..m |-> f[i]],
         \A i \in 1..m : f[i] \subseteq Ops(s)
  PROVE  f \in Works(s)
<1>1. f \in [1..m -> SUBSET Ops(s)]
  OBVIOUS
<1> QED
  BY <1>1, SeqDef DEF Works

(* The kernels, as work within the memory and the words of the group.      *)
LEMMA XgpuBarrierWork ==
  ASSUME GroupAssumption, NEW s \in Nat, NEW v \in 1..s, NEW g \in Ranks
  PROVE  XgpuBarrier(g, v) \in Works(s)
<1>1. PICK e : e = [h \in 1..r |-> Signal(Flag(h - 1, g), v)]
  OBVIOUS
<1>2. PICK f : f = [h \in 1..r |-> Await(Flag(g, h - 1), v)]
  OBVIOUS
<1>3. r \in Nat /\ \A h \in 1..r : h - 1 \in Ranks
  BY DEF GroupAssumption, Ranks
<1>4. \A h \in 1..r : e[h] \subseteq Ops(s) /\ f[h] \subseteq Ops(s)
  BY <1>1, <1>2, <1>3, WordIn
<1>5. e \in Works(s) /\ f \in Works(s)
  BY <1>1, <1>2, <1>3, <1>4, FunctionIsWork
<1> QED
  BY <1>1, <1>2, <1>5, WorkJoin DEF XgpuBarrier

LEMMA AllreduceOneshotWork ==
  ASSUME GroupAssumption, NEW s \in Nat, NEW v \in 1..s,
         NEW len, ShareFacts(len), NEW g \in Ranks
  PROVE  AllreduceOneshot(g, len, v) \in Works(s)
<1>1. ScatterToStaging(g, len) \in Works(s)
  BY ScatterWork
<1>2. XgpuBarrier(g, v) \in Works(s)
  BY XgpuBarrierWork
<1>3. GatherReduceLocal(Stage(g, 0), Buf(g, g * Clv(len)), Clv(len), Len4(g, len)) \in Works(s)
  BY OwnReduceWork DEF Stage
<1>4. P2pBroadcast(Buf(g, g * Clv(len)), {Buf(p, g * Clv(len)) : p \in Ranks}, Len4(g, len))
        \in Works(s)
  <2>1. g * Clv(len) \in Nat /\ Len4(g, len) \in Nat
        /\ (Len4(g, len) > 0 => g * Clv(len) + Len4(g, len) <= Groups(Capacity))
    BY ShareInBuffer
  <2>2. Len4(g, len) > 0 => \A p \in Ranks : InMemory(Buf(p, g * Clv(len)), Len4(g, len))
    BY <2>1, BufIn
  <2> QED
    BY <2>1, <2>2, P2pBroadcastWork
<1> QED
  BY <1>1, <1>2, <1>3, <1>4, WorkJoin DEF AllreduceOneshot

LEMMA FencesWork ==
  ASSUME GroupAssumption, NEW s \in Nat, NEW v \in 1..s, NEW g \in Ranks
  PROVE  /\ AwaitScatterFences(g, v) \in Works(s)
         /\ ReleaseGather(g, v) \in Works(s)
         /\ AwaitGatherFences(g, v) \in Works(s)
<1>1. r \in Nat /\ \A h \in 1..r : h - 1 \in Ranks
  BY DEF GroupAssumption, Ranks
<1>2. <<>> \in Works(s)
  BY EmptySeq DEF Works
<1>3. AwaitScatterFences(g, v) \in Works(s)
  <2>1. PICK f : f = [i \in 1..r |-> IF i - 1 = g THEN <<>> ELSE <<Await(Sem(g, i - 1), v)>>]
    OBVIOUS
  <2>2. ASSUME NEW i \in 1..r PROVE f[i] \in Works(s)
    <3>1. i - 1 \in 0..(2 * r)
      BY <1>1
    <3>2. Await(Sem(g, i - 1), v) \subseteq Ops(s)
      BY <3>1, WordIn
    <3> QED
      BY <1>2, <2>1, <3>2, WorkOne
  <2>3. FlattenSeq(f) \in Works(s)
    BY <1>1, <2>1, <2>2, WorkFlatten
  <2> QED
    BY <2>1, <2>3 DEF AwaitScatterFences, EachPeer, EachRank
<1>4. AwaitGatherFences(g, v) \in Works(s)
  <2>1. PICK f : f = [i \in 1..r |-> IF i - 1 = g THEN <<>>
                                     ELSE <<Await(Sem(g, r + 1 + (i - 1)), v)>>]
    OBVIOUS
  <2>2. ASSUME NEW i \in 1..r PROVE f[i] \in Works(s)
    <3>1. r + 1 + (i - 1) \in 0..(2 * r)
      BY <1>1
    <3>2. Await(Sem(g, r + 1 + (i - 1)), v) \subseteq Ops(s)
      BY <3>1, WordIn
    <3> QED
      BY <1>2, <2>1, <3>2, WorkOne
  <2>3. FlattenSeq(f) \in Works(s)
    BY <1>1, <2>1, <2>2, WorkFlatten
  <2> QED
    BY <2>1, <2>3 DEF AwaitGatherFences, EachPeer, EachRank
<1>5. ReleaseGather(g, v) \in Works(s)
  <2>1. r \in 0..(2 * r)
    BY <1>1
  <2> QED
    BY <2>1, WordIn, WorkOne DEF ReleaseGather
<1> QED
  BY <1>3, <1>4, <1>5

LEMMA DualpathWork ==
  ASSUME GroupAssumption, NEW s \in Nat, NEW v \in 1..s, NEW g \in Ranks,
         NEW clv, EqualShares(clv), NEW cu \in 0..clv
  PROVE  AllreduceDualpath(g, clv, cu, v) \in Works(s)
<1>0. clv \in Nat /\ cu \in Nat /\ cu <= clv
  BY DEF EqualShares
<1>1. <<UNION {Copy(Buf(g, c * clv), Stage(c, g * clv), IF c = g THEN clv ELSE cu) :
             c \in Ranks}>> \in Works(s)
  <2>1. ASSUME NEW c \in Ranks, NEW len \in {clv, cu}
        PROVE  Copy(Buf(g, c * clv), Stage(c, g * clv), len) \subseteq Ops(s)
    <3>1. len \in Nat /\ len <= clv
      BY <1>0
    <3>2. InMemory(Buf(g, c * clv), len) /\ InMemory(StageOf("stage", c, g * clv), len)
      BY <3>1, PartInPlace
    <3> QED
      BY <3>1, <3>2, CopyIn DEF Stage
  <2>2. UNION {Copy(Buf(g, c * clv), Stage(c, g * clv), IF c = g THEN clv ELSE cu) :
             c \in Ranks} \subseteq Ops(s)
    BY <2>1
  <2> QED
    BY <2>2, WorkOne
<1>2. GatherReduceLocal(Stage(g, 0), Buf(g, g * clv), clv, clv) \in Works(s)
  <2>1. g * clv \in Nat /\ g * clv + clv <= Groups(Capacity)
    BY DEF EqualShares
  <2>2. ASSUME NEW p \in Ranks PROVE 0 + p * clv + clv <= r * Clv(Capacity)
    BY DEF EqualShares
  <2>3. 0 \in Nat /\ "stage" \in {"stage", "stage_b"}
    OBVIOUS
  <2> QED
    BY <1>0, <2>1, <2>2, <2>3, GatherReduceWork DEF Stage
<1>3. P2pBroadcast(Buf(g, g * clv), {Buf(p, g * clv) : p \in Ranks \ {g}}, cu) \in Works(s)
  <2>1. \A p \in Ranks : InMemory(Buf(p, g * clv), cu)
    BY <1>0, PartInPlace
  <2> QED
    BY <1>0, <2>1, P2pBroadcastWork
<1> QED
  BY <1>1, <1>2, <1>3, FencesWork, XgpuBarrierWork, WorkJoin DEF AllreduceDualpath

LEMMA FiveAreWork ==
  ASSUME NEW s, NEW a \in SUBSET Ops(s), NEW b \in SUBSET Ops(s), NEW c \in SUBSET Ops(s),
         NEW d \in SUBSET Ops(s), NEW e \in SUBSET Ops(s)
  PROVE  <<a, b, c, d, e>> \in Works(s)
BY DEF Works

LEMMA DualpathSdmaWork ==
  ASSUME GroupAssumption, NEW s \in Nat, NEW v \in 1..s, NEW g \in Ranks, NEW q \in Ranks,
         NEW clv, EqualShares(clv), NEW cu \in 0..clv
  PROVE  DualpathSdma(g, q, clv, cu, v) \in Works(s)
<1>1. clv \in Nat /\ cu \in Nat /\ clv - cu \in Nat /\ cu + (clv - cu) <= clv
  BY DEF EqualShares
<1>2. /\ InMemory(Buf(g, q * clv + cu), clv - cu)
      /\ InMemory(StageOf("stage", q, g * clv + cu), clv - cu)
      /\ InMemory(Buf(g, g * clv + cu), clv - cu)
      /\ InMemory(Buf(q, g * clv + cu), clv - cu)
  BY <1>1, PartIn
<1>3. q \in 0..(2 * r) /\ r \in 0..(2 * r) /\ r + 1 + q \in 0..(2 * r)
  BY DEF GroupAssumption, Ranks
<1>4. /\ Copy(Buf(g, q * clv + cu), Stage(q, g * clv + cu), clv - cu) \subseteq Ops(s)
      /\ Copy(Buf(g, g * clv + cu), Buf(q, g * clv + cu), clv - cu) \subseteq Ops(s)
  BY <1>1, <1>2, CopyIn DEF Stage
<1>5. /\ Signal(Sem(g, q), v) \subseteq Ops(s) /\ Await(Sem(g, r), v) \subseteq Ops(s)
      /\ Signal(Sem(g, r + 1 + q), v) \subseteq Ops(s)
  BY <1>3, WordIn
<1> QED
  BY <1>4, <1>5, FiveAreWork DEF DualpathSdma

-----------------------------------------------------------------------------
(* Arming and waiting for a queue of each of some GPUs, and for a row of   *)
(* SDMA queues of one GPU.                                                 *)
Queues(k, C) == {Queue(k, g) : g \in C}
Row(g, C) == {Sdma(g, q) : q \in C}
Engines == {Sdma(g, q) : g \in Ranks, q \in Ranks}
Shares(len) == {g \in Ranks : Len4(g, len) # 0}

ArmsAgent(p, a, W) == \E w \in W : p = Arm(a, w) \/ p = Refill(a, w)

LEMMA NamesOfAgents ==
  /\ \A k, g : Queue(k, g)[2] = g
  /\ \A g, q : Sdma(g, q)[2] = g /\ Sdma(g, q)[3] = q
BY DEF Queue, Sdma

LEMMA RankIndex ==
  ASSUME GroupAssumption
  PROVE  r \in Nat /\ \A i \in 1..r : i - 1 \in Ranks
BY DEF GroupAssumption, Ranks

(* Host loops over compute queues and over the SDMA queues of one GPU.     *)
LEMMA QueueArms ==
  ASSUME GroupAssumption, NEW W, NEW k, NEW C \in SUBSET Ranks,
         NEW s, s = [i \in 1..r |-> s[i]],
         \A i \in 1..r : IF i - 1 \in C THEN ArmsAgent(s[i], Queue(k, i - 1), W)
                                        ELSE s[i] = <<>>
  PROVE  ArmBlock(FlattenSeq(s), Queues(k, C), W)
<1>1. ASSUME NEW i \in 1..r PROVE ArmBlock(s[i], Of(Queues(k, C), 2, i - 1), W)
  <2>1. CASE i - 1 \in C
    <3>1. PICK w \in W : s[i] = Arm(Queue(k, i - 1), w) \/ s[i] = Refill(Queue(k, i - 1), w)
      BY <2>1 DEF ArmsAgent
    <3>2. Queue(k, i - 1) \in Of(Queues(k, C), 2, i - 1)
      BY <2>1, NamesOfAgents DEF Of, Queues
    <3> QED
      BY <3>1, <3>2, ArmOne
  <2>2. CASE i - 1 \notin C
    BY <2>2, NoArms
  <2> QED
    BY <2>1, <2>2
<1> QED
  BY <1>1, RankIndex, FlattenArms

LEMMA QueueWaits ==
  ASSUME GroupAssumption, NEW k, NEW C \in SUBSET Ranks,
         NEW s, s = [i \in 1..r |-> s[i]],
         \A i \in 1..r : IF i - 1 \in C THEN s[i] = Wait(Queue(k, i - 1)) ELSE s[i] = <<>>
  PROVE  WaitBlock(FlattenSeq(s), Queues(k, C))
<1>1. ASSUME NEW i \in 1..r PROVE WaitBlock(s[i], Of(Queues(k, C), 2, i - 1))
  <2>1. CASE i - 1 \in C
    <3>1. Of(Queues(k, C), 2, i - 1) \subseteq {Queue(k, i - 1)}
      BY NamesOfAgents DEF Of, Queues
    <3>2. WaitBlock(s[i], {Queue(k, i - 1)})
      BY <2>1, WaitOne
    <3> QED
      BY <3>1, <3>2, WaitsOfFewer
  <2>2. CASE i - 1 \notin C
    <3>1. Of(Queues(k, C), 2, i - 1) = {}
      BY <2>2, NamesOfAgents DEF Of, Queues
    <3> QED
      BY <2>2, <3>1, NoWaits
  <2> QED
    BY <2>1, <2>2
<1>2. \A a \in Queues(k, C) : a[2] \in 0..(r - 1)
  BY NamesOfAgents DEF Queues, Ranks
<1> QED
  BY <1>1, <1>2, RankIndex, FlattenWaits

LEMMA RowArms ==
  ASSUME NEW W, NEW g, NEW m \in Nat, NEW C, NEW s, s = [i \in 1..m |-> s[i]],
         \A i \in 1..m : IF i - 1 \in C THEN ArmsAgent(s[i], Sdma(g, i - 1), W)
                                        ELSE s[i] = <<>>
  PROVE  ArmBlock(FlattenSeq(s), Row(g, C), W)
<1>1. ASSUME NEW i \in 1..m PROVE ArmBlock(s[i], Of(Row(g, C), 3, i - 1), W)
  <2>1. CASE i - 1 \in C
    <3>1. PICK w \in W : s[i] = Arm(Sdma(g, i - 1), w) \/ s[i] = Refill(Sdma(g, i - 1), w)
      BY <2>1 DEF ArmsAgent
    <3>2. Sdma(g, i - 1) \in Of(Row(g, C), 3, i - 1)
      BY <2>1, NamesOfAgents DEF Of, Row
    <3> QED
      BY <3>1, <3>2, ArmOne
  <2>2. CASE i - 1 \notin C
    BY <2>2, NoArms
  <2> QED
    BY <2>1, <2>2
<1> QED
  BY <1>1, FlattenArms

LEMMA RowWaits ==
  ASSUME NEW g, NEW m \in Nat, NEW C, C \subseteq 0..(m - 1),
         NEW s, s = [i \in 1..m |-> s[i]],
         \A i \in 1..m : IF i - 1 \in C THEN s[i] = Wait(Sdma(g, i - 1)) ELSE s[i] = <<>>
  PROVE  WaitBlock(FlattenSeq(s), Row(g, C))
<1>1. ASSUME NEW i \in 1..m PROVE WaitBlock(s[i], Of(Row(g, C), 3, i - 1))
  <2>1. CASE i - 1 \in C
    <3>1. Of(Row(g, C), 3, i - 1) \subseteq {Sdma(g, i - 1)}
      BY NamesOfAgents DEF Of, Row
    <3>2. WaitBlock(s[i], {Sdma(g, i - 1)})
      BY <2>1, WaitOne
    <3> QED
      BY <3>1, <3>2, WaitsOfFewer
  <2>2. CASE i - 1 \notin C
    <3>1. Of(Row(g, C), 3, i - 1) = {}
      BY <2>2, NamesOfAgents DEF Of, Row
    <3> QED
      BY <2>2, <3>1, NoWaits
  <2> QED
    BY <2>1, <2>2
<1>2. \A a \in Row(g, C) : a[3] \in 0..(m - 1)
  BY NamesOfAgents DEF Row
<1> QED
  BY <1>1, <1>2, FlattenWaits

(* A block per rank.                                                       *)
LEMMA RankArms ==
  ASSUME GroupAssumption, NEW W, NEW S, NEW s, s = [i \in 1..r |-> s[i]],
         \A i \in 1..r : \E T : ArmBlock(s[i], T, W) /\ T \subseteq Of(S, 2, i - 1)
  PROVE  ArmBlock(FlattenSeq(s), S, W)
<1>1. \A i \in 1..r : ArmBlock(s[i], Of(S, 2, i - 1), W)
  BY ArmsOfMore
<1> QED
  BY <1>1, RankIndex, FlattenArms

LEMMA RankWaits ==
  ASSUME GroupAssumption, NEW S, NEW s, s = [i \in 1..r |-> s[i]],
         \A i \in 1..r : \E T : WaitBlock(s[i], T) /\ Of(S, 2, i - 1) \subseteq T,
         \A a \in S : a[2] \in Ranks
  PROVE  WaitBlock(FlattenSeq(s), S)
<1>1. \A i \in 1..r : WaitBlock(s[i], Of(S, 2, i - 1))
  BY WaitsOfFewer
<1> QED
  BY <1>1, RankIndex, FlattenWaits DEF Ranks

(* A round after others; two blocks of arms with the waits of both.        *)
LEMMA OneMoreRound ==
  ASSUME NEW W, NEW p, NEW q, NEW s, NEW S, NEW T,
         Settled(p, S, W), ArmBlock(q, T, W), WaitBlock(s, T), T \subseteq S
  PROVE  Settled((p \o q) \o s, S, W)
<1>1. Settled(q \o s, S, W)
  BY Round, SettledMore
<1>2. Settled(p \o (q \o s), S, W)
  BY <1>1, SettledJoin
<1>3. (p \o q) \o s = p \o (q \o s)
  BY SettledSeq, BlockSeqs, JoinAssociates
<1> QED
  BY <1>2, <1>3

LEMMA FirstRound ==
  ASSUME NEW W, NEW p, NEW q, NEW S, NEW T,
         ArmBlock(p, T, W), WaitBlock(q, T), T \subseteq S
  PROVE  Settled(p \o q, S, W)
BY Round, SettledMore

LEMMA RoundOfTwo ==
  ASSUME NEW W, NEW p, NEW q, NEW v, NEW w, NEW S, NEW T, NEW V, NEW U, NEW A,
         ArmBlock(p, S, W), ArmBlock(q, T, W), S \cap T = {},
         WaitBlock(v, V), WaitBlock(w, U), S \cup T \subseteq V \cup U, S \cup T \subseteq A
  PROVE  Settled(((p \o q) \o v) \o w, A, W)
<1>1. ArmBlock(p \o q, S \cup T, W)
  BY ArmsJoin
<1>2. WaitBlock(v \o w, S \cup T)
  BY WaitsJoin, WaitsOfFewer
<1>3. Settled((p \o q) \o (v \o w), A, W)
  BY <1>1, <1>2, Round, SettledMore
<1>4. ((p \o q) \o v) \o w = (p \o q) \o (v \o w)
  BY <1>1, BlockSeqs, JoinAssociates
<1> QED
  BY <1>3, <1>4

LEMMA AgentSets ==
  ASSUME GroupAssumption
  PROVE  /\ \A k, C : C \subseteq Ranks => Queues(k, C) \subseteq Queues(k, Ranks)
         /\ Queues("cu", Ranks) \subseteq Agents /\ Queues("cu2", Ranks) \subseteq Agents
         /\ Engines \subseteq Agents
         /\ \A g \in Ranks, C \in SUBSET Ranks : Row(g, C) \subseteq Engines
         /\ \A k \in {"cu", "cu2"} : Queues(k, Ranks) \cap Engines = {}
         /\ Queues("cu", Ranks) \cap Queues("cu2", Ranks) = {}
BY DEF Queues, Engines, Row, Agents, Cu, Cu2, Queue, Sdma

(* The direct scheme.                                                      *)
LEMMA DirectSettled ==
  ASSUME GroupAssumption, NEW s \in Nat, NEW len, ShareFacts(len)
  PROVE  Settled(Direct(len), Agents, Works(s))
<1>1. CASE r = 1
  BY <1>1, SettledNothing DEF Direct
<1>2. CASE r # 1
  <2>1. 0 \in Ranks /\ Cu(0) \in Agents
    BY DEF GroupAssumption, Ranks, Agents
  <2>2. Groups(len) \in Nat /\ 0 + Groups(len) <= Groups(Capacity) /\ 0 \in Nat
    BY DEF ShareFacts
  <2>3. ReducePeers(0, 0, Groups(len)) \in Works(s)
    BY <2>1, <2>2, ReducePeersWork
  <2>4. BroadcastPeers(len) \in Works(s)
    BY BroadcastPeersWork
  <2>5. /\ ArmBlock(Arm(Cu(0), ReducePeers(0, 0, Groups(len))), {Cu(0)}, Works(s))
        /\ ArmBlock(Arm(Cu(0), BroadcastPeers(len)), {Cu(0)}, Works(s))
        /\ WaitBlock(Wait(Cu(0)), {Cu(0)})
    BY <2>3, <2>4, ArmOne, WaitOne
  <2>6. {Cu(0)} \subseteq Agents
    BY <2>1
  <2>7. Settled(Arm(Cu(0), ReducePeers(0, 0, Groups(len))) \o Wait(Cu(0)), Agents, Works(s))
    BY <2>5, <2>6, FirstRound
  <2>8. Settled(((Arm(Cu(0), ReducePeers(0, 0, Groups(len))) \o Wait(Cu(0)))
                   \o Arm(Cu(0), BroadcastPeers(len))) \o Wait(Cu(0)), Agents, Works(s))
    BY <2>5, <2>6, <2>7, OneMoreRound
  <2> QED
    BY <1>2, <2>8 DEF Direct
<1> QED
  BY <1>1, <1>2

(* Every rank's compute queue is waited for.                               *)
LEMMA WaitForRanks ==
  ASSUME GroupAssumption, NEW k
  PROVE  WaitBlock(EachRank(LAMBDA g : Wait(Queue(k, g))), Queues(k, Ranks))
<1>1. PICK f : f = [i \in 1..r |-> Wait(Queue(k, i - 1))]
  OBVIOUS
<1>2. WaitBlock(FlattenSeq(f), Queues(k, Ranks))
  BY <1>1, RankIndex, QueueWaits
<1> QED
  BY <1>1, <1>2 DEF EachRank

LEMMA WaitForShares ==
  ASSUME GroupAssumption, NEW k, NEW len
  PROVE  WaitBlock(EachShare(len, LAMBDA g : Wait(Queue(k, g))), Queues(k, Shares(len)))
<1>1. PICK f : f = [i \in 1..r |-> IF Len4(i - 1, len) = 0 THEN <<>> ELSE Wait(Queue(k, i - 1))]
  OBVIOUS
<1>2. \A i \in 1..r : IF i - 1 \in Shares(len) THEN f[i] = Wait(Queue(k, i - 1)) ELSE f[i] = <<>>
  BY <1>1, RankIndex DEF Shares
<1>3. Shares(len) \in SUBSET Ranks
  BY DEF Shares
<1>4. WaitBlock(FlattenSeq(f), Queues(k, Shares(len)))
  BY <1>1, <1>2, <1>3, QueueWaits
<1> QED
  BY <1>1, <1>4 DEF EachShare, EachRank

LEMMA ReduceStagedWork ==
  ASSUME NEW s, NEW k \in {"stage", "stage_b"}, NEW len, ShareFacts(len), NEW g \in Ranks,
         NEW base \in Nat, base + Groups(len) <= Groups(Capacity), NEW a
  PROVE  ArmsAgent(ReduceStaged(a, g, base, StageOf(k, g, 0), len), a, Works(s))
<1>1. /\ g * Clv(len) \in Nat /\ Len4(g, len) \in Nat
      /\ Len4(g, len) > 0 => base + g * Clv(len) + Len4(g, len) <= Groups(Capacity)
  BY ShareInBase
<1>2. Clv(len) \in Nat /\ 0 \in Nat /\ base + g * Clv(len) \in Nat
  BY <1>1 DEF ShareFacts
<1>3. \A p \in Ranks : 0 + p * Clv(len) + Len4(g, len) <= r * Clv(Capacity)
  BY SlotInStaging
<1>4. GatherReduceLocal(StageOf(k, g, 0), Buf(g, base + g * Clv(len)), Clv(len), Len4(g, len))
        \in Works(s)
  BY <1>1, <1>2, <1>3, GatherReduceWork
<1> QED
  BY <1>4 DEF ReduceStaged, ArmsAgent

(* The reduce-scatter and all-gather schemes, in all their variants.       *)
LEMMA RsagSettled ==
  ASSUME GroupAssumption, NEW s \in Nat, NEW len, ShareFacts(len),
         NEW write \in BOOLEAN, NEW pull \in BOOLEAN
  PROVE  Settled(Rsag(len, write, pull), Agents, Works(s))
<1> DEFINE C == Shares(len)
<1> DEFINE S == Queues("cu", Ranks)
<1>1. r \in Nat /\ \A i \in 1..r : i - 1 \in Ranks
  BY RankIndex
<1>2. S \subseteq Agents /\ Queues("cu", C) \subseteq S /\ C \in SUBSET Ranks
      /\ Queues("cu", C) \subseteq Agents
  BY AgentSets DEF Shares
<1>3. \A i \in 1..r : i - 1 \in C <=> Len4(i - 1, len) # 0
  BY <1>1 DEF Shares
<1>4. PICK wr : wr = EachRank(LAMBDA g : Wait(Cu(g)))
  OBVIOUS
<1>5. WaitBlock(wr, S)
  BY <1>4, WaitForRanks DEF Cu
<1>6. PICK ws : ws = EachShare(len, LAMBDA g : Wait(Cu(g)))
  OBVIOUS
<1>7. WaitBlock(ws, Queues("cu", C))
  BY <1>6, WaitForShares DEF Cu
<1>8. PICK sc : sc = EachRank(LAMBDA g : Arm(Cu(g), ScatterToStaging(g, len)))
  OBVIOUS
<1>9. ArmBlock(sc, S, Works(s))
  <2>1. PICK f : f = [i \in 1..r |-> Arm(Cu(i - 1), ScatterToStaging(i - 1, len))]
    OBVIOUS
  <2>2. \A i \in 1..r : ArmsAgent(f[i], Queue("cu", i - 1), Works(s))
    BY <1>1, <2>1, ScatterWork DEF ArmsAgent, Cu
  <2>3. ArmBlock(FlattenSeq(f), S, Works(s))
    BY <1>1, <2>1, <2>2, QueueArms
  <2> QED
    BY <1>8, <2>1, <2>3 DEF EachRank
<1>10. PICK ag : ag = EachRank(LAMBDA g : Arm(Cu(g), AllGather(g, len)))
  OBVIOUS
<1>11. ArmBlock(ag, S, Works(s))
  <2>1. PICK f : f = [i \in 1..r |-> Arm(Cu(i - 1), AllGather(i - 1, len))]
    OBVIOUS
  <2>2. \A i \in 1..r : ArmsAgent(f[i], Queue("cu", i - 1), Works(s))
    BY <1>1, <2>1, AllGatherWork DEF ArmsAgent, Cu
  <2>3. ArmBlock(FlattenSeq(f), S, Works(s))
    BY <1>1, <2>1, <2>2, QueueArms
  <2> QED
    BY <1>10, <2>1, <2>3 DEF EachRank
<1>12. PICK bc : bc = EachShare(len, LAMBDA g : Arm(Cu(g), BroadcastChunkSkipOwner(g, len)))
  OBVIOUS
<1>13. ArmBlock(bc, Queues("cu", C), Works(s)) /\ Plain(bc)
  <2>1. PICK f : f = [i \in 1..r |-> IF Len4(i - 1, len) = 0 THEN <<>>
                        ELSE Arm(Cu(i - 1), BroadcastChunkSkipOwner(i - 1, len))]
    OBVIOUS
  <2>2. \A i \in 1..r : IF i - 1 \in C THEN ArmsAgent(f[i], Queue("cu", i - 1), Works(s))
                                       ELSE f[i] = <<>>
    BY <1>1, <1>3, <2>1, BroadcastChunkWork DEF ArmsAgent, Cu
  <2>3. ArmBlock(FlattenSeq(f), Queues("cu", C), Works(s))
    BY <1>2, <2>1, <2>2, QueueArms
  <2>4. \A i \in 1..r : IsSeq(f[i]) /\ Plain(f[i])
    BY <2>1, OnePlain
  <2>5. Plain(FlattenSeq(f))
    BY <1>1, <2>1, <2>4, FlattenPlain
  <2> QED
    BY <1>12, <2>1, <2>3, <2>5 DEF EachShare, EachRank
<1>14. PICK rd : rd = EachShare(len, LAMBDA g :
                   IF write THEN ReduceStaged(Cu(g), g, 0, Stage(g, 0), len)
                            ELSE Arm(Cu(g), ReduceScatter(g, len)))
  OBVIOUS
<1>15. ArmBlock(rd, Queues("cu", C), Works(s))
  <2>1. PICK f : f = [i \in 1..r |-> IF Len4(i - 1, len) = 0 THEN <<>>
                        ELSE IF write THEN ReduceStaged(Cu(i - 1), i - 1, 0, Stage(i - 1, 0), len)
                                      ELSE Arm(Cu(i - 1), ReduceScatter(i - 1, len))]
    OBVIOUS
  <2>2. ASSUME NEW i \in 1..r
        PROVE  /\ ArmsAgent(ReduceStaged(Cu(i - 1), i - 1, 0, Stage(i - 1, 0), len),
                            Queue("cu", i - 1), Works(s))
               /\ ArmsAgent(Arm(Cu(i - 1), ReduceScatter(i - 1, len)),
                            Queue("cu", i - 1), Works(s))
    <3>1. 0 \in Nat /\ 0 + Groups(len) <= Groups(Capacity) /\ "stage" \in {"stage", "stage_b"}
      BY DEF ShareFacts
    <3>2. ArmsAgent(ReduceStaged(Cu(i - 1), i - 1, 0, StageOf("stage", i - 1, 0), len),
                    Cu(i - 1), Works(s))
      BY <1>1, <3>1, ReduceStagedWork
    <3>3. ArmsAgent(Arm(Cu(i - 1), ReduceScatter(i - 1, len)), Cu(i - 1), Works(s))
      BY <1>1, ReduceScatterWork DEF ArmsAgent
    <3> QED
      BY <3>2, <3>3 DEF Cu, Stage
  <2>3. \A i \in 1..r : IF i - 1 \in C THEN ArmsAgent(f[i], Queue("cu", i - 1), Works(s))
                                       ELSE f[i] = <<>>
    BY <1>3, <2>1, <2>2
  <2>4. ArmBlock(FlattenSeq(f), Queues("cu", C), Works(s))
    BY <1>2, <2>1, <2>3, QueueArms
  <2> QED
    BY <1>14, <2>1, <2>4 DEF EachShare, EachRank
<1>16. PICK pre : pre = IF write THEN sc \o wr ELSE <<>>
  OBVIOUS
<1>17. Settled(pre, Agents, Works(s))
  <2>1. Settled(sc \o wr, Agents, Works(s))
    BY <1>2, <1>5, <1>9, FirstRound
  <2> QED
    BY <1>16, <2>1, SettledNothing
<1>18. Rsag(len, write, pull) =
         (pre \o rd) \o IF pull THEN (ws \o ag) \o wr ELSE bc \o ws
  <2>1. /\ wr = FlattenSeq([i \in 1..r |-> Wait(Cu(i - 1))])
        /\ ws = FlattenSeq([i \in 1..r |-> IF Len4(i - 1, len) = 0 THEN <<>> ELSE Wait(Cu(i - 1))])
    BY <1>4, <1>6 DEF EachShare, EachRank
  <2>2. /\ sc = FlattenSeq([i \in 1..r |-> Arm(Cu(i - 1), ScatterToStaging(i - 1, len))])
        /\ ag = FlattenSeq([i \in 1..r |-> Arm(Cu(i - 1), AllGather(i - 1, len))])
        /\ bc = FlattenSeq([i \in 1..r |-> IF Len4(i - 1, len) = 0 THEN <<>>
               ELSE Arm(Cu(i - 1), BroadcastChunkSkipOwner(i - 1, len))])
    BY <1>8, <1>10, <1>12 DEF EachShare, EachRank
  <2>3. CASE write = TRUE /\ pull = TRUE
    <3>1. Rsag(len, TRUE, TRUE) =
          ((FlattenSeq([i \in 1..r |-> Arm(Cu(i - 1), ScatterToStaging(i - 1, len))])
           \o FlattenSeq([i \in 1..r |-> Wait(Cu(i - 1))]))
           \o FlattenSeq([i \in 1..r |-> IF Len4(i - 1, len) = 0 THEN <<>>
               ELSE ReduceStaged(Cu(i - 1), i - 1, 0, Stage(i - 1, 0), len)]))
          \o ((FlattenSeq([i \in 1..r |-> IF Len4(i - 1, len) = 0 THEN <<>> ELSE Wait(Cu(i - 1))])
           \o FlattenSeq([i \in 1..r |-> Arm(Cu(i - 1), AllGather(i - 1, len))]))
           \o FlattenSeq([i \in 1..r |-> Wait(Cu(i - 1))]))
      BY DEF Rsag, EachShare, EachRank
    <3>2. rd = FlattenSeq([i \in 1..r |-> IF Len4(i - 1, len) = 0 THEN <<>>
               ELSE ReduceStaged(Cu(i - 1), i - 1, 0, Stage(i - 1, 0), len)])
      BY <2>3, <1>14 DEF EachShare, EachRank
    <3> QED
      BY <1>16, <2>1, <2>2, <2>3, <3>1, <3>2
  <2>4. CASE write = TRUE /\ pull = FALSE
    <3>1. Rsag(len, TRUE, FALSE) =
          ((FlattenSeq([i \in 1..r |-> Arm(Cu(i - 1), ScatterToStaging(i - 1, len))])
           \o FlattenSeq([i \in 1..r |-> Wait(Cu(i - 1))]))
           \o FlattenSeq([i \in 1..r |-> IF Len4(i - 1, len) = 0 THEN <<>>
               ELSE ReduceStaged(Cu(i - 1), i - 1, 0, Stage(i - 1, 0), len)]))
          \o (FlattenSeq([i \in 1..r |-> IF Len4(i - 1, len) = 0 THEN <<>>
               ELSE Arm(Cu(i - 1), BroadcastChunkSkipOwner(i - 1, len))])
           \o FlattenSeq([i \in 1..r |-> IF Len4(i - 1, len) = 0 THEN <<>> ELSE Wait(Cu(i - 1))]))
      BY DEF Rsag, EachShare, EachRank
    <3>2. rd = FlattenSeq([i \in 1..r |-> IF Len4(i - 1, len) = 0 THEN <<>>
               ELSE ReduceStaged(Cu(i - 1), i - 1, 0, Stage(i - 1, 0), len)])
      BY <2>4, <1>14 DEF EachShare, EachRank
    <3> QED
      BY <1>16, <2>1, <2>2, <2>4, <3>1, <3>2
  <2>5. CASE write = FALSE /\ pull = TRUE
    <3>1. Rsag(len, FALSE, TRUE) =
          (<<>>
           \o FlattenSeq([i \in 1..r |-> IF Len4(i - 1, len) = 0 THEN <<>>
               ELSE Arm(Cu(i - 1), ReduceScatter(i - 1, len))]))
          \o ((FlattenSeq([i \in 1..r |-> IF Len4(i - 1, len) = 0 THEN <<>> ELSE Wait(Cu(i - 1))])
           \o FlattenSeq([i \in 1..r |-> Arm(Cu(i - 1), AllGather(i - 1, len))]))
           \o FlattenSeq([i \in 1..r |-> Wait(Cu(i - 1))]))
      BY DEF Rsag, EachShare, EachRank
    <3>2. rd = FlattenSeq([i \in 1..r |-> IF Len4(i - 1, len) = 0 THEN <<>>
               ELSE Arm(Cu(i - 1), ReduceScatter(i - 1, len))])
      BY <2>5, <1>14 DEF EachShare, EachRank
    <3> QED
      BY <1>16, <2>1, <2>2, <2>5, <3>1, <3>2
  <2>6. CASE write = FALSE /\ pull = FALSE
    <3>1. Rsag(len, FALSE, FALSE) =
          (<<>>
           \o FlattenSeq([i \in 1..r |-> IF Len4(i - 1, len) = 0 THEN <<>>
               ELSE Arm(Cu(i - 1), ReduceScatter(i - 1, len))]))
          \o (FlattenSeq([i \in 1..r |-> IF Len4(i - 1, len) = 0 THEN <<>>
               ELSE Arm(Cu(i - 1), BroadcastChunkSkipOwner(i - 1, len))])
           \o FlattenSeq([i \in 1..r |-> IF Len4(i - 1, len) = 0 THEN <<>> ELSE Wait(Cu(i - 1))]))
      BY DEF Rsag, EachShare, EachRank
    <3>2. rd = FlattenSeq([i \in 1..r |-> IF Len4(i - 1, len) = 0 THEN <<>>
               ELSE Arm(Cu(i - 1), ReduceScatter(i - 1, len))])
      BY <2>6, <1>14 DEF EachShare, EachRank
    <3> QED
      BY <1>16, <2>1, <2>2, <2>6, <3>1, <3>2
  <2> QED
    BY <2>3, <2>4, <2>5, <2>6
<1>19. Settled((pre \o rd) \o ws, Agents, Works(s))
  BY <1>2, <1>7, <1>15, <1>17, OneMoreRound
<1>20. Settled((((pre \o rd) \o ws) \o ag) \o wr, Agents, Works(s))
  BY <1>2, <1>5, <1>11, <1>19, OneMoreRound
<1>21. Settled(pre \o (rd \o (bc \o ws)), Agents, Works(s))
  BY <1>2, <1>7, <1>13, <1>15, <1>17, FollowUp, SettledMore, SettledJoin
<1>22. /\ IsSeq(pre) /\ IsSeq(rd) /\ IsSeq(ws) /\ IsSeq(ag) /\ IsSeq(wr) /\ IsSeq(bc)
  BY <1>5, <1>7, <1>11, <1>13, <1>15, <1>17, BlockSeqs, SettledSeq
<1>23. IsSeq(pre \o rd) /\ IsSeq(ws \o ag) /\ IsSeq(bc \o ws)
  BY <1>22, Joined DEF Joins
<1>24. (pre \o rd) \o ((ws \o ag) \o wr) = (((pre \o rd) \o ws) \o ag) \o wr
  <2>1. IsSeq(pre \o rd) /\ IsSeq(ws) /\ IsSeq(ag) /\ IsSeq(wr)
    BY <1>22, <1>23
  <2>2. IsSeq(ws \o ag)
    BY <1>23
  <2>3. (pre \o rd) \o ((ws \o ag) \o wr) = ((pre \o rd) \o (ws \o ag)) \o wr
    BY <2>1, <2>2, JoinAssociates
  <2>4. (pre \o rd) \o (ws \o ag) = ((pre \o rd) \o ws) \o ag
    BY <2>1, JoinAssociates
  <2> QED
    BY <2>3, <2>4
<1>25. (pre \o rd) \o (bc \o ws) = pre \o (rd \o (bc \o ws))
  <2>1. IsSeq(pre) /\ IsSeq(rd) /\ IsSeq(bc \o ws)
    BY <1>22, <1>23
  <2> QED
    BY <2>1, JoinAssociates
<1> QED
  BY <1>18, <1>20, <1>21, <1>24, <1>25

LEMMA OneshotArms ==
  ASSUME GroupAssumption, NEW s \in Nat, seq + 1 \in 1..s, NEW len, ShareFacts(len),
         NEW f, f = [i \in 1..r |-> f[i]],
         \A i \in 1..r : f[i] = Arm(Cu(i - 1), AllreduceOneshot(i - 1, len, seq + 1))
  PROVE  ArmBlock(FlattenSeq(f), Queues("cu", Ranks), Works(s))
<1>1. \A i \in 1..r : ArmsAgent(f[i], Queue("cu", i - 1), Works(s))
  BY RankIndex, AllreduceOneshotWork DEF ArmsAgent, Cu
<1> QED
  BY <1>1, RankIndex, QueueArms

(* The one-kernel scheme.                                                  *)
LEMMA OneshotSettled ==
  ASSUME GroupAssumption, NEW s \in Nat, seq + 1 \in 1..s, NEW len, ShareFacts(len)
  PROVE  Settled(Oneshot(len), Agents, Works(s))
<1>1. PICK f : f = [i \in 1..r |-> Arm(Cu(i - 1), AllreduceOneshot(i - 1, len, seq + 1))]
  OBVIOUS
<1>2. ArmBlock(FlattenSeq(f), Queues("cu", Ranks), Works(s))
  BY <1>1, OneshotArms
<1>3. PICK wr : wr = EachRank(LAMBDA g : Wait(Cu(g)))
  OBVIOUS
<1>4. WaitBlock(wr, Queues("cu", Ranks))
  BY <1>3, WaitForRanks DEF Cu
<1>5. Settled(FlattenSeq(f) \o wr, Agents, Works(s))
  BY <1>2, <1>4, AgentSets, FirstRound
<1>6. Oneshot(len) = FlattenSeq(f) \o wr
  BY <1>1, <1>3 DEF Oneshot, EachRank
<1> QED
  BY <1>5, <1>6

-----------------------------------------------------------------------------
(* Arming and waiting for a set D of the SDMA queues, rank by rank.        *)
Grid(D) == {Sdma(e[1], e[2]) : e \in D}

LEMMA GridNames ==
  ASSUME NEW D, D \subseteq Ranks \X Ranks
  PROVE  /\ Grid(D) \subseteq Engines
         /\ \A g, q : <<g, q>> \in D => Sdma(g, q) \in Grid(D)
         /\ \A a \in Grid(D) : a = Sdma(a[2], a[3]) /\ <<a[2], a[3]>> \in D /\ a[2] \in Ranks
<1>1. \A e \in D : e = <<e[1], e[2]>> /\ e[1] \in Ranks /\ e[2] \in Ranks
  OBVIOUS
<1>2. \A e : Sdma(e[1], e[2]) = <<"sdma", e[1], e[2]>>
  BY DEF Sdma
<1>3. \A g, q : <<g, q>>[1] = g /\ <<g, q>>[2] = q
  OBVIOUS
<1>4. \A g, q : <<g, q>> \in D => Sdma(g, q) \in Grid(D)
  BY <1>3 DEF Grid
<1>5. Grid(D) \subseteq Engines
  BY <1>1 DEF Grid, Engines
<1>6. \A a \in Grid(D) : a = Sdma(a[2], a[3]) /\ <<a[2], a[3]>> \in D /\ a[2] \in Ranks
  <2> SUFFICES ASSUME NEW e \in D, NEW a, a = Sdma(e[1], e[2])
               PROVE  a = Sdma(a[2], a[3]) /\ <<a[2], a[3]>> \in D /\ a[2] \in Ranks
    BY DEF Grid
  <2>1. a[2] = e[1] /\ a[3] = e[2]
    BY NamesOfAgents
  <2> QED
    BY <1>1, <2>1
<1> QED
  BY <1>4, <1>5, <1>6

(* Row i of the commands s is empty or joins the commands f[i], one for    *)
(* each queue of D.                                                        *)
GridArmed(s, f, m, D, W) ==
  /\ s = [i \in 1..r |-> s[i]]
  /\ \A i \in 1..r : f[i] = [j \in 1..m |-> f[i][j]]
  /\ \A i \in 1..r :
       \/ s[i] = <<>>
       \/ /\ s[i] = FlattenSeq(f[i])
          /\ \A j \in 1..m :
               IF <<i - 1, j - 1>> \in D THEN ArmsAgent(f[i][j], Sdma(i - 1, j - 1), W)
                                         ELSE f[i][j] = <<>>

GridAwaited(s, f, m, D) ==
  /\ s = [i \in 1..r |-> s[i]]
  /\ \A i \in 1..r : f[i] = [j \in 1..m |-> f[i][j]]
  /\ \A i \in 1..r :
       \/ s[i] = <<>> /\ \A q \in Ranks : <<i - 1, q>> \notin D
       \/ /\ s[i] = FlattenSeq(f[i])
          /\ \A j \in 1..m :
               IF <<i - 1, j - 1>> \in D THEN f[i][j] = Wait(Sdma(i - 1, j - 1))
                                         ELSE f[i][j] = <<>>

(* Host loops over GPUs and their SDMA queues.                             *)
LEMMA GridArms ==
  ASSUME GroupAssumption, NEW W, NEW m \in Nat, NEW D, D \subseteq Ranks \X Ranks,
         NEW f, NEW s, GridArmed(s, f, m, D, W)
  PROVE  ArmBlock(FlattenSeq(s), Grid(D), W)
<1>1. ASSUME NEW i \in 1..r
      PROVE  \E T : ArmBlock(s[i], T, W) /\ T \subseteq Of(Grid(D), 2, i - 1)
  <2>1. PICK C : C = {q \in Ranks : <<i - 1, q>> \in D}
    OBVIOUS
  <2>2. Row(i - 1, C) \subseteq Of(Grid(D), 2, i - 1)
    <3> SUFFICES ASSUME NEW q \in C PROVE Sdma(i - 1, q) \in Of(Grid(D), 2, i - 1)
      BY DEF Row
    <3>1. <<i - 1, q>> \in D
      BY <2>1
    <3>2. Sdma(i - 1, q) \in Grid(D)
      BY <3>1, GridNames
    <3> QED
      BY <3>2, NamesOfAgents DEF Of
  <2>3. CASE s[i] # <<>>
    <3>1. PICK t : t = f[i]
      OBVIOUS
    <3>2. t = [j \in 1..m |-> t[j]]
      BY <3>1 DEF GridArmed
    <3>3. \A j \in 1..m : IF j - 1 \in C THEN ArmsAgent(t[j], Sdma(i - 1, j - 1), W)
                                         ELSE t[j] = <<>>
      BY <2>1, <2>3, <3>1 DEF GridArmed
    <3>4. ArmBlock(FlattenSeq(t), Row(i - 1, C), W)
      BY <3>2, <3>3, RowArms
    <3> QED
      BY <2>2, <2>3, <3>1, <3>4 DEF GridArmed
  <2>4. CASE s[i] = <<>>
    BY <2>2, <2>4, NoArms
  <2> QED
    BY <2>3, <2>4
<1> QED
  BY <1>1, RankArms DEF GridArmed

LEMMA GridWaits ==
  ASSUME GroupAssumption, NEW m \in Nat, NEW D, D \subseteq Ranks \X Ranks,
         \A e \in D : e[2] \in 0..(m - 1),
         NEW f, NEW s, GridAwaited(s, f, m, D)
  PROVE  WaitBlock(FlattenSeq(s), Grid(D))
<1>1. ASSUME NEW i \in 1..r
      PROVE  \E T : WaitBlock(s[i], T) /\ Of(Grid(D), 2, i - 1) \subseteq T
  <2>1. PICK C : C = {q \in Ranks : <<i - 1, q>> \in D}
    OBVIOUS
  <2>2. ASSUME NEW a \in Of(Grid(D), 2, i - 1) PROVE a \in Row(i - 1, C)
    <3>1. a = Sdma(a[2], a[3]) /\ <<a[2], a[3]>> \in D /\ a[2] = i - 1
      BY GridNames DEF Of
    <3>2. a[3] \in Ranks
      BY <3>1
    <3> QED
      BY <2>1, <3>1, <3>2 DEF Row
  <2>3. CASE ~(s[i] = <<>> /\ \A q \in Ranks : <<i - 1, q>> \notin D)
    <3>1. PICK t : t = f[i]
      OBVIOUS
    <3>2. t = [j \in 1..m |-> t[j]]
      BY <3>1 DEF GridAwaited
    <3>3. \A j \in 1..m : IF j - 1 \in C THEN t[j] = Wait(Sdma(i - 1, j - 1))
                                         ELSE t[j] = <<>>
      BY <2>1, <2>3, <3>1 DEF GridAwaited
    <3>4. C \subseteq 0..(m - 1)
      <4> SUFFICES ASSUME NEW q \in C PROVE q \in 0..(m - 1)
        OBVIOUS
      <4>1. <<i - 1, q>> \in D
        BY <2>1
      <4>2. <<i - 1, q>>[2] \in 0..(m - 1)
        BY <4>1
      <4> QED
        BY <4>2
    <3>5. WaitBlock(FlattenSeq(t), Row(i - 1, C))
      BY <3>2, <3>3, <3>4, RowWaits
    <3> QED
      BY <2>2, <2>3, <3>1, <3>5 DEF GridAwaited
  <2>4. CASE s[i] = <<>> /\ \A q \in Ranks : <<i - 1, q>> \notin D
    <3>1. Of(Grid(D), 2, i - 1) = {}
      BY <2>1, <2>2, <2>4 DEF Row
    <3> QED
      BY <2>4, <3>1, NoWaits
  <2> QED
    BY <2>3, <2>4
<1>2. \A a \in Grid(D) : a[2] \in Ranks
  BY GridNames
<1> QED
  BY <1>1, <1>2, RankWaits DEF GridAwaited

(* The phases of a share's SDMA copies.                                    *)
LEMMA BaseCopyWork ==
  ASSUME NEW s, NEW k \in {"stage", "stage_b"}, NEW len, ShareFacts(len),
         NEW base \in Nat, base + Groups(len) <= Groups(Capacity),
         NEW g \in Ranks, NEW c \in Ranks
  PROVE  /\ <<Copy(Buf(g, base + c * Clv(len)), StageOf(k, c, g * Clv(len)), Len4(c, len))>>
               \in Works(s)
         /\ <<Copy(Buf(c, base + c * Clv(len)), Buf(g, base + c * Clv(len)), Len4(c, len))>>
               \in Works(s)
<1>1. /\ c * Clv(len) \in Nat /\ Len4(c, len) \in Nat /\ g * Clv(len) \in Nat
      /\ Len4(c, len) > 0 => base + c * Clv(len) + Len4(c, len) <= Groups(Capacity)
  BY ShareInBase
<1>2. g * Clv(len) + Len4(c, len) <= r * Clv(Capacity)
  <2>1. 0 + g * Clv(len) + Len4(c, len) <= r * Clv(Capacity)
    BY SlotInStaging
  <2> QED
    BY <1>1, <2>1
<1>3. base + c * Clv(len) \in Nat
  BY <1>1
<1>4. Len4(c, len) > 0 =>
        /\ InMemory(Buf(g, base + c * Clv(len)), Len4(c, len))
        /\ InMemory(Buf(c, base + c * Clv(len)), Len4(c, len))
        /\ InMemory(StageOf(k, c, g * Clv(len)), Len4(c, len))
  BY <1>1, <1>2, <1>3, BufIn, StageIn
<1> QED
  BY <1>1, <1>4, CopyIn, WorkOne

(* The SDMA scheme over a range: scatter, reduce, gather.                  *)
LEMMA SdmaRangeSettled ==
  ASSUME GroupAssumption, NEW s \in Nat, NEW len, ShareFacts(len),
         NEW base \in Nat, base + Groups(len) <= Groups(Capacity),
         NEW k, NEW stage \in {"stage", "stage_b"}
  PROVE  Settled(SdmaRange(base, len, k, stage), Queues(k, Ranks) \cup Engines, Works(s))
<1>1. PICK A, C, D, E : /\ A = Queues(k, Ranks) \cup Engines /\ C = Shares(len)
                        /\ D = Ranks \X C /\ E = C \X Ranks
  OBVIOUS
<1>2. /\ C \subseteq Ranks /\ D \subseteq Ranks \X Ranks /\ E \subseteq Ranks \X Ranks
      /\ \A e \in D : e[2] \in 0..(r - 1)
      /\ \A e \in E : e[2] \in 0..(r - 1)
  BY <1>1 DEF Shares, Ranks
<1>3. r \in Nat /\ \A i \in 1..r : i - 1 \in Ranks /\ (i - 1 \in C <=> Len4(i - 1, len) # 0)
  BY <1>1, RankIndex DEF Shares
<1>4. /\ \A i \in 1..r, j \in 1..r : <<i - 1, j - 1>> \in D <=> Len4(j - 1, len) # 0
      /\ \A i \in 1..r, j \in 1..r : <<i - 1, j - 1>> \in E <=> Len4(i - 1, len) # 0
      /\ \A i \in 1..r : Len4(i - 1, len) = 0 => \A q \in Ranks : <<i - 1, q>> \notin E
  BY <1>1, <1>3
<1>5. PICK f1 : f1 = [i \in 1..r |-> [j \in 1..r |->
                   IF Len4(j - 1, len) = 0 THEN <<>>
                   ELSE Refill(Sdma(i - 1, j - 1),
                          <<Copy(Buf(i - 1, base + (j - 1) * Clv(len)),
                                 StageOf(stage, j - 1, (i - 1) * Clv(len)), Len4(j - 1, len))>>)]]
  OBVIOUS
<1>6. PICK f2 : f2 = [i \in 1..r |-> [j \in 1..r |->
                   IF Len4(j - 1, len) = 0 THEN <<>> ELSE Wait(Sdma(i - 1, j - 1))]]
  OBVIOUS
<1>7. PICK f3 : f3 = [i \in 1..r |-> [j \in 1..r |->
                   Refill(Sdma(i - 1, j - 1),
                          <<Copy(Buf(i - 1, base + (i - 1) * Clv(len)),
                                 Buf(j - 1, base + (i - 1) * Clv(len)), Len4(i - 1, len))>>)]]
  OBVIOUS
<1>8. PICK f4 : f4 = [i \in 1..r |-> [j \in 1..r |-> Wait(Sdma(i - 1, j - 1))]]
  OBVIOUS
<1>9. PICK p1, p2, p3, p4 :
        /\ p1 = [i \in 1..r |-> FlattenSeq(f1[i])]
        /\ p2 = [i \in 1..r |-> FlattenSeq(f2[i])]
        /\ p3 = [i \in 1..r |-> IF Len4(i - 1, len) = 0 THEN <<>> ELSE FlattenSeq(f3[i])]
        /\ p4 = [i \in 1..r |-> IF Len4(i - 1, len) = 0 THEN <<>> ELSE FlattenSeq(f4[i])]
  OBVIOUS
<1>10. PICK rd, ws :
         /\ rd = [i \in 1..r |-> IF Len4(i - 1, len) = 0 THEN <<>>
                    ELSE ReduceStaged(Queue(k, i - 1), i - 1, base, StageOf(stage, i - 1, 0), len)]
         /\ ws = [i \in 1..r |-> IF Len4(i - 1, len) = 0 THEN <<>> ELSE Wait(Queue(k, i - 1))]
  OBVIOUS
<1>11. SdmaRange(base, len, k, stage) =
         ((((FlattenSeq(p1) \o FlattenSeq(p2)) \o FlattenSeq(rd)) \o FlattenSeq(ws))
            \o FlattenSeq(p3)) \o FlattenSeq(p4)
  BY <1>5, <1>6, <1>7, <1>8, <1>9, <1>10 DEF SdmaRange, EachRank, EachShare
<1>12. ArmBlock(FlattenSeq(p1), Grid(D), Works(s))
  <2>1. \A i, j \in 1..r : IF <<i - 1, j - 1>> \in D
                            THEN ArmsAgent(f1[i][j], Sdma(i - 1, j - 1), Works(s))
                            ELSE f1[i][j] = <<>>
    BY <1>3, <1>4, <1>5, BaseCopyWork DEF ArmsAgent
  <2>2. /\ \A i \in 1..r : f1[i] = [j \in 1..r |-> f1[i][j]]
        /\ \A i \in 1..r : p1[i] = FlattenSeq(f1[i])
        /\ p1 = [i \in 1..r |-> p1[i]]
    BY <1>5, <1>9
  <2>3. GridArmed(p1, f1, r, D, Works(s))
    BY <2>1, <2>2 DEF GridArmed
  <2> QED
    BY <1>2, <1>3, <2>3, GridArms
<1>13. WaitBlock(FlattenSeq(p2), Grid(D))
  <2>1. \A i, j \in 1..r : IF <<i - 1, j - 1>> \in D
                            THEN f2[i][j] = Wait(Sdma(i - 1, j - 1))
                            ELSE f2[i][j] = <<>>
    BY <1>4, <1>6
  <2>2. /\ \A i \in 1..r : f2[i] = [j \in 1..r |-> f2[i][j]]
        /\ \A i \in 1..r : p2[i] = FlattenSeq(f2[i])
        /\ p2 = [i \in 1..r |-> p2[i]]
    BY <1>6, <1>9
  <2>3. GridAwaited(p2, f2, r, D)
    BY <2>1, <2>2 DEF GridAwaited
  <2> QED
    BY <1>2, <1>3, <2>3, GridWaits
<1>14. ArmBlock(FlattenSeq(p3), Grid(E), Works(s))
  <2>1. ASSUME NEW i \in 1..r
        PROVE  \/ p3[i] = <<>>
               \/ /\ p3[i] = FlattenSeq(f3[i])
                  /\ \A j \in 1..r : IF <<i - 1, j - 1>> \in E
                       THEN ArmsAgent(f3[i][j], Sdma(i - 1, j - 1), Works(s))
                       ELSE f3[i][j] = <<>>
    <3>1. CASE Len4(i - 1, len) = 0
      BY <1>9, <3>1
    <3>2. CASE Len4(i - 1, len) # 0
      <4>1. \A j \in 1..r : ArmsAgent(f3[i][j], Sdma(i - 1, j - 1), Works(s))
        BY <1>3, <1>7, BaseCopyWork DEF ArmsAgent
      <4>2. p3[i] = FlattenSeq(f3[i])
        BY <1>9, <3>2
      <4> QED
        BY <1>4, <3>2, <4>1, <4>2
    <3> QED
      BY <3>1, <3>2
  <2>2. /\ \A i \in 1..r : f3[i] = [j \in 1..r |-> f3[i][j]]
        /\ p3 = [i \in 1..r |-> p3[i]]
    BY <1>7, <1>9
  <2>3. GridArmed(p3, f3, r, E, Works(s))
    BY <2>1, <2>2 DEF GridArmed
  <2> QED
    BY <1>2, <1>3, <2>3, GridArms
<1>15. WaitBlock(FlattenSeq(p4), Grid(E))
  <2>1. ASSUME NEW i \in 1..r
        PROVE  \/ p4[i] = <<>> /\ \A q \in Ranks : <<i - 1, q>> \notin E
               \/ /\ p4[i] = FlattenSeq(f4[i])
                  /\ \A j \in 1..r : IF <<i - 1, j - 1>> \in E
                       THEN f4[i][j] = Wait(Sdma(i - 1, j - 1))
                       ELSE f4[i][j] = <<>>
    BY <1>4, <1>8, <1>9
  <2>2. /\ \A i \in 1..r : f4[i] = [j \in 1..r |-> f4[i][j]]
        /\ p4 = [i \in 1..r |-> p4[i]]
    BY <1>8, <1>9
  <2>3. GridAwaited(p4, f4, r, E)
    BY <2>1, <2>2 DEF GridAwaited
  <2> QED
    BY <1>2, <1>3, <2>3, GridWaits
<1>16. ArmBlock(FlattenSeq(rd), Queues(k, C), Works(s))
  <2>1. \A i \in 1..r : IF i - 1 \in C THEN ArmsAgent(rd[i], Queue(k, i - 1), Works(s))
                                       ELSE rd[i] = <<>>
    BY <1>3, <1>10, ReduceStagedWork
  <2> QED
    BY <1>2, <1>10, <2>1, QueueArms
<1>17. WaitBlock(FlattenSeq(ws), Queues(k, C))
  <2>1. \A i \in 1..r : IF i - 1 \in C THEN ws[i] = Wait(Queue(k, i - 1)) ELSE ws[i] = <<>>
    BY <1>3, <1>10
  <2> QED
    BY <1>2, <1>10, <2>1, QueueWaits
<1>18. Grid(D) \subseteq A /\ Grid(E) \subseteq A /\ Queues(k, C) \subseteq A
  BY <1>1, <1>2, GridNames, AgentSets
<1>19. Settled(FlattenSeq(p1) \o FlattenSeq(p2), A, Works(s))
  BY <1>12, <1>13, <1>18, FirstRound
<1>20. Settled(((FlattenSeq(p1) \o FlattenSeq(p2)) \o FlattenSeq(rd)) \o FlattenSeq(ws),
               A, Works(s))
  BY <1>16, <1>17, <1>18, <1>19, OneMoreRound
<1>21. Settled(((((FlattenSeq(p1) \o FlattenSeq(p2)) \o FlattenSeq(rd)) \o FlattenSeq(ws))
            \o FlattenSeq(p3)) \o FlattenSeq(p4), A, Works(s))
  BY <1>14, <1>15, <1>18, <1>20, OneMoreRound
<1> QED
  BY <1>1, <1>11, <1>21

-----------------------------------------------------------------------------
(* Schemes with equal shares.                                              *)
LEMMA ShareIsEqual ==
  ASSUME GroupAssumption, NEW len \in 0..Capacity
  PROVE  EqualShares(Share4(len))
<1>1. len \in Nat /\ Capacity \in Nat /\ len <= Capacity /\ r \in Nat \ {0}
  BY DEF GroupAssumption
<1>2. PICK S, w, e : S = Share4(len) /\ w = Clv(Capacity) /\ e = Groups(Capacity)
  OBVIOUS
<1>3. /\ w \in Nat /\ Capacity <= r * (4 * w)
  BY <1>1, <1>2, ClvIs
<1>4. PICK d : d = len \div r
  OBVIOUS
<1>5. d \in Int /\ r * d <= len /\ len < r * d + r
  BY <1>1, <1>4, DivBounds
<1>6. d >= 0
  <2> SUFFICES ASSUME d < 0 PROVE FALSE
    BY <1>5
  <2>1. r * (d + 1) <= r * 0
    BY <1>1, <1>5
  <2> QED
    BY <1>1, <1>5, <2>1
<1>7. S = d \div 4
  BY <1>2, <1>4 DEF Share4
<1>8. S \in Nat /\ 4 * S <= d
  BY <1>5, <1>6, <1>7
<1>9. PICK a, b : a = r * S /\ b = r * w
  OBVIOUS
<1>10. a \in Nat /\ b \in Nat
  BY <1>1, <1>3, <1>8, <1>9
<1>11. r * (4 * S) <= r * d /\ r * (4 * S) = 4 * a /\ r * (4 * w) = 4 * b
  BY <1>1, <1>3, <1>5, <1>8, <1>9
<1>12. r * d \in Int
  BY <1>1, <1>5
<1>13. 4 * a <= Capacity /\ Capacity <= 4 * b
  BY <1>1, <1>3, <1>5, <1>10, <1>11, <1>12
<1>14. e = (Capacity + 3) \div 4
  BY <1>1, <1>2 DEF Groups, CeilDiv
<1>15. e \in Nat /\ a <= e /\ a <= b
  BY <1>1, <1>10, <1>13, <1>14
<1>16. ASSUME NEW c \in Ranks
       PROVE  c * S \in Nat /\ c * S + S <= e /\ c * S + S <= b
  <2>1. c \in Nat /\ c < r /\ r \in Nat
    BY <1>1 DEF Ranks
  <2>2. c * S \in Nat /\ c * S + S <= r * S
    BY <1>8, <2>1, Products
  <2> QED
    BY <1>8, <1>9, <1>10, <1>15, <2>2
<1> QED
  BY <1>2, <1>8, <1>9, <1>10, <1>15, <1>16 DEF EqualShares

(* The queues of each GPU to its peers.                                    *)
Others == {e \in Ranks \X Ranks : e[1] # e[2]}

LEMMA PeerPairs ==
  ASSUME GroupAssumption
  PROVE  /\ r \in Nat /\ Others \subseteq Ranks \X Ranks
         /\ \A e \in Others : e[2] \in 0..(r - 1)
         /\ \A e \in Ranks \X Ranks : e[2] \in 0..(r - 1)
         /\ \A i, j \in 1..r : <<i - 1, j - 1>> \in Others <=> j - 1 # i - 1
         /\ \A i, j \in 1..r : <<i - 1, j - 1>> \in Ranks \X Ranks
         /\ \A i \in 1..r : i - 1 \in Ranks
         /\ Grid(Others) \subseteq Engines /\ Grid(Ranks \X Ranks) \subseteq Engines
<1>1. r \in Nat /\ \A i \in 1..r : i - 1 \in Ranks
  BY RankIndex
<1>2. Others \subseteq Ranks \X Ranks
  BY DEF Others
<1>3. \A e \in Ranks \X Ranks : e[2] \in 0..(r - 1)
  BY DEF Ranks
<1>4. \A i, j \in 1..r : <<i - 1, j - 1>> \in Ranks \X Ranks
  BY <1>1
<1>5. \A i, j \in 1..r : <<i - 1, j - 1>> \in Others <=> j - 1 # i - 1
  BY <1>4 DEF Others
<1>6. Grid(Others) \subseteq Engines /\ Grid(Ranks \X Ranks) \subseteq Engines
  BY <1>2, GridNames
<1> QED
  BY <1>1, <1>2, <1>3, <1>4, <1>5, <1>6

LEMMA WaitForPeers ==
  ASSUME GroupAssumption
  PROVE  WaitBlock(WaitWrites, Grid(Others))
<1>1. PICK f : f = [i \in 1..r |-> [j \in 1..r |->
                 IF j - 1 = i - 1 THEN <<>> ELSE Wait(Sdma(i - 1, j - 1))]]
  OBVIOUS
<1>2. PICK p : p = [i \in 1..r |-> FlattenSeq(f[i])]
  OBVIOUS
<1>3. WaitWrites = FlattenSeq(p)
  BY <1>1, <1>2 DEF WaitWrites, EachPeer, EachRank
<1>4. \A i, j \in 1..r : IF <<i - 1, j - 1>> \in Others
                         THEN f[i][j] = Wait(Sdma(i - 1, j - 1)) ELSE f[i][j] = <<>>
  BY <1>1, PeerPairs
<1>5. /\ p = [i \in 1..r |-> p[i]] /\ \A i \in 1..r : p[i] = FlattenSeq(f[i])
      /\ \A i \in 1..r : f[i] = [j \in 1..r |-> f[i][j]]
  BY <1>1, <1>2
<1>6. GridAwaited(p, f, r, Others)
  BY <1>4, <1>5 DEF GridAwaited
<1> QED
  BY <1>3, <1>6, PeerPairs, GridWaits

LEMMA WaitForEngines ==
  ASSUME GroupAssumption
  PROVE  WaitBlock(WaitReads, Grid(Ranks \X Ranks))
<1>1. PICK f : f = [i \in 1..r |-> [j \in 1..r |-> Wait(Sdma(i - 1, j - 1))]]
  OBVIOUS
<1>2. PICK p : p = [i \in 1..r |-> FlattenSeq(f[i])]
  OBVIOUS
<1>3. WaitReads = FlattenSeq(p)
  BY <1>1, <1>2 DEF WaitReads, EachRank
<1>4. \A i, j \in 1..r : IF <<i - 1, j - 1>> \in Ranks \X Ranks
                         THEN f[i][j] = Wait(Sdma(i - 1, j - 1)) ELSE f[i][j] = <<>>
  BY <1>1, PeerPairs
<1>5. /\ p = [i \in 1..r |-> p[i]] /\ \A i \in 1..r : p[i] = FlattenSeq(f[i])
      /\ \A i \in 1..r : f[i] = [j \in 1..r |-> f[i][j]]
  BY <1>1, <1>2
<1>6. GridAwaited(p, f, r, Ranks \X Ranks)
  BY <1>4, <1>5 DEF GridAwaited
<1> QED
  BY <1>3, <1>6, PeerPairs, GridWaits

(* The device-coordinated hybrid scheme.                                   *)
LEMMA DevhybridSettled ==
  ASSUME GroupAssumption, NEW s \in Nat, seq + 1 \in 1..s, NEW len \in 0..Capacity
  PROVE  Settled(Devhybrid(len), Agents, Works(s))
<1>1. PICK clv, cu : clv = Share4(len) /\ cu = (clv * 45) \div 100
  OBVIOUS
<1>2. EqualShares(clv) /\ cu \in 0..clv
  <2>1. EqualShares(clv)
    BY <1>1, ShareIsEqual
  <2>2. clv \in Nat
    BY <2>1 DEF EqualShares
  <2>3. (clv * 45) \div 100 \in 0..clv
    BY <2>2
  <2> QED
    BY <1>1, <2>1, <2>3
<1>3. PICK f : f = [i \in 1..r |-> [j \in 1..r |->
                 IF j - 1 = i - 1 THEN <<>>
                 ELSE Refill(Sdma(i - 1, j - 1), DualpathSdma(i - 1, j - 1, clv, cu, seq + 1))]]
  OBVIOUS
<1>4. PICK p : p = [i \in 1..r |-> FlattenSeq(f[i])]
  OBVIOUS
<1>5. PICK q : q = [i \in 1..r |->
                      Arm(Cu(i - 1), AllreduceDualpath(i - 1, clv, cu, seq + 1))]
  OBVIOUS
<1>6. PICK w : w = [i \in 1..r |-> Wait(Cu(i - 1))]
  OBVIOUS
<1>7. Devhybrid(len) = ((FlattenSeq(p) \o FlattenSeq(q)) \o FlattenSeq(w)) \o WaitWrites
  BY <1>1, <1>3, <1>4, <1>5, <1>6 DEF Devhybrid, WaitWrites, EachPeer, EachRank
<1>8. ArmBlock(FlattenSeq(p), Grid(Others), Works(s))
  <2>1. \A i, j \in 1..r : IF <<i - 1, j - 1>> \in Others
                           THEN ArmsAgent(f[i][j], Sdma(i - 1, j - 1), Works(s))
                           ELSE f[i][j] = <<>>
    BY <1>2, <1>3, PeerPairs, DualpathSdmaWork DEF ArmsAgent
  <2>2. /\ p = [i \in 1..r |-> p[i]] /\ \A i \in 1..r : p[i] = FlattenSeq(f[i])
        /\ \A i \in 1..r : f[i] = [j \in 1..r |-> f[i][j]]
    BY <1>3, <1>4
  <2>3. GridArmed(p, f, r, Others, Works(s))
    BY <2>1, <2>2 DEF GridArmed
  <2> QED
    BY <2>3, PeerPairs, GridArms
<1>9. ArmBlock(FlattenSeq(q), Queues("cu", Ranks), Works(s))
  <2>1. \A i \in 1..r : ArmsAgent(q[i], Queue("cu", i - 1), Works(s))
    BY <1>2, <1>5, RankIndex, DualpathWork DEF ArmsAgent, Cu
  <2> QED
    BY <1>5, <2>1, RankIndex, QueueArms
<1>10. WaitBlock(FlattenSeq(w), Queues("cu", Ranks))
  <2>1. \A i \in 1..r : w[i] = Wait(Queue("cu", i - 1))
    BY <1>6 DEF Cu
  <2> QED
    BY <1>6, <2>1, RankIndex, QueueWaits
<1>11. /\ Grid(Others) \cap Queues("cu", Ranks) = {}
       /\ Grid(Others) \cup Queues("cu", Ranks) \subseteq Queues("cu", Ranks) \cup Grid(Others)
       /\ Grid(Others) \cup Queues("cu", Ranks) \subseteq Agents
  BY PeerPairs, AgentSets
<1>12. WaitBlock(WaitWrites, Grid(Others))
  BY WaitForPeers
<1> QED
  BY <1>7, <1>8, <1>9, <1>10, <1>11, <1>12, RoundOfTwo

(* The concurrent scheme: the SDMA range runs while the one-kernel round on*)
(* the first compute queues is open.                                       *)
LEMMA ConcurrentSettled ==
  ASSUME GroupAssumption, NEW s \in Nat, seq + 1 \in 1..s, NEW len \in 0..Capacity
  PROVE  Settled(Concurrent(len), Agents, Works(s))
<1>1. PICK an, base : an = PartA(len) /\ base = an \div 4
  OBVIOUS
<1>2. /\ an \in 0..Capacity /\ len - an \in 0..Capacity /\ base \in Nat
      /\ base + Groups(len - an) <= Groups(Capacity)
  <2>1. len \in Nat /\ Capacity \in Nat /\ len <= Capacity
    BY DEF GroupAssumption
  <2>2. PICK h : h = (len * 50) \div 100
    OBVIOUS
  <2>3. h \in Nat /\ h <= len
    BY <2>1, <2>2
  <2>4. PICK b : b = h \div 4
    OBVIOUS
  <2>5. b \in Nat /\ 4 * b <= len /\ an = 4 * b
    BY <1>1, <2>2, <2>3, <2>4 DEF PartA
  <2>6. base = b
    BY <1>1, <2>5
  <2>7. /\ Groups(len - an) = ((len - an) + 3) \div 4
        /\ Groups(Capacity) = (Capacity + 3) \div 4
    BY <2>1, <2>5 DEF Groups, CeilDiv
  <2>8. b + (((len - 4 * b) + 3) \div 4) <= (Capacity + 3) \div 4
    BY <2>1, <2>5
  <2> QED
    BY <2>1, <2>5, <2>6, <2>7, <2>8
<1>3. ShareFacts(an) /\ ShareFacts(len - an)
  BY <1>2, ShareSizes
<1>4. PICK f : f = [i \in 1..r |-> Arm(Cu(i - 1), AllreduceOneshot(i - 1, an, seq + 1))]
  OBVIOUS
<1>5. PICK m, w : /\ m = SdmaRange(base, len - an, "cu2", "stage_b")
                  /\ w = EachRank(LAMBDA g : Wait(Cu(g)))
  OBVIOUS
<1>6. Concurrent(len) = (FlattenSeq(f) \o m) \o w
  BY <1>1, <1>4, <1>5 DEF Concurrent, EachRank
<1>7. ArmBlock(FlattenSeq(f), Queues("cu", Ranks), Works(s))
  BY <1>3, <1>4, OneshotArms
<1>8. Settled(m, Queues("cu2", Ranks) \cup Engines, Works(s))
  BY <1>2, <1>3, <1>5, SdmaRangeSettled
<1>9. WaitBlock(w, Queues("cu", Ranks))
  BY <1>5, WaitForRanks DEF Cu
<1>10. /\ Queues("cu", Ranks) \cap (Queues("cu2", Ranks) \cup Engines) = {}
       /\ Queues("cu", Ranks) \cup (Queues("cu2", Ranks) \cup Engines) \subseteq Agents
  BY AgentSets
<1>11. Settled((FlattenSeq(f) \o m) \o w,
               Queues("cu", Ranks) \cup (Queues("cu2", Ranks) \cup Engines), Works(s))
  BY <1>7, <1>8, <1>9, <1>10, Around
<1> QED
  BY <1>6, <1>10, <1>11, SettledMore

-----------------------------------------------------------------------------
(* The pipelined schemes.                                                  *)
LEMMA TileIn ==
  ASSUME GroupAssumption, NEW len \in 0..Capacity, NEW t \in 0..(Tiles - 1)
  PROVE  /\ t * TileLen(len) \in Nat /\ TileLen(len) \in Nat
         /\ t * TileLen(len) + TileLen(len) <= Share4(len)
         /\ EqualShares(Share4(len))
<1>1. EqualShares(Share4(len))
  BY ShareIsEqual
<1>2. PICK S, l : S = Share4(len) /\ l = TileLen(len)
  OBVIOUS
<1>3. S \in Nat
  BY <1>1, <1>2 DEF EqualShares
<1>4. Tiles \in Nat \ {0} /\ t \in Nat /\ t < Tiles
  BY AllReduceAssumption
<1>5. l = S \div Tiles
  BY <1>2 DEF TileLen
<1>6. l \in Int /\ Tiles * l <= S /\ S < Tiles * l + Tiles
  BY <1>3, <1>4, <1>5, DivBounds
<1>7. l >= 0
  <2> SUFFICES ASSUME l < 0 PROVE FALSE
    BY <1>6
  <2>1. Tiles * (l + 1) <= Tiles * 0
    BY <1>4, <1>6
  <2> QED
    BY <1>3, <1>4, <1>6, <2>1
<1>8. l \in Nat
  BY <1>6, <1>7
<1>9. t * l \in Nat /\ t * l + l <= Tiles * l
  BY <1>4, <1>8, Products
<1>10. Tiles * l \in Int
  BY <1>4, <1>8
<1>11. t * l + l <= S
  BY <1>3, <1>6, <1>8, <1>9, <1>10
<1> QED
  BY <1>1, <1>2, <1>8, <1>9, <1>11

LEMMA TilePlaces ==
  ASSUME GroupAssumption, NEW len \in 0..Capacity, NEW t \in 0..(Tiles - 1),
         NEW c \in Ranks, NEW g \in Ranks
  PROVE  /\ InMemory(Buf(g, TileAt(c, len, t)), TileLen(len))
         /\ InMemory(Stage(g, TileAt(c, len, t)), TileLen(len))
         /\ TileAt(c, len, t) \in Nat
         /\ TileAt(c, len, t) + TileLen(len) <= Groups(Capacity)
         /\ t * TileLen(len) + c * Share4(len) + TileLen(len) <= r * Clv(Capacity)
<1>1. PICK S, l, x, e, d : /\ S = Share4(len) /\ l = TileLen(len) /\ x = t * l
                           /\ e = Groups(Capacity) /\ d = r * Clv(Capacity)
  OBVIOUS
<1>2. x \in Nat /\ l \in Nat /\ x + l <= S /\ EqualShares(S)
  BY <1>1, TileIn
<1>3. TileAt(c, len, t) = c * S + x
  BY <1>1 DEF TileAt
<1>4. "stage" \in {"stage", "stage_b"}
  OBVIOUS
<1>5. /\ c * S + x \in Nat
      /\ InMemory(Buf(g, c * S + x), l) /\ InMemory(StageOf("stage", g, c * S + x), l)
  BY <1>2, <1>4, PartIn
<1>6. PICK y : y = c * S
  OBVIOUS
<1>7. S \in Nat /\ y \in Nat /\ e \in Nat /\ d \in Nat /\ y + S <= e /\ y + S <= d
  BY <1>1, <1>2, <1>6 DEF EqualShares
<1>8. (y + x) + l <= e /\ x + y + l <= d
  BY <1>2, <1>7
<1> QED
  BY <1>1, <1>3, <1>5, <1>6, <1>8 DEF Stage

(* A command per GPU for its compute queue.                                *)
LEMMA WaitForCus ==
  ASSUME GroupAssumption
  PROVE  WaitBlock(WaitCus, Queues("cu", Ranks))
<1>1. PICK w : w = EachRank(LAMBDA g : Wait(Cu(g)))
  OBVIOUS
<1>2. WaitBlock(w, Queues("cu", Ranks))
  BY <1>1, WaitForRanks DEF Cu
<1> QED
  BY <1>1, <1>2 DEF WaitCus, EachRank

LEMMA ReadTileArms ==
  ASSUME GroupAssumption, NEW s, NEW len \in 0..Capacity, NEW t \in 0..(Tiles - 1)
  PROVE  ArmBlock(ReadTile(len, t), Grid(Ranks \X Ranks), Works(s))
<1>1. PICK f : f = [i \in 1..r |-> [j \in 1..r |->
                 Refill(Sdma(i - 1, j - 1),
                        <<Copy(Buf(j - 1, TileAt(i - 1, len, t)),
                               Stage(i - 1, TileAt(j - 1, len, t)), TileLen(len))>>)]]
  OBVIOUS
<1>2. PICK p : p = [i \in 1..r |-> FlattenSeq(f[i])]
  OBVIOUS
<1>3. ReadTile(len, t) = FlattenSeq(p)
  BY <1>1, <1>2 DEF ReadTile, EachRank
<1>4. ASSUME NEW i \in 1..r, NEW j \in 1..r
      PROVE  ArmsAgent(f[i][j], Sdma(i - 1, j - 1), Works(s))
  <2>1. /\ InMemory(Buf(j - 1, TileAt(i - 1, len, t)), TileLen(len))
        /\ InMemory(Stage(i - 1, TileAt(j - 1, len, t)), TileLen(len))
        /\ TileLen(len) \in Nat
    BY PeerPairs, TilePlaces, TileIn
  <2>2. <<Copy(Buf(j - 1, TileAt(i - 1, len, t)),
               Stage(i - 1, TileAt(j - 1, len, t)), TileLen(len))>> \in Works(s)
    BY <2>1, CopyIn, WorkOne
  <2> QED
    BY <1>1, <2>2 DEF ArmsAgent
<1>5. \A i, j \in 1..r : IF <<i - 1, j - 1>> \in Ranks \X Ranks
                         THEN ArmsAgent(f[i][j], Sdma(i - 1, j - 1), Works(s))
                         ELSE f[i][j] = <<>>
  BY <1>4, PeerPairs
<1>6. /\ p = [i \in 1..r |-> p[i]] /\ \A i \in 1..r : p[i] = FlattenSeq(f[i])
      /\ \A i \in 1..r : f[i] = [j \in 1..r |-> f[i][j]]
  BY <1>1, <1>2
<1>7. GridArmed(p, f, r, Ranks \X Ranks, Works(s))
  BY <1>5, <1>6 DEF GridArmed
<1> QED
  BY <1>3, <1>7, PeerPairs, GridArms

LEMMA PushTileArms ==
  ASSUME GroupAssumption, NEW s, NEW len \in 0..Capacity, NEW t \in 0..(Tiles - 1)
  PROVE  ArmBlock(PushTileBySdma(len, t), Grid(Others), Works(s))
<1>1. PICK f : f = [i \in 1..r |-> [j \in 1..r |->
                 IF j - 1 = i - 1 THEN <<>>
                 ELSE Refill(Sdma(i - 1, j - 1),
                        <<Copy(Buf(i - 1, TileAt(i - 1, len, t)),
                               Buf(j - 1, TileAt(i - 1, len, t)), TileLen(len))>>)]]
  OBVIOUS
<1>2. PICK p : p = [i \in 1..r |-> FlattenSeq(f[i])]
  OBVIOUS
<1>3. PushTileBySdma(len, t) = FlattenSeq(p)
  BY <1>1, <1>2 DEF PushTileBySdma, EachPeer, EachRank
<1>4. ASSUME NEW i \in 1..r, NEW j \in 1..r, j - 1 # i - 1
      PROVE  ArmsAgent(f[i][j], Sdma(i - 1, j - 1), Works(s))
  <2>1. /\ InMemory(Buf(i - 1, TileAt(i - 1, len, t)), TileLen(len))
        /\ InMemory(Buf(j - 1, TileAt(i - 1, len, t)), TileLen(len))
        /\ TileLen(len) \in Nat
    BY PeerPairs, TilePlaces, TileIn
  <2>2. <<Copy(Buf(i - 1, TileAt(i - 1, len, t)),
               Buf(j - 1, TileAt(i - 1, len, t)), TileLen(len))>> \in Works(s)
    BY <2>1, CopyIn, WorkOne
  <2> QED
    BY <1>1, <1>4, <2>2 DEF ArmsAgent
<1>5. \A i, j \in 1..r : IF <<i - 1, j - 1>> \in Others
                         THEN ArmsAgent(f[i][j], Sdma(i - 1, j - 1), Works(s))
                         ELSE f[i][j] = <<>>
  BY <1>1, <1>4, PeerPairs
<1>6. /\ p = [i \in 1..r |-> p[i]] /\ \A i \in 1..r : p[i] = FlattenSeq(f[i])
      /\ \A i \in 1..r : f[i] = [j \in 1..r |-> f[i][j]]
  BY <1>1, <1>2
<1>7. GridArmed(p, f, r, Others, Works(s))
  BY <1>5, <1>6 DEF GridArmed
<1> QED
  BY <1>3, <1>7, PeerPairs, GridArms

LEMMA PushByCuArms ==
  ASSUME GroupAssumption, NEW s, NEW len \in 0..Capacity, NEW t \in 0..(Tiles - 1)
  PROVE  ArmBlock(PushTileByCu(len, t), Queues("cu", Ranks), Works(s))
<1>1. PICK f : f = [i \in 1..r |-> Refill(Cu(i - 1),
                 P2pBroadcast(Buf(i - 1, TileAt(i - 1, len, t)),
                   {Buf(p, TileAt(i - 1, len, t)) : p \in Ranks \ {i - 1}}, TileLen(len)))]
  OBVIOUS
<1>2. PushTileByCu(len, t) = FlattenSeq(f)
  BY <1>1 DEF PushTileByCu, EachRank
<1>3. ASSUME NEW i \in 1..r PROVE ArmsAgent(f[i], Queue("cu", i - 1), Works(s))
  <2>1. /\ InMemory(Buf(i - 1, TileAt(i - 1, len, t)), TileLen(len))
        /\ \A p \in Ranks : InMemory(Buf(p, TileAt(i - 1, len, t)), TileLen(len))
        /\ TileLen(len) \in Nat
    BY PeerPairs, TilePlaces, TileIn
  <2>2. PICK d : d = {Buf(p, TileAt(i - 1, len, t)) : p \in Ranks \ {i - 1}}
    OBVIOUS
  <2>3. P2pBroadcast(Buf(i - 1, TileAt(i - 1, len, t)), d, TileLen(len)) \in Works(s)
    BY <2>1, <2>2, P2pBroadcastWork
  <2> QED
    BY <1>1, <2>2, <2>3 DEF ArmsAgent, Cu
<1> QED
  BY <1>1, <1>2, <1>3, RankIndex, QueueArms

LEMMA ReadReduceArms ==
  ASSUME GroupAssumption, NEW s, NEW len \in 0..Capacity, NEW t \in 0..(Tiles - 1)
  PROVE  ArmBlock(ReadReduceTile(len, t), Queues("cu", Ranks), Works(s))
<1>1. PICK f : f = [i \in 1..r |-> Refill(Cu(i - 1),
                 ReducePeers(i - 1, TileAt(i - 1, len, t), TileLen(len)))]
  OBVIOUS
<1>2. ReadReduceTile(len, t) = FlattenSeq(f)
  BY <1>1 DEF ReadReduceTile, EachRank
<1>3. ASSUME NEW i \in 1..r PROVE ArmsAgent(f[i], Queue("cu", i - 1), Works(s))
  <2>1. /\ i - 1 \in Ranks /\ TileAt(i - 1, len, t) \in Nat /\ TileLen(len) \in Nat
        /\ TileAt(i - 1, len, t) + TileLen(len) <= Groups(Capacity)
    BY PeerPairs, TilePlaces, TileIn
  <2>2. ReducePeers(i - 1, TileAt(i - 1, len, t), TileLen(len)) \in Works(s)
    BY <2>1, ReducePeersWork
  <2> QED
    BY <1>1, <2>2 DEF ArmsAgent, Cu
<1> QED
  BY <1>1, <1>2, <1>3, RankIndex, QueueArms

LEMMA ReduceTileSettled ==
  ASSUME GroupAssumption, NEW s, NEW len \in 0..Capacity, NEW t \in 0..(Tiles - 1)
  PROVE  Settled(ReduceTile(len, t), Agents, Works(s))
<1>1. PICK f : f = [i \in 1..r |-> Arm(Cu(i - 1),
                 GatherReduceLocal(Stage(i - 1, t * TileLen(len)),
                   Buf(i - 1, TileAt(i - 1, len, t)), Share4(len), TileLen(len)))]
  OBVIOUS
<1>2. ReduceTile(len, t) = FlattenSeq(f) \o WaitCus
  BY <1>1 DEF ReduceTile, EachRank
<1>3. ASSUME NEW i \in 1..r PROVE ArmsAgent(f[i], Queue("cu", i - 1), Works(s))
  <2>1. /\ i - 1 \in Ranks /\ TileAt(i - 1, len, t) \in Nat /\ TileLen(len) \in Nat
        /\ t * TileLen(len) \in Nat
        /\ TileAt(i - 1, len, t) + TileLen(len) <= Groups(Capacity)
        /\ "stage" \in {"stage", "stage_b"}
    BY PeerPairs, TilePlaces, TileIn
  <2>2. Share4(len) \in Nat
    BY TileIn DEF EqualShares
  <2>3. \A p \in Ranks :
          t * TileLen(len) + p * Share4(len) + TileLen(len) <= r * Clv(Capacity)
    BY TilePlaces
  <2>4. GatherReduceLocal(StageOf("stage", i - 1, t * TileLen(len)),
          Buf(i - 1, TileAt(i - 1, len, t)), Share4(len), TileLen(len)) \in Works(s)
    BY <2>1, <2>2, <2>3, GatherReduceWork
  <2> QED
    BY <1>1, <2>4 DEF ArmsAgent, Cu, Stage
<1>4. ArmBlock(FlattenSeq(f), Queues("cu", Ranks), Works(s))
  BY <1>1, <1>3, RankIndex, QueueArms
<1> QED
  BY <1>2, <1>4, WaitForCus, AgentSets, FirstRound

(* The pipelined schemes, tile by tile.                                    *)
LEMMA BidirSettled ==
  ASSUME GroupAssumption, NEW s, NEW len \in 0..Capacity
  PROVE  Settled(Bidir(len), Agents, Works(s))
<1>1. /\ Tiles - 1 \in Nat /\ 0 \in 0..(Tiles - 1) /\ Tiles - 1 \in 0..(Tiles - 1)
      /\ \A t \in 1..(Tiles - 1) : t \in 0..(Tiles - 1) /\ t - 1 \in 0..(Tiles - 1)
  BY AllReduceAssumption
<1>2. PICK E, Q : E = Grid(Ranks \X Ranks) /\ Q = Queues("cu", Ranks)
  OBVIOUS
<1>3. /\ E \subseteq Agents /\ Q \subseteq Agents /\ E \cap Q = {}
      /\ E \cup Q \subseteq Q \cup E /\ E \cup Q \subseteq Agents
  BY <1>2, PeerPairs, AgentSets
<1>4. /\ \A t \in 0..(Tiles - 1) : ArmBlock(ReadTile(len, t), E, Works(s))
      /\ \A t \in 0..(Tiles - 1) : ArmBlock(PushTileByCu(len, t), Q, Works(s))
      /\ WaitBlock(WaitReads, E) /\ WaitBlock(WaitCus, Q)
  BY <1>2, ReadTileArms, PushByCuArms, WaitForEngines, WaitForCus
<1>5. PICK f : f = [t \in 1..(Tiles - 1) |->
         (((ReadTile(len, t) \o PushTileByCu(len, t - 1)) \o WaitCus) \o WaitReads)
           \o ReduceTile(len, t)]
  OBVIOUS
<1>6. Bidir(len) =
        ((((ReadTile(len, 0) \o WaitReads) \o ReduceTile(len, 0)) \o FlattenSeq(f))
           \o PushTileByCu(len, Tiles - 1)) \o WaitCus
  BY <1>5 DEF Bidir
<1>7. Settled(ReadTile(len, 0) \o WaitReads, Agents, Works(s))
  BY <1>1, <1>3, <1>4, FirstRound
<1>8. Settled((ReadTile(len, 0) \o WaitReads) \o ReduceTile(len, 0), Agents, Works(s))
  BY <1>1, <1>7, ReduceTileSettled, SettledJoin
<1>9. ASSUME NEW t \in 1..(Tiles - 1) PROVE Settled(f[t], Agents, Works(s))
  <2>1. ArmBlock(ReadTile(len, t), E, Works(s)) /\ ArmBlock(PushTileByCu(len, t - 1), Q, Works(s))
    BY <1>1, <1>4
  <2>2. Settled(((ReadTile(len, t) \o PushTileByCu(len, t - 1)) \o WaitCus) \o WaitReads,
                Agents, Works(s))
    BY <1>3, <1>4, <2>1, RoundOfTwo
  <2>3. Settled(ReduceTile(len, t), Agents, Works(s))
    BY <1>1, ReduceTileSettled
  <2> QED
    BY <1>5, <2>2, <2>3, SettledJoin
<1>10. Settled(FlattenSeq(f), Agents, Works(s))
  BY <1>1, <1>5, <1>9, FlattenSettled
<1>11. Settled(((ReadTile(len, 0) \o WaitReads) \o ReduceTile(len, 0)) \o FlattenSeq(f),
               Agents, Works(s))
  BY <1>8, <1>10, SettledJoin
<1> QED
  BY <1>1, <1>3, <1>4, <1>6, <1>11, OneMoreRound

LEMMA Bidir2Settled ==
  ASSUME GroupAssumption, NEW s, NEW len \in 0..Capacity
  PROVE  Settled(Bidir2(len), Agents, Works(s))
<1>1. /\ Tiles - 1 \in Nat /\ 0 \in 0..(Tiles - 1) /\ Tiles - 1 \in 0..(Tiles - 1)
      /\ \A t \in 1..(Tiles - 1) : t \in 0..(Tiles - 1) /\ t - 1 \in 0..(Tiles - 1)
  BY AllReduceAssumption
<1>2. PICK E, Q : E = Grid(Others) /\ Q = Queues("cu", Ranks)
  OBVIOUS
<1>3. /\ E \subseteq Agents /\ Q \subseteq Agents /\ Q \cap E = {}
      /\ Q \cup E \subseteq E \cup Q /\ Q \cup E \subseteq Agents
  BY <1>2, PeerPairs, AgentSets
<1>4. /\ \A t \in 0..(Tiles - 1) : ArmBlock(ReadReduceTile(len, t), Q, Works(s))
      /\ \A t \in 0..(Tiles - 1) : ArmBlock(PushTileBySdma(len, t), E, Works(s))
      /\ WaitBlock(WaitWrites, E) /\ WaitBlock(WaitCus, Q)
  BY <1>2, ReadReduceArms, PushTileArms, WaitForPeers, WaitForCus
<1>5. PICK f : f = [t \in 1..(Tiles - 1) |->
         ((ReadReduceTile(len, t) \o PushTileBySdma(len, t - 1)) \o WaitWrites) \o WaitCus]
  OBVIOUS
<1>6. Bidir2(len) =
        (((ReadReduceTile(len, 0) \o WaitCus) \o FlattenSeq(f))
           \o PushTileBySdma(len, Tiles - 1)) \o WaitWrites
  BY <1>5 DEF Bidir2
<1>7. Settled(ReadReduceTile(len, 0) \o WaitCus, Agents, Works(s))
  BY <1>1, <1>3, <1>4, FirstRound
<1>8. ASSUME NEW t \in 1..(Tiles - 1) PROVE Settled(f[t], Agents, Works(s))
  <2>1. ArmBlock(ReadReduceTile(len, t), Q, Works(s))
        /\ ArmBlock(PushTileBySdma(len, t - 1), E, Works(s))
    BY <1>1, <1>4
  <2>2. Settled(((ReadReduceTile(len, t) \o PushTileBySdma(len, t - 1)) \o WaitWrites) \o WaitCus,
                Agents, Works(s))
    BY <1>3, <1>4, <2>1, RoundOfTwo
  <2> QED
    BY <1>5, <2>2
<1>9. Settled(FlattenSeq(f), Agents, Works(s))
  BY <1>1, <1>5, <1>8, FlattenSettled
<1>10. Settled((ReadReduceTile(len, 0) \o WaitCus) \o FlattenSeq(f), Agents, Works(s))
  BY <1>7, <1>9, SettledJoin
<1> QED
  BY <1>1, <1>3, <1>4, <1>6, <1>10, OneMoreRound

-----------------------------------------------------------------------------
(* The hybrid scheme: the first m SDMA queues of each GPU and its compute  *)
(* queue together.                                                         *)
Mixed(m) == Grid(Ranks \X (0..(m - 1))) \cup Queues("cu", Ranks)

MixedArmed(s, m, W) ==
  /\ s = [i \in 1..r |-> s[i]]
  /\ \A i \in 1..r : \E t, c :
       /\ s[i] = FlattenSeq(t) \o c /\ t = [j \in 1..m |-> t[j]]
       /\ \A j \in 1..m : ArmsAgent(t[j], Sdma(i - 1, j - 1), W)
       /\ ArmsAgent(c, Cu(i - 1), W)

MixedAwaited(s, m) ==
  /\ s = [i \in 1..r |-> s[i]]
  /\ \A i \in 1..r : \E t :
       /\ s[i] = FlattenSeq(t) \o Wait(Cu(i - 1)) /\ t = [j \in 1..m |-> t[j]]
       /\ \A j \in 1..m : t[j] = Wait(Sdma(i - 1, j - 1))

LEMMA MixedNames ==
  ASSUME GroupAssumption, NEW m \in Nat, m <= r
  PROVE  /\ Mixed(m) \subseteq Agents
         /\ \A a \in Mixed(m) : a[2] \in Ranks
         /\ \A i \in 1..r : Of(Mixed(m), 2, i - 1) = Row(i - 1, 0..(m - 1)) \cup {Cu(i - 1)}
         /\ \A i \in 1..r : Row(i - 1, 0..(m - 1)) \cap {Cu(i - 1)} = {}
<1>1. PICK D : D = Ranks \X (0..(m - 1))
  OBVIOUS
<1>2. D \subseteq Ranks \X Ranks
  BY <1>1 DEF Ranks, GroupAssumption
<1>3. Grid(D) \subseteq Engines /\ Engines \subseteq Agents /\ Queues("cu", Ranks) \subseteq Agents
  BY <1>2, GridNames, AgentSets
<1>4. \A a \in Grid(D) : a = Sdma(a[2], a[3]) /\ <<a[2], a[3]>> \in D /\ a[2] \in Ranks
  BY <1>2, GridNames
<1>5. \A a \in Queues("cu", Ranks) : a = Cu(a[2]) /\ a[2] \in Ranks
  BY NamesOfAgents DEF Queues, Cu
<1>6. \A g \in Ranks : Cu(g) \in Queues("cu", Ranks) /\ Cu(g)[2] = g
  BY NamesOfAgents DEF Queues, Cu
<1>7. \A g \in Ranks, q \in 0..(m - 1) : Sdma(g, q) \in Grid(D) /\ Sdma(g, q)[2] = g
  BY <1>1, <1>2, GridNames, NamesOfAgents
<1>8. Mixed(m) = Grid(D) \cup Queues("cu", Ranks)
  BY <1>1 DEF Mixed
<1>9. ASSUME NEW i \in 1..r
      PROVE  /\ Of(Mixed(m), 2, i - 1) = Row(i - 1, 0..(m - 1)) \cup {Cu(i - 1)}
             /\ Row(i - 1, 0..(m - 1)) \cap {Cu(i - 1)} = {}
  <2>1. i - 1 \in Ranks
    BY RankIndex
  <2>2. ASSUME NEW a \in Of(Mixed(m), 2, i - 1)
        PROVE  a \in Row(i - 1, 0..(m - 1)) \cup {Cu(i - 1)}
    <3>1. a \in Mixed(m) /\ a[2] = i - 1
      BY DEF Of
    <3>2. CASE a \in Grid(D)
      <4>1. a = Sdma(i - 1, a[3]) /\ a[3] \in 0..(m - 1)
        BY <1>1, <1>4, <3>1, <3>2
      <4> QED
        BY <4>1 DEF Row
    <3>3. CASE a \in Queues("cu", Ranks)
      BY <1>5, <3>1, <3>3
    <3> QED
      BY <1>8, <3>1, <3>2, <3>3
  <2>3. Row(i - 1, 0..(m - 1)) \cup {Cu(i - 1)} \subseteq Of(Mixed(m), 2, i - 1)
    BY <1>6, <1>7, <1>8, <2>1 DEF Row, Of
  <2>4. Row(i - 1, 0..(m - 1)) \cap {Cu(i - 1)} = {}
    BY DEF Row, Sdma, Cu, Queue
  <2> QED
    BY <2>2, <2>3, <2>4
<1> QED
  BY <1>3, <1>4, <1>5, <1>8, <1>9

(* Host loops that serve the SDMA queues of a GPU and its compute queue.   *)
LEMMA MixedArms ==
  ASSUME GroupAssumption, NEW W, NEW m \in Nat, m <= r, NEW s, MixedArmed(s, m, W)
  PROVE  ArmBlock(FlattenSeq(s), Mixed(m), W)
<1>1. ASSUME NEW i \in 1..r PROVE ArmBlock(s[i], Of(Mixed(m), 2, i - 1), W)
  <2>1. PICK t, c : /\ s[i] = FlattenSeq(t) \o c /\ t = [j \in 1..m |-> t[j]]
                    /\ \A j \in 1..m : ArmsAgent(t[j], Sdma(i - 1, j - 1), W)
                    /\ ArmsAgent(c, Cu(i - 1), W)
    BY DEF MixedArmed
  <2>2. \A j \in 1..m : j - 1 \in 0..(m - 1)
    OBVIOUS
  <2>3. ArmBlock(FlattenSeq(t), Row(i - 1, 0..(m - 1)), W)
    BY <2>1, <2>2, RowArms
  <2>4. ArmBlock(c, {Cu(i - 1)}, W)
    BY <2>1, ArmOne DEF ArmsAgent
  <2> QED
    BY <2>1, <2>3, <2>4, MixedNames, ArmsJoin
<1>2. \A i \in 1..r : \E T : ArmBlock(s[i], T, W) /\ T \subseteq Of(Mixed(m), 2, i - 1)
  BY <1>1
<1> QED
  BY <1>2, RankArms DEF MixedArmed

LEMMA MixedWaits ==
  ASSUME GroupAssumption, NEW m \in Nat, m <= r, NEW s, MixedAwaited(s, m)
  PROVE  WaitBlock(FlattenSeq(s), Mixed(m))
<1>1. ASSUME NEW i \in 1..r PROVE WaitBlock(s[i], Of(Mixed(m), 2, i - 1))
  <2>1. PICK t : /\ s[i] = FlattenSeq(t) \o Wait(Cu(i - 1)) /\ t = [j \in 1..m |-> t[j]]
                 /\ \A j \in 1..m : t[j] = Wait(Sdma(i - 1, j - 1))
    BY DEF MixedAwaited
  <2>2. \A j \in 1..m : j - 1 \in 0..(m - 1)
    OBVIOUS
  <2>3. WaitBlock(FlattenSeq(t), Row(i - 1, 0..(m - 1)))
    BY <2>1, <2>2, RowWaits
  <2>4. WaitBlock(Wait(Cu(i - 1)), {Cu(i - 1)})
    BY WaitOne
  <2> QED
    BY <2>1, <2>3, <2>4, MixedNames, WaitsJoin
<1>2. \A i \in 1..r : \E T : WaitBlock(s[i], T) /\ Of(Mixed(m), 2, i - 1) \subseteq T
  BY <1>1
<1>3. \A a \in Mixed(m) : a[2] \in Ranks
  BY MixedNames
<1> QED
  BY <1>2, <1>3, RankWaits DEF MixedAwaited

(* At least one share and one peer are the CUs', and not every share.      *)
LEMMA HybridSplit ==
  ASSUME GroupAssumption, r >= 2
  PROVE  CuChunks \in 1..(r - 1) /\ CuPeers \in 1..(r - 1)
<1>1. r \in Nat /\ r - 1 \in Nat
  BY DEF GroupAssumption
<1>2. ASSUME NEW k \in Nat PROVE CuPart(k) \in 0..(r - 1)
  <2>1. PICK x : x = (k * 45 + 50) \div 100
    OBVIOUS
  <2>2. x \in Nat
    BY <2>1
  <2>3. Lesser(x, r - 1) \in 0..(r - 1)
    BY <1>1, <2>2 DEF Lesser
  <2> QED
    BY <2>1, <2>3 DEF CuPart
<1> QED
  BY <1>1, <1>2 DEF CuChunks, CuPeers

LEMMA P2pWriteWork ==
  ASSUME NEW s, NEW clv, EqualShares(clv), NEW g \in Ranks, NEW c \in Nat, NEW k \in Nat,
         \A p \in 0..(k - 1) : c + p \in Ranks
  PROVE  P2pWrite(Buf(g, c * clv), [p \in 0..(k - 1) |-> Stage(c + p, g * clv)], clv, clv)
           \in Works(s)
<1>1. clv \in Nat
  BY DEF EqualShares
<1>2. ASSUME NEW p \in 0..(k - 1)
      PROVE  Copy([Buf(g, c * clv) EXCEPT !.at = @ + p * clv], Stage(c + p, g * clv), clv)
               \subseteq Ops(s)
  <2>1. c + p \in Ranks /\ p \in Nat
    OBVIOUS
  <2>2. c * clv + p * clv = (c + p) * clv
    BY <1>1, <2>1
  <2>3. [Buf(g, c * clv) EXCEPT !.at = @ + p * clv] = Buf(g, (c + p) * clv)
    BY <2>2 DEF Buf
  <2>4. InMemory(Buf(g, (c + p) * clv), clv) /\ InMemory(StageOf("stage", c + p, g * clv), clv)
    BY <1>1, <2>1, PartInPlace
  <2> QED
    BY <1>1, <2>3, <2>4, CopyIn DEF Stage
<1>3. PICK d : d = [p \in 0..(k - 1) |-> Stage(c + p, g * clv)]
  OBVIOUS
<1>4. UNION {Copy([Buf(g, c * clv) EXCEPT !.at = @ + p * clv], d[p], clv) : p \in DOMAIN d}
        \subseteq Ops(s)
  BY <1>2, <1>3
<1>5. P2pWrite(Buf(g, c * clv), d, clv, clv) \in Works(s)
  BY <1>4, WorkOne DEF P2pWrite
<1> QED
  BY <1>3, <1>5

LEMMA EqualCopyWork ==
  ASSUME NEW s, NEW clv, EqualShares(clv), NEW g \in Ranks, NEW c \in Ranks
  PROVE  /\ <<Copy(Buf(g, c * clv), Stage(c, g * clv), clv)>> \in Works(s)
         /\ <<Copy(Buf(g, g * clv), Buf(c, g * clv), clv)>> \in Works(s)
<1>1. clv \in Nat
  BY DEF EqualShares
<1>2. /\ InMemory(Buf(g, c * clv), clv) /\ InMemory(StageOf("stage", c, g * clv), clv)
      /\ InMemory(Buf(g, g * clv), clv) /\ InMemory(Buf(c, g * clv), clv)
  BY <1>1, PartInPlace
<1> QED
  BY <1>1, <1>2, CopyIn, WorkOne DEF Stage

PeerOf(g, p) == IF p < g THEN p ELSE p + 1

(* The hybrid scheme.                                                      *)
LEMMA HybridSettled ==
  ASSUME GroupAssumption, r >= 2, NEW s, NEW len \in 0..Capacity
  PROVE  Settled(Hybrid(len), Agents, Works(s))
<1>1. PICK clv, cc, nc, sd : /\ clv = Share4(len) /\ cc = CuChunks /\ nc = r - CuChunks
                             /\ sd = (r - 1) - CuPeers
  OBVIOUS
<1>2. EqualShares(clv) /\ ShareFacts(len)
  BY <1>1, ShareIsEqual, ShareSizes
<1>3. /\ r \in Nat /\ nc \in Nat /\ nc <= r /\ sd \in Nat /\ sd <= r /\ sd <= r - 2
      /\ cc \in Nat /\ nc + cc = r
  BY <1>1, HybridSplit DEF GroupAssumption
<1>4. /\ \A i \in 1..r : i - 1 \in Ranks
      /\ \A j \in 1..nc : j - 1 \in Ranks
      /\ \A p \in 0..(cc - 1) : nc + p \in Ranks
      /\ \A g \in Ranks, p \in 0..(r - 2) : PeerOf(g, p) \in Ranks
      /\ \A j \in 1..sd : j - 1 \in 0..(r - 2)
  BY <1>3 DEF Ranks, PeerOf
<1>5. PICK p1 : p1 = [i \in 1..r |->
        FlattenSeq([j \in 1..nc |-> Refill(Sdma(i - 1, j - 1),
                     <<Copy(Buf(i - 1, (j - 1) * clv), Stage(j - 1, (i - 1) * clv), clv)>>)])
          \o Refill(Cu(i - 1), P2pWrite(Buf(i - 1, nc * clv),
               [p \in 0..(cc - 1) |-> Stage(nc + p, (i - 1) * clv)], clv, clv))]
  OBVIOUS
<1>6. PICK w1 : w1 = [i \in 1..r |->
        FlattenSeq([j \in 1..nc |-> Wait(Sdma(i - 1, j - 1))]) \o Wait(Cu(i - 1))]
  OBVIOUS
<1>7. PICK rd : rd = [i \in 1..r |->
                        ReduceStaged(Cu(i - 1), i - 1, 0, Stage(i - 1, 0), len)]
  OBVIOUS
<1>8. PICK p2 : p2 = [i \in 1..r |->
        FlattenSeq([j \in 1..sd |-> Refill(Sdma(i - 1, j - 1),
                     <<Copy(Buf(i - 1, (i - 1) * clv),
                            Buf(PeerOf(i - 1, j - 1), (i - 1) * clv), clv)>>)])
          \o Refill(Cu(i - 1), P2pBroadcast(Buf(i - 1, (i - 1) * clv),
               {Buf(PeerOf(i - 1, p), (i - 1) * clv) : p \in sd..(r - 2)}, clv))]
  OBVIOUS
<1>9. PICK w2 : w2 = [i \in 1..r |->
        FlattenSeq([j \in 1..sd |-> Wait(Sdma(i - 1, j - 1))]) \o Wait(Cu(i - 1))]
  OBVIOUS
<1>10. Hybrid(len) =
         ((((FlattenSeq(p1) \o FlattenSeq(w1)) \o FlattenSeq(rd)) \o WaitCus)
            \o FlattenSeq(p2)) \o FlattenSeq(w2)
  BY <1>1, <1>5, <1>6, <1>7, <1>8, <1>9 DEF Hybrid, WaitCus, EachRank, PeerOf
<1>11. MixedArmed(p1, nc, Works(s))
  <2>1. ASSUME NEW i \in 1..r
        PROVE  \E t, c :
                 /\ p1[i] = FlattenSeq(t) \o c /\ t = [j \in 1..nc |-> t[j]]
                 /\ \A j \in 1..nc : ArmsAgent(t[j], Sdma(i - 1, j - 1), Works(s))
                 /\ ArmsAgent(c, Cu(i - 1), Works(s))
    <3>1. PICK t : t = [j \in 1..nc |-> Refill(Sdma(i - 1, j - 1),
                <<Copy(Buf(i - 1, (j - 1) * clv), Stage(j - 1, (i - 1) * clv), clv)>>)]
      OBVIOUS
    <3>2. PICK v : v = P2pWrite(Buf(i - 1, nc * clv),
               [p \in 0..(cc - 1) |-> Stage(nc + p, (i - 1) * clv)], clv, clv)
      OBVIOUS
    <3>3. p1[i] = FlattenSeq(t) \o Refill(Cu(i - 1), v)
      BY <1>5, <3>1, <3>2
    <3>4. v \in Works(s)
      BY <1>2, <1>3, <1>4, <3>2, P2pWriteWork
    <3>5. \A j \in 1..nc : ArmsAgent(t[j], Sdma(i - 1, j - 1), Works(s))
      BY <1>2, <1>4, <3>1, EqualCopyWork DEF ArmsAgent
    <3>6. ArmsAgent(Refill(Cu(i - 1), v), Cu(i - 1), Works(s))
      BY <3>4 DEF ArmsAgent
    <3>7. t = [j \in 1..nc |-> t[j]]
      BY <3>1
    <3> QED
      BY <3>3, <3>5, <3>6, <3>7
  <2> QED
    BY <1>5, <2>1 DEF MixedArmed
<1>12. MixedAwaited(w1, nc)
  <2>1. ASSUME NEW i \in 1..r
        PROVE  \E t : /\ w1[i] = FlattenSeq(t) \o Wait(Cu(i - 1)) /\ t = [j \in 1..nc |-> t[j]]
                      /\ \A j \in 1..nc : t[j] = Wait(Sdma(i - 1, j - 1))
    <3>1. PICK t : t = [j \in 1..nc |-> Wait(Sdma(i - 1, j - 1))]
      OBVIOUS
    <3>2. w1[i] = FlattenSeq(t) \o Wait(Cu(i - 1))
      BY <1>6, <3>1
    <3>3. t = [j \in 1..nc |-> t[j]] /\ \A j \in 1..nc : t[j] = Wait(Sdma(i - 1, j - 1))
      BY <3>1
    <3> QED
      BY <3>2, <3>3
  <2> QED
    BY <1>6, <2>1 DEF MixedAwaited
<1>13. MixedArmed(p2, sd, Works(s))
  <2>1. ASSUME NEW i \in 1..r
        PROVE  \E t, c :
                 /\ p2[i] = FlattenSeq(t) \o c /\ t = [j \in 1..sd |-> t[j]]
                 /\ \A j \in 1..sd : ArmsAgent(t[j], Sdma(i - 1, j - 1), Works(s))
                 /\ ArmsAgent(c, Cu(i - 1), Works(s))
    <3>1. PICK t : t = [j \in 1..sd |-> Refill(Sdma(i - 1, j - 1),
                     <<Copy(Buf(i - 1, (i - 1) * clv),
                            Buf(PeerOf(i - 1, j - 1), (i - 1) * clv), clv)>>)]
      OBVIOUS
    <3>2. PICK d, v : /\ d = {Buf(PeerOf(i - 1, p), (i - 1) * clv) : p \in sd..(r - 2)}
                      /\ v = P2pBroadcast(Buf(i - 1, (i - 1) * clv), d, clv)
      OBVIOUS
    <3>3. p2[i] = FlattenSeq(t) \o Refill(Cu(i - 1), v)
      BY <1>8, <3>1, <3>2
    <3>4. clv \in Nat /\ i - 1 \in Ranks
      BY <1>2, <1>4 DEF EqualShares
    <3>5. \A p \in sd..(r - 2) : PeerOf(i - 1, p) \in Ranks
      BY <1>3, <1>4, <3>4
    <3>6. \A h \in Ranks : InMemory(Buf(h, (i - 1) * clv), clv)
      BY <1>2, <3>4, PartInPlace
    <3>7. v \in Works(s)
      BY <3>2, <3>4, <3>5, <3>6, P2pBroadcastWork
    <3>8. \A j \in 1..sd : ArmsAgent(t[j], Sdma(i - 1, j - 1), Works(s))
      BY <1>2, <1>4, <3>1, EqualCopyWork DEF ArmsAgent
    <3>9. ArmsAgent(Refill(Cu(i - 1), v), Cu(i - 1), Works(s))
      BY <3>7 DEF ArmsAgent
    <3>10. t = [j \in 1..sd |-> t[j]]
      BY <3>1
    <3> QED
      BY <3>3, <3>8, <3>9, <3>10
  <2> QED
    BY <1>8, <2>1 DEF MixedArmed
<1>14. MixedAwaited(w2, sd)
  <2>1. ASSUME NEW i \in 1..r
        PROVE  \E t : /\ w2[i] = FlattenSeq(t) \o Wait(Cu(i - 1)) /\ t = [j \in 1..sd |-> t[j]]
                      /\ \A j \in 1..sd : t[j] = Wait(Sdma(i - 1, j - 1))
    <3>1. PICK t : t = [j \in 1..sd |-> Wait(Sdma(i - 1, j - 1))]
      OBVIOUS
    <3>2. w2[i] = FlattenSeq(t) \o Wait(Cu(i - 1))
      BY <1>9, <3>1
    <3>3. t = [j \in 1..sd |-> t[j]] /\ \A j \in 1..sd : t[j] = Wait(Sdma(i - 1, j - 1))
      BY <3>1
    <3> QED
      BY <3>2, <3>3
  <2> QED
    BY <1>9, <2>1 DEF MixedAwaited
<1>15. ArmBlock(FlattenSeq(rd), Queues("cu", Ranks), Works(s))
  <2>1. 0 \in Nat /\ 0 + Groups(len) <= Groups(Capacity) /\ "stage" \in {"stage", "stage_b"}
    BY <1>2 DEF ShareFacts
  <2>2. \A i \in 1..r : ArmsAgent(ReduceStaged(Cu(i - 1), i - 1, 0, StageOf("stage", i - 1, 0), len),
                                   Cu(i - 1), Works(s))
    BY <1>2, <1>4, <2>1, ReduceStagedWork
  <2>3. \A i \in 1..r : ArmsAgent(rd[i], Queue("cu", i - 1), Works(s))
    BY <1>7, <2>2 DEF Cu, Stage
  <2> QED
    BY <1>4, <1>7, <2>3, QueueArms
<1>16. /\ ArmBlock(FlattenSeq(p1), Mixed(nc), Works(s)) /\ WaitBlock(FlattenSeq(w1), Mixed(nc))
       /\ ArmBlock(FlattenSeq(p2), Mixed(sd), Works(s)) /\ WaitBlock(FlattenSeq(w2), Mixed(sd))
  BY <1>3, <1>11, <1>12, <1>13, <1>14, MixedArms, MixedWaits
<1>17. Mixed(nc) \subseteq Agents /\ Mixed(sd) \subseteq Agents
       /\ Queues("cu", Ranks) \subseteq Agents
  BY <1>3, MixedNames, AgentSets
<1>18. Settled(FlattenSeq(p1) \o FlattenSeq(w1), Agents, Works(s))
  BY <1>16, <1>17, FirstRound
<1>19. Settled(((FlattenSeq(p1) \o FlattenSeq(w1)) \o FlattenSeq(rd)) \o WaitCus,
               Agents, Works(s))
  BY <1>15, <1>17, <1>18, WaitForCus, OneMoreRound
<1> QED
  BY <1>10, <1>16, <1>17, <1>19, OneMoreRound

-----------------------------------------------------------------------------
(* The program of every scheme is settled.                                 *)
Schemes == Algos \ {"auto"}

(* A call ends up with one of the schemes, and with hybrid only on two GPUs*)
(* or more.                                                                *)
LEMMA SchemeKnown ==
  ASSUME NEW algo \in Algos, NEW len
  PROVE  /\ Scheme(algo, len) \in Schemes
         /\ Scheme(algo, len) = "hybrid" => ~(r < 2)
<1>1. PICK asked : asked = IF algo = "auto" THEN BySize(len) ELSE algo
  OBVIOUS
<1>2. asked \in Schemes
  BY <1>1 DEF Schemes, Algos, BySize
<1>3. PICK split : split = IF NeedsOneshot(asked, len) THEN "oneshot" ELSE asked
  OBVIOUS
<1>4. split \in Schemes /\ (split = "hybrid" => ~(r < 2))
  BY <1>2, <1>3 DEF NeedsOneshot, Schemes, Algos
<1>5. PICK whole : whole = IF NeedsRsag(split, len) THEN "rsag_write" ELSE split
  OBVIOUS
<1>6. whole \in Schemes /\ (whole = "hybrid" => ~(r < 2))
  BY <1>4, <1>5 DEF Schemes, Algos
<1>7. Scheme(algo, len) = IF NeedsDirect(whole) THEN "direct" ELSE whole
  BY <1>1, <1>3, <1>5 DEF Scheme
<1> QED
  BY <1>6, <1>7 DEF Schemes, Algos

LEMMA SdmaSettled ==
  ASSUME GroupAssumption, NEW s \in Nat, NEW len, ShareFacts(len)
  PROVE  Settled(SdmaRange(0, len, "cu", "stage"), Agents, Works(s))
<1>1. 0 \in Nat /\ 0 + Groups(len) <= Groups(Capacity) /\ "stage" \in {"stage", "stage_b"}
  BY DEF ShareFacts
<1>2. Settled(SdmaRange(0, len, "cu", "stage"), Queues("cu", Ranks) \cup Engines, Works(s))
  BY <1>1, SdmaRangeSettled
<1> QED
  BY <1>2, AgentSets, SettledMore

(* Every scheme, for every length up to the capacity.                      *)
LEMMA ProgramSettled ==
  ASSUME GroupAssumption, NEW scheme \in Schemes, scheme = "hybrid" => ~(r < 2),
         NEW len \in 1..Capacity, NEW pull \in BOOLEAN, seq \in Nat
  PROVE  /\ seq + SeqSpan(scheme) \in Nat /\ seq <= seq + SeqSpan(scheme)
         /\ Settled(Program(scheme, len, pull), Agents, Works(seq + SeqSpan(scheme)))
<1>1. len \in 0..Capacity /\ ShareFacts(len)
  BY ShareSizes
<1>2. PICK s : s = seq + SeqSpan(scheme)
  OBVIOUS
<1>3. /\ s \in Nat /\ seq <= s
      /\ scheme \in {"oneshot", "concurrent", "devhybrid"} => seq + 1 \in 1..s
  BY <1>2, AllReduceAssumption DEF SeqSpan
<1>4. r \in Nat
  BY DEF GroupAssumption
<1>5. Settled(Program(scheme, len, pull), Agents, Works(s))
  <2>1. CASE scheme = "direct"
    BY <1>1, <1>3, <2>1, DirectSettled DEF Program
  <2>2. CASE scheme = "rsag_read"
    BY <1>1, <1>3, <2>2, RsagSettled DEF Program
  <2>3. CASE scheme = "rsag_write"
    BY <1>1, <1>3, <2>3, RsagSettled DEF Program
  <2>4. CASE scheme = "oneshot"
    BY <1>1, <1>3, <2>4, OneshotSettled DEF Program
  <2>5. CASE scheme = "sdma"
    BY <1>1, <1>3, <2>5, SdmaSettled DEF Program
  <2>6. CASE scheme = "hybrid"
    BY <1>1, <1>3, <1>4, <2>6, HybridSettled DEF Program
  <2>7. CASE scheme = "concurrent"
    BY <1>1, <1>3, <2>7, ConcurrentSettled DEF Program
  <2>8. CASE scheme = "devhybrid"
    BY <1>1, <1>3, <2>8, DevhybridSettled DEF Program
  <2>9. CASE scheme = "bidir"
    BY <1>1, <2>9, BidirSettled DEF Program
  <2>10. CASE scheme = "bidir2"
    BY <1>1, <2>10, Bidir2Settled DEF Program
  <2> QED
    BY <2>1, <2>2, <2>3, <2>4, <2>5, <2>6, <2>7, <2>8, <2>9, <2>10 DEF Schemes, Algos
<1> QED
  BY <1>2, <1>3, <1>5

-----------------------------------------------------------------------------
(* The host: its program is settled, and an agent that has work is waited  *)
(* for before it is refilled and before the call returns.                  *)
Covered(p, t) ==
  \A a \in Agents : t[a] # <<>> =>
    /\ Awaits(p, a, 1, Len(p))
    /\ \A i \in 1..Len(p) :
         p[i].do = "arm" /\ p[i].refill /\ p[i].agent = a => Awaits(p, a, 1, i - 1)

LEMMA Tails ==
  ASSUME NEW p, IsSeq(p), p # <<>>
  PROVE  /\ IsSeq(Tail(p)) /\ Len(p) \in Nat /\ Len(p) >= 1
         /\ Head(p) = p[1] /\ Len(Tail(p)) = Len(p) - 1
         /\ \A i \in 1..(Len(p) - 1) : Tail(p)[i] = p[i + 1]
<1>1. PICK X : p \in Seq(X)
  BY DEF IsSeq
<1>2. Tail(p) \in Seq(X)
  BY <1>1, HeadTailProperties
<1> QED
  BY <1>1, <1>2, HeadTailProperties, LenProperties DEF IsSeq

LEMMA AwaitsTail ==
  ASSUME NEW p, IsSeq(p), p # <<>>, NEW a, NEW x \in Nat, NEW y \in Int,
         x >= 1, y <= Len(p) - 1, Awaits(p, a, x + 1, y + 1)
  PROVE  Awaits(Tail(p), a, x, y)
<1>1. PICK k \in (x + 1)..(y + 1) : p[k].do = "wait" /\ p[k].agent = a
  BY DEF Awaits
<1>2. /\ k - 1 \in x..y /\ k - 1 \in 1..(Len(p) - 1) /\ (k - 1) + 1 = k
  BY Tails
<1>3. Tail(p)[k - 1] = p[k]
  BY <1>2, Tails
<1> QED
  BY <1>1, <1>2, <1>3 DEF Awaits

LEMMA SettledTail ==
  ASSUME NEW p, NEW S, NEW W, Settled(p, S, W), p # <<>>
  PROVE  Settled(Tail(p), S, W)
<1>1. PICK q, m : q = Tail(p) /\ m = Len(p) - 1
  OBVIOUS
<1>2. IsSeq(p)
  BY SettledSeq
<1>3. /\ IsSeq(q) /\ m \in Nat /\ Len(p) = m + 1 /\ Len(q) = m
      /\ \A i \in 1..m : q[i] = p[i + 1]
  BY <1>1, <1>2, Tails
<1>4. \A i \in 1..m : i + 1 \in 1..Len(p)
  BY <1>3
<1>5. ASSUME NEW a, NEW x \in Nat, NEW y \in Int, x >= 1, y <= m, Awaits(p, a, x + 1, y + 1)
      PROVE  Awaits(q, a, x, y)
  BY <1>1, <1>2, <1>5, AwaitsTail
<1>6. ArmsAwaited(q, S)
  <2> SUFFICES ASSUME NEW i \in 1..m, q[i].do = "arm"
               PROVE  q[i].agent \in S /\ Awaits(q, q[i].agent, i + 1, m)
    BY <1>3 DEF ArmsAwaited
  <2>1. p[i + 1].agent \in S /\ Awaits(p, p[i + 1].agent, (i + 1) + 1, m + 1)
    BY <1>3, <1>4 DEF Settled, ArmsAwaited
  <2>2. i + 1 \in Nat /\ i + 1 >= 1 /\ m \in Int /\ m <= m
    BY <1>3
  <2>3. Awaits(q, p[i + 1].agent, i + 1, m)
    BY <1>5, <2>1, <2>2
  <2> QED
    BY <1>3, <2>1, <2>3
<1>7. RefillsSpaced(q)
  <2> SUFFICES ASSUME NEW h \in 1..m, NEW i \in 1..m, h < i,
                      q[h].do = "arm", q[i].do = "arm", q[i].refill,
                      q[h].agent = q[i].agent
               PROVE  Awaits(q, q[i].agent, h + 1, i - 1)
    BY <1>3 DEF RefillsSpaced
  <2>1. /\ h + 1 \in 1..Len(p) /\ i + 1 \in 1..Len(p) /\ h + 1 < i + 1
        /\ q[h] = p[h + 1] /\ q[i] = p[i + 1]
    BY <1>3, <1>4
  <2>2. Awaits(p, q[i].agent, (h + 1) + 1, (i + 1) - 1)
    BY <2>1 DEF Settled, RefillsSpaced
  <2>3. h + 1 \in Nat /\ h + 1 >= 1 /\ i - 1 \in Int /\ i - 1 <= m
        /\ (i + 1) - 1 = (i - 1) + 1
    BY <1>3
  <2> QED
    BY <1>5, <2>2, <2>3
<1>8. WorkFrom(q, W)
  BY <1>3, <1>4 DEF Settled, WorkFrom
<1> QED
  BY <1>1, <1>3, <1>6, <1>7, <1>8 DEF Settled

(* What the host does next keeps every busy agent covered.                 *)
LEMMA ArmCovers ==
  ASSUME NEW p, NEW W, Settled(p, Agents, W), p # <<>>, Head(p).do = "arm",
         NEW t, Covered(p, t),
         NEW u, \A b \in Agents \ {Head(p).agent} : u[b] = t[b]
  PROVE  Covered(Tail(p), u)
<1>1. PICK c, m : c = Head(p) /\ m = Len(p) - 1
  OBVIOUS
<1>2. IsSeq(p)
  BY SettledSeq
<1>3. /\ m \in Nat /\ Len(p) = m + 1 /\ Len(Tail(p)) = m /\ p[1] = c
      /\ \A i \in 1..m : Tail(p)[i] = p[i + 1]
      /\ 1 \in 1..Len(p) /\ \A i \in 1..m : i + 1 \in 1..Len(p) /\ 1 < i + 1
  BY <1>1, <1>2, Tails
<1>4. ASSUME NEW a \in Agents, u[a] # <<>>, NEW y \in 0..m,
             a = c.agent => Awaits(p, a, 2, y + 1),
             t[a] # <<>> => Awaits(p, a, 1, y + 1)
      PROVE  Awaits(Tail(p), a, 1, y)
  <2>1. Awaits(p, a, 2, y + 1)
    <3>1. CASE a = c.agent
      BY <1>4, <3>1
    <3>2. CASE a # c.agent
      <4>1. Awaits(p, a, 1, y + 1)
        BY <1>1, <1>4, <3>2
      <4>2. PICK k \in 1..(y + 1) : p[k].do = "wait" /\ p[k].agent = a
        BY <4>1 DEF Awaits
      <4>3. k # 1
        BY <1>1, <1>3, <4>2
      <4> QED
        BY <4>2, <4>3 DEF Awaits
    <3> QED
      BY <3>1, <3>2
  <2>2. 1 \in Nat /\ 1 >= 1 /\ y \in Int /\ y <= Len(p) - 1 /\ 2 = 1 + 1
    BY <1>3
  <2> QED
    BY <1>2, <2>1, <2>2, AwaitsTail
<1> SUFFICES ASSUME NEW a \in Agents, u[a] # <<>>
             PROVE  /\ Awaits(Tail(p), a, 1, m)
                    /\ \A i \in 1..m :
                         Tail(p)[i].do = "arm" /\ Tail(p)[i].refill /\ Tail(p)[i].agent = a
                           => Awaits(Tail(p), a, 1, i - 1)
  BY <1>3 DEF Covered
<1>5. Awaits(Tail(p), a, 1, m)
  <2>1. a = c.agent => Awaits(p, a, 2, m + 1)
    <3> SUFFICES ASSUME a = c.agent PROVE Awaits(p, a, 2, m + 1)
      OBVIOUS
    <3>1. Awaits(p, p[1].agent, 1 + 1, Len(p))
      BY <1>1, <1>3 DEF Settled, ArmsAwaited
    <3>2. 1 + 1 = 2
      OBVIOUS
    <3> QED
      BY <1>3, <3>1, <3>2
  <2>2. t[a] # <<>> => Awaits(p, a, 1, m + 1)
    BY <1>3 DEF Covered
  <2>3. m \in 0..m
    BY <1>3
  <2> QED
    BY <1>4, <2>1, <2>2, <2>3
<1>6. ASSUME NEW i \in 1..m, Tail(p)[i].do = "arm", Tail(p)[i].refill, Tail(p)[i].agent = a
      PROVE  Awaits(Tail(p), a, 1, i - 1)
  <2>1. p[i + 1].do = "arm" /\ p[i + 1].refill /\ p[i + 1].agent = a /\ i + 1 \in 1..Len(p)
    BY <1>3, <1>6
  <2>2. (i + 1) - 1 = (i - 1) + 1 /\ i - 1 \in 0..m
    BY <1>3
  <2>3. a = c.agent => Awaits(p, a, 2, (i - 1) + 1)
    <3> SUFFICES ASSUME a = c.agent PROVE Awaits(p, a, 2, (i - 1) + 1)
      OBVIOUS
    <3>1. Awaits(p, p[i + 1].agent, 1 + 1, (i + 1) - 1)
      BY <1>1, <1>3, <2>1 DEF Settled, RefillsSpaced
    <3>2. 1 + 1 = 2
      OBVIOUS
    <3> QED
      BY <2>1, <2>2, <3>1, <3>2
  <2>4. t[a] # <<>> => Awaits(p, a, 1, (i - 1) + 1)
    BY <2>1, <2>2 DEF Covered
  <2> QED
    BY <1>4, <2>2, <2>3, <2>4
<1> QED
  BY <1>5, <1>6

LEMMA WaitCovers ==
  ASSUME NEW p, IsSeq(p), p # <<>>, NEW t, Covered(p, t), t[Head(p).agent] = <<>>
  PROVE  Covered(Tail(p), t)
<1>1. PICK c, m : c = Head(p) /\ m = Len(p) - 1
  OBVIOUS
<1>2. /\ m \in Nat /\ Len(p) = m + 1 /\ Len(Tail(p)) = m /\ p[1] = c
      /\ \A i \in 1..m : Tail(p)[i] = p[i + 1]
      /\ \A i \in 1..m : i + 1 \in 1..Len(p)
  BY <1>1, Tails
<1>3. ASSUME NEW a \in Agents, t[a] # <<>>, NEW y \in 0..m, Awaits(p, a, 1, y + 1)
      PROVE  Awaits(Tail(p), a, 1, y)
  <2>1. PICK k \in 1..(y + 1) : p[k].do = "wait" /\ p[k].agent = a
    BY <1>3 DEF Awaits
  <2>2. k # 1
    BY <1>1, <1>2, <1>3, <2>1
  <2>3. Awaits(p, a, 1 + 1, y + 1)
    BY <2>1, <2>2 DEF Awaits
  <2>4. 1 \in Nat /\ 1 >= 1 /\ y \in Int /\ y <= Len(p) - 1
    BY <1>2
  <2> QED
    BY <2>3, <2>4, AwaitsTail
<1> SUFFICES ASSUME NEW a \in Agents, t[a] # <<>>
             PROVE  /\ Awaits(Tail(p), a, 1, m)
                    /\ \A i \in 1..m :
                         Tail(p)[i].do = "arm" /\ Tail(p)[i].refill /\ Tail(p)[i].agent = a
                           => Awaits(Tail(p), a, 1, i - 1)
  BY <1>2 DEF Covered
<1>4. Awaits(Tail(p), a, 1, m)
  <2>1. Awaits(p, a, 1, m + 1) /\ m \in 0..m
    BY <1>2 DEF Covered
  <2> QED
    BY <1>3, <2>1
<1>5. ASSUME NEW i \in 1..m, Tail(p)[i].do = "arm", Tail(p)[i].refill, Tail(p)[i].agent = a
      PROVE  Awaits(Tail(p), a, 1, i - 1)
  <2>1. p[i + 1].do = "arm" /\ p[i + 1].refill /\ p[i + 1].agent = a /\ i + 1 \in 1..Len(p)
    BY <1>2, <1>5
  <2>2. (i + 1) - 1 = (i - 1) + 1 /\ i - 1 \in 0..m
    BY <1>2
  <2>3. Awaits(p, a, 1, (i - 1) + 1)
    BY <2>1, <2>2 DEF Covered
  <2> QED
    BY <1>3, <2>2, <2>3
<1> QED
  BY <1>4, <1>5

(* What depends on the size of the group only.                             *)
LEMMA Kept ==
  ASSUME r' = r
  PROVE  /\ Agents' = Agents /\ Works(seq)' = Works(seq') /\ Mems' = Mems
         /\ Words(r)' = Words(r) /\ \A k : Extent(k)' = Extent(k)
<1>1. Agents' = Agents
  BY DEF Agents, Ranks
<1>2. Mems' = Mems
  BY DEF Mems, Ranks
<1>3. \A k : Extent(k)' = Extent(k)
  BY DEF Extent, Clv
<1>4. Words(r)' = Words(r)
  BY DEF Words
<1>5. WordOps(seq)' = WordOps(seq')
  BY <1>4 DEF WordOps
<1>6. SumOps' = SumOps
  BY DEF SumOps, InMemory, Extent, Mems, Clv, Ranks
<1>7. Works(seq)' = Works(seq')
  BY <1>5, <1>6 DEF Works, Ops
<1> QED
  BY <1>1, <1>2, <1>3, <1>4, <1>7

(* The agent gets the phases of its work in which there is something to do.*)
LEMMA PhasesWork ==
  ASSUME NEW s, NEW w \in Works(s)
  PROVE  Phases(w) \in Works(s)
<1>1. PICK m, v : m = Len(w) /\ v = [i \in 1..m |-> IF w[i] = {} THEN <<>> ELSE <<w[i]>>]
  OBVIOUS
<1>2. m \in Nat /\ DOMAIN w = 1..m /\ \A i \in 1..m : w[i] \subseteq Ops(s)
  BY <1>1, LenProperties DEF Works
<1>3. \A i \in 1..m : v[i] \in Works(s)
  <2>1. <<>> \in Works(s)
    BY EmptySeq DEF Works
  <2> QED
    BY <1>1, <1>2, <2>1, WorkOne
<1>4. FlattenSeq(v) \in Works(s)
  BY <1>1, <1>2, <1>3, WorkFlatten
<1> QED
  BY <1>1, <1>2, <1>4 DEF Phases

LEMMA WorksGrow ==
  ASSUME NEW s \in Nat, NEW v \in Nat, s <= v
  PROVE  Works(s) \subseteq Works(v)
<1>1. WordOps(s) \subseteq WordOps(v)
  BY DEF WordOps
<1>2. SUBSET Ops(s) \subseteq SUBSET Ops(v)
  BY <1>1 DEF Ops
<1> QED
  BY <1>2, SeqMonotonic DEF Works

-----------------------------------------------------------------------------
(* The invariant of the host thread and the agents it drives.              *)
Shaped ==
  /\ DOMAIN data = Mems
  /\ \A m \in Mems : DOMAIN data[m] = 0..(Extent(m[1]) - 1)

Counted == r \in RankCounts /\ calls \in 0..MaxCalls /\ n \in 1..Capacity /\ seq \in Nat
Flagged == word \in [Words(r) -> 0..seq]
Queued == todo \in [Agents -> Works(seq)]
Programmed == Settled(prog, Agents, Works(seq)) /\ Covered(prog, todo)

HostInv == Counted /\ Shaped /\ Flagged /\ Queued /\ Programmed

LEMMA CountedGroup == Counted => GroupAssumption
BY AllReduceAssumption DEF Counted, GroupAssumption

LEMMA NoneAwaited ==
  ASSUME NEW t, Covered(<<>>, t), NEW a \in Agents
  PROVE  t[a] = <<>>
BY EmptyIsSeq DEF Covered, Awaits

LEMMA CoveredIdle ==
  ASSUME NEW p, NEW t, \A a \in Agents : t[a] = <<>>
  PROVE  Covered(p, t)
BY DEF Covered

LEMMA InitHost == Init => HostInv
<1> SUFFICES ASSUME Init PROVE HostInv
  OBVIOUS
<1>1. Counted
  BY AllReduceAssumption DEF Init, Counted
<1>2. Shaped
  BY DEF Init, Memory, Shaped, Mems, Ranks, Extent, Clv
<1>3. Flagged
  BY DEF Init, Flagged
<1>4. \A a \in Agents : todo[a] = <<>>
  BY DEF Init
<1>5. Queued
  BY EmptySeq DEF Init, Queued, Works
<1>6. Programmed
  BY <1>4, SettledNothing, CoveredIdle DEF Init, Programmed
<1> QED
  BY <1>1, <1>2, <1>3, <1>5, <1>6 DEF HostInv

(* What an action keeps of the invariant when it keeps the group's size.   *)
LEMMA KeptParts ==
  ASSUME r' = r
  PROVE  /\ /\ r \in RankCounts /\ calls' \in 0..MaxCalls /\ n' \in 1..Capacity /\ seq' \in Nat
            => Counted'
         /\ Shaped /\ DOMAIN data' = DOMAIN data
              /\ (\A m \in Mems : DOMAIN data'[m] = DOMAIN data[m]) => Shaped'
         /\ word' \in [Words(r) -> 0..seq'] => Flagged'
         /\ todo' \in [Agents -> Works(seq')] => Queued'
         /\ Settled(prog', Agents, Works(seq')) /\ Covered(prog', todo') => Programmed'
<1>1. Covered(prog', todo') => Covered(prog, todo)'
  BY Kept DEF Covered, Awaits
<1>2. Settled(prog', Agents, Works(seq')) => Settled(prog, Agents, Works(seq))'
  BY Kept DEF Settled, ArmsAwaited, WorkFrom, RefillsSpaced, Awaits, IsSeq
<1>3. Shaped /\ DOMAIN data' = DOMAIN data
        /\ (\A m \in Mems : DOMAIN data'[m] = DOMAIN data[m]) => Shaped'
  BY Kept DEF Shaped
<1> QED
  BY <1>1, <1>2, <1>3, Kept DEF Counted, Flagged, Queued, Programmed

(* Each action preserves the invariant.                                    *)
LEMMA CallKeeps ==
  ASSUME HostInv, NEW q \in Requests(r), Call(q)
  PROVE  HostInv'
<1>1. PICK scheme : scheme = Scheme(q.algo, q.n)
  OBVIOUS
<1>2. r \in RankCounts /\ r' = r /\ GroupAssumption /\ calls \in 0..MaxCalls /\ seq \in Nat
      /\ MaxCalls \in Nat
  BY CountedGroup, AllReduceAssumption DEF HostInv, Counted, Call
<1>3. q.algo \in Algos /\ q.n \in 1..Capacity /\ q.pull \in BOOLEAN
  BY <1>2, AllReduceAssumption
<1>4. scheme \in Schemes /\ (scheme = "hybrid" => ~(r < 2))
  BY <1>1, <1>3, SchemeKnown
<1>5. /\ seq' \in Nat /\ seq <= seq'
      /\ Settled(prog', Agents, Works(seq'))
  <2>1. seq' = seq + SeqSpan(scheme) /\ prog' = Program(scheme, q.n, q.pull)
    BY <1>1 DEF Call
  <2> QED
    BY <1>2, <1>3, <1>4, <2>1, ProgramSettled
<1>6. \A a \in Agents : todo'[a] = <<>>
  <2>1. prog = <<>> /\ todo' = todo
    BY DEF Call
  <2>2. Covered(<<>>, todo)
    BY <2>1 DEF HostInv, Programmed
  <2> QED
    BY <2>1, <2>2, NoneAwaited
<1>7. Covered(prog', todo')
  BY <1>6, CoveredIdle
<1>8. todo' \in [Agents -> Works(seq')]
  BY <1>2, <1>5, WorksGrow DEF HostInv, Queued, Call
<1>9. word' \in [Words(r) -> 0..seq']
  BY <1>2, <1>5 DEF HostInv, Flagged, Call
<1>10. DOMAIN data' = DOMAIN data /\ \A m \in Mems : DOMAIN data'[m] = DOMAIN data[m]
  <2>1. data' = [m \in DOMAIN data |->
                    IF m[1] # "buf" THEN data[m]
                    ELSE [i \in DOMAIN data[m] |->
                            IF i < Groups(q.n) THEN {<<m[2], i, calls'>>}
                                               ELSE data[m][i]]]
    BY DEF Call
  <2>2. DOMAIN data = Mems
    BY DEF HostInv, Shaped
  <2> QED
    BY <2>1, <2>2
<1>11. calls' \in 0..MaxCalls /\ n' \in 1..Capacity
  BY <1>2, <1>3 DEF Call
<1> QED
  BY <1>2, <1>5, <1>7, <1>8, <1>9, <1>10, <1>11, KeptParts DEF HostInv

LEMMA HostKeeps ==
  ASSUME HostInv, UNCHANGED <<r, calls, n, data, word, seq>>,
         todo' \in [Agents -> Works(seq)],
         Settled(prog', Agents, Works(seq)), Covered(prog', todo')
  PROVE  HostInv'
<1>1. r' = r /\ seq' = seq /\ data' = data /\ word' = word /\ calls' = calls /\ n' = n
  OBVIOUS
<1>2. Counted' /\ Flagged' /\ Shaped'
  BY <1>1, KeptParts DEF HostInv, Counted, Flagged
<1>3. Queued' /\ Programmed'
  BY <1>1, KeptParts
<1> QED
  BY <1>2, <1>3 DEF HostInv

LEMMA HostArmKeeps ==
  ASSUME HostInv, HostArm
  PROVE  HostInv'
<1>1. PICK c : c = Head(prog)
  OBVIOUS
<1>2. /\ prog # <<>> /\ c.do = "arm" /\ prog' = Tail(prog)
      /\ todo' = [todo EXCEPT ![c.agent] = @ \o Phases(c.work)]
  BY <1>1 DEF HostArm
<1>3. /\ Settled(prog, Agents, Works(seq)) /\ Covered(prog, todo) /\ IsSeq(prog)
      /\ todo \in [Agents -> Works(seq)]
  BY SettledSeq DEF HostInv, Programmed, Queued
<1>4. c.agent \in Agents /\ c.work \in Works(seq)
  <2>1. prog[1] = c /\ 1 \in 1..Len(prog)
    BY <1>1, <1>2, <1>3, Tails
  <2> QED
    BY <1>2, <1>3, <2>1 DEF Settled, ArmsAwaited, WorkFrom
<1>5. todo' \in [Agents -> Works(seq)]
  BY <1>2, <1>3, <1>4, PhasesWork, WorkJoin
<1>6. \A b \in Agents \ {c.agent} : todo'[b] = todo[b]
  BY <1>2, <1>3
<1>7. Settled(prog', Agents, Works(seq)) /\ Covered(prog', todo')
  BY <1>1, <1>2, <1>3, <1>6, SettledTail, ArmCovers
<1> QED
  BY <1>5, <1>7, HostKeeps DEF HostArm

LEMMA HostWaitKeeps ==
  ASSUME HostInv, HostWait
  PROVE  HostInv'
<1>1. /\ prog # <<>> /\ todo[Head(prog).agent] = <<>>
      /\ prog' = Tail(prog) /\ todo' = todo
  BY DEF HostWait
<1>2. /\ Settled(prog, Agents, Works(seq)) /\ Covered(prog, todo) /\ IsSeq(prog)
      /\ todo \in [Agents -> Works(seq)]
  BY SettledSeq DEF HostInv, Programmed, Queued
<1>3. Settled(prog', Agents, Works(seq)) /\ Covered(prog', todo')
  BY <1>1, <1>2, SettledTail, WaitCovers
<1> QED
  BY <1>1, <1>2, <1>3, HostKeeps DEF HostWait

(* An agent that has done an operation has no more left than it had.       *)
LEMMA CoveredFewer ==
  ASSUME NEW p, NEW t, NEW u, Covered(p, t),
         \A a \in Agents : u[a] # <<>> => t[a] # <<>>
  PROVE  Covered(p, u)
BY DEF Covered

LEMMA LessWork ==
  ASSUME NEW s, NEW w \in Works(s), w # <<>>, NEW o,
         NEW v, v = IF Head(w) = {o} THEN Tail(w) ELSE <<Head(w) \ {o}>> \o Tail(w)
  PROVE  v \in Works(s)
<1>1. Head(w) \subseteq Ops(s) /\ Tail(w) \in Works(s)
  BY HeadTailProperties DEF Works
<1>2. <<Head(w) \ {o}>> \in Works(s)
  BY <1>1, WorkOne
<1> QED
  BY <1>1, <1>2, WorkJoin

LEMMA StepKeeps ==
  ASSUME HostInv, NEW a \in Agents, Step(a)
  PROVE  HostInv'
<1>1. PICK o \in Head(todo[a]) : Run(a, o)
  BY DEF Step
<1>2. /\ r' = r /\ calls' = calls /\ n' = n /\ prog' = prog /\ seq' = seq
      /\ todo[a] # <<>> /\ todo[a] \in Works(seq) /\ todo \in [Agents -> Works(seq)]
  BY <1>1 DEF Step, Run, HostInv, Queued
<1>3. todo' = [todo EXCEPT ![a] = IF Head(@) = {o} THEN Tail(@)
                                   ELSE <<Head(@) \ {o}>> \o Tail(@)]
  BY <1>1 DEF Run
<1>4. todo' \in [Agents -> Works(seq)]
  BY <1>2, <1>3, LessWork
<1>5. Covered(prog, todo')
  <2>1. \A b \in Agents : todo'[b] # <<>> => todo[b] # <<>>
    BY <1>2, <1>3
  <2>2. Covered(prog, todo)
    BY DEF HostInv, Programmed
  <2> QED
    BY <2>1, <2>2, CoveredFewer
<1>6. o \in Ops(seq)
  BY <1>2, HeadTailProperties DEF Works
<1>7. word' \in [Words(r) -> 0..seq]
  <2>1. CASE o.op = "signal"
    <3>1. o.word \in Words(r) /\ o.val \in 1..seq
      BY <1>6, <2>1 DEF Ops, SumOps, WordOps
    <3> QED
      BY <1>1, <2>1, <3>1 DEF Run, HostInv, Flagged
  <2>2. CASE o.op # "signal"
    BY <1>1, <2>2 DEF Run, HostInv, Flagged
  <2> QED
    BY <2>1, <2>2
<1>8. DOMAIN data' = DOMAIN data /\ \A m \in Mems : DOMAIN data'[m] = DOMAIN data[m]
  BY <1>1 DEF Run, HostInv, Shaped
<1>9. Counted' /\ Shaped'
  BY <1>2, <1>8, KeptParts DEF HostInv, Counted
<1>10. Flagged' /\ Queued' /\ Programmed'
  BY <1>2, <1>4, <1>5, <1>7, KeptParts DEF HostInv, Programmed
<1> QED
  BY <1>9, <1>10 DEF HostInv

(* The invariant of the host holds in every state.                         *)
THEOREM HostInvariant == Spec => []HostInv
<1>1. HostInv /\ [Next]_vars => HostInv'
  <2> SUFFICES ASSUME HostInv, [Next]_vars PROVE HostInv'
    OBVIOUS
  <2>1. CASE \E q \in Requests(r) : Call(q)
    BY <2>1, CallKeeps
  <2>2. CASE HostArm
    BY <2>2, HostArmKeeps
  <2>3. CASE HostWait
    BY <2>3, HostWaitKeeps
  <2>4. CASE \E a \in Agents : Step(a)
    BY <2>4, StepKeeps
  <2>5. CASE UNCHANGED vars
    BY <2>5, HostKeeps DEF vars, HostInv, Queued, Programmed
  <2> QED
    BY <2>1, <2>2, <2>3, <2>4, <2>5 DEF Next
<1> QED
  BY <1>1, InitHost, PTL DEF Spec

(* No operation an engine is given reaches outside the buffers, the staging*)
(* slots or the words of the group, whatever the scheme and the length.    *)
THEOREM TypeCorrect == Spec => []TypeOK
<1>1. HostInv => TypeOK
  <2> SUFFICES ASSUME HostInv PROVE TypeOK
    OBVIOUS
  <2>1. Counted /\ \A w \in DOMAIN word : word[w] \in 0..seq
    BY DEF HostInv, Flagged
  <2>2. \A k : Extent(k) \in Nat
    <3>1. GroupAssumption /\ Capacity \in 0..Capacity
      BY <2>1, CountedGroup DEF GroupAssumption
    <3>2. ShareFacts(Capacity)
      BY <3>1, ShareSizes
    <3> QED
      BY <3>2 DEF ShareFacts, Extent
  <2>3. ASSUME NEW a \in Agents, NEW i \in 1..Len(todo[a]), NEW o \in todo[a][i]
        PROVE  o \in Ops(seq)
    <3>1. todo[a] \in Seq(SUBSET Ops(seq))
      BY DEF HostInv, Queued, Works
    <3>2. todo[a][i] \in SUBSET Ops(seq)
      BY <3>1, ElementOfSeq
    <3> QED
      BY <3>2
  <2>4. ASSUME NEW l, NEW len \in Nat \ {0}, InMemory(l, len)
        PROVE  l.at \in DOMAIN data[l.mem] /\ l.at + len - 1 \in DOMAIN data[l.mem]
    <3>1. /\ l.mem \in Mems /\ l.at \in Nat /\ l.at + len <= Extent(l.mem[1])
          /\ DOMAIN data[l.mem] = 0..(Extent(l.mem[1]) - 1)
      BY <2>4 DEF InMemory, HostInv, Shaped
    <3>2. PICK e \in Nat : e = Extent(l.mem[1])
      BY <2>2
    <3> QED
      BY <3>1, <3>2
  <2>5. ASSUME NEW o \in Ops(seq)
        PROVE  IF o.op = "sum"
               THEN \A l \in o.from \cup {o.to} :
                      l.at \in DOMAIN data[l.mem] /\ l.at + o.len - 1 \in DOMAIN data[l.mem]
               ELSE o.word \in DOMAIN word /\ o.val \in 1..seq
    <3>1. CASE o \in SumOps
      <4>1. /\ o.op = "sum" /\ o.len \in Nat \ {0}
            /\ \A l \in o.from \cup {o.to} : InMemory(l, o.len)
        BY <3>1 DEF SumOps
      <4> QED
        BY <2>4, <4>1
    <3>2. CASE o \in WordOps(seq)
      <4>1. o.op # "sum" /\ o.word \in Words(r) /\ o.val \in 1..seq
        BY <3>2 DEF WordOps
      <4> QED
        BY <4>1 DEF HostInv, Flagged
    <3> QED
      BY <3>1, <3>2 DEF Ops
  <2> QED
    BY <2>1, <2>3, <2>5 DEF TypeOK, Counted
<1> QED
  BY <1>1, HostInvariant, PTL

(* all_reduce_sum returns only when no compute queue and no SDMA engine has*)
(* work left.                                                              *)
THEOREM QuietWhenReturned == Spec => []QuietOnReturn
<1>1. HostInv => QuietOnReturn
  BY NoneAwaited DEF HostInv, Programmed, QuietOnReturn
<1> QED
  BY <1>1, HostInvariant, PTL

(* push_dwords never laps the read pointer of an SDMA ring, and no pointer *)
(* table is rewritten under a kernel.                                      *)
THEOREM RefillsDrained == Spec => []RefillsOnlyDrained
<1>1. HostInv => RefillsOnlyDrained
  <2> SUFFICES ASSUME HostInv, prog # <<>>, Head(prog).do = "arm", Head(prog).refill,
                      todo[Head(prog).agent] # <<>>
               PROVE  FALSE
    BY DEF RefillsOnlyDrained
  <2>1. IsSeq(prog) /\ Settled(prog, Agents, Works(seq)) /\ Covered(prog, todo)
    BY SettledSeq DEF HostInv, Programmed
  <2>2. prog[1] = Head(prog) /\ 1 \in 1..Len(prog)
    BY <2>1, Tails
  <2>3. Head(prog).agent \in Agents
    BY <2>1, <2>2 DEF Settled, ArmsAwaited
  <2>4. Awaits(prog, Head(prog).agent, 1, 1 - 1)
    BY <2>1, <2>2, <2>3 DEF Covered
  <2> QED
    BY <2>4 DEF Awaits
<1> QED
  BY <1>1, HostInvariant, PTL

-----------------------------------------------------------------------------
(* What an operation does, seen from the vector: a move.  A part of the    *)
(* vector, in groups from "base" up to "end", is laid out in shares of     *)
(* "slot" groups; share c is staged on GPU c, in one slot per peer.        *)
Kinds == {"stage", "stage_b"}

Laid(L) ==
  /\ \A k \in Kinds : L[k].base \in Nat /\ L[k].slot \in Nat /\ L[k].end \in Nat
  /\ L["stage"].end <= L["stage_b"].base

(* A move of len groups at offset off of share c, with peer p: "scatter"   *)
(* to the slot of p on the owner, sum of the slots ("staged") or of the    *)
(* peers' buffers ("direct"), "gather" of the sum to p.                    *)
IsMove(L, d) ==
  /\ d.kind \in {"scatter", "staged", "direct", "gather"}
  /\ d.k \in Kinds /\ d.p \in Ranks /\ d.c \in Ranks
  /\ d.off \in Nat /\ d.len \in Nat \ {0} /\ d.off + d.len <= L[d.k].slot
  /\ d.pos = L[d.k].base + d.c * L[d.k].slot + d.off
  /\ d.pos + d.len <= L[d.k].end

Lvl(d) == IF d.kind = "scatter" THEN 0 ELSE IF d.kind = "gather" THEN 2 ELSE 1

From(L, d) ==
  CASE d.kind = "scatter" -> {Buf(d.p, d.pos)}
    [] d.kind = "staged" -> {StageOf(d.k, d.c, q * L[d.k].slot + d.off) : q \in Ranks}
    [] d.kind = "direct" -> {Buf(q, d.pos) : q \in Ranks}
    [] d.kind = "gather" -> {Buf(d.c, d.pos)}

To(L, d) ==
  CASE d.kind = "scatter" -> StageOf(d.k, d.c, d.p * L[d.k].slot + d.off)
    [] d.kind = "gather" -> Buf(d.p, d.pos)
    [] OTHER -> Buf(d.c, d.pos)

Op(L, d) == [op |-> "sum", from |-> From(L, d), to |-> To(L, d), len |-> d.len]

Meet(d, e) == d.pos < e.pos + e.len /\ e.pos < d.pos + d.len

LEMMA MovePlaces ==
  ASSUME GroupAssumption, NEW L, Laid(L), NEW d, IsMove(L, d)
  PROVE  /\ d.pos \in Nat /\ d.len \in Nat \ {0}
         /\ L[d.k].base <= d.pos
         /\ \E x \in Nat, y \in Nat : /\ x = d.c * L[d.k].slot
                          /\ d.pos = L[d.k].base + x + d.off
                          /\ y = d.p * L[d.k].slot
<1>1. PICK c, p, b, s, o : c = d.c /\ p = d.p /\ b = L[d.k].base /\ s = L[d.k].slot /\ o = d.off
  OBVIOUS
<1>2. /\ c \in Nat /\ p \in Nat /\ b \in Nat /\ s \in Nat /\ o \in Nat
      /\ d.pos = b + c * s + o
  BY <1>1 DEF IsMove, Laid, Ranks, GroupAssumption
<1>3. PICK x \in Nat, y \in Nat : x = c * s /\ y = p * s
  BY <1>2
<1>4. d.pos = b + x + o
  BY <1>2, <1>3
<1> QED
  BY <1>1, <1>2, <1>3, <1>4 DEF IsMove

(* Moves whose ranges meet are of the same share.                          *)
LEMMA SameShare ==
  ASSUME GroupAssumption, NEW L, Laid(L), NEW d, IsMove(L, d), NEW e, IsMove(L, e), Meet(d, e)
  PROVE  d.k = e.k /\ d.c = e.c
<1>1. ASSUME NEW f, IsMove(L, f), NEW g, IsMove(L, g), Meet(f, g), f.k = "stage", g.k = "stage_b"
      PROVE  FALSE
  <2>1. L[g.k].base <= g.pos /\ g.pos \in Nat /\ f.pos \in Nat /\ f.len \in Nat
    BY <1>1, MovePlaces
  <2>2. f.pos + f.len <= L["stage"].end /\ L["stage"].end <= L["stage_b"].base
        /\ L["stage"].end \in Nat /\ L["stage_b"].base \in Nat
    BY <1>1 DEF IsMove, Laid, Kinds
  <2>3. g.pos < f.pos + f.len
    BY <1>1 DEF Meet
  <2> QED
    BY <1>1, <2>1, <2>2, <2>3
<1>2. Meet(e, d)
  BY DEF Meet
<1>3. d.k = e.k
  BY <1>1, <1>2 DEF IsMove, Kinds
<1>4. ASSUME NEW f, IsMove(L, f), NEW g, IsMove(L, g), Meet(f, g), f.k = g.k, f.c < g.c
      PROVE  FALSE
  <2>1. PICK k, b, s, c, h : k = f.k /\ b = L[k].base /\ s = L[k].slot /\ c = f.c /\ h = g.c
    OBVIOUS
  <2>2. b \in Nat /\ s \in Nat /\ c \in Nat /\ h \in Nat /\ c < h
    BY <1>4, <2>1 DEF IsMove, Laid, Ranks, GroupAssumption
  <2>3. c * s \in Nat /\ c * s + s <= h * s /\ h * s \in Nat
    BY <2>2, Products
  <2>4. PICK x \in Nat, y \in Nat : x = c * s /\ y = h * s
    BY <2>3
  <2>5. /\ f.off \in Nat /\ f.len \in Nat /\ f.off + f.len <= s /\ f.pos = b + x + f.off
        /\ g.off \in Nat /\ g.pos = b + y + g.off
    BY <1>4, <2>1, <2>4 DEF IsMove
  <2>6. g.pos < f.pos + f.len
    BY <1>4 DEF Meet
  <2> QED
    BY <2>2, <2>3, <2>4, <2>5, <2>6
<1>5. d.c \in Nat /\ e.c \in Nat
  BY DEF IsMove, Ranks, GroupAssumption
<1> QED
  BY <1>2, <1>3, <1>4, <1>5

(* Staging places of one share that meet are of the same peer, and the     *)
(* ranges of the vector staged there meet.                                 *)
LEMMA SameSlot ==
  ASSUME GroupAssumption, NEW L, Laid(L), NEW d, IsMove(L, d), NEW e, IsMove(L, e),
         d.k = e.k, d.c = e.c, NEW p \in Ranks, NEW q \in Ranks,
         p * L[d.k].slot + d.off < q * L[e.k].slot + e.off + e.len,
         q * L[e.k].slot + e.off < p * L[d.k].slot + d.off + d.len
  PROVE  p = q /\ Meet(d, e)
<1>1. PICK s : s = L[d.k].slot
  OBVIOUS
<1>2. /\ s \in Nat /\ p \in Nat /\ q \in Nat
      /\ d.off \in Nat /\ d.len \in Nat /\ d.off + d.len <= s
      /\ e.off \in Nat /\ e.len \in Nat /\ e.off + e.len <= s
  BY <1>1 DEF IsMove, Laid, Ranks, GroupAssumption
<1>3. PICK x \in Nat, y \in Nat : x = p * s /\ y = q * s
  BY <1>2
<1>4. x + d.off < y + e.off + e.len /\ y + e.off < x + d.off + d.len
  BY <1>1, <1>3
<1>5. ~(p < q)
  <2>1. SUFFICES ASSUME p < q PROVE FALSE
    OBVIOUS
  <2>2. x + s <= y
    BY <1>2, <1>3, <2>1, Products
  <2> QED
    BY <1>2, <1>3, <1>4, <2>2
<1>6. ~(q < p)
  <2>1. SUFFICES ASSUME q < p PROVE FALSE
    OBVIOUS
  <2>2. y + s <= x
    BY <1>2, <1>3, <2>1, Products
  <2> QED
    BY <1>2, <1>3, <1>4, <2>2
<1>7. p = q
  BY <1>2, <1>5, <1>6
<1>8. x = y
  BY <1>3, <1>7
<1>9. PICK v \in Nat, b \in Nat : v = d.c * s /\ b = L[d.k].base
  BY <1>1, <1>2 DEF IsMove, Laid, Ranks, GroupAssumption
<1>10. d.pos = b + v + d.off /\ e.pos = b + v + e.off
  BY <1>1, <1>9 DEF IsMove
<1> QED
  BY <1>2, <1>3, <1>4, <1>7, <1>8, <1>9, <1>10 DEF Meet

(* The level of an operation: to staging, sum, or to the peers.            *)
Level(o) ==
  IF o.to.mem[1] # "buf" THEN 0
  ELSE IF \E l \in o.from : o.from = {l} /\ l.mem[1] = "buf" THEN 2 ELSE 1

(* Operations that must not run at once, and the order they must run in.   *)
Clash(x, y) == x.op = "sum" /\ y.op = "sum" /\ (Disturbs(x, y) \/ Disturbs(y, x))
Apart(x, y) == ~Clash(x, y)
After(x, y) == Clash(x, y) => Level(x) < Level(y)

(* The same of moves.                                                      *)
MovesApart(d, e) ==
  \/ ~Meet(d, e)
  \/ Lvl(d) = Lvl(e) /\ d.kind \in {"scatter", "gather"} /\ d.p # e.p
MovesAfter(d, e) == Lvl(d) < Lvl(e) \/ MovesApart(d, e)

LEMMA OpPlaces ==
  ASSUME NEW L, NEW d
  PROVE  /\ d.kind = "scatter" =>
              /\ From(L, d) = {Buf(d.p, d.pos)}
              /\ To(L, d) = StageOf(d.k, d.c, d.p * L[d.k].slot + d.off)
         /\ d.kind = "staged" =>
              /\ From(L, d) = {StageOf(d.k, d.c, q * L[d.k].slot + d.off) : q \in Ranks}
              /\ To(L, d) = Buf(d.c, d.pos)
         /\ d.kind = "direct" =>
              /\ From(L, d) = {Buf(q, d.pos) : q \in Ranks}
              /\ To(L, d) = Buf(d.c, d.pos)
         /\ d.kind = "gather" =>
              /\ From(L, d) = {Buf(d.c, d.pos)}
              /\ To(L, d) = Buf(d.p, d.pos)
         /\ Op(L, d).op = "sum" /\ Op(L, d).from = From(L, d)
         /\ Op(L, d).to = To(L, d) /\ Op(L, d).len = d.len
BY DEF From, To, Op

LEMMA PlacesOverlap ==
  /\ \A a, b, x, y, l, m : Overlap(Buf(a, x), l, Buf(b, y), m) =>
       a = b /\ x < y + m /\ y < x + l
  /\ \A k \in Kinds : \A a, b, x, y, l, m :
       ~Overlap(StageOf(k, a, x), l, Buf(b, y), m) /\ ~Overlap(Buf(b, y), m, StageOf(k, a, x), l)
  /\ \A k, h, a, b, x, y, l, m :
       Overlap(StageOf(k, a, x), l, StageOf(h, b, y), m) =>
       k = h /\ a = b /\ x < y + m /\ y < x + l
BY DEF Overlap, Buf, StageOf, Kinds

(* A move that disturbs another meets it, and is not for another peer in   *)
(* the same direction.                                                     *)
LEMMA DisturbMeets ==
  ASSUME GroupAssumption, NEW L, Laid(L), NEW d, IsMove(L, d), NEW e, IsMove(L, e),
         Disturbs(Op(L, d), Op(L, e))
  PROVE  Meet(d, e) /\ ~(Lvl(d) = Lvl(e) /\ d.kind \in {"scatter", "gather"} /\ d.p # e.p)
<1>1. PICK l \in From(L, e) \cup {To(L, e)} : Overlap(To(L, d), d.len, l, e.len)
  BY OpPlaces DEF Disturbs
<1>2. From(L, d) # {To(L, d)}
  BY OpPlaces DEF Disturbs
<1>3. d.k \in Kinds /\ e.k \in Kinds /\ e.p \in Ranks
  BY DEF IsMove
<1>4. d.kind \in {"scatter", "staged", "direct", "gather"}
      /\ e.kind \in {"scatter", "staged", "direct", "gather"}
  BY DEF IsMove
<1>5. \/ e.kind \in {"scatter", "staged"}
           /\ \E q \in Ranks : l = StageOf(e.k, e.c, q * L[e.k].slot + e.off)
                                /\ (e.kind = "scatter" => q = e.p)
      \/ \E g : l = Buf(g, e.pos) /\ (e.kind = "gather" => g \in {e.c, e.p})
  <2>1. CASE e.kind = "scatter"
    <3>1. l = Buf(e.p, e.pos) \/ l = StageOf(e.k, e.c, e.p * L[e.k].slot + e.off)
      BY <1>1, <2>1, OpPlaces
    <3> QED
      BY <1>3, <2>1, <3>1
  <2>2. CASE e.kind = "staged"
    <3>1. \/ l = Buf(e.c, e.pos)
          \/ l \in {StageOf(e.k, e.c, q * L[e.k].slot + e.off) : q \in Ranks}
      BY <1>1, <2>2, OpPlaces
    <3> QED
      BY <2>2, <3>1
  <2>3. CASE e.kind = "direct"
    <3>1. l = Buf(e.c, e.pos) \/ l \in {Buf(q, e.pos) : q \in Ranks}
      BY <1>1, <2>3, OpPlaces
    <3> QED
      BY <2>3, <3>1
  <2>4. CASE e.kind = "gather"
    <3>1. l = Buf(e.c, e.pos) \/ l = Buf(e.p, e.pos)
      BY <1>1, <2>4, OpPlaces
    <3> QED
      BY <2>4, <3>1
  <2> QED
    BY <1>4, <2>1, <2>2, <2>3, <2>4
<1>6. CASE d.kind = "scatter"
  <2>1. Overlap(StageOf(d.k, d.c, d.p * L[d.k].slot + d.off), d.len, l, e.len) /\ d.p \in Ranks
    BY <1>1, <1>6, OpPlaces DEF IsMove
  <2>2. PICK q \in Ranks : l = StageOf(e.k, e.c, q * L[e.k].slot + e.off)
                           /\ (e.kind = "scatter" => q = e.p)
    BY <1>3, <1>5, <2>1, PlacesOverlap
  <2>3. /\ d.k = e.k /\ d.c = e.c
        /\ d.p * L[d.k].slot + d.off < (q * L[e.k].slot + e.off) + e.len
        /\ q * L[e.k].slot + e.off < (d.p * L[d.k].slot + d.off) + d.len
    BY <2>1, <2>2, PlacesOverlap
  <2>4. d.p = q /\ Meet(d, e)
    BY <2>1, <2>3, SameSlot
  <2>5. Lvl(d) = Lvl(e) => e.kind = "scatter"
    BY <1>4, <1>6 DEF Lvl
  <2> QED
    BY <2>2, <2>4, <2>5
<1>7. CASE d.kind # "scatter"
  <2>1. PICK g : To(L, d) = Buf(g, d.pos) /\ (d.kind = "gather" => g = d.p)
    BY <1>4, <1>7, OpPlaces
  <2>2. PICK h : l = Buf(h, e.pos) /\ (e.kind = "gather" => h \in {e.c, e.p})
    BY <1>1, <1>3, <1>5, <2>1, PlacesOverlap
  <2>3. g = h /\ Meet(d, e)
    BY <1>1, <2>1, <2>2, PlacesOverlap DEF Meet
  <2>4. ASSUME d.kind = "gather", e.kind = "gather" PROVE d.p = e.p
    <3>1. d.c = e.c
      BY <2>3, SameShare
    <3>2. d.c # d.p
      BY <1>2, <2>4, OpPlaces
    <3> QED
      BY <2>1, <2>2, <2>3, <2>4, <3>1, <3>2
  <2>5. Lvl(d) = Lvl(e) /\ d.kind \in {"scatter", "gather"} => d.kind = "gather" /\ e.kind = "gather"
    BY <1>4, <1>7 DEF Lvl
  <2> QED
    BY <2>3, <2>4, <2>5
<1> QED
  BY <1>6, <1>7

LEMMA ApartMoves ==
  ASSUME GroupAssumption, NEW L, Laid(L), NEW d, IsMove(L, d), NEW e, IsMove(L, e),
         MovesApart(d, e)
  PROVE  Apart(Op(L, d), Op(L, e))
<1>1. ~Disturbs(Op(L, d), Op(L, e))
  BY DisturbMeets DEF MovesApart
<1>2. MovesApart(e, d)
  <2>1. d.kind \in {"scatter", "staged", "direct", "gather"}
        /\ e.kind \in {"scatter", "staged", "direct", "gather"}
    BY DEF IsMove
  <2>2. Meet(e, d) => Meet(d, e)
    BY DEF Meet
  <2>3. ASSUME Lvl(d) = Lvl(e), d.kind \in {"scatter", "gather"}
        PROVE  e.kind \in {"scatter", "gather"}
    BY <2>1, <2>3 DEF Lvl
  <2> QED
    BY <2>2, <2>3 DEF MovesApart
<1>3. ~Disturbs(Op(L, e), Op(L, d))
  BY <1>2, DisturbMeets DEF MovesApart
<1> QED
  BY <1>1, <1>3 DEF Apart, Clash

LEMMA LevelOfMove ==
  ASSUME GroupAssumption, r >= 2, NEW L, NEW d, IsMove(L, d)
  PROVE  Level(Op(L, d)) = Lvl(d)
<1>1. d.kind \in {"scatter", "staged", "direct", "gather"} /\ d.k \in Kinds
  BY DEF IsMove
<1>2. 0 \in Ranks /\ 1 \in Ranks
  BY DEF Ranks, GroupAssumption
<1>3. \A g, at : Buf(g, at).mem[1] = "buf" /\ Buf(g, at).mem[2] = g
  BY DEF Buf
<1>4. \A k, g, at : StageOf(k, g, at).mem[1] = k
  BY DEF StageOf
<1>5. CASE d.kind = "scatter"
  <2>1. Op(L, d).to.mem[1] = d.k /\ d.k # "buf"
    BY <1>1, <1>4, <1>5, OpPlaces DEF Kinds
  <2> QED
    BY <1>5, <2>1 DEF Level, Lvl
<1>6. CASE d.kind = "gather"
  <2>1. /\ Op(L, d).to.mem[1] = "buf"
        /\ Op(L, d).from = {Buf(d.c, d.pos)} /\ Buf(d.c, d.pos).mem[1] = "buf"
    BY <1>3, <1>6, OpPlaces
  <2> QED
    BY <1>6, <2>1 DEF Level, Lvl
<1>7. CASE d.kind = "staged"
  <2>1. Op(L, d).to.mem[1] = "buf"
    BY <1>3, <1>7, OpPlaces
  <2>2. \A l \in Op(L, d).from : l.mem[1] # "buf"
    BY <1>1, <1>4, <1>7, OpPlaces DEF Kinds
  <2> QED
    BY <1>7, <2>1, <2>2 DEF Level, Lvl
<1>8. CASE d.kind = "direct"
  <2>1. Op(L, d).to.mem[1] = "buf"
    BY <1>3, <1>8, OpPlaces
  <2>2. Buf(0, d.pos) \in Op(L, d).from /\ Buf(1, d.pos) \in Op(L, d).from
    BY <1>2, <1>8, OpPlaces
  <2>3. Buf(0, d.pos) # Buf(1, d.pos)
    BY <1>3
  <2>4. ~ \E l \in Op(L, d).from : Op(L, d).from = {l}
    BY <2>2, <2>3
  <2> QED
    BY <1>8, <2>1, <2>4 DEF Level, Lvl
<1> QED
  BY <1>1, <1>5, <1>6, <1>7, <1>8

LEMMA AfterMoves ==
  ASSUME GroupAssumption, r >= 2, NEW L, Laid(L), NEW d, IsMove(L, d), NEW e, IsMove(L, e),
         MovesAfter(d, e)
  PROVE  After(Op(L, d), Op(L, e))
BY ApartMoves, LevelOfMove DEF MovesAfter, After, Apart

-----------------------------------------------------------------------------
(* A block of arms that hands to every agent of S, once, its job of J.     *)
Hands(p, S, J) ==
  /\ IsSeq(p)
  /\ \A i \in 1..Len(p) :
       p[i].do = "arm" /\ p[i].agent \in S /\ p[i].work = J[p[i].agent]
  /\ \A i, j \in 1..Len(p) : p[i].agent = p[j].agent => i = j
  /\ \A a \in S : \E i \in 1..Len(p) : p[i].agent = a

LEMMA HandsSeq == \A p, S, J : Hands(p, S, J) => IsSeq(p)
BY DEF Hands

LEMMA HandsArms ==
  ASSUME NEW p, NEW S, NEW J, Hands(p, S, J)
  PROVE  ArmBlock(p, S, {J[a] : a \in S})
BY DEF Hands, ArmBlock

LEMMA HandsNothing ==
  ASSUME NEW J
  PROVE  Hands(<<>>, {}, J)
BY EmptyIsSeq DEF Hands

HandsAgent(p, a, J) == p = Arm(a, J[a]) \/ p = Refill(a, J[a])

LEMMA HandsOne ==
  ASSUME NEW p, NEW a, NEW J, HandsAgent(p, a, J)
  PROVE  Hands(p, {a}, J)
<1>1. ASSUME NEW c, c.do = "arm", c.agent = a, c.work = J[a] PROVE Hands(<<c>>, {a}, J)
  BY <1>1, OneIsSeq DEF Hands
<1> QED
  BY <1>1 DEF HandsAgent, Arm, Refill

LEMMA HandsJoin ==
  ASSUME NEW p, NEW q, NEW S, NEW T, NEW J,
         Hands(p, S, J), Hands(q, T, J), S \cap T = {}
  PROVE  Hands(p \o q, S \cup T, J)
<1>1. PICK u : u = p \o q
  OBVIOUS
<1>2. Joins(u, p, q)
  BY <1>1, HandsSeq, Joined
<1>3. PICK l, m : l = Len(p) /\ m = Len(q)
  OBVIOUS
<1>4. /\ l \in Nat /\ m \in Nat /\ Len(u) = l + m /\ IsSeq(u)
      /\ \A i \in 1..l : u[i] = p[i]
      /\ \A i \in 1..m : u[l + i] = q[i]
      /\ \A i \in 1..Len(u) : i <= l \/ \E j \in 1..m : i = l + j
  BY <1>2, <1>3 DEF Joins
<1>5. \A i \in 1..l : p[i].do = "arm" /\ p[i].agent \in S /\ p[i].work = J[p[i].agent]
  BY <1>3 DEF Hands
<1>6. \A i \in 1..m : q[i].do = "arm" /\ q[i].agent \in T /\ q[i].work = J[q[i].agent]
  BY <1>3 DEF Hands
<1>7. ASSUME NEW i \in 1..Len(u)
      PROVE  \/ i \in 1..l /\ u[i] = p[i]
             \/ \E j \in 1..m : i = l + j /\ u[i] = q[j]
  <2>1. CASE i <= l
    BY <1>4, <2>1
  <2>2. CASE \E j \in 1..m : i = l + j
    BY <1>4, <2>2
  <2> QED
    BY <1>4, <2>1, <2>2
<1>8. ASSUME NEW i \in 1..Len(u)
      PROVE  u[i].do = "arm" /\ u[i].agent \in S \cup T /\ u[i].work = J[u[i].agent]
  BY <1>5, <1>6, <1>7
<1>9. ASSUME NEW i \in 1..Len(u), NEW j \in 1..Len(u), u[i].agent = u[j].agent
      PROVE  i = j
  <2>1. CASE i \in 1..l /\ u[i] = p[i] /\ j \in 1..l /\ u[j] = p[j]
    BY <1>3, <1>9, <2>1 DEF Hands
  <2>2. CASE /\ \E k \in 1..m : i = l + k /\ u[i] = q[k]
             /\ \E k \in 1..m : j = l + k /\ u[j] = q[k]
    BY <1>3, <1>9, <2>2 DEF Hands
  <2>3. CASE i \in 1..l /\ u[i] = p[i] /\ \E k \in 1..m : u[j] = q[k]
    BY <1>5, <1>6, <1>9, <2>3
  <2>4. CASE j \in 1..l /\ u[j] = p[j] /\ \E k \in 1..m : u[i] = q[k]
    BY <1>5, <1>6, <1>9, <2>4
  <2> QED
    BY <1>7, <2>1, <2>2, <2>3, <2>4
<1>10. ASSUME NEW a \in S PROVE \E i \in 1..Len(u) : u[i].agent = a
  <2>1. PICK i \in 1..l : p[i].agent = a
    BY <1>3 DEF Hands
  <2>2. i \in 1..Len(u) /\ u[i] = p[i]
    BY <1>4
  <2> QED
    BY <2>1, <2>2
<1>11. ASSUME NEW a \in T PROVE \E i \in 1..Len(u) : u[i].agent = a
  <2>1. PICK i \in 1..m : q[i].agent = a
    BY <1>3 DEF Hands
  <2>2. l + i \in 1..Len(u) /\ u[l + i] = q[i]
    BY <1>4
  <2> QED
    BY <2>1, <2>2
<1> QED
  BY <1>1, <1>4, <1>8, <1>9, <1>10, <1>11 DEF Hands

LEMMA FlattenHands ==
  ASSUME NEW m \in Nat, NEW s, s = [i \in 1..m |-> s[i]], NEW S, NEW k, NEW J,
         \A i \in 1..m : Hands(s[i], Of(S, k, i - 1), J),
         \A a \in S : a[k] \in 0..(m - 1)
  PROVE  Hands(FlattenSeq(s), S, J)
<1>1. CASE m = 0
  <2>1. S = {}
    BY <1>1
  <2> QED
    BY <1>1, <2>1, FlattenNothing, HandsNothing
<1>2. CASE m # 0
  <2>1. PICK f : Unfolds(f, s, m) /\ FlattenSeq(s) = f[m]
    BY <1>2, FlattenUnfolds
  <2>2. PICK U : U = [i \in 1..m |-> {a \in S : a[k] \in 0..(i - 1)}]
    OBVIOUS
  <2>3. PICK G : G = {i \in 1..m : Hands(f[i], U[i], J)}
    OBVIOUS
  <2>4. 1 \in G
    <3>1. 1 \in 1..m
      BY <1>2
    <3>2. \A x : x \in 0..(1 - 1) <=> x = 1 - 1
      OBVIOUS
    <3>3. Of(S, k, 1 - 1) = U[1]
      BY <2>2, <3>1, <3>2 DEF Of
    <3>4. Hands(f[1], U[1], J)
      BY <2>1, <3>1, <3>3 DEF Unfolds
    <3> QED
      BY <2>3, <3>1, <3>4
  <2>5. ASSUME NEW i \in 2..m, i - 1 \in G PROVE i \in G
    <3>1. i \in 1..m /\ i - 1 \in 1..m
      OBVIOUS
    <3>2. Hands(f[i - 1], U[i - 1], J) /\ Hands(s[i], Of(S, k, i - 1), J)
      BY <2>3, <2>5, <3>1
    <3>3. \A x : x \in 0..((i - 1) - 1) => x # i - 1 /\ x \in 0..(i - 1)
      OBVIOUS
    <3>4. U[i - 1] \cap Of(S, k, i - 1) = {}
      BY <2>2, <3>1, <3>3 DEF Of
    <3>5. \A x : x \in 0..(i - 1) => x = i - 1 \/ x \in 0..((i - 1) - 1)
      BY <3>1
    <3>6. i - 1 \in 0..(i - 1)
      BY <3>1
    <3>7. U[i - 1] \cup Of(S, k, i - 1) = U[i]
      BY <2>2, <3>1, <3>3, <3>5, <3>6 DEF Of
    <3>8. Hands(f[i - 1] \o s[i], U[i], J)
      BY <3>2, <3>4, <3>7, HandsJoin
    <3>9. f[i] = f[i - 1] \o s[i]
      BY <2>1 DEF Unfolds
    <3> QED
      BY <2>3, <3>1, <3>8, <3>9
  <2>6. m \in G
    BY <1>2, <2>4, <2>5, Climb
  <2>7. Hands(f[m], U[m], J)
    BY <2>3, <2>6
  <2>8. S = U[m]
    <3>1. m \in 1..m
      BY <1>2
    <3> QED
      BY <2>2, <3>1
  <2> QED
    BY <2>1, <2>7, <2>8
<1> QED
  BY <1>1, <1>2

LEMMA RankHands ==
  ASSUME GroupAssumption, NEW S, NEW J, NEW s, s = [i \in 1..r |-> s[i]],
         \A i \in 1..r : Hands(s[i], Of(S, 2, i - 1), J),
         \A a \in S : a[2] \in Ranks
  PROVE  Hands(FlattenSeq(s), S, J)
BY RankIndex, FlattenHands DEF Ranks

LEMMA QueueHands ==
  ASSUME GroupAssumption, NEW k, NEW C \in SUBSET Ranks, NEW J,
         NEW s, s = [i \in 1..r |-> s[i]],
         \A i \in 1..r : IF i - 1 \in C THEN HandsAgent(s[i], Queue(k, i - 1), J)
                                        ELSE s[i] = <<>>
  PROVE  Hands(FlattenSeq(s), Queues(k, C), J)
<1>1. ASSUME NEW i \in 1..r PROVE Hands(s[i], Of(Queues(k, C), 2, i - 1), J)
  <2>1. CASE i - 1 \in C
    <3>1. Of(Queues(k, C), 2, i - 1) = {Queue(k, i - 1)}
      BY <2>1, NamesOfAgents DEF Of, Queues
    <3> QED
      BY <2>1, <3>1, HandsOne
  <2>2. CASE i - 1 \notin C
    <3>1. Of(Queues(k, C), 2, i - 1) = {}
      BY <2>2, NamesOfAgents DEF Of, Queues
    <3> QED
      BY <2>2, <3>1, HandsNothing
  <2> QED
    BY <2>1, <2>2
<1>2. \A a \in Queues(k, C) : a[2] \in Ranks
  BY NamesOfAgents DEF Queues
<1> QED
  BY <1>1, <1>2, RankHands

LEMMA RowHands ==
  ASSUME NEW g, NEW m \in Nat, NEW C, C \subseteq 0..(m - 1), NEW J,
         NEW s, s = [i \in 1..m |-> s[i]],
         \A i \in 1..m : IF i - 1 \in C THEN HandsAgent(s[i], Sdma(g, i - 1), J)
                                        ELSE s[i] = <<>>
  PROVE  Hands(FlattenSeq(s), Row(g, C), J)
<1>1. ASSUME NEW i \in 1..m PROVE Hands(s[i], Of(Row(g, C), 3, i - 1), J)
  <2>1. CASE i - 1 \in C
    <3>1. Of(Row(g, C), 3, i - 1) = {Sdma(g, i - 1)}
      BY <2>1, NamesOfAgents DEF Of, Row
    <3> QED
      BY <2>1, <3>1, HandsOne
  <2>2. CASE i - 1 \notin C
    <3>1. Of(Row(g, C), 3, i - 1) = {}
      BY <2>2, NamesOfAgents DEF Of, Row
    <3> QED
      BY <2>2, <3>1, HandsNothing
  <2> QED
    BY <2>1, <2>2
<1>2. \A a \in Row(g, C) : a[3] \in 0..(m - 1)
  BY NamesOfAgents DEF Row
<1> QED
  BY <1>1, <1>2, FlattenHands

(* Row i of the commands s joins the commands f[i], one for each queue of  *)
(* the grid, or is empty when the grid has none there.                     *)
GridHanded(s, f, m, D, J) ==
  /\ s = [i \in 1..r |-> s[i]]
  /\ \A i \in 1..r : f[i] = [j \in 1..m |-> f[i][j]]
  /\ \A i \in 1..r :
       \/ s[i] = <<>> /\ \A q \in Ranks : <<i - 1, q>> \notin D
       \/ /\ s[i] = FlattenSeq(f[i])
          /\ \A j \in 1..m :
               IF <<i - 1, j - 1>> \in D THEN HandsAgent(f[i][j], Sdma(i - 1, j - 1), J)
                                         ELSE f[i][j] = <<>>

LEMMA GridHands ==
  ASSUME GroupAssumption, NEW m \in Nat, NEW D, D \subseteq Ranks \X Ranks, NEW J,
         \A e \in D : e[2] \in 0..(m - 1),
         NEW f, NEW s, GridHanded(s, f, m, D, J)
  PROVE  Hands(FlattenSeq(s), Grid(D), J)
<1>1. ASSUME NEW i \in 1..r
      PROVE  Hands(s[i], Of(Grid(D), 2, i - 1), J)
  <2>1. PICK C : C = {q \in Ranks : <<i - 1, q>> \in D}
    OBVIOUS
  <2>2. ASSUME NEW a \in Of(Grid(D), 2, i - 1) PROVE a \in Row(i - 1, C)
    <3>1. a = Sdma(a[2], a[3]) /\ <<a[2], a[3]>> \in D /\ a[2] = i - 1
      BY GridNames DEF Of
    <3>2. a[3] \in Ranks
      BY <3>1
    <3> QED
      BY <2>1, <3>1, <3>2 DEF Row
  <2>3. Row(i - 1, C) \subseteq Of(Grid(D), 2, i - 1)
    <3> SUFFICES ASSUME NEW q \in C PROVE Sdma(i - 1, q) \in Of(Grid(D), 2, i - 1)
      BY DEF Row
    <3>1. <<i - 1, q>> \in D
      BY <2>1
    <3>2. Sdma(i - 1, q) \in Grid(D)
      BY <3>1, GridNames
    <3> QED
      BY <3>2, NamesOfAgents DEF Of
  <2>4. Of(Grid(D), 2, i - 1) = Row(i - 1, C)
    BY <2>2, <2>3
  <2>5. CASE ~(s[i] = <<>> /\ \A q \in Ranks : <<i - 1, q>> \notin D)
    <3>1. PICK t : t = f[i]
      OBVIOUS
    <3>2. t = [j \in 1..m |-> t[j]]
      BY <3>1 DEF GridHanded
    <3>3. ASSUME NEW j \in 1..m
          PROVE  IF j - 1 \in C THEN HandsAgent(t[j], Sdma(i - 1, j - 1), J)
                                         ELSE t[j] = <<>>
      <4>1. j - 1 \in C => <<i - 1, j - 1>> \in D
        BY <2>1
      <4>2. <<i - 1, j - 1>> \in D => j - 1 \in C
        BY <2>1
      <4> QED
        BY <2>5, <3>1, <4>1, <4>2 DEF GridHanded
    <3>4. C \subseteq 0..(m - 1)
      <4> SUFFICES ASSUME NEW q \in C PROVE q \in 0..(m - 1)
        OBVIOUS
      <4>1. <<i - 1, q>> \in D
        BY <2>1
      <4>2. <<i - 1, q>>[2] \in 0..(m - 1)
        BY <4>1
      <4> QED
        BY <4>2
    <3>5. Hands(FlattenSeq(t), Row(i - 1, C), J)
      BY <3>2, <3>3, <3>4, RowHands
    <3> QED
      BY <2>4, <2>5, <3>1, <3>5 DEF GridHanded
  <2>6. CASE s[i] = <<>> /\ \A q \in Ranks : <<i - 1, q>> \notin D
    <3>1. Of(Grid(D), 2, i - 1) = {}
      BY <2>1, <2>4, <2>6 DEF Row
    <3> QED
      BY <2>6, <3>1, HandsNothing
  <2> QED
    BY <2>5, <2>6
<1>2. \A a \in Grid(D) : a[2] \in Ranks
  BY GridNames
<1> QED
  BY <1>1, <1>2, RankHands DEF GridHanded

MixedHanded(s, m, J) ==
  /\ s = [i \in 1..r |-> s[i]]
  /\ \A i \in 1..r : \E t, c :
       /\ s[i] = FlattenSeq(t) \o c /\ t = [j \in 1..m |-> t[j]]
       /\ \A j \in 1..m : HandsAgent(t[j], Sdma(i - 1, j - 1), J)
       /\ HandsAgent(c, Cu(i - 1), J)

LEMMA MixedHands ==
  ASSUME GroupAssumption, NEW J, NEW m \in Nat, m <= r, NEW s, MixedHanded(s, m, J)
  PROVE  Hands(FlattenSeq(s), Mixed(m), J)
<1>1. ASSUME NEW i \in 1..r PROVE Hands(s[i], Of(Mixed(m), 2, i - 1), J)
  <2>1. PICK t, c : /\ s[i] = FlattenSeq(t) \o c /\ t = [j \in 1..m |-> t[j]]
                    /\ \A j \in 1..m : HandsAgent(t[j], Sdma(i - 1, j - 1), J)
                    /\ HandsAgent(c, Cu(i - 1), J)
    BY DEF MixedHanded
  <2>2. \A j \in 1..m : j - 1 \in 0..(m - 1)
    OBVIOUS
  <2>3. Hands(FlattenSeq(t), Row(i - 1, 0..(m - 1)), J)
    BY <2>1, <2>2, RowHands
  <2>4. Hands(c, {Cu(i - 1)}, J)
    BY <2>1, HandsOne
  <2> QED
    BY <2>1, <2>3, <2>4, MixedNames, HandsJoin
<1>2. \A a \in Mixed(m) : a[2] \in Ranks
  BY MixedNames
<1> QED
  BY <1>1, <1>2, RankHands DEF MixedHanded

-----------------------------------------------------------------------------
(* The operations of a piece of work, and of two pieces of work.           *)
Does(w) == UNION {w[i] : i \in 1..Len(w)}
Sums(w) == {o \in Does(w) : o.op = "sum"}
Moved(L, D) == {Op(L, d) : d \in D}
AreMoves(L, D) == \A d \in D : IsMove(L, d)

WorksApart(v, w) == \A x \in Does(v), y \in Does(w) : Apart(x, y)
WorksAfter(v, w) == \A x \in Does(v), y \in Does(w) : After(x, y)

(* Work whose phases are in order.                                         *)
Fine(w) ==
  /\ IsSeq(w)
  /\ \A i, j \in 1..Len(w) : \A x \in w[i], y \in w[j] :
       (i < j => After(x, y)) /\ (i = j /\ x # y => Apart(x, y))

(* The work w makes the moves of D, and does nothing else unless it talks. *)
Job(w, L, D, talks) ==
  /\ Fine(w) /\ AreMoves(L, D) /\ Sums(w) = Moved(L, D)
  /\ talks \/ Does(w) = Sums(w)

(* The agents of S see to their order themselves.  Other agents: of two    *)
(* arms that clash, the later waits for the earlier.                       *)
Turn(p, h, i, S) ==
  \/ WorksApart(p[h].work, p[i].work)
  \/ p[h].agent \in S /\ p[i].agent \in S /\ p[h].agent # p[i].agent
  \/ /\ WorksAfter(p[h].work, p[i].work)
     /\ p[h].agent = p[i].agent \/ Awaits(p, p[h].agent, h + 1, i - 1)

InOrder(p, S) ==
  \A h, i \in 1..Len(p) :
    h < i /\ p[h].do = "arm" /\ p[i].do = "arm" => Turn(p, h, i, S)

Fits(p, L, D, S) ==
  \A i \in 1..Len(p) : p[i].do = "arm" =>
    /\ Fine(p[i].work) /\ Sums(p[i].work) \subseteq Moved(L, D)
    /\ p[i].agent \in S \/ Does(p[i].work) = Sums(p[i].work)

Offers(p, L, D) ==
  \A d \in D : \E i \in 1..Len(p) : p[i].do = "arm" /\ Op(L, d) \in Does(p[i].work)

Orderly(p, L, D, S) ==
  IsSeq(p) /\ AreMoves(L, D) /\ InOrder(p, S) /\ Fits(p, L, D, S) /\ Offers(p, L, D)

(* May arm i of q come after arm h of p, in a program p \o q?              *)
Follows(p, q, h, i, S) ==
  \/ WorksApart(p[h].work, q[i].work)
  \/ p[h].agent \in S /\ q[i].agent \in S /\ p[h].agent # q[i].agent
  \/ /\ WorksAfter(p[h].work, q[i].work)
     /\ p[h].agent = q[i].agent \/ Awaits(p, p[h].agent, h + 1, Len(p))

LEMMA OrderlySeq == \A p, L, D, S : Orderly(p, L, D, S) => IsSeq(p)
BY DEF Orderly

LEMMA TurnFirst ==
  ASSUME NEW u, NEW p, NEW q, Joins(u, p, q), NEW S,
         NEW h \in 1..Len(p), NEW i \in 1..Len(p), Turn(p, h, i, S)
  PROVE  Turn(u, h, i, S)
<1>1. u[h] = p[h] /\ u[i] = p[i]
  BY DEF Joins
<1>2. ASSUME NEW a, Awaits(p, a, h + 1, i - 1) PROVE Awaits(u, a, h + 1, i - 1)
  <2>1. PICK k \in (h + 1)..(i - 1) : p[k].do = "wait" /\ p[k].agent = a
    BY <1>2 DEF Awaits
  <2>2. k \in 1..Len(p)
    BY DEF Joins
  <2>3. u[k] = p[k]
    BY <2>2 DEF Joins
  <2> QED
    BY <2>1, <2>3 DEF Awaits
<1> QED
  BY <1>1, <1>2 DEF Turn

LEMMA TurnSecond ==
  ASSUME NEW u, NEW p, NEW q, Joins(u, p, q), NEW S,
         NEW h \in 1..Len(q), NEW i \in 1..Len(q), Turn(q, h, i, S)
  PROVE  Turn(u, Len(p) + h, Len(p) + i, S)
<1>1. u[Len(p) + h] = q[h] /\ u[Len(p) + i] = q[i]
  BY DEF Joins
<1>2. ASSUME NEW a, Awaits(q, a, h + 1, i - 1)
      PROVE  Awaits(u, a, (Len(p) + h) + 1, (Len(p) + i) - 1)
  <2>1. PICK k \in (h + 1)..(i - 1) : q[k].do = "wait" /\ q[k].agent = a
    BY <1>2 DEF Awaits
  <2>2. k \in 1..Len(q) /\ Len(p) + k \in ((Len(p) + h) + 1)..((Len(p) + i) - 1)
    BY DEF Joins
  <2>3. u[Len(p) + k] = q[k]
    BY <2>2 DEF Joins
  <2> QED
    BY <2>1, <2>2, <2>3 DEF Awaits
<1> QED
  BY <1>1, <1>2 DEF Turn

LEMMA TurnAcross ==
  ASSUME NEW u, NEW p, NEW q, Joins(u, p, q), NEW S,
         NEW h \in 1..Len(p), NEW i \in 1..Len(q), Follows(p, q, h, i, S)
  PROVE  Turn(u, h, Len(p) + i, S)
<1>1. u[h] = p[h] /\ u[Len(p) + i] = q[i]
  BY DEF Joins
<1>2. ASSUME NEW a, Awaits(p, a, h + 1, Len(p))
      PROVE  Awaits(u, a, h + 1, (Len(p) + i) - 1)
  <2>1. PICK k \in (h + 1)..Len(p) : p[k].do = "wait" /\ p[k].agent = a
    BY <1>2 DEF Awaits
  <2>2. k \in 1..Len(p) /\ k \in (h + 1)..((Len(p) + i) - 1)
    BY DEF Joins
  <2>3. u[k] = p[k]
    BY <2>2 DEF Joins
  <2> QED
    BY <2>1, <2>2, <2>3 DEF Awaits
<1> QED
  BY <1>1, <1>2 DEF Turn, Follows

LEMMA OrderlyJoin ==
  ASSUME NEW p, NEW q, NEW L, NEW D, NEW E, NEW S,
         Orderly(p, L, D, S), Orderly(q, L, E, S),
         \A h \in 1..Len(p), i \in 1..Len(q) :
           p[h].do = "arm" /\ q[i].do = "arm" => Follows(p, q, h, i, S)
  PROVE  Orderly(p \o q, L, D \cup E, S)
<1>1. PICK u : u = p \o q
  OBVIOUS
<1>2. Joins(u, p, q)
  BY <1>1, OrderlySeq, Joined
<1>3. PICK l, m : l = Len(p) /\ m = Len(q)
  OBVIOUS
<1>4. /\ l \in Nat /\ m \in Nat /\ Len(u) = l + m /\ IsSeq(u)
      /\ \A i \in 1..l : u[i] = p[i]
      /\ \A i \in 1..m : u[l + i] = q[i]
      /\ \A i \in 1..Len(u) : i <= l \/ \E j \in 1..m : i = l + j
  BY <1>2, <1>3 DEF Joins
<1>5. ASSUME NEW i \in 1..Len(u)
      PROVE  \/ i \in 1..l /\ u[i] = p[i]
             \/ \E j \in 1..m : i = l + j /\ u[i] = q[j]
  <2>1. CASE i <= l
    BY <1>4, <2>1
  <2>2. CASE \E j \in 1..m : i = l + j
    BY <1>4, <2>2
  <2> QED
    BY <1>4, <2>1, <2>2
<1>6. InOrder(u, S)
  <2> SUFFICES ASSUME NEW h \in 1..Len(u), NEW i \in 1..Len(u), h < i,
                      u[h].do = "arm", u[i].do = "arm"
               PROVE  Turn(u, h, i, S)
    BY DEF InOrder
  <2>1. CASE h \in 1..l /\ u[h] = p[h] /\ i \in 1..l /\ u[i] = p[i]
    <3>1. Turn(p, h, i, S)
      BY <1>3, <2>1 DEF Orderly, InOrder
    <3> QED
      BY <1>2, <1>3, <2>1, <3>1, TurnFirst
  <2>2. CASE /\ \E j \in 1..m : h = l + j /\ u[h] = q[j]
             /\ \E j \in 1..m : i = l + j /\ u[i] = q[j]
    <3>1. PICK g \in 1..m, j \in 1..m : h = l + g /\ u[h] = q[g] /\ i = l + j /\ u[i] = q[j]
      BY <2>2
    <3>2. g < j
      BY <1>4, <3>1
    <3>3. Turn(q, g, j, S)
      BY <1>3, <3>1, <3>2 DEF Orderly, InOrder
    <3> QED
      BY <1>2, <1>3, <3>1, <3>3, TurnSecond
  <2>3. CASE h \in 1..l /\ u[h] = p[h] /\ \E j \in 1..m : i = l + j /\ u[i] = q[j]
    <3>1. PICK j \in 1..m : i = l + j /\ u[i] = q[j]
      BY <2>3
    <3>2. Follows(p, q, h, j, S)
      BY <1>3, <2>3, <3>1
    <3> QED
      BY <1>2, <1>3, <2>3, <3>1, <3>2, TurnAcross
  <2>4. CASE i \in 1..l /\ \E j \in 1..m : h = l + j
    BY <1>4, <2>4
  <2> QED
    BY <1>5, <2>1, <2>2, <2>3, <2>4
<1>7. Moved(L, D) \subseteq Moved(L, D \cup E) /\ Moved(L, E) \subseteq Moved(L, D \cup E)
  BY DEF Moved
<1>8. Fits(u, L, D \cup E, S)
  <2> SUFFICES ASSUME NEW i \in 1..Len(u), u[i].do = "arm"
               PROVE  /\ Fine(u[i].work) /\ Sums(u[i].work) \subseteq Moved(L, D \cup E)
                      /\ u[i].agent \in S \/ Does(u[i].work) = Sums(u[i].work)
    BY DEF Fits
  <2>1. CASE i \in 1..l /\ u[i] = p[i]
    BY <1>3, <1>7, <2>1 DEF Orderly, Fits
  <2>2. CASE \E j \in 1..m : i = l + j /\ u[i] = q[j]
    BY <1>3, <1>7, <2>2 DEF Orderly, Fits
  <2> QED
    BY <1>5, <2>1, <2>2
<1>9. Offers(u, L, D \cup E)
  <2>1. ASSUME NEW d \in D
        PROVE  \E i \in 1..Len(u) : u[i].do = "arm" /\ Op(L, d) \in Does(u[i].work)
    <3>1. PICK i \in 1..l : p[i].do = "arm" /\ Op(L, d) \in Does(p[i].work)
      BY <1>3 DEF Orderly, Offers
    <3>2. i \in 1..Len(u) /\ u[i] = p[i]
      BY <1>4
    <3> QED
      BY <3>1, <3>2
  <2>2. ASSUME NEW d \in E
        PROVE  \E i \in 1..Len(u) : u[i].do = "arm" /\ Op(L, d) \in Does(u[i].work)
    <3>1. PICK i \in 1..m : q[i].do = "arm" /\ Op(L, d) \in Does(q[i].work)
      BY <1>3 DEF Orderly, Offers
    <3>2. l + i \in 1..Len(u) /\ u[l + i] = q[i]
      BY <1>4
    <3> QED
      BY <3>1, <3>2
  <2> QED
    BY <2>1, <2>2 DEF Offers
<1>10. AreMoves(L, D \cup E)
  BY DEF Orderly, AreMoves
<1> QED
  BY <1>1, <1>4, <1>6, <1>8, <1>9, <1>10 DEF Orderly

LEMMA OrderlyMore ==
  ASSUME NEW p, NEW L, NEW D, NEW S, NEW T, Orderly(p, L, D, S), S \subseteq T
  PROVE  Orderly(p, L, D, T)
BY DEF Orderly, InOrder, Turn, Fits

(* Waits alone, and no commands at all.                                    *)
LEMMA WaitsOrderly ==
  ASSUME NEW p, NEW A, WaitBlock(p, A), NEW L, NEW S
  PROVE  Orderly(p, L, {}, S) /\ \A i \in 1..Len(p) : p[i].do # "arm"
BY DEF WaitBlock, Orderly, InOrder, Fits, Offers, AreMoves

(* A block of arms whose jobs are apart.                                   *)
LEMMA BlockOrderly ==
  ASSUME NEW p, NEW A, NEW J, Hands(p, A, J), NEW L, NEW D, NEW S,
         \A a \in A : Job(J[a], L, D[a], a \in S),
         \A a, b \in A : a = b \/ (a \in S /\ b \in S) \/ WorksApart(J[a], J[b])
  PROVE  Orderly(p, L, UNION {D[a] : a \in A}, S)
<1>1. PICK E : E = UNION {D[a] : a \in A}
  OBVIOUS
<1>2. \A i \in 1..Len(p) : p[i].agent \in A /\ p[i].work = J[p[i].agent]
  BY DEF Hands
<1>3. ASSUME NEW h \in 1..Len(p), NEW i \in 1..Len(p), h < i PROVE Turn(p, h, i, S)
  <2>1. p[h].agent # p[i].agent
    <3>1. Len(p) \in Nat /\ h # i
      BY <1>3, IsSeqLen DEF Hands
    <3> QED
      BY <3>1 DEF Hands
  <2> QED
    BY <1>2, <2>1 DEF Turn
<1>4. \A a \in A : Moved(L, D[a]) \subseteq Moved(L, E)
  BY <1>1 DEF Moved
<1>5. Fits(p, L, E, S)
  BY <1>2, <1>4 DEF Fits, Job
<1>6. Offers(p, L, E)
  <2> SUFFICES ASSUME NEW a \in A, NEW d \in D[a]
               PROVE  \E i \in 1..Len(p) : p[i].do = "arm" /\ Op(L, d) \in Does(p[i].work)
    BY <1>1 DEF Offers
  <2>1. PICK i \in 1..Len(p) : p[i].agent = a
    BY DEF Hands
  <2>2. p[i].do = "arm" /\ p[i].work = J[a]
    BY <1>2, <2>1 DEF Hands
  <2>3. Op(L, d) \in Sums(J[a])
    BY DEF Job, Moved
  <2> QED
    BY <2>2, <2>3 DEF Sums
<1>7. AreMoves(L, E)
  BY <1>1 DEF AreMoves, Job
<1> QED
  BY <1>1, <1>3, <1>5, <1>6, <1>7 DEF Orderly, InOrder, Hands

(* Works whose moves are apart, or in order, are so.                       *)
MovesAllApart(D, E) == \A d \in D, e \in E : MovesApart(d, e)
MovesAllAfter(D, E) == \A d \in D, e \in E : MovesAfter(d, e)

LEMMA WorksOfMoves ==
  ASSUME GroupAssumption, r >= 2, NEW L, Laid(L), NEW v, NEW w, NEW D, NEW E,
         AreMoves(L, D), AreMoves(L, E),
         Sums(v) \subseteq Moved(L, D), Sums(w) \subseteq Moved(L, E)
  PROVE  /\ MovesAllApart(D, E) => WorksApart(v, w)
         /\ MovesAllAfter(D, E) => WorksAfter(v, w)
<1>1. ASSUME NEW x \in Does(v), NEW y \in Does(w), Clash(x, y)
      PROVE  \E d \in D, e \in E : x = Op(L, d) /\ y = Op(L, e) /\ IsMove(L, d) /\ IsMove(L, e)
  <2>1. x \in Sums(v) /\ y \in Sums(w)
    BY <1>1 DEF Clash, Sums
  <2> QED
    BY <2>1 DEF Moved, AreMoves
<1>2. ASSUME MovesAllApart(D, E), NEW x \in Does(v), NEW y \in Does(w), Clash(x, y)
      PROVE  FALSE
  <2>1. PICK d \in D, e \in E : x = Op(L, d) /\ y = Op(L, e) /\ IsMove(L, d) /\ IsMove(L, e)
    BY <1>1, <1>2
  <2>2. Apart(Op(L, d), Op(L, e))
    BY <1>2, <2>1, ApartMoves DEF MovesAllApart
  <2> QED
    BY <1>2, <2>1, <2>2 DEF Apart
<1>3. ASSUME MovesAllAfter(D, E), NEW x \in Does(v), NEW y \in Does(w), Clash(x, y)
      PROVE  Level(x) < Level(y)
  <2>1. PICK d \in D, e \in E : x = Op(L, d) /\ y = Op(L, e) /\ IsMove(L, d) /\ IsMove(L, e)
    BY <1>1, <1>3
  <2>2. After(Op(L, d), Op(L, e))
    BY <1>3, <2>1, AfterMoves DEF MovesAllAfter
  <2> QED
    BY <1>3, <2>1, <2>2 DEF After
<1> QED
  BY <1>2, <1>3 DEF WorksApart, WorksAfter, Apart, After

-----------------------------------------------------------------------------
(* A program that is in order and ends with every agent waited for.        *)
Drained(p) ==
  \A i \in 1..Len(p) : p[i].do = "arm" => Awaits(p, p[i].agent, i + 1, Len(p))

Tidy(p, L, D) == Orderly(p, L, D, {}) /\ Drained(p)

LEMMA TidySeq == \A p, L, D : Tidy(p, L, D) => IsSeq(p)
BY OrderlySeq DEF Tidy

LEMMA RoundDrained ==
  ASSUME NEW p, NEW A, NEW J, Hands(p, A, J), NEW q, WaitBlock(q, A)
  PROVE  Drained(p \o q)
<1>1. PICK W : ArmBlock(p, A, W)
  BY HandsArms
<1>2. Settled(p \o q, A, W)
  BY <1>1, Round
<1> QED
  BY <1>2 DEF Settled, ArmsAwaited, Drained

LEMMA DrainedJoin ==
  ASSUME NEW p, NEW q, IsSeq(p), IsSeq(q), Drained(p), Drained(q)
  PROVE  Drained(p \o q)
<1>1. PICK u : u = p \o q
  OBVIOUS
<1>2. Joins(u, p, q)
  BY <1>1, Joined
<1>3. PICK l, m : l = Len(p) /\ m = Len(q)
  OBVIOUS
<1>4. /\ l \in Nat /\ m \in Nat /\ Len(u) = l + m
      /\ \A i \in 1..l : u[i] = p[i]
      /\ \A i \in 1..m : u[l + i] = q[i]
      /\ \A i \in 1..Len(u) : i <= l \/ \E j \in 1..m : i = l + j
  BY <1>2, <1>3 DEF Joins
<1>5. ASSUME NEW i \in 1..Len(u), u[i].do = "arm"
      PROVE  Awaits(u, u[i].agent, i + 1, Len(u))
  <2>1. CASE i <= l
    <3>1. i \in 1..l /\ u[i] = p[i]
      BY <1>4, <2>1
    <3>2. PICK k \in (i + 1)..l : p[k].do = "wait" /\ p[k].agent = u[i].agent
      BY <1>3, <1>5, <3>1 DEF Drained, Awaits
    <3>3. k \in 1..l /\ k \in (i + 1)..Len(u)
      BY <1>4, <3>1
    <3>4. u[k] = p[k]
      BY <1>4, <3>3
    <3> QED
      BY <3>2, <3>3, <3>4 DEF Awaits
  <2>2. CASE \E j \in 1..m : i = l + j
    <3>1. PICK j \in 1..m : i = l + j
      BY <2>2
    <3>2. u[i] = q[j]
      BY <1>4, <3>1
    <3>3. PICK k \in (j + 1)..m : q[k].do = "wait" /\ q[k].agent = u[i].agent
      BY <1>3, <1>5, <3>2 DEF Drained, Awaits
    <3>4. k \in 1..m /\ l + k \in (i + 1)..Len(u)
      BY <1>4, <3>1
    <3>5. u[l + k] = q[k]
      BY <1>4, <3>4
    <3> QED
      BY <3>3, <3>4, <3>5 DEF Awaits
  <2> QED
    BY <1>4, <2>1, <2>2
<1> QED
  BY <1>1, <1>5 DEF Drained

LEMMA TidyNothing ==
  ASSUME NEW L
  PROVE  Tidy(<<>>, L, {})
<1>1. Orderly(<<>>, L, {}, {})
  BY NoWaits, WaitsOrderly
<1>2. Drained(<<>>)
  BY EmptyIsSeq DEF Drained
<1> QED
  BY <1>1, <1>2 DEF Tidy

(* After a program that has drained every move may follow that the order   *)
(* of levels allows.                                                       *)
LEMMA AfterTidy ==
  ASSUME GroupAssumption, r >= 2, NEW L, Laid(L), NEW p, NEW q, NEW D, NEW E, NEW S,
         Tidy(p, L, D), Orderly(q, L, E, S), MovesAllAfter(D, E)
  PROVE  Orderly(p \o q, L, D \cup E, S)
<1>1. ASSUME NEW h \in 1..Len(p), NEW i \in 1..Len(q), p[h].do = "arm", q[i].do = "arm"
      PROVE  Follows(p, q, h, i, S)
  <2>1. Sums(p[h].work) \subseteq Moved(L, D) /\ Sums(q[i].work) \subseteq Moved(L, E)
    BY <1>1 DEF Tidy, Orderly, Fits
  <2>2. WorksAfter(p[h].work, q[i].work)
    BY <2>1, WorksOfMoves DEF Tidy, Orderly
  <2>3. Awaits(p, p[h].agent, h + 1, Len(p))
    BY <1>1 DEF Tidy, Drained
  <2> QED
    BY <2>2, <2>3 DEF Follows
<1>2. Orderly(p, L, D, S)
  BY OrderlyMore DEF Tidy
<1> QED
  BY <1>1, <1>2, OrderlyJoin

LEMMA TidyJoin ==
  ASSUME GroupAssumption, r >= 2, NEW L, Laid(L), NEW p, NEW q, NEW D, NEW E,
         Tidy(p, L, D), Tidy(q, L, E), MovesAllAfter(D, E)
  PROVE  Tidy(p \o q, L, D \cup E)
<1>1. Orderly(p \o q, L, D \cup E, {})
  BY AfterTidy DEF Tidy
<1>2. Drained(p \o q)
  BY TidySeq, DrainedJoin DEF Tidy
<1> QED
  BY <1>1, <1>2 DEF Tidy

(* Waits change nothing of the order.                                      *)
LEMMA ThenWaits ==
  ASSUME NEW L, NEW p, NEW q, NEW D, NEW S, NEW A, Orderly(p, L, D, S), WaitBlock(q, A)
  PROVE  Orderly(p \o q, L, D, S)
<1>1. Orderly(q, L, {}, S) /\ \A i \in 1..Len(q) : q[i].do # "arm"
  BY WaitsOrderly
<1>2. Orderly(p \o q, L, D \cup {}, S)
  BY <1>1, OrderlyJoin
<1>3. D \cup {} = D
  OBVIOUS
<1> QED
  BY <1>2, <1>3

(* Agents whose jobs J make the moves D, all apart.                        *)
Team(A, J, L, D) ==
  /\ \A a \in A : Job(J[a], L, D[a], FALSE)
  /\ \A a, b \in A : a = b \/ MovesAllApart(D[a], D[b])

All(A, D) == UNION {D[a] : a \in A}

LEMMA TeamOrderly ==
  ASSUME GroupAssumption, r >= 2, NEW L, Laid(L), NEW p, NEW A, NEW J, NEW D,
         Hands(p, A, J), Team(A, J, L, D)
  PROVE  Orderly(p, L, All(A, D), {})
<1>1. \A a \in A : Job(J[a], L, D[a], a \in {})
  BY DEF Team, Job
<1>2. ASSUME NEW a \in A, NEW b \in A, a # b PROVE WorksApart(J[a], J[b])
  <2>1. /\ AreMoves(L, D[a]) /\ AreMoves(L, D[b])
        /\ Sums(J[a]) \subseteq Moved(L, D[a]) /\ Sums(J[b]) \subseteq Moved(L, D[b])
        /\ MovesAllApart(D[a], D[b])
    BY <1>2 DEF Team, Job
  <2> QED
    BY <2>1, WorksOfMoves
<1> QED
  BY <1>1, <1>2, BlockOrderly DEF All

LEMMA RoundTidy ==
  ASSUME GroupAssumption, r >= 2, NEW L, Laid(L), NEW p, NEW q, NEW A, NEW J, NEW D,
         Hands(p, A, J), Team(A, J, L, D), WaitBlock(q, A)
  PROVE  Tidy(p \o q, L, All(A, D))
BY TeamOrderly, ThenWaits, RoundDrained DEF Tidy

LEMMA NextRoundTidy ==
  ASSUME GroupAssumption, r >= 2, NEW L, Laid(L), NEW v, NEW E, Tidy(v, L, E),
         NEW p, NEW q, NEW A, NEW J, NEW D,
         Hands(p, A, J), Team(A, J, L, D), WaitBlock(q, A), MovesAllAfter(E, All(A, D))
  PROVE  Tidy((v \o p) \o q, L, E \cup All(A, D))
<1>1. Tidy(v \o (p \o q), L, E \cup All(A, D))
  BY RoundTidy, TidyJoin
<1>2. IsSeq(v) /\ IsSeq(p) /\ IsSeq(q)
  BY TidySeq, HandsSeq, BlockSeqs
<1>3. (v \o p) \o q = v \o (p \o q)
  BY <1>2, JoinAssociates
<1> QED
  BY <1>1, <1>3

(* A second turn of agents that have not been waited for: it may only      *)
(* clash with the first turn of the same agent.                            *)
LEMMA SecondTurn ==
  ASSUME GroupAssumption, r >= 2, NEW L, Laid(L),
         NEW p, NEW A, NEW J, NEW D, Hands(p, A, J), Team(A, J, L, D),
         NEW q, NEW B, NEW K, NEW E, Hands(q, B, K), Team(B, K, L, E),
         \A a \in A, b \in B :
           IF a = b THEN MovesAllAfter(D[a], E[b]) ELSE MovesAllApart(D[a], E[b])
  PROVE  Orderly(p \o q, L, All(A, D) \cup All(B, E), {})
<1>1. ASSUME NEW h \in 1..Len(p), NEW i \in 1..Len(q)
      PROVE  Follows(p, q, h, i, {})
  <2>1. PICK a, b : a = p[h].agent /\ b = q[i].agent
    OBVIOUS
  <2>2. a \in A /\ b \in B /\ p[h].work = J[a] /\ q[i].work = K[b]
    BY <2>1 DEF Hands
  <2>3. /\ AreMoves(L, D[a]) /\ AreMoves(L, E[b])
        /\ Sums(J[a]) \subseteq Moved(L, D[a]) /\ Sums(K[b]) \subseteq Moved(L, E[b])
    BY <2>2 DEF Team, Job
  <2>4. CASE a = b
    <3>1. MovesAllAfter(D[a], E[b])
      BY <2>2, <2>4
    <3>2. WorksAfter(J[a], K[b])
      BY <2>3, <3>1, WorksOfMoves
    <3> QED
      BY <2>1, <2>2, <2>4, <3>2 DEF Follows
  <2>5. CASE a # b
    <3>1. MovesAllApart(D[a], E[b])
      BY <2>2, <2>5
    <3>2. WorksApart(J[a], K[b])
      BY <2>3, <3>1, WorksOfMoves
    <3> QED
      BY <2>2, <3>2 DEF Follows
  <2> QED
    BY <2>4, <2>5
<1> QED
  BY <1>1, TeamOrderly, OrderlyJoin

(* A program between the arms and the waits of other agents.               *)
LEMMA OrderlyBeside ==
  ASSUME GroupAssumption, r >= 2, NEW L, Laid(L), NEW p, NEW q, NEW D, NEW E, NEW S,
         Orderly(p, L, D, S), Orderly(q, L, E, {}), MovesAllApart(D, E)
  PROVE  Orderly(p \o q, L, D \cup E, S)
<1>1. ASSUME NEW h \in 1..Len(p), NEW i \in 1..Len(q), p[h].do = "arm", q[i].do = "arm"
      PROVE  Follows(p, q, h, i, S)
  <2>1. Sums(p[h].work) \subseteq Moved(L, D) /\ Sums(q[i].work) \subseteq Moved(L, E)
    BY <1>1 DEF Orderly, Fits
  <2>2. WorksApart(p[h].work, q[i].work)
    BY <2>1, WorksOfMoves DEF Orderly
  <2> QED
    BY <2>2 DEF Follows
<1> QED
  BY <1>1, OrderlyMore, OrderlyJoin

LEMMA FlattenTidy ==
  ASSUME GroupAssumption, r >= 2, NEW L, Laid(L), NEW m \in Nat, NEW s, s = [i \in 1..m |-> s[i]],
         NEW D, \A i \in 1..m : Tidy(s[i], L, D[i]),
         \A i, j \in 1..m : i < j => MovesAllAfter(D[i], D[j])
  PROVE  Tidy(FlattenSeq(s), L, All(1..m, D))
<1>1. CASE m = 0
  <2>1. All(1..m, D) = {}
    BY <1>1 DEF All
  <2> QED
    BY <1>1, <2>1, FlattenNothing, TidyNothing
<1>2. CASE m # 0
  <2>1. PICK f : Unfolds(f, s, m) /\ FlattenSeq(s) = f[m]
    BY <1>2, FlattenUnfolds
  <2>3. PICK G : G = {i \in 1..m : Tidy(f[i], L, All(1..i, D))}
    OBVIOUS
  <2>4. 1 \in G
    <3>1. 1 \in 1..m
      BY <1>2
    <3>2. All(1..1, D) = D[1]
      BY DEF All
    <3> QED
      BY <2>1, <2>3, <3>1, <3>2 DEF Unfolds
  <2>5. ASSUME NEW i \in 2..m, i - 1 \in G PROVE i \in G
    <3>1. i \in 1..m /\ i - 1 \in 1..m
      OBVIOUS
    <3>2. Tidy(f[i - 1], L, All(1..(i - 1), D)) /\ Tidy(s[i], L, D[i])
      BY <2>3, <2>5, <3>1
    <3>3. \A x : x \in 1..i <=> x = i \/ x \in 1..(i - 1)
      BY <3>1
    <3>4. All(1..i, D) = All(1..(i - 1), D) \cup D[i]
      BY <3>3 DEF All
    <3>5. \A x \in 1..(i - 1) : x \in 1..m /\ x < i
      BY <3>1
    <3>6. MovesAllAfter(All(1..(i - 1), D), D[i])
      BY <3>1, <3>5 DEF All, MovesAllAfter
    <3>7. Tidy(f[i - 1] \o s[i], L, All(1..i, D))
      BY <3>2, <3>4, <3>6, TidyJoin
    <3>8. f[i] = f[i - 1] \o s[i]
      BY <2>1 DEF Unfolds
    <3> QED
      BY <2>3, <3>1, <3>7, <3>8
  <2>6. m \in G
    BY <1>2, <2>4, <2>5, Climb
  <2> QED
    BY <2>1, <2>3, <2>6
<1> QED
  BY <1>1, <1>2

-----------------------------------------------------------------------------
(* Phases keeps the phases that are not empty, in their order: f tells     *)
(* which phase of w each phase of u is.                                    *)
Picks(f, u, w, m) ==
  /\ IsSeq(u) /\ Len(u) \in Nat
  /\ \A i \in 1..Len(u) : f[i] \in 1..m /\ u[i] = w[f[i]]
  /\ \A i, j \in 1..Len(u) : i < j => f[i] < f[j]
  /\ \A j \in 1..m : w[j] # {} => \E i \in 1..Len(u) : f[i] = j

LEMMA PicksOne ==
  ASSUME NEW w
  PROVE  \E f : Picks(f, IF w[1] = {} THEN <<>> ELSE <<w[1]>>, w, 1)
<1>1. PICK u : u = IF w[1] = {} THEN <<>> ELSE <<w[1]>>
  OBVIOUS
<1>2. PICK f : f = [i \in 1..1 |-> 1]
  OBVIOUS
<1>3. CASE w[1] = {}
  <2>1. u = <<>> /\ IsSeq(u) /\ Len(u) = 0
    BY <1>1, <1>3, EmptyIsSeq
  <2>2. Picks(f, u, w, 1)
    BY <1>3, <2>1 DEF Picks
  <2> QED
    BY <1>1, <2>2
<1>4. CASE w[1] # {}
  <2>1. IsSeq(u) /\ Len(u) = 1 /\ u[1] = w[1]
    BY <1>1, <1>4, OneIsSeq
  <2>2. f[1] = 1
    BY <1>2
  <2>3. Picks(f, u, w, 1)
    BY <2>1, <2>2 DEF Picks
  <2> QED
    BY <1>1, <2>3
<1> QED
  BY <1>3, <1>4

LEMMA PicksMore ==
  ASSUME NEW w, NEW m \in Nat, m >= 2, NEW f, NEW u, Picks(f, u, w, m - 1)
  PROVE  \E g : Picks(g, u \o (IF w[m] = {} THEN <<>> ELSE <<w[m]>>), w, m)
<1>1. PICK l : l = Len(u) /\ l \in Nat
  BY DEF Picks
<1>2. PICK q : q = IF w[m] = {} THEN <<>> ELSE <<w[m]>>
  OBVIOUS
<1>3. IsSeq(q) /\ IsSeq(u)
  BY <1>2, EmptyIsSeq, OneIsSeq DEF Picks
<1>4. PICK v : v = u \o q
  OBVIOUS
<1>5. Joins(v, u, q)
  BY <1>3, <1>4, Joined
<1>6. /\ \A i \in 1..l : f[i] \in 1..(m - 1) /\ u[i] = w[f[i]]
      /\ \A i, j \in 1..l : i < j => f[i] < f[j]
      /\ \A j \in 1..(m - 1) : w[j] # {} => \E i \in 1..l : f[i] = j
  BY <1>1 DEF Picks
<1>7. PICK g : g = [i \in 1..(l + 1) |-> IF i = l + 1 THEN m ELSE f[i]]
  OBVIOUS
<1>8. g[l + 1] = m /\ \A i \in 1..l : g[i] = f[i] /\ g[i] \in 1..(m - 1)
  BY <1>1, <1>6, <1>7
<1>9. CASE w[m] = {}
  <2>1. Len(q) = 0
    BY <1>2, <1>9, EmptyIsSeq
  <2>2. IsSeq(v) /\ Len(v) = l /\ \A i \in 1..l : v[i] = u[i]
    BY <1>1, <1>5, <2>1 DEF Joins
  <2>3. \A j \in 1..m : w[j] # {} => j \in 1..(m - 1)
    BY <1>9
  <2>4. Picks(f, v, w, m)
    BY <1>1, <1>6, <2>2, <2>3 DEF Picks
  <2> QED
    BY <1>2, <1>4, <2>4
<1>10. CASE w[m] # {}
  <2>1. Len(q) = 1 /\ q[1] = w[m]
    BY <1>2, <1>10, OneIsSeq
  <2>2. /\ IsSeq(v) /\ Len(v) = l + 1
        /\ \A i \in 1..l : v[i] = u[i]
        /\ v[l + 1] = w[m]
    BY <1>1, <1>5, <2>1 DEF Joins
  <2>3. \A i \in 1..(l + 1) : i = l + 1 \/ i \in 1..l
    BY <1>1
  <2>4. ASSUME NEW i \in 1..(l + 1) PROVE g[i] \in 1..m /\ v[i] = w[g[i]]
    BY <1>6, <1>8, <2>2, <2>3
  <2>5. ASSUME NEW i \in 1..(l + 1), NEW j \in 1..(l + 1), i < j PROVE g[i] < g[j]
    <3>1. i \in 1..l
      BY <1>1, <2>5
    <3>2. CASE j = l + 1
      BY <1>8, <3>1, <3>2
    <3>3. CASE j \in 1..l
      BY <1>6, <1>8, <2>5, <3>1, <3>3
    <3> QED
      BY <2>3, <3>2, <3>3
  <2>6. ASSUME NEW j \in 1..m, w[j] # {} PROVE \E i \in 1..(l + 1) : g[i] = j
    <3>1. CASE j = m
      <4>1. l + 1 \in 1..(l + 1)
        BY <1>1
      <4> QED
        BY <1>8, <3>1, <4>1
    <3>2. CASE j # m
      <4>1. j \in 1..(m - 1)
        BY <3>2
      <4>2. PICK i \in 1..l : f[i] = j
        BY <1>6, <2>6, <4>1
      <4>3. i \in 1..(l + 1)
        BY <1>1
      <4> QED
        BY <1>8, <4>2, <4>3
    <3> QED
      BY <3>1, <3>2
  <2>7. Picks(g, v, w, m)
    BY <1>1, <2>2, <2>4, <2>5, <2>6 DEF Picks
  <2> QED
    BY <1>2, <1>4, <2>7
<1> QED
  BY <1>9, <1>10

LEMMA PhasesPick ==
  ASSUME NEW w, IsSeq(w)
  PROVE  \E f : Picks(f, Phases(w), w, Len(w))
<1>1. PICK m : m = Len(w) /\ m \in Nat /\ DOMAIN w = 1..m
  BY IsSeqLen
<1>2. PICK s : s = [i \in 1..m |-> IF w[i] = {} THEN <<>> ELSE <<w[i]>>]
  OBVIOUS
<1>3. Phases(w) = FlattenSeq(s)
  BY <1>1, <1>2 DEF Phases
<1>4. s = [i \in 1..m |-> s[i]]
  BY <1>2
<1>5. CASE m = 0
  <2>1. Phases(w) = <<>>
    BY <1>3, <1>4, <1>5, FlattenNothing
  <2>2. Picks(<<>>, <<>>, w, 0)
    BY EmptyIsSeq DEF Picks
  <2> QED
    BY <1>1, <1>5, <2>1, <2>2
<1>6. CASE m # 0
  <2>1. PICK h : Unfolds(h, s, m) /\ FlattenSeq(s) = h[m]
    BY <1>1, <1>4, <1>6, FlattenUnfolds
  <2>2. PICK G : G = {i \in 1..m : \E f : Picks(f, h[i], w, i)}
    OBVIOUS
  <2>3. 1 \in G
    <3>1. 1 \in 1..m
      BY <1>1, <1>6
    <3>2. h[1] = IF w[1] = {} THEN <<>> ELSE <<w[1]>>
      BY <1>2, <2>1, <3>1 DEF Unfolds
    <3> QED
      BY <2>2, <3>1, <3>2, PicksOne
  <2>4. ASSUME NEW i \in 2..m, i - 1 \in G PROVE i \in G
    <3>1. i \in 1..m /\ i \in Nat /\ i >= 2
      BY <1>1
    <3>2. h[i] = h[i - 1] \o (IF w[i] = {} THEN <<>> ELSE <<w[i]>>)
      BY <1>2, <2>1, <3>1 DEF Unfolds
    <3>3. PICK f : Picks(f, h[i - 1], w, i - 1)
      BY <2>2, <2>4
    <3>4. \E g : Picks(g, h[i], w, i)
      BY <3>1, <3>2, <3>3, PicksMore
    <3> QED
      BY <2>2, <3>1, <3>4
  <2>5. m \in G
    BY <1>1, <1>6, <2>3, <2>4, Climb
  <2> QED
    BY <1>1, <1>3, <2>1, <2>2, <2>5
<1> QED
  BY <1>5, <1>6

(* Which operations come before which.                                     *)
Prec(w, x, y) == \E i, j \in 1..Len(w) : i < j /\ x \in w[i] /\ y \in w[j]
Once(w) == \A i, j \in 1..Len(w) : \A o \in w[i] : o \in w[j] => i = j

(* Armed work does what the program says, in that order.                   *)
LEMMA PhasesKeep ==
  ASSUME NEW w, IsSeq(w)
  PROVE  /\ IsSeq(Phases(w)) /\ Does(Phases(w)) = Does(w)
         /\ Fine(w) => Fine(Phases(w))
         /\ Once(w) => Once(Phases(w))
         /\ \A x, y : Prec(w, x, y) => Prec(Phases(w), x, y)
<1>1. PICK f : Picks(f, Phases(w), w, Len(w))
  BY PhasesPick
<1>2. PICK u, l, m : u = Phases(w) /\ l = Len(u) /\ m = Len(w)
  OBVIOUS
<1>3. /\ IsSeq(u) /\ l \in Nat
      /\ \A i \in 1..l : f[i] \in 1..m /\ u[i] = w[f[i]]
      /\ \A i, j \in 1..l : i < j => f[i] < f[j]
      /\ \A j \in 1..m : w[j] # {} => \E i \in 1..l : f[i] = j
  BY <1>1, <1>2 DEF Picks
<1>4. m \in Nat
  BY <1>2, IsSeqLen
<1>5. ASSUME NEW i \in 1..l, NEW j \in 1..l, f[i] = f[j] PROVE i = j
  <2>1. ~(i < j) /\ ~(j < i)
    BY <1>3, <1>4, <1>5
  <2> QED
    BY <1>3, <2>1
<1>6. ASSUME NEW i \in 1..l, NEW j \in 1..l, f[i] < f[j] PROVE i < j
  <2>1. i # j /\ ~(j < i)
    BY <1>3, <1>4, <1>6
  <2> QED
    BY <1>3, <2>1
<1>7. ASSUME NEW x, NEW j \in 1..m, x \in w[j] PROVE \E i \in 1..l : f[i] = j /\ x \in u[i]
  BY <1>3, <1>7
<1>8. Does(u) = Does(w)
  BY <1>2, <1>3, <1>7 DEF Does
<1>9. ASSUME Fine(w) PROVE Fine(u)
  BY <1>2, <1>3, <1>9 DEF Fine
<1>10. ASSUME Once(w) PROVE Once(u)
  BY <1>2, <1>3, <1>5, <1>10 DEF Once
<1>11. ASSUME NEW x, NEW y, Prec(w, x, y) PROVE Prec(u, x, y)
  <2>1. PICK i \in 1..m, j \in 1..m : i < j /\ x \in w[i] /\ y \in w[j]
    BY <1>2, <1>11 DEF Prec
  <2>2. PICK g \in 1..l : f[g] = i /\ x \in u[g]
    BY <1>7, <2>1
  <2>3. PICK h \in 1..l : f[h] = j /\ y \in u[h]
    BY <1>7, <2>1
  <2>4. g < h
    BY <1>6, <2>1, <2>2, <2>3
  <2> QED
    BY <1>2, <2>2, <2>3, <2>4 DEF Prec
<1> QED
  BY <1>2, <1>3, <1>8, <1>9, <1>10, <1>11

(* What is left of work v when its first phase has lost operation o.       *)
Left(v, o) == IF Head(v) = {o} THEN Tail(v) ELSE <<Head(v) \ {o}>> \o Tail(v)

Shrunk(u, v, o, d) ==
  /\ IsSeq(u) /\ d \in {0, 1} /\ Len(u) \in Nat /\ Len(v) \in Nat /\ Len(v) = Len(u) + d
  /\ \A i \in 1..Len(u) : u[i] \subseteq v[i + d]
  /\ \A i \in 1..Len(v) : \A x \in v[i] : (x = o /\ i = 1) \/ (i - d \in 1..Len(u) /\ x \in u[i - d])
  /\ d = 0 => o \notin u[1]

LEMMA LeftShrunk ==
  ASSUME NEW v, IsSeq(v), v # <<>>, NEW o, o \in Head(v)
  PROVE  \E d : Shrunk(Left(v, o), v, o, d)
<1>1. PICK u, l : u = Left(v, o) /\ l = Len(v)
  OBVIOUS
<1>2. /\ IsSeq(Tail(v)) /\ l \in Nat /\ l >= 1
      /\ Head(v) = v[1] /\ Len(Tail(v)) = l - 1
      /\ \A i \in 1..(l - 1) : Tail(v)[i] = v[i + 1]
  BY <1>1, Tails
<1>3. CASE Head(v) = {o}
  <2>1. u = Tail(v)
    BY <1>1, <1>3 DEF Left
  <2>2. \A i \in 1..l : i = 1 \/ (i - 1 \in 1..(l - 1) /\ (i - 1) + 1 = i)
    BY <1>2
  <2>3. Len(u) = l - 1 /\ l = Len(u) + 1
    BY <1>2, <2>1
  <2>4. \A i \in 1..Len(u) : u[i] \subseteq v[i + 1]
    BY <1>2, <2>1
  <2>5. ASSUME NEW i \in 1..l, NEW x \in v[i]
        PROVE  (x = o /\ i = 1) \/ (i - 1 \in 1..Len(u) /\ x \in u[i - 1])
    <3>1. CASE i = 1
      BY <1>2, <1>3, <2>5, <3>1
    <3>2. CASE i # 1
      BY <1>2, <2>1, <2>2, <2>3, <2>5, <3>2
    <3> QED
      BY <3>1, <3>2
  <2>6. Shrunk(u, v, o, 1)
    BY <1>1, <1>2, <2>1, <2>3, <2>4, <2>5 DEF Shrunk
  <2> QED
    BY <1>1, <2>6
<1>4. CASE Head(v) # {o}
  <2>1. PICK h : h = Head(v) \ {o}
    OBVIOUS
  <2>2. u = <<h>> \o Tail(v)
    BY <1>1, <1>4, <2>1 DEF Left
  <2>3. IsSeq(<<h>>) /\ Len(<<h>>) = 1 /\ <<h>>[1] = h
    BY OneIsSeq
  <2>4. Joins(u, <<h>>, Tail(v))
    BY <1>2, <2>2, <2>3, Joined
  <2>5. IsSeq(u) /\ Len(u) = l /\ u[1] = h /\ \A i \in 1..(l - 1) : u[1 + i] = v[i + 1]
    BY <1>2, <2>3, <2>4 DEF Joins
  <2>6. \A i \in 1..l : i = 1 \/ (i - 1 \in 1..(l - 1) /\ 1 + (i - 1) = i /\ (i - 1) + 1 = i)
    BY <1>2
  <2>7. ASSUME NEW i \in 1..l PROVE u[i] = IF i = 1 THEN h ELSE v[i]
    BY <2>5, <2>6
  <2>8. ASSUME NEW i \in 1..l PROVE i + 0 = i /\ i - 0 = i
    BY <1>2
  <2>9. \A i \in 1..l : u[i] \subseteq v[i + 0]
    BY <1>2, <2>1, <2>7, <2>8
  <2>10. ASSUME NEW i \in 1..l, NEW x \in v[i]
         PROVE  (x = o /\ i = 1) \/ (i - 0 \in 1..l /\ x \in u[i - 0])
    BY <1>2, <2>1, <2>7, <2>8, <2>10
  <2>11. l = Len(u) + 0
    BY <1>2, <2>5
  <2>12. Shrunk(u, v, o, 0)
    BY <1>1, <1>2, <2>1, <2>5, <2>9, <2>10, <2>11 DEF Shrunk
  <2> QED
    BY <1>1, <2>12
<1> QED
  BY <1>3, <1>4

LEMMA LeftKeeps ==
  ASSUME NEW v, IsSeq(v), v # <<>>, NEW o, o \in Head(v)
  PROVE  /\ IsSeq(Left(v, o)) /\ Does(Left(v, o)) \subseteq Does(v)
         /\ Does(v) \subseteq Does(Left(v, o)) \cup {o}
         /\ Fine(v) => Fine(Left(v, o))
         /\ Once(v) => Once(Left(v, o)) /\ o \notin Does(Left(v, o))
         /\ \A x, y \in Does(Left(v, o)) : Once(v) /\ Prec(v, x, y) => Prec(Left(v, o), x, y)
<1>1. PICK u, l, m : u = Left(v, o) /\ l = Len(u) /\ m = Len(v)
  OBVIOUS
<1>2. PICK d : Shrunk(u, v, o, d)
  BY <1>1, LeftShrunk
<1>3. /\ IsSeq(u) /\ d \in {0, 1} /\ l \in Nat /\ m \in Nat /\ m = l + d
      /\ \A i \in 1..l : u[i] \subseteq v[i + d]
      /\ \A i \in 1..m : \A x \in v[i] : (x = o /\ i = 1) \/ (i - d \in 1..l /\ x \in u[i - d])
      /\ d = 0 => o \notin u[1]
  BY <1>1, <1>2 DEF Shrunk
<1>4. \A i \in 1..l : i + d \in 1..m
  BY <1>3
<1>5. Does(u) \subseteq Does(v) /\ Does(v) \subseteq Does(u) \cup {o}
  BY <1>1, <1>3, <1>4 DEF Does
<1>6. \A i, j \in 1..l : (i < j => i + d < j + d) /\ (i + d = j + d => i = j)
  BY <1>3
<1>7. ASSUME Fine(v) PROVE Fine(u)
  <2> SUFFICES ASSUME NEW i \in 1..l, NEW j \in 1..l, NEW x \in u[i], NEW y \in u[j]
               PROVE  (i < j => After(x, y)) /\ (i = j /\ x # y => Apart(x, y))
    BY <1>1, <1>3 DEF Fine
  <2>1. i + d \in 1..m /\ j + d \in 1..m /\ x \in v[i + d] /\ y \in v[j + d]
    BY <1>3, <1>4
  <2> QED
    BY <1>1, <1>6, <1>7, <2>1 DEF Fine
<1>8. ASSUME Once(v) PROVE Once(u) /\ o \notin Does(u)
  <2>1. Once(u)
    <3> SUFFICES ASSUME NEW i \in 1..l, NEW j \in 1..l, NEW x \in u[i], x \in u[j] PROVE i = j
      BY <1>1 DEF Once
    <3>1. i + d \in 1..m /\ j + d \in 1..m /\ x \in v[i + d] /\ x \in v[j + d]
      BY <1>3, <1>4
    <3>2. i + d = j + d
      BY <1>1, <1>8, <3>1 DEF Once
    <3> QED
      BY <1>6, <3>2
  <2>2. ASSUME NEW i \in 1..l, o \in u[i] PROVE FALSE
    <3>1. i + d \in 1..m /\ o \in v[i + d]
      BY <1>3, <1>4, <2>2
    <3>2. o \in v[1] /\ 1 \in 1..m
      BY <1>1, <1>3, Tails
    <3>3. i + d = 1
      BY <1>1, <1>8, <3>1, <3>2 DEF Once
    <3>4. i = 1 /\ d = 0
      BY <1>3, <3>3
    <3> QED
      BY <1>3, <2>2, <3>4
  <2> QED
    BY <1>1, <2>1, <2>2 DEF Does
<1>9. ASSUME NEW x \in Does(u), NEW y \in Does(u), Once(v), Prec(v, x, y) PROVE Prec(u, x, y)
  <2>1. PICK i \in 1..m, j \in 1..m : i < j /\ x \in v[i] /\ y \in v[j]
    BY <1>1, <1>9 DEF Prec
  <2>2. x # o /\ y # o
    BY <1>8, <1>9
  <2>3. i - d \in 1..l /\ j - d \in 1..l /\ x \in u[i - d] /\ y \in u[j - d]
    BY <1>3, <2>1, <2>2
  <2>4. i - d < j - d
    BY <1>3, <2>1
  <2> QED
    BY <1>1, <2>3, <2>4 DEF Prec
<1> QED
  BY <1>1, <1>3, <1>5, <1>7, <1>8, <1>9

-----------------------------------------------------------------------------
(* What holds while a program runs: of the work t that agents have and the *)
(* arms that p still holds, what clashes is in order.                      *)
Suits(w, O, talks) ==
  Fine(w) /\ Sums(w) \subseteq O /\ (talks \/ Does(w) = Sums(w))

(* May arm i of p come while agent a has work v?                           *)
Ahead(v, p, a, i, S) ==
  \/ WorksApart(v, p[i].work)
  \/ a \in S /\ p[i].agent \in S /\ a # p[i].agent
  \/ WorksAfter(v, p[i].work) /\ (a = p[i].agent \/ Awaits(p, a, 1, i - 1))

Beside(a, v, b, w, S) == a = b \/ (a \in S /\ b \in S) \/ WorksApart(v, w)

Arranged(O, S, t, p) ==
  /\ IsSeq(p) /\ InOrder(p, S)
  /\ \A i \in 1..Len(p) : p[i].do = "arm" => Suits(p[i].work, O, p[i].agent \in S)
  /\ \A a \in DOMAIN t : Suits(t[a], O, a \in S)
  /\ \A a, b \in DOMAIN t : Beside(a, t[a], b, t[b], S)
  /\ \A a \in DOMAIN t : \A i \in 1..Len(p) : p[i].do = "arm" => Ahead(t[a], p, a, i, S)

LEMMA ApartEither == \A x, y : Apart(x, y) <=> Apart(y, x)
BY DEF Apart, Clash

LEMMA WorksApartEither == \A v, w : WorksApart(v, w) <=> WorksApart(w, v)
BY ApartEither DEF WorksApart

LEMMA ApartIsAfter == \A v, w : WorksApart(v, w) => WorksAfter(v, w)
BY DEF WorksApart, WorksAfter, Apart, After

LEMMA FewerApart ==
  ASSUME NEW v, NEW w, NEW u, Does(u) \subseteq Does(v)
  PROVE  /\ WorksApart(v, w) => WorksApart(u, w)
         /\ WorksAfter(v, w) => WorksAfter(u, w)
BY DEF WorksApart, WorksAfter

LEMMA NothingApart == \A w : WorksApart(<<>>, w) /\ Does(<<>>) = {}
BY EmptyIsSeq DEF WorksApart, Does

LEMMA JoinSuits ==
  ASSUME NEW v, NEW w, NEW O, NEW k, Suits(v, O, k), Suits(w, O, k), WorksAfter(v, w)
  PROVE  Suits(v \o w, O, k) /\ Does(v \o w) = Does(v) \cup Does(w)
<1>1. PICK u, l, m : u = v \o w /\ l = Len(v) /\ m = Len(w)
  OBVIOUS
<1>2. Joins(u, v, w)
  BY <1>1, Joined DEF Suits, Fine
<1>3. /\ l \in Nat /\ m \in Nat /\ Len(u) = l + m /\ IsSeq(u)
      /\ \A i \in 1..l : u[i] = v[i]
      /\ \A i \in 1..m : u[l + i] = w[i]
      /\ \A i \in 1..Len(u) : i <= l \/ \E j \in 1..m : i = l + j
  BY <1>1, <1>2 DEF Joins
<1>4. ASSUME NEW i \in 1..Len(u)
      PROVE  \/ i \in 1..l /\ u[i] = v[i]
             \/ \E j \in 1..m : i = l + j /\ u[i] = w[j]
  <2>1. CASE i <= l
    BY <1>3, <2>1
  <2>2. CASE \E j \in 1..m : i = l + j
    BY <1>3, <2>2
  <2> QED
    BY <1>3, <2>1, <2>2
<1>5. \A i \in 1..l : i \in 1..Len(u)
  BY <1>3
<1>6. \A i \in 1..m : l + i \in 1..Len(u)
  BY <1>3
<1>7. Does(u) = Does(v) \cup Does(w)
  <2>1. Does(u) \subseteq Does(v) \cup Does(w)
    BY <1>1, <1>4 DEF Does
  <2>2. Does(v) \subseteq Does(u)
    BY <1>1, <1>3, <1>5 DEF Does
  <2>3. Does(w) \subseteq Does(u)
    <3> SUFFICES ASSUME NEW i \in 1..m, NEW x \in w[i] PROVE x \in Does(u)
      BY <1>1 DEF Does
    <3>1. x \in u[l + i] /\ l + i \in 1..Len(u)
      BY <1>3, <1>6
    <3> QED
      BY <3>1 DEF Does
  <2> QED
    BY <2>1, <2>2, <2>3
<1>8. Fine(u)
  <2> SUFFICES ASSUME NEW i \in 1..Len(u), NEW j \in 1..Len(u), NEW x \in u[i], NEW y \in u[j]
               PROVE  (i < j => After(x, y)) /\ (i = j /\ x # y => Apart(x, y))
    BY <1>3 DEF Fine
  <2>1. CASE i \in 1..l /\ u[i] = v[i] /\ j \in 1..l /\ u[j] = v[j]
    BY <1>1, <2>1 DEF Suits, Fine
  <2>2. CASE /\ \E k1 \in 1..m : i = l + k1 /\ u[i] = w[k1]
             /\ \E k1 \in 1..m : j = l + k1 /\ u[j] = w[k1]
    <3>1. PICK g \in 1..m, h \in 1..m : i = l + g /\ u[i] = w[g] /\ j = l + h /\ u[j] = w[h]
      BY <2>2
    <3>2. (i < j => g < h) /\ (i = j => g = h)
      BY <1>3, <3>1
    <3>3. (g < h => After(x, y)) /\ (g = h /\ x # y => Apart(x, y))
      BY <1>1, <3>1 DEF Suits, Fine
    <3> QED
      BY <3>2, <3>3
  <2>3. CASE i \in 1..l /\ u[i] = v[i] /\ \E k1 \in 1..m : j = l + k1 /\ u[j] = w[k1]
    <3>1. x \in Does(v) /\ y \in Does(w)
      BY <1>1, <2>3 DEF Does
    <3>2. i # j
      BY <1>3, <2>3
    <3> QED
      BY <3>1, <3>2 DEF WorksAfter
  <2>4. CASE j \in 1..l /\ \E k1 \in 1..m : i = l + k1
    <3>1. ~(i < j) /\ i # j
      BY <1>3, <2>4
    <3> QED
      BY <3>1
  <2> QED
    BY <1>4, <2>1, <2>2, <2>3, <2>4
<1> QED
  BY <1>1, <1>7, <1>8 DEF Suits, Sums

LEMMA PhasesSuit ==
  ASSUME NEW w, NEW O, NEW k, Suits(w, O, k)
  PROVE  Suits(Phases(w), O, k) /\ Does(Phases(w)) = Does(w)
BY PhasesKeep DEF Suits, Sums, Fine

LEMMA LeftSuits ==
  ASSUME NEW v, NEW O, NEW k, Suits(v, O, k), v # <<>>, NEW o, o \in Head(v)
  PROVE  Suits(Left(v, o), O, k) /\ Does(Left(v, o)) \subseteq Does(v)
<1>1. IsSeq(v)
  BY DEF Suits, Fine
<1>2. Does(Left(v, o)) \subseteq Does(v) /\ Fine(Left(v, o))
  BY <1>1, LeftKeeps DEF Suits
<1> QED
  BY <1>2 DEF Suits, Sums

(* A wait for an agent that has drained, or a wait further on.             *)
LEMMA AheadTail ==
  ASSUME NEW p, IsSeq(p), p # <<>>, NEW S, NEW a, NEW v, NEW i \in 1..(Len(p) - 1),
         Ahead(v, p, a, i + 1, S),
         Head(p).do = "arm" \/ Head(p).agent # a
  PROVE  Ahead(v, Tail(p), a, i, S)
<1>1. p[1] = Head(p) /\ Tail(p)[i] = p[i + 1] /\ Len(p) \in Nat
  BY Tails
<1>2. ASSUME Awaits(p, a, 1, (i + 1) - 1) PROVE Awaits(Tail(p), a, 1, i - 1)
  <2>1. PICK k \in 1..((i + 1) - 1) : p[k].do = "wait" /\ p[k].agent = a
    BY <1>2 DEF Awaits
  <2>2. k # 1
    BY <1>1, <2>1
  <2>3. k \in (1 + 1)..((i - 1) + 1)
    BY <2>2
  <2>4. Awaits(p, a, 1 + 1, (i - 1) + 1)
    BY <2>1, <2>3 DEF Awaits
  <2>5. 1 \in Nat /\ 1 >= 1 /\ i - 1 \in Int /\ i - 1 <= Len(p) - 1
    BY <1>1
  <2> QED
    BY <2>4, <2>5, AwaitsTail
<1> QED
  BY <1>1, <1>2 DEF Ahead

LEMMA InOrderTail ==
  ASSUME NEW p, IsSeq(p), p # <<>>, NEW S, InOrder(p, S)
  PROVE  InOrder(Tail(p), S)
<1>1. /\ Len(p) \in Nat /\ Len(Tail(p)) = Len(p) - 1
      /\ \A i \in 1..(Len(p) - 1) : Tail(p)[i] = p[i + 1]
  BY Tails
<1> SUFFICES ASSUME NEW h \in 1..(Len(p) - 1), NEW i \in 1..(Len(p) - 1), h < i,
                    Tail(p)[h].do = "arm", Tail(p)[i].do = "arm"
             PROVE  Turn(Tail(p), h, i, S)
  BY <1>1 DEF InOrder
<1>2. h + 1 \in 1..Len(p) /\ i + 1 \in 1..Len(p) /\ h + 1 < i + 1
  BY <1>1
<1>3. Tail(p)[h] = p[h + 1] /\ Tail(p)[i] = p[i + 1]
  BY <1>1
<1>4. Turn(p, h + 1, i + 1, S)
  BY <1>2, <1>3 DEF InOrder
<1>5. ASSUME NEW a, Awaits(p, a, (h + 1) + 1, (i + 1) - 1) PROVE Awaits(Tail(p), a, h + 1, i - 1)
  <2>1. h + 1 \in Nat /\ h + 1 >= 1 /\ i - 1 \in Int /\ i - 1 <= Len(p) - 1
        /\ (i + 1) - 1 = (i - 1) + 1
    BY <1>1
  <2> QED
    BY <1>5, <2>1, AwaitsTail
<1> QED
  BY <1>3, <1>4, <1>5 DEF Turn

LEMMA WaitArranged ==
  ASSUME NEW O, NEW S, NEW t, NEW p, Arranged(O, S, t, p), p # <<>>,
         t[Head(p).agent] = <<>>
  PROVE  Arranged(O, S, t, Tail(p))
<1>1. IsSeq(p)
  BY DEF Arranged
<1>2. /\ IsSeq(Tail(p)) /\ Len(p) \in Nat /\ Len(Tail(p)) = Len(p) - 1
      /\ \A i \in 1..(Len(p) - 1) : Tail(p)[i] = p[i + 1]
  BY <1>1, Tails
<1>3. \A i \in 1..(Len(p) - 1) : i + 1 \in 1..Len(p)
  BY <1>2
<1>4. InOrder(Tail(p), S)
  BY <1>1, InOrderTail DEF Arranged
<1>5. ASSUME NEW i \in 1..(Len(p) - 1), Tail(p)[i].do = "arm"
      PROVE  Suits(Tail(p)[i].work, O, Tail(p)[i].agent \in S)
  BY <1>2, <1>3, <1>5 DEF Arranged
<1>6. ASSUME NEW a \in DOMAIN t, NEW i \in 1..(Len(p) - 1), Tail(p)[i].do = "arm"
      PROVE  Ahead(t[a], Tail(p), a, i, S)
  <2>1. CASE Head(p).agent = a
    BY <2>1, NothingApart DEF Ahead
  <2>2. CASE Head(p).agent # a
    <3>1. Ahead(t[a], p, a, i + 1, S)
      BY <1>2, <1>3, <1>6 DEF Arranged
    <3> QED
      BY <1>1, <2>2, <3>1, AheadTail
  <2> QED
    BY <2>1, <2>2
<1> QED
  BY <1>2, <1>4, <1>5, <1>6 DEF Arranged

(* Work v handed to the agent of the head arm, behind what it has.         *)
LEMMA AheadOfBoth ==
  ASSUME NEW p, IsSeq(p), p # <<>>, NEW S, NEW v, NEW w, NEW u,
         Head(p).do = "arm", w = Head(p).work, Does(u) = Does(v) \cup Does(w),
         NEW i \in 1..(Len(p) - 1),
         Ahead(v, p, Head(p).agent, i + 1, S), Turn(p, 1, i + 1, S)
  PROVE  Ahead(u, Tail(p), Head(p).agent, i, S)
<1>1. PICK a, x : a = Head(p).agent /\ x = p[i + 1].work
  OBVIOUS
<1>2. p[1] = Head(p) /\ Len(p) \in Nat
  BY Tails
<1>3. CASE a \in S /\ p[i + 1].agent \in S /\ a # p[i + 1].agent
  <2>1. Ahead(u, p, a, i + 1, S)
    BY <1>3 DEF Ahead
  <2> QED
    BY <1>1, <2>1, AheadTail
<1>4. CASE ~(a \in S /\ p[i + 1].agent \in S /\ a # p[i + 1].agent)
  <2>1. \/ WorksApart(v, x)
        \/ WorksAfter(v, x) /\ (a = p[i + 1].agent \/ Awaits(p, a, 1, (i + 1) - 1))
    BY <1>1, <1>4 DEF Ahead
  <2>2. \/ WorksApart(w, x)
        \/ WorksAfter(w, x) /\ (a = p[i + 1].agent \/ Awaits(p, a, 1 + 1, (i + 1) - 1))
    BY <1>1, <1>2, <1>4 DEF Turn
  <2>3. WorksApart(v, x) /\ WorksApart(w, x) => WorksApart(u, x)
    BY DEF WorksApart
  <2>4. WorksAfter(v, x) /\ WorksAfter(w, x) => WorksAfter(u, x)
    BY DEF WorksAfter
  <2>5. Awaits(p, a, 1 + 1, (i + 1) - 1) => Awaits(p, a, 1, (i + 1) - 1)
    BY DEF Awaits
  <2>6. WorksAfter(v, x) /\ WorksAfter(w, x)
    BY <2>1, <2>2, ApartIsAfter
  <2>7. Ahead(u, p, a, i + 1, S)
    BY <1>1, <2>1, <2>2, <2>3, <2>4, <2>5, <2>6 DEF Ahead
  <2> QED
    BY <1>1, <2>7, AheadTail
<1> QED
  BY <1>3, <1>4

Arms(t, u, p, c) ==
  /\ p # <<>> /\ Head(p).do = "arm" /\ c = Head(p).agent /\ c \in DOMAIN t
  /\ u = [t EXCEPT ![c] = @ \o Phases(Head(p).work)]

LEMMA ArmArranged ==
  ASSUME NEW O, NEW S, NEW t, NEW p, Arranged(O, S, t, p), NEW u, NEW c, Arms(t, u, p, c)
  PROVE  Arranged(O, S, u, Tail(p)) /\ Does(u[c]) = Does(t[c]) \cup Does(Head(p).work)
<1> USE DEF Arms
<1>1. IsSeq(p)
  BY DEF Arranged
<1>2. PICK w : w = Head(p).work
  OBVIOUS
<1>3. /\ IsSeq(Tail(p)) /\ Len(p) \in Nat /\ Len(Tail(p)) = Len(p) - 1 /\ Len(p) >= 1
      /\ \A i \in 1..(Len(p) - 1) : Tail(p)[i] = p[i + 1]
      /\ p[1] = Head(p)
  BY <1>1, Tails
<1>4. 1 \in 1..Len(p) /\ \A i \in 1..(Len(p) - 1) : i + 1 \in 1..Len(p) /\ 1 < i + 1
  BY <1>3
<1>5. Suits(w, O, c \in S) /\ Suits(t[c], O, c \in S)
  BY <1>2, <1>3, <1>4 DEF Arranged
<1>6. ASSUME NEW a \in DOMAIN t
      PROVE  \/ WorksApart(t[a], w)
             \/ a \in S /\ c \in S /\ a # c
             \/ WorksAfter(t[a], w) /\ a = c
  <2>1. Ahead(t[a], p, a, 1, S)
    BY <1>3, <1>4 DEF Arranged
  <2>2. ~Awaits(p, a, 1, 1 - 1)
    BY DEF Awaits
  <2> QED
    BY <1>2, <1>3, <2>1, <2>2 DEF Ahead
<1>7. Suits(Phases(w), O, c \in S) /\ Does(Phases(w)) = Does(w)
  BY <1>5, PhasesSuit
<1>8. WorksAfter(t[c], Phases(w))
  <2>1. WorksAfter(t[c], w)
    BY <1>6, ApartIsAfter
  <2> QED
    BY <1>7, <2>1 DEF WorksAfter
<1>9. /\ DOMAIN u = DOMAIN t /\ u[c] = t[c] \o Phases(w)
      /\ \A a \in DOMAIN t : a # c => u[a] = t[a]
  BY <1>2
<1>10. Suits(u[c], O, c \in S) /\ Does(u[c]) = Does(t[c]) \cup Does(w)
  <2>1. PICK v, x, k : v = t[c] /\ x = Phases(w) /\ k = (c \in S)
    OBVIOUS
  <2>2. Suits(v, O, k) /\ Suits(x, O, k) /\ WorksAfter(v, x)
    BY <1>5, <1>7, <1>8, <2>1
  <2>3. Suits(v \o x, O, k) /\ Does(v \o x) = Does(v) \cup Does(x)
    BY <2>2, JoinSuits
  <2> QED
    BY <1>7, <1>9, <2>1, <2>3
<1>11. InOrder(Tail(p), S)
  BY <1>1, InOrderTail DEF Arranged
<1>12. ASSUME NEW i \in 1..(Len(p) - 1), Tail(p)[i].do = "arm"
       PROVE  Suits(Tail(p)[i].work, O, Tail(p)[i].agent \in S)
  BY <1>3, <1>4, <1>12 DEF Arranged
<1>13. ASSUME NEW a \in DOMAIN t PROVE Suits(u[a], O, a \in S)
  BY <1>9, <1>10, <1>13 DEF Arranged
<1>14. ASSUME NEW a \in DOMAIN t, a # c PROVE (a \in S /\ c \in S) \/ WorksApart(t[a], u[c])
  <2>1. (a \in S /\ c \in S) \/ WorksApart(t[a], t[c])
    BY <1>14 DEF Arranged, Beside
  <2>2. (a \in S /\ c \in S) \/ WorksApart(t[a], w)
    BY <1>6, <1>14
  <2> QED
    BY <1>10, <2>1, <2>2 DEF WorksApart
<1>15. ASSUME NEW a \in DOMAIN t, NEW b \in DOMAIN t PROVE Beside(a, u[a], b, u[b], S)
  <2>1. CASE a # c /\ b # c
    BY <1>9, <2>1 DEF Arranged
  <2>2. CASE a = c /\ b # c
    BY <1>9, <1>14, <2>2, WorksApartEither DEF Beside
  <2>3. CASE a # c /\ b = c
    BY <1>9, <1>14, <2>3 DEF Beside
  <2>4. CASE a = c /\ b = c
    BY <2>4 DEF Beside
  <2> QED
    BY <2>1, <2>2, <2>3, <2>4
<1>16. ASSUME NEW a \in DOMAIN t, NEW i \in 1..(Len(p) - 1), Tail(p)[i].do = "arm"
       PROVE  Ahead(u[a], Tail(p), a, i, S)
  <2>1. Ahead(t[a], p, a, i + 1, S)
    BY <1>3, <1>4, <1>16 DEF Arranged
  <2>2. CASE a # c
    BY <1>1, <1>9, <2>1, <2>2, AheadTail
  <2>3. CASE a = c
    <3>1. Turn(p, 1, i + 1, S)
      BY <1>3, <1>4, <1>16 DEF Arranged, InOrder
    <3> QED
      BY <1>1, <1>2, <1>10, <2>1, <2>3, <3>1, AheadOfBoth
  <2> QED
    BY <2>2, <2>3
<1> QED
  BY <1>2, <1>3, <1>9, <1>10, <1>11, <1>12, <1>13, <1>15, <1>16 DEF Arranged

LEMMA StepArranged ==
  ASSUME NEW O, NEW S, NEW t, NEW p, Arranged(O, S, t, p),
         NEW c \in DOMAIN t, t[c] # <<>>, NEW o, o \in Head(t[c]),
         NEW u, u = [t EXCEPT ![c] = Left(t[c], o)]
  PROVE  Arranged(O, S, u, p)
<1>1. /\ DOMAIN u = DOMAIN t /\ u[c] = Left(t[c], o)
      /\ \A a \in DOMAIN t : a # c => u[a] = t[a]
  OBVIOUS
<1>2. Suits(u[c], O, c \in S) /\ Does(u[c]) \subseteq Does(t[c])
  BY <1>1, LeftSuits DEF Arranged
<1>3. \A a \in DOMAIN t : Does(u[a]) \subseteq Does(t[a])
  BY <1>1, <1>2
<1>4. ASSUME NEW a \in DOMAIN t PROVE Suits(u[a], O, a \in S)
  BY <1>1, <1>2 DEF Arranged
<1>5. ASSUME NEW a \in DOMAIN t, NEW b \in DOMAIN t PROVE Beside(a, u[a], b, u[b], S)
  <2>1. Beside(a, t[a], b, t[b], S)
    BY DEF Arranged
  <2>2. WorksApart(t[a], t[b]) => WorksApart(u[a], u[b])
    BY <1>3 DEF WorksApart
  <2> QED
    BY <2>1, <2>2 DEF Beside
<1>6. ASSUME NEW a \in DOMAIN t, NEW i \in 1..Len(p), p[i].do = "arm"
      PROVE  Ahead(u[a], p, a, i, S)
  <2>1. Ahead(t[a], p, a, i, S)
    BY <1>6 DEF Arranged
  <2> QED
    BY <1>3, <2>1, FewerApart DEF Ahead
<1> QED
  BY <1>1, <1>4, <1>5, <1>6 DEF Arranged

(* When a call begins no agent has work.                                   *)
LEMMA CallArranged ==
  ASSUME NEW p, NEW L, NEW D, NEW S, Orderly(p, L, D, S),
         NEW t, \A a \in DOMAIN t : t[a] = <<>>
  PROVE  Arranged(Moved(L, D), S, t, p)
<1>1. \A a \in DOMAIN t : Suits(t[a], Moved(L, D), a \in S)
  BY EmptyIsSeq, NothingApart DEF Suits, Fine, Sums
<1>2. \A a, b \in DOMAIN t : Beside(a, t[a], b, t[b], S)
  BY NothingApart DEF Beside
<1>3. \A a \in DOMAIN t : \A i \in 1..Len(p) : Ahead(t[a], p, a, i, S)
  BY NothingApart DEF Ahead
<1> QED
  BY <1>1, <1>2, <1>3 DEF Orderly, Arranged, Fits, Suits

-----------------------------------------------------------------------------
(* The agents of S, which see to their order themselves: agent a has the   *)
(* job J[a], and y of agent b cannot be done while x of agent a is not.    *)
Leads(J, a, x, b, y) ==
  \/ a = b /\ Prec(J[a], x, y)
  \/ x.op = "signal" /\ y.op = "await" /\ x.word = y.word /\ x.val = y.val

ClosedIn(S, J, M) ==
  \A a, b \in S : \A x \in Does(J[a]), y \in Does(J[b]) :
    <<a, x>> \in M /\ Leads(J, a, x, b, y) => <<b, y>> \in M

(* y of b waits for x of a, over any chain of agents.                      *)
Behind(S, J, a, x, b, y) ==
  \E z \in Does(J[b]) :
    /\ Prec(J[b], z, y)
    /\ \A M : ClosedIn(S, J, M) /\ <<a, x>> \in M => <<b, z>> \in M

(* Each signal is given once, and what clashes is in order.                *)
Linked(S, J) ==
  /\ \A a \in S : IsSeq(J[a]) /\ Once(J[a])
  /\ \A a, b \in S : \A x \in Does(J[a]), y \in Does(J[b]) :
       x.op = "signal" /\ y.op = "signal" /\ x.word = y.word => a = b /\ x = y
  /\ \A a, b \in S : a # b => \A x \in Does(J[a]), y \in Does(J[b]) :
       After(x, y) \/ Behind(S, J, b, y, a, x)

(* What the agents of S have yet to do, with the words w.                  *)
Pending(S, Y) == {m \in UNION {{a} \X Does(Y[a]) : a \in S} : TRUE}

Talks(S, J, Y, w) ==
  /\ \A a \in S : /\ IsSeq(Y[a]) /\ Once(Y[a]) /\ Does(Y[a]) \subseteq Does(J[a])
                  /\ \A x, y \in Does(Y[a]) : Prec(J[a], x, y) => Prec(Y[a], x, y)
  /\ ClosedIn(S, J, Pending(S, Y))
  /\ \A a \in S : \A x \in Does(Y[a]) : x.op = "signal" => w[x.word] # x.val

LEMMA PendingIs ==
  ASSUME NEW S, NEW Y, NEW a, NEW x
  PROVE  <<a, x>> \in Pending(S, Y) <=> a \in S /\ x \in Does(Y[a])
BY DEF Pending

(* The first phase has nothing that is preceded.                           *)
LEMMA HeadIsFirst ==
  ASSUME NEW v, IsSeq(v), v # <<>>, Once(v), NEW x, NEW y, Prec(v, x, y)
  PROVE  y \notin Head(v)
<1>1. PICK i \in 1..Len(v), j \in 1..Len(v) : i < j /\ x \in v[i] /\ y \in v[j]
  BY DEF Prec
<1>2. Head(v) = v[1] /\ 1 \in 1..Len(v) /\ j # 1 /\ Len(v) \in Nat
  BY <1>1, Tails
<1> QED
  BY <1>1, <1>2 DEF Once

LEMMA HeadDoes ==
  ASSUME NEW v, IsSeq(v), v # <<>>
  PROVE  Head(v) \subseteq Does(v)
<1>1. Head(v) = v[1] /\ 1 \in 1..Len(v)
  BY Tails
<1> QED
  BY <1>1 DEF Does

LEMMA WaitsForIt ==
  ASSUME NEW S, NEW J, NEW Y, NEW w, Talks(S, J, Y, w),
         NEW a \in S, NEW b \in S, NEW x, NEW y \in Does(Y[b]), Behind(S, J, b, y, a, x),
         x \in Does(Y[a]), Y[a] # <<>>
  PROVE  x \notin Head(Y[a])
<1>1. PICK z \in Does(J[a]) :
        /\ Prec(J[a], z, x)
        /\ \A M : ClosedIn(S, J, M) /\ <<b, y>> \in M => <<a, z>> \in M
  BY DEF Behind
<1>2. <<a, z>> \in Pending(S, Y)
  <2>1. <<b, y>> \in Pending(S, Y)
    BY PendingIs
  <2>2. ClosedIn(S, J, Pending(S, Y))
    BY DEF Talks
  <2> QED
    BY <1>1, <2>1, <2>2
<1>3. z \in Does(Y[a])
  BY <1>2, PendingIs
<1>4. Prec(Y[a], z, x) /\ IsSeq(Y[a]) /\ Once(Y[a])
  BY <1>1, <1>3 DEF Talks
<1> QED
  BY <1>4, HeadIsFirst

(* The words that the agents of S signal.                                  *)
Named(S, J, W) == \A a \in S : \A x \in Does(J[a]) : x.op = "signal" => x.word \in W

(* An operation done by an agent of S.                                     *)
LEMMA TalksStep ==
  ASSUME NEW S, NEW J, Linked(S, J), NEW Y, NEW w, Talks(S, J, Y, w),
         NEW c \in S, Y[c] # <<>>, NEW o \in Head(Y[c]),
         o.op = "await" => w[o.word] = o.val,
         NEW Z, Z[c] = Left(Y[c], o), \A a \in S : a # c => Z[a] = Y[a],
         NEW W, Named(S, J, W),
         NEW u, \A k \in W : u[k] = w[k] \/ (o.op = "signal" /\ k = o.word)
  PROVE  Talks(S, J, Z, u)
<1>1. IsSeq(Y[c]) /\ Once(Y[c]) /\ o \in Does(Y[c])
  BY HeadDoes DEF Talks
<1>2. PICK v, z : v = Y[c] /\ z = Z[c]
  OBVIOUS
<1>3. /\ IsSeq(z) /\ Does(z) \subseteq Does(v) /\ Does(v) \subseteq Does(z) \cup {o}
      /\ Once(z) /\ o \notin Does(z)
      /\ \A x, y \in Does(z) : Prec(v, x, y) => Prec(z, x, y)
  BY <1>1, <1>2, LeftKeeps
<1>4. ASSUME NEW a \in S
      PROVE  /\ IsSeq(Z[a]) /\ Once(Z[a]) /\ Does(Z[a]) \subseteq Does(Y[a])
             /\ Does(Z[a]) \subseteq Does(J[a])
             /\ \A x, y \in Does(Z[a]) : Prec(J[a], x, y) => Prec(Z[a], x, y)
  <2>1. CASE a = c
    BY <1>2, <1>3, <2>1 DEF Talks
  <2>2. CASE a # c
    BY <2>2 DEF Talks
  <2> QED
    BY <2>1, <2>2
<1>5. ASSUME NEW a \in S, NEW b \in S, NEW x \in Does(J[a]), NEW y \in Does(J[b]),
             <<a, x>> \in Pending(S, Z), Leads(J, a, x, b, y)
      PROVE  <<b, y>> \in Pending(S, Z)
  <2>1. x \in Does(Z[a]) /\ x \in Does(Y[a])
    BY <1>4, <1>5, PendingIs
  <2>2. y \in Does(Y[b])
    <3>1. <<a, x>> \in Pending(S, Y)
      BY <2>1, PendingIs
    <3>2. <<b, y>> \in Pending(S, Y)
      BY <1>5, <3>1 DEF Talks, ClosedIn
    <3> QED
      BY <3>2, PendingIs
  <2>3. CASE y \in Does(Z[b])
    BY <2>3, PendingIs
  <2>4. CASE y \notin Does(Z[b])
    <3>1. b = c /\ y = o
      BY <1>2, <1>3, <2>2, <2>4
    <3>2. CASE a = b /\ Prec(J[a], x, y)
      <4>1. Prec(Y[c], x, o)
        BY <2>1, <2>2, <3>1, <3>2 DEF Talks
      <4> QED
        BY <1>1, <4>1, HeadIsFirst
    <3>3. CASE x.op = "signal" /\ y.op = "await" /\ x.word = y.word /\ x.val = y.val
      <4>1. w[x.word] # x.val
        BY <2>1, <3>3 DEF Talks
      <4> QED
        BY <3>1, <3>3, <4>1
    <3> QED
      BY <1>5, <3>2, <3>3 DEF Leads
  <2> QED
    BY <2>3, <2>4
<1>6. ASSUME NEW a \in S, NEW x \in Does(Z[a]), x.op = "signal" PROVE u[x.word] # x.val
  <2>1. x \in Does(Y[a]) /\ w[x.word] # x.val /\ x \in Does(J[a])
    BY <1>4, <1>6 DEF Talks
  <2>2. CASE o.op = "signal" /\ x.word = o.word
    <3>1. o \in Does(J[c])
      BY <1>1 DEF Talks
    <3>2. a = c /\ x = o
      BY <1>6, <2>1, <2>2, <3>1 DEF Linked
    <3> QED
      BY <1>2, <1>3, <1>6, <3>2
  <2>3. CASE ~(o.op = "signal" /\ x.word = o.word)
    <3>1. x.word \in W
      BY <1>6, <2>1 DEF Named
    <3>2. u[x.word] = w[x.word]
      BY <2>3, <3>1
    <3> QED
      BY <2>1, <3>2
  <2> QED
    BY <2>2, <2>3
<1> QED
  BY <1>4, <1>5, <1>6 DEF Talks, ClosedIn

(* The agents of S are armed once each, with their jobs.                   *)
ToCome(p, a) == \E i \in 1..Len(p) : p[i].do = "arm" /\ p[i].agent = a
Yet(t, p, J, a) == IF ToCome(p, a) THEN J[a] ELSE t[a]

ArmedOnce(S, J, p) ==
  \A i \in 1..Len(p) : p[i].do = "arm" /\ p[i].agent \in S =>
    /\ p[i].work = J[p[i].agent]
    /\ \A j \in 1..Len(p) : p[j].do = "arm" /\ p[j].agent = p[i].agent => i = j

Synced(S, J, t, p, w) ==
  /\ S \subseteq DOMAIN t /\ Linked(S, J) /\ ArmedOnce(S, J, p)
  /\ \A a \in S : ToCome(p, a) => t[a] = <<>>
  /\ Talks(S, J, [a \in S |-> Yet(t, p, J, a)], w)

LEMMA ToComeTail ==
  ASSUME NEW p, IsSeq(p), p # <<>>, NEW S, NEW J, ArmedOnce(S, J, p)
  PROVE  /\ ArmedOnce(S, J, Tail(p))
         /\ \A a : ToCome(Tail(p), a) => ToCome(p, a)
         /\ \A a : ToCome(p, a) => ToCome(Tail(p), a) \/ (Head(p).do = "arm" /\ Head(p).agent = a)
         /\ \A a \in S : Head(p).do = "arm" /\ Head(p).agent = a => ~ToCome(Tail(p), a)
<1>1. /\ Len(p) \in Nat /\ Len(Tail(p)) = Len(p) - 1 /\ Len(p) >= 1 /\ p[1] = Head(p)
      /\ \A i \in 1..(Len(p) - 1) : Tail(p)[i] = p[i + 1]
  BY Tails
<1>2. 1 \in 1..Len(p) /\ \A i \in 1..(Len(p) - 1) : i + 1 \in 1..Len(p) /\ i + 1 # 1
  BY <1>1
<1>3. \A i \in 1..Len(p) : i = 1 \/ (i - 1 \in 1..(Len(p) - 1) /\ (i - 1) + 1 = i)
  BY <1>1
<1>4. \A i, j \in 1..(Len(p) - 1) : i + 1 = j + 1 => i = j
  BY <1>1
<1>5. ArmedOnce(S, J, Tail(p))
  BY <1>1, <1>2, <1>4 DEF ArmedOnce
<1>6. \A a : ToCome(Tail(p), a) => ToCome(p, a)
  BY <1>1, <1>2 DEF ToCome
<1>7. ASSUME NEW a, ToCome(p, a)
      PROVE  ToCome(Tail(p), a) \/ (Head(p).do = "arm" /\ Head(p).agent = a)
  <2>1. PICK i \in 1..Len(p) : p[i].do = "arm" /\ p[i].agent = a
    BY <1>7 DEF ToCome
  <2>2. CASE i = 1
    BY <1>1, <2>1, <2>2
  <2>3. CASE i # 1
    BY <1>1, <1>3, <2>1, <2>3 DEF ToCome
  <2> QED
    BY <2>2, <2>3
<1>8. ASSUME NEW a \in S, Head(p).do = "arm", Head(p).agent = a, ToCome(Tail(p), a) PROVE FALSE
  <2>1. PICK i \in 1..(Len(p) - 1) : Tail(p)[i].do = "arm" /\ Tail(p)[i].agent = a
    BY <1>1, <1>8 DEF ToCome
  <2>2. p[i + 1].do = "arm" /\ p[i + 1].agent = a
    BY <1>1, <2>1
  <2> QED
    BY <1>1, <1>2, <1>8, <2>2 DEF ArmedOnce
<1> QED
  BY <1>5, <1>6, <1>7, <1>8

LEMMA WaitSynced ==
  ASSUME NEW S, NEW J, NEW t, NEW p, NEW w, Synced(S, J, t, p, w),
         IsSeq(p), p # <<>>, Head(p).do = "wait"
  PROVE  Synced(S, J, t, Tail(p), w)
<1>1. ArmedOnce(S, J, Tail(p)) /\ \A a : ToCome(Tail(p), a) <=> ToCome(p, a)
  BY ToComeTail DEF Synced
<1>2. [a \in S |-> Yet(t, Tail(p), J, a)] = [a \in S |-> Yet(t, p, J, a)]
  BY <1>1 DEF Yet
<1> QED
  BY <1>1, <1>2 DEF Synced

(* Nothing is lost when a job is armed.                                    *)
LEMMA TalksPhases ==
  ASSUME NEW S, NEW J, Linked(S, J), NEW Y, NEW w, Talks(S, J, Y, w),
         NEW c \in S, Y[c] = J[c],
         NEW Z, Z[c] = Phases(J[c]), \A a \in S : a # c => Z[a] = Y[a]
  PROVE  Talks(S, J, Z, w)
<1>1. PICK v, z : v = J[c] /\ z = Z[c]
  OBVIOUS
<1>2. /\ IsSeq(z) /\ Does(z) = Does(v) /\ Once(z)
      /\ \A x, y : Prec(v, x, y) => Prec(z, x, y)
  BY <1>1, PhasesKeep DEF Linked
<1>3. \A a \in S : Does(Z[a]) = Does(Y[a])
  BY <1>1, <1>2
<1>4. Pending(S, Z) = Pending(S, Y)
  BY <1>3 DEF Pending
<1>5. ASSUME NEW a \in S
      PROVE  /\ IsSeq(Z[a]) /\ Once(Z[a]) /\ Does(Z[a]) \subseteq Does(J[a])
             /\ \A x, y \in Does(Z[a]) : Prec(J[a], x, y) => Prec(Z[a], x, y)
  <2>1. CASE a = c
    BY <1>1, <1>2, <2>1
  <2>2. CASE a # c
    BY <2>2 DEF Talks
  <2> QED
    BY <2>1, <2>2
<1> QED
  BY <1>3, <1>4, <1>5 DEF Talks

LEMMA ArmSynced ==
  ASSUME NEW S, NEW J, NEW t, NEW p, NEW w, Synced(S, J, t, p, w),
         IsSeq(p), p # <<>>, Head(p).do = "arm", NEW c, c = Head(p).agent, c \in DOMAIN t,
         NEW u, u = [t EXCEPT ![c] = @ \o Phases(Head(p).work)],
         IsSeq(Head(p).work)
  PROVE  Synced(S, J, u, Tail(p), w)
<1>1. /\ ArmedOnce(S, J, Tail(p))
      /\ \A a : ToCome(Tail(p), a) => ToCome(p, a)
      /\ \A a : ToCome(p, a) => ToCome(Tail(p), a) \/ c = a
      /\ c \in S => ~ToCome(Tail(p), c)
  BY ToComeTail DEF Synced
<1>2. /\ DOMAIN u = DOMAIN t /\ u[c] = t[c] \o Phases(Head(p).work)
      /\ \A a \in DOMAIN t : a # c => u[a] = t[a]
  OBVIOUS
<1>3. PICK Y, Z : /\ Y = [a \in S |-> Yet(t, p, J, a)]
                  /\ Z = [a \in S |-> Yet(u, Tail(p), J, a)]
  OBVIOUS
<1>4. \A a \in S : a # c => Z[a] = Y[a]
  BY <1>1, <1>2, <1>3 DEF Yet, Synced
<1>5. CASE c \in S
  <2>1. p[1] = Head(p) /\ 1 \in 1..Len(p)
    BY Tails
  <2>2. ToCome(p, c) /\ Head(p).work = J[c]
    BY <1>5, <2>1 DEF ToCome, Synced, ArmedOnce
  <2>3. Y[c] = J[c] /\ t[c] = <<>>
    BY <1>3, <1>5, <2>2 DEF Yet, Synced
  <2>4. Z[c] = u[c]
    BY <1>1, <1>3, <1>5 DEF Yet
  <2>5. u[c] = Phases(J[c])
    <3>1. IsSeq(Phases(J[c]))
      BY <2>2, PhasesKeep
    <3>2. PICK X : Phases(J[c]) \in Seq(X)
      BY <3>1 DEF IsSeq
    <3>3. <<>> \o Phases(J[c]) = Phases(J[c])
      BY <3>2, ConcatEmptySeq
    <3> QED
      BY <1>2, <2>2, <2>3, <3>3
  <2>6. Talks(S, J, Z, w)
    <3>1. Linked(S, J) /\ Talks(S, J, Y, w)
      BY <1>3 DEF Synced
    <3>2. Y[c] = J[c] /\ Z[c] = Phases(J[c])
      BY <2>3, <2>4, <2>5
    <3> QED
      BY <1>4, <1>5, <3>1, <3>2, TalksPhases
  <2>7. \A a \in S : ToCome(Tail(p), a) => u[a] = <<>>
    BY <1>1, <1>2, <1>5 DEF Synced
  <2> QED
    BY <1>1, <1>2, <1>3, <2>6, <2>7 DEF Synced
<1>6. CASE c \notin S
  <2>1. Z = Y
    BY <1>3, <1>4, <1>6
  <2>2. \A a \in S : ToCome(Tail(p), a) => u[a] = <<>>
    BY <1>1, <1>2, <1>6 DEF Synced
  <2> QED
    BY <1>1, <1>2, <1>3, <2>1, <2>2 DEF Synced
<1> QED
  BY <1>5, <1>6

LEMMA StepSynced ==
  ASSUME NEW S, NEW J, NEW t, NEW p, NEW w, Synced(S, J, t, p, w),
         NEW c \in DOMAIN t, t[c] # <<>>, NEW o \in Head(t[c]),
         o.op = "await" => w[o.word] = o.val,
         c \in S \/ o.op = "sum",
         NEW u, u = [t EXCEPT ![c] = Left(t[c], o)],
         NEW W, Named(S, J, W),
         NEW x, \A k \in W : x[k] = w[k] \/ (o.op = "signal" /\ k = o.word)
  PROVE  Synced(S, J, u, p, x)
<1>1. /\ DOMAIN u = DOMAIN t /\ u[c] = Left(t[c], o)
      /\ \A a \in DOMAIN t : a # c => u[a] = t[a]
  OBVIOUS
<1>2. PICK Y, Z : /\ Y = [a \in S |-> Yet(t, p, J, a)]
                  /\ Z = [a \in S |-> Yet(u, p, J, a)]
  OBVIOUS
<1>3. \A a \in S : a # c => Z[a] = Y[a]
  BY <1>1, <1>2 DEF Yet, Synced
<1>4. \A a \in S : ToCome(p, a) => u[a] = <<>>
  BY <1>1 DEF Synced
<1>5. Talks(S, J, Z, x)
  <2>1. CASE c \in S
    <3>1. Y[c] = t[c] /\ Z[c] = Left(Y[c], o)
      BY <1>1, <1>2, <2>1 DEF Yet, Synced
    <3>2. Linked(S, J) /\ Talks(S, J, Y, w)
      BY <1>2 DEF Synced
    <3>3. Y[c] # <<>> /\ o \in Head(Y[c])
      BY <3>1
    <3> QED
      BY <1>3, <2>1, <3>1, <3>2, <3>3, TalksStep
  <2>2. CASE c \notin S
    <3>1. Z = Y
      BY <1>2, <1>3, <2>2
    <3>2. \A k \in W : x[k] = w[k]
      BY <2>2
    <3>3. Talks(S, J, Y, w)
      BY <1>2 DEF Synced
    <3>4. \A a \in S : \A y \in Does(Y[a]) : y.op = "signal" => y.word \in W
      BY <3>3 DEF Talks, Named
    <3>5. \A a \in S : \A y \in Does(Y[a]) : y.op = "signal" => x[y.word] # y.val
      BY <3>2, <3>3, <3>4 DEF Talks
    <3> QED
      BY <3>1, <3>3, <3>5 DEF Talks
  <2> QED
    BY <2>1, <2>2
<1> QED
  BY <1>1, <1>2, <1>4, <1>5 DEF Synced

-----------------------------------------------------------------------------
(* An operation that may run now comes before all that clashes with it and *)
(* is still to be done, by any agent or by work not armed yet.             *)
LEMMA ReadyFirst ==
  ASSUME NEW O, NEW S, NEW J, NEW t, NEW p, NEW w, Arranged(O, S, t, p), Synced(S, J, t, p, w),
         NEW a \in DOMAIN t, t[a] # <<>>, NEW y \in Head(t[a])
  PROVE  /\ \A b \in DOMAIN t : b # a => \A x \in Does(t[b]) : After(y, x)
         /\ \A x \in Does(Left(t[a], y)) : After(y, x)
         /\ \A x \in Head(t[a]) : x = y \/ Apart(y, x)
         /\ \A i \in 1..Len(p) : p[i].do = "arm" => \A x \in Does(p[i].work) : After(y, x)
<1>1. Fine(t[a]) /\ IsSeq(t[a])
  BY DEF Arranged, Suits, Fine
<1>2. y \in Does(t[a])
  BY <1>1, HeadDoes
<1>3. PICK v, l : v = t[a] /\ l = Len(v)
  OBVIOUS
<1>4. l \in Nat /\ l >= 1 /\ 1 \in 1..l /\ v[1] = Head(v)
  BY <1>1, <1>3, Tails
<1>5. \A x \in Head(t[a]) : x = y \/ Apart(y, x)
  BY <1>1, <1>3, <1>4 DEF Fine
<1>6. ASSUME NEW x \in Does(Left(t[a], y)) PROVE After(y, x)
  <2>1. PICK u, d : u = Left(v, y) /\ Shrunk(u, v, y, d)
    BY <1>1, <1>3, LeftShrunk
  <2>2. PICK i \in 1..Len(u) : x \in u[i]
    BY <1>3, <1>6, <2>1 DEF Does
  <2>3. /\ d \in {0, 1} /\ Len(u) \in Nat /\ l = Len(u) + d /\ x \in v[i + d]
        /\ d = 0 => y \notin u[1]
    BY <1>3, <2>1, <2>2 DEF Shrunk
  <2>4. i + d \in 1..l
    BY <2>3
  <2>5. CASE i + d = 1
    <3>1. i = 1 /\ d = 0
      BY <2>3, <2>5
    <3>2. x # y
      BY <2>2, <2>3, <3>1
    <3>3. Apart(y, x)
      BY <1>3, <1>4, <1>5, <2>3, <2>5, <3>2
    <3> QED
      BY <3>3 DEF Apart, After
  <2>6. CASE i + d # 1
    <3>1. 1 < i + d
      BY <2>4, <2>6
    <3> QED
      BY <1>1, <1>3, <1>4, <2>3, <2>4, <3>1 DEF Fine
  <2> QED
    BY <2>5, <2>6
<1>7. ASSUME a \in S, NEW b \in S, a # b, NEW x \in Does(Yet(t, p, J, b))
      PROVE  After(y, x)
  <2>1. PICK Y : Y = [e \in S |-> Yet(t, p, J, e)]
    OBVIOUS
  <2>2. Talks(S, J, Y, w) /\ Linked(S, J)
    BY <2>1 DEF Synced
  <2>3. Y[a] = t[a] /\ x \in Does(Y[b])
    BY <1>7, <2>1 DEF Yet, Synced
  <2>4. y \in Does(Y[a]) /\ Y[a] # <<>> /\ y \in Head(Y[a])
    BY <1>2, <2>3
  <2>5. y \in Does(J[a]) /\ x \in Does(J[b])
    BY <1>7, <2>2, <2>3, <2>4 DEF Talks
  <2>6. After(y, x) \/ Behind(S, J, b, x, a, y)
    BY <1>7, <2>2, <2>5 DEF Linked
  <2>7. ~Behind(S, J, b, x, a, y)
    BY <1>7, <2>2, <2>3, <2>4, WaitsForIt
  <2> QED
    BY <2>6, <2>7
<1>8. ASSUME NEW b \in DOMAIN t, b # a, NEW x \in Does(t[b]) PROVE After(y, x)
  <2>1. CASE a \in S /\ b \in S
    <3>1. ~ToCome(p, b)
      <4>1. ToCome(p, b) => t[b] = <<>>
        BY <2>1 DEF Synced
      <4> QED
        BY <1>8, <4>1, NothingApart
    <3> QED
      BY <1>7, <1>8, <2>1, <3>1 DEF Yet
  <2>2. CASE WorksApart(t[a], t[b])
    BY <1>2, <1>8, <2>2, ApartIsAfter DEF WorksAfter
  <2> QED
    BY <1>8, <2>1, <2>2 DEF Arranged, Beside
<1>9. ASSUME NEW i \in 1..Len(p), p[i].do = "arm", NEW x \in Does(p[i].work) PROVE After(y, x)
  <2>1. Ahead(t[a], p, a, i, S)
    BY <1>9 DEF Arranged
  <2>2. CASE WorksApart(t[a], p[i].work) \/ WorksAfter(t[a], p[i].work)
    BY <1>2, <1>9, <2>2, ApartIsAfter DEF WorksAfter
  <2>3. CASE a \in S /\ p[i].agent \in S /\ a # p[i].agent
    <3>1. ToCome(p, p[i].agent) /\ p[i].work = J[p[i].agent]
      BY <1>9, <2>3 DEF ToCome, Synced, ArmedOnce
    <3>2. x \in Does(Yet(t, p, J, p[i].agent))
      BY <1>9, <3>1 DEF Yet
    <3> QED
      BY <1>7, <2>3, <3>2
  <2> QED
    BY <2>1, <2>2, <2>3 DEF Ahead
<1> QED
  BY <1>5, <1>6, <1>8, <1>9

(* When a call begins: its signals are not given yet.                      *)
Plan(p, L, D, S, J, v) ==
  /\ Orderly(p, L, D, S) /\ Linked(S, J) /\ ArmedOnce(S, J, p)
  /\ S \subseteq Agents /\ \A a \in S : ToCome(p, a)
  /\ \A a \in S : \A x \in Does(J[a]) : x.op = "signal" => x.word \in Words(r) /\ x.val = v

LEMMA CallSynced ==
  ASSUME NEW p, NEW L, NEW D, NEW S, NEW J, NEW v, Plan(p, L, D, S, J, v),
         NEW t, DOMAIN t = Agents, \A a \in Agents : t[a] = <<>>,
         NEW w, \A k \in Words(r) : w[k] # v
  PROVE  Synced(S, J, t, p, w)
<1>1. PICK Y : Y = [a \in S |-> Yet(t, p, J, a)]
  OBVIOUS
<1>2. \A a \in S : Y[a] = J[a]
  BY <1>1 DEF Yet, Plan
<1>3. \A a \in S : IsSeq(J[a]) /\ Once(J[a])
  BY DEF Plan, Linked
<1>4. ClosedIn(S, J, Pending(S, Y))
  BY <1>2, PendingIs DEF ClosedIn
<1>5. \A a \in S : \A x \in Does(Y[a]) : x.op = "signal" => w[x.word] # x.val
  BY <1>2 DEF Plan
<1>6. Talks(S, J, Y, w)
  BY <1>2, <1>3, <1>4, <1>5 DEF Talks
<1> QED
  BY <1>1, <1>6 DEF Synced, Plan

(* A plan without agents that see to their order themselves.               *)
LEMMA PlanAlone ==
  ASSUME NEW p, NEW L, NEW D, Orderly(p, L, D, {}), NEW v
  PROVE  Plan(p, L, D, {}, <<>>, v)
BY DEF Plan, Linked, ArmedOnce

-----------------------------------------------------------------------------
(* Moves by their places: <<peer, share, offset, length>>.                 *)
Part(base, slot, end) == [base |-> base, slot |-> slot, end |-> end]
Layout(a, b) == [k \in Kinds |-> IF k = "stage" THEN a ELSE b]

Mv(L, kind, k, x) ==
  [kind |-> kind, k |-> k, p |-> x[1], c |-> x[2], off |-> x[3], len |-> x[4],
   pos |-> L[k].base + x[2] * L[k].slot + x[3]]
Spread(L, kind, k, X) == {Mv(L, kind, k, x) : x \in {y \in X : y[4] # 0}}

InPart(L, k, x) ==
  /\ x[1] \in Ranks /\ x[2] \in Ranks /\ x[3] \in Nat /\ x[4] \in Nat
  /\ x[3] + x[4] <= L[k].slot
  /\ x[4] > 0 => L[k].base + x[2] * L[k].slot + x[3] + x[4] <= L[k].end
Bounded(L, k, X) == \A x \in X : InPart(L, k, x)

MoveKinds == {"scatter", "staged", "direct", "gather"}
KindLvl(kind) == IF kind = "scatter" THEN 0 ELSE IF kind = "gather" THEN 2 ELSE 1

Asunder(kind, x, y) ==
  \/ x[2] # y[2]
  \/ x[3] + x[4] <= y[3] \/ y[3] + y[4] <= x[3]
  \/ kind \in {"scatter", "gather"} /\ x[1] # y[1]

LEMMA MvFields ==
  ASSUME NEW L, NEW kind, NEW k, NEW x
  PROVE  /\ Mv(L, kind, k, x).kind = kind /\ Mv(L, kind, k, x).k = k
         /\ Mv(L, kind, k, x).p = x[1] /\ Mv(L, kind, k, x).c = x[2]
         /\ Mv(L, kind, k, x).off = x[3] /\ Mv(L, kind, k, x).len = x[4]
         /\ Mv(L, kind, k, x).pos = L[k].base + x[2] * L[k].slot + x[3]
         /\ Lvl(Mv(L, kind, k, x)) = KindLvl(kind)
BY DEF Mv, Lvl, KindLvl

LEMMA SpreadMoves ==
  ASSUME GroupAssumption, NEW L, Laid(L), NEW kind \in MoveKinds, NEW k \in Kinds,
         NEW X, Bounded(L, k, X)
  PROVE  AreMoves(L, Spread(L, kind, k, X))
<1> SUFFICES ASSUME NEW x \in X, x[4] # 0 PROVE IsMove(L, Mv(L, kind, k, x))
  BY DEF AreMoves, Spread
<1>1. InPart(L, k, x)
  BY DEF Bounded
<1>2. PICK d : d = Mv(L, kind, k, x)
  OBVIOUS
<1>3. /\ d.kind = kind /\ d.k = k /\ d.p = x[1] /\ d.c = x[2] /\ d.off = x[3] /\ d.len = x[4]
      /\ d.pos = L[k].base + x[2] * L[k].slot + x[3]
  BY <1>2, MvFields
<1>4. x[4] \in Nat \ {0} /\ x[4] > 0
  BY <1>1 DEF InPart
<1> QED
  BY <1>1, <1>2, <1>3, <1>4 DEF IsMove, InPart, MoveKinds

LEMMA AsunderMoves ==
  ASSUME GroupAssumption, NEW L, Laid(L), NEW kind \in MoveKinds, NEW k \in Kinds,
         NEW x, NEW y, IsMove(L, Mv(L, kind, k, x)), IsMove(L, Mv(L, kind, k, y)),
         Asunder(kind, x, y)
  PROVE  MovesApart(Mv(L, kind, k, x), Mv(L, kind, k, y))
<1>1. PICK d, e : d = Mv(L, kind, k, x) /\ e = Mv(L, kind, k, y)
  OBVIOUS
<1>2. /\ d.kind = kind /\ d.k = k /\ d.p = x[1] /\ d.c = x[2] /\ d.off = x[3] /\ d.len = x[4]
      /\ e.kind = kind /\ e.k = k /\ e.p = y[1] /\ e.c = y[2] /\ e.off = y[3] /\ e.len = y[4]
      /\ Lvl(d) = Lvl(e)
  BY <1>1, MvFields
<1>3. CASE x[2] # y[2]
  BY <1>1, <1>2, <1>3, SameShare DEF MovesApart
<1>4. CASE kind \in {"scatter", "gather"} /\ x[1] # y[1]
  BY <1>1, <1>2, <1>4 DEF MovesApart
<1>5. CASE x[2] = y[2] /\ (x[3] + x[4] <= y[3] \/ y[3] + y[4] <= x[3])
  <2>1. PICK b, z : /\ b = L[k].base /\ z = d.c * L[k].slot
                    /\ b \in Nat /\ z \in Nat /\ d.pos = b + z + d.off
    BY <1>1, <1>2, MovePlaces DEF Laid
  <2>2. e.pos = b + z + e.off
    BY <1>1, <1>2, <1>5, <2>1 DEF IsMove
  <2>3. d.off \in Nat /\ d.len \in Nat /\ e.off \in Nat /\ e.len \in Nat
    BY <1>1 DEF IsMove
  <2>4. ~Meet(d, e)
    BY <1>2, <1>5, <2>1, <2>2, <2>3 DEF Meet
  <2> QED
    BY <1>1, <2>4 DEF MovesApart
<1> QED
  BY <1>3, <1>4, <1>5 DEF Asunder

LEMMA SpreadApart ==
  ASSUME GroupAssumption, NEW L, Laid(L), NEW kind \in MoveKinds, NEW k \in Kinds,
         NEW X, Bounded(L, k, X), NEW Y, Bounded(L, k, Y),
         \A x \in X, y \in Y : Asunder(kind, x, y)
  PROVE  MovesAllApart(Spread(L, kind, k, X), Spread(L, kind, k, Y))
<1>1. AreMoves(L, Spread(L, kind, k, X)) /\ AreMoves(L, Spread(L, kind, k, Y))
  BY SpreadMoves
<1> SUFFICES ASSUME NEW x \in X, x[4] # 0, NEW y \in Y, y[4] # 0
             PROVE  MovesApart(Mv(L, kind, k, x), Mv(L, kind, k, y))
  BY DEF MovesAllApart, Spread
<1>2. IsMove(L, Mv(L, kind, k, x)) /\ IsMove(L, Mv(L, kind, k, y))
  BY <1>1 DEF AreMoves, Spread
<1> QED
  BY <1>2, AsunderMoves

LEMMA SpreadAfter ==
  ASSUME NEW L, NEW kind, NEW k, NEW X, NEW knd, NEW h, NEW Y,
         KindLvl(kind) < KindLvl(knd)
  PROVE  MovesAllAfter(Spread(L, kind, k, X), Spread(L, knd, h, Y))
BY MvFields DEF MovesAllAfter, MovesAfter, Spread

(* One phase of moves that are all apart.                                  *)
LEMMA SpreadJob ==
  ASSUME GroupAssumption, r >= 2, NEW L, Laid(L), NEW kind \in MoveKinds, NEW k \in Kinds,
         NEW X, Bounded(L, k, X), \A x, y \in X : x = y \/ Asunder(kind, x, y), NEW talks
  PROVE  Job(<<Moved(L, Spread(L, kind, k, X))>>, L, Spread(L, kind, k, X), talks)
<1>1. PICK E, P, w : /\ E = Spread(L, kind, k, X) /\ P = Moved(L, E) /\ w = <<P>>
  OBVIOUS
<1>2. AreMoves(L, E)
  BY <1>1, SpreadMoves
<1>3. IsSeq(w) /\ Len(w) = 1 /\ w[1] = P
  BY <1>1, OneIsSeq
<1>4. Does(w) = P
  BY <1>3 DEF Does
<1>5. Sums(w) = P
  BY <1>1, <1>4, OpPlaces DEF Sums, Moved
<1>6. ASSUME NEW u \in P, NEW v \in P, u # v PROVE Apart(u, v)
  <2>1. PICK x \in X, y \in X : /\ x[4] # 0 /\ y[4] # 0
                                /\ u = Op(L, Mv(L, kind, k, x)) /\ v = Op(L, Mv(L, kind, k, y))
    BY <1>1 DEF Moved, Spread
  <2>2. IsMove(L, Mv(L, kind, k, x)) /\ IsMove(L, Mv(L, kind, k, y))
    BY <1>1, <1>2, <2>1 DEF AreMoves, Spread
  <2>3. Asunder(kind, x, y)
    BY <1>6, <2>1
  <2> QED
    BY <2>1, <2>2, <2>3, AsunderMoves, ApartMoves
<1>7. Fine(w)
  <2> SUFFICES ASSUME NEW i \in 1..1, NEW j \in 1..1, NEW x \in w[i], NEW y \in w[j]
               PROVE  (i < j => After(x, y)) /\ (i = j /\ x # y => Apart(x, y))
    BY <1>3 DEF Fine
  <2>1. i = 1 /\ j = 1
    OBVIOUS
  <2> QED
    BY <1>3, <1>6, <2>1
<1> QED
  BY <1>1, <1>2, <1>4, <1>5, <1>7 DEF Job

(* Agents that share such moves out.                                       *)
Spreads(A, J, L, kind, k, X) ==
  /\ \A a \in A : Bounded(L, k, X[a]) /\ J[a] = <<Moved(L, Spread(L, kind, k, X[a]))>>
  /\ \A a, b \in A : \A x \in X[a], y \in X[b] : (a = b /\ x = y) \/ Asunder(kind, x, y)
Shared(A, L, kind, k, X) == [a \in A |-> Spread(L, kind, k, X[a])]

LEMMA SpreadTeam ==
  ASSUME GroupAssumption, r >= 2, NEW L, Laid(L), NEW kind \in MoveKinds, NEW k \in Kinds,
         NEW A, NEW J, NEW X, Spreads(A, J, L, kind, k, X)
  PROVE  /\ Team(A, J, L, Shared(A, L, kind, k, X))
         /\ All(A, Shared(A, L, kind, k, X)) = Spread(L, kind, k, All(A, X))
         /\ Bounded(L, k, All(A, X))
<1>1. PICK D : D = Shared(A, L, kind, k, X)
  OBVIOUS
<1>2. \A a \in A : D[a] = Spread(L, kind, k, X[a])
  BY <1>1 DEF Shared
<1>3. ASSUME NEW a \in A PROVE Job(J[a], L, D[a], FALSE)
  <2>1. Bounded(L, k, X[a]) /\ \A x, y \in X[a] : x = y \/ Asunder(kind, x, y)
    BY DEF Spreads
  <2>2. Job(<<Moved(L, Spread(L, kind, k, X[a]))>>, L, Spread(L, kind, k, X[a]), FALSE)
    BY <2>1, SpreadJob
  <2> QED
    BY <1>2, <2>2 DEF Spreads
<1>4. ASSUME NEW a \in A, NEW b \in A, a # b PROVE MovesAllApart(D[a], D[b])
  <2>1. Bounded(L, k, X[a]) /\ Bounded(L, k, X[b]) /\ \A x \in X[a], y \in X[b] : Asunder(kind, x, y)
    BY <1>4 DEF Spreads
  <2> QED
    BY <1>2, <2>1, SpreadApart
<1>5. All(A, D) = Spread(L, kind, k, All(A, X))
  BY <1>2 DEF All, Spread
<1>6. Bounded(L, k, All(A, X))
  BY DEF Spreads, Bounded, All
<1> QED
  BY <1>1, <1>3, <1>4, <1>5, <1>6 DEF Team

(* Rounds of such agents.                                                  *)
LEMMA SpreadRound ==
  ASSUME GroupAssumption, r >= 2, NEW L, Laid(L), NEW kind \in MoveKinds, NEW k \in Kinds,
         NEW A, NEW J, NEW X, Spreads(A, J, L, kind, k, X),
         NEW p, NEW q, Hands(p, A, J), WaitBlock(q, A)
  PROVE  Tidy(p \o q, L, Spread(L, kind, k, All(A, X)))
<1>1. PICK D : D = Shared(A, L, kind, k, X)
  OBVIOUS
<1>0. /\ Team(A, J, L, Shared(A, L, kind, k, X))
      /\ All(A, Shared(A, L, kind, k, X)) = Spread(L, kind, k, All(A, X))
  BY SpreadTeam
<1>2. Team(A, J, L, D) /\ All(A, D) = Spread(L, kind, k, All(A, X))
  BY <1>0, <1>1
<1> QED
  BY <1>2, RoundTidy

LEMMA SpreadNextRound ==
  ASSUME GroupAssumption, r >= 2, NEW L, Laid(L), NEW kind \in MoveKinds, NEW k \in Kinds,
         NEW A, NEW J, NEW X, Spreads(A, J, L, kind, k, X),
         NEW p, NEW q, Hands(p, A, J), WaitBlock(q, A),
         NEW v, NEW E, Tidy(v, L, E), \A d \in E : Lvl(d) < KindLvl(kind)
  PROVE  Tidy((v \o p) \o q, L, E \cup Spread(L, kind, k, All(A, X)))
<1>1. PICK D : D = Shared(A, L, kind, k, X)
  OBVIOUS
<1>0. /\ Team(A, J, L, Shared(A, L, kind, k, X))
      /\ All(A, Shared(A, L, kind, k, X)) = Spread(L, kind, k, All(A, X))
  BY SpreadTeam
<1>2. Team(A, J, L, D) /\ All(A, D) = Spread(L, kind, k, All(A, X))
  BY <1>0, <1>1
<1>3. \A e \in All(A, D) : Lvl(e) = KindLvl(kind)
  BY <1>2, MvFields DEF Spread
<1>4. MovesAllAfter(E, All(A, D))
  BY <1>3 DEF MovesAllAfter, MovesAfter
<1> QED
  BY <1>2, <1>4, NextRoundTidy

LEMMA SpreadLvl ==
  ASSUME NEW L, NEW kind, NEW k, NEW X, NEW d \in Spread(L, kind, k, X)
  PROVE  Lvl(d) = KindLvl(kind)
BY MvFields DEF Spread

-----------------------------------------------------------------------------
(* The kernels as moves.  The whole vector is one part, or two.            *)
Whole(slot, end) == Layout(Part(0, slot, end), Part(end, 0, end))
Vector(len) == Whole(Clv(len), Groups(len))

LEMMA LayoutLaid ==
  ASSUME NEW b \in Nat, NEW s \in Nat, NEW e \in Nat, NEW c \in Nat, NEW t \in Nat, NEW f \in Nat, e <= c
  PROVE  /\ Laid(Layout(Part(b, s, e), Part(c, t, f)))
         /\ Layout(Part(b, s, e), Part(c, t, f))["stage"] = Part(b, s, e)
         /\ Layout(Part(b, s, e), Part(c, t, f))["stage_b"] = Part(c, t, f)
BY DEF Laid, Layout, Part, Kinds

LEMMA WholeLaid ==
  ASSUME NEW s \in Nat, NEW e \in Nat
  PROVE  Laid(Whole(s, e)) /\ Whole(s, e)["stage"] = Part(0, s, e)
<1>1. 0 \in Nat /\ e <= e
  OBVIOUS
<1> QED
  BY <1>1, LayoutLaid DEF Whole

LEMMA PartFields == \A b, s, e : Part(b, s, e).base = b /\ Part(b, s, e).slot = s /\ Part(b, s, e).end = e
BY DEF Part

(* A single operation.                                                     *)
LEMMA SpreadOne ==
  ASSUME NEW L, NEW kind, NEW k, NEW x
  PROVE  /\ x[4] = 0 => Moved(L, Spread(L, kind, k, {x})) = {}
         /\ x[4] # 0 => Moved(L, Spread(L, kind, k, {x})) = {Op(L, Mv(L, kind, k, x))}
<1>1. CASE x[4] = 0
  BY <1>1 DEF Spread, Moved
<1>2. CASE x[4] # 0
  <2>1. {y \in {x} : y[4] # 0} = {x}
    BY <1>2
  <2>2. Spread(L, kind, k, {x}) = {Mv(L, kind, k, x)}
    BY <2>1 DEF Spread
  <2> QED
    BY <1>2, <2>2 DEF Moved
<1> QED
  BY <1>1, <1>2

LEMMA ScatterIs ==
  ASSUME NEW L, NEW k, NEW p, NEW c, NEW off, NEW len,
         NEW x, x[1] = p, x[2] = c, x[3] = off, x[4] = len,
         NEW at, at = L[k].base + c * L[k].slot + off, NEW to, to = p * L[k].slot + off
  PROVE  Copy(Buf(p, at), StageOf(k, c, to), len)
           = Moved(L, Spread(L, "scatter", k, {x}))
<1>1. x[1] = p /\ x[2] = c /\ x[3] = off /\ x[4] = len
  OBVIOUS
<1>2. PICK d : d = Mv(L, "scatter", k, x)
  OBVIOUS
<1>3. /\ x[4] = len
      /\ d.kind = "scatter" /\ d.k = k /\ d.p = p /\ d.c = c /\ d.off = off /\ d.len = len /\ d.pos = at
  BY <1>1, <1>2, MvFields
<1>4. From(L, d) = {Buf(p, at)} /\ To(L, d) = StageOf(k, c, to)
  BY <1>3 DEF From, To
<1>5. Op(L, d) = [op |-> "sum", from |-> {Buf(p, at)}, to |-> StageOf(k, c, to), len |-> len]
  BY <1>3, <1>4 DEF Op
<1>6. /\ x[4] = 0 => Moved(L, Spread(L, "scatter", k, {x})) = {}
      /\ x[4] # 0 => Moved(L, Spread(L, "scatter", k, {x})) = {Op(L, d)}
  BY <1>2, SpreadOne
<1> QED
  BY <1>1, <1>3, <1>5, <1>6 DEF Copy, Sum

LEMMA GatherIs ==
  ASSUME NEW L, NEW k, NEW p, NEW c, NEW off, NEW len,
         NEW x, x[1] = p, x[2] = c, x[3] = off, x[4] = len,
         NEW at, at = L[k].base + c * L[k].slot + off
  PROVE  Copy(Buf(c, at), Buf(p, at), len)
           = Moved(L, Spread(L, "gather", k, {x}))
<1>1. x[1] = p /\ x[2] = c /\ x[3] = off /\ x[4] = len
  OBVIOUS
<1>2. PICK d : d = Mv(L, "gather", k, x)
  OBVIOUS
<1>3. /\ x[4] = len
      /\ d.kind = "gather" /\ d.k = k /\ d.p = p /\ d.c = c /\ d.off = off /\ d.len = len /\ d.pos = at
  BY <1>1, <1>2, MvFields
<1>4. From(L, d) = {Buf(c, at)} /\ To(L, d) = Buf(p, at)
  BY <1>3 DEF From, To
<1>5. Op(L, d) = [op |-> "sum", from |-> {Buf(c, at)}, to |-> Buf(p, at), len |-> len]
  BY <1>3, <1>4 DEF Op
<1>6. /\ x[4] = 0 => Moved(L, Spread(L, "gather", k, {x})) = {}
      /\ x[4] # 0 => Moved(L, Spread(L, "gather", k, {x})) = {Op(L, d)}
  BY <1>2, SpreadOne
<1> QED
  BY <1>1, <1>3, <1>5, <1>6 DEF Copy, Sum

IsAtom(x, p, c, off, m) == x[1] = p /\ x[2] = c /\ x[3] = off /\ x[4] = m

LEMMA DirectIs ==
  ASSUME NEW L, NEW k, NEW c, NEW off, NEW len,
         NEW x, IsAtom(x, c, c, off, len),
         NEW at, at = L[k].base + c * L[k].slot + off
  PROVE  ReducePeers(c, at, len) = <<Moved(L, Spread(L, "direct", k, {x}))>>
<1>1. x[1] = c /\ x[2] = c /\ x[3] = off /\ x[4] = len
  BY DEF IsAtom
<1>2. PICK d : d = Mv(L, "direct", k, x)
  OBVIOUS
<1>3. /\ x[4] = len
      /\ d.kind = "direct" /\ d.k = k /\ d.p = c /\ d.c = c /\ d.off = off /\ d.len = len /\ d.pos = at
  BY <1>1, <1>2, MvFields
<1>4. From(L, d) = {Buf(q, at) : q \in Ranks} /\ To(L, d) = Buf(c, at)
  BY <1>3 DEF From, To
<1>5. Op(L, d) = [op |-> "sum", from |-> {Buf(q, at) : q \in Ranks}, to |-> Buf(c, at), len |-> len]
  BY <1>3, <1>4 DEF Op
<1>6. /\ x[4] = 0 => Moved(L, Spread(L, "direct", k, {x})) = {}
      /\ x[4] # 0 => Moved(L, Spread(L, "direct", k, {x})) = {Op(L, d)}
  BY <1>2, SpreadOne
<1> QED
  BY <1>1, <1>3, <1>5, <1>6 DEF ReducePeers, Sum

Strides(L, k, off) == \A q \in Ranks : off + q * L[k].slot = q * L[k].slot + off

LEMMA NatSteps ==
  ASSUME GroupAssumption, NEW L, NEW k, L[k].slot \in Nat, NEW off \in Nat
  PROVE  Strides(L, k, off)
<1> SUFFICES ASSUME NEW q \in Ranks PROVE off + q * L[k].slot = q * L[k].slot + off
  BY DEF Strides
<1>1. PICK s, z : s = L[k].slot /\ z = q * s
  OBVIOUS
<1>2. q \in Nat /\ s \in Nat
  BY <1>1 DEF Ranks, GroupAssumption
<1>3. z \in Nat
  BY <1>1, <1>2
<1>4. off + z = z + off
  BY <1>3
<1> QED
  BY <1>1, <1>4

LEMMA StagedIs ==
  ASSUME NEW L, NEW k, NEW c, NEW off, Strides(L, k, off), NEW len,
         NEW x, x[1] = c, x[2] = c, x[3] = off, x[4] = len,
         NEW at, at = L[k].base + c * L[k].slot + off
  PROVE  GatherReduceLocal(StageOf(k, c, off), Buf(c, at), L[k].slot, len)
           = <<Moved(L, Spread(L, "staged", k, {x}))>>
<1>1. x[1] = c /\ x[2] = c /\ x[3] = off /\ x[4] = len
  OBVIOUS
<1>2. PICK d : d = Mv(L, "staged", k, x)
  OBVIOUS
<1>3. /\ x[4] = len
      /\ d.kind = "staged" /\ d.k = k /\ d.p = c /\ d.c = c /\ d.off = off /\ d.len = len /\ d.pos = at
  BY <1>1, <1>2, MvFields
<1>4. PICK F : F = {StageOf(k, c, q * L[k].slot + off) : q \in Ranks}
  OBVIOUS
<1>5. From(L, d) = F /\ To(L, d) = Buf(c, at)
  BY <1>3, <1>4 DEF From, To
<1>6. Op(L, d) = [op |-> "sum", from |-> F, to |-> Buf(c, at), len |-> len]
  BY <1>3, <1>5 DEF Op
<1>7. ASSUME NEW q \in Ranks
      PROVE  [StageOf(k, c, off) EXCEPT !.at = @ + q * L[k].slot] = StageOf(k, c, q * L[k].slot + off)
  <2>1. off + q * L[k].slot = q * L[k].slot + off
    BY DEF Strides
  <2> QED
    BY <2>1 DEF StageOf
<1>8. {[StageOf(k, c, off) EXCEPT !.at = @ + q * L[k].slot] : q \in Ranks} = F
  BY <1>4, <1>7
<1>9. GatherReduceLocal(StageOf(k, c, off), Buf(c, at), L[k].slot, len) = <<Sum(F, Buf(c, at), len)>>
  BY <1>8 DEF GatherReduceLocal
<1>10. /\ x[4] = 0 => Moved(L, Spread(L, "staged", k, {x})) = {}
       /\ x[4] # 0 => Moved(L, Spread(L, "staged", k, {x})) = {Op(L, d)}
  BY <1>2, SpreadOne
<1>11. Sum(F, Buf(c, at), len) = Moved(L, Spread(L, "staged", k, {x}))
  BY <1>3, <1>6, <1>10 DEF Sum
<1> QED
  BY <1>1, <1>9, <1>11

(* A phase of several.                                                     *)
LEMMA SpreadUnion ==
  ASSUME NEW L, NEW kind, NEW k, NEW A, NEW C, NEW f,
         \A a \in A : C[a] = Moved(L, Spread(L, kind, k, {f[a]})),
         NEW U, \A o : o \in U <=> \E a \in A : o \in C[a],
         NEW X, \A x : x \in X <=> \E a \in A : x = f[a]
  PROVE  U = Moved(L, Spread(L, kind, k, X))
<1>1. ASSUME NEW o \in U PROVE o \in Moved(L, Spread(L, kind, k, X))
  <2>1. PICK a \in A : o \in C[a]
    OBVIOUS
  <2>2. o \in Moved(L, Spread(L, kind, k, {f[a]})) /\ f[a] \in X
    BY <2>1
  <2> QED
    BY <2>2 DEF Moved, Spread
<1>2. ASSUME NEW o \in Moved(L, Spread(L, kind, k, X)) PROVE o \in U
  <2>1. PICK x \in X : x[4] # 0 /\ o = Op(L, Mv(L, kind, k, x))
    BY <1>2 DEF Moved, Spread
  <2>2. PICK a \in A : x = f[a]
    OBVIOUS
  <2>3. o \in Moved(L, Spread(L, kind, k, {f[a]}))
    <3>1. Moved(L, Spread(L, kind, k, {f[a]})) = {Op(L, Mv(L, kind, k, f[a]))}
      BY <2>1, <2>2, SpreadOne
    <3> QED
      BY <2>1, <2>2, <3>1
  <2> QED
    BY <2>3
<1> QED
  BY <1>1, <1>2

-----------------------------------------------------------------------------
(* The shares of a vector of len elements, from group base on.             *)
PartOf(L, k, base, len) ==
  /\ ShareFacts(len) /\ base \in Nat /\ L[k] = Part(base, Clv(len), base + Groups(len))

LEMMA ShareInPart ==
  ASSUME GroupAssumption, NEW L, NEW k, NEW base, NEW len, PartOf(L, k, base, len),
         NEW p \in Ranks, NEW c \in Ranks, NEW off \in Nat, NEW n1 \in Nat, off + n1 <= Len4(c, len)
  PROVE  InPart(L, k, <<p, c, off, n1>>)
<1>1. PICK s, m, e, z : s = Clv(len) /\ m = Len4(c, len) /\ e = Groups(len) /\ z = c * s
  OBVIOUS
<1>2. /\ s \in Nat /\ e \in Nat /\ z \in Nat /\ m \in 0..s /\ base \in Nat
      /\ m > 0 => z + m <= e
  BY <1>1 DEF PartOf, ShareFacts
<1>3. L[k].base = base /\ L[k].slot = s /\ L[k].end = base + e
  BY <1>1, PartFields DEF PartOf
<1>4. off + n1 <= s
  BY <1>1, <1>2
<1>5. n1 > 0 => base + z + off + n1 <= base + e
  BY <1>1, <1>2
<1> QED
  BY <1>1, <1>3, <1>4, <1>5 DEF InPart

(* Positions: the kernels of the first part have no base and no offset.    *)
LEMMA SharePlaces ==
  ASSUME GroupAssumption, NEW L, NEW k, NEW base, NEW len, PartOf(L, k, base, len),
         NEW c \in Ranks
  PROVE  /\ L[k].base = base /\ L[k].slot = Clv(len) /\ Clv(len) \in Nat /\ base \in Nat
         /\ Len4(c, len) \in Nat /\ c * Clv(len) \in Nat
         /\ 0 + Len4(c, len) <= Len4(c, len)
         /\ base + c * Clv(len) = L[k].base + c * L[k].slot + 0
         /\ c * Clv(len) = c * L[k].slot + 0
<1>1. PICK s, m, z : s = Clv(len) /\ m = Len4(c, len) /\ z = c * s
  OBVIOUS
<1>2. s \in Nat /\ z \in Nat /\ m \in 0..s /\ base \in Nat
  BY <1>1 DEF PartOf, ShareFacts
<1>3. L[k].base = base /\ L[k].slot = s
  BY <1>1, PartFields DEF PartOf
<1>4. base + z = base + z + 0 /\ z = z + 0 /\ m \in Nat /\ 0 + m <= m
  BY <1>2
<1> QED
  BY <1>1, <1>2, <1>3, <1>4

-----------------------------------------------------------------------------
(* Rounds in which each agent makes the moves that F gives it.             *)
Made(L, kind, k, X) == <<Moved(L, Spread(L, kind, k, X))>>
Handed(p, a, w) == p = Arm(a, w) \/ p = Refill(a, w)

Parted(L, kind, k, C, F) ==
  /\ \A c \in C : Bounded(L, k, F[c])
  /\ \A c, d \in C : \A x \in F[c], y \in F[d] : (c = d /\ x = y) \/ Asunder(kind, x, y)

(* Program p hands to the agents of A such moves, those of X in all.       *)
Deals(p, A, L, kind, k, X) ==
  \E J, Y : Hands(p, A, J) /\ Spreads(A, J, L, kind, k, Y) /\ All(A, Y) = X

(* A queue of each of the GPUs of C makes the moves that F gives its GPU.  *)
OfQueues(q, C, F) == [a \in Queues(q, C) |-> F[a[2]]]

QueueDealt(s, q, C, L, kind, k, F) ==
  /\ s = [i \in 1..r |-> s[i]]
  /\ \A i \in 1..r : IF i - 1 \in C
                     THEN Handed(s[i], Queue(q, i - 1), Made(L, kind, k, F[i - 1]))
                     ELSE s[i] = <<>>

LEMMA QueueHanded ==
  ASSUME GroupAssumption, NEW L, NEW kind, NEW k, NEW q, NEW C \in SUBSET Ranks, NEW F,
         Parted(L, kind, k, C, F), NEW s, QueueDealt(s, q, C, L, kind, k, F)
  PROVE  \E J : /\ Hands(FlattenSeq(s), Queues(q, C), J)
                /\ Spreads(Queues(q, C), J, L, kind, k, OfQueues(q, C, F))
                /\ All(Queues(q, C), OfQueues(q, C, F)) = All(C, F)
<1>1. PICK A, Y, J : /\ A = Queues(q, C) /\ Y = [a \in A |-> F[a[2]]]
                     /\ J = [a \in A |-> Made(L, kind, k, F[a[2]])]
  OBVIOUS
<1>2. \A a \in A : a[2] \in C /\ a = Queue(q, a[2]) /\ Y[a] = F[a[2]] /\ J[a] = Made(L, kind, k, F[a[2]])
  BY <1>1, NamesOfAgents DEF Queues
<1>3. \A c \in C : Queue(q, c) \in A /\ Y[Queue(q, c)] = F[c]
                   /\ J[Queue(q, c)] = Made(L, kind, k, F[c])
  BY <1>1, NamesOfAgents DEF Queues
<1>4. \A i \in 1..r : IF i - 1 \in C THEN HandsAgent(s[i], Queue(q, i - 1), J) ELSE s[i] = <<>>
  BY <1>3 DEF Handed, HandsAgent, QueueDealt
<1>5. Hands(FlattenSeq(s), A, J)
  BY <1>1, <1>4, QueueHands DEF QueueDealt
<1>6. Spreads(A, J, L, kind, k, Y)
  <2>1. ASSUME NEW a \in A PROVE Bounded(L, k, Y[a]) /\ J[a] = <<Moved(L, Spread(L, kind, k, Y[a]))>>
    BY <1>2 DEF Parted, Made
  <2>2. ASSUME NEW a \in A, NEW b \in A, NEW x \in Y[a], NEW y \in Y[b]
        PROVE  (a = b /\ x = y) \/ Asunder(kind, x, y)
    BY <1>2 DEF Parted
  <2> QED
    BY <2>1, <2>2 DEF Spreads
<1>7. All(A, Y) = All(C, F)
  BY <1>2, <1>3 DEF All
<1>8. Y = OfQueues(q, C, F)
  BY <1>1 DEF OfQueues
<1> QED
  BY <1>1, <1>5, <1>6, <1>7, <1>8

LEMMA QueueDeals ==
  ASSUME GroupAssumption, NEW L, NEW kind, NEW k, NEW q, NEW C \in SUBSET Ranks, NEW F,
         Parted(L, kind, k, C, F), NEW s, QueueDealt(s, q, C, L, kind, k, F)
  PROVE  Deals(FlattenSeq(s), Queues(q, C), L, kind, k, All(C, F))
<1>1. PICK Y : Y = OfQueues(q, C, F)
  OBVIOUS
<1>2. \E J : /\ Hands(FlattenSeq(s), Queues(q, C), J) /\ Spreads(Queues(q, C), J, L, kind, k, Y)
             /\ All(Queues(q, C), Y) = All(C, F)
  BY <1>1, QueueHanded
<1> QED
  BY <1>2 DEF Deals

GridDealt(s, f, m, D, L, kind, k, F) ==
  /\ s = [i \in 1..r |-> s[i]]
  /\ \A i \in 1..r : f[i] = [j \in 1..m |-> f[i][j]]
  /\ \A i \in 1..r :
       \/ s[i] = <<>> /\ \A q \in Ranks : <<i - 1, q>> \notin D
       \/ /\ s[i] = FlattenSeq(f[i])
          /\ \A j \in 1..m :
               IF <<i - 1, j - 1>> \in D
               THEN Handed(f[i][j], Sdma(i - 1, j - 1), Made(L, kind, k, F[<<i - 1, j - 1>>]))
               ELSE f[i][j] = <<>>

LEMMA GridDeals ==
  ASSUME GroupAssumption, NEW L, NEW kind, NEW k, NEW m \in Nat, NEW D, D \subseteq Ranks \X Ranks,
         \A e \in D : e[2] \in 0..(m - 1), NEW F, Parted(L, kind, k, D, F),
         NEW f, NEW s, GridDealt(s, f, m, D, L, kind, k, F)
  PROVE  Deals(FlattenSeq(s), Grid(D), L, kind, k, All(D, F))
<1>1. PICK A, Y, J : /\ A = Grid(D) /\ Y = [a \in A |-> F[<<a[2], a[3]>>]]
                     /\ J = [a \in A |-> Made(L, kind, k, F[<<a[2], a[3]>>])]
  OBVIOUS
<1>2. \A a \in A : /\ <<a[2], a[3]>> \in D /\ a = Sdma(a[2], a[3]) /\ Y[a] = F[<<a[2], a[3]>>]
                   /\ J[a] = Made(L, kind, k, F[<<a[2], a[3]>>])
  BY <1>1, GridNames
<1>3. ASSUME NEW g, NEW h, <<g, h>> \in D
      PROVE  Sdma(g, h) \in A /\ Y[Sdma(g, h)] = F[<<g, h>>]
             /\ J[Sdma(g, h)] = Made(L, kind, k, F[<<g, h>>])
  BY <1>1, <1>3, GridNames, NamesOfAgents
<1>4. GridHanded(s, f, m, D, J)
  <2>1. ASSUME NEW i \in 1..r, NEW j \in 1..m, <<i - 1, j - 1>> \in D,
               Handed(f[i][j], Sdma(i - 1, j - 1), Made(L, kind, k, F[<<i - 1, j - 1>>]))
        PROVE  HandsAgent(f[i][j], Sdma(i - 1, j - 1), J)
    BY <1>3, <2>1 DEF Handed, HandsAgent
  <2>2. ASSUME NEW i \in 1..r
        PROVE  \/ s[i] = <<>> /\ \A q \in Ranks : <<i - 1, q>> \notin D
               \/ /\ s[i] = FlattenSeq(f[i])
                  /\ \A j \in 1..m :
                       IF <<i - 1, j - 1>> \in D THEN HandsAgent(f[i][j], Sdma(i - 1, j - 1), J)
                                                 ELSE f[i][j] = <<>>
    BY <2>1 DEF GridDealt
  <2> QED
    BY <2>2 DEF GridDealt, GridHanded
<1>5. Hands(FlattenSeq(s), A, J)
  BY <1>1, <1>4, GridHands
<1>6. Spreads(A, J, L, kind, k, Y)
  <2>1. ASSUME NEW a \in A PROVE Bounded(L, k, Y[a]) /\ J[a] = <<Moved(L, Spread(L, kind, k, Y[a]))>>
    BY <1>2 DEF Parted, Made
  <2>2. ASSUME NEW a \in A, NEW b \in A, NEW x \in Y[a], NEW y \in Y[b]
        PROVE  (a = b /\ x = y) \/ Asunder(kind, x, y)
    <3>1. (<<a[2], a[3]>> = <<b[2], b[3]>> /\ x = y) \/ Asunder(kind, x, y)
      BY <1>2 DEF Parted
    <3>2. <<a[2], a[3]>> = <<b[2], b[3]>> => a[2] = b[2] /\ a[3] = b[3]
      OBVIOUS
    <3> QED
      BY <1>2, <3>1, <3>2
  <2> QED
    BY <2>1, <2>2 DEF Spreads
<1>7. All(A, Y) = All(D, F)
  <2>1. ASSUME NEW e \in D PROVE Sdma(e[1], e[2]) \in A /\ Y[Sdma(e[1], e[2])] = F[e]
    <3>1. e = <<e[1], e[2]>>
      OBVIOUS
    <3> QED
      BY <1>3, <3>1
  <2>2. ASSUME NEW x \in All(A, Y) PROVE x \in All(D, F)
    <3>1. PICK a \in A : x \in Y[a]
      BY <2>2 DEF All
    <3> QED
      BY <1>2, <3>1 DEF All
  <2>3. ASSUME NEW x \in All(D, F) PROVE x \in All(A, Y)
    BY <2>1, <2>3 DEF All
  <2> QED
    BY <2>2, <2>3
<1> QED
  BY <1>1, <1>5, <1>6, <1>7 DEF Deals

(* The round is over when the agents are waited for.                       *)
LEMMA DealRound ==
  ASSUME GroupAssumption, r >= 2, NEW L, Laid(L), NEW kind \in MoveKinds, NEW k \in Kinds,
         NEW p, NEW q, NEW A, NEW X, Deals(p, A, L, kind, k, X), WaitBlock(q, A)
  PROVE  Tidy(p \o q, L, Spread(L, kind, k, X))
<1>1. PICK J, Y : Hands(p, A, J) /\ Spreads(A, J, L, kind, k, Y) /\ All(A, Y) = X
  BY DEF Deals
<1>2. Tidy(p \o q, L, Spread(L, kind, k, All(A, Y)))
  BY <1>1, SpreadRound
<1> QED
  BY <1>1, <1>2

LEMMA NextDealRound ==
  ASSUME GroupAssumption, r >= 2, NEW L, Laid(L), NEW kind \in MoveKinds, NEW k \in Kinds,
         NEW p, NEW q, NEW A, NEW X, Deals(p, A, L, kind, k, X), WaitBlock(q, A),
         NEW v, NEW E, Tidy(v, L, E), \A d \in E : Lvl(d) < KindLvl(kind)
  PROVE  Tidy((v \o p) \o q, L, E \cup Spread(L, kind, k, X))
<1>1. PICK J, Y : Hands(p, A, J) /\ Spreads(A, J, L, kind, k, Y) /\ All(A, Y) = X
  BY DEF Deals
<1>2. Tidy((v \o p) \o q, L, E \cup Spread(L, kind, k, All(A, Y)))
  BY <1>1, SpreadNextRound
<1> QED
  BY <1>1, <1>2

MixedDealt(s, m, L, kind, k, F) ==
  /\ s = [i \in 1..r |-> s[i]]
  /\ \A i \in 1..r : \E t, c :
       /\ s[i] = FlattenSeq(t) \o c /\ t = [j \in 1..m |-> t[j]]
       /\ \A j \in 1..m : Handed(t[j], Sdma(i - 1, j - 1), Made(L, kind, k, F[Sdma(i - 1, j - 1)]))
       /\ Handed(c, Cu(i - 1), Made(L, kind, k, F[Cu(i - 1)]))

LEMMA MixedDeals ==
  ASSUME GroupAssumption, NEW L, NEW kind, NEW k, NEW m \in Nat, m <= r, NEW F,
         Parted(L, kind, k, Mixed(m), F), NEW s, MixedDealt(s, m, L, kind, k, F)
  PROVE  Deals(FlattenSeq(s), Mixed(m), L, kind, k, All(Mixed(m), F))
<1>1. PICK A, J : A = Mixed(m) /\ J = [a \in A |-> Made(L, kind, k, F[a])]
  OBVIOUS
<1>2. \A i \in 1..r : Of(A, 2, i - 1) = Row(i - 1, 0..(m - 1)) \cup {Cu(i - 1)}
  BY <1>1, MixedNames
<1>3. ASSUME NEW i \in 1..r
      PROVE  Cu(i - 1) \in A /\ \A j \in 1..m : Sdma(i - 1, j - 1) \in A
  <2>1. \A j \in 1..m : j - 1 \in 0..(m - 1)
    OBVIOUS
  <2>2. \A j \in 1..m : Sdma(i - 1, j - 1) \in Row(i - 1, 0..(m - 1))
    BY <2>1 DEF Row
  <2> QED
    BY <1>2, <2>2 DEF Of
<1>4. MixedHanded(s, m, J)
  <2>1. ASSUME NEW i \in 1..r
        PROVE  \E t, c : /\ s[i] = FlattenSeq(t) \o c /\ t = [j \in 1..m |-> t[j]]
                         /\ \A j \in 1..m : HandsAgent(t[j], Sdma(i - 1, j - 1), J)
                         /\ HandsAgent(c, Cu(i - 1), J)
    <3>1. PICK t, c :
            /\ s[i] = FlattenSeq(t) \o c /\ t = [j \in 1..m |-> t[j]]
            /\ \A j \in 1..m : Handed(t[j], Sdma(i - 1, j - 1), Made(L, kind, k, F[Sdma(i - 1, j - 1)]))
            /\ Handed(c, Cu(i - 1), Made(L, kind, k, F[Cu(i - 1)]))
      BY DEF MixedDealt
    <3>2. J[Cu(i - 1)] = Made(L, kind, k, F[Cu(i - 1)])
          /\ \A j \in 1..m : J[Sdma(i - 1, j - 1)] = Made(L, kind, k, F[Sdma(i - 1, j - 1)])
      BY <1>1, <1>3
    <3> QED
      BY <3>1, <3>2 DEF Handed, HandsAgent
  <2> QED
    BY <2>1 DEF MixedDealt, MixedHanded
<1>5. Hands(FlattenSeq(s), A, J)
  BY <1>1, <1>4, MixedHands
<1>6. Spreads(A, J, L, kind, k, F)
  BY <1>1 DEF Parted, Spreads, Made
<1> QED
  BY <1>1, <1>5, <1>6 DEF Deals

-----------------------------------------------------------------------------
(* What moves serve: offset o of share c, in part k, with peer p.           *)
Reach(D, kind, k, p, c, o) ==
  \E d \in D : /\ d.kind = kind /\ d.k = k /\ d.p = p /\ d.c = c
               /\ d.off <= o /\ o < d.off + d.len

LEMMA SpreadReach ==
  ASSUME NEW L, NEW kind, NEW k, NEW X, NEW p, NEW c, NEW off \in Nat, NEW len \in Nat,
         <<p, c, off, len>> \in X, NEW o \in Nat, off <= o, o < off + len
  PROVE  Reach(Spread(L, kind, k, X), kind, k, p, c, o)
<1>1. PICK x : x = <<p, c, off, len>>
  OBVIOUS
<1>2. x \in X /\ x[4] = len /\ len # 0
  BY <1>1
<1>3. Mv(L, kind, k, x) \in Spread(L, kind, k, X)
  BY <1>2 DEF Spread
<1>4. PICK d : d = Mv(L, kind, k, x)
  OBVIOUS
<1>5. d.kind = kind /\ d.k = k /\ d.p = p /\ d.c = c /\ d.off = off /\ d.len = len
  BY <1>1, <1>4, MvFields
<1> QED
  BY <1>3, <1>4, <1>5 DEF Reach

LEMMA ReachMore == \A D, E, kind, k, p, c, o :
  D \subseteq E /\ Reach(D, kind, k, p, c, o) => Reach(E, kind, k, p, c, o)
BY DEF Reach

(* A cell of part k, and the moves D serve all of part k: what is summed   *)
(* from staging slots has been scattered to all, every cell is summed, and *)
(* the sum gathered by every other GPU.                                    *)
Cell(L, k, c, o) == o < L[k].slot /\ L[k].base + c * L[k].slot + o < L[k].end

Summed(D, k, c, o) ==
  \/ Reach(D, "direct", k, c, c, o)
  \/ Reach(D, "staged", k, c, c, o) /\ \A q \in Ranks : Reach(D, "scatter", k, q, c, o)
Gathered(D, k, c, o) == \A p \in Ranks \ {c} : Reach(D, "gather", k, p, c, o)
Plainly(D, k, c, o) ==
  Summed(D, k, c, o) /\ Gathered(D, k, c, o)
  /\ \/ \A d \in D : ~(d.k = k /\ d.kind = "staged")
     \/ \A q \in Ranks : Reach(D, "scatter", k, q, c, o)
Serves(L, D, k) == \A c \in Ranks, o \in Nat : Cell(L, k, c, o) => Plainly(D, k, c, o)

LEMMA NoCells ==
  ASSUME GroupAssumption, NEW L, NEW k, L[k].base \in Nat, L[k].slot \in Nat, L[k].end = L[k].base, NEW D
  PROVE  Serves(L, D, k)
<1> SUFFICES ASSUME NEW c \in Ranks, NEW o \in Nat PROVE ~Cell(L, k, c, o)
  BY DEF Serves
<1>1. PICK b, s, z : b = L[k].base /\ s = L[k].slot /\ z = c * s
  OBVIOUS
<1>2. c \in Nat /\ b \in Nat /\ s \in Nat
  BY <1>1 DEF Ranks, GroupAssumption
<1>3. z \in Nat
  BY <1>1, <1>2
<1>4. ~(b + z + o < b)
  BY <1>2, <1>3
<1> QED
  BY <1>1, <1>4 DEF Cell

(* The cells of a share.                                                   *)
LEMMA ShareCells ==
  ASSUME GroupAssumption, NEW L, NEW k, NEW base, NEW len \in 0..Capacity, PartOf(L, k, base, len),
         NEW c \in Ranks, NEW o \in Nat, Cell(L, k, c, o)
  PROVE  o < Len4(c, len)
<1>1. len \in Nat /\ r \in Nat \ {0} /\ c \in Nat
  BY DEF GroupAssumption, Ranks
<1>2. PICK v \in Nat : v = Clv(len) /\ ChunkLength(len, r) = 4 * v
  BY <1>1, ClvIs
<1>3. L[k].base = base /\ L[k].slot = v /\ L[k].end = base + Groups(len) /\ base \in Nat
  BY <1>2, PartFields DEF PartOf
<1>4. PICK q \in Nat : q = c * v
  BY <1>1, <1>2
<1>5. c * (4 * v) = 4 * q
  BY <1>1, <1>2, <1>4
<1>6. Groups(len) = (len + 3) \div 4 /\ Groups(len) \in Nat
  BY <1>1 DEF Groups, CeilDiv
<1>7. o < v /\ q + o < (len + 3) \div 4
  BY <1>3, <1>4, <1>6 DEF Cell
<1>8. ChunkLen(c, 4 * v, len) = IF 4 * q >= len THEN 0 ELSE Lesser(4 * v, len - 4 * q)
  BY <1>5 DEF ChunkLen
<1>9. 4 * q < len
  BY <1>1, <1>7
<1>10. PICK j \in Nat : j = ChunkLen(c, 4 * v, len) /\ (j = 4 * v \/ j = len - 4 * q)
  BY <1>1, <1>2, <1>8, <1>9 DEF Lesser
<1>11. Len4(c, len) = (j + 3) \div 4
  BY <1>2, <1>10 DEF Len4, Groups, CeilDiv
<1> QED
  BY <1>1, <1>7, <1>10, <1>11

-----------------------------------------------------------------------------
(* Whole shares, dealt out to GPUs and to their SDMA queues.               *)
Atom(p, c, len) == <<p, c, 0, Len4(c, len)>>

ScatterBy(len) == [g \in Ranks |-> {Atom(g, c, len) : c \in Ranks}]
OwnBy(len) == [g \in Ranks |-> {Atom(g, g, len)}]
PushBy(len) == [g \in Ranks |-> {Atom(p, g, len) : p \in Ranks \ {g}}]
PullBy(len) == [g \in Ranks |-> {Atom(g, c, len) : c \in Ranks \ {g}}]
QueueScatterBy(len) == [e \in Ranks \X Ranks |-> {Atom(e[1], e[2], len)}]
QueuePushBy(len) == [e \in Ranks \X Ranks |-> {Atom(e[2], e[1], len)}]

LEMMA AtomFields == \A p, c, len : /\ Atom(p, c, len)[1] = p /\ Atom(p, c, len)[2] = c
                                   /\ Atom(p, c, len)[3] = 0 /\ Atom(p, c, len)[4] = Len4(c, len)
BY DEF Atom

LEMMA AtomShares ==
  ASSUME GroupAssumption, NEW L, NEW k, NEW base, NEW len, PartOf(L, k, base, len),
         NEW kind, NEW C, NEW F,
         \A a \in C : \A x \in F[a] : \E p, c \in Ranks : x = Atom(p, c, len),
         \A a, b \in C : \A x \in F[a], y \in F[b] :
           (a = b /\ x = y) \/ x[2] # y[2] \/ (kind \in {"scatter", "gather"} /\ x[1] # y[1])
  PROVE  Parted(L, kind, k, C, F)
<1>1. ASSUME NEW a \in C, NEW x \in F[a] PROVE InPart(L, k, x)
  <2>1. PICK p, c \in Ranks : x = Atom(p, c, len)
    OBVIOUS
  <2>2. 0 \in Nat /\ Len4(c, len) \in Nat /\ 0 + Len4(c, len) <= Len4(c, len)
    BY SharePlaces
  <2> QED
    BY <2>1, <2>2, ShareInPart DEF Atom
<1> QED
  BY <1>1 DEF Parted, Bounded, Asunder

LEMMA RankShares ==
  ASSUME GroupAssumption, NEW L, NEW k, NEW base, NEW len, PartOf(L, k, base, len),
         NEW C \in SUBSET Ranks
  PROVE  /\ Parted(L, "scatter", k, C, ScatterBy(len))
         /\ Parted(L, "staged", k, C, OwnBy(len)) /\ Parted(L, "direct", k, C, OwnBy(len))
         /\ Parted(L, "gather", k, C, PushBy(len))
         /\ Parted(L, "gather", k, C, PullBy(len))
<1>1. Parted(L, "scatter", k, C, ScatterBy(len))
  <2>1. \A a \in C : \A x \in ScatterBy(len)[a] : x[1] = a /\ \E c \in Ranks : x = Atom(a, c, len) /\ x[2] = c
    BY AtomFields DEF ScatterBy
  <2> QED
    BY <2>1, AtomShares
<1>2. \A a \in C : \A x \in OwnBy(len)[a] : x = Atom(a, a, len) /\ x[2] = a
  BY AtomFields DEF OwnBy
<1>3. Parted(L, "staged", k, C, OwnBy(len)) /\ Parted(L, "direct", k, C, OwnBy(len))
  BY <1>2, AtomShares
<1>4. Parted(L, "gather", k, C, PushBy(len))
  <2>1. \A a \in C : \A x \in PushBy(len)[a] : x[2] = a /\ \E p \in Ranks : x = Atom(p, a, len) /\ x[1] = p
    BY AtomFields DEF PushBy
  <2> QED
    BY <2>1, AtomShares
<1>5. Parted(L, "gather", k, C, PullBy(len))
  <2>1. \A a \in C : \A x \in PullBy(len)[a] : x[1] = a /\ \E c \in Ranks : x = Atom(a, c, len) /\ x[2] = c
    BY AtomFields DEF PullBy
  <2> QED
    BY <2>1, AtomShares
<1> QED
  BY <1>1, <1>3, <1>4, <1>5

LEMMA QueueShares ==
  ASSUME GroupAssumption, NEW L, NEW k, NEW base, NEW len, PartOf(L, k, base, len),
         NEW D \in SUBSET (Ranks \X Ranks)
  PROVE  /\ Parted(L, "scatter", k, D, QueueScatterBy(len))
         /\ Parted(L, "gather", k, D, QueuePushBy(len))
<1>1. \A e \in D : e[1] \in Ranks /\ e[2] \in Ranks /\ e = <<e[1], e[2]>>
  OBVIOUS
<1>2. Parted(L, "scatter", k, D, QueueScatterBy(len))
  <2>1. \A e \in D : \A x \in QueueScatterBy(len)[e] : x = Atom(e[1], e[2], len) /\ x[1] = e[1] /\ x[2] = e[2]
    BY AtomFields DEF QueueScatterBy
  <2>2. ASSUME NEW e \in D, NEW f \in D,
               NEW x \in QueueScatterBy(len)[e], NEW y \in QueueScatterBy(len)[f],
               x[1] = y[1], x[2] = y[2]
        PROVE  e = f /\ x = y
    <3>1. e[1] = f[1] /\ e[2] = f[2] /\ x = Atom(e[1], e[2], len) /\ y = Atom(f[1], f[2], len)
      BY <2>1, <2>2
    <3> QED
      BY <1>1, <3>1
  <2> QED
    BY <1>1, <2>1, <2>2, AtomShares
<1>3. Parted(L, "gather", k, D, QueuePushBy(len))
  <2>1. \A e \in D : \A x \in QueuePushBy(len)[e] : x = Atom(e[2], e[1], len) /\ x[1] = e[2] /\ x[2] = e[1]
    BY AtomFields DEF QueuePushBy
  <2>2. ASSUME NEW e \in D, NEW f \in D,
               NEW x \in QueuePushBy(len)[e], NEW y \in QueuePushBy(len)[f],
               x[1] = y[1], x[2] = y[2]
        PROVE  e = f /\ x = y
    <3>1. e[1] = f[1] /\ e[2] = f[2] /\ x = Atom(e[2], e[1], len) /\ y = Atom(f[2], f[1], len)
      BY <2>1, <2>2
    <3> QED
      BY <1>1, <3>1
  <2> QED
    BY <1>1, <2>1, <2>2, AtomShares
<1> QED
  BY <1>2, <1>3

(* A copy or a sum at its place.                                           *)
PlaceOf(L, k, c, off, at) == at = L[k].base + c * L[k].slot + off
SlotAt(L, k, p, off, to) == to = p * L[k].slot + off

LEMMA PlacedGather ==
  ASSUME NEW L, NEW k, NEW x, NEW p, NEW c, NEW off, NEW m, IsAtom(x, p, c, off, m),
         NEW at, PlaceOf(L, k, c, off, at)
  PROVE  Copy(Buf(c, at), Buf(p, at), m) = Moved(L, Spread(L, "gather", k, {x}))
<1>1. at = L[k].base + c * L[k].slot + off
  BY DEF PlaceOf
<1>2. x[1] = p /\ x[2] = c /\ x[3] = off /\ x[4] = m
  BY DEF IsAtom
<1> QED
  BY <1>1, <1>2, GatherIs

LEMMA PlacedScatter ==
  ASSUME NEW L, NEW k, NEW x, NEW p, NEW c, NEW off, NEW m, IsAtom(x, p, c, off, m),
         NEW at, PlaceOf(L, k, c, off, at),
         NEW to, SlotAt(L, k, p, off, to)
  PROVE  Copy(Buf(p, at), StageOf(k, c, to), m) = Moved(L, Spread(L, "scatter", k, {x}))
<1>1. at = L[k].base + c * L[k].slot + off
  BY DEF PlaceOf
<1>2. x[1] = p /\ x[2] = c /\ x[3] = off /\ x[4] = m
  BY DEF IsAtom
<1>3. to = p * L[k].slot + off
  BY DEF SlotAt
<1> QED
  BY <1>1, <1>2, <1>3, ScatterIs

LEMMA PlacedDirect ==
  ASSUME NEW L, NEW k, NEW x, NEW c, NEW off, NEW m, IsAtom(x, c, c, off, m),
         NEW at, PlaceOf(L, k, c, off, at)
  PROVE  ReducePeers(c, at, m) = <<Moved(L, Spread(L, "direct", k, {x}))>>
<1>1. at = L[k].base + c * L[k].slot + off
  BY DEF PlaceOf
<1>2. x[1] = c /\ x[2] = c /\ x[3] = off /\ x[4] = m
  BY DEF IsAtom
<1> QED
  BY <1>1, DirectIs

LEMMA PlacedStaged ==
  ASSUME NEW L, NEW k, NEW x, NEW c, NEW off, NEW m, IsAtom(x, c, c, off, m),
         NEW at, PlaceOf(L, k, c, off, at),
         Strides(L, k, off)
  PROVE  GatherReduceLocal(StageOf(k, c, off), Buf(c, at), L[k].slot, m)
           = <<Moved(L, Spread(L, "staged", k, {x}))>>
<1>1. at = L[k].base + c * L[k].slot + off
  BY DEF PlaceOf
<1>2. x[1] = c /\ x[2] = c /\ x[3] = off /\ x[4] = m
  BY DEF IsAtom
<1> QED
  BY <1>1, <1>2, StagedIs

(* The operations of several agents, as one phase of moves.                *)
EachMoves(L, kind, k, A, C, f) == \A a \in A : C[a] = Moved(L, Spread(L, kind, k, {f[a]}))
Collects(A, C, U) == \A o : o \in U <=> \E a \in A : o \in C[a]
Lists(A, f, X) == \A x : x \in X <=> \E a \in A : x = f[a]

LEMMA PhaseOf ==
  ASSUME NEW L, NEW kind, NEW k, NEW A, NEW C, NEW f, NEW U, NEW X,
         EachMoves(L, kind, k, A, C, f), Collects(A, C, U), Lists(A, f, X)
  PROVE  U = Moved(L, Spread(L, kind, k, X))
<1>1. /\ \A a \in A : C[a] = Moved(L, Spread(L, kind, k, {f[a]}))
      /\ \A o : o \in U <=> \E a \in A : o \in C[a]
      /\ \A x : x \in X <=> \E a \in A : x = f[a]
  BY DEF EachMoves, Collects, Lists
<1>2. ASSUME NEW o \in U PROVE o \in Moved(L, Spread(L, kind, k, X))
  <2>1. PICK a \in A : o \in C[a]
    BY <1>1
  <2>2. o \in Moved(L, Spread(L, kind, k, {f[a]})) /\ f[a] \in X
    BY <1>1, <2>1
  <2> QED
    BY <2>2 DEF Moved, Spread
<1>3. ASSUME NEW o \in Moved(L, Spread(L, kind, k, X)) PROVE o \in U
  <2>1. PICK x \in X : x[4] # 0 /\ o = Op(L, Mv(L, kind, k, x))
    BY <1>3 DEF Moved, Spread
  <2>2. PICK a \in A : x = f[a]
    BY <1>1
  <2>3. o \in Moved(L, Spread(L, kind, k, {f[a]}))
    <3>1. Moved(L, Spread(L, kind, k, {f[a]})) = {Op(L, Mv(L, kind, k, f[a]))}
      BY <2>1, <2>2, SpreadOne
    <3> QED
      BY <2>1, <2>2, <3>1
  <2> QED
    BY <1>1, <2>3
<1> QED
  BY <1>2, <1>3

(* The kernels of a share.                                                 *)
LEMMA ShareKernels ==
  ASSUME GroupAssumption, NEW L, NEW k, NEW base, NEW len, PartOf(L, k, base, len),
         NEW g \in Ranks
  PROVE  /\ GatherReduceLocal(StageOf(k, g, 0), Buf(g, base + g * Clv(len)), Clv(len), Len4(g, len))
              = Made(L, "staged", k, OwnBy(len)[g])
         /\ \A c \in Ranks :
              /\ Copy(Buf(g, base + c * Clv(len)), StageOf(k, c, g * Clv(len)), Len4(c, len))
                   = Moved(L, Spread(L, "scatter", k, {Atom(g, c, len)}))
              /\ Copy(Buf(c, base + c * Clv(len)), Buf(g, base + c * Clv(len)), Len4(c, len))
                   = Moved(L, Spread(L, "gather", k, {Atom(g, c, len)}))
<1>1. GatherReduceLocal(StageOf(k, g, 0), Buf(g, base + g * Clv(len)), Clv(len), Len4(g, len))
              = Made(L, "staged", k, OwnBy(len)[g])
  <2>1. /\ base + g * Clv(len) = L[k].base + g * L[k].slot + 0
        /\ L[k].slot = Clv(len) /\ Clv(len) \in Nat /\ 0 \in Nat
    BY SharePlaces
  <2>2. OwnBy(len)[g] = {Atom(g, g, len)}
    BY DEF OwnBy
  <2>3. PICK at, m, x, o : /\ at = base + g * Clv(len) /\ m = Len4(g, len) /\ x = Atom(g, g, len)
                           /\ o = 0
    OBVIOUS
  <2>6. IsAtom(x, g, g, o, m)
    BY <2>3, AtomFields DEF IsAtom
  <2>4. PlaceOf(L, k, g, o, at)
    BY <2>1, <2>3 DEF PlaceOf
  <2>7. Strides(L, k, o)
    BY <2>1, <2>3, NatSteps
  <2>5. GatherReduceLocal(StageOf(k, g, o), Buf(g, at), L[k].slot, m)
           = <<Moved(L, Spread(L, "staged", k, {x}))>>
    BY <2>4, <2>6, <2>7, PlacedStaged
  <2> QED
    BY <2>1, <2>2, <2>3, <2>5 DEF Made
<1>2. ASSUME NEW c \in Ranks
      PROVE  /\ Copy(Buf(g, base + c * Clv(len)), StageOf(k, c, g * Clv(len)), Len4(c, len))
                   = Moved(L, Spread(L, "scatter", k, {Atom(g, c, len)}))
             /\ Copy(Buf(c, base + c * Clv(len)), Buf(g, base + c * Clv(len)), Len4(c, len))
                   = Moved(L, Spread(L, "gather", k, {Atom(g, c, len)}))
  <2>1. base + c * Clv(len) = L[k].base + c * L[k].slot + 0
    BY SharePlaces
  <2>2. g * Clv(len) = g * L[k].slot + 0
    BY SharePlaces
  <2>3. PICK at, to, m, x : /\ at = base + c * Clv(len) /\ to = g * Clv(len) /\ m = Len4(c, len)
                            /\ x = Atom(g, c, len)
    OBVIOUS
  <2>7. PICK o : o = 0
    OBVIOUS
  <2>6. IsAtom(x, g, c, o, m)
    BY <2>3, <2>7, AtomFields DEF IsAtom
  <2>4. PlaceOf(L, k, c, o, at) /\ SlotAt(L, k, g, o, to)
    BY <2>1, <2>2, <2>3, <2>7 DEF PlaceOf, SlotAt
  <2>5. /\ Copy(Buf(g, at), StageOf(k, c, to), m) = Moved(L, Spread(L, "scatter", k, {x}))
        /\ Copy(Buf(c, at), Buf(g, at), m) = Moved(L, Spread(L, "gather", k, {x}))
    BY <2>4, <2>6, PlacedScatter, PlacedGather
  <2> QED
    BY <2>3, <2>5
<1> QED
  BY <1>1, <1>2

LEMMA WholeKernels ==
  ASSUME GroupAssumption, NEW L, NEW len, PartOf(L, "stage", 0, len), NEW g \in Ranks
  PROVE  /\ ScatterToStaging(g, len) = Made(L, "scatter", "stage", ScatterBy(len)[g])
         /\ ReduceScatter(g, len) = Made(L, "direct", "stage", OwnBy(len)[g])
         /\ BroadcastChunkSkipOwner(g, len) = Made(L, "gather", "stage", PushBy(len)[g])
         /\ AllGather(g, len) = Made(L, "gather", "stage", PullBy(len)[g])
<1>1. \A c \in Ranks : 0 + c * Clv(len) = c * Clv(len)
  BY SharePlaces
<1>2. \A h, c \in Ranks :
        /\ Copy(Buf(h, c * Clv(len)), StageOf("stage", c, h * Clv(len)), Len4(c, len))
             = Moved(L, Spread(L, "scatter", "stage", {Atom(h, c, len)}))
        /\ Copy(Buf(c, c * Clv(len)), Buf(h, c * Clv(len)), Len4(c, len))
             = Moved(L, Spread(L, "gather", "stage", {Atom(h, c, len)}))
  BY <1>1, ShareKernels
<1>3. ScatterToStaging(g, len) = Made(L, "scatter", "stage", ScatterBy(len)[g])
  <2>1. PICK C, f : /\ f = [c \in Ranks |-> Atom(g, c, len)]
                    /\ C = [c \in Ranks |->
                              Copy(Buf(g, c * Clv(len)), Stage(c, g * Clv(len)), Len4(c, len))]
    OBVIOUS
  <2>2. \A c \in Ranks : C[c] = Moved(L, Spread(L, "scatter", "stage", {f[c]}))
    BY <1>2, <2>1 DEF Stage
  <2>3. PICK U, X : U = UNION {C[c] : c \in Ranks} /\ X = {f[c] : c \in Ranks}
    OBVIOUS
  <2>7. EachMoves(L, "scatter", "stage", Ranks, C, f)
    BY <2>2 DEF EachMoves
  <2>8. Collects(Ranks, C, U) /\ Lists(Ranks, f, X)
    BY <2>3 DEF Collects, Lists
  <2>4. U = Moved(L, Spread(L, "scatter", "stage", X))
    BY <2>7, <2>8, PhaseOf
  <2>5. ScatterToStaging(g, len) = <<U>>
    BY <2>1, <2>3 DEF ScatterToStaging
  <2>6. ScatterBy(len)[g] = X
    BY <2>1, <2>3 DEF ScatterBy
  <2> QED
    BY <2>4, <2>5, <2>6 DEF Made
<1>4. BroadcastChunkSkipOwner(g, len) = Made(L, "gather", "stage", PushBy(len)[g])
  <2>1. PICK C, f, A : /\ f = [p \in Ranks |-> Atom(p, g, len)]
                    /\ C = [p \in Ranks |->
                              Copy(Buf(g, g * Clv(len)), Buf(p, g * Clv(len)), Len4(g, len))]
                    /\ A = Ranks \ {g}
    OBVIOUS
  <2>2. \A p \in A : C[p] = Moved(L, Spread(L, "gather", "stage", {f[p]}))
    BY <1>2, <2>1
  <2>3. PICK U, X : U = UNION {C[p] : p \in A} /\ X = {f[p] : p \in A}
    OBVIOUS
  <2>7. EachMoves(L, "gather", "stage", A, C, f)
    BY <2>2 DEF EachMoves
  <2>8. Collects(A, C, U) /\ Lists(A, f, X)
    BY <2>3 DEF Collects, Lists
  <2>4. U = Moved(L, Spread(L, "gather", "stage", X))
    BY <2>7, <2>8, PhaseOf
  <2>5. BroadcastChunkSkipOwner(g, len) = <<U>>
    BY <2>1, <2>3 DEF BroadcastChunkSkipOwner
  <2>6. PushBy(len)[g] = X
    BY <2>1, <2>3 DEF PushBy
  <2> QED
    BY <2>4, <2>5, <2>6 DEF Made
<1>5. AllGather(g, len) = Made(L, "gather", "stage", PullBy(len)[g])
  <2>1. PICK C, f, A : /\ f = [c \in Ranks |-> Atom(g, c, len)]
                    /\ C = [c \in Ranks |->
                              Copy(Buf(c, c * Clv(len)), Buf(g, c * Clv(len)), Len4(c, len))]
                    /\ A = Ranks \ {g}
    OBVIOUS
  <2>2. \A c \in A : C[c] = Moved(L, Spread(L, "gather", "stage", {f[c]}))
    BY <1>2, <2>1
  <2>3. PICK U, X : U = UNION {C[c] : c \in A} /\ X = {f[c] : c \in A}
    OBVIOUS
  <2>7. EachMoves(L, "gather", "stage", A, C, f)
    BY <2>2 DEF EachMoves
  <2>8. Collects(A, C, U) /\ Lists(A, f, X)
    BY <2>3 DEF Collects, Lists
  <2>4. U = Moved(L, Spread(L, "gather", "stage", X))
    BY <2>7, <2>8, PhaseOf
  <2>5. AllGather(g, len) = <<U>>
    BY <2>1, <2>3 DEF AllGather
  <2>6. PullBy(len)[g] = X
    BY <2>1, <2>3 DEF PullBy
  <2> QED
    BY <2>4, <2>5, <2>6 DEF Made
<1>6. ReduceScatter(g, len) = Made(L, "direct", "stage", OwnBy(len)[g])
  <2>1. PICK at, m, x, o : at = g * Clv(len) /\ m = Len4(g, len) /\ x = Atom(g, g, len) /\ o = 0
    OBVIOUS
  <2>2. IsAtom(x, g, g, o, m)
    BY <2>1, AtomFields DEF IsAtom
  <2>3. PlaceOf(L, "stage", g, o, at)
    <3>1. 0 + g * Clv(len) = L["stage"].base + g * L["stage"].slot + 0
      BY SharePlaces
    <3> QED
      BY <1>1, <2>1, <3>1 DEF PlaceOf
  <2>4. ReducePeers(g, at, m) = <<Moved(L, Spread(L, "direct", "stage", {x}))>>
    BY <2>2, <2>3, PlacedDirect
  <2>5. OwnBy(len)[g] = {x}
    BY <2>1 DEF OwnBy
  <2> QED
    BY <2>1, <2>4, <2>5 DEF Made, ReduceScatter
<1> QED
  BY <1>3, <1>4, <1>5, <1>6

-----------------------------------------------------------------------------
(* Moves in different places.                                              *)
Elsewhere(k, x, h, y) ==
  k # h \/ x[2] # y[2] \/ x[3] + x[4] <= y[3] \/ y[3] + y[4] <= x[3]

LEMMA SpreadElsewhere ==
  ASSUME GroupAssumption, NEW L, Laid(L), NEW kind \in MoveKinds, NEW k \in Kinds,
         NEW knd \in MoveKinds, NEW h \in Kinds,
         NEW X, Bounded(L, k, X), NEW Y, Bounded(L, h, Y),
         \A x \in X, y \in Y : Elsewhere(k, x, h, y)
  PROVE  MovesAllApart(Spread(L, kind, k, X), Spread(L, knd, h, Y))
<1>1. AreMoves(L, Spread(L, kind, k, X)) /\ AreMoves(L, Spread(L, knd, h, Y))
  BY SpreadMoves
<1> SUFFICES ASSUME NEW x \in X, x[4] # 0, NEW y \in Y, y[4] # 0
             PROVE  MovesApart(Mv(L, kind, k, x), Mv(L, knd, h, y))
  BY DEF MovesAllApart, Spread
<1>2. PICK d, e : d = Mv(L, kind, k, x) /\ e = Mv(L, knd, h, y)
  OBVIOUS
<1>3. IsMove(L, d) /\ IsMove(L, e)
  BY <1>1, <1>2 DEF AreMoves, Spread
<1>4. /\ d.k = k /\ d.c = x[2] /\ d.off = x[3] /\ d.len = x[4]
      /\ e.k = h /\ e.c = y[2] /\ e.off = y[3] /\ e.len = y[4]
  BY <1>2, MvFields
<1>5. CASE k # h \/ x[2] # y[2]
  <2>1. ~Meet(d, e)
    BY <1>3, <1>4, <1>5, SameShare
  <2> QED
    BY <1>2, <2>1 DEF MovesApart
<1>6. CASE k = h /\ x[2] = y[2] /\ (x[3] + x[4] <= y[3] \/ y[3] + y[4] <= x[3])
  <2>1. PICK b, z : /\ b = L[k].base /\ z = d.c * L[k].slot
                    /\ b \in Nat /\ z \in Nat /\ d.pos = b + z + d.off
    BY <1>3, <1>4, MovePlaces DEF IsMove, Laid
  <2>2. e.pos = b + z + e.off
    BY <1>3, <1>4, <1>6, <2>1 DEF IsMove
  <2>3. d.off \in Nat /\ d.len \in Nat /\ e.off \in Nat /\ e.len \in Nat
    BY <1>3 DEF IsMove
  <2>4. ~Meet(d, e)
    BY <1>4, <1>6, <2>1, <2>2, <2>3 DEF Meet
  <2> QED
    BY <1>2, <2>4 DEF MovesApart
<1> QED
  BY <1>5, <1>6 DEF Elsewhere

(* A single agent.                                                         *)
LEMMA DealsOne ==
  ASSUME NEW L, NEW kind, NEW k, NEW p, NEW a, NEW X, Handed(p, a, Made(L, kind, k, X)),
         Bounded(L, k, X), \A x, y \in X : x = y \/ Asunder(kind, x, y)
  PROVE  Deals(p, {a}, L, kind, k, X)
<1>1. PICK A, Y, J : A = {a} /\ Y = [b \in A |-> X] /\ J = [b \in A |-> Made(L, kind, k, X)]
  OBVIOUS
<1>2. a \in A /\ (\A b \in A : b = a) /\ Y[a] = X /\ J[a] = Made(L, kind, k, X)
  BY <1>1
<1>3. Hands(p, {a}, J)
  BY <1>2, HandsOne DEF Handed, HandsAgent
<1>4. Spreads(A, J, L, kind, k, Y)
  BY <1>2 DEF Spreads, Made
<1>5. All(A, Y) = X
  BY <1>2 DEF All
<1> QED
  BY <1>1, <1>3, <1>4, <1>5 DEF Deals

-----------------------------------------------------------------------------
(* The moves D serve the shares of a vector.                               *)
Covers(D, kind, k, p, c, len) ==
  \A o \in Nat : o < Len4(c, len) => Reach(D, kind, k, p, c, o)

LEMMA SharesServe ==
  ASSUME GroupAssumption, NEW L, NEW k, NEW base, NEW len \in 0..Capacity, PartOf(L, k, base, len),
         NEW D,
         \A c \in Shares(len) :
           /\ \/ Covers(D, "direct", k, c, c, len)
              \/ Covers(D, "staged", k, c, c, len) /\ \A q \in Ranks : Covers(D, "scatter", k, q, c, len)
           /\ \A p \in Ranks \ {c} : Covers(D, "gather", k, p, c, len)
           /\ \/ \A d \in D : ~(d.k = k /\ d.kind = "staged")
              \/ \A q \in Ranks : Covers(D, "scatter", k, q, c, len)
  PROVE  Serves(L, D, k)
<1> SUFFICES ASSUME NEW c \in Ranks, NEW o \in Nat, Cell(L, k, c, o) PROVE Plainly(D, k, c, o)
  BY DEF Serves
<1>1. o < Len4(c, len)
  BY ShareCells
<1>2. c \in Shares(len)
  BY <1>1 DEF Shares
<1>3. \A kind, p : Covers(D, kind, k, p, c, len) => Reach(D, kind, k, p, c, o)
  BY <1>1 DEF Covers
<1>4. Summed(D, k, c, o)
  BY <1>2, <1>3 DEF Summed
<1>5. Gathered(D, k, c, o)
  BY <1>2, <1>3 DEF Gathered
<1> QED
  BY <1>2, <1>3, <1>4, <1>5 DEF Plainly

LEMMA AtomCovers ==
  ASSUME GroupAssumption, NEW L, NEW k, NEW base, NEW len, PartOf(L, k, base, len),
         NEW kind, NEW X, NEW p, NEW c \in Ranks, Atom(p, c, len) \in X,
         NEW D, Spread(L, kind, k, X) \subseteq D
  PROVE  Covers(D, kind, k, p, c, len)
<1> SUFFICES ASSUME NEW o \in Nat, o < Len4(c, len) PROVE Reach(D, kind, k, p, c, o)
  BY DEF Covers
<1>1. Len4(c, len) \in Nat /\ 0 \in Nat
  BY SharePlaces
<1>2. PICK m, z : m = Len4(c, len) /\ z = 0
  OBVIOUS
<1>3. <<p, c, z, m>> \in X /\ z \in Nat /\ m \in Nat /\ z <= o /\ o < z + m
  BY <1>1, <1>2 DEF Atom
<1>4. Reach(Spread(L, kind, k, X), kind, k, p, c, o)
  BY <1>3, SpreadReach
<1> QED
  BY <1>4, ReachMore

-----------------------------------------------------------------------------
(* A program of the host: in order, and serving the part k of the vector.  *)
Runs(p, L, D) == Orderly(p, L, D, {}) /\ Serves(L, D, "stage") /\ Serves(L, D, "stage_b")

(* The direct scheme: one share, of GPU 0.                                 *)
LEMMA DirectRuns ==
  ASSUME GroupAssumption, r >= 2, NEW len, ShareFacts(len)
  PROVE  \E D : Runs(Direct(len), Whole(Groups(len), Groups(len)), D)
<1>1. PICK G \in Nat : G = Groups(len)
  BY DEF ShareFacts
<1>2. PICK L : L = Whole(G, G)
  OBVIOUS
<1>3. /\ Laid(L) /\ L["stage"].base = 0 /\ L["stage"].slot = G /\ L["stage"].end = G
      /\ L["stage_b"].base = G /\ L["stage_b"].slot = 0 /\ L["stage_b"].end = G
      /\ "stage" \in Kinds
  BY <1>2, WholeLaid DEF Whole, Layout, Part, Kinds
<1>4. 0 \in Ranks /\ Ranks \in SUBSET Nat
  BY DEF GroupAssumption, Ranks
<1>5. PICK T \in SUBSET Ranks :
        /\ Ranks \ {0} \subseteq T
        /\ BroadcastPeers(len) = <<UNION {Copy(Buf(0, 0), Buf(p, 0), G) : p \in T}>>
  <2>1. PICK T : T = IF len >= SkipOwnFrom THEN Ranks \ {0} ELSE Ranks
    OBVIOUS
  <2>2. T \in SUBSET Ranks /\ Ranks \ {0} \subseteq T
    BY <2>1
  <2>3. BroadcastPeers(len) = <<UNION {Copy(Buf(0, 0), Buf(p, 0), G) : p \in T}>>
    BY <1>1, <2>1 DEF BroadcastPeers
  <2> QED
    BY <2>2, <2>3
<1>6. PICK f, z : f = [p \in Ranks |-> <<p, 0, 0, G>>] /\ z = 0
  OBVIOUS
<1>7. \A p \in Ranks : IsAtom(f[p], p, z, z, G) /\ InPart(L, "stage", f[p])
  BY <1>1, <1>3, <1>4, <1>6 DEF IsAtom, InPart
<1>8. PlaceOf(L, "stage", z, z, z)
  BY <1>1, <1>3, <1>6 DEF PlaceOf
<1>9. PICK X, Y : X = {f[0]} /\ Y = {f[p] : p \in T}
  OBVIOUS
<1>10. ReducePeers(0, 0, G) = Made(L, "direct", "stage", X)
  <2>1. IsAtom(f[0], z, z, z, G)
    BY <1>4, <1>6, <1>7
  <2>2. ReducePeers(z, z, G) = <<Moved(L, Spread(L, "direct", "stage", {f[0]}))>>
    BY <1>8, <2>1, PlacedDirect
  <2> QED
    BY <1>6, <1>9, <2>2 DEF Made
<1>11. BroadcastPeers(len) = Made(L, "gather", "stage", Y)
  <2>1. PICK C : C = [p \in Ranks |-> Copy(Buf(z, z), Buf(p, z), G)]
    OBVIOUS
  <2>2. ASSUME NEW p \in Ranks PROVE C[p] = Moved(L, Spread(L, "gather", "stage", {f[p]}))
    <3>1. IsAtom(f[p], p, z, z, G)
      BY <1>7
    <3>2. Copy(Buf(z, z), Buf(p, z), G) = Moved(L, Spread(L, "gather", "stage", {f[p]}))
      BY <1>8, <3>1, PlacedGather
    <3> QED
      BY <2>1, <3>2
  <2>3. PICK U : U = UNION {C[p] : p \in T}
    OBVIOUS
  <2>4. EachMoves(L, "gather", "stage", T, C, f)
    BY <2>2 DEF EachMoves
  <2>5. Collects(T, C, U) /\ Lists(T, f, Y)
    BY <1>9, <2>3 DEF Collects, Lists
  <2>6. U = Moved(L, Spread(L, "gather", "stage", Y))
    BY <2>4, <2>5, PhaseOf
  <2>7. BroadcastPeers(len) = <<U>>
    BY <1>5, <1>6, <2>1, <2>3
  <2> QED
    BY <2>6, <2>7 DEF Made
<1>12. /\ Bounded(L, "stage", X) /\ Bounded(L, "stage", Y)
       /\ \A x, y \in X : x = y \/ Asunder("direct", x, y)
       /\ \A x, y \in Y : x = y \/ Asunder("gather", x, y)
  <2>1. \A p \in Ranks : f[p][1] = p
    BY <1>7 DEF IsAtom
  <2> QED
    <3>1. Bounded(L, "stage", X) /\ Bounded(L, "stage", Y)
      BY <1>4, <1>7, <1>9 DEF Bounded
    <3>2. \A x, y \in X : x = y
      BY <1>9
    <3>3. ASSUME NEW x \in Y, NEW y \in Y, x # y PROVE Asunder("gather", x, y)
      <4>1. PICK p \in T, q \in T : x = f[p] /\ y = f[q]
        BY <1>9
      <4>2. x[1] # y[1]
        BY <2>1, <3>3, <4>1
      <4> QED
        BY <4>2 DEF Asunder
    <3> QED
      BY <3>1, <3>2, <3>3
<1>13. PICK w1, w2, v : /\ w1 = Arm(Cu(0), ReducePeers(0, 0, G)) /\ v = Wait(Cu(0))
                        /\ w2 = Arm(Cu(0), BroadcastPeers(len))
  OBVIOUS
<1>14. Deals(w1, {Cu(0)}, L, "direct", "stage", X) /\ Deals(w2, {Cu(0)}, L, "gather", "stage", Y)
  BY <1>10, <1>11, <1>12, <1>13, DealsOne DEF Handed
<1>15. WaitBlock(v, {Cu(0)})
  BY <1>13, WaitOne
<1>16. PICK E, D : E = Spread(L, "direct", "stage", X) /\ D = E \cup Spread(L, "gather", "stage", Y)
  OBVIOUS
<1>17. Tidy(w1 \o v, L, E)
  BY <1>3, <1>14, <1>15, <1>16, DealRound DEF MoveKinds
<1>18. \A d \in E : Lvl(d) < KindLvl("gather")
  BY <1>16, SpreadLvl DEF KindLvl
<1>19. Tidy(((w1 \o v) \o w2) \o v, L, D)
  BY <1>3, <1>14, <1>15, <1>16, <1>17, <1>18, NextDealRound DEF MoveKinds
<1>20. Direct(len) = ((w1 \o v) \o w2) \o v
  <2>1. r # 1
    BY DEF GroupAssumption
  <2> QED
    BY <1>1, <1>13, <2>1 DEF Direct
<1>21. Serves(L, D, "stage")
  <2> SUFFICES ASSUME NEW c \in Ranks, NEW o \in Nat, Cell(L, "stage", c, o)
               PROVE  Plainly(D, "stage", c, o)
    BY DEF Serves
  <2>1. c = 0 /\ o < G
    <3>1. c \in Nat
      BY <1>4
    <3>2. PICK q \in Nat : q = c * G
      BY <3>1
    <3>3. q + o < G
      BY <1>3, <3>2 DEF Cell
    <3>4. c >= 1 => q >= G
      BY <3>1, <3>2
    <3> QED
      BY <3>1, <3>2, <3>3, <3>4
  <2>2. ASSUME NEW kind, NEW Z, Spread(L, kind, "stage", Z) \subseteq D, NEW p, f[p] \in Z, p \in Ranks
        PROVE  Reach(D, kind, "stage", p, c, o)
    <3>1. <<p, z, z, G>> \in Z /\ z \in Nat /\ z <= o /\ o < z + G
      BY <1>6, <2>1, <2>2
    <3>2. Reach(Spread(L, kind, "stage", Z), kind, "stage", p, z, o)
      BY <3>1, SpreadReach
    <3> QED
      BY <1>6, <2>1, <2>2, <3>2, ReachMore
  <2>3. Reach(D, "direct", "stage", c, c, o)
    <3>1. Spread(L, "direct", "stage", X) \subseteq D /\ f[0] \in X
      BY <1>9, <1>16
    <3> QED
      BY <1>4, <2>1, <2>2, <3>1
  <2>4. \A p \in Ranks \ {c} : Reach(D, "gather", "stage", p, c, o)
    <3>1. Spread(L, "gather", "stage", Y) \subseteq D
      BY <1>16
    <3>2. \A p \in Ranks \ {c} : f[p] \in Y
      BY <1>5, <1>9, <2>1
    <3> QED
      BY <2>2, <3>1, <3>2
  <2>5. \A d \in D : d.kind # "staged"
    BY <1>16, MvFields DEF Spread
  <2> QED
    BY <2>3, <2>4, <2>5 DEF Plainly, Summed, Gathered
<1>22. Serves(L, D, "stage_b")
  BY <1>3, NoCells
<1>23. Orderly(Direct(len), L, D, {})
  BY <1>19, <1>20 DEF Tidy
<1> QED
  BY <1>1, <1>2, <1>21, <1>22, <1>23 DEF Runs

-----------------------------------------------------------------------------
(* The vector as one part.                                                 *)
LEMMA VectorFacts ==
  ASSUME GroupAssumption, NEW len, ShareFacts(len)
  PROVE  /\ Laid(Vector(len)) /\ PartOf(Vector(len), "stage", 0, len) /\ "stage" \in Kinds
         /\ \A D : Serves(Vector(len), D, "stage_b")
<1>1. PICK s \in Nat, e \in Nat : s = Clv(len) /\ e = Groups(len)
  BY DEF ShareFacts
<1>2. PICK L : L = Whole(s, e)
  OBVIOUS
<1>3. Vector(len) = L
  BY <1>1, <1>2 DEF Vector
<1>4. Laid(L) /\ L["stage"] = Part(0, s, 0 + e)
  BY <1>2, WholeLaid
<1>5. PartOf(L, "stage", 0, len)
  BY <1>1, <1>4 DEF PartOf
<1>6. L["stage_b"].base = e /\ L["stage_b"].slot = 0 /\ L["stage_b"].end = e
  BY <1>2 DEF Whole, Layout, Part, Kinds
<1>7. \A D : Serves(L, D, "stage_b")
  BY <1>6, NoCells
<1> QED
  BY <1>3, <1>4, <1>5, <1>7 DEF Kinds

(* Two turns of the same queues, each GPU's within one share.              *)
LEMMA SecondTurnDeals ==
  ASSUME GroupAssumption, r >= 2, NEW L, Laid(L), NEW k \in Kinds,
         NEW kind \in MoveKinds, NEW knd \in MoveKinds, KindLvl(kind) < KindLvl(knd),
         NEW q, NEW C \in SUBSET Ranks, NEW F, NEW G,
         Parted(L, kind, k, C, F), Parted(L, knd, k, C, G),
         \A c, d \in C : c # d => \A x \in F[c], y \in G[d] : x[2] # y[2],
         NEW s, QueueDealt(s, q, C, L, kind, k, F), NEW t, QueueDealt(t, q, C, L, knd, k, G)
  PROVE  Orderly(FlattenSeq(s) \o FlattenSeq(t), L,
                 Spread(L, kind, k, All(C, F)) \cup Spread(L, knd, k, All(C, G)), {})
<1>1. PICK A, X, Y : A = Queues(q, C) /\ X = OfQueues(q, C, F) /\ Y = OfQueues(q, C, G)
  OBVIOUS
<1>2. PICK J : /\ Hands(FlattenSeq(s), A, J) /\ Spreads(A, J, L, kind, k, X)
               /\ All(A, X) = All(C, F)
  BY <1>1, QueueHanded
<1>3. PICK K : /\ Hands(FlattenSeq(t), A, K) /\ Spreads(A, K, L, knd, k, Y)
               /\ All(A, Y) = All(C, G)
  BY <1>1, QueueHanded
<1>4. PICK D, E : D = Shared(A, L, kind, k, X) /\ E = Shared(A, L, knd, k, Y)
  OBVIOUS
<1>5. Team(A, J, L, D) /\ All(A, D) = Spread(L, kind, k, All(C, F))
  BY <1>2, <1>4, SpreadTeam
<1>6. Team(A, K, L, E) /\ All(A, E) = Spread(L, knd, k, All(C, G))
  BY <1>3, <1>4, SpreadTeam
<1>7. ASSUME NEW a \in A, NEW b \in A
      PROVE  IF a = b THEN MovesAllAfter(D[a], E[b]) ELSE MovesAllApart(D[a], E[b])
  <2>1. D[a] = Spread(L, kind, k, X[a]) /\ E[b] = Spread(L, knd, k, Y[b])
    BY <1>4 DEF Shared
  <2>2. CASE a = b
    BY <2>1, <2>2, SpreadAfter
  <2>3. CASE a # b
    <3>1. PICK c \in C, d \in C : a = Queue(q, c) /\ b = Queue(q, d) /\ c # d
      BY <1>1, <2>3 DEF Queues
    <3>2. X[a] = F[c] /\ Y[b] = G[d]
      BY <1>1, <3>1, NamesOfAgents DEF OfQueues
    <3>3. Bounded(L, k, X[a]) /\ Bounded(L, k, Y[b])
      BY <1>2, <1>3 DEF Spreads
    <3>4. \A x \in X[a], y \in Y[b] : Elsewhere(k, x, k, y)
      BY <3>1, <3>2 DEF Elsewhere
    <3>5. MovesAllApart(D[a], E[b])
      BY <2>1, <3>3, <3>4, SpreadElsewhere
    <3> QED
      BY <2>3, <3>5
  <2> QED
    BY <2>2, <2>3
<1>8. Orderly(FlattenSeq(s) \o FlattenSeq(t), L, All(A, D) \cup All(A, E), {})
  BY <1>2, <1>3, <1>5, <1>6, <1>7, SecondTurn
<1> QED
  BY <1>5, <1>6, <1>8
=============================================================================
