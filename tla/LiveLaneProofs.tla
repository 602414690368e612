--------------------------- MODULE LiveLaneProofs ---------------------------
(***************************************************************************)
(* Proofs about the KV-block lease pool and the live lane around it, for   *)
(* any requests, capacity, table length, queue limit and decode steps.     *)
(*                                                                         *)
(* 1. The pool.  Its step lemmas say what each operation does to PoolInv,  *)
(*    whoever calls it, and carry PoolInv through the steps of the lane.   *)
(* 2. The lane.  What holds it together is that every request is in one    *)
(*    place at a time: with its handler, in the channel, with the worker   *)
(*    as cur, or in active.  From that follow who owns a lease, when a     *)
(*    reply may be there, and what the shared runner holds.                *)
(* 3. The refinement.  The lane's threads implement LaneService.  Beyond   *)
(*    LaneInv this takes the step counts, the truth of the outcome the     *)
(*    worker is about to report, and the arithmetic that makes a lease a   *)
(*    slot.                                                                *)
(***************************************************************************)
EXTENDS LiveLane, FiniteSetTheorems, SequenceTheorems, TLAPS

-----------------------------------------------------------------------------
(* 1. The lease pool.                                                      *)

(* The gauge counts the blocks outside the free list, and they are the     *)
(* leased ones: releasing a table can only take away what was counted.     *)
PoolInv ==
  /\ PoolTypeOK
  /\ LeaseExclusive
  /\ LeaseComplete
  /\ GaugeExact

-----------------------------------------------------------------------------
(* Counting the blocks outside the free list when a table moves.           *)
LEMMA TakenCount ==
  ASSUME NEW F \in SUBSET Block, NEW T \in SUBSET F
  PROVE  /\ Cardinality(T) \in Nat
         /\ Cardinality(Block \ F) \in Nat
         /\ Cardinality(Block \ (F \ T)) = Cardinality(Block \ F) + Cardinality(T)
<1>1. IsFiniteSet(Block \ F) /\ IsFiniteSet(T)
  BY PoolAssumption, FS_Subset, T \in SUBSET Block, Block \ F \in SUBSET Block
<1>2. (Block \ F) \cap T = {}
  OBVIOUS
<1>3. Block \ (F \ T) = (Block \ F) \cup T
  OBVIOUS
<1>4. Cardinality((Block \ F) \cap T) = 0
  BY <1>2, FS_EmptySet
<1>5. Cardinality((Block \ F) \cup T)
        = Cardinality(Block \ F) + Cardinality(T) - Cardinality((Block \ F) \cap T)
  BY <1>1, FS_Union
<1>6. Cardinality(T) \in Nat /\ Cardinality(Block \ F) \in Nat
  BY <1>1, FS_CardinalityType
<1>7. Cardinality((Block \ F) \cup T) = Cardinality(Block \ F) + Cardinality(T)
  BY <1>4, <1>5, <1>6
<1> QED
  BY <1>3, <1>6, <1>7, Zenon

LEMMA ReturnedCount ==
  ASSUME NEW F \in SUBSET Block, NEW T \in SUBSET (Block \ F)
  PROVE  /\ Cardinality(T) \in Nat
         /\ Cardinality(Block \ F) - Cardinality(T) \in Nat
         /\ Cardinality(Block \ (F \cup T)) = Cardinality(Block \ F) - Cardinality(T)
<1> DEFINE G == F \cup T
<1>1. G \in SUBSET Block /\ T \in SUBSET G
  OBVIOUS
<1>2. /\ Cardinality(T) \in Nat
      /\ Cardinality(Block \ G) \in Nat
      /\ Cardinality(Block \ (G \ T)) = Cardinality(Block \ G) + Cardinality(T)
  <2> HIDE DEF G
  <2> QED BY <1>1, TakenCount
<1>3. G \ T = F
  OBVIOUS
<1> HIDE DEF G
<1>4. Cardinality(Block \ F) = Cardinality(Block \ G) + Cardinality(T)
  BY <1>2, <1>3
<1>5. Cardinality(Block \ G) = Cardinality(Block \ F) - Cardinality(T)
  BY <1>2, <1>4
<1> QED
  BY <1>2, <1>5 DEF G

-----------------------------------------------------------------------------
(* What each operation does to the invariant.                              *)
LEMMA PoolInitInv == PoolInit => PoolInv
<1> SUFFICES ASSUME PoolInit PROVE PoolInv
  OBVIOUS
<1>1. Cardinality(Block \ free) = 0
  <2>1. Block \ free = {}
    BY DEF PoolInit
  <2> QED BY <2>1, FS_EmptySet
<1> QED
  BY <1>1, PoolAssumption
  DEF PoolInit, PoolInv, PoolTypeOK, LeaseExclusive, LeaseComplete, GaugeExact

LEMMA TakeKeepsPoolInv ==
  ASSUME NEW r \in Request, PoolInv, lease[r] = {}, TryAcquireTake(r)
  PROVE  PoolInv'
<1> USE DEF PoolInv
<1>1. PICK table \in SUBSET free :
        /\ Cardinality(table) = BlocksPerRequest
        /\ lease' = [lease EXCEPT ![r] = table]
        /\ free' = free \ table
  BY DEF TryAcquireTake
<1>2. poolLock = NoRequest /\ poolLock' = r /\ inUse' = inUse
  BY DEF TryAcquireTake
<1>3. PoolTypeOK'
  BY <1>1, <1>2 DEF PoolTypeOK
<1>4. LeaseExclusive'
  BY <1>1 DEF PoolTypeOK, LeaseExclusive
<1>5. LeaseComplete'
  BY <1>1 DEF PoolTypeOK, LeaseComplete
<1>6. GaugeExact'
  <2>1. lease'[r] = table
    BY <1>1 DEF PoolTypeOK
  <2>2. r # NoRequest
    BY PoolAssumption
  <2>3. inUse = Cardinality(Block \ free)
    BY <1>2 DEF GaugeExact, PoolTypeOK
  <2>4. Cardinality(Block \ free') = Cardinality(Block \ free) + Cardinality(table)
    BY <1>1, TakenCount DEF PoolTypeOK
  <2> QED
    BY <1>2, <2>1, <2>2, <2>3, <2>4 DEF GaugeExact
<1> QED
  BY <1>3, <1>4, <1>5, <1>6

LEMMA PublishKeepsPoolInv ==
  ASSUME NEW r \in Request, PoolInv, TryAcquirePublish(r)
  PROVE  PoolInv'
<1> USE DEF PoolInv, TryAcquirePublish
<1>1. r # NoRequest
  BY PoolAssumption
<1>2. Cardinality(lease[r]) \in Nat
  BY PoolAssumption, FS_Subset, FS_CardinalityType DEF PoolTypeOK
<1>3. PoolTypeOK'
  BY <1>2 DEF PoolTypeOK
<1>4. GaugeExact'
  BY <1>1, <1>2 DEF PoolTypeOK, GaugeExact
<1> QED
  BY <1>3, <1>4 DEF LeaseExclusive, LeaseComplete

LEMMA ReleaseKeepsPoolInv ==
  ASSUME NEW r \in Request, PoolInv, ReleaseBlocks(r)
  PROVE  PoolInv'
<1> USE DEF PoolInv, ReleaseBlocks
<1>1. lease[r] \in SUBSET (Block \ free)
  BY DEF PoolTypeOK, LeaseExclusive
<1>2. inUse = Cardinality(Block \ free)
  BY DEF PoolTypeOK, GaugeExact
<1>3. /\ Cardinality(lease[r]) \in Nat
      /\ Cardinality(Block \ free) - Cardinality(lease[r]) \in Nat
      /\ Cardinality(Block \ free') = Cardinality(Block \ free) - Cardinality(lease[r])
  BY <1>1, ReturnedCount DEF PoolTypeOK
<1>4. PoolTypeOK'
  BY <1>1, <1>2, <1>3 DEF PoolTypeOK
<1>5. LeaseExclusive'
  BY DEF PoolTypeOK, LeaseExclusive
<1>6. LeaseComplete'
  BY DEF PoolTypeOK, LeaseComplete
<1>7. GaugeExact'
  BY <1>2, <1>3 DEF GaugeExact
<1> QED
  BY <1>4, <1>5, <1>6, <1>7

LEMMA StutterKeepsPoolInv ==
  ASSUME PoolInv, UNCHANGED poolVars
  PROVE  PoolInv'
BY DEF PoolInv, poolVars, PoolTypeOK, LeaseExclusive, LeaseComplete, GaugeExact

-----------------------------------------------------------------------------
(* In every interleaving of acquires, denials and releases the blocks are  *)
(* shared out exactly, the tables are full and the gauge is right.         *)
THEOREM PoolInvariant == PoolSpec => []PoolInv
<1>1. PoolInit => PoolInv
  BY PoolInitInv
<1>2. PoolInv /\ [PoolNext]_poolVars => PoolInv'
  <2> SUFFICES ASSUME PoolInv, [PoolNext]_poolVars PROVE PoolInv'
    OBVIOUS
  <2>1. ASSUME NEW r \in Request, lease[r] = {}, TryAcquireDenied(r) PROVE PoolInv'
    BY <2>1, StutterKeepsPoolInv DEF TryAcquireDenied
  <2>2. ASSUME NEW r \in Request, lease[r] = {}, TryAcquireTake(r) PROVE PoolInv'
    BY <2>2, TakeKeepsPoolInv
  <2>3. ASSUME NEW r \in Request, TryAcquirePublish(r) PROVE PoolInv'
    BY <2>3, PublishKeepsPoolInv
  <2>4. ASSUME NEW r \in Request, ReleaseBlocks(r) PROVE PoolInv'
    BY <2>4, ReleaseKeepsPoolInv
  <2>5. CASE UNCHANGED poolVars
    BY <2>5, StutterKeepsPoolInv
  <2> QED
    BY <2>1, <2>2, <2>3, <2>4, <2>5 DEF PoolNext
<1> QED
  BY <1>1, <1>2, PTL DEF PoolSpec

(* kv_blocks_in_use never goes below zero and is the number of blocks out  *)
(* of the free list whenever the mutex is free (try_acquire,               *)
(* release_blocks).                                                        *)
THEOREM PoolGaugeExact == PoolSpec => []GaugeExact
<1>1. PoolInv => GaugeExact
  BY DEF PoolInv
<1> QED
  BY <1>1, PoolInvariant, PTL

(* try_acquire never hands out a short block table. *)
THEOREM PoolLeaseComplete == PoolSpec => []LeaseComplete
<1>1. PoolInv => LeaseComplete
  BY DEF PoolInv
<1> QED
  BY <1>1, PoolInvariant, PTL

(* No block is ever in two leases, leased and free, or lost. *)
THEOREM PoolLeaseExclusive == PoolSpec => []LeaseExclusive
<1>1. PoolInv => LeaseExclusive
  BY DEF PoolInv
<1> QED
  BY <1>1, PoolInvariant, PTL

-----------------------------------------------------------------------------
(* 2. The lane.                                                            *)

(* The handler has not sent the request to the worker (or never will). *)
Unsent == {"start", "over", "counted", "denied", "acquiring", "leased"}
            \cup Rejections
Leasing == {"acquiring", "leased"}
Finishing == {"fin_release", "fin_count", "fin_reply", "fin_drop"}
Distinct(s) == \A i, j \in 1..Len(s) : s[i] = s[j] => i = j

(* TypeOK without the counters and the vector index. *)
PlaceTypes ==
  /\ hpc \in [Request -> Unsent \cup {"waiting", "streaming", "broke", "ended"}
                         \cup Outcomes]
  /\ chan \in Seq(Request)
  /\ wpc \in {"top", "recv", "drain", "check_free", "check_gauge", "admit",
              "decode", "run", "emit"} \cup Finishing
  /\ active \in Seq(Request)
  /\ idx \in Nat
  /\ cur \in Request \cup {NoRequest}
  /\ fin \in [kind : Kinds \cup {None}, resume : {None, "drain", "decode"}]
  /\ reply \in [Request -> Kinds \cup {None}]

FlagTypes ==
  /\ gone \in [Request -> BOOLEAN]
  /\ cancelled \in [Request -> BOOLEAN]
  /\ events \in [Request -> Nat]
  /\ inFlight \in BOOLEAN
  /\ opened \in {"nothing", "device", "runner"}
  /\ hung \in SUBSET Request

GpuTypes ==
  /\ generated \in [Request -> Nat]
  /\ runner \in Snapshot
  /\ saved \in [Request -> Snapshot]
  /\ page \in [Block -> Request \cup {NoRequest}]

(* Each request is in one place, and only after it was sent. *)
Places ==
  /\ Distinct(chan)
  /\ Distinct(active)
  /\ \A r \in Elements(chan) : r \notin Elements(active)
  /\ cur \notin Elements(chan) /\ cur \notin Elements(active)
  /\ \A r \in Request : InService(r) => hpc[r] \notin Unsent
  /\ cur = NoRequest <=> wpc \notin {"admit"} \cup Finishing

(* Where the worker is tells where it goes on. *)
Control ==
  /\ wpc \in {"run", "emit"} => idx \in 1..Len(active)
  /\ wpc = "decode" => idx > 0
  /\ wpc \in Finishing => fin.kind # None /\ fin.resume # None
  /\ wpc \in Finishing /\ fin.resume = "decode" => idx > 0

(* The request has its answer: it was sent, and it is out of service or at *)
(* the very end of it.                                                     *)
Settled(r) ==
  hpc[r] \notin Unsent /\ (InService(r) => r = cur /\ wpc = "fin_drop")

(* A lease is held from its acquisition to the first step of the finish.   *)
Held(r) ==
  \/ hpc[r] \in Leasing
  \/ r \in Elements(chan) \cup Elements(active)
  \/ r = cur /\ wpc \in {"admit", "fin_release"}

Leases ==
  /\ \A r \in Request : lease[r] # {} <=> Held(r)
  /\ \A r \in Request : poolLock = r <=> hpc[r] = "acquiring"

Replies ==
  /\ \A r \in Request : reply[r] # None <=> Settled(r)
  /\ \A r \in Request : hpc[r] = "ended" => ~SenderAlive(r)

(* The device state of r as the lane's own records have it. *)
StateOf(r) == [table |-> lease[r], step |-> generated[r]]
Stepping(r) == wpc \in {"run", "emit"} /\ r = active[idx]

(* Between steps an active request's state is in its snapshot, during its  *)
(* step it is in the runner; its pages hold its own KV all the time.       *)
Decoding ==
  /\ \A r \in Request :
       hpc[r] \in Unsent \/ r \in Elements(chan) \/ (r = cur /\ wpc = "admit")
         => generated[r] = 0
  /\ \A r \in Elements(active) :
       IF Stepping(r) THEN runner = StateOf(r) ELSE saved[r] = StateOf(r)
  /\ \A r \in Elements(active) : \A b \in lease[r] : page[b] = r

Types == PlaceTypes /\ FlagTypes /\ GpuTypes
Structure == Places /\ Control /\ Leases /\ Replies /\ Decoding
LaneInv == PoolInv /\ Types /\ Structure

-----------------------------------------------------------------------------
(* What the channel and the active vector contain after a step. *)
LEMMA AppendElements ==
  ASSUME NEW s \in Seq(Request), NEW r \in Request, Distinct(s), r \notin Elements(s)
  PROVE  /\ Append(s, r) \in Seq(Request)
         /\ Elements(Append(s, r)) = Elements(s) \cup {r}
         /\ Distinct(Append(s, r))
         /\ Len(Append(s, r)) = Len(s) + 1
<1>1. /\ Len(s) \in Nat
      /\ Append(s, r) \in Seq(Request)
      /\ Len(Append(s, r)) = Len(s) + 1
      /\ \A i \in 1..Len(s) : Append(s, r)[i] = s[i]
      /\ Append(s, r)[Len(s) + 1] = r
  BY AppendProperties
<1> DEFINE t == Append(s, r)
<1> HIDE DEF t
<1>2. Elements(t) = Elements(s) \cup {r}
  <2>1. Elements(t) \subseteq Elements(s) \cup {r}
    BY <1>1 DEF Elements, t
  <2>2. Elements(s) \subseteq Elements(t)
    BY <1>1 DEF Elements, t
  <2>3. r \in Elements(t)
    BY <1>1 DEF Elements, t
  <2> QED BY <2>1, <2>2, <2>3
<1>3. Distinct(t)
  BY <1>1 DEF Distinct, Elements, t
<1> QED
  BY <1>1, <1>2, <1>3 DEF t

LEMMA HeadElements ==
  ASSUME NEW s \in Seq(Request), s # <<>>, Distinct(s)
  PROVE  /\ Tail(s) \in Seq(Request)
         /\ Head(s) \in Request
         /\ Elements(s) = Elements(Tail(s)) \cup {Head(s)}
         /\ Head(s) \notin Elements(Tail(s))
         /\ Distinct(Tail(s))
         /\ Len(Tail(s)) = Len(s) - 1
<1>1. Len(s) \in Nat \ {0}
  BY EmptySeq
<1>2. /\ Tail(s) \in Seq(Request)
      /\ Head(s) \in Request
      /\ Len(Tail(s)) = Len(s) - 1
      /\ Head(s) = s[1]
      /\ \A i \in 1..Len(Tail(s)) : Tail(s)[i] = s[i + 1]
  BY <1>1, HeadTailProperties
<1> DEFINE t == Tail(s)
           h == Head(s)
<1> HIDE DEF t, h
<1>3. Elements(s) = Elements(t) \cup {h}
  <2>1. ASSUME NEW i \in 1..Len(s) PROVE s[i] \in Elements(t) \cup {h}
    <3>1. CASE i = 1
      BY <3>1, <1>2 DEF h
    <3>2. CASE i # 1
      <4>1. i - 1 \in 1..Len(t) /\ t[i - 1] = s[i]
        BY <3>2, <1>1, <1>2 DEF t
      <4> QED BY <4>1 DEF Elements
    <3> QED BY <3>1, <3>2
  <2>2. \A i \in 1..Len(t) : t[i] \in Elements(s)
    BY <1>1, <1>2 DEF Elements, t
  <2>3. h \in Elements(s)
    BY <1>1, <1>2 DEF Elements, h
  <2>4. Elements(t) \subseteq Elements(s)
    BY <2>2 DEF Elements
  <2>5. Elements(s) \subseteq Elements(t) \cup {h}
    BY <2>1 DEF Elements
  <2> QED BY <2>3, <2>4, <2>5
<1>4. h \notin Elements(t)
  BY <1>1, <1>2 DEF Elements, Distinct, t, h
<1>5. Distinct(t)
  BY <1>1, <1>2 DEF Distinct, t
<1> QED
  BY <1>2, <1>3, <1>4, <1>5 DEF t, h

LEMMA WithoutElements ==
  ASSUME NEW s \in Seq(Request), NEW k \in 1..Len(s), Distinct(s)
  PROVE  /\ s[k] \in Request
         /\ Without(s, k) \in Seq(Request)
         /\ Elements(s) = Elements(Without(s, k)) \cup {s[k]}
         /\ s[k] \notin Elements(Without(s, k))
         /\ Distinct(Without(s, k))
<1> DEFINE a == SubSeq(s, 1, k - 1)
           b == SubSeq(s, k + 1, Len(s))
           w == a \o b
<1>1. Len(s) \in Nat /\ k \in Nat /\ 1 <= k /\ k <= Len(s) /\ s[k] \in Request
  OBVIOUS
<1>2. /\ a \in Seq(Request) /\ Len(a) = k - 1
      /\ \A i \in 1..k - 1 : a[i] = s[i]
  BY <1>1, SubSeqProperties
<1>3. /\ b \in Seq(Request) /\ Len(b) = Len(s) - k
      /\ \A i \in 1..Len(s) - k : b[i] = s[i + k]
  BY <1>1, SubSeqProperties
<1> HIDE DEF a, b
<1>4. /\ w \in Seq(Request) /\ Len(w) = Len(s) - 1
      /\ \A i \in 1..Len(s) - 1 : w[i] = IF i < k THEN s[i] ELSE s[i + 1]
  <2>1. /\ w \in Seq(Request) /\ Len(w) = Len(a) + Len(b)
        /\ \A i \in 1..Len(a) + Len(b) :
             w[i] = IF i <= Len(a) THEN a[i] ELSE b[i - Len(a)]
    BY <1>2, <1>3, ConcatProperties
  <2> HIDE DEF w
  <2>2. Len(a) + Len(b) = Len(s) - 1
    BY <1>1, <1>2, <1>3
  <2>3. ASSUME NEW i \in 1..Len(s) - 1
        PROVE  w[i] = IF i < k THEN s[i] ELSE s[i + 1]
    <3>1. CASE i < k
      BY <3>1, <2>1, <2>2, <1>1, <1>2
    <3>2. CASE i >= k
      <4>1. i - Len(a) \in 1..Len(s) - k /\ (i - Len(a)) + k = i + 1 /\ ~(i <= Len(a))
        BY <3>2, <1>1, <1>2
      <4>2. w[i] = b[i - Len(a)]
        BY <4>1, <2>1, <2>2
      <4> QED BY <4>1, <4>2, <3>2, <1>1, <1>3
    <3> QED BY <3>1, <3>2, <1>1
  <2> QED BY <2>1, <2>2, <2>3
<1> HIDE DEF w
<1>5. Elements(s) = Elements(w) \cup {s[k]}
  <2>1. ASSUME NEW i \in 1..Len(s), i # k PROVE s[i] \in Elements(w)
    <3>1. CASE i < k
      <4>1. i \in 1..Len(w) /\ w[i] = s[i]
        BY <3>1, <1>1, <1>4
      <4> QED BY <4>1 DEF Elements
    <3>2. CASE i > k
      <4>1. i - 1 \in 1..Len(w) /\ ~(i - 1 < k) /\ w[i - 1] = s[(i - 1) + 1]
        BY <3>2, <1>1, <1>4
      <4>2. (i - 1) + 1 = i
        OBVIOUS
      <4> QED BY <4>1, <4>2 DEF Elements
    <3> QED BY <3>1, <3>2, <1>1, <2>1
  <2>2. \A i \in 1..Len(w) : w[i] \in Elements(s)
    BY <1>1, <1>4 DEF Elements
  <2>3. Elements(w) \subseteq Elements(s)
    BY <2>2 DEF Elements
  <2>4. Elements(s) \subseteq Elements(w) \cup {s[k]}
    BY <2>1 DEF Elements
  <2>5. s[k] \in Elements(s)
    BY <1>1 DEF Elements
  <2> QED BY <2>3, <2>4, <2>5
<1>6. s[k] \notin Elements(w)
  BY <1>1, <1>4 DEF Elements, Distinct
<1>7. Distinct(w)
  BY <1>1, <1>4 DEF Distinct
<1> QED
  BY <1>1, <1>4, <1>5, <1>6, <1>7 DEF w, a, b, Without

-----------------------------------------------------------------------------
LEMMA NobodyIsNoRequest == \A r \in Request : r # NoRequest
BY PoolAssumption

(* The values of a sequence of requests are requests. *)
LEMMA ElementsType ==
  ASSUME PlaceTypes
  PROVE  Elements(chan) \subseteq Request /\ Elements(active) \subseteq Request
<1>1. ASSUME NEW s \in Seq(Request) PROVE Elements(s) \subseteq Request
  BY DEF Elements
<1> QED
  BY <1>1 DEF PlaceTypes

LEMMA LaneInitInv == Init => LaneInv
<1> SUFFICES ASSUME Init PROVE LaneInv
  OBVIOUS
<1>1. PoolInv
  BY PoolInitInv DEF Init
<1>2. lease = [r \in Request |-> {}] /\ poolLock = NoRequest
  BY DEF Init, PoolInit
<1>3. Elements(<<>>) = {} /\ Distinct(<<>>) /\ <<>> \in Seq(Request) /\ Len(<<>>) = 0
  BY DEF Elements, Distinct
<1>4. PlaceTypes
  BY <1>3 DEF Init, PlaceTypes, NotFinishing, Kinds, None, Unsent
<1>5. FlagTypes
  BY DEF Init, FlagTypes
<1>6. GpuTypes
  BY DEF Init, GpuTypes, Snapshot, Blank
<1>7. Places
  BY <1>3, NobodyIsNoRequest DEF Init, Places, InService, Finishing
<1>8. Control
  BY DEF Init, Control, Finishing
<1>9. Leases
  BY <1>2, <1>3, NobodyIsNoRequest DEF Init, Leases, Held, Leasing
<1>10. Replies
  BY <1>3 DEF Init, Replies, Settled, Unsent, None
<1>11. Decoding
  BY <1>3 DEF Init, Decoding
<1> QED
  BY <1>1, <1>4, <1>5, <1>6, <1>7, <1>8, <1>9, <1>10, <1>11
  DEF LaneInv, Types, Structure

-----------------------------------------------------------------------------
(* A step of r's handler that neither sends the request nor moves a lease  *)
(* keeps the structure.                                                    *)
placeVars == <<chan, active, cur, wpc, idx, fin, reply>>
deviceVars == <<generated, saved, runner, page>>

LEMMA HandlerMoveKeepsStructure ==
  ASSUME Types, Structure, NEW r \in Request, NEW h,
         Goto(r, h),
         UNCHANGED <<placeVars, deviceVars, lease, poolLock>>,
         hpc[r] \in Unsent <=> h \in Unsent,
         hpc[r] \in Leasing <=> h \in Leasing,
         hpc[r] = "acquiring" <=> h = "acquiring",
         h = "ended" => ~SenderAlive(r)
  PROVE  Structure'
<1> USE DEF placeVars, deviceVars
<1>1. /\ hpc'[r] = h
      /\ \A q \in Request : q # r => hpc'[q] = hpc[q]
  BY DEF Goto, Types, PlaceTypes
<1>2. \A q \in Request : /\ hpc'[q] \in Unsent <=> hpc[q] \in Unsent
                         /\ hpc'[q] \in Leasing <=> hpc[q] \in Leasing
                         /\ hpc'[q] = "acquiring" <=> hpc[q] = "acquiring"
                         /\ InService(q)' <=> InService(q)
                         /\ SenderAlive(q)' <=> SenderAlive(q)
  BY <1>1 DEF InService, SenderAlive, Elements
<1>3. Places'
  BY <1>2 DEF Structure, Places, Distinct, Elements
<1>4. Control'
  BY DEF Structure, Control
<1>5. Leases'
  BY <1>2 DEF Structure, Leases, Held, Elements
<1>6. Replies'
  BY <1>1, <1>2 DEF Structure, Replies, Settled
<1>7. Decoding'
  BY <1>2 DEF Structure, Decoding, Elements, Stepping, StateOf
<1> QED
  BY <1>3, <1>4, <1>5, <1>6, <1>7 DEF Structure

LEMMA IdleKeepsStructure ==
  ASSUME Structure, UNCHANGED <<hpc, placeVars, deviceVars, lease, poolLock>>
  PROVE  Structure'
<1> USE DEF placeVars, deviceVars
<1>1. Places' /\ Control'
  BY DEF Structure, Places, Control, InService, Elements, Distinct
<1>2. Leases' /\ Replies'
  BY DEF Structure, Leases, Held, Replies, Settled, SenderAlive, InService, Elements
<1>3. Decoding'
  BY DEF Structure, Decoding, Elements, Stepping, StateOf
<1> QED
  BY <1>1, <1>2, <1>3 DEF Structure

-----------------------------------------------------------------------------
(* The handlers, the clients and the kernels that outlive their wait.      *)
LEMMA SubmitKeepsInv ==
  ASSUME LaneInv, NEW r \in Request,
         CountIn(r) \/ RejectFull(r) \/ LeaseDenied(r) \/ RejectNoBlocks(r)
  PROVE  LaneInv'
<1> USE DEF LaneInv
<1>1. /\ UNCHANGED poolVars
      /\ UNCHANGED <<chan, gone, cancelled, events, reply, workerVars, inFlight, gpuVars>>
  BY DEF CountIn, RejectFull, LeaseDenied, RejectNoBlocks, TryAcquireDenied
<1>2. PICK h \in Unsent \ Leasing : Goto(r, h) /\ hpc[r] \in Unsent \ Leasing
  BY DEF CountIn, RejectFull, LeaseDenied, RejectNoBlocks, Unsent, Leasing, Rejections
<1> USE DEF workerVars, gpuVars
<1>3. PoolInv'
  BY <1>1, StutterKeepsPoolInv
<1>4. Types'
  BY <1>1, <1>2 DEF Types, PlaceTypes, FlagTypes, GpuTypes, Goto
<1>5. Structure'
  BY <1>1, <1>2, HandlerMoveKeepsStructure
  DEF placeVars, deviceVars, poolVars, Leasing, Unsent, Rejections
<1> QED
  BY <1>3, <1>4, <1>5

LEMMA AwaitKeepsInv ==
  ASSUME LaneInv, NEW r \in Request, HandlerAwait(r)
  PROVE  LaneInv'
<1> USE DEF LaneInv
<1>1. /\ UNCHANGED poolVars
      /\ UNCHANGED <<chan, gone, reply, workerVars, inFlight, gpuVars>>
  BY DEF HandlerAwait, TakeReply, StreamChunk, StreamWriteFails, StreamBreak,
         StreamEnd, StreamResult, StreamResultMissing
<1>2. UNCHANGED hpc \/ \E h \in {"broke", "ended", "answered", "write_failed", "result_missing"} :
        /\ Goto(r, h)
        /\ hpc[r] \in {"waiting", "streaming", "ended", "broke"}
        /\ h = "ended" => ~SenderAlive(r)
  BY DEF HandlerAwait, TakeReply, StreamChunk, StreamWriteFails, StreamBreak,
         StreamEnd, StreamResult, StreamResultMissing
<1> USE DEF workerVars, gpuVars
<1>3. PoolInv'
  BY <1>1, StutterKeepsPoolInv
<1>4. events' \in [Request -> Nat] /\ cancelled' \in [Request -> BOOLEAN]
  <2>1. UNCHANGED events \/ (events[r] > 0 /\ events' = [events EXCEPT ![r] = @ - 1])
    BY DEF HandlerAwait, TakeReply, StreamChunk, StreamWriteFails, StreamBreak,
           StreamEnd, StreamResult, StreamResultMissing
  <2>2. UNCHANGED cancelled \/ cancelled' = [cancelled EXCEPT ![r] = TRUE]
    BY DEF HandlerAwait, TakeReply, StreamChunk, StreamWriteFails, StreamBreak,
           StreamEnd, StreamResult, StreamResultMissing
  <2>3. events \in [Request -> Nat] /\ cancelled \in [Request -> BOOLEAN]
    BY DEF Types, FlagTypes
  <2>4. events' \in [Request -> Nat]
    BY <2>1, <2>3
  <2>5. cancelled' \in [Request -> BOOLEAN]
    BY <2>2, <2>3
  <2> QED BY <2>4, <2>5
<1>5. Types'
  <2>1. PlaceTypes'
    BY <1>1, <1>2 DEF Types, PlaceTypes, Goto, Outcomes
  <2>2. FlagTypes' /\ GpuTypes'
    BY <1>1, <1>4, Zenon DEF Types, FlagTypes, GpuTypes
  <2> QED BY <2>1, <2>2 DEF Types
<1>6. Structure'
  <2>1. CASE UNCHANGED hpc
    BY <1>1, <2>1, IdleKeepsStructure DEF placeVars, deviceVars, poolVars
  <2>2. CASE ~UNCHANGED hpc
    <3>1. PICK h \in {"broke", "ended", "answered", "write_failed", "result_missing"} :
            /\ Goto(r, h)
            /\ hpc[r] \in {"waiting", "streaming", "ended", "broke"}
            /\ h = "ended" => ~SenderAlive(r)
      BY <1>2, <2>2
    <3>2. UNCHANGED <<placeVars, deviceVars, lease, poolLock>>
      BY <1>1 DEF placeVars, deviceVars, poolVars
    <3> QED
      BY <3>1, <3>2, HandlerMoveKeepsStructure DEF Leasing, Unsent, Rejections
  <2> QED BY <2>1, <2>2
<1> QED
  BY <1>3, <1>5, <1>6

LEMMA ClientKeepsInv ==
  ASSUME LaneInv, NEW r \in Request, Disconnect(r) \/ WatchCancels(r) \/ HungRetires(r)
  PROVE  LaneInv'
<1> USE DEF LaneInv, handlerVars, workerVars, gpuVars
<1>1. /\ UNCHANGED poolVars
      /\ UNCHANGED <<hpc, chan, events, reply, workerVars, inFlight, generated,
                     opened, runner, saved, page>>
  BY DEF Disconnect, WatchCancels, HungRetires
<1>2. /\ gone' \in [Request -> BOOLEAN]
      /\ cancelled' \in [Request -> BOOLEAN]
      /\ hung' \in SUBSET Request
  BY DEF Disconnect, WatchCancels, HungRetires, Types, FlagTypes
<1>3. PoolInv'
  BY <1>1, StutterKeepsPoolInv
<1>4. Types'
  <2>1. PlaceTypes' /\ GpuTypes'
    BY <1>1 DEF Types, PlaceTypes, GpuTypes
  <2>2. FlagTypes'
    BY <1>1, <1>2, Zenon DEF Types, FlagTypes
  <2> QED BY <2>1, <2>2 DEF Types
<1>5. Structure'
  BY <1>1, IdleKeepsStructure DEF placeVars, deviceVars, poolVars
<1> QED
  BY <1>3, <1>4, <1>5

LEMMA LeaseTakeKeepsInv ==
  ASSUME LaneInv, NEW r \in Request, LeaseTake(r)
  PROVE  LaneInv'
<1> USE DEF LaneInv, workerVars, gpuVars, placeVars, deviceVars
<1>1. /\ hpc[r] = "counted" /\ hpc' = [hpc EXCEPT ![r] = "acquiring"]
      /\ UNCHANGED <<placeVars, deviceVars, gone, cancelled, events, inFlight, opened, hung>>
  BY DEF LeaseTake, Goto
<1>2. hpc[r] \in Unsent \ Leasing
  BY <1>1 DEF Unsent, Leasing
<1>3. lease[r] = {} /\ ~InService(r)
  BY <1>1, <1>2 DEF Structure, Leases, Held, Places, InService
<1>4. PoolInv'
  BY <1>3, TakeKeepsPoolInv DEF LeaseTake
<1>5. PICK table \in SUBSET free :
        /\ Cardinality(table) = BlocksPerRequest
        /\ lease' = [lease EXCEPT ![r] = table]
  BY DEF LeaseTake, TryAcquireTake
<1>6. table # {}
  BY <1>5, PoolAssumption, FS_EmptySet
<1>7. poolLock = NoRequest /\ poolLock' = r /\ r # NoRequest
  BY NobodyIsNoRequest DEF LeaseTake, TryAcquireTake
<1>8. /\ lease'[r] # {}
      /\ \A q \in Request : q # r => lease'[q] = lease[q] /\ hpc'[q] = hpc[q]
      /\ hpc'[r] = "acquiring"
  BY <1>1, <1>5, <1>6 DEF PoolInv, PoolTypeOK, Types, PlaceTypes
<1>9. Types'
  BY <1>1 DEF Types, PlaceTypes, FlagTypes, GpuTypes, Unsent
<1>10. Places' /\ Control'
  BY <1>1, <1>3, <1>8
  DEF Structure, Places, Control, InService, Elements, Distinct
<1>11. Leases'
  BY <1>1, <1>3, <1>7, <1>8, NobodyIsNoRequest
  DEF Structure, Leases, Held, Leasing, InService, Elements
<1>12. Replies'
  BY <1>1, <1>2, <1>8
  DEF Structure, Replies, Settled, SenderAlive, InService, Elements, Unsent
<1>13. Decoding'
  <2>1. Elements(active) \subseteq Request \ {r}
    BY <1>3, ElementsType DEF Types, InService
  <2> QED
    BY <1>1, <1>2, <1>8, <2>1
    DEF Structure, Decoding, Elements, Stepping, StateOf, Unsent
<1> QED
  BY <1>4, <1>9, <1>10, <1>11, <1>12, <1>13 DEF Structure

LEMMA LeasePublishKeepsInv ==
  ASSUME LaneInv, NEW r \in Request, LeasePublish(r)
  PROVE  LaneInv'
<1> USE DEF LaneInv, workerVars, gpuVars, placeVars, deviceVars
<1>1. /\ hpc[r] = "acquiring" /\ hpc' = [hpc EXCEPT ![r] = "leased"]
      /\ UNCHANGED <<placeVars, deviceVars, lease, gone, cancelled, events,
                     inFlight, opened, hung>>
      /\ poolLock = r /\ poolLock' = NoRequest
  BY DEF LeasePublish, Goto, TryAcquirePublish
<1>2. PoolInv'
  BY PublishKeepsPoolInv DEF LeasePublish
<1>3. /\ hpc'[r] = "leased"
      /\ \A q \in Request : q # r => hpc'[q] = hpc[q]
  BY <1>1 DEF Types, PlaceTypes
<1>4. Types'
  BY <1>1 DEF Types, PlaceTypes, FlagTypes, GpuTypes, Unsent
<1>5. Places' /\ Control'
  <2>1. ~InService(r)
    BY <1>1 DEF Structure, Places, Unsent
  <2> QED
    BY <1>1, <1>3, <2>1
    DEF Structure, Places, Control, InService, Elements, Distinct
<1>6. Leases'
  BY <1>1, <1>3, NobodyIsNoRequest DEF Structure, Leases, Held, Leasing, Elements
<1>7. Replies'
  BY <1>1, <1>3 DEF Structure, Replies, Settled, SenderAlive, InService, Elements, Unsent
<1>8. Decoding'
  BY <1>1, <1>3 DEF Structure, Decoding, Elements, Stepping, StateOf, Unsent
<1> QED
  BY <1>2, <1>4, <1>5, <1>6, <1>7, <1>8 DEF Structure

LEMMA SendKeepsInv ==
  ASSUME LaneInv, NEW r \in Request, Send(r)
  PROVE  LaneInv'
<1> USE DEF LaneInv, workerVars, gpuVars, placeVars, deviceVars
<1>1. /\ hpc[r] = "leased"
      /\ hpc' = [hpc EXCEPT ![r] = IF r \in Stream THEN "streaming" ELSE "waiting"]
      /\ chan' = Append(chan, r)
      /\ UNCHANGED <<active, cur, wpc, idx, fin, reply, deviceVars, poolVars, gone,
                     cancelled, events, inFlight, opened, hung>>
  BY DEF Send, Goto
<1>2. ~InService(r) /\ hpc[r] \in Unsent
  BY <1>1 DEF Structure, Places, Unsent
<1>3. /\ chan' \in Seq(Request)
      /\ Elements(chan') = Elements(chan) \cup {r}
      /\ Distinct(chan')
  BY <1>1, <1>2, AppendElements
  DEF Types, PlaceTypes, Structure, Places, InService
<1>4. /\ hpc'[r] \in {"waiting", "streaming"}
      /\ \A q \in Request : q # r => hpc'[q] = hpc[q]
  BY <1>1 DEF Types, PlaceTypes
<1>5. hpc'[r] \notin Unsent
  BY <1>4 DEF Unsent, Rejections
<1>6. PoolInv'
  BY <1>1, StutterKeepsPoolInv
<1>7. Types'
  BY <1>1, <1>3 DEF Types, PlaceTypes, FlagTypes, GpuTypes
<1>8. Elements(active') = Elements(active) /\ Distinct(active') = Distinct(active)
  BY <1>1
<1>9. Places' /\ Control'
  BY <1>1, <1>2, <1>3, <1>4, <1>5, <1>8 DEF Structure, Places, Control, InService
<1>10. Leases'
  BY <1>1, <1>2, <1>3, <1>4, <1>8, NobodyIsNoRequest
  DEF Structure, Leases, Held, Leasing, poolVars
<1>11. Replies'
  BY <1>1, <1>2, <1>3, <1>4, <1>5, <1>8
  DEF Structure, Replies, Settled, SenderAlive, InService
<1>12. Decoding'
  BY <1>1, <1>2, <1>3, <1>4, <1>5, <1>8
  DEF Structure, Decoding, Stepping, StateOf, InService, poolVars
<1> QED
  BY <1>6, <1>7, <1>9, <1>10, <1>11, <1>12 DEF Structure

-----------------------------------------------------------------------------
(* The worker's loop. *)
Looping == {"top", "recv", "drain", "check_free", "check_gauge", "decode"}

LEMMA LoopMoveKeepsStructure ==
  ASSUME Structure, wpc \in Looping, wpc' \in Looping,
         UNCHANGED <<hpc, chan, active, cur, fin, reply, deviceVars, lease, poolLock>>,
         wpc' = "decode" => idx' > 0
  PROVE  Structure'
<1> USE DEF deviceVars, Looping
<1>1. Places' /\ Control'
  BY DEF Structure, Places, Control, InService, Elements, Distinct, Finishing
<1>2. Leases' /\ Replies'
  BY DEF Structure, Leases, Held, Replies, Settled, SenderAlive, InService, Elements
<1>3. Decoding'
  BY DEF Structure, Decoding, Elements, Stepping, StateOf
<1> QED
  BY <1>1, <1>2, <1>3 DEF Structure

LEMMA LoopKeepsInv ==
  ASSUME LaneInv,
         WorkerTop \/ DrainEmpty \/ CheckFreeList \/ CheckGauge \/ DecodePassDone
  PROVE  LaneInv'
<1> USE DEF LaneInv, handlerVars, gpuVars
<1>1. /\ UNCHANGED poolVars
      /\ UNCHANGED <<handlerVars, chan, cancelled, events, reply, active, cur, fin, gpuVars>>
  BY DEF WorkerTop, DrainEmpty, CheckFreeList, CheckGauge, DecodePassDone
<1>2. /\ wpc \in Looping
      /\ wpc' \in Looping
      /\ idx' \in {idx, 1}
      /\ wpc' = "decode" => idx' > 0
  BY DEF WorkerTop, DrainEmpty, CheckFreeList, CheckGauge, DecodePassDone, Looping
<1>3. inFlight' \in BOOLEAN
  BY Zenon DEF WorkerTop, DrainEmpty, CheckFreeList, CheckGauge, DecodePassDone,
               Types, FlagTypes
<1>4. PoolInv'
  BY <1>1, StutterKeepsPoolInv
<1>5. Types'
  <2>1. PlaceTypes' /\ GpuTypes'
    BY <1>1, <1>2 DEF Types, PlaceTypes, GpuTypes, Looping
  <2>2. FlagTypes'
    BY <1>1, <1>3, Zenon DEF Types, FlagTypes
  <2> QED BY <2>1, <2>2 DEF Types
<1>6. Structure'
  BY <1>1, <1>2, LoopMoveKeepsStructure DEF deviceVars, poolVars
<1> QED
  BY <1>4, <1>5, <1>6

LEMMA ReceiveKeepsInv ==
  ASSUME LaneInv, Receive
  PROVE  LaneInv'
<1> USE DEF LaneInv, handlerVars, gpuVars, deviceVars
<1>1. /\ wpc \in {"recv", "drain"} /\ wpc' = "admit"
      /\ chan # <<>> /\ cur' = Head(chan) /\ chan' = Tail(chan)
      /\ UNCHANGED <<poolVars, handlerVars, cancelled, events, reply, active, idx, fin,
                     inFlight, gpuVars>>
  BY DEF Receive
<1>2. /\ chan' \in Seq(Request)
      /\ cur' \in Request
      /\ Elements(chan) = Elements(chan') \cup {cur'}
      /\ cur' \notin Elements(chan')
      /\ Distinct(chan')
  BY <1>1, HeadElements DEF Types, PlaceTypes, Structure, Places
<1>3. cur = NoRequest
  BY <1>1 DEF Structure, Places, Finishing
<1>4. Elements(active') = Elements(active) /\ Distinct(active') = Distinct(active)
  BY <1>1
<1>5. \A r \in Request : InService(r)' <=> InService(r)
  BY <1>2, <1>3, <1>4, NobodyIsNoRequest DEF InService
<1>6. PoolInv'
  BY <1>1, StutterKeepsPoolInv
<1>7. Types'
  BY <1>1, <1>2 DEF Types, PlaceTypes, FlagTypes, GpuTypes
<1>8. Places' /\ Control'
  <2>1. cur' # NoRequest
    BY <1>2, NobodyIsNoRequest
  <2> QED
    BY <1>1, <1>2, <1>3, <1>4, <1>5, <2>1 DEF Structure, Places, Control, Finishing
<1>9. Leases'
  BY <1>1, <1>2, <1>3, <1>4, NobodyIsNoRequest DEF Structure, Leases, Held, poolVars
<1>10. Replies'
  BY <1>1, <1>2, <1>3, <1>5, NobodyIsNoRequest
  DEF Structure, Replies, Settled, SenderAlive, InService
<1>11. Decoding'
  BY <1>1, <1>2, <1>3, <1>4 DEF Structure, Decoding, Stepping, StateOf, poolVars
<1> QED
  BY <1>6, <1>7, <1>8, <1>9, <1>10, <1>11 DEF Structure

-----------------------------------------------------------------------------
(* Admission.  What begin_stepwise_request writes stays within the pages   *)
(* of the request that is admitted.                                        *)
LEMMA AdmitFacts ==
  ASSUME LaneInv, wpc = "admit"
  PROVE  /\ cur \in Request
         /\ cur \notin Elements(chan) /\ cur \notin Elements(active)
         /\ hpc[cur] \notin Unsent
         /\ lease[cur] \in SUBSET Block
         /\ lease[cur] # {}
         /\ generated[cur] = 0
         /\ cur # NoRequest
<1> USE DEF LaneInv
<1>1. cur \in Request /\ cur # NoRequest
  BY DEF Structure, Places, Types, PlaceTypes
<1>2. InService(cur)
  BY DEF InService
<1> QED
  BY <1>1, <1>2
  DEF Structure, Places, Leases, Held, Decoding, PoolInv, PoolTypeOK

LEMMA InstallKeepsPages ==
  ASSUME LaneInv, wpc = "admit", InstallTable(cur)
  PROVE  /\ \A r \in Elements(active) : \A b \in lease[r] : page'[b] = r
         /\ \A b \in lease[cur] : page'[b] = cur
         /\ page' \in [Block -> Request \cup {NoRequest}]
         /\ runner' = [table |-> lease[cur], step |-> 0]
         /\ runner' \in Snapshot
<1> USE DEF LaneInv
<1>1. page' = [b \in Block |-> IF b \in lease[cur] THEN cur ELSE page[b]]
  BY DEF InstallTable
<1>2. \A r \in Elements(active) : r \in Request /\ r # cur
  BY AdmitFacts, ElementsType DEF Types
<1>3. \A r \in Elements(active) :
        /\ lease[r] \cap lease[cur] = {}
        /\ lease[r] \subseteq Block
  BY <1>2, AdmitFacts DEF PoolInv, LeaseExclusive, PoolTypeOK
<1>4. \A r \in Elements(active) : \A b \in lease[r] : page'[b] = r
  BY <1>1, <1>2, <1>3 DEF Structure, Decoding
<1>5. runner' = [table |-> lease[cur], step |-> 0] /\ runner' \in Snapshot
  BY AdmitFacts DEF InstallTable, Snapshot
<1> QED
  BY <1>1, <1>4, <1>5, AdmitFacts DEF Types, GpuTypes

LEMMA AdmitFailsKeepsInv ==
  ASSUME LaneInv, AdmitCancelled \/ AdmitOpenFails \/ AdmitBeginFails
  PROVE  LaneInv'
<1> USE DEF LaneInv, handlerVars, gpuVars
<1>1. /\ wpc = "admit" /\ wpc' = "fin_release"
      /\ fin' \in [kind : Kinds, resume : {"drain"}]
      /\ UNCHANGED <<poolVars, handlerVars, chan, cancelled, events, reply, active,
                     idx, cur, inFlight, generated, saved>>
  BY DEF AdmitCancelled, AdmitOpenFails, AdmitBeginFails, Finish, Kinds
<1>2. UNCHANGED <<runner, page>> \/ InstallTable(cur)
  BY DEF AdmitCancelled, AdmitOpenFails, AdmitBeginFails
<1>3. \A r \in Elements(active) : \A b \in lease[r] : page'[b] = r
  BY <1>1, <1>2, InstallKeepsPages DEF Structure, Decoding
<1>4. PoolInv'
  BY <1>1, StutterKeepsPoolInv
<1>5. Types'
  <2>1. PlaceTypes'
    BY <1>1 DEF Types, PlaceTypes, Finishing
  <2>2. GpuTypes'
    BY <1>1, <1>2, InstallKeepsPages DEF Types, GpuTypes
  <2>3. opened' \in {"nothing", "device", "runner"}
    BY DEF AdmitCancelled, AdmitOpenFails, AdmitBeginFails, InstallTable, Types, FlagTypes
  <2>4. hung' \in {hung, hung \cup {cur}}
    BY DEF AdmitCancelled, AdmitOpenFails, AdmitBeginFails
  <2>5. hung' \in SUBSET Request
    BY <1>1, <2>4, AdmitFacts DEF Types, FlagTypes
  <2>6. FlagTypes'
    BY <1>1, <2>3, <2>5, Zenon DEF Types, FlagTypes
  <2> QED BY <2>1, <2>2, <2>6 DEF Types
<1>6. Places' /\ Control'
  <2>1. fin'.kind # None /\ fin'.resume = "drain"
    BY <1>1 DEF Kinds, None
  <2>2. Elements(chan') = Elements(chan) /\ Elements(active') = Elements(active)
    BY <1>1
  <2>3. Control'
    BY <1>1, <2>1 DEF Control, None
  <2> QED
    BY <1>1, <2>2, <2>3, AdmitFacts
    DEF Structure, Places, InService, Distinct, Finishing
<1>7. Leases' /\ Replies'
  BY <1>1
  DEF Structure, Leases, Held, Replies, Settled, SenderAlive, InService, Elements, poolVars
<1>8. Decoding'
  <2>1. Elements(chan') = Elements(chan) /\ Elements(active') = Elements(active)
    BY <1>1
  <2>2. \A r : ~Stepping(r) /\ ~Stepping(r)' /\ StateOf(r)' = StateOf(r)
    BY <1>1 DEF Stepping, StateOf, poolVars
  <2> QED
    BY <1>1, <1>3, <2>1, <2>2 DEF Structure, Decoding, poolVars
<1> QED
  BY <1>4, <1>5, <1>6, <1>7, <1>8 DEF Structure

LEMMA AdmitKeepsInv ==
  ASSUME LaneInv, Admit
  PROVE  LaneInv'
<1> USE DEF LaneInv, handlerVars
<1>1. /\ wpc = "admit" /\ wpc' = "drain"
      /\ InstallTable(cur)
      /\ saved' = [saved EXCEPT ![cur] = runner']
      /\ active' = Append(active, cur)
      /\ cur' = NoRequest
      /\ UNCHANGED <<poolVars, handlerVars, chan, cancelled, events, reply, idx, fin,
                     inFlight, generated, hung>>
  BY DEF Admit
<1>2. /\ active' \in Seq(Request)
      /\ Elements(active') = Elements(active) \cup {cur}
      /\ Distinct(active')
  BY <1>1, AdmitFacts, AppendElements DEF Types, PlaceTypes, Structure, Places
<1>3. Elements(chan') = Elements(chan) /\ Distinct(chan') = Distinct(chan)
  BY <1>1
<1>4. \A r \in Request : InService(r)' <=> InService(r)
  BY <1>1, <1>2, <1>3, NobodyIsNoRequest DEF InService
<1>5. NoRequest \notin Elements(chan) /\ NoRequest \notin Elements(active)
  BY ElementsType, NobodyIsNoRequest DEF Types
<1>6. PoolInv'
  BY <1>1, StutterKeepsPoolInv
<1>7. Types'
  <2>1. PlaceTypes'
    BY <1>1, <1>2 DEF Types, PlaceTypes
  <2>2. GpuTypes'
    BY <1>1, AdmitFacts, InstallKeepsPages DEF Types, GpuTypes
  <2>3. opened' \in {"nothing", "device", "runner"}
    BY <1>1 DEF InstallTable
  <2>4. FlagTypes'
    BY <1>1, <2>3, Zenon DEF Types, FlagTypes
  <2> QED BY <2>1, <2>2, <2>4 DEF Types
<1>8. Places' /\ Control'
  BY <1>1, <1>2, <1>3, <1>4, <1>5, AdmitFacts DEF Structure, Places, Control, Finishing
<1>9. Leases'
  BY <1>1, <1>2, <1>3, NobodyIsNoRequest DEF Structure, Leases, Held, poolVars
<1>10. Replies'
  BY <1>1, <1>2, <1>3, <1>4, NobodyIsNoRequest
  DEF Structure, Replies, Settled, SenderAlive, InService
<1>11. Decoding'
  <2>1. \A r \in Request :
          hpc'[r] \in Unsent \/ r \in Elements(chan') \/ (r = cur' /\ wpc' = "admit")
            => generated'[r] = 0
    BY <1>1, <1>3 DEF Structure, Decoding
  <2>2. ASSUME NEW r \in Elements(active')
        PROVE  ~Stepping(r)' /\ saved'[r] = StateOf(r)'
    <3>1. r \in Request
      BY <1>1, <1>2, AdmitFacts, ElementsType DEF Types
    <3>2. CASE r = cur
      BY <3>2, <1>1, AdmitFacts, InstallKeepsPages
      DEF Stepping, StateOf, poolVars, Types, GpuTypes
    <3>3. CASE r # cur
      BY <3>1, <3>3, <1>1, <1>2
      DEF Stepping, StateOf, poolVars, Types, GpuTypes, Structure, Decoding
    <3> QED BY <3>2, <3>3
  <2>3. \A r \in Elements(active') : \A b \in lease'[r] : page'[b] = r
    BY <1>1, <1>2, InstallKeepsPages DEF poolVars
  <2> QED BY <2>1, <2>2, <2>3 DEF Decoding
<1> QED
  BY <1>6, <1>7, <1>8, <1>9, <1>10, <1>11 DEF Structure

-----------------------------------------------------------------------------
(* The decode pass. *)
LEMMA StepFacts ==
  ASSUME LaneInv, idx \in 1..Len(active)
  PROVE  /\ active[idx] \in Request
         /\ active[idx] \in Elements(active)
         /\ active[idx] \notin Elements(chan)
         /\ active[idx] # NoRequest
         /\ hpc[active[idx]] \notin Unsent
         /\ lease[active[idx]] \subseteq Block
<1> USE DEF LaneInv
<1>1. active[idx] \in Elements(active)
  BY DEF Elements
<1>2. active[idx] \in Request
  BY <1>1, ElementsType DEF Types
<1> QED
  BY <1>1, <1>2, NobodyIsNoRequest
  DEF Structure, Places, InService, PoolInv, PoolTypeOK

LEMMA RemoveKeepsInv ==
  ASSUME LaneInv, NEW kind \in Kinds, Remove(kind),
         wpc \in {"decode", "run", "emit"}, idx \in 1..Len(active),
         FlagTypes',
         UNCHANGED <<poolVars, hpc, chan, reply, idx, deviceVars>>
  PROVE  LaneInv'
<1> USE DEF LaneInv, deviceVars
<1> DEFINE r == active[idx]
<1>1. /\ wpc' = "fin_release"
      /\ fin' = [kind |-> kind, resume |-> "decode"]
      /\ cur' = r
      /\ active' = Without(active, idx)
  BY DEF Remove, Finish
<1>2. /\ active' \in Seq(Request)
      /\ Elements(active) = Elements(active') \cup {r}
      /\ r \notin Elements(active')
      /\ Distinct(active')
  BY <1>1, WithoutElements DEF Types, PlaceTypes, Structure, Places
<1>3. /\ r \in Request /\ r # NoRequest /\ r \notin Elements(chan)
      /\ hpc[r] \notin Unsent
  BY StepFacts
<1> HIDE DEF r
<1>4. cur = NoRequest
  BY DEF Structure, Places, Finishing
<1>5. Elements(chan') = Elements(chan) /\ Distinct(chan') = Distinct(chan)
  BY Zenon
<1>6. \A q \in Request : InService(q)' <=> InService(q)
  BY <1>1, <1>2, <1>4, <1>5, NobodyIsNoRequest DEF InService
<1>7. PoolInv'
  BY StutterKeepsPoolInv
<1>8. Types'
  <2>1. fin' \in [kind : Kinds \cup {None}, resume : {None, "drain", "decode"}]
    BY <1>1
  <2>2. PlaceTypes' /\ GpuTypes'
    BY <1>1, <1>2, <1>3, <2>1 DEF Types, PlaceTypes, GpuTypes, Finishing
  <2> QED BY <2>2 DEF Types
<1>9. Places'
  BY <1>1, <1>2, <1>3, <1>5, <1>6 DEF Structure, Places, Finishing
<1>10. Control'
  <2>1. fin'.kind # None /\ fin'.resume = "decode" /\ idx > 0
    BY <1>1 DEF Kinds, None
  <2> QED BY <1>1, <2>1 DEF Control, None
<1>11. Leases'
  BY <1>1, <1>2, <1>3, <1>4, <1>5, NobodyIsNoRequest
  DEF Structure, Leases, Held, poolVars
<1>12. Replies'
  BY <1>1, <1>2, <1>3, <1>4, <1>5, <1>6, NobodyIsNoRequest
  DEF Structure, Replies, Settled, SenderAlive, InService
<1>13. Decoding'
  <2>1. \A q \in Elements(active') : q \in Elements(active) /\ q # r
    BY <1>2
  <2>2. \A q \in Elements(active') : ~Stepping(q) /\ ~Stepping(q)'
    BY <1>1, <2>1 DEF Stepping, r
  <2>3. \A q : StateOf(q)' = StateOf(q)
    BY DEF StateOf, poolVars
  <2> QED
    BY <1>1, <1>3, <1>5, <2>1, <2>2, <2>3 DEF Structure, Decoding, poolVars
<1> QED
  BY <1>7, <1>8, <1>9, <1>10, <1>11, <1>12, <1>13 DEF Structure

LEMMA RestoreKeepsInv ==
  ASSUME LaneInv, Restore
  PROVE  LaneInv'
<1> USE DEF LaneInv, handlerVars
<1>1. /\ wpc = "decode" /\ wpc' = "run"
      /\ idx <= Len(active)
      /\ runner' = saved[active[idx]]
      /\ UNCHANGED <<poolVars, handlerVars, chan, cancelled, events, reply, active,
                     idx, cur, fin, inFlight, generated, opened, saved, page, hung>>
  BY DEF Restore, DecodeNext
<1>2. idx \in 1..Len(active)
  <2>1. Len(active) \in Nat
    BY DEF Types, PlaceTypes
  <2>2. idx \in Nat /\ idx > 0
    BY <1>1 DEF Types, PlaceTypes, Structure, Control
  <2> QED BY <1>1, <2>1, <2>2
<1>3. Elements(chan') = Elements(chan) /\ Elements(active') = Elements(active)
  BY <1>1
<1>4. PoolInv'
  BY <1>1, StutterKeepsPoolInv
<1>5. Types'
  BY <1>1, <1>2, StepFacts DEF Types, PlaceTypes, FlagTypes, GpuTypes
<1>6. Places' /\ Control'
  BY <1>1, <1>2, <1>3 DEF Structure, Places, Control, InService, Distinct, Finishing
<1>7. Leases' /\ Replies'
  BY <1>1, <1>3
  DEF Structure, Leases, Held, Replies, Settled, SenderAlive, InService, poolVars
<1>8. Decoding'
  <2>1. \A r : ~Stepping(r) /\ StateOf(r)' = StateOf(r)
    BY <1>1 DEF Stepping, StateOf, poolVars
  <2>2. runner' = StateOf(active[idx])'
    BY <1>1, <1>2, <2>1, StepFacts DEF Structure, Decoding
  <2>3. \A r : Stepping(r)' => r = active[idx]
    BY <1>1 DEF Stepping
  <2> QED
    BY <1>1, <1>3, <2>1, <2>2, <2>3 DEF Structure, Decoding, poolVars
<1> QED
  BY <1>4, <1>5, <1>6, <1>7, <1>8 DEF Structure

LEMMA RunStepKeepsInv ==
  ASSUME LaneInv, RunStep
  PROVE  LaneInv'
<1> USE DEF LaneInv, handlerVars
<1> DEFINE r == active[idx]
<1>1. /\ wpc = "run" /\ wpc' = "emit"
      /\ runner' = [runner EXCEPT !.step = @ + 1]
      /\ page' = [b \in Block |-> IF b \in runner.table THEN r ELSE page[b]]
      /\ generated' = [generated EXCEPT ![r] = @ + 1]
      /\ UNCHANGED <<poolVars, handlerVars, chan, cancelled, events, reply, active,
                     idx, cur, fin, inFlight, opened, saved, hung>>
  BY DEF RunStep
<1>2. idx \in 1..Len(active)
  BY <1>1 DEF Structure, Control
<1>3. /\ r \in Request /\ r \in Elements(active) /\ r \notin Elements(chan)
      /\ hpc[r] \notin Unsent
      /\ lease[r] \subseteq Block
  BY <1>2, StepFacts
<1>4. Stepping(r)
  BY <1>1 DEF Stepping
<1>5. runner = StateOf(r)
  BY <1>3, <1>4 DEF Structure, Decoding
<1> HIDE DEF r
<1>6. generated[r] \in Nat /\ runner.table = lease[r] /\ runner.step = generated[r]
  BY <1>3, <1>5 DEF StateOf, Types, GpuTypes
<1>7. /\ generated' \in [Request -> Nat]
      /\ generated'[r] = generated[r] + 1
      /\ \A q \in Request : q # r => generated'[q] = generated[q]
  BY <1>1, <1>3, <1>6 DEF Types, GpuTypes
<1>8. runner' = [table |-> lease[r], step |-> generated[r] + 1] /\ runner' \in Snapshot
  BY <1>1, <1>3, <1>5, <1>6 DEF StateOf, Snapshot
<1>9. Elements(chan') = Elements(chan) /\ Elements(active') = Elements(active)
  BY <1>1
<1>10. PoolInv'
  BY <1>1, StutterKeepsPoolInv
<1>11. Types'
  <2>1. page' \in [Block -> Request \cup {NoRequest}]
    BY <1>1, <1>3 DEF Types, GpuTypes
  <2> QED
    BY <1>1, <1>7, <1>8, <2>1 DEF Types, PlaceTypes, FlagTypes, GpuTypes
<1>12. Places' /\ Control'
  BY <1>1, <1>2, <1>9 DEF Structure, Places, Control, InService, Distinct, Finishing
<1>13. Leases' /\ Replies'
  BY <1>1, <1>9
  DEF Structure, Leases, Held, Replies, Settled, SenderAlive, InService, poolVars
<1>14. Decoding'
  <2>1. ASSUME NEW q \in Request,
               hpc'[q] \in Unsent \/ q \in Elements(chan') \/ (q = cur' /\ wpc' = "admit")
        PROVE  generated'[q] = 0
    BY <2>1, <1>1, <1>3, <1>7, <1>9 DEF Structure, Decoding
  <2>2. ASSUME NEW q \in Elements(active')
        PROVE  IF Stepping(q)' THEN runner' = StateOf(q)' ELSE saved'[q] = StateOf(q)'
    <3>1. q \in Request /\ q \in Elements(active)
      BY <1>9, ElementsType DEF Types
    <3>2. CASE q = r
      BY <3>2, <1>1, <1>4, <1>7, <1>8 DEF Stepping, StateOf, poolVars
    <3>3. CASE q # r
      BY <3>1, <3>3, <1>1, <1>7
      DEF Stepping, StateOf, poolVars, Structure, Decoding, r
    <3> QED BY <3>2, <3>3
  <2>3. ASSUME NEW q \in Elements(active'), NEW b \in lease'[q]
        PROVE  page'[b] = q
    <3>1. q \in Request /\ q \in Elements(active) /\ b \in lease[q] /\ b \in Block
      BY <1>1, <1>9, ElementsType DEF Types, PoolInv, PoolTypeOK, poolVars
    <3>2. CASE q = r
      BY <3>1, <3>2, <1>1, <1>6
    <3>3. CASE q # r
      <4>1. b \notin lease[r]
        BY <3>1, <3>3, <1>3 DEF PoolInv, LeaseExclusive
      <4> QED
        BY <3>1, <4>1, <1>1, <1>6 DEF Structure, Decoding
    <3> QED BY <3>2, <3>3
  <2> QED BY <2>1, <2>2, <2>3 DEF Decoding
<1> QED
  BY <1>10, <1>11, <1>12, <1>13, <1>14 DEF Structure

LEMMA LeaveKeepsInv ==
  ASSUME LaneInv, DecodeCancelled \/ StepFails \/ EmitFails
  PROVE  LaneInv'
<1> USE DEF handlerVars, gpuVars
<1>1. PICK kind \in Kinds : Remove(kind)
  BY DEF DecodeCancelled, StepFails, EmitFails, Kinds
<1>2. /\ UNCHANGED <<poolVars, handlerVars, chan, events, reply, idx, inFlight, generated,
                     opened, runner, saved, page>>
      /\ wpc \in {"decode", "run", "emit"}
  BY DEF DecodeCancelled, StepFails, EmitFails, DecodeNext
<1>3. idx \in 1..Len(active)
  <2>1. Len(active) \in Nat /\ idx \in Nat
    BY DEF LaneInv, Types, PlaceTypes
  <2> QED
    BY <2>1 DEF DecodeCancelled, StepFails, EmitFails, DecodeNext, LaneInv, Structure, Control
<1>4. hung' \in SUBSET Request
  <2>1. hung' \in {hung, hung \cup {active[idx]}}
    BY DEF DecodeCancelled, StepFails, EmitFails
  <2> QED BY <1>3, <2>1, StepFacts DEF LaneInv, Types, FlagTypes
<1>5. cancelled' \in [Request -> BOOLEAN]
  <2>1. UNCHANGED cancelled \/ cancelled' = [cancelled EXCEPT ![active[idx]] = TRUE]
    BY DEF DecodeCancelled, StepFails, EmitFails
  <2>2. cancelled \in [Request -> BOOLEAN]
    BY DEF LaneInv, Types, FlagTypes
  <2> QED BY <2>1, <2>2
<1>6. FlagTypes'
  BY <1>2, <1>4, <1>5, Zenon DEF LaneInv, Types, FlagTypes
<1> QED
  BY <1>1, <1>2, <1>3, <1>6, RemoveKeepsInv DEF deviceVars

LEMMA EmitKeepsInv ==
  ASSUME LaneInv, Emit
  PROVE  LaneInv'
<1> USE DEF handlerVars
<1> DEFINE r == active[idx]
<1>1. /\ wpc = "emit"
      /\ events' = IF r \in Stream THEN [events EXCEPT ![r] = @ + 1] ELSE events
      /\ UNCHANGED <<poolVars, handlerVars, chan, cancelled, reply, inFlight,
                     generated, opened, runner, page, hung>>
  BY DEF Emit
<1>2. idx \in 1..Len(active)
  BY <1>1 DEF LaneInv, Structure, Control
<1>3. FlagTypes'
  <2>1. events' \in [Request -> Nat]
    BY <1>1, <1>2, StepFacts DEF LaneInv, Types, FlagTypes
  <2> QED BY <1>1, <2>1, Zenon DEF LaneInv, Types, FlagTypes
<1>4. CASE LastStep(r)
  <2>1. Remove("completed") /\ UNCHANGED <<idx, saved>>
    BY <1>4 DEF Emit
  <2> QED
    BY <1>1, <1>2, <1>3, <2>1, RemoveKeepsInv DEF Kinds, deviceVars
<1>5. CASE ~LastStep(r)
  <2> USE DEF LaneInv
  <2>1. /\ saved' = [saved EXCEPT ![r] = runner]
        /\ idx' = idx + 1
        /\ wpc' = "decode"
        /\ UNCHANGED <<active, cur, fin>>
    BY <1>5 DEF Emit
  <2>2. Elements(chan') = Elements(chan) /\ Elements(active') = Elements(active)
    BY <1>1, <2>1
  <2>3. r \in Request /\ r \in Elements(active)
    BY <1>2, StepFacts
  <2>4. PoolInv'
    BY <1>1, StutterKeepsPoolInv
  <2>5. Types'
    <3>1. saved' \in [Request -> Snapshot]
      BY <2>1, <2>3 DEF Types, GpuTypes
    <3>2. idx' \in Nat
      BY <2>1 DEF Types, PlaceTypes
    <3> QED
      BY <1>1, <1>3, <2>1, <3>1, <3>2 DEF Types, PlaceTypes, GpuTypes
  <2>6. Places' /\ Control'
    <3>1. idx' > 0
      BY <1>2, <2>1
    <3> QED
      BY <1>1, <2>1, <2>2, <3>1
      DEF Structure, Places, Control, InService, Distinct, Finishing
  <2>7. Leases' /\ Replies'
    BY <1>1, <2>1, <2>2
    DEF Structure, Leases, Held, Replies, Settled, SenderAlive, InService, poolVars
  <2>8. Decoding'
    <3>1. \A q : StateOf(q)' = StateOf(q) /\ ~Stepping(q)'
      BY <1>1, <2>1 DEF StateOf, Stepping, poolVars
    <3>2. \A q \in Elements(active) : Stepping(q) <=> q = r
      BY <1>1 DEF Stepping
    <3>3. runner = StateOf(r)
      BY <2>3, <3>2 DEF Structure, Decoding
    <3> HIDE DEF r
    <3>4. \A q \in Elements(active) : saved'[q] = StateOf(q)
      <4>1. \A q \in Elements(active) : q \in Request
        BY ElementsType DEF Types
      <4> QED
        BY <2>1, <2>3, <3>2, <3>3, <4>1 DEF Structure, Decoding, Types, GpuTypes
    <3> QED
      BY <1>1, <2>1, <2>2, <3>1, <3>4 DEF Structure, Decoding, poolVars
  <2> QED
    BY <2>4, <2>5, <2>6, <2>7, <2>8 DEF Structure
<1> QED
  BY <1>4, <1>5

-----------------------------------------------------------------------------
(* The finish of a request. *)
LEMMA FinishFacts ==
  ASSUME LaneInv, wpc \in Finishing
  PROVE  /\ cur \in Request /\ cur # NoRequest
         /\ cur \notin Elements(chan) /\ cur \notin Elements(active)
         /\ hpc[cur] \notin Unsent
         /\ fin.kind \in Kinds /\ fin.resume \in {"drain", "decode"}
         /\ fin.resume = "decode" => idx > 0
<1> USE DEF LaneInv
<1>1. cur \in Request /\ cur # NoRequest
  BY DEF Structure, Places, Types, PlaceTypes
<1>2. InService(cur)
  BY DEF InService
<1>3. fin.kind \in Kinds /\ fin.resume \in {"drain", "decode"}
  BY DEF Types, PlaceTypes, Structure, Control
<1> QED
  BY <1>1, <1>2, <1>3 DEF Structure, Places, Control

LEMMA FinishReleaseKeepsInv ==
  ASSUME LaneInv, FinishRelease
  PROVE  LaneInv'
<1> USE DEF LaneInv, handlerVars, gpuVars
<1>1. /\ wpc = "fin_release" /\ wpc' = "fin_count"
      /\ ReleaseBlocks(cur)
      /\ UNCHANGED <<handlerVars, chan, cancelled, events, reply, active, idx, cur, fin,
                     inFlight, gpuVars>>
  BY DEF FinishRelease
<1>2. wpc \in Finishing
  BY <1>1 DEF Finishing
<1>3. lease' = [lease EXCEPT ![cur] = {}] /\ poolLock' = poolLock
  BY <1>1 DEF ReleaseBlocks
<1>4. /\ lease'[cur] = {}
      /\ \A q \in Request : q # cur => lease'[q] = lease[q]
  BY <1>2, <1>3, FinishFacts DEF PoolInv, PoolTypeOK
<1>5. Elements(chan') = Elements(chan) /\ Elements(active') = Elements(active)
  BY <1>1
<1>6. PoolInv'
  BY <1>1, <1>2, FinishFacts, ReleaseKeepsPoolInv
<1>7. Types'
  BY <1>1 DEF Types, PlaceTypes, FlagTypes, GpuTypes, Finishing
<1>8. Places' /\ Control'
  BY <1>1, <1>2, <1>5 DEF Structure, Places, Control, InService, Distinct, Finishing
<1>9. Leases'
  BY <1>1, <1>2, <1>3, <1>4, <1>5, FinishFacts
  DEF Structure, Leases, Held, Unsent, Leasing
<1>10. Replies'
  BY <1>1, <1>5 DEF Structure, Replies, Settled, SenderAlive, InService
<1>11. Decoding'
  <2>1. \A q \in Elements(active) : q \in Request /\ q # cur
    BY <1>2, FinishFacts, ElementsType DEF Types
  <2>2. \A q : ~Stepping(q) /\ ~Stepping(q)'
    BY <1>1 DEF Stepping
  <2> QED
    BY <1>1, <1>4, <1>5, <2>1, <2>2 DEF Structure, Decoding, StateOf
<1> QED
  BY <1>6, <1>7, <1>8, <1>9, <1>10, <1>11 DEF Structure

LEMMA FinishCountKeepsInv ==
  ASSUME LaneInv, FinishCount
  PROVE  LaneInv'
<1> USE DEF LaneInv, handlerVars, gpuVars
<1>1. /\ wpc = "fin_count" /\ wpc' = "fin_reply"
      /\ UNCHANGED <<poolVars, handlerVars, chan, cancelled, events, reply, active, idx,
                     cur, fin, inFlight, gpuVars>>
  BY DEF FinishCount
<1>2. Elements(chan') = Elements(chan) /\ Elements(active') = Elements(active)
  BY <1>1
<1>3. PoolInv'
  BY <1>1, StutterKeepsPoolInv
<1>4. Types'
  BY <1>1 DEF Types, PlaceTypes, FlagTypes, GpuTypes, Finishing
<1>5. Places' /\ Control'
  BY <1>1, <1>2 DEF Structure, Places, Control, InService, Distinct, Finishing
<1>6. Leases' /\ Replies'
  BY <1>1, <1>2
  DEF Structure, Leases, Held, Replies, Settled, SenderAlive, InService, poolVars
<1>7. Decoding'
  BY <1>1, <1>2 DEF Structure, Decoding, Stepping, StateOf, poolVars
<1> QED
  BY <1>3, <1>4, <1>5, <1>6, <1>7 DEF Structure

LEMMA FinishReplyKeepsInv ==
  ASSUME LaneInv, FinishReply
  PROVE  LaneInv'
<1> USE DEF LaneInv, handlerVars, gpuVars
<1>1. /\ wpc = "fin_reply" /\ wpc' = "fin_drop"
      /\ reply' = [reply EXCEPT ![cur] = fin.kind]
      /\ UNCHANGED <<poolVars, handlerVars, chan, cancelled, events, active, idx,
                     cur, fin, inFlight, gpuVars>>
  BY DEF FinishReply
<1>2. wpc \in Finishing
  BY <1>1 DEF Finishing
<1>3. Elements(chan') = Elements(chan) /\ Elements(active') = Elements(active)
  BY <1>1
<1>4. /\ reply' \in [Request -> Kinds \cup {None}]
      /\ reply'[cur] # None
      /\ \A q \in Request : q # cur => reply'[q] = reply[q]
  BY <1>1, <1>2, FinishFacts DEF Types, PlaceTypes, Kinds, None
<1>5. PoolInv'
  BY <1>1, StutterKeepsPoolInv
<1>6. Types'
  BY <1>1, <1>4 DEF Types, PlaceTypes, FlagTypes, GpuTypes, Finishing
<1>7. Places' /\ Control'
  BY <1>1, <1>3 DEF Structure, Places, Control, InService, Distinct, Finishing
<1>8. Leases'
  BY <1>1, <1>3 DEF Structure, Leases, Held, poolVars
<1>9. Replies'
  BY <1>1, <1>2, <1>3, <1>4, FinishFacts
  DEF Structure, Replies, Settled, SenderAlive, InService
<1>10. Decoding'
  BY <1>1, <1>3 DEF Structure, Decoding, Stepping, StateOf, poolVars
<1> QED
  BY <1>5, <1>6, <1>7, <1>8, <1>9, <1>10 DEF Structure

LEMMA FinishDropKeepsInv ==
  ASSUME LaneInv, FinishDrop
  PROVE  LaneInv'
<1> USE DEF LaneInv, handlerVars, gpuVars
<1>1. /\ wpc = "fin_drop" /\ wpc' = fin.resume
      /\ cur' = NoRequest /\ fin' = NotFinishing
      /\ UNCHANGED <<poolVars, handlerVars, chan, cancelled, events, reply, active, idx,
                     inFlight, gpuVars>>
  BY DEF FinishDrop
<1>2. wpc \in Finishing /\ wpc' \in {"drain", "decode"}
  BY <1>1, FinishFacts DEF Finishing
<1>3. Elements(chan') = Elements(chan) /\ Elements(active') = Elements(active)
  BY <1>1
<1>4. NoRequest \notin Elements(chan) /\ NoRequest \notin Elements(active)
  BY ElementsType, NobodyIsNoRequest DEF Types
<1>5. \A q \in Request : InService(q)' <=> InService(q) /\ q # cur
  BY <1>1, <1>2, <1>3, FinishFacts, NobodyIsNoRequest DEF InService
<1>6. PoolInv'
  BY <1>1, StutterKeepsPoolInv
<1>7. Types'
  BY <1>1, <1>2 DEF Types, PlaceTypes, FlagTypes, GpuTypes, NotFinishing
<1>8. Places' /\ Control'
  BY <1>1, <1>2, <1>3, <1>4, <1>5, FinishFacts
  DEF Structure, Places, Control, Distinct, Finishing
<1>9. Leases'
  BY <1>1, <1>2, <1>3, NobodyIsNoRequest DEF Structure, Leases, Held, poolVars
<1>10. Replies'
  <2>1. \A q \in Request : SenderAlive(q)' => SenderAlive(q)
    BY <1>1, <1>3, NobodyIsNoRequest DEF SenderAlive
  <2>2. \A q \in Request : Settled(q)' <=> Settled(q)
    BY <1>1, <1>2, <1>5, FinishFacts DEF Settled
  <2> QED
    BY <1>1, <2>1, <2>2 DEF Structure, Replies
<1>11. Decoding'
  BY <1>1, <1>2, <1>3 DEF Structure, Decoding, Stepping, StateOf, poolVars
<1> QED
  BY <1>6, <1>7, <1>8, <1>9, <1>10, <1>11 DEF Structure

-----------------------------------------------------------------------------
LEMMA LaneStepKeepsInv == LaneInv /\ [Next]_vars => LaneInv'
<1> SUFFICES ASSUME LaneInv, [Next]_vars PROVE LaneInv'
  OBVIOUS
<1>1. ASSUME NEW r \in Request, Handler(r) PROVE LaneInv'
  <2>1. CASE HandlerSubmit(r)
    BY <2>1, SubmitKeepsInv, LeaseTakeKeepsInv, LeasePublishKeepsInv, SendKeepsInv
    DEF HandlerSubmit
  <2>2. CASE HandlerAwait(r)
    BY <2>2, AwaitKeepsInv
  <2> QED BY <1>1, <2>1, <2>2 DEF Handler
<1>2. ASSUME NEW r \in Request, Disconnect(r) \/ WatchCancels(r) \/ HungRetires(r)
      PROVE  LaneInv'
  BY <1>2, ClientKeepsInv
<1>3. CASE Worker
  <2>1. CASE WorkerLoop
    BY <2>1, LoopKeepsInv, ReceiveKeepsInv DEF WorkerLoop
  <2>2. CASE WorkerAdmit
    BY <2>2, AdmitFailsKeepsInv, AdmitKeepsInv DEF WorkerAdmit
  <2>3. CASE WorkerDecode
    BY <2>3, LoopKeepsInv, LeaveKeepsInv, RestoreKeepsInv, RunStepKeepsInv, EmitKeepsInv
    DEF WorkerDecode
  <2>4. CASE WorkerFinish
    BY <2>4, FinishReleaseKeepsInv, FinishCountKeepsInv, FinishReplyKeepsInv,
       FinishDropKeepsInv
    DEF WorkerFinish
  <2> QED BY <1>3, <2>1, <2>2, <2>3, <2>4 DEF Worker
<1>4. CASE UNCHANGED vars
  <2> USE DEF LaneInv, vars, laneVars
  <2>1. PoolInv'
    BY <1>4, StutterKeepsPoolInv
  <2>2. Types'
    BY <1>4, Zenon DEF Types, PlaceTypes, FlagTypes, GpuTypes
  <2>3. Structure'
    BY <1>4, IdleKeepsStructure DEF placeVars, deviceVars, poolVars
  <2> QED BY <2>1, <2>2, <2>3
<1> QED
  BY <1>1, <1>2, <1>3, <1>4 DEF Next

(* Every request is in one place at a time, holds its lease exactly while  *)
(* it is submitted or served, and its device state is where the decode     *)
(* loop looks for it.                                                      *)
THEOREM LaneInvariant == Spec => []LaneInv
<1> QED
  BY LaneInitInv, LaneStepKeepsInv, PTL DEF Spec

(* No physical KV block is in two requests' tables, or leased and free, or *)
(* lost, in any interleaving of handlers, clients and worker.              *)
THEOREM LaneLeaseExclusive == Spec => []LeaseExclusive
<1>1. LaneInv => LeaseExclusive
  BY DEF LaneInv, PoolInv
<1> QED
  BY <1>1, LaneInvariant, PTL

(* No lease outlives its request's stay in the lane, whichever of the      *)
(* error paths of admission and decoding the request leaves by.            *)
THEOREM LaneNoLeaseLeak == Spec => []NoLeaseLeak
<1>1. LaneInv => NoLeaseLeak
  BY DEF LaneInv, Structure, Leases, Held, NoLeaseLeak, InService, Leasing
<1> QED
  BY <1>1, LaneInvariant, PTL

(* When the stream's event channel is closed and drained, the final result *)
(* is there: recv_timeout finds it at once.                                *)
THEOREM LaneResultReady == Spec => []ResultReadyAtStreamEnd
<1>1. LaneInv => ResultReadyAtStreamEnd
  BY DEF LaneInv, Structure, Replies, Settled, SenderAlive, InService, Unsent, Rejections,
         ResultReadyAtStreamEnd
<1> QED
  BY <1>1, LaneInvariant, PTL

(* Each decode step runs on its own request's block table, step count and  *)
(* pages, however the requests that share the runner interleave.  What     *)
(* kernels that outlive a failed wait write is not part of the model, so   *)
(* nothing is claimed for a lane whose decodes may hang.                   *)
THEOREM LaneStepIsolated ==
  ASSUME ~DecodeMayHang PROVE Spec => []StepIsolated
<1>1. LaneInv => StepIsolated
  <2> SUFFICES ASSUME LaneInv, wpc = "run"
               PROVE  /\ runner = StateOf(active[idx])
                      /\ \A b \in lease[active[idx]] : page[b] = active[idx]
    BY DEF StepIsolated, StateOf
  <2>1. idx \in 1..Len(active)
    BY DEF LaneInv, Structure, Control
  <2>2. active[idx] \in Elements(active) /\ Stepping(active[idx])
    BY <2>1 DEF Elements, Stepping
  <2> QED
    BY <2>2 DEF LaneInv, Structure, Decoding
<1> QED
  BY <1>1, LaneInvariant, PTL

-----------------------------------------------------------------------------
(* The counters.  Over the limit or not, a request is counted once; those  *)
(* that are not over the limit are at most QueueLimit, whatever happens    *)
(* between a handler's fetch_add and the worker's fetch_sub.               *)
CountedSet == {r \in Request : Counted(r)}
EndedSet(k) == {r \in Request : HowEnded(r) = k}
WithinSet == {r \in Request : Counted(r) /\ hpc[r] # "over"}

Counters ==
  /\ queued = Cardinality(CountedSet)
  /\ totals \in [Kinds -> Nat]
  /\ \A k \in Kinds : totals[k] = Cardinality(EndedSet(k))
  /\ Cardinality(WithinSet) <= QueueLimit

LEMMA CountedFinite ==
  /\ IsFiniteSet(CountedSet) /\ IsFiniteSet(WithinSet)
  /\ \A k : IsFiniteSet(EndedSet(k))
  /\ Cardinality(CountedSet) \in Nat
  /\ Cardinality(WithinSet) \in Nat
  /\ Cardinality(WithinSet) <= Cardinality(CountedSet)
<1>1. IsFiniteSet(CountedSet) /\ IsFiniteSet(WithinSet)
  BY PoolAssumption, FS_Subset DEF CountedSet, WithinSet
<1>3. ASSUME NEW k PROVE IsFiniteSet(EndedSet(k))
  BY PoolAssumption, FS_Subset DEF EndedSet
<1>2. WithinSet \in SUBSET CountedSet
  BY DEF WithinSet, CountedSet
<1> QED
  BY <1>1, <1>2, <1>3, FS_CardinalityType, FS_Subset

LEMMA InitCounters == Init => Counters
<1> SUFFICES ASSUME Init PROVE Counters
  OBVIOUS
<1>1. Elements(<<>>) = {}
  BY DEF Elements
<1>2. \A r \in Request : ~Counted(r) /\ HowEnded(r) = None
  BY <1>1, NobodyIsNoRequest DEF Init, Counted, InService, HowEnded
<1>3. CountedSet = {} /\ WithinSet = {} /\ \A k \in Kinds : EndedSet(k) = {}
  BY <1>2 DEF CountedSet, EndedSet, WithinSet, Kinds, None
<1>4. /\ Cardinality(CountedSet) = 0 /\ Cardinality(WithinSet) = 0
      /\ \A k \in Kinds : Cardinality(EndedSet(k)) = 0
  BY <1>3, FS_EmptySet
<1> QED
  BY <1>4, LaneAssumption DEF Init, Counters

LEMMA SameCounters ==
  ASSUME Counters, UNCHANGED <<queued, totals>>,
         \A r \in Request : /\ Counted(r)' <=> Counted(r)
                            /\ HowEnded(r)' = HowEnded(r)
                            /\ hpc'[r] = "over" <=> hpc[r] = "over"
  PROVE  Counters'
<1>1. CountedSet' = CountedSet /\ WithinSet' = WithinSet
  BY DEF CountedSet, WithinSet
<1>2. ASSUME NEW k PROVE EndedSet(k)' = EndedSet(k)
  BY DEF EndedSet
<1> QED
  BY <1>1, <1>2 DEF Counters

LEMMA CountInCounters ==
  ASSUME LaneInv, Counters, NEW r \in Request, CountIn(r)
  PROVE  Counters'
<1> USE DEF workerVars
<1>1. /\ hpc[r] = "start"
      /\ queued' = queued + 1
      /\ hpc' = [hpc EXCEPT ![r] = IF queued >= QueueLimit THEN "over" ELSE "counted"]
      /\ UNCHANGED <<chan, active, cur, fin, wpc, reply, totals>>
  BY DEF CountIn, Goto
<1>2. /\ hpc'[r] = IF queued >= QueueLimit THEN "over" ELSE "counted"
      /\ \A q \in Request : q # r => hpc'[q] = hpc[q]
  BY <1>1 DEF LaneInv, Types, PlaceTypes
<1>3. ~Counted(r)
  BY <1>1 DEF Counted, LaneInv, Structure, Places, Unsent
<1>4. /\ \A q \in Request : Counted(q)' <=> Counted(q) \/ q = r
      /\ \A q \in Request : HowEnded(q)' = HowEnded(q)
  BY <1>1, <1>2 DEF Counted, HowEnded, InService, Elements
<1>5. /\ CountedSet' = CountedSet \cup {r} /\ r \notin CountedSet
      /\ \A k \in Kinds : EndedSet(k)' = EndedSet(k)
  BY <1>3, <1>4 DEF CountedSet, EndedSet
<1>6. Cardinality(CountedSet') = Cardinality(CountedSet) + 1
  BY <1>5, CountedFinite, FS_AddElement
<1>7. Cardinality(WithinSet') <= QueueLimit
  <2>1. CASE queued >= QueueLimit
    <3>1. WithinSet' = WithinSet
      BY <2>1, <1>2, <1>3, <1>4 DEF WithinSet
    <3> QED BY <3>1 DEF Counters
  <2>2. CASE ~(queued >= QueueLimit)
    <3>1. WithinSet' = WithinSet \cup {r} /\ r \notin WithinSet
      BY <2>2, <1>1, <1>2, <1>3, <1>4 DEF WithinSet
    <3>2. Cardinality(WithinSet') = Cardinality(WithinSet) + 1
      BY <3>1, CountedFinite, FS_AddElement
    <3> QED BY <2>2, <3>2, CountedFinite, LaneAssumption DEF Counters
  <2> QED BY <2>1, <2>2
<1> QED
  BY <1>1, <1>5, <1>6, <1>7 DEF Counters

(* A request that leaves the lane's count is out of both sets. *)
LEMMA OneLessCounted ==
  ASSUME Counters, NEW r \in Request, Counted(r),
         \A q \in Request : Counted(q)' <=> Counted(q) /\ q # r,
         \A q \in Request : q # r => hpc'[q] = hpc[q]
  PROVE  /\ Cardinality(CountedSet') = Cardinality(CountedSet) - 1
         /\ Cardinality(WithinSet') <= QueueLimit
<1>1. CountedSet' = CountedSet \ {r} /\ r \in CountedSet
  BY DEF CountedSet
<1>2. WithinSet' = WithinSet \ {r}
  BY DEF WithinSet
<1>3. Cardinality(WithinSet \ {r}) <= Cardinality(WithinSet)
  BY CountedFinite, FS_Subset, WithinSet \ {r} \in SUBSET WithinSet
<1>4. Cardinality(CountedSet \ {r}) = Cardinality(CountedSet) - 1
  BY <1>1, CountedFinite, FS_RemoveElement
<1>5. Cardinality(WithinSet \ {r}) \in Nat
  BY CountedFinite, FS_RemoveElement, FS_CardinalityType
<1> QED
  BY <1>1, <1>2, <1>3, <1>4, <1>5, CountedFinite, LaneAssumption DEF Counters

LEMMA RejectCounters ==
  ASSUME LaneInv, Counters, NEW r \in Request, RejectFull(r) \/ RejectNoBlocks(r)
  PROVE  Counters'
<1> USE DEF workerVars
<1>1. /\ hpc[r] \in {"over", "denied"}
      /\ queued' = queued - 1
      /\ \E h \in Rejections : hpc' = [hpc EXCEPT ![r] = h]
      /\ UNCHANGED <<chan, active, cur, fin, wpc, reply, totals>>
  BY DEF RejectFull, RejectNoBlocks, Goto, Rejections
<1>2. /\ hpc'[r] \in Rejections
      /\ \A q \in Request : q # r => hpc'[q] = hpc[q]
  BY <1>1 DEF LaneInv, Types, PlaceTypes
<1>3. Counted(r) /\ ~InService(r)
  BY <1>1 DEF Counted, LaneInv, Structure, Places, Unsent
<1>4. /\ \A q \in Request : Counted(q)' <=> Counted(q) /\ q # r
      /\ \A q \in Request : HowEnded(q)' = HowEnded(q)
  BY <1>1, <1>2, <1>3 DEF Counted, HowEnded, InService, Elements, Rejections
<1>5. \A k \in Kinds : EndedSet(k)' = EndedSet(k)
  BY <1>4 DEF EndedSet
<1> QED
  BY <1>1, <1>2, <1>3, <1>4, <1>5, OneLessCounted DEF Counters

LEMMA FinishCountCounters ==
  ASSUME LaneInv, Counters, FinishCount
  PROVE  Counters'
<1> USE DEF handlerVars
<1>1. /\ wpc = "fin_count" /\ wpc' = "fin_reply"
      /\ queued' = queued - 1
      /\ totals' = [totals EXCEPT ![fin.kind] = @ + 1]
      /\ UNCHANGED <<hpc, chan, active, cur, fin, reply>>
  BY DEF FinishCount
<1>2. /\ cur \in Request /\ fin.kind \in Kinds
      /\ hpc[cur] \notin Unsent
  BY <1>1, FinishFacts DEF Finishing
<1>3. Counted(cur) /\ reply[cur] = None
  BY <1>1, <1>2 DEF Counted, InService, LaneInv, Structure, Replies, Settled
<1>4. \A q \in Request : Counted(q)' <=> Counted(q) /\ q # cur
  BY <1>1, <1>2 DEF Counted, InService, Elements, Unsent
<1>5. \A q \in Request :
        /\ q = cur => HowEnded(q) = None /\ HowEnded(q)' = fin.kind
        /\ q # cur => HowEnded(q)' = HowEnded(q)
  BY <1>1, <1>3 DEF HowEnded
<1>6. \A k \in Kinds : totals'[k] = Cardinality(EndedSet(k)')
  <2> SUFFICES ASSUME NEW k \in Kinds PROVE totals'[k] = Cardinality(EndedSet(k)')
    OBVIOUS
  <2>1. k # None /\ totals[k] = Cardinality(EndedSet(k)) /\ totals \in [Kinds -> Nat]
    BY DEF Counters, Kinds, None
  <2>2. cur \notin EndedSet(k)
    BY <1>2, <1>5, <2>1 DEF EndedSet
  <2>3. CASE k = fin.kind
    <3>1. EndedSet(k)' = EndedSet(k) \cup {cur}
      BY <1>2, <1>5, <2>3 DEF EndedSet
    <3>2. Cardinality(EndedSet(k)') = Cardinality(EndedSet(k)) + 1
      BY <2>2, <3>1, CountedFinite, FS_AddElement
    <3> QED BY <1>1, <2>1, <2>3, <3>2
  <2>4. CASE k # fin.kind
    <3>1. EndedSet(k)' = EndedSet(k)
      BY <1>5, <2>1, <2>4 DEF EndedSet
    <3> QED BY <1>1, <2>1, <2>4, <3>1
  <2> QED BY <2>3, <2>4
<1>7. totals' \in [Kinds -> Nat]
  BY <1>1, <1>2 DEF Counters
<1> QED
  BY <1>1, <1>2, <1>3, <1>4, <1>6, <1>7, OneLessCounted DEF Counters

(* All other steps leave every request counted or not as it was. *)
LEMMA HandlerKeepsCounts ==
  ASSUME LaneInv, Counters, NEW r \in Request,
         \/ LeaseDenied(r) \/ LeaseTake(r) \/ LeasePublish(r) \/ Send(r)
         \/ HandlerAwait(r) \/ Disconnect(r) \/ WatchCancels(r) \/ HungRetires(r)
  PROVE  Counters'
<1> USE DEF handlerVars, workerVars
<1>1. UNCHANGED <<queued, totals, active, cur, fin, wpc, reply>>
  BY DEF LeaseDenied, LeaseTake, LeasePublish, Send, HandlerAwait, TakeReply, StreamChunk,
         StreamWriteFails, StreamBreak, StreamEnd, StreamResult, StreamResultMissing,
         Disconnect, WatchCancels, HungRetires
<1>2. \A q \in Request : HowEnded(q)' = HowEnded(q)
  BY <1>1 DEF HowEnded
<1>3. CASE Send(r)
  <2>1. /\ hpc[r] = "leased"
        /\ hpc' = [hpc EXCEPT ![r] = IF r \in Stream THEN "streaming" ELSE "waiting"]
        /\ chan' = Append(chan, r)
    BY <1>3 DEF Send, Goto
  <2>2. ~InService(r)
    BY <2>1 DEF LaneInv, Structure, Places, Unsent
  <2>3. Elements(chan') = Elements(chan) \cup {r}
    BY <2>1, <2>2, AppendElements
    DEF LaneInv, Types, PlaceTypes, Structure, Places, InService
  <2>4. /\ hpc'[r] \in {"streaming", "waiting"}
        /\ \A q \in Request : q # r => hpc'[q] = hpc[q]
    BY <2>1 DEF LaneInv, Types, PlaceTypes
  <2>5. \A q \in Request : Counted(q)' <=> Counted(q)
    BY <1>1, <2>1, <2>2, <2>3, <2>4 DEF Counted, InService
  <2> QED
    BY <1>1, <1>2, <2>1, <2>4, <2>5, SameCounters
<1>4. CASE ~Send(r)
  <2>1. UNCHANGED chan
    BY <1>4
    DEF LeaseDenied, LeaseTake, LeasePublish, HandlerAwait, TakeReply, StreamChunk,
        StreamWriteFails, StreamBreak, StreamEnd, StreamResult, StreamResultMissing,
        Disconnect, WatchCancels, HungRetires
  <2>2. \/ UNCHANGED hpc
        \/ \E h \in {"denied", "acquiring", "leased"} :
             hpc[r] \in {"counted", "acquiring"} /\ hpc' = [hpc EXCEPT ![r] = h]
        \/ \E h \in {"broke", "ended", "answered", "write_failed", "result_missing"} :
             /\ hpc[r] \in {"waiting", "streaming", "ended", "broke"}
             /\ hpc' = [hpc EXCEPT ![r] = h]
    BY <1>4
    DEF LeaseDenied, LeaseTake, LeasePublish, HandlerAwait, TakeReply, StreamChunk,
        StreamWriteFails, StreamBreak, StreamEnd, StreamResult, StreamResultMissing,
        Disconnect, WatchCancels, HungRetires, Goto
  <2>3. \A q \in Request : InService(q)' <=> InService(q)
    BY <1>1, <2>1 DEF InService, Elements
  <2>4. \A q \in Request : /\ Counted(q)' <=> Counted(q)
                           /\ hpc'[q] = "over" <=> hpc[q] = "over"
    BY <1>1, <2>2, <2>3 DEF Counted, LaneInv, Types, PlaceTypes
  <2> QED
    BY <1>1, <1>2, <2>4, SameCounters
<1> QED
  BY <1>3, <1>4

(* The worker moves a request between its places in service.               *)
LEMMA MoveKeepsCounts ==
  ASSUME LaneInv, Counters, UNCHANGED <<hpc, queued, totals, reply>>,
         \A q \in Request : InService(q)' <=> InService(q),
         wpc \notin {"fin_reply", "fin_drop"}, wpc' \notin {"fin_reply", "fin_drop"}
  PROVE  Counters'
BY SameCounters DEF Counted, HowEnded

LEMMA WorkerKeepsCounts ==
  ASSUME LaneInv, Counters,
         WorkerLoop \/ WorkerAdmit \/ WorkerDecode \/ FinishRelease
  PROVE  Counters'
<1> USE DEF handlerVars, gpuVars
<1>1. CASE WorkerTop \/ DrainEmpty \/ CheckFreeList \/ CheckGauge \/ DecodePassDone
           \/ AdmitCancelled \/ AdmitOpenFails \/ AdmitBeginFails
           \/ Restore \/ RunStep \/ FinishRelease
  <2>1. /\ UNCHANGED <<hpc, queued, totals, reply, chan, active, cur>>
        /\ wpc \notin {"fin_reply", "fin_drop"} /\ wpc' \notin {"fin_reply", "fin_drop"}
    BY <1>1
    DEF WorkerTop, DrainEmpty, CheckFreeList, CheckGauge, DecodePassDone, AdmitCancelled,
        AdmitOpenFails, AdmitBeginFails, Restore, RunStep, FinishRelease, Finish, DecodeNext
  <2> QED
    BY <2>1, MoveKeepsCounts DEF InService, Elements
<1>2. CASE Receive
  <2>1. /\ wpc \in {"recv", "drain"} /\ wpc' = "admit" /\ chan # <<>>
        /\ cur' = Head(chan) /\ chan' = Tail(chan)
        /\ UNCHANGED <<hpc, queued, totals, reply, active>>
    BY <1>2 DEF Receive
  <2>2. Elements(chan) = Elements(chan') \cup {cur'} /\ cur = NoRequest
    BY <2>1, HeadElements
    DEF LaneInv, Types, PlaceTypes, Structure, Places, Finishing
  <2> QED
    BY <2>1, <2>2, NobodyIsNoRequest, MoveKeepsCounts DEF InService, Elements
<1>3. CASE Admit
  <2>1. /\ wpc = "admit" /\ wpc' = "drain"
        /\ active' = Append(active, cur) /\ cur' = NoRequest
        /\ UNCHANGED <<hpc, queued, totals, reply, chan>>
    BY <1>3 DEF Admit
  <2>2. Elements(active') = Elements(active) \cup {cur}
    BY <2>1, AdmitFacts, AppendElements
    DEF LaneInv, Types, PlaceTypes, Structure, Places
  <2> QED
    BY <2>1, <2>2, NobodyIsNoRequest, MoveKeepsCounts DEF InService, Elements
<1>4. ASSUME NEW kind, Remove(kind), DecodeCancelled \/ StepFails \/ EmitFails \/ Emit
      PROVE  Counters'
  <2>1. /\ wpc \in {"decode", "run", "emit"} /\ wpc' = "fin_release"
        /\ cur' = active[idx] /\ active' = Without(active, idx)
        /\ UNCHANGED <<hpc, queued, totals, reply, chan>>
    BY <1>4
    DEF Remove, Finish, DecodeCancelled, StepFails, EmitFails, Emit, DecodeNext
  <2>2. idx \in 1..Len(active)
    <3>1. Len(active) \in Nat /\ idx \in Nat
      BY DEF LaneInv, Types, PlaceTypes
    <3> QED
      BY <1>4, <3>1
      DEF DecodeCancelled, StepFails, EmitFails, Emit, DecodeNext,
          LaneInv, Structure, Control
  <2>3. Elements(active) = Elements(active') \cup {cur'} /\ cur = NoRequest
    BY <2>1, <2>2, WithoutElements
    DEF LaneInv, Types, PlaceTypes, Structure, Places, Finishing
  <2> QED
    BY <2>1, <2>3, NobodyIsNoRequest, MoveKeepsCounts DEF InService, Elements
<1>5. CASE Emit /\ ~LastStep(active[idx])
  <2>1. /\ wpc = "emit" /\ wpc' = "decode"
        /\ UNCHANGED <<hpc, queued, totals, reply, chan, active, cur>>
    BY <1>5 DEF Emit
  <2> QED
    BY <2>1, MoveKeepsCounts DEF InService, Elements
<1>6. DecodeCancelled \/ StepFails \/ EmitFails \/ (Emit /\ LastStep(active[idx]))
        => \E kind : Remove(kind)
  BY DEF DecodeCancelled, StepFails, EmitFails, Emit
<1> QED
  BY <1>1, <1>2, <1>3, <1>4, <1>5, <1>6 DEF WorkerLoop, WorkerAdmit, WorkerDecode

LEMMA FinishKeepsCounts ==
  ASSUME LaneInv, Counters, FinishReply \/ FinishDrop
  PROVE  Counters'
<1> USE DEF handlerVars
<1>1. cur \in Request /\ fin.kind \in Kinds /\ fin.resume \in {"drain", "decode"}
  BY FinishFacts DEF FinishReply, FinishDrop, Finishing
<1>2. CASE FinishReply
  <2>1. /\ wpc = "fin_reply" /\ wpc' = "fin_drop"
        /\ reply' = [reply EXCEPT ![cur] = fin.kind]
        /\ UNCHANGED <<hpc, queued, totals, chan, active, cur>>
    BY <1>2 DEF FinishReply
  <2>2. /\ reply'[cur] = fin.kind
        /\ \A q \in Request : q # cur => reply'[q] = reply[q]
    BY <1>1, <2>1 DEF LaneInv, Types, PlaceTypes, Kinds, None
  <2>3. \A q \in Request : /\ Counted(q)' <=> Counted(q)
                           /\ HowEnded(q)' = HowEnded(q)
    BY <1>1, <2>1, <2>2 DEF Counted, HowEnded, InService, Elements
  <2> QED
    BY <2>1, <2>3, SameCounters
<1>3. CASE FinishDrop
  <2>1. /\ wpc = "fin_drop" /\ wpc' \in {"drain", "decode"}
        /\ cur' = NoRequest
        /\ UNCHANGED <<hpc, queued, totals, chan, active, reply>>
    BY <1>1, <1>3 DEF FinishDrop
  <2>2. cur \notin Elements(chan) /\ cur \notin Elements(active) /\ hpc[cur] \notin Unsent
    BY <2>1, FinishFacts DEF Finishing
  <2>3. \A q \in Request : /\ Counted(q)' <=> Counted(q)
                           /\ HowEnded(q)' = HowEnded(q)
    BY <2>1, <2>2, NobodyIsNoRequest DEF Counted, HowEnded, InService, Elements, Unsent
  <2> QED
    BY <2>1, <2>3, SameCounters
<1> QED
  BY <1>2, <1>3

LEMMA StepKeepsCounters == LaneInv /\ Counters /\ [Next]_vars => Counters'
<1> SUFFICES ASSUME LaneInv, Counters, [Next]_vars PROVE Counters'
  OBVIOUS
<1>1. ASSUME NEW r \in Request, Handler(r) PROVE Counters'
  BY <1>1, CountInCounters, RejectCounters, HandlerKeepsCounts
  DEF Handler, HandlerSubmit
<1>2. ASSUME NEW r \in Request, Disconnect(r) \/ WatchCancels(r) \/ HungRetires(r)
      PROVE  Counters'
  BY <1>2, HandlerKeepsCounts
<1>3. CASE Worker
  BY <1>3, WorkerKeepsCounts, FinishCountCounters, FinishKeepsCounts
  DEF Worker, WorkerFinish
<1>4. CASE UNCHANGED vars
  <2>1. \A q \in Request : /\ Counted(q)' <=> Counted(q)
                           /\ HowEnded(q)' = HowEnded(q)
    BY <1>4 DEF vars, laneVars, Counted, HowEnded, InService, Elements
  <2> QED
    BY <1>4, <2>1, SameCounters DEF vars, laneVars
<1> QED
  BY <1>1, <1>2, <1>3, <1>4 DEF Next

(* No interleaving of handlers and worker loses or repeats a decrement. *)
THEOREM LaneCounters == Spec => [](LaneInv /\ Counters)
<1>1. Init => LaneInv /\ Counters
  BY LaneInitInv, InitCounters
<1>2. (LaneInv /\ Counters) /\ [Next]_vars => (LaneInv /\ Counters)'
  BY LaneStepKeepsInv, StepKeepsCounters
<1> QED
  BY <1>1, <1>2, PTL DEF Spec

(* The queued gauge counts exactly the requests between their fetch_add    *)
(* and the fetch_sub of their rejection or finish.                         *)
THEOREM LaneQueuedExact == Spec => []QueuedExact
<1>1. Counters => QueuedExact
  BY DEF Counters, CountedSet, QueuedExact
<1> QED
  BY <1>1, LaneCounters, PTL

(* The end of a request is final when it is told: its lease and its place   *)
(* in the lane are given up, and the completed, cancelled and failed totals *)
(* have counted it once, under that end, by whatever path it left.          *)
THEOREM LaneResultIsFinal == Spec => []ResultIsFinal
<1>1. LaneInv /\ Counters => ResultIsFinal
  <2> SUFFICES ASSUME LaneInv, Counters PROVE ResultIsFinal
    OBVIOUS
  <2>1. ASSUME NEW r \in Request, reply[r] # None
        PROVE  lease[r] = {} /\ ~Counted(r)
                 /\ r \notin Elements(active) \cup Elements(chan)
    <3>1. Settled(r)
      BY <2>1 DEF LaneInv, Structure, Replies
    <3>2. r \notin Elements(active) \cup Elements(chan)
      BY <3>1 DEF LaneInv, Structure, Places, Settled, InService
    <3>3. ~Held(r)
      BY <3>1, <3>2 DEF Settled, InService, Held, Unsent, Leasing
    <3>4. ~Counted(r)
      BY <3>1 DEF Settled, Counted, Unsent
    <3> QED
      BY <3>2, <3>3, <3>4 DEF LaneInv, Structure, Leases
  <2>2. \A k \in Kinds : totals[k] = Cardinality({r \in Request : HowEnded(r) = k})
    BY DEF Counters, EndedSet
  <2> QED
    BY <2>1, <2>2 DEF ResultIsFinal
<1> QED
  BY <1>1, LaneInvariant, LaneCounters, PTL

(* Type correctness; that queued stays a natural number is the heart of it *)
(* (it is an AtomicUsize that would wrap).                                 *)
THEOREM LaneTypeCorrect == Spec => []TypeOK
<1>1. LaneInv /\ Counters => TypeOK
  <2> SUFFICES ASSUME LaneInv, Counters PROVE TypeOK
    OBVIOUS
  <2>1. queued \in Nat /\ totals \in [Kinds -> Nat]
    BY CountedFinite DEF Counters
  <2>2. hpc \in [Request -> {"start", "over", "counted", "denied", "acquiring",
                             "leased", "waiting", "streaming", "broke", "ended"}
                            \cup Outcomes]
    BY DEF LaneInv, Types, PlaceTypes, Unsent, Outcomes, Rejections
  <2>3. wpc \in {"top", "recv", "drain", "check_free", "check_gauge", "admit",
                 "decode", "run", "emit",
                 "fin_release", "fin_count", "fin_reply", "fin_drop"}
    BY DEF LaneInv, Types, PlaceTypes, Finishing
  <2> QED
    BY <2>1, <2>2, <2>3, Zenon
    DEF TypeOK, LaneInv, PoolInv, Types, PlaceTypes, FlagTypes, GpuTypes
<1> QED
  BY <1>1, LaneCounters, PTL

(* try_send never finds the channel full, so the queued counter alone      *)
(* enforces the queue limit.                                               *)
THEOREM LaneChannelNeverFull == Spec => []ChannelNeverFull
<1>1. LaneInv /\ Counters => ChannelNeverFull
  <2> SUFFICES ASSUME LaneInv, Counters, NEW r \in Request, hpc[r] = "leased"
               PROVE  Len(chan) < QueueLimit
    BY DEF ChannelNeverFull
  <2> DEFINE n == Len(chan)
             f == [i \in 1..n |-> chan[i]]
             E == Elements(chan)
  <2>1. n \in Nat /\ chan \in Seq(Request)
    BY DEF LaneInv, Types, PlaceTypes
  <2>2. f \in Injection(1..n, E)
    BY DEF Injection, IsInjective, Elements, LaneInv, Structure, Places, Distinct
  <2>3. E \subseteq Request
    BY ElementsType DEF LaneInv, Types
  <2>4. ~InService(r)
    BY DEF LaneInv, Structure, Places, Unsent
  <2> HIDE DEF f, n, E
  <2>5. IsFiniteSet(E)
    BY <2>3, PoolAssumption, FS_Subset
  <2>6. n <= Cardinality(E) /\ Cardinality(E) \in Nat
    <3>1. Cardinality(1..n) = n
      BY <2>1, FS_Interval
    <3> QED
      BY <2>2, <2>5, <3>1, FS_Injection, FS_CardinalityType
  <2>7. Cardinality(E \cup {r}) = Cardinality(E) + 1
    BY <2>4, <2>5, FS_AddElement DEF InService, E
  <2>8. E \cup {r} \in SUBSET WithinSet
    <3>1. r \in WithinSet
      BY DEF WithinSet, Counted
    <3>2. ASSUME NEW q \in E PROVE q \in WithinSet
      <4>1. q \in Request /\ InService(q) /\ q # cur
        BY <2>3 DEF InService, E, LaneInv, Structure, Places
      <4>2. hpc[q] # "over"
        BY <4>1 DEF LaneInv, Structure, Places, Unsent
      <4> QED BY <4>1, <4>2 DEF WithinSet, Counted
    <3> QED BY <3>1, <3>2
  <2>9. Cardinality(E \cup {r}) <= Cardinality(WithinSet)
    BY <2>8, CountedFinite, FS_Subset
  <2>10. n < QueueLimit
    BY <2>1, <2>6, <2>7, <2>9, CountedFinite, LaneAssumption DEF Counters
  <2> QED BY <2>10 DEF n
<1> QED
  BY <1>1, LaneCounters, PTL

(* validate_active_kv_ownership never makes a healthy tick fail: the table *)
(* checks pass inside the mutex, and the gauge, read after the mutex was   *)
(* dropped, covers the active blocks while handlers go on acquiring.       *)
THEOREM LaneOwnershipCheckPasses == Spec => []OwnershipCheckPasses
<1>1. LaneInv => OwnershipCheckPasses
  <2> SUFFICES ASSUME LaneInv PROVE OwnershipCheckPasses
    OBVIOUS
  <2> USE DEF LaneInv
  <2>1. ASSUME NEW i \in 1..Len(active)
        PROVE  /\ active[i] \in Request /\ active[i] \in Elements(active)
               /\ lease[active[i]] # {}
               /\ lease[active[i]] \subseteq Block \ free
               /\ hpc[active[i]] \notin Unsent
    <3>1. active[i] \in Elements(active)
      BY DEF Elements
    <3>2. active[i] \in Request
      BY <3>1, ElementsType DEF Types
    <3> QED
      BY <3>1, <3>2
      DEF Structure, Places, InService, Leases, Held, PoolInv, PoolTypeOK, LeaseExclusive
  <2>2. \A i \in 1..Len(active) : Cardinality(lease[active[i]]) = BlocksPerRequest
    BY <2>1 DEF PoolInv, LeaseComplete
  <2>3. \A i, j \in 1..Len(active) :
          i # j => lease[active[i]] \cap lease[active[j]] = {}
    BY <2>1 DEF PoolInv, LeaseExclusive, Structure, Places, Distinct
  <2>4. ActiveBlocks \subseteq Block \ free
    BY <2>1 DEF ActiveBlocks
  <2>5. Cardinality(ActiveBlocks) <= inUse
    <3>1. CASE poolLock = NoRequest
      <4>1. inUse = Cardinality(Block \ free)
        BY <3>1 DEF PoolInv, GaugeExact, PoolTypeOK
      <4>2. IsFiniteSet(Block \ free)
        BY PoolAssumption, FS_Subset, Block \ free \in SUBSET Block
      <4> QED BY <2>4, <4>1, <4>2, FS_Subset
    <3>2. CASE poolLock # NoRequest
      <4> DEFINE p == poolLock
      <4>1. p \in Request /\ hpc[p] \in Unsent /\ lease[p] \in SUBSET (Block \ free)
        BY <3>2 DEF PoolInv, PoolTypeOK, LeaseExclusive, Structure, Leases, Unsent
      <4>2. inUse + Cardinality(lease[p]) = Cardinality(Block \ free)
        BY <3>2 DEF PoolInv, GaugeExact
      <4>3. \A i \in 1..Len(active) : lease[active[i]] \cap lease[p] = {}
        BY <2>1, <4>1 DEF PoolInv, LeaseExclusive
      <4>4. ActiveBlocks \in SUBSET (Block \ (free \cup lease[p]))
        BY <2>4, <4>3 DEF ActiveBlocks
      <4>5. /\ Cardinality(lease[p]) \in Nat
            /\ Cardinality(Block \ (free \cup lease[p]))
                 = Cardinality(Block \ free) - Cardinality(lease[p])
        BY <4>1, ReturnedCount DEF PoolInv, PoolTypeOK
      <4>6. IsFiniteSet(Block \ (free \cup lease[p]))
        BY PoolAssumption, FS_Subset, Block \ (free \cup lease[p]) \in SUBSET Block
      <4>7. Cardinality(ActiveBlocks) <= Cardinality(Block \ (free \cup lease[p]))
        BY <4>4, <4>6, FS_Subset
      <4> HIDE DEF p
      <4> QED
        BY <4>2, <4>5, <4>7 DEF PoolInv, PoolTypeOK
    <3> QED BY <3>1, <3>2
  <2>6. ActiveBlocks \cap free = {}
    BY <2>4
  <2> QED
    BY <2>2, <2>3, <2>5, <2>6 DEF OwnershipCheckPasses
<1> QED
  BY <1>1, LaneInvariant, PTL

-----------------------------------------------------------------------------
(* 3. The refinement of LaneService.                                       *)

(* An active request still has a step to go, except right after a step.    *)
StepsInv ==
  \A r \in Elements(active) :
    /\ generated[r] <= StepsAsked(r)
    /\ ~(wpc = "emit" /\ r = active[idx]) => generated[r] < StepsAsked(r)

(* What the finish is going to report is true. *)
OutcomeInv ==
  wpc \in Finishing =>
    /\ fin.kind = "completed" => generated[cur] = StepsAsked(cur)
    /\ fin.kind = "cancelled" => cancelled[cur]

(* The blocks outside the free list are the tables of the lease holders.   *)
Holders == {r \in Request : lease[r] # {}}
SlotsInv ==
  Cardinality(Block \ free) = BlocksPerRequest * Cardinality(Holders)

ServiceInv == LaneInv /\ StepsInv /\ OutcomeInv /\ SlotsInv

LEMMA StepsAskedType ==
  ASSUME NEW r \in Request
  PROVE  StepsAsked(r) \in Nat \ {0}
<1>1. CASE r \in Stream
  BY <1>1, LaneAssumption DEF StepsAsked
<1>2. CASE r \notin Stream
  BY <1>2, LaneAssumption DEF StepsAsked
<1> QED
  BY <1>1, <1>2

LEMMA HoldersFinite ==
  /\ Holders \in SUBSET Request
  /\ IsFiniteSet(Holders)
  /\ Cardinality(Holders) \in Nat
<1>1. Holders \in SUBSET Request
  BY DEF Holders
<1> QED
  BY <1>1, PoolAssumption, FS_Subset, FS_CardinalityType

LEMMA ServiceInitInv == Init => ServiceInv
<1> SUFFICES ASSUME Init PROVE ServiceInv
  OBVIOUS
<1>1. LaneInv
  BY LaneInitInv
<1>2. StepsInv /\ OutcomeInv
  BY DEF Init, StepsInv, OutcomeInv, Elements, Finishing
<1>3. SlotsInv
  <2>1. Block \ free = {} /\ Holders = {}
    BY DEF Init, PoolInit, Holders
  <2>2. Cardinality(Block \ free) = 0 /\ Cardinality(Holders) = 0
    BY <2>1, FS_EmptySet
  <2> QED BY <2>2, PoolAssumption DEF SlotsInv
<1> QED
  BY <1>1, <1>2, <1>3 DEF ServiceInv

-----------------------------------------------------------------------------
(* The handlers and clients: of all this they touch only the leases and    *)
(* the cancellation flags, which they set.                                 *)
LEMMA HandlerFacts ==
  ASSUME LaneInv, NEW r \in Request,
         Handler(r) \/ Disconnect(r) \/ WatchCancels(r) \/ HungRetires(r)
  PROVE  /\ UNCHANGED <<active, idx, cur, fin, wpc, generated, reply>>
         /\ \A q \in Request : cancelled[q] => cancelled'[q]
         /\ LeaseTake(r) \/ UNCHANGED <<free, lease>>
         /\ UNCHANGED cancelled \/ cancelled' = [cancelled EXCEPT ![r] = TRUE]
<1> USE DEF workerVars, gpuVars, handlerVars, poolVars,
            Handler, HandlerSubmit, HandlerAwait
<1>1. UNCHANGED <<active, idx, cur, fin, wpc, generated, reply>>
  BY DEF CountIn, RejectFull, LeaseDenied, RejectNoBlocks, LeaseTake, LeasePublish, Send,
         TakeReply, StreamChunk, StreamWriteFails, StreamBreak, StreamEnd, StreamResult,
         StreamResultMissing, Disconnect, WatchCancels, HungRetires
<1>2. UNCHANGED cancelled \/ cancelled' = [cancelled EXCEPT ![r] = TRUE]
  BY DEF CountIn, RejectFull, LeaseDenied, RejectNoBlocks, LeaseTake, LeasePublish, Send,
         TakeReply, StreamChunk, StreamWriteFails, StreamBreak, StreamEnd, StreamResult,
         StreamResultMissing, Disconnect, WatchCancels, HungRetires
<1>3. cancelled \in [Request -> BOOLEAN]
  BY DEF LaneInv, Types, FlagTypes
<1>4. \A q \in Request : cancelled[q] => cancelled'[q]
  BY <1>2, <1>3, Zenon
<1>5. LeaseTake(r) \/ UNCHANGED <<free, lease>>
  BY DEF CountIn, RejectFull, LeaseDenied, TryAcquireDenied, RejectNoBlocks, LeasePublish,
         TryAcquirePublish, Send, TakeReply, StreamChunk, StreamWriteFails, StreamBreak,
         StreamEnd, StreamResult, StreamResultMissing, Disconnect, WatchCancels, HungRetires
<1> QED
  BY <1>1, <1>2, <1>4, <1>5, Zenon

LEMMA LeaseTakeSlots ==
  ASSUME LaneInv, SlotsInv, NEW r \in Request, LeaseTake(r)
  PROVE  /\ lease[r] = {} /\ lease'[r] # {}
         /\ \A q \in Request : q # r => lease'[q] = lease[q]
         /\ Cardinality(Holders') = Cardinality(Holders) + 1
         /\ SlotsInv'
         /\ BlocksPerRequest * (Cardinality(Holders) + 1) <= Cardinality(Block)
<1>1. lease[r] = {}
  BY DEF LeaseTake, LaneInv, Structure, Leases, Held, Places, Unsent, Leasing, InService
<1>2. PICK table \in SUBSET free :
        /\ Cardinality(table) = BlocksPerRequest
        /\ lease' = [lease EXCEPT ![r] = table]
        /\ free' = free \ table
  BY DEF LeaseTake, TryAcquireTake
<1>3. table # {}
  BY <1>2, PoolAssumption, FS_EmptySet
<1>4. /\ lease'[r] # {}
      /\ \A q \in Request : q # r => lease'[q] = lease[q]
  BY <1>2, <1>3 DEF LaneInv, PoolInv, PoolTypeOK
<1>5. Holders' = Holders \cup {r} /\ r \notin Holders
  BY <1>1, <1>4 DEF Holders
<1>6. Cardinality(Holders') = Cardinality(Holders) + 1
  BY <1>5, HoldersFinite, FS_AddElement
<1>7. Cardinality(Block \ free') = Cardinality(Block \ free) + BlocksPerRequest
  BY <1>2, TakenCount DEF LaneInv, PoolInv, PoolTypeOK
<1>8. Cardinality(Block \ free')
        = BlocksPerRequest * (Cardinality(Holders) + 1)
  BY <1>7, HoldersFinite, PoolAssumption DEF SlotsInv
<1>9. Cardinality(Block \ free') <= Cardinality(Block)
  BY PoolAssumption, FS_Subset, Block \ free' \in SUBSET Block
<1> QED
  BY <1>1, <1>4, <1>6, <1>8, <1>9 DEF SlotsInv

LEMMA HandlerKeepsService ==
  ASSUME ServiceInv, NEW r \in Request,
         Handler(r) \/ Disconnect(r) \/ WatchCancels(r) \/ HungRetires(r)
  PROVE  StepsInv' /\ OutcomeInv' /\ SlotsInv'
<1> USE DEF ServiceInv
<1>1. /\ UNCHANGED <<active, idx, cur, fin, wpc, generated>>
      /\ \A q \in Request : cancelled[q] => cancelled'[q]
  BY HandlerFacts
<1>2. StepsInv'
  BY <1>1 DEF StepsInv, Elements
<1>3. OutcomeInv'
  BY <1>1, FinishFacts, Zenon DEF OutcomeInv
<1>4. SlotsInv'
  <2>1. CASE LeaseTake(r)
    BY <2>1, LeaseTakeSlots
  <2>2. CASE UNCHANGED <<free, lease>>
    BY <2>2 DEF SlotsInv, Holders
  <2> QED BY <2>1, <2>2, HandlerFacts
<1> QED
  BY <1>2, <1>3, <1>4

-----------------------------------------------------------------------------
(* The worker. *)
LEMMA QuietKeepsService ==
  ASSUME ServiceInv,
         UNCHANGED <<free, lease, active, generated>>,
         wpc # "emit", wpc' # "emit", wpc' \notin Finishing
  PROVE  StepsInv' /\ OutcomeInv' /\ SlotsInv'
<1>1. StepsInv'
  BY DEF ServiceInv, StepsInv, Elements
<1>2. OutcomeInv'
  BY DEF OutcomeInv
<1>3. SlotsInv'
  BY DEF ServiceInv, SlotsInv, Holders
<1> QED
  BY <1>1, <1>2, <1>3

LEMMA WorkerLoopKeepsService ==
  ASSUME ServiceInv, WorkerLoop \/ Restore \/ DecodePassDone
  PROVE  StepsInv' /\ OutcomeInv' /\ SlotsInv'
<1>1. /\ UNCHANGED <<free, lease, active, generated>>
      /\ wpc # "emit" /\ wpc' # "emit" /\ wpc' \notin Finishing
  BY DEF WorkerLoop, WorkerTop, Receive, DrainEmpty, CheckFreeList, CheckGauge, Restore,
         DecodePassDone, DecodeNext, Finishing, poolVars, gpuVars
<1> QED
  BY <1>1, QuietKeepsService

LEMMA WorkerAdmitKeepsService ==
  ASSUME ServiceInv, WorkerAdmit
  PROVE  StepsInv' /\ OutcomeInv' /\ SlotsInv'
<1> USE DEF ServiceInv
<1>1. wpc = "admit" /\ UNCHANGED <<free, lease, generated, cancelled>>
  BY DEF WorkerAdmit, AdmitCancelled, AdmitOpenFails, AdmitBeginFails, Admit, poolVars, gpuVars
<1>2. SlotsInv'
  BY <1>1 DEF SlotsInv, Holders
<1>3. CASE Admit
  <2>1. active' = Append(active, cur) /\ wpc' = "drain"
    BY <1>3 DEF Admit
  <2>2. Elements(active') = Elements(active) \cup {cur}
    BY <1>1, <2>1, AdmitFacts, AppendElements
    DEF LaneInv, Types, PlaceTypes, Structure, Places
  <2>3. generated[cur] = 0 /\ StepsAsked(cur) \in Nat \ {0}
    BY <1>1, AdmitFacts, StepsAskedType
  <2>4. ASSUME NEW q \in Elements(active')
        PROVE  generated'[q] <= StepsAsked(q) /\ generated'[q] < StepsAsked(q)
    <3>1. CASE q = cur
      BY <3>1, <2>3, <1>1
    <3>2. CASE q # cur
      <4>1. q \in Elements(active)
        BY <2>2, <3>2
      <4> QED BY <4>1, <1>1 DEF StepsInv
    <3> QED BY <3>1, <3>2
  <2>5. StepsInv'
    BY <2>4 DEF StepsInv, StepsAsked
  <2>6. OutcomeInv'
    BY <2>1 DEF OutcomeInv, Finishing
  <2> QED BY <1>2, <2>5, <2>6
<1>4. CASE ~Admit
  <2>1. /\ wpc' = "fin_release" /\ UNCHANGED <<active, cur>>
        /\ \/ fin' = [kind |-> "failed", resume |-> "drain"]
           \/ fin' = [kind |-> "cancelled", resume |-> "drain"] /\ cancelled[cur]
    BY <1>4 DEF WorkerAdmit, AdmitCancelled, AdmitOpenFails, AdmitBeginFails, Finish
  <2>2. StepsInv'
    BY <1>1, <2>1 DEF StepsInv, Elements
  <2>3. CASE fin' = [kind |-> "failed", resume |-> "drain"]
    <3>1. fin'.kind = "failed"
      BY <2>3
    <3>2. fin'.kind # "completed" /\ fin'.kind # "cancelled"
      BY <3>1
    <3> QED BY <1>2, <2>2, <3>2, Zenon DEF OutcomeInv
  <2>4. CASE fin' = [kind |-> "cancelled", resume |-> "drain"] /\ cancelled[cur]
    <3>1. fin'.kind # "completed"
      BY <2>4
    <3>2. cancelled'[cur']
      BY <1>1, <2>1, <2>4, Zenon
    <3> QED BY <1>2, <2>2, <3>1, <3>2, Zenon DEF OutcomeInv
  <2> QED BY <2>1, <2>3, <2>4
<1> QED
  BY <1>3, <1>4

LEMMA RunStepKeepsService ==
  ASSUME ServiceInv, RunStep
  PROVE  StepsInv' /\ OutcomeInv' /\ SlotsInv'
<1> USE DEF ServiceInv
<1> DEFINE r == active[idx]
<1>1. /\ wpc = "run" /\ wpc' = "emit"
      /\ generated' = [generated EXCEPT ![r] = @ + 1]
      /\ UNCHANGED <<free, lease, active, idx>>
  BY DEF RunStep, poolVars
<1>2. r \in Request /\ r \in Elements(active)
  BY <1>1, StepFacts DEF LaneInv, Structure, Control
<1>3. generated[r] \in Nat /\ StepsAsked(r) \in Nat
  BY <1>2, StepsAskedType DEF LaneInv, Types, GpuTypes
<1>4. generated[r] < StepsAsked(r)
  BY <1>1, <1>2 DEF StepsInv
<1> HIDE DEF r
<1>5. /\ generated'[r] = generated[r] + 1
      /\ \A q \in Request : q # r => generated'[q] = generated[q]
  BY <1>1, <1>2 DEF LaneInv, Types, GpuTypes
<1>6. ASSUME NEW q \in Elements(active)
      PROVE  /\ generated'[q] <= StepsAsked(q)
             /\ q # r => generated'[q] < StepsAsked(q)
  <2>1. CASE q = r
    BY <2>1, <1>3, <1>4, <1>5
  <2>2. CASE q # r
    <3>1. q \in Request
      BY ElementsType DEF LaneInv, Types
    <3> QED BY <2>2, <3>1, <1>1, <1>5 DEF StepsInv
  <2> QED BY <2>1, <2>2
<1>7. StepsInv'
  <2>1. Elements(active') = Elements(active)
    BY <1>1
  <2> QED BY <2>1, <1>1, <1>6 DEF StepsInv, StepsAsked, r
<1>8. OutcomeInv'
  BY <1>1 DEF OutcomeInv, Finishing
<1>9. SlotsInv'
  BY <1>1 DEF SlotsInv, Holders
<1> QED
  BY <1>7, <1>8, <1>9

(* A request that leaves the decode pass does so with a true outcome. *)
LEMMA LeaveKeepsService ==
  ASSUME ServiceInv, DecodeCancelled \/ StepFails \/ EmitFails \/ Emit,
         NEW kind \in Kinds, Remove(kind),
         kind = "completed" => generated[active[idx]] = StepsAsked(active[idx]),
         kind = "cancelled" => cancelled'[active[idx]]
  PROVE  StepsInv' /\ OutcomeInv' /\ SlotsInv'
<1> USE DEF ServiceInv
<1>1. /\ wpc \in {"decode", "run", "emit"} /\ wpc' = "fin_release"
      /\ cur' = active[idx] /\ active' = Without(active, idx)
      /\ fin' = [kind |-> kind, resume |-> "decode"]
      /\ UNCHANGED <<free, lease, generated>>
  BY DEF Remove, Finish, DecodeCancelled, StepFails, EmitFails, Emit, DecodeNext,
         poolVars, gpuVars
<1>2. idx \in 1..Len(active)
  <2>1. Len(active) \in Nat /\ idx \in Nat
    BY DEF LaneInv, Types, PlaceTypes
  <2> QED
    BY <2>1
    DEF DecodeCancelled, StepFails, EmitFails, Emit, DecodeNext,
        LaneInv, Structure, Control
<1>3. \A q \in Elements(active') : q \in Elements(active) /\ q # active[idx]
  BY <1>1, <1>2, WithoutElements
  DEF LaneInv, Types, PlaceTypes, Structure, Places
<1>4. StepsInv'
  BY <1>1, <1>3 DEF StepsInv, StepsAsked
<1>5. OutcomeInv'
  <2>1. fin'.kind = kind /\ StepsAsked(cur)' = StepsAsked(active[idx])
    BY <1>1 DEF StepsAsked
  <2> QED BY <1>1, <2>1, Zenon DEF OutcomeInv
<1>6. SlotsInv'
  BY <1>1 DEF SlotsInv, Holders
<1> QED
  BY <1>4, <1>5, <1>6

LEMMA DecodeKeepsService ==
  ASSUME ServiceInv, DecodeCancelled \/ StepFails \/ EmitFails \/ Emit
  PROVE  StepsInv' /\ OutcomeInv' /\ SlotsInv'
<1> USE DEF ServiceInv
<1> DEFINE r == active[idx]
<1>1. CASE DecodeCancelled
  <2>1. Remove("cancelled") /\ cancelled'[active[idx]]
    BY <1>1, Zenon DEF DecodeCancelled
  <2> QED BY <1>1, <2>1, LeaveKeepsService DEF Kinds
<1>2. CASE StepFails
  <2>1. Remove("failed")
    BY <1>2 DEF StepFails
  <2> QED BY <1>2, <2>1, LeaveKeepsService DEF Kinds
<1>3. CASE EmitFails
  <2>1. Remove("cancelled") /\ cancelled' = [cancelled EXCEPT ![r] = TRUE]
    BY <1>3 DEF EmitFails
  <2>2. r \in Request
    BY <1>3, StepFacts DEF EmitFails, LaneInv, Structure, Control
  <2>3. cancelled'[active[idx]]
    BY <2>1, <2>2, Zenon DEF LaneInv, Types, FlagTypes
  <2> QED BY <1>3, <2>1, <2>3, LeaveKeepsService DEF Kinds
<1>4. CASE Emit
  <2>1. wpc = "emit" /\ UNCHANGED <<free, lease, generated>>
    BY <1>4 DEF Emit, poolVars
  <2>2. r \in Request /\ r \in Elements(active)
    BY <2>1, StepFacts DEF LaneInv, Structure, Control
  <2>3. /\ generated[r] \in Nat /\ StepsAsked(r) \in Nat
        /\ generated[r] <= StepsAsked(r)
    BY <2>2, StepsAskedType DEF LaneInv, Types, GpuTypes, StepsInv
  <2>4. CASE LastStep(r)
    <3>1. generated[r] = StepsAsked(r) /\ Remove("completed")
      BY <1>4, <2>3, <2>4 DEF LastStep, Emit
    <3> QED BY <1>4, <3>1, LeaveKeepsService DEF Kinds
  <2>5. CASE ~LastStep(r)
    <3>1. UNCHANGED active /\ wpc' = "decode"
      BY <1>4, <2>5 DEF Emit
    <3>2. generated[r] < StepsAsked(r)
      BY <2>3, <2>5 DEF LastStep
    <3>3. \A q \in Elements(active) : generated[q] <= StepsAsked(q) /\ generated[q] < StepsAsked(q)
      BY <2>1, <3>2 DEF StepsInv
    <3>4. Elements(active') = Elements(active)
      BY <3>1
    <3>5. StepsInv'
      BY <2>1, <3>1, <3>3, <3>4 DEF StepsInv, StepsAsked
    <3>6. OutcomeInv' /\ SlotsInv'
      BY <2>1, <3>1 DEF OutcomeInv, Finishing, SlotsInv, Holders
    <3> QED BY <3>5, <3>6
  <2> QED BY <2>4, <2>5
<1> QED
  BY <1>1, <1>2, <1>3, <1>4

LEMMA FinishKeepsService ==
  ASSUME ServiceInv, WorkerFinish
  PROVE  StepsInv' /\ OutcomeInv' /\ SlotsInv'
<1> USE DEF ServiceInv
<1>1. /\ wpc \in Finishing
      /\ UNCHANGED <<active, generated, cancelled>>
      /\ wpc' \in Finishing => UNCHANGED <<cur, fin>>
      /\ FinishRelease \/ UNCHANGED <<free, lease>>
  BY FinishFacts
  DEF WorkerFinish, FinishRelease, FinishCount, FinishReply, FinishDrop, Finishing,
      gpuVars, poolVars
<1>2. wpc # "emit" /\ wpc' # "emit"
  BY <1>1, FinishFacts
  DEF WorkerFinish, FinishRelease, FinishCount, FinishReply, FinishDrop, Finishing
<1>3. StepsInv'
  BY <1>1, <1>2 DEF StepsInv, Elements
<1>4. OutcomeInv'
  BY <1>1, Zenon DEF OutcomeInv, StepsAsked
<1>5. SlotsInv'
  <2>1. CASE FinishRelease
    <3>1. /\ wpc = "fin_release" /\ cur \in Request
          /\ free' = free \cup lease[cur]
          /\ lease' = [lease EXCEPT ![cur] = {}]
      BY <1>1, <2>1, FinishFacts DEF FinishRelease, ReleaseBlocks
    <3>2. lease[cur] # {} /\ lease[cur] \in SUBSET (Block \ free)
      BY <3>1 DEF LaneInv, Structure, Leases, Held, PoolInv, PoolTypeOK, LeaseExclusive
    <3>3. Cardinality(lease[cur]) = BlocksPerRequest
      BY <3>1, <3>2 DEF LaneInv, PoolInv, LeaseComplete
    <3>4. Holders' = Holders \ {cur} /\ cur \in Holders
      BY <3>1, <3>2 DEF Holders, LaneInv, PoolInv, PoolTypeOK
    <3>5. Cardinality(Holders') = Cardinality(Holders) - 1
      BY <3>4, HoldersFinite, FS_RemoveElement
    <3>6. Cardinality(Block \ free') = Cardinality(Block \ free) - BlocksPerRequest
      BY <3>1, <3>2, <3>3, ReturnedCount DEF LaneInv, PoolInv, PoolTypeOK
    <3> QED
      BY <3>5, <3>6, HoldersFinite, PoolAssumption DEF SlotsInv
  <2>2. CASE UNCHANGED <<free, lease>>
    BY <2>2 DEF SlotsInv, Holders
  <2> QED BY <1>1, <2>1, <2>2
<1> QED
  BY <1>3, <1>4, <1>5

LEMMA StepKeepsService == ServiceInv /\ [Next]_vars => ServiceInv'
<1> SUFFICES ASSUME ServiceInv, [Next]_vars PROVE ServiceInv'
  OBVIOUS
<1>1. LaneInv'
  BY LaneStepKeepsInv DEF ServiceInv
<1>2. StepsInv' /\ OutcomeInv' /\ SlotsInv'
  <2>1. ASSUME NEW r \in Request,
               Handler(r) \/ Disconnect(r) \/ WatchCancels(r) \/ HungRetires(r)
        PROVE  StepsInv' /\ OutcomeInv' /\ SlotsInv'
    BY <2>1, HandlerKeepsService
  <2>2. CASE Worker
    BY <2>2, WorkerLoopKeepsService, WorkerAdmitKeepsService, RunStepKeepsService,
       DecodeKeepsService, FinishKeepsService
    DEF Worker, WorkerDecode
  <2>3. CASE UNCHANGED vars
    <3>1. StepsInv' /\ SlotsInv'
      BY <2>3 DEF ServiceInv, vars, laneVars, poolVars, StepsInv, SlotsInv, Holders, Elements
    <3>2. OutcomeInv'
      BY <2>3, Zenon DEF ServiceInv, vars, laneVars, OutcomeInv, StepsAsked
    <3> QED BY <3>1, <3>2
  <2> QED BY <2>1, <2>2, <2>3 DEF Next
<1> QED
  BY <1>1, <1>2 DEF ServiceInv

-----------------------------------------------------------------------------
(* The simulation.  What a caller sees changes with the reply, a lease, a  *)
(* rejection and the worker's place in the finish, and with nothing else.  *)
SettledAs(r) == r = cur /\ wpc \in {"fin_count", "fin_reply"}
View == <<[r \in Request |-> Phase(r)], generated, cancelled, reply>>

PhaseRules ==
  \A r \in Request :
    /\ reply[r] # None => Phase(r) = "answered"
    /\ reply[r] = None /\ hpc[r] \in Rejections => Phase(r) = "rejected"
    /\ lease[r] # {} => Phase(r) = "serving"
    /\ lease[r] = {} /\ reply[r] = None /\ SettledAs(r) => Phase(r) = "settled"
    /\ lease[r] = {} /\ reply[r] = None /\ ~SettledAs(r) /\ hpc[r] \notin Rejections
         => Phase(r) = "idle"

LEMMA PhaseIs == LaneInv => PhaseRules
<1> SUFFICES ASSUME LaneInv, NEW r \in Request
             PROVE  PhaseRules!(r)
  BY DEF PhaseRules
<1>1. hpc[r] \in Rejections => hpc[r] \in Unsent /\ hpc[r] \notin Leasing
  BY DEF Unsent, Leasing, Rejections
<1>2. hpc[r] \in Rejections => ~InService(r) /\ r # cur
  BY <1>1 DEF LaneInv, Structure, Places, InService
<1>3. hpc[r] \in Rejections => lease[r] = {} /\ reply[r] = None /\ ~SettledAs(r)
  BY <1>1, <1>2
  DEF LaneInv, Structure, Leases, Held, Replies, Settled, InService, SettledAs
<1>4. reply[r] # None => lease[r] = {} /\ ~SettledAs(r)
  BY <1>1
  DEF LaneInv, Structure, Leases, Held, Replies, Settled, InService, SettledAs, Unsent,
      Leasing, Places
<1>5. lease[r] # {} => ~SettledAs(r)
  BY DEF LaneInv, Structure, Leases, Held, SettledAs, Places, Leasing, Unsent, InService
<1> QED
  BY <1>3, <1>4, <1>5 DEF Phase, SettledAs

LEMMA PhaseIsNext == LaneInv' => PhaseRules'
BY PhaseIs, PTL

LEMMA SamePhase ==
  ASSUME NEW r \in Request,
         UNCHANGED reply,
         hpc'[r] \in Rejections <=> hpc[r] \in Rejections,
         lease'[r] = {} <=> lease[r] = {},
         SettledAs(r)' <=> SettledAs(r)
  PROVE  Phase(r)' = Phase(r)
BY DEF Phase, SettledAs

(* A lease more fits into the slots when its blocks fit into the pool. *)
LEMMA SlotArithmetic ==
  ASSUME NEW k \in Nat, NEW n \in Nat, NEW p \in Nat \ {0}, p * (k + 1) <= n
  PROVE  k < n \div p
<1>1. n \div p \in Nat /\ n < p * (n \div p) + p
  OBVIOUS
<1>2. ASSUME n \div p <= k PROVE FALSE
  <2>1. p * (n \div p) <= p * k
    BY <1>1, <1>2
  <2>2. p * (k + 1) = p * k + p
    OBVIOUS
  <2> QED BY <1>1, <2>1, <2>2
<1> QED
  BY <1>1, <1>2

AbstractStep == Service!Next \/ UNCHANGED View

LEMMA ViewStutters ==
  ASSUME \A q \in Request : Phase(q)' = Phase(q),
         UNCHANGED <<generated, cancelled, reply>>
  PROVE  AbstractStep
<1>1. [q \in Request |-> Phase(q)]' = [q \in Request |-> Phase(q)]
  BY Zenon
<1> QED
  BY <1>1, Zenon DEF AbstractStep, View

LEMMA ViewCancels ==
  ASSUME NEW r \in Request,
         \A q \in Request : Phase(q)' = Phase(q),
         UNCHANGED <<generated, reply>>,
         cancelled' = [cancelled EXCEPT ![r] = TRUE]
  PROVE  AbstractStep
<1>1. [q \in Request |-> Phase(q)]' = [q \in Request |-> Phase(q)]
  BY Zenon
<1>2. Service!Cancel(r)
  BY <1>1, Zenon DEF Service!Cancel
<1> QED
  BY <1>2 DEF AbstractStep, Service!Next

LEMMA PhaseMoves ==
  ASSUME NEW r \in Request, NEW from, NEW to,
         Phase(r) = from, Phase(r)' = to,
         \A q \in Request : q # r => Phase(q)' = Phase(q)
  PROVE  Service!Move(r, from, to)
<1> DEFINE ph == [q \in Request |-> Phase(q)]
<1>1. ph[r] = from
  OBVIOUS
<1>2. ph' = [ph EXCEPT ![r] = to]
  <2>1. ph' = [q \in Request |-> Phase(q)']
    OBVIOUS
  <2>2. ASSUME NEW q \in Request PROVE ph'[q] = [ph EXCEPT ![r] = to][q]
    BY <2>1
  <2> QED BY <2>1, <2>2
<1> QED
  BY <1>1, <1>2 DEF Service!Move

LEMMA ServiceCardinality == \A S : Service!Cardinality(S) = Cardinality(S)
BY DEF Service!Cardinality, Cardinality

(* A handler's lease is the service's Accept: its slot is free because its *)
(* blocks are.                                                             *)
LEMMA LeaseTakeAccepts ==
  ASSUME ServiceInv, NEW r \in Request, LeaseTake(r)
  PROVE  AbstractStep
<1> USE DEF ServiceInv
<1>1. /\ hpc[r] = "counted" /\ hpc' = [hpc EXCEPT ![r] = "acquiring"]
      /\ UNCHANGED <<cur, wpc, reply, generated, cancelled>>
  BY DEF LeaseTake, Goto, workerVars, gpuVars
<1>2. /\ hpc'[r] = "acquiring"
      /\ \A q \in Request : q # r => hpc'[q] = hpc[q]
  BY <1>1 DEF LaneInv, Types, PlaceTypes
<1>3. /\ lease[r] = {} /\ lease'[r] # {}
      /\ \A q \in Request : q # r => lease'[q] = lease[q]
      /\ BlocksPerRequest * (Cardinality(Holders) + 1) <= Cardinality(Block)
  BY LeaseTakeSlots
<1>4. Phase(r) = "idle"
  <2>1. hpc[r] \in Unsent /\ hpc[r] \notin Rejections
    BY <1>1 DEF Unsent, Rejections
  <2>2. reply[r] = None /\ ~InService(r)
    BY <2>1 DEF LaneInv, Structure, Replies, Settled, Places
  <2> QED
    BY <1>3, <2>1, <2>2, PhaseIs DEF PhaseRules, SettledAs, InService
<1>5. Phase(r)' = "serving"
  <2>1. LaneInv'
    BY LeaseTakeKeepsInv
  <2> QED BY <1>3, <2>1, PhaseIsNext DEF PhaseRules
<1>6. \A q \in Request : q # r => Phase(q)' = Phase(q)
  BY <1>1, <1>2, <1>3, SamePhase DEF SettledAs
<1>7. Service!Serving = Holders
  <2>1. \A q \in Request : Phase(q) = "serving" <=> lease[q] # {}
    BY PhaseIs DEF PhaseRules
  <2> QED BY <2>1 DEF Service!Serving, Holders
<1>8. Cardinality(Service!Serving) < Cardinality(Block) \div BlocksPerRequest
  BY <1>3, <1>7, HoldersFinite, PoolAssumption, FS_CardinalityType, SlotArithmetic
<1>9. Service!Move(r, "idle", "serving")
  BY <1>4, <1>5, <1>6, PhaseMoves
<1>10. Service!Accept(r)
  BY <1>1, <1>8, <1>9, ServiceCardinality DEF Service!Accept
<1> QED
  BY <1>10 DEF AbstractStep, Service!Next

LEMMA RejectRejects ==
  ASSUME LaneInv, NEW r \in Request, RejectFull(r) \/ RejectNoBlocks(r)
  PROVE  AbstractStep
<1>1. /\ hpc[r] \in {"over", "denied"}
      /\ \E h \in Rejections : hpc' = [hpc EXCEPT ![r] = h]
      /\ UNCHANGED <<cur, wpc, reply, generated, cancelled, lease>>
  BY DEF RejectFull, RejectNoBlocks, Goto, Rejections, workerVars, gpuVars, poolVars
<1>2. /\ hpc'[r] \in Rejections
      /\ \A q \in Request : q # r => hpc'[q] = hpc[q]
  BY <1>1 DEF LaneInv, Types, PlaceTypes
<1>3. Phase(r) = "idle" /\ reply[r] = None
  <2>1. hpc[r] \in Unsent /\ hpc[r] \notin Rejections /\ hpc[r] \notin Leasing
    BY <1>1 DEF Unsent, Rejections, Leasing
  <2>2. reply[r] = None /\ ~InService(r)
    BY <2>1 DEF LaneInv, Structure, Replies, Settled, Places
  <2>3. lease[r] = {}
    BY <2>1, <2>2 DEF LaneInv, Structure, Leases, Held, InService
  <2> QED
    BY <2>1, <2>2, <2>3, PhaseIs DEF PhaseRules, SettledAs, InService
<1>4. Phase(r)' = "rejected"
  <2>1. LaneInv'
    BY SubmitKeepsInv
  <2> QED BY <1>1, <1>2, <1>3, <2>1, PhaseIsNext DEF PhaseRules
<1>5. \A q \in Request : q # r => Phase(q)' = Phase(q)
  BY <1>1, <1>2, SamePhase DEF SettledAs
<1>6. Service!Reject(r)
  BY <1>1, <1>3, <1>4, <1>5, PhaseMoves DEF Service!Reject
<1> QED
  BY <1>6 DEF AbstractStep, Service!Next

LEMMA HandlerSimulates ==
  ASSUME ServiceInv, NEW r \in Request,
         Handler(r) \/ Disconnect(r) \/ WatchCancels(r) \/ HungRetires(r)
  PROVE  AbstractStep
<1> USE DEF ServiceInv
<1>1. CASE LeaseTake(r)
  BY <1>1, LeaseTakeAccepts
<1>2. CASE RejectFull(r) \/ RejectNoBlocks(r)
  BY <1>2, RejectRejects
<1>3. CASE ~LeaseTake(r) /\ ~RejectFull(r) /\ ~RejectNoBlocks(r)
  <2>1. /\ UNCHANGED <<cur, wpc, reply, generated, lease>>
        /\ UNCHANGED cancelled \/ cancelled' = [cancelled EXCEPT ![r] = TRUE]
    BY <1>3, HandlerFacts
  <2>2. UNCHANGED hpc \/ (/\ hpc[r] \notin Rejections
                          /\ \E h : h \notin Rejections /\ hpc' = [hpc EXCEPT ![r] = h])
    BY <1>3
    DEF Handler, HandlerSubmit, HandlerAwait, CountIn, LeaseDenied, LeasePublish, Send,
        TakeReply, StreamChunk, StreamWriteFails, StreamBreak, StreamEnd, StreamResult,
        StreamResultMissing, Disconnect, WatchCancels, HungRetires, Goto, handlerVars,
        Rejections
  <2>3. \A q \in Request : hpc'[q] \in Rejections <=> hpc[q] \in Rejections
    BY <2>2 DEF LaneInv, Types, PlaceTypes
  <2>4. \A q \in Request : Phase(q)' = Phase(q)
    BY <2>1, <2>3, SamePhase DEF SettledAs
  <2> QED
    BY <2>1, <2>4, ViewStutters, ViewCancels
<1> QED
  BY <1>1, <1>2, <1>3

-----------------------------------------------------------------------------
(* The worker: most of what it does, the callers cannot see. *)
LEMMA WorkerQuiet ==
  ASSUME LaneInv,
         \/ WorkerLoop \/ WorkerAdmit \/ Restore \/ DecodePassDone
         \/ DecodeCancelled \/ StepFails \/ EmitFails \/ Emit
  PROVE  /\ \A q \in Request : Phase(q)' = Phase(q)
         /\ UNCHANGED <<generated, reply>>
         /\ \/ UNCHANGED cancelled
            \/ EmitFails /\ cancelled' = [cancelled EXCEPT ![active[idx]] = TRUE]
<1>1. UNCHANGED <<hpc, lease, generated, reply>>
  BY DEF WorkerLoop, WorkerTop, Receive, DrainEmpty, CheckFreeList, CheckGauge,
         WorkerAdmit, AdmitCancelled, AdmitOpenFails, AdmitBeginFails, Admit, Restore,
         DecodePassDone, DecodeCancelled, StepFails, EmitFails, Emit,
         handlerVars, poolVars, gpuVars
<1>2. wpc \notin {"fin_count", "fin_reply"} /\ wpc' \notin {"fin_count", "fin_reply"}
  BY DEF WorkerLoop, WorkerTop, Receive, DrainEmpty, CheckFreeList, CheckGauge,
         WorkerAdmit, AdmitCancelled, AdmitOpenFails, AdmitBeginFails, Admit, Finish,
         Restore, DecodePassDone, DecodeCancelled, StepFails, EmitFails, Emit, Remove,
         DecodeNext
<1>3. \/ UNCHANGED cancelled
      \/ EmitFails /\ cancelled' = [cancelled EXCEPT ![active[idx]] = TRUE]
  BY DEF WorkerLoop, WorkerTop, Receive, DrainEmpty, CheckFreeList, CheckGauge,
         WorkerAdmit, AdmitCancelled, AdmitOpenFails, AdmitBeginFails, Admit, Restore,
         DecodePassDone, DecodeCancelled, StepFails, EmitFails, Emit
<1>4. \A q \in Request : Phase(q)' = Phase(q)
  BY <1>1, <1>2, SamePhase DEF SettledAs
<1> QED
  BY <1>1, <1>3, <1>4, Zenon

(* A successful step of the shared runner is a decode step of its request. *)
LEMMA RunStepDecodes ==
  ASSUME ServiceInv, RunStep
  PROVE  AbstractStep
<1> USE DEF ServiceInv
<1> DEFINE r == active[idx]
<1>1. /\ wpc = "run" /\ wpc' = "emit"
      /\ generated' = [generated EXCEPT ![r] = @ + 1]
      /\ UNCHANGED <<hpc, lease, cur, cancelled, reply>>
  BY DEF RunStep, handlerVars, poolVars
<1>2. r \in Request /\ r \in Elements(active)
  BY <1>1, StepFacts DEF LaneInv, Structure, Control
<1>3. Phase(r) = "serving"
  BY <1>2, PhaseIs DEF PhaseRules, LaneInv, Structure, Leases, Held
<1>4. generated[r] < StepsAsked(r)
  BY <1>1, <1>2 DEF StepsInv
<1>5. \A q \in Request : Phase(q)' = Phase(q)
  BY <1>1, SamePhase DEF SettledAs
<1> HIDE DEF r
<1>6. [q \in Request |-> Phase(q)]' = [q \in Request |-> Phase(q)]
  BY <1>5, Zenon
<1>7. Service!DecodeStep(r)
  BY <1>1, <1>2, <1>3, <1>4, <1>6 DEF Service!DecodeStep
<1> QED
  BY <1>2, <1>7 DEF AbstractStep, Service!Next

(* Giving the lease back settles the request. *)
LEMMA FinishReleaseSettles ==
  ASSUME LaneInv, FinishRelease
  PROVE  AbstractStep
<1>1. /\ wpc = "fin_release" /\ wpc' = "fin_count"
      /\ lease' = [lease EXCEPT ![cur] = {}]
      /\ UNCHANGED <<hpc, cur, generated, cancelled, reply>>
  BY DEF FinishRelease, ReleaseBlocks, handlerVars, gpuVars
<1>2. cur \in Request /\ wpc \in Finishing
  BY <1>1, FinishFacts DEF Finishing
<1>3. /\ lease'[cur] = {}
      /\ \A q \in Request : q # cur => lease'[q] = lease[q]
  BY <1>1, <1>2 DEF LaneInv, PoolInv, PoolTypeOK
<1>4. reply[cur] = None
  BY <1>1, <1>2 DEF LaneInv, Structure, Replies, Settled, InService
<1>5. Phase(cur) = "serving"
  BY <1>1, <1>2, PhaseIs DEF PhaseRules, LaneInv, Structure, Leases, Held
<1>6. Phase(cur)' = "settled"
  <2>1. LaneInv'
    BY FinishReleaseKeepsInv
  <2>2. SettledAs(cur)' /\ cur' = cur
    BY <1>1 DEF SettledAs
  <2> QED BY <1>1, <1>2, <1>3, <1>4, <2>1, <2>2, PhaseIsNext DEF PhaseRules
<1>7. \A q \in Request : q # cur => Phase(q)' = Phase(q)
  BY <1>1, <1>3, SamePhase DEF SettledAs
<1>8. Service!Settle(cur)
  BY <1>1, <1>2, <1>5, <1>6, <1>7, PhaseMoves DEF Service!Settle
<1> QED
  BY <1>2, <1>8 DEF AbstractStep, Service!Next

(* The reply delivers a result that is true. *)
LEMMA FinishReplyDelivers ==
  ASSUME ServiceInv, FinishReply
  PROVE  AbstractStep
<1> USE DEF ServiceInv
<1>1. /\ wpc = "fin_reply" /\ wpc' = "fin_drop"
      /\ reply' = [reply EXCEPT ![cur] = fin.kind]
      /\ UNCHANGED <<hpc, cur, lease, generated, cancelled>>
  BY DEF FinishReply, handlerVars, poolVars, gpuVars
<1>2. cur \in Request /\ wpc \in Finishing /\ fin.kind \in Kinds
  BY <1>1, FinishFacts DEF Finishing, LaneInv, Structure, Control, Types, PlaceTypes
<1>3. /\ reply'[cur] = fin.kind /\ fin.kind # None
      /\ \A q \in Request : q # cur => reply'[q] = reply[q]
  BY <1>1, <1>2 DEF LaneInv, Types, PlaceTypes, Kinds, None
<1>4. reply[cur] = None
  BY <1>1, <1>2 DEF LaneInv, Structure, Replies, Settled, InService
<1>5. Phase(cur) = "settled"
  <2>1. lease[cur] = {}
    BY <1>1, <1>2, FinishFacts
    DEF LaneInv, Structure, Leases, Held, Leasing, Unsent, Places, InService
  <2>2. SettledAs(cur)
    BY <1>1 DEF SettledAs
  <2> QED BY <1>2, <1>4, <2>1, <2>2, PhaseIs DEF PhaseRules
<1>6. Phase(cur)' = "answered"
  <2>1. LaneInv'
    BY FinishReplyKeepsInv
  <2> QED BY <1>1, <1>2, <1>3, <2>1, PhaseIsNext DEF PhaseRules
<1>7. ASSUME NEW q \in Request, q # cur PROVE Phase(q)' = Phase(q)
  BY <1>1, <1>3, <1>7 DEF Phase
<1>8. Service!Move(cur, "settled", "answered")
  BY <1>1, <1>2, <1>5, <1>6, <1>7, PhaseMoves
<1>9. /\ fin.kind = "completed" => generated[cur] = StepsAsked(cur)
      /\ fin.kind = "cancelled" => cancelled[cur]
  BY <1>2, Zenon DEF OutcomeInv
<1>10. [r \in Request |-> StepsAsked(r)][cur] = StepsAsked(cur)
  BY <1>2
<1>11. fin.kind \in {"completed", "cancelled", "failed"}
  BY <1>2 DEF Kinds
<1>12. Service!Deliver(cur)
  BY <1>1, <1>8, <1>9, <1>10, <1>11, Zenon DEF Service!Deliver
<1> QED
  BY <1>2, <1>12 DEF AbstractStep, Service!Next

LEMMA FinishSimulates ==
  ASSUME ServiceInv, WorkerFinish
  PROVE  AbstractStep
<1> USE DEF ServiceInv
<1>1. CASE FinishRelease
  BY <1>1, FinishReleaseSettles
<1>2. CASE FinishReply
  BY <1>2, FinishReplyDelivers
<1>3. CASE FinishCount \/ FinishDrop
  <2>1. UNCHANGED <<hpc, lease, generated, cancelled, reply>>
    BY <1>3 DEF FinishCount, FinishDrop, handlerVars, poolVars, gpuVars
  <2>2. \A q \in Request : SettledAs(q)' <=> SettledAs(q)
    BY <1>3, NobodyIsNoRequest DEF FinishCount, FinishDrop, SettledAs
  <2> QED
    BY <2>1, <2>2, SamePhase, ViewStutters
<1> QED
  BY <1>1, <1>2, <1>3 DEF WorkerFinish

LEMMA WorkerSimulates ==
  ASSUME ServiceInv, Worker
  PROVE  AbstractStep
<1> USE DEF ServiceInv
<1>1. CASE RunStep
  BY <1>1, RunStepDecodes
<1>2. CASE WorkerFinish
  BY <1>2, FinishSimulates
<1>3. CASE \/ WorkerLoop \/ WorkerAdmit \/ Restore \/ DecodePassDone
           \/ DecodeCancelled \/ StepFails \/ EmitFails \/ Emit
  <2>1. CASE UNCHANGED cancelled
    BY <1>3, <2>1, WorkerQuiet, ViewStutters
  <2>2. CASE EmitFails /\ cancelled' = [cancelled EXCEPT ![active[idx]] = TRUE]
    <3>1. active[idx] \in Request
      BY <2>2, StepFacts DEF EmitFails, LaneInv, Structure, Control
    <3> QED BY <1>3, <2>2, <3>1, WorkerQuiet, ViewCancels
  <2> QED BY <1>3, <2>1, <2>2, WorkerQuiet
<1> QED
  BY <1>1, <1>2, <1>3 DEF Worker, WorkerDecode

LEMMA InitIsServiceInit == Init => Service!Init
<1> SUFFICES ASSUME Init PROVE Service!Init
  OBVIOUS
<1>1. ASSUME NEW r \in Request PROVE Phase(r) = "idle"
  BY NobodyIsNoRequest DEF Init, PoolInit, Phase, None, Rejections
<1> QED
  BY <1>1 DEF Init, None, Service!Init

(* The theorem the abstract specification is for: the handlers, the queue, *)
(* the worker and the shared runner together do nothing their callers were *)
(* not promised.  At most Slots requests are in service, a request is      *)
(* rejected or answered once, after its slot is free again, "completed"    *)
(* only after all its steps and "cancelled" only after a cancellation.     *)
THEOREM LaneImplementsService == Spec => ImplementsService
<1>1. Init => ServiceInv
  BY ServiceInitInv
<1>2. ServiceInv /\ [Next]_vars => ServiceInv'
  BY StepKeepsService
<1>3. ServiceInv /\ [Next]_vars => [Service!Next]_Service!serviceVars
  <2> SUFFICES ASSUME ServiceInv, [Next]_vars PROVE AbstractStep
    BY Zenon DEF AbstractStep, View, Service!serviceVars
  <2>1. ASSUME NEW r \in Request,
               Handler(r) \/ Disconnect(r) \/ WatchCancels(r) \/ HungRetires(r)
        PROVE  AbstractStep
    BY <2>1, HandlerSimulates
  <2>2. CASE Worker
    BY <2>2, WorkerSimulates
  <2>3. CASE UNCHANGED vars
    <3>1. \A q \in Request : Phase(q)' = Phase(q)
      BY <2>3, SamePhase DEF vars, laneVars, poolVars, SettledAs
    <3> QED BY <2>3, <3>1, ViewStutters DEF vars, laneVars
  <2> QED BY <2>1, <2>2, <2>3 DEF Next
<1> QED
  BY <1>1, <1>2, <1>3, InitIsServiceInit, PTL DEF Spec, ImplementsService, Service!Spec

=============================================================================
