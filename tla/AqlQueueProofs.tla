--------------------------- MODULE AqlQueueProofs ---------------------------
(***************************************************************************)
(* Proofs about the compute queue, for any ring, chain length and number   *)
(* of publications, and every order in which the store buffer may drain.   *)
(*                                                                         *)
(* The packets of a publication are right in memory once the buffer has    *)
(* drained (Settles), whatever an abandoned publication left in it before; *)
(* the header of the chain's first packet is the last store to arrive      *)
(* (FirstHeaderLast); until then nothing in the buffer touches a slot the  *)
(* processor may still read (Indexes, PacketStoresOnly).                   *)
(***************************************************************************)
EXTENDS AqlQueue, SequenceTheorems, TLAPS

Places == 1..Len(buffer)
Writes(e, to, slot) == e.to = to /\ Slot(e.id) = slot
LastWrite(i, to, slot) ==
  /\ Writes(buffer[i], to, slot)
  /\ \A j \in Places : j > i => ~Writes(buffer[j], to, slot)
Untouched(to, slot) == \A i \in Places : ~Writes(buffer[i], to, slot)

Chain == pub.base..(pub.base + pub.n - 1)

(* The slot of p has, or its last buffered store gives it, what the latest *)
(* publication wrote.                                                      *)
BodySettles(p) ==
  /\ \A i \in Places : LastWrite(i, "body", Slot(p)) =>
       buffer[i].id = p /\ buffer[i].serial = pub.serial
  /\ Untouched("body", Slot(p)) =>
       ring[Slot(p)].id = p /\ ring[Slot(p)].serial = pub.serial
HeaderSettles(p) ==
  /\ \A i \in Places : LastWrite(i, "header", Slot(p)) =>
       buffer[i].serial = pub.serial
  /\ Untouched("header", Slot(p)) => ring[Slot(p)].header = pub.serial
Settles == \A p \in Chain : BodySettles(p) /\ HeaderSettles(p)

(* The slots of the latest publication are behind what the processor may   *)
(* still fetch, and outside the phase that announces them the indexes agree*)
Indexes ==
  /\ readPtr <= readIndex /\ readIndex <= doorbell /\ doorbell <= mailbox
  /\ hostPc # "index" => mailbox = writeIndex /\ doorbell = writeIndex
  /\ hostPc # "idle" => pub.n > 0 /\ pub.base = writeIndex
  /\ pub.n > 0 => pub.serial > 0 /\ pub.base + pub.n <= readPtr + RingSlots

(* The stores of packets: within the free part of the ring; headers that   *)
(* make a packet valid are releases.                                       *)
PacketStoresOnly ==
  hostPc # "index" =>
    \A i \in Places :
      /\ buffer[i].to \in {"body", "header"}
      /\ writeIndex <= buffer[i].id /\ buffer[i].id < readPtr + RingSlots
      /\ buffer[i].serial <= pub.serial
      /\ buffer[i].to = "body" => buffer[i].serial > 0
      /\ buffer[i].to = "header" => (buffer[i].release <=> buffer[i].serial > 0)

(* Mailbox and doorbell, in this order.                                    *)
IndexStoresOnly ==
  hostPc = "index" =>
    \/ /\ buffer = <<MailboxStore(pub.base + pub.n), DoorbellStore(pub.base + pub.n - 1)>>
       /\ mailbox = writeIndex /\ doorbell = writeIndex
    \/ /\ buffer = <<DoorbellStore(pub.base + pub.n - 1)>>
       /\ mailbox = pub.base + pub.n /\ doorbell = writeIndex
    \/ /\ buffer = <<>>
       /\ mailbox = pub.base + pub.n /\ doorbell = pub.base + pub.n

FirstHeaderLast ==
  hostPc # "index" /\ Len(buffer) > 0 =>
    /\ pub.n > 0
    /\ buffer[Len(buffer)] = HeaderStore(pub.base, pub.serial)
    /\ ring[Slot(pub.base)].header # pub.serial
    /\ \A i \in Places : i < Len(buffer)
         /\ Writes(buffer[i], "header", Slot(pub.base)) => buffer[i].serial # pub.serial

NoLaterHeader == \A s \in DOMAIN ring : ring[s].header <= pub.serial

Histories ==
  /\ Len(accepted) = mailbox /\ Len(executed) = readIndex
  /\ \A i \in 1..readIndex : executed[i] = accepted[i]

QueueInv ==
  /\ TypeOK /\ Indexes /\ PacketStoresOnly /\ IndexStoresOnly
  /\ Settles /\ FirstHeaderLast /\ NoLaterHeader /\ Histories
  /\ AnnouncedComplete

-----------------------------------------------------------------------------
(* Slots.                                                                  *)
LEMMA SlotInRing ==
  ASSUME NEW p \in Nat
  PROVE  Slot(p) \in 0..(RingSlots - 1)
  BY AqlAssumption DEF Slot

LEMMA Remainder ==
  ASSUME NEW p \in Int, NEW k \in Int, NEW rest \in 0..(RingSlots - 1),
         p = RingSlots * k + rest
  PROVE  p % RingSlots = rest
<1>1. RingSlots \in Int /\ RingSlots > 0
  BY AqlAssumption
<1> QED
  BY <1>1, SMT

LEMMA Quotient ==
  ASSUME NEW p \in Nat
  PROVE  /\ p \div RingSlots \in Int
         /\ RingSlots * (p \div RingSlots) <= p
         /\ p < RingSlots * (p \div RingSlots) + RingSlots
<1>1. RingSlots \in Nat /\ RingSlots > 0
  BY AqlAssumption
<1> QED
  BY <1>1, SMT

LEMMA SlotSplit ==
  ASSUME NEW p \in Nat
  PROVE  \E k \in Int : p = RingSlots * k + Slot(p)
<1> DEFINE k == p \div RingSlots
<1>1. RingSlots \in Nat
  BY AqlAssumption
<1>2. k \in Int /\ RingSlots * k <= p /\ p < RingSlots * k + RingSlots
  BY Quotient
<1> HIDE DEF k
<1>3. RingSlots * k \in Int
  BY <1>1, <1>2
<1>4. p - RingSlots * k \in 0..(RingSlots - 1) /\ p = RingSlots * k + (p - RingSlots * k)
  BY <1>1, <1>2, <1>3
<1>5. p % RingSlots = p - RingSlots * k
  BY <1>2, <1>4, Remainder
<1> QED
  BY <1>2, <1>4, <1>5 DEF Slot

(* Packet ids less than a lap apart have slots of their own.               *)
LEMMA SlotsDiffer ==
  ASSUME NEW p \in Nat, NEW q \in Nat, p < q, q < p + RingSlots
  PROVE  Slot(p) # Slot(q)
<1>1. RingSlots \in Nat /\ RingSlots > 0 /\ Slot(p) \in Int
  BY AqlAssumption, SlotInRing
<1>2. PICK a \in Int : p = RingSlots * a + Slot(p)
  BY SlotSplit
<1>3. PICK b \in Int : q = RingSlots * b + Slot(q)
  BY SlotSplit
<1> SUFFICES ASSUME Slot(p) = Slot(q) PROVE FALSE
  OBVIOUS
<1>4. q - p = RingSlots * (b - a)
  BY <1>1, <1>2, <1>3
<1>5. b - a > 0
  <2> SUFFICES ASSUME b - a <= 0 PROVE FALSE
    OBVIOUS
  <2>1. RingSlots * (b - a) <= 0
    BY <1>1
  <2> QED
    BY <1>4, <2>1
<1>6. RingSlots * (b - a) >= RingSlots
  BY <1>1, <1>5
<1> QED
  BY <1>1, <1>4, <1>6

-----------------------------------------------------------------------------
(* The buffer: what is appended to it and what leaves it.                  *)
LEMMA BufferType ==
  ASSUME TypeOK
  PROVE  /\ Len(buffer) \in Nat
         /\ \A i \in Places : buffer[i] \in Store
  BY DEF TypeOK, Places

LEMMA StoreFields ==
  ASSUME TypeOK, NEW i \in Places
  PROVE  buffer[i].id \in Nat /\ buffer[i].serial \in Nat /\ buffer[i].release \in BOOLEAN
<1>1. buffer[i] \in Store /\ MaxPublications \in Nat
  BY BufferType, AqlAssumption
<1> QED
  BY <1>1 DEF Store

LEMMA RingType ==
  ASSUME TypeOK
  PROVE  /\ DOMAIN ring = 0..(RingSlots - 1)
         /\ \A s \in 0..(RingSlots - 1) :
              /\ ring[s] \in Packet /\ ring[s].id \in Nat
              /\ ring[s].serial \in Nat /\ ring[s].header \in Nat
<1>1. ring \in [0..(RingSlots - 1) -> Packet] /\ MaxPublications \in Nat
  BY AqlAssumption DEF TypeOK
<1>2. \A packet \in Packet :
        packet.id \in Nat /\ packet.serial \in Nat /\ packet.header \in Nat
  BY <1>1 DEF Packet
<1> QED
  BY <1>1, <1>2

LEMMA Removal ==
  ASSUME TypeOK, NEW i \in Places, buffer' = RemoveAt(buffer, i)
  PROVE  /\ buffer' \in Seq(Store)
         /\ Len(buffer') = Len(buffer) - 1
         /\ \A j \in 1..Len(buffer') : buffer'[j] = buffer[IF j < i THEN j ELSE j + 1]
<1>1. buffer \in Seq(Store) /\ Len(buffer) \in Nat /\ i \in 1..Len(buffer)
  BY DEF TypeOK, Places
<1> DEFINE front == SubSeq(buffer, 1, i - 1)
           rest == SubSeq(buffer, i + 1, Len(buffer))
<1>2. /\ front \in Seq(Store) /\ Len(front) = i - 1
      /\ \A j \in 1..(i - 1) : front[j] = buffer[j]
  <2>1. \A j \in 1..(i - 1) : buffer[j] \in Store
    BY <1>1
  <2> QED
    BY <1>1, <2>1, SubSeqProperties
<1>3. /\ rest \in Seq(Store) /\ Len(rest) = Len(buffer) - i
      /\ \A j \in 1..(Len(buffer) - i) : rest[j] = buffer[i + j]
  <2>1. \A j \in (i + 1)..Len(buffer) : buffer[j] \in Store
    BY <1>1
  <2> QED
    BY <1>1, <2>1, SubSeqProperties
<1>4. buffer' = front \o rest
  BY DEF RemoveAt
<1> HIDE DEF front, rest
<1>5. /\ buffer' \in Seq(Store)
      /\ Len(buffer') = Len(front) + Len(rest)
      /\ \A j \in 1..(Len(front) + Len(rest)) :
           buffer'[j] = IF j <= Len(front) THEN front[j] ELSE rest[j - Len(front)]
  BY <1>2, <1>3, <1>4, ConcatProperties
<1>6. Len(buffer') = Len(buffer) - 1
  BY <1>1, <1>2, <1>3, <1>5
<1>7. ASSUME NEW j \in 1..Len(buffer')
      PROVE  buffer'[j] = buffer[IF j < i THEN j ELSE j + 1]
  <2>1. CASE j < i
    BY <1>1, <1>2, <1>3, <1>5, <1>6, <2>1
  <2>2. CASE j >= i
    <3>1. j - Len(front) = j - (i - 1) /\ j - (i - 1) \in 1..(Len(buffer) - i)
      BY <1>1, <1>2, <1>6, <2>2
    <3>2. buffer'[j] = rest[j - (i - 1)]
      BY <1>1, <1>2, <1>5, <1>6, <2>2, <3>1
    <3>3. rest[j - (i - 1)] = buffer[i + (j - (i - 1))] /\ i + (j - (i - 1)) = j + 1
      BY <1>1, <1>3, <3>1
    <3> QED
      BY <1>1, <2>2, <3>2, <3>3
  <2> QED
    BY <1>1, <2>1, <2>2
<1> QED
  BY <1>5, <1>6, <1>7

(* The store that leaves is the oldest to its location, so the newest to   *)
(* every location stays the newest.                                        *)
LEMMA RemovalKeepsLast ==
  ASSUME TypeOK, NEW i \in Places, MayDrain(i), buffer' = RemoveAt(buffer, i),
         NEW to \in {"body", "header"}, NEW slot
  PROVE  /\ \A j \in Places' : LastWrite(j, to, slot)' =>
              \E m \in Places : LastWrite(m, to, slot) /\ buffer'[j] = buffer[m]
         /\ Untouched(to, slot)' => Untouched(to, slot) \/ LastWrite(i, to, slot)
<1> DEFINE Old(j) == IF j < i THEN j ELSE j + 1
<1>1. /\ Len(buffer) \in Nat /\ Len(buffer') = Len(buffer) - 1
      /\ \A j \in 1..Len(buffer') : buffer'[j] = buffer[Old(j)]
  BY Removal, BufferType
<1>2. \A k \in 1..(i - 1) : Writes(buffer[i], to, slot) => ~Writes(buffer[k], to, slot)
  BY DEF MayDrain, SameLocation, Writes
<1>3. ASSUME NEW j \in Places', LastWrite(j, to, slot)'
      PROVE  LastWrite(Old(j), to, slot) /\ Old(j) \in Places
  <2>1. j \in 1..Len(buffer') /\ Writes(buffer'[j], to, slot)
    BY <1>3 DEF Places, LastWrite, Writes, Slot
  <2>2. Old(j) \in Places /\ Writes(buffer[Old(j)], to, slot)
    BY <1>1, <2>1 DEF Places
  <2>3. ASSUME NEW m \in Places, m > Old(j) PROVE ~Writes(buffer[m], to, slot)
    <3>1. CASE m = i
      <4>1. Old(j) \in 1..(i - 1)
        BY <1>1, <2>1, <2>2, <2>3, <3>1 DEF Places
      <4> QED
        BY <1>2, <2>2, <3>1, <4>1
    <3>2. CASE m # i
      <4> DEFINE k == IF m < i THEN m ELSE m - 1
      <4>1. k \in 1..Len(buffer') /\ k > j /\ Old(k) = m
        BY <1>1, <2>1, <2>3, <3>2 DEF Places
      <4>2. buffer'[k] = buffer[m]
        BY <1>1, <4>1
      <4>3. ~Writes(buffer'[k], to, slot)
        BY <1>3, <4>1 DEF LastWrite, Places, Writes, Slot
      <4> QED
        BY <4>2, <4>3
    <3> QED
      BY <3>1, <3>2
  <2> QED
    BY <2>2, <2>3 DEF LastWrite
<1>4. ASSUME Untouched(to, slot)', NEW m \in Places, m # i
      PROVE  ~Writes(buffer[m], to, slot)
  <2> DEFINE k == IF m < i THEN m ELSE m - 1
  <2>1. k \in 1..Len(buffer') /\ Old(k) = m
    BY <1>1, <1>4 DEF Places
  <2>2. ~Writes(buffer'[k], to, slot)
    BY <1>4, <2>1 DEF Untouched, Places, Writes, Slot
  <2> QED
    BY <1>1, <2>1, <2>2
<1>5. Untouched(to, slot)' => Untouched(to, slot) \/ LastWrite(i, to, slot)
  BY <1>1, <1>4 DEF Untouched, LastWrite, Places
<1>6. ASSUME NEW j \in Places', LastWrite(j, to, slot)'
      PROVE  \E m \in Places : LastWrite(m, to, slot) /\ buffer'[j] = buffer[m]
  <2>1. j \in 1..Len(buffer')
    BY DEF Places
  <2> QED
    BY <1>1, <1>3, <1>6, <2>1
<1> QED
  BY <1>5, <1>6

-----------------------------------------------------------------------------
(* What a publisher stores, place by place.                                *)
LEMMA FunctionIsSeq ==
  ASSUME NEW S, NEW n \in Nat, NEW f \in [1..n -> S]
  PROVE  f \in Seq(S) /\ Len(f) = n
  OBVIOUS

LEMMA StoresTyped ==
  ASSUME NEW p \in Nat, NEW serial \in 1..MaxPublications
  PROVE  /\ BodyStore(p, serial) \in Store
         /\ ClearStore(p) \in Store
         /\ HeaderStore(p, serial) \in Store
         /\ MailboxStore(p) \in Store
         /\ DoorbellStore(p) \in Store
<1>1. MaxPublications \in Nat
  BY AqlAssumption
<1> QED
  BY <1>1 DEF BodyStore, ClearStore, HeaderStore, MailboxStore, DoorbellStore, Store

(* Concatenations, by a name that the provers need not look into.          *)
Joins(u, s, t) ==
  /\ Len(u) = Len(s) + Len(t)
  /\ \A j \in 1..(Len(s) + Len(t)) :
       u[j] = IF j <= Len(s) THEN s[j] ELSE t[j - Len(s)]

LEMMA Concat ==
  ASSUME NEW S, NEW s \in Seq(S), NEW t \in Seq(S), NEW u, u = s \o t
  PROVE  u \in Seq(S) /\ Joins(u, s, t)
  BY ConcatProperties DEF Joins

JoinsFour(all, a, b, c, d, n) ==
  /\ Len(all) = 3 * n
  /\ \A k \in 1..n : all[k] = a[k] /\ all[n + k] = b[k]
  /\ \A k \in 1..(n - 1) : all[2 * n + k] = c[k]
  /\ all[3 * n] = d[1]

LEMMA FourParts ==
  ASSUME NEW S, NEW n \in Nat \ {0},
         NEW a \in Seq(S), NEW b \in Seq(S), NEW c \in Seq(S), NEW d \in Seq(S),
         Len(a) = n, Len(b) = n, Len(c) = n - 1, Len(d) = 1,
         NEW all, all = ((a \o b) \o c) \o d
  PROVE  all \in Seq(S) /\ JoinsFour(all, a, b, c, d, n)
<1> PICK ab : ab = a \o b
  OBVIOUS
<1> PICK abc : abc = ab \o c
  OBVIOUS
<1>1. ab \in Seq(S) /\ Joins(ab, a, b)
  BY Concat
<1>2. abc \in Seq(S) /\ Joins(abc, ab, c)
  BY <1>1, Concat
<1>3. all \in Seq(S) /\ Joins(all, abc, d)
  BY <1>2, Concat
<1>4. Len(ab) = 2 * n /\ Len(abc) = 3 * n - 1 /\ Len(all) = 3 * n
  BY <1>1, <1>2, <1>3 DEF Joins
<1>5. JoinsFour(all, a, b, c, d, n)
  <2>1. ASSUME NEW k \in 1..n PROVE all[k] = a[k] /\ all[n + k] = b[k]
    <3>1. ab[k] = a[k] /\ ab[n + k] = b[k]
      BY <1>1 DEF Joins
    <3>2. abc[k] = ab[k] /\ abc[n + k] = ab[n + k]
      BY <1>2, <1>4 DEF Joins
    <3>3. all[k] = abc[k] /\ all[n + k] = abc[n + k]
      BY <1>3, <1>4 DEF Joins
    <3> QED
      BY <3>1, <3>2, <3>3
  <2>2. ASSUME NEW k \in 1..(n - 1) PROVE all[2 * n + k] = c[k]
    <3>1. abc[2 * n + k] = c[k]
      <4>1. PICK i : i = 2 * n + k
        OBVIOUS
      <4>2. i \in 1..(Len(ab) + Len(c)) /\ ~(i <= Len(ab)) /\ i - Len(ab) = k
        BY <1>4, <4>1
      <4>3. abc[i] = c[i - Len(ab)]
        BY <1>2, <4>2 DEF Joins
      <4> QED
        BY <4>1, <4>2, <4>3
    <3>2. all[2 * n + k] = abc[2 * n + k]
      BY <1>3, <1>4 DEF Joins
    <3> QED
      BY <3>1, <3>2
  <2>3. all[3 * n] = d[1]
    <3>1. /\ 3 * n \in 1..(Len(abc) + Len(d))
          /\ ~(3 * n <= Len(abc)) /\ 3 * n - Len(abc) = 1
      BY <1>4
    <3> QED
      BY <1>3, <3>1, Zenon DEF Joins
  <2> QED
    BY <1>4, <2>1, <2>2, <2>3 DEF JoinsFour
<1> QED
  BY <1>3, <1>5

PacketPlaces(stores, base, n, serial) ==
  /\ Len(stores) = 3 * n
  /\ \A k \in 1..n : stores[k] = ClearStore(base + k - 1)
  /\ \A k \in 1..n : stores[n + k] = BodyStore(base + k - 1, serial)
  /\ \A k \in 1..(n - 1) : stores[2 * n + k] = HeaderStore(base + k, serial)
  /\ stores[3 * n] = HeaderStore(base, serial)

LEMMA PacketStoresFacts ==
  ASSUME NEW base \in Nat, NEW n \in Nat \ {0}, NEW serial \in 1..MaxPublications,
         NEW stores, stores = PacketStores(base, n, serial)
  PROVE  stores \in Seq(Store) /\ PacketPlaces(stores, base, n, serial)
<1>1. PICK clears : clears = [k \in 1..n |-> ClearStore(base + k - 1)]
  OBVIOUS
<1>2. PICK bodies : bodies = [k \in 1..n |-> BodyStore(base + k - 1, serial)]
  OBVIOUS
<1>3. PICK headers : headers = [k \in 1..(n - 1) |-> HeaderStore(base + k, serial)]
  OBVIOUS
<1>4. PICK last : last = <<HeaderStore(base, serial)>>
  OBVIOUS
<1>5. stores = ((clears \o bodies) \o headers) \o last
  BY <1>1, <1>2, <1>3, <1>4 DEF PacketStores, Bodies
<1>6. /\ clears \in Seq(Store) /\ Len(clears) = n
      /\ \A k \in 1..n : clears[k] = ClearStore(base + k - 1)
  BY <1>1, StoresTyped
<1>7. /\ bodies \in Seq(Store) /\ Len(bodies) = n
      /\ \A k \in 1..n : bodies[k] = BodyStore(base + k - 1, serial)
  BY <1>2, StoresTyped
<1>8. /\ headers \in Seq(Store) /\ Len(headers) = n - 1
      /\ \A k \in 1..(n - 1) : headers[k] = HeaderStore(base + k, serial)
  BY <1>3, StoresTyped
<1>9. /\ last \in Seq(Store) /\ Len(last) = 1
      /\ last[1] = HeaderStore(base, serial)
  BY <1>4, StoresTyped
<1>10. stores \in Seq(Store) /\ JoinsFour(stores, clears, bodies, headers, last, n)
  <2>1. /\ clears \in Seq(Store) /\ bodies \in Seq(Store)
        /\ headers \in Seq(Store) /\ last \in Seq(Store)
        /\ Len(clears) = n /\ Len(bodies) = n /\ Len(headers) = n - 1 /\ Len(last) = 1
    BY <1>6, <1>7, <1>8, <1>9
  <2> QED
    BY <1>5, <2>1, FourParts
<1> QED
  BY <1>6, <1>7, <1>8, <1>9, <1>10 DEF JoinsFour, PacketPlaces

-----------------------------------------------------------------------------
(* The host writes packets: the buffer gets longer.                        *)
LEMMA WriteFacts ==
  ASSUME TypeOK, Indexes, NEW n \in 1..MaxChain, WritePackets(n)
  PROVE  /\ n \in Nat \ {0} /\ n <= RingSlots /\ RingSlots \in Nat
         /\ writeIndex \in Nat /\ Len(buffer) \in Nat
         /\ pub'.serial = pub.serial + 1 /\ pub'.base = writeIndex /\ pub'.n = n
         /\ pub'.serial \in 1..MaxPublications /\ pub.serial \in Nat
         /\ pub' \in [serial : 0..MaxPublications, base : Nat, n : 0..MaxChain]
         /\ writeIndex + n <= readPtr + RingSlots
         /\ buffer' \in Seq(Store)
         /\ Len(buffer') = Len(buffer) + 3 * n
         /\ \A i \in Places : buffer'[i] = buffer[i]
         /\ \A k \in 1..n : buffer'[Len(buffer) + k] = ClearStore(writeIndex + k - 1)
         /\ \A k \in 1..n : buffer'[Len(buffer) + n + k]
                              = BodyStore(writeIndex + k - 1, pub'.serial)
         /\ \A k \in 1..(n - 1) : buffer'[Len(buffer) + 2 * n + k]
                                    = HeaderStore(writeIndex + k, pub'.serial)
         /\ buffer'[Len(buffer')] = HeaderStore(writeIndex, pub'.serial)
<1>1. /\ n \in Nat \ {0} /\ n <= RingSlots /\ RingSlots \in Nat
      /\ writeIndex \in Nat /\ readPtr \in Nat
      /\ buffer \in Seq(Store) /\ Len(buffer) \in Nat
      /\ pub.serial \in 0..MaxPublications /\ MaxPublications \in Nat
  BY AqlAssumption DEF TypeOK
<1>2. /\ pub' = [serial |-> pub.serial + 1, base |-> writeIndex, n |-> n]
      /\ pub.serial < MaxPublications
      /\ writeIndex - readPtr + n <= RingSlots
      /\ buffer' = buffer \o PacketStores(writeIndex, n, pub.serial + 1)
  BY DEF WritePackets, Room
<1>3. pub.serial + 1 \in 1..MaxPublications
  BY <1>1, <1>2
<1>13. PICK serial : serial = pub.serial + 1
  OBVIOUS
<1>14. PICK stores : stores = PacketStores(writeIndex, n, serial)
  OBVIOUS
<1>4. stores \in Seq(Store) /\ PacketPlaces(stores, writeIndex, n, serial)
  <2>1. serial \in 1..MaxPublications /\ writeIndex \in Nat /\ n \in Nat \ {0}
    BY <1>1, <1>3, <1>13
  <2> HIDE <1>13
  <2> QED
    BY <1>14, <2>1, PacketStoresFacts
<1>5. PICK m \in Nat : m = Len(buffer)
  BY <1>1
<1>6. buffer' = buffer \o stores
  BY <1>2, <1>13, <1>14, Zenon
<1>7. buffer' \in Seq(Store) /\ Joins(buffer', buffer, stores)
  BY <1>1, <1>4, <1>6, Concat
<1>8. /\ Len(buffer') = m + 3 * n
      /\ \A k \in 1..m : buffer'[k] = buffer[k]
      /\ \A k \in 1..(3 * n) : buffer'[m + k] = stores[k]
  <2>1. Len(stores) = 3 * n /\ Len(buffer) = m
    BY <1>4, <1>5 DEF PacketPlaces
  <2>2. ASSUME NEW k \in 1..(3 * n) PROVE buffer'[m + k] = stores[k]
    <3>1. PICK i : i = m + k
      OBVIOUS
    <3>2. i \in 1..(Len(buffer) + Len(stores)) /\ ~(i <= Len(buffer)) /\ i - Len(buffer) = k
      BY <1>1, <2>1, <3>1
    <3>3. buffer'[i] = stores[i - Len(buffer)]
      BY <1>7, <3>2 DEF Joins
    <3> QED
      BY <3>1, <3>2, <3>3
  <2>3. ASSUME NEW k \in 1..m PROVE buffer'[k] = buffer[k]
    BY <1>1, <1>7, <2>1 DEF Joins
  <2> QED
    BY <1>7, <2>1, <2>2, <2>3 DEF Joins
<1>9. ASSUME NEW k \in 1..n
      PROVE  /\ buffer'[m + k] = ClearStore(writeIndex + k - 1)
             /\ buffer'[m + n + k] = BodyStore(writeIndex + k - 1, serial)
  <2>1. k \in 1..(3 * n) /\ n + k \in 1..(3 * n) /\ m + (n + k) = m + n + k
    BY <1>1
  <2>2. buffer'[m + k] = stores[k] /\ buffer'[m + (n + k)] = stores[n + k]
    BY <1>8, <2>1, Zenon
  <2> QED
    BY <1>4, <2>1, <2>2 DEF PacketPlaces
<1>10. ASSUME NEW k \in 1..(n - 1)
       PROVE  buffer'[m + 2 * n + k] = HeaderStore(writeIndex + k, serial)
  <2>1. 2 * n + k \in 1..(3 * n) /\ m + (2 * n + k) = m + 2 * n + k
    BY <1>1
  <2>2. buffer'[m + (2 * n + k)] = stores[2 * n + k]
    BY <1>8, <2>1, Zenon
  <2> QED
    BY <1>4, <2>1, <2>2 DEF PacketPlaces
<1>11. buffer'[Len(buffer')] = HeaderStore(writeIndex, serial)
  <2>1. 3 * n \in 1..(3 * n)
    BY <1>1
  <2>2. buffer'[m + 3 * n] = stores[3 * n]
    BY <1>8, <2>1, Zenon
  <2> QED
    BY <1>4, <1>8, <2>2 DEF PacketPlaces
<1>12. pub'.serial = serial /\ pub'.base = writeIndex /\ pub'.n = n
  BY <1>2, <1>13
<1>15. pub' \in [serial : 0..MaxPublications, base : Nat, n : 0..MaxChain]
  BY <1>1, <1>2, <1>3
<1>16. writeIndex + n <= readPtr + RingSlots
  BY <1>1, <1>2
<1>17. serial = pub.serial + 1 /\ serial \in 1..MaxPublications /\ pub.serial \in Nat
  BY <1>1, <1>3, <1>13
<1> HIDE <1>13
<1> QED
  BY <1>1, <1>5, <1>7, <1>8, <1>9, <1>10, <1>11, <1>12, <1>15, <1>16, <1>17 DEF Places

(* Which store of a publication lies where in the buffer.                  *)
LEMMA WrittenPlace ==
  ASSUME NEW n \in Nat \ {0}, NEW m \in Nat, NEW i \in 1..(m + 3 * n), i > m
  PROVE  \/ \E k \in 1..n : i = m + k
         \/ \E k \in 1..n : i = m + n + k
         \/ \E k \in 1..(n - 1) : i = m + 2 * n + k
         \/ i = m + 3 * n
<1>1. CASE i <= m + n
  <2>1. i - m \in 1..n /\ i = m + (i - m)
    BY <1>1
  <2> QED BY <2>1
<1>2. CASE i > m + n /\ i <= m + 2 * n
  <2>1. i - m - n \in 1..n /\ i = m + n + (i - m - n)
    BY <1>2
  <2> QED BY <2>1
<1>3. CASE i > m + 2 * n /\ i < m + 3 * n
  <2>1. i - m - 2 * n \in 1..(n - 1) /\ i = m + 2 * n + (i - m - 2 * n)
    BY <1>3
  <2> QED BY <2>1
<1> QED
  BY <1>1, <1>2, <1>3

(* A publication settles the slots of its chain, whatever was in them and  *)
(* whatever stores to them were still under way.                           *)
LEMMA WriteSettles ==
  ASSUME TypeOK, Indexes, NEW n \in 1..MaxChain, WritePackets(n)
  PROVE  Settles'
<1>1. PICK m \in Nat : m = Len(buffer)
  BY BufferType
<1>2. PICK serial : serial = pub'.serial
  OBVIOUS
<1>3. /\ n \in Nat \ {0} /\ n <= RingSlots /\ RingSlots \in Nat /\ writeIndex \in Nat
      /\ pub'.base = writeIndex /\ pub'.n = n
      /\ Len(buffer') = m + 3 * n
      /\ \A k \in 1..n : buffer'[m + k] = ClearStore(writeIndex + k - 1)
      /\ \A k \in 1..n : buffer'[m + n + k] = BodyStore(writeIndex + k - 1, serial)
      /\ \A k \in 1..(n - 1) : buffer'[m + 2 * n + k] = HeaderStore(writeIndex + k, serial)
      /\ buffer'[m + 3 * n] = HeaderStore(writeIndex, serial)
  BY <1>1, <1>2, WriteFacts
<1> SUFFICES ASSUME NEW p \in writeIndex..(writeIndex + n - 1)
             PROVE  BodySettles(p)' /\ HeaderSettles(p)'
  BY <1>3 DEF Settles, Chain
<1>4. PICK k \in 1..n : p = writeIndex + k - 1
  <2>1. p - writeIndex + 1 \in 1..n /\ p = writeIndex + (p - writeIndex + 1) - 1
    BY <1>3
  <2> QED BY <2>1
<1>5. ASSUME NEW q \in writeIndex..(writeIndex + n - 1), Slot(q) = Slot(p)
      PROVE  q = p
  <2>1. ~(p < q) /\ ~(q < p)
    BY <1>3, <1>5, SlotsDiffer
  <2> QED BY <1>3, <2>1
<1>6. PICK b : b = m + n + k
  OBVIOUS
<1>7. b \in 1..Len(buffer') /\ Writes(buffer'[b], "body", Slot(p))
  <2>1. b \in 1..Len(buffer')
    BY <1>3, <1>6
  <2>2. buffer'[b] = BodyStore(p, serial)
    BY <1>3, <1>4, <1>6
  <2> QED
    BY <2>1, <2>2 DEF Writes, BodyStore
<1>8. PICK h \in 1..Len(buffer') : h > m + 2 * n /\ buffer'[h] = HeaderStore(p, serial)
  <2>1. CASE k = 1
    <3>1. m + 3 * n \in 1..Len(buffer') /\ m + 3 * n > m + 2 * n /\ p = writeIndex
      BY <1>3, <1>4, <2>1
    <3> QED BY <1>3, <3>1
  <2>2. CASE k # 1
    <3>1. PICK j \in 1..(n - 1) : j = k - 1
      BY <1>3, <2>2
    <3>2. m + 2 * n + j \in 1..Len(buffer') /\ m + 2 * n + j > m + 2 * n /\ p = writeIndex + j
      BY <1>3, <1>4, <3>1
    <3> QED BY <1>3, <3>2
  <2> QED BY <2>1, <2>2
<1>9. Writes(buffer'[h], "header", Slot(p))
  BY <1>8 DEF Writes, HeaderStore
<1>10. ASSUME NEW i \in 1..Len(buffer'), i > m
       PROVE  \/ buffer'[i].to = "header" /\ \E j \in 1..n : i = m + j
              \/ /\ buffer'[i].to = "body" /\ buffer'[i].serial = serial
                 /\ \E j \in 1..n : buffer'[i].id = writeIndex + j - 1
              \/ buffer'[i].to = "header" /\ buffer'[i].serial = serial
  <2>1. i \in 1..(m + 3 * n)
    BY <1>3
  <2>2. \/ \E j \in 1..n : i = m + j
        \/ \E j \in 1..n : i = m + n + j
        \/ \E j \in 1..(n - 1) : i = m + 2 * n + j
        \/ i = m + 3 * n
    BY <1>3, <1>10, <2>1, WrittenPlace
  <2>3. CASE \E j \in 1..n : i = m + j
    <3>1. PICK j \in 1..n : i = m + j
      BY <2>3
    <3>2. buffer'[i] = ClearStore(writeIndex + j - 1)
      BY <1>3, <3>1
    <3> QED
      BY <3>1, <3>2 DEF ClearStore
  <2>4. CASE \E j \in 1..n : i = m + n + j
    <3>1. PICK j \in 1..n : i = m + n + j
      BY <2>4
    <3>2. buffer'[i] = BodyStore(writeIndex + j - 1, serial)
      BY <1>3, <3>1
    <3> QED
      BY <3>1, <3>2 DEF BodyStore
  <2>5. CASE \E j \in 1..(n - 1) : i = m + 2 * n + j
    <3>1. PICK j \in 1..(n - 1) : i = m + 2 * n + j
      BY <2>5
    <3>2. buffer'[i] = HeaderStore(writeIndex + j, serial)
      BY <1>3, <3>1
    <3> QED
      BY <3>1, <3>2 DEF HeaderStore
  <2>6. CASE i = m + 3 * n
    BY <1>3, <2>6 DEF HeaderStore
  <2> QED
    BY <2>2, <2>3, <2>4, <2>5, <2>6
<1>11. ASSUME NEW i \in 1..Len(buffer'), Writes(buffer'[i], "body", Slot(p)), i >= b
       PROVE  buffer'[i].id = p /\ buffer'[i].serial = serial
  <2>1. i > m
    BY <1>3, <1>6, <1>11
  <2>2. buffer'[i].to = "body" /\ Slot(buffer'[i].id) = Slot(p)
    BY <1>11 DEF Writes
  <2>3. buffer'[i].serial = serial /\ \E j \in 1..n : buffer'[i].id = writeIndex + j - 1
    BY <1>10, <2>1, <2>2
  <2>4. buffer'[i].id \in writeIndex..(writeIndex + n - 1)
    BY <1>3, <2>3
  <2> QED
    BY <1>5, <2>2, <2>3, <2>4
<1>12. ASSUME NEW i \in 1..Len(buffer'), Writes(buffer'[i], "header", Slot(p)), i >= h
       PROVE  buffer'[i].serial = serial
  <2>1. i > m /\ \A j \in 1..n : i # m + j
    BY <1>3, <1>8, <1>12
  <2> QED
    BY <1>10, <1>12, <2>1 DEF Writes
<1>13. b \in Int /\ h \in Int
  BY <1>3, <1>6, <1>7, <1>8
<1>14. BodySettles(p)'
  <2>1. ~Untouched("body", Slot(p))'
    BY <1>7 DEF Untouched, Places, Writes, Slot
  <2>2. ASSUME NEW i \in 1..Len(buffer'), LastWrite(i, "body", Slot(p))'
        PROVE  i >= b /\ Writes(buffer'[i], "body", Slot(p))
    BY <1>7, <1>13, <2>2 DEF LastWrite, Places, Writes, Slot
  <2>3. \A i \in 1..Len(buffer') : LastWrite(i, "body", Slot(p))' =>
          buffer'[i].id = p /\ buffer'[i].serial = serial
    BY <1>11, <2>2
  <2> QED
    BY <1>2, <2>1, <2>3 DEF BodySettles, Places, Slot
<1>15. HeaderSettles(p)'
  <2>1. ~Untouched("header", Slot(p))'
    BY <1>9 DEF Untouched, Places, Writes, Slot
  <2>2. ASSUME NEW i \in 1..Len(buffer'), LastWrite(i, "header", Slot(p))'
        PROVE  i >= h /\ Writes(buffer'[i], "header", Slot(p))
    BY <1>9, <1>13, <2>2 DEF LastWrite, Places, Writes, Slot
  <2>3. \A i \in 1..Len(buffer') : LastWrite(i, "header", Slot(p))' =>
          buffer'[i].serial = serial
    BY <1>12, <2>2
  <2> QED
    BY <1>2, <2>1, <2>3 DEF HeaderSettles, Places, Slot
<1> QED
  BY <1>14, <1>15

LEMMA WritePacketsInv ==
  ASSUME QueueInv, NEW n \in 1..MaxChain, WritePackets(n)
  PROVE  QueueInv'
<1>1. TypeOK /\ Indexes /\ PacketStoresOnly /\ NoLaterHeader /\ Histories /\ AnnouncedComplete
  BY DEF QueueInv
<1>2. /\ hostPc = "idle" /\ hostPc' = "packets"
      /\ writeIndex' = writeIndex /\ ring' = ring /\ mailbox' = mailbox
      /\ doorbell' = doorbell /\ awake' = awake /\ readIndex' = readIndex
      /\ readPtr' = readPtr /\ accepted' = accepted /\ executed' = executed
  BY DEF WritePackets
<1>3. PICK m \in Nat : m = Len(buffer)
  BY <1>1, BufferType
<1>4. PICK serial : serial = pub'.serial
  OBVIOUS
<1>5. /\ n \in Nat \ {0} /\ n <= RingSlots /\ RingSlots \in Nat /\ writeIndex \in Nat
      /\ pub'.base = writeIndex /\ pub'.n = n /\ serial = pub.serial + 1
      /\ serial \in Nat /\ serial > 0 /\ pub.serial \in Nat /\ readPtr \in Nat
      /\ pub' \in [serial : 0..MaxPublications, base : Nat, n : 0..MaxChain]
      /\ writeIndex + n <= readPtr + RingSlots
      /\ buffer' \in Seq(Store) /\ Len(buffer') = m + 3 * n
      /\ \A i \in 1..m : buffer'[i] = buffer[i]
  BY <1>1, <1>3, <1>4, AqlAssumption, WriteFacts DEF Places, TypeOK
<1>6. /\ \A k \in 1..n : buffer'[m + k] = ClearStore(writeIndex + k - 1)
      /\ \A k \in 1..n : buffer'[m + n + k] = BodyStore(writeIndex + k - 1, serial)
      /\ \A k \in 1..(n - 1) : buffer'[m + 2 * n + k] = HeaderStore(writeIndex + k, serial)
      /\ buffer'[m + 3 * n] = HeaderStore(writeIndex, serial)
  BY <1>1, <1>3, <1>4, <1>5, WriteFacts
<1>7. ASSUME NEW i \in 1..(m + 3 * n)
      PROVE  \/ i \in 1..m /\ buffer'[i] = buffer[i]
             \/ \E k \in 1..n : buffer'[i] = ClearStore(writeIndex + k - 1)
             \/ \E k \in 1..n : buffer'[i] = BodyStore(writeIndex + k - 1, serial)
             \/ \E k \in 1..(n - 1) : buffer'[i] = HeaderStore(writeIndex + k, serial)
             \/ i = m + 3 * n /\ buffer'[i] = HeaderStore(writeIndex, serial)
  <2>1. CASE i <= m
    BY <1>5, <2>1
  <2>2. CASE i > m
    <3>1. \/ \E k \in 1..n : i = m + k
          \/ \E k \in 1..n : i = m + n + k
          \/ \E k \in 1..(n - 1) : i = m + 2 * n + k
          \/ i = m + 3 * n
      BY <1>5, <2>2, WrittenPlace
    <3> QED
      BY <1>6, <3>1
  <2> QED
    BY <1>5, <2>1, <2>2
<1>8. TypeOK'
  BY <1>1, <1>2, <1>5 DEF TypeOK
<1>9. Indexes'
  BY <1>1, <1>2, <1>4, <1>5 DEF Indexes
<1>10. PacketStoresOnly'
  <2> SUFFICES ASSUME NEW i \in 1..(m + 3 * n)
               PROVE  /\ buffer'[i].to \in {"body", "header"}
                      /\ writeIndex <= buffer'[i].id /\ buffer'[i].id < readPtr + RingSlots
                      /\ buffer'[i].serial <= serial
                      /\ buffer'[i].to = "body" => buffer'[i].serial > 0
                      /\ buffer'[i].to = "header" =>
                           (buffer'[i].release <=> buffer'[i].serial > 0)
    BY <1>2, <1>4, <1>5 DEF PacketStoresOnly, Places
  <2>1. CASE i \in 1..m /\ buffer'[i] = buffer[i]
    <3>1. i \in Places /\ buffer[i].serial \in Nat
      BY <1>1, <1>3, <2>1, StoreFields DEF Places
    <3>2. /\ buffer[i].to \in {"body", "header"}
          /\ writeIndex <= buffer[i].id /\ buffer[i].id < readPtr + RingSlots
          /\ buffer[i].serial <= pub.serial
          /\ buffer[i].to = "body" => buffer[i].serial > 0
          /\ buffer[i].to = "header" => (buffer[i].release <=> buffer[i].serial > 0)
      BY <1>1, <1>2, <3>1 DEF PacketStoresOnly
    <3>3. serial = pub.serial + 1 /\ pub.serial \in Nat
      BY <1>5
    <3>4. \A x, y \in Nat : x <= y => x <= y + 1
      OBVIOUS
    <3>5. buffer[i].serial <= pub.serial + 1
      BY <3>1, <3>2, <3>3, <3>4, Zenon
    <3>6. buffer[i].serial <= serial
      BY <3>3, <3>5, Zenon
    <3> QED
      BY <2>1, <3>2, <3>6
  <2>2. CASE \E k \in 1..n : buffer'[i] = ClearStore(writeIndex + k - 1)
    BY <1>5, <2>2 DEF ClearStore
  <2>3. CASE \E k \in 1..n : buffer'[i] = BodyStore(writeIndex + k - 1, serial)
    BY <1>5, <2>3 DEF BodyStore
  <2>4. CASE \E k \in 1..(n - 1) : buffer'[i] = HeaderStore(writeIndex + k, serial)
    BY <1>5, <2>4 DEF HeaderStore
  <2>5. CASE buffer'[i] = HeaderStore(writeIndex, serial)
    BY <1>5, <2>5 DEF HeaderStore
  <2> QED
    BY <1>7, <2>1, <2>2, <2>3, <2>4, <2>5
<1>11. IndexStoresOnly'
  BY <1>2 DEF IndexStoresOnly
<1>12. Settles'
  BY <1>1, WriteSettles
<1>13. FirstHeaderLast'
  <2>1. ring[Slot(writeIndex)].header # serial
    <3>1. Slot(writeIndex) \in DOMAIN ring /\ ring[Slot(writeIndex)].header \in Nat
      BY <1>1, <1>5, SlotInRing, RingType
    <3> QED
      BY <1>1, <1>5, <3>1 DEF NoLaterHeader
  <2>2. ASSUME NEW i \in 1..(m + 3 * n), i < m + 3 * n,
               Writes(buffer'[i], "header", Slot(writeIndex))
        PROVE  buffer'[i].serial # serial
    <3>1. CASE i \in 1..m /\ buffer'[i] = buffer[i]
      <4>1. i \in Places /\ buffer[i] \in Store
        BY <1>1, <1>3, <3>1, BufferType DEF Places
      <4>2. buffer[i].serial <= pub.serial /\ buffer[i].serial \in Nat
        BY <1>1, <1>2, <4>1, AqlAssumption DEF PacketStoresOnly, Store
      <4> QED
        BY <1>5, <3>1, <4>2
    <3>2. CASE \E k \in 1..n : buffer'[i] = ClearStore(writeIndex + k - 1)
      BY <1>5, <3>2 DEF ClearStore
    <3>3. CASE \E k \in 1..n : buffer'[i] = BodyStore(writeIndex + k - 1, serial)
      BY <2>2, <3>3 DEF BodyStore, Writes
    <3>4. CASE \E k \in 1..(n - 1) : buffer'[i] = HeaderStore(writeIndex + k, serial)
      <4>1. PICK k \in 1..(n - 1) : buffer'[i] = HeaderStore(writeIndex + k, serial)
        BY <3>4
      <4>2. Slot(writeIndex + k) = Slot(writeIndex)
        BY <2>2, <4>1 DEF HeaderStore, Writes
      <4>3. writeIndex + k \in Nat /\ writeIndex < writeIndex + k
            /\ writeIndex + k < writeIndex + RingSlots
        BY <1>5
      <4> QED
        BY <1>5, <4>2, <4>3, SlotsDiffer
    <3>5. i # m + 3 * n
      BY <1>5, <2>2
    <3> QED
      BY <1>7, <3>1, <3>2, <3>3, <3>4, <3>5
  <2>3. \A i \in Places' : i < Len(buffer') =>
          (Writes(buffer[i], "header", Slot(pub.base))' => buffer'[i].serial # serial)
    BY <1>5, <2>2 DEF Places, Writes, Slot
  <2> QED
    BY <1>2, <1>4, <1>5, <1>6, <2>1, <2>3 DEF FirstHeaderLast, Slot, HeaderStore
<1>14. NoLaterHeader'
  <2>1. \A s \in DOMAIN ring : ring[s].header \in Nat /\ ring[s].header <= pub.serial
    BY <1>1, RingType DEF NoLaterHeader
  <2> QED
    BY <1>2, <1>4, <1>5, <2>1 DEF NoLaterHeader
<1>15. Histories' /\ AnnouncedComplete'
  BY <1>1, <1>2 DEF Histories, AnnouncedComplete, Complete, Slot
<1> QED
  BY <1>8, <1>9, <1>10, <1>11, <1>12, <1>13, <1>14, <1>15 DEF QueueInv

-----------------------------------------------------------------------------
(* A store of a packet reaches memory: it goes to a slot the processor may *)
(* not read yet.                                                           *)
LEMMA PacketDrain ==
  ASSUME QueueInv, NEW i \in Places, buffer' = RemoveAt(buffer, i),
         buffer[i].to \in {"body", "header"},
         UNCHANGED <<writeIndex, hostPc, pub, mailbox, doorbell, awake, readIndex,
                     readPtr, accepted, executed>>,
         ring' \in [0..(RingSlots - 1) -> Packet],
         \A s \in 0..(RingSlots - 1) : s # Slot(buffer[i].id) => ring'[s] = ring[s]
  PROVE  /\ hostPc # "index"
         /\ TypeOK' /\ Indexes' /\ PacketStoresOnly' /\ IndexStoresOnly'
         /\ Histories' /\ AnnouncedComplete'
<1>1. TypeOK /\ Indexes /\ PacketStoresOnly /\ IndexStoresOnly /\ Histories /\ AnnouncedComplete
  BY DEF QueueInv
<1>2. /\ buffer' \in Seq(Store) /\ Len(buffer) \in Nat /\ Len(buffer') = Len(buffer) - 1
      /\ \A j \in 1..Len(buffer') : buffer'[j] = buffer[IF j < i THEN j ELSE j + 1]
  BY <1>1, Removal, BufferType
<1>3. hostPc # "index"
  <2> SUFFICES ASSUME hostPc = "index" PROVE FALSE
    OBVIOUS
  <2>1. \/ buffer = <<MailboxStore(pub.base + pub.n), DoorbellStore(pub.base + pub.n - 1)>>
        \/ buffer = <<DoorbellStore(pub.base + pub.n - 1)>>
        \/ buffer = <<>>
    BY <1>1 DEF IndexStoresOnly
  <2>2. buffer[i].to \in {"mailbox", "doorbell"}
    BY <2>1 DEF Places, MailboxStore, DoorbellStore
  <2> QED
    BY <2>2
<1>4. TypeOK'
  BY <1>1, <1>2 DEF TypeOK
<1>5. Indexes'
  BY <1>1 DEF Indexes
<1>6. PacketStoresOnly'
  <2> SUFFICES ASSUME NEW j \in 1..Len(buffer')
               PROVE  \E k \in Places : buffer'[j] = buffer[k]
    BY <1>1 DEF PacketStoresOnly, Places
  <2>1. (IF j < i THEN j ELSE j + 1) \in Places
    BY <1>2 DEF Places
  <2> QED
    BY <1>2, <2>1
<1>7. IndexStoresOnly'
  BY <1>3 DEF IndexStoresOnly
<1>8. Histories'
  BY <1>1 DEF Histories
<1>9. AnnouncedComplete'
  <2>1. /\ writeIndex \in Nat /\ readIndex \in Nat /\ readPtr \in Nat /\ RingSlots \in Nat
        /\ mailbox = writeIndex /\ readPtr <= readIndex
    BY <1>1, <1>3, AqlAssumption DEF TypeOK, Indexes
  <2>2. /\ buffer[i].id \in Nat /\ writeIndex <= buffer[i].id
        /\ buffer[i].id < readPtr + RingSlots
    BY <1>1, <1>3, StoreFields DEF PacketStoresOnly
  <2>3. ASSUME NEW p \in readIndex..(mailbox - 1)
        PROVE  p \in Nat /\ ring'[Slot(p)] = ring[Slot(p)]
    <3>1. p \in Nat /\ p < buffer[i].id /\ buffer[i].id < p + RingSlots
      BY <2>1, <2>2
    <3>2. Slot(p) # Slot(buffer[i].id)
      BY <2>2, <3>1, SlotsDiffer
    <3> QED
      BY <3>1, <3>2, SlotInRing
  <2> QED
    BY <1>1, <2>3 DEF AnnouncedComplete, Complete, Slot
<1> QED
  BY <1>3, <1>4, <1>5, <1>6, <1>7, <1>8, <1>9

(* A store other than the last leaves.                                     *)
LEMMA FirstHeaderKept ==
  ASSUME TypeOK, FirstHeaderLast, NEW i \in Places, i < Len(buffer),
         buffer' = RemoveAt(buffer, i), pub' = pub, hostPc # "index",
         ring'[Slot(pub.base)].header # pub.serial
  PROVE  FirstHeaderLast'
<1>1. /\ Len(buffer) \in Nat /\ Len(buffer') = Len(buffer) - 1
      /\ \A j \in 1..Len(buffer') : buffer'[j] = buffer[IF j < i THEN j ELSE j + 1]
  BY Removal, BufferType
<1>2. Len(buffer) > 0 /\ Len(buffer') > 0
  BY <1>1 DEF Places
<1>3. /\ pub.n > 0
      /\ buffer[Len(buffer)] = HeaderStore(pub.base, pub.serial)
      /\ \A j \in Places : j < Len(buffer) =>
           (Writes(buffer[j], "header", Slot(pub.base)) => buffer[j].serial # pub.serial)
  BY <1>2 DEF FirstHeaderLast
<1>4. buffer'[Len(buffer')] = buffer[Len(buffer)]
  BY <1>1, <1>2 DEF Places
<1>5. ASSUME NEW j \in 1..Len(buffer'), j < Len(buffer')
      PROVE  \E k \in Places : k < Len(buffer) /\ buffer'[j] = buffer[k]
  <2>1. (IF j < i THEN j ELSE j + 1) \in Places /\ (IF j < i THEN j ELSE j + 1) < Len(buffer)
    BY <1>1, <1>5 DEF Places
  <2> QED
    BY <1>1, <2>1
<1>6. \A j \in 1..Len(buffer') : j < Len(buffer') =>
        (Writes(buffer'[j], "header", Slot(pub.base)) => buffer'[j].serial # pub.serial)
  BY <1>3, <1>5
<1> QED
  BY <1>3, <1>4, <1>6 DEF FirstHeaderLast, Places, Writes, Slot, HeaderStore

LEMMA DrainBodyInv ==
  ASSUME QueueInv, NEW i \in Places, DrainBody(i)
  PROVE  QueueInv'
<1>1. TypeOK /\ Indexes /\ PacketStoresOnly /\ Settles /\ FirstHeaderLast /\ NoLaterHeader
  BY DEF QueueInv
<1>2. /\ MayDrain(i) /\ buffer[i].to = "body" /\ buffer' = RemoveAt(buffer, i)
      /\ ring' = [ring EXCEPT ![Slot(buffer[i].id)] =
                    [@ EXCEPT !.id = buffer[i].id, !.serial = buffer[i].serial]]
      /\ writeIndex' = writeIndex /\ hostPc' = hostPc /\ pub' = pub
      /\ mailbox' = mailbox /\ doorbell' = doorbell /\ awake' = awake
      /\ readIndex' = readIndex /\ readPtr' = readPtr
      /\ accepted' = accepted /\ executed' = executed
  BY DEF DrainBody
<1>3. PICK slot : slot = Slot(buffer[i].id)
  OBVIOUS
<1>4. /\ buffer[i].id \in Nat /\ buffer[i].serial \in 0..MaxPublications
      /\ slot \in 0..(RingSlots - 1)
  BY <1>1, <1>3, BufferType, StoreFields, SlotInRing DEF Store
<1>5. /\ ring' \in [0..(RingSlots - 1) -> Packet]
      /\ \A s \in 0..(RingSlots - 1) : s # slot => ring'[s] = ring[s]
      /\ \A s \in 0..(RingSlots - 1) : ring'[s].header = ring[s].header
      /\ ring'[slot].id = buffer[i].id /\ ring'[slot].serial = buffer[i].serial
  <2>1. ring \in [0..(RingSlots - 1) -> Packet]
    BY <1>1 DEF TypeOK
  <2>2. PICK packet : packet = [ring[slot] EXCEPT !.id = buffer[i].id, !.serial = buffer[i].serial]
    OBVIOUS
  <2>3. /\ packet \in Packet /\ packet.header = ring[slot].header
        /\ packet.id = buffer[i].id /\ packet.serial = buffer[i].serial
    BY <1>4, <2>1, <2>2 DEF Packet
  <2>4. ring' = [ring EXCEPT ![slot] = packet]
    BY <1>2, <1>3, <2>2
  <2> QED
    BY <1>4, <2>1, <2>3, <2>4
<1>6. /\ hostPc # "index"
      /\ TypeOK' /\ Indexes' /\ PacketStoresOnly' /\ IndexStoresOnly'
      /\ Histories' /\ AnnouncedComplete'
  BY <1>2, <1>3, <1>5, PacketDrain
<1>7. /\ Len(buffer) \in Nat /\ Len(buffer') = Len(buffer) - 1
      /\ \A j \in 1..Len(buffer') : buffer'[j] = buffer[IF j < i THEN j ELSE j + 1]
  BY <1>1, <1>2, Removal, BufferType
<1>8. Settles'
  <2> SUFFICES ASSUME NEW p \in Chain PROVE BodySettles(p)' /\ HeaderSettles(p)'
    BY <1>2 DEF Settles, Chain
  <2>1. BodySettles(p) /\ HeaderSettles(p)
    BY <1>1 DEF Settles
  <2>2. p \in Nat /\ Slot(p) \in 0..(RingSlots - 1)
    BY <1>1, SlotInRing DEF Chain, TypeOK
  <2>3. BodySettles(p)'
    <3>1. ASSUME NEW j \in Places', LastWrite(j, "body", Slot(p))'
          PROVE  buffer'[j].id = p /\ buffer'[j].serial = pub.serial
      <4>1. PICK k \in Places : LastWrite(k, "body", Slot(p)) /\ buffer'[j] = buffer[k]
        BY <1>1, <1>2, <3>1, RemovalKeepsLast
      <4> QED
        BY <2>1, <4>1 DEF BodySettles
    <3>2. ASSUME Untouched("body", Slot(p))'
          PROVE  ring'[Slot(p)].id = p /\ ring'[Slot(p)].serial = pub.serial
      <4>1. Untouched("body", Slot(p)) \/ LastWrite(i, "body", Slot(p))
        BY <1>1, <1>2, <3>2, RemovalKeepsLast
      <4>2. CASE Untouched("body", Slot(p))
        <5>1. slot # Slot(p)
          BY <1>2, <1>3, <4>2 DEF Untouched, Writes
        <5> QED
          BY <1>5, <2>1, <2>2, <4>2, <5>1 DEF BodySettles
      <4>3. CASE LastWrite(i, "body", Slot(p))
        <5>1. slot = Slot(p)
          BY <1>3, <4>3 DEF LastWrite, Writes
        <5> QED
          BY <1>5, <2>1, <4>3, <5>1 DEF BodySettles
      <4> QED
        BY <4>1, <4>2, <4>3
    <3> QED
      BY <1>2, <3>1, <3>2 DEF BodySettles, Slot
  <2>4. HeaderSettles(p)'
    <3>1. ASSUME NEW j \in Places', LastWrite(j, "header", Slot(p))'
          PROVE  buffer'[j].serial = pub.serial
      <4>1. PICK k \in Places : LastWrite(k, "header", Slot(p)) /\ buffer'[j] = buffer[k]
        BY <1>1, <1>2, <3>1, RemovalKeepsLast
      <4> QED
        BY <2>1, <4>1 DEF HeaderSettles
    <3>2. ASSUME Untouched("header", Slot(p))'
          PROVE  ring'[Slot(p)].header = pub.serial
      <4>1. Untouched("header", Slot(p))
        BY <1>1, <1>2, <3>2, RemovalKeepsLast DEF LastWrite, Writes
      <4> QED
        BY <1>5, <2>1, <2>2, <4>1 DEF HeaderSettles
    <3> QED
      BY <1>2, <3>1, <3>2 DEF HeaderSettles, Slot
  <2> QED
    BY <2>3, <2>4
<1>9. FirstHeaderLast'
  <2> SUFFICES ASSUME Len(buffer') > 0 PROVE FirstHeaderLast'
    BY DEF FirstHeaderLast
  <2>1. /\ buffer[Len(buffer)] = HeaderStore(pub.base, pub.serial)
        /\ ring[Slot(pub.base)].header # pub.serial
    BY <1>1, <1>6, <1>7 DEF FirstHeaderLast
  <2>2. i < Len(buffer)
    BY <1>2, <1>7, <2>1 DEF Places, HeaderStore
  <2>3. ring'[Slot(pub.base)].header # pub.serial
    <3>1. Slot(pub.base) \in 0..(RingSlots - 1)
      BY <1>1, SlotInRing DEF TypeOK
    <3> QED
      BY <1>5, <2>1, <3>1
  <2> QED
    BY <1>1, <1>2, <1>6, <2>2, <2>3, FirstHeaderKept
<1>10. NoLaterHeader'
  <2>1. DOMAIN ring = 0..(RingSlots - 1) /\ DOMAIN ring' = 0..(RingSlots - 1)
    BY <1>1, <1>5, RingType
  <2> QED
    BY <1>1, <1>2, <1>5, <2>1 DEF NoLaterHeader
<1> QED
  BY <1>6, <1>8, <1>9, <1>10 DEF QueueInv

LEMMA DrainHeaderInv ==
  ASSUME QueueInv, NEW i \in Places, DrainHeader(i)
  PROVE  QueueInv'
<1>1. TypeOK /\ Indexes /\ PacketStoresOnly /\ Settles /\ FirstHeaderLast /\ NoLaterHeader
  BY DEF QueueInv
<1>2. /\ MayDrain(i) /\ buffer[i].to = "header" /\ buffer' = RemoveAt(buffer, i)
      /\ ring' = [ring EXCEPT ![Slot(buffer[i].id)].header = buffer[i].serial]
      /\ writeIndex' = writeIndex /\ hostPc' = hostPc /\ pub' = pub
      /\ mailbox' = mailbox /\ doorbell' = doorbell /\ awake' = awake
      /\ readIndex' = readIndex /\ readPtr' = readPtr
      /\ accepted' = accepted /\ executed' = executed
  BY DEF DrainHeader
<1>3. PICK slot : slot = Slot(buffer[i].id)
  OBVIOUS
<1>4. /\ buffer[i].id \in Nat /\ buffer[i].serial \in 0..MaxPublications
      /\ slot \in 0..(RingSlots - 1)
  BY <1>1, <1>3, BufferType, StoreFields, SlotInRing DEF Store
<1>5. /\ ring' \in [0..(RingSlots - 1) -> Packet]
      /\ \A s \in 0..(RingSlots - 1) : s # slot => ring'[s] = ring[s]
      /\ \A s \in 0..(RingSlots - 1) :
           ring'[s].id = ring[s].id /\ ring'[s].serial = ring[s].serial
      /\ ring'[slot].header = buffer[i].serial
  <2>1. ring \in [0..(RingSlots - 1) -> Packet]
    BY <1>1 DEF TypeOK
  <2>2. PICK packet : packet = [ring[slot] EXCEPT !.header = buffer[i].serial]
    OBVIOUS
  <2>3. /\ packet \in Packet /\ packet.header = buffer[i].serial
        /\ packet.id = ring[slot].id /\ packet.serial = ring[slot].serial
    BY <1>4, <2>1, <2>2 DEF Packet
  <2>4. ring' = [ring EXCEPT ![slot] = packet]
    BY <1>2, <1>3, <2>2
  <2> QED
    BY <1>4, <2>1, <2>3, <2>4
<1>6. /\ hostPc # "index"
      /\ TypeOK' /\ Indexes' /\ PacketStoresOnly' /\ IndexStoresOnly'
      /\ Histories' /\ AnnouncedComplete'
  BY <1>2, <1>3, <1>5, PacketDrain
<1>7. /\ Len(buffer) \in Nat /\ Len(buffer') = Len(buffer) - 1
      /\ \A j \in 1..Len(buffer') : buffer'[j] = buffer[IF j < i THEN j ELSE j + 1]
  BY <1>1, <1>2, Removal, BufferType
<1>8. Settles'
  <2> SUFFICES ASSUME NEW p \in Chain PROVE BodySettles(p)' /\ HeaderSettles(p)'
    BY <1>2 DEF Settles, Chain
  <2>1. BodySettles(p) /\ HeaderSettles(p)
    BY <1>1 DEF Settles
  <2>2. p \in Nat /\ Slot(p) \in 0..(RingSlots - 1)
    BY <1>1, SlotInRing DEF Chain, TypeOK
  <2>3. BodySettles(p)'
    <3>1. ASSUME NEW j \in Places', LastWrite(j, "body", Slot(p))'
          PROVE  buffer'[j].id = p /\ buffer'[j].serial = pub.serial
      <4>1. PICK k \in Places : LastWrite(k, "body", Slot(p)) /\ buffer'[j] = buffer[k]
        BY <1>1, <1>2, <3>1, RemovalKeepsLast
      <4> QED
        BY <2>1, <4>1 DEF BodySettles
    <3>2. ASSUME Untouched("body", Slot(p))'
          PROVE  ring'[Slot(p)].id = p /\ ring'[Slot(p)].serial = pub.serial
      <4>1. Untouched("body", Slot(p))
        BY <1>1, <1>2, <3>2, RemovalKeepsLast DEF LastWrite, Writes
      <4> QED
        BY <1>5, <2>1, <2>2, <4>1 DEF BodySettles
    <3> QED
      BY <1>2, <3>1, <3>2 DEF BodySettles, Slot
  <2>4. HeaderSettles(p)'
    <3>1. ASSUME NEW j \in Places', LastWrite(j, "header", Slot(p))'
          PROVE  buffer'[j].serial = pub.serial
      <4>1. PICK k \in Places : LastWrite(k, "header", Slot(p)) /\ buffer'[j] = buffer[k]
        BY <1>1, <1>2, <3>1, RemovalKeepsLast
      <4> QED
        BY <2>1, <4>1 DEF HeaderSettles
    <3>2. ASSUME Untouched("header", Slot(p))'
          PROVE  ring'[Slot(p)].header = pub.serial
      <4>1. Untouched("header", Slot(p)) \/ LastWrite(i, "header", Slot(p))
        BY <1>1, <1>2, <3>2, RemovalKeepsLast
      <4>2. CASE Untouched("header", Slot(p))
        <5>1. slot # Slot(p)
          BY <1>2, <1>3, <4>2 DEF Untouched, Writes
        <5> QED
          BY <1>5, <2>1, <2>2, <4>2, <5>1 DEF HeaderSettles
      <4>3. CASE LastWrite(i, "header", Slot(p))
        <5>1. slot = Slot(p)
          BY <1>3, <4>3 DEF LastWrite, Writes
        <5> QED
          BY <1>5, <2>1, <4>3, <5>1 DEF HeaderSettles
      <4> QED
        BY <4>1, <4>2, <4>3
    <3> QED
      BY <1>2, <3>1, <3>2 DEF HeaderSettles, Slot
  <2> QED
    BY <2>3, <2>4
<1>9. FirstHeaderLast'
  <2> SUFFICES ASSUME Len(buffer') > 0 PROVE FirstHeaderLast'
    BY DEF FirstHeaderLast
  <2>1. /\ pub.n > 0
        /\ buffer[Len(buffer)] = HeaderStore(pub.base, pub.serial)
        /\ ring[Slot(pub.base)].header # pub.serial
        /\ \A j \in Places : j < Len(buffer) =>
             (Writes(buffer[j], "header", Slot(pub.base)) => buffer[j].serial # pub.serial)
    BY <1>1, <1>6, <1>7 DEF FirstHeaderLast
  (* The first header is a release: it leaves only when it is alone.       *)
  <2>2. i < Len(buffer)
    <3> SUFFICES ASSUME i = Len(buffer) PROVE FALSE
      BY <1>7 DEF Places
    <3>1. buffer[i].release
      BY <2>1 DEF HeaderStore
    <3>2. 1 \in 1..(i - 1)
      BY <1>7
    <3> QED
      BY <1>2, <3>1, <3>2 DEF MayDrain
  <2>3. ring'[Slot(pub.base)].header # pub.serial
    <3>1. Slot(pub.base) \in 0..(RingSlots - 1)
      BY <1>1, SlotInRing DEF TypeOK
    <3>2. CASE slot = Slot(pub.base)
      <4>1. buffer[i].serial # pub.serial
        BY <1>2, <1>3, <2>1, <2>2, <3>2 DEF Writes
      <4> QED
        BY <1>5, <3>2, <4>1
    <3>3. CASE slot # Slot(pub.base)
      BY <1>5, <2>1, <3>1, <3>3
    <3> QED
      BY <3>2, <3>3
  <2> QED
    BY <1>1, <1>2, <1>6, <2>2, <2>3, FirstHeaderKept
<1>10. NoLaterHeader'
  <2>1. DOMAIN ring = 0..(RingSlots - 1) /\ DOMAIN ring' = 0..(RingSlots - 1)
    BY <1>1, <1>5, RingType
  <2>2. buffer[i].serial <= pub.serial
    BY <1>1, <1>6 DEF PacketStoresOnly
  <2>3. ASSUME NEW s \in 0..(RingSlots - 1) PROVE ring'[s].header <= pub.serial
    <3>1. CASE s = slot
      BY <1>5, <2>2, <3>1
    <3>2. CASE s # slot
      BY <1>1, <1>5, <2>1, <3>2 DEF NoLaterHeader
    <3> QED
      BY <3>1, <3>2
  <2> QED
    BY <1>2, <2>1, <2>3 DEF NoLaterHeader
<1> QED
  BY <1>6, <1>8, <1>9, <1>10 DEF QueueInv

-----------------------------------------------------------------------------
(* The indexes are announced from an empty buffer: then the chain is whole.*)
LEMMA EmptySettled ==
  ASSUME Settles, TypeOK,
         \A i \in Places : buffer[i].to \notin {"body", "header"}
  PROVE  \A p \in Chain : p \in Nat /\ Complete(p, pub.serial)
<1> SUFFICES ASSUME NEW p \in Chain PROVE p \in Nat /\ Complete(p, pub.serial)
  OBVIOUS
<1>1. BodySettles(p) /\ HeaderSettles(p)
  BY DEF Settles
<1>2. Untouched("body", Slot(p)) /\ Untouched("header", Slot(p))
  BY DEF Untouched, Writes
<1>3. /\ ring[Slot(p)].id = p /\ ring[Slot(p)].serial = pub.serial
      /\ ring[Slot(p)].header = pub.serial
  BY <1>1, <1>2 DEF BodySettles, HeaderSettles
<1>4. p \in Nat /\ ring[Slot(p)] \in Packet
  BY SlotInRing, RingType DEF Chain, TypeOK
<1>5. ring[Slot(p)] = [id |-> ring[Slot(p)].id, serial |-> ring[Slot(p)].serial,
                       header |-> ring[Slot(p)].header]
  BY <1>4 DEF Packet
<1> QED
  BY <1>3, <1>4, <1>5 DEF Complete

(* With no packet store in the buffer, a whole chain is a settled one.     *)
LEMMA SettledWhenQuiet ==
  ASSUME \A p \in Chain : Complete(p, pub.serial),
         ring' = ring, pub' = pub,
         \A i \in 1..Len(buffer') : buffer'[i].to \notin {"body", "header"}
  PROVE  Settles'
<1> SUFFICES ASSUME NEW p \in Chain PROVE BodySettles(p)' /\ HeaderSettles(p)'
  BY DEF Settles, Chain
<1>1. /\ ring[Slot(p)].id = p /\ ring[Slot(p)].serial = pub.serial
      /\ ring[Slot(p)].header = pub.serial
  <2>1. Complete(p, pub.serial)
    OBVIOUS
  <2> QED
    BY <2>1 DEF Complete
<1>2. \A i \in Places' : ~LastWrite(i, "body", Slot(p))' /\ ~LastWrite(i, "header", Slot(p))'
  BY DEF Places, LastWrite, Writes, Slot
<1> QED
  BY <1>1, <1>2 DEF BodySettles, HeaderSettles, Slot

LEMMA WriteIndexesInv ==
  ASSUME QueueInv, WriteIndexes
  PROVE  QueueInv'
<1>1. /\ TypeOK /\ Indexes /\ Settles /\ NoLaterHeader /\ Histories /\ AnnouncedComplete
  BY DEF QueueInv
<1>2. /\ hostPc = "packets" /\ buffer = <<>> /\ hostPc' = "index"
      /\ buffer' = <<MailboxStore(pub.base + pub.n), DoorbellStore(pub.base + pub.n - 1)>>
      /\ writeIndex' = writeIndex /\ pub' = pub /\ ring' = ring
      /\ mailbox' = mailbox /\ doorbell' = doorbell /\ awake' = awake
      /\ readIndex' = readIndex /\ readPtr' = readPtr
      /\ accepted' = accepted /\ executed' = executed
  BY DEF WriteIndexes
<1>3. /\ pub.n > 0 /\ pub.n \in Nat /\ pub.base \in Nat /\ pub.serial > 0
      /\ pub.serial \in 1..MaxPublications
      /\ mailbox = writeIndex /\ doorbell = writeIndex
  BY <1>1, <1>2, AqlAssumption DEF Indexes, TypeOK
<1>4. buffer' \in Seq(Store)
  <2>1. pub.base + pub.n \in Nat /\ pub.base + pub.n - 1 \in Nat
    BY <1>3
  <2>2. /\ MailboxStore(pub.base + pub.n) \in Store
        /\ DoorbellStore(pub.base + pub.n - 1) \in Store
    BY <1>3, <2>1, StoresTyped
  <2> QED
    BY <1>2, <2>2
<1>5. TypeOK'
  BY <1>1, <1>2, <1>4 DEF TypeOK
<1>6. Indexes'
  BY <1>1, <1>2 DEF Indexes
<1>7. Settles'
  <2>1. \A i \in Places : buffer[i].to \notin {"body", "header"}
    BY <1>2 DEF Places
  <2>2. \A p \in Chain : Complete(p, pub.serial)
    BY <1>1, <2>1, EmptySettled
  <2>3. \A i \in 1..Len(buffer') : buffer'[i].to \notin {"body", "header"}
    BY <1>2 DEF MailboxStore, DoorbellStore
  <2> QED
    BY <1>2, <2>2, <2>3, SettledWhenQuiet
<1>8. PacketStoresOnly' /\ FirstHeaderLast'
  BY <1>2 DEF PacketStoresOnly, FirstHeaderLast
<1>9. IndexStoresOnly'
  BY <1>2, <1>3 DEF IndexStoresOnly, MailboxStore, DoorbellStore
<1>10. NoLaterHeader' /\ Histories' /\ AnnouncedComplete'
  BY <1>1, <1>2 DEF NoLaterHeader, Histories, AnnouncedComplete, Complete, Slot
<1> QED
  BY <1>5, <1>6, <1>7, <1>8, <1>9, <1>10 DEF QueueInv

(* Which stores are still under way once the indexes have been written.    *)
LEMMA IndexPhase ==
  ASSUME QueueInv, NEW i \in Places, buffer[i].to \in {"mailbox", "doorbell"}
  PROVE  /\ hostPc = "index"
         /\ \A j \in Places : buffer[j].to \notin {"body", "header"}
         /\ \/ /\ buffer = <<MailboxStore(pub.base + pub.n),
                             DoorbellStore(pub.base + pub.n - 1)>>
               /\ mailbox = writeIndex /\ doorbell = writeIndex
            \/ /\ buffer = <<DoorbellStore(pub.base + pub.n - 1)>>
               /\ mailbox = pub.base + pub.n /\ doorbell = writeIndex
<1>1. hostPc = "index"
  BY DEF QueueInv, PacketStoresOnly
<1>2. \/ /\ buffer = <<MailboxStore(pub.base + pub.n), DoorbellStore(pub.base + pub.n - 1)>>
         /\ mailbox = writeIndex /\ doorbell = writeIndex
      \/ /\ buffer = <<DoorbellStore(pub.base + pub.n - 1)>>
         /\ mailbox = pub.base + pub.n /\ doorbell = writeIndex
      \/ buffer = <<>>
  BY <1>1 DEF QueueInv, IndexStoresOnly
<1>3. buffer # <<>>
  BY DEF Places
<1>4. \A j \in Places : buffer[j].to \notin {"body", "header"}
  BY <1>2 DEF Places, MailboxStore, DoorbellStore
<1> QED
  BY <1>1, <1>2, <1>3, <1>4

LEMMA DrainMailboxInv ==
  ASSUME QueueInv, NEW i \in Places, DrainMailbox(i)
  PROVE  QueueInv'
<1>1. /\ TypeOK /\ Indexes /\ Settles /\ NoLaterHeader /\ Histories /\ AnnouncedComplete
  BY DEF QueueInv
<1>2. /\ buffer[i].to = "mailbox" /\ buffer' = RemoveAt(buffer, i) /\ mailbox' = buffer[i].id
      /\ accepted' = accepted \o [k \in 1..(buffer[i].id - mailbox) |-> pub.serial]
      /\ writeIndex' = writeIndex /\ hostPc' = hostPc /\ pub' = pub /\ ring' = ring
      /\ doorbell' = doorbell /\ awake' = awake
      /\ readIndex' = readIndex /\ readPtr' = readPtr /\ executed' = executed
  BY DEF DrainMailbox
<1>3. /\ hostPc = "index"
      /\ \A j \in Places : buffer[j].to \notin {"body", "header"}
      /\ buffer = <<MailboxStore(pub.base + pub.n), DoorbellStore(pub.base + pub.n - 1)>>
      /\ mailbox = writeIndex /\ doorbell = writeIndex
  BY <1>2, IndexPhase DEF DoorbellStore, Places
<1>4. i = 1 /\ buffer[i].id = pub.base + pub.n
  BY <1>2, <1>3 DEF Places, MailboxStore, DoorbellStore
<1>5. /\ pub.n > 0 /\ pub.n \in Nat /\ pub.base \in Nat /\ pub.base = writeIndex
      /\ pub.serial \in 1..MaxPublications
      /\ readIndex \in Nat /\ mailbox \in Nat /\ doorbell \in Nat
      /\ readIndex <= doorbell /\ doorbell <= mailbox /\ readPtr <= readIndex
      /\ pub.base + pub.n <= readPtr + RingSlots
  BY <1>1, <1>3, AqlAssumption DEF Indexes, TypeOK
<1>6. buffer' = <<DoorbellStore(pub.base + pub.n - 1)>> /\ buffer' \in Seq(Store)
  <2>1. /\ buffer' \in Seq(Store) /\ Len(buffer') = Len(buffer) - 1
        /\ \A j \in 1..Len(buffer') : buffer'[j] = buffer[IF j < i THEN j ELSE j + 1]
    BY <1>1, <1>2, Removal
  <2>2. Len(buffer) = 2 /\ buffer[2] = DoorbellStore(pub.base + pub.n - 1)
    BY <1>3
  <2>3. Len(buffer') = 1 /\ buffer'[1] = buffer[2]
    BY <1>4, <2>1, <2>2
  <2> QED
    BY <2>1, <2>2, <2>3
<1>7. /\ accepted' \in Seq(1..MaxPublications)
      /\ Len(accepted') = mailbox'
      /\ \A p \in 1..mailbox : accepted'[p] = accepted[p]
      /\ \A p \in (mailbox + 1)..mailbox' : accepted'[p] = pub.serial
  <2>1. PICK more : more = [k \in 1..pub.n |-> pub.serial]
    OBVIOUS
  <2>2. /\ more \in Seq(1..MaxPublications) /\ Len(more) = pub.n
        /\ \A k \in 1..pub.n : more[k] = pub.serial
    <3>1. more \in [1..pub.n -> 1..MaxPublications]
      BY <1>5, <2>1
    <3>2. more \in Seq(1..MaxPublications) /\ Len(more) = pub.n
      BY <1>5, <3>1, FunctionIsSeq
    <3> QED
      BY <2>1, <3>2
  <2>3. accepted' = accepted \o more
    <3>1. buffer[i].id - mailbox = pub.n
      BY <1>3, <1>4, <1>5
    <3> QED
      BY <1>2, <2>1, <3>1
  <2>4. accepted \in Seq(1..MaxPublications) /\ Len(accepted) = mailbox
    BY <1>1 DEF TypeOK, Histories
  <2>5. accepted' \in Seq(1..MaxPublications) /\ Joins(accepted', accepted, more)
    BY <2>2, <2>3, <2>4, Concat
  <2>6. mailbox' = mailbox + pub.n
    BY <1>2, <1>3, <1>4, <1>5
  <2>7. ASSUME NEW p \in (mailbox + 1)..mailbox' PROVE accepted'[p] = pub.serial
    <3>1. p \in 1..(Len(accepted) + Len(more)) /\ ~(p <= Len(accepted))
          /\ p - Len(accepted) \in 1..pub.n
      BY <1>5, <2>2, <2>4, <2>6
    <3>2. accepted'[p] = more[p - Len(accepted)]
      BY <2>5, <3>1 DEF Joins
    <3> QED
      BY <2>2, <3>1, <3>2
  <2>8. ASSUME NEW p \in 1..mailbox PROVE accepted'[p] = accepted[p]
    <3>1. p \in 1..(Len(accepted) + Len(more)) /\ p <= Len(accepted)
      BY <1>5, <2>2, <2>4
    <3> QED
      BY <2>5, <3>1 DEF Joins
  <2> QED
    BY <2>2, <2>4, <2>5, <2>6, <2>7, <2>8 DEF Joins
<1>8. \A p \in Chain : p \in Nat /\ Complete(p, pub.serial)
  BY <1>1, <1>3, EmptySettled
<1>9. TypeOK'
  <2>1. mailbox' \in Nat
    BY <1>2, <1>4, <1>5
  <2> QED
    BY <1>1, <1>2, <1>6, <1>7, <2>1 DEF TypeOK
<1>10. Indexes'
  BY <1>1, <1>2, <1>3, <1>4, <1>5 DEF Indexes
<1>11. Settles'
  <2>1. \A j \in 1..Len(buffer') : buffer'[j].to \notin {"body", "header"}
    BY <1>6 DEF DoorbellStore
  <2> QED
    BY <1>2, <1>8, <2>1, SettledWhenQuiet
<1>12. PacketStoresOnly' /\ FirstHeaderLast'
  BY <1>2, <1>3 DEF PacketStoresOnly, FirstHeaderLast
<1>13. IndexStoresOnly'
  BY <1>2, <1>3, <1>4, <1>6 DEF IndexStoresOnly, DoorbellStore
<1>14. NoLaterHeader'
  BY <1>1, <1>2 DEF NoLaterHeader
<1>15. Histories'
  <2>1. \A p \in 1..readIndex : executed[p] = accepted[p]
    BY <1>1 DEF Histories
  <2>2. \A p \in 1..readIndex : p \in 1..mailbox
    BY <1>5
  <2> QED
    BY <1>1, <1>2, <1>7, <2>1, <2>2 DEF Histories
<1>16. AnnouncedComplete'
  <2> SUFFICES ASSUME NEW p \in readIndex..(mailbox' - 1)
               PROVE  Complete(p, accepted'[p + 1])
    BY <1>2 DEF AnnouncedComplete, Complete, Slot
  <2>1. CASE p < mailbox
    <3>1. p \in readIndex..(mailbox - 1) /\ p + 1 \in 1..mailbox
      BY <1>5, <2>1
    <3> QED
      BY <1>1, <1>7, <3>1 DEF AnnouncedComplete
  <2>2. CASE p >= mailbox
    <3>1. p \in Chain /\ p + 1 \in (mailbox + 1)..mailbox'
      BY <1>2, <1>3, <1>4, <1>5, <2>2 DEF Chain
    <3> QED
      BY <1>7, <1>8, <3>1
  <2> QED
    BY <1>5, <2>1, <2>2
<1> QED
  BY <1>9, <1>10, <1>11, <1>12, <1>13, <1>14, <1>15, <1>16 DEF QueueInv

LEMMA DrainDoorbellInv ==
  ASSUME QueueInv, NEW i \in Places, DrainDoorbell(i)
  PROVE  QueueInv'
<1>1. /\ TypeOK /\ Indexes /\ Settles /\ NoLaterHeader /\ Histories /\ AnnouncedComplete
  BY DEF QueueInv
<1>2. /\ MayDrain(i) /\ buffer[i].to = "doorbell" /\ buffer' = RemoveAt(buffer, i)
      /\ doorbell' = buffer[i].id + 1 /\ awake' = TRUE
      /\ writeIndex' = writeIndex /\ hostPc' = hostPc /\ pub' = pub /\ ring' = ring
      /\ mailbox' = mailbox /\ readIndex' = readIndex /\ readPtr' = readPtr
      /\ accepted' = accepted /\ executed' = executed
  BY DEF DrainDoorbell
<1>3. /\ hostPc = "index"
      /\ \A j \in Places : buffer[j].to \notin {"body", "header"}
      /\ buffer = <<DoorbellStore(pub.base + pub.n - 1)>>
      /\ mailbox = pub.base + pub.n /\ doorbell = writeIndex
  (* The doorbell is a release: not before the mailbox.                    *)
  <2>1. ASSUME buffer = <<MailboxStore(pub.base + pub.n), DoorbellStore(pub.base + pub.n - 1)>>
        PROVE  FALSE
    <3>1. i = 2 /\ buffer[i].release
      BY <1>2, <2>1 DEF Places, MailboxStore, DoorbellStore
    <3> QED
      BY <1>2, <3>1 DEF MayDrain
  <2> QED
    BY <1>2, <2>1, IndexPhase
<1>4. i = 1 /\ buffer[i].id = pub.base + pub.n - 1
  BY <1>3 DEF Places, DoorbellStore
<1>5. /\ pub.n > 0 /\ pub.n \in Nat /\ pub.base \in Nat /\ pub.base = writeIndex
      /\ readIndex \in Nat /\ readIndex <= doorbell
  BY <1>1, <1>3 DEF Indexes, TypeOK
<1>6. buffer' = <<>>
  <2>1. buffer' \in Seq(Store) /\ Len(buffer') = 0
    BY <1>1, <1>2, <1>3, Removal
  <2> QED
    BY <2>1
<1>7. doorbell' = pub.base + pub.n
  BY <1>2, <1>4, <1>5
<1>8. \A p \in Chain : p \in Nat /\ Complete(p, pub.serial)
  BY <1>1, <1>3, EmptySettled
<1>9. TypeOK'
  BY <1>1, <1>2, <1>5, <1>6, <1>7 DEF TypeOK
<1>10. Indexes'
  BY <1>1, <1>2, <1>3, <1>5, <1>7 DEF Indexes
<1>11. Settles'
  <2>1. \A j \in 1..Len(buffer') : buffer'[j].to \notin {"body", "header"}
    BY <1>6
  <2> QED
    BY <1>2, <1>8, <2>1, SettledWhenQuiet
<1>12. PacketStoresOnly' /\ FirstHeaderLast'
  BY <1>2, <1>3 DEF PacketStoresOnly, FirstHeaderLast
<1>13. IndexStoresOnly'
  BY <1>2, <1>3, <1>6, <1>7 DEF IndexStoresOnly
<1>14. NoLaterHeader' /\ Histories' /\ AnnouncedComplete'
  BY <1>1, <1>2 DEF NoLaterHeader, Histories, AnnouncedComplete, Complete, Slot
<1> QED
  BY <1>9, <1>10, <1>11, <1>12, <1>13, <1>14 DEF QueueInv

(* Steps that leave the buffer, the ring and the publication alone.        *)
LEMMA PacketsUnchanged ==
  ASSUME QueueInv, UNCHANGED <<buffer, ring, pub>>
  PROVE  /\ Settles' /\ NoLaterHeader'
         /\ (hostPc' # "index" => hostPc # "index" \/ buffer = <<>>) => FirstHeaderLast'
<1>1. Settles'
  BY DEF QueueInv, Settles, Chain, BodySettles, HeaderSettles, LastWrite, Untouched,
         Places, Writes, Slot
<1>2. NoLaterHeader'
  BY DEF QueueInv, NoLaterHeader
<1>3. ASSUME hostPc' # "index" => hostPc # "index" \/ buffer = <<>>
      PROVE  FirstHeaderLast'
  BY <1>3 DEF QueueInv, FirstHeaderLast, Places, Writes, Slot, HeaderStore
<1> QED
  BY <1>1, <1>2, <1>3

LEMMA AbandonPacketsInv ==
  ASSUME QueueInv, AbandonPackets
  PROVE  QueueInv'
<1>1. TypeOK /\ Indexes /\ PacketStoresOnly /\ Histories /\ AnnouncedComplete
  BY DEF QueueInv
<1>2. /\ hostPc = "packets" /\ hostPc' = "idle"
      /\ writeIndex' = writeIndex /\ pub' = pub /\ buffer' = buffer /\ ring' = ring
      /\ mailbox' = mailbox /\ doorbell' = doorbell /\ awake' = awake
      /\ readIndex' = readIndex /\ readPtr' = readPtr
      /\ accepted' = accepted /\ executed' = executed
  BY DEF AbandonPackets
<1>3. TypeOK' /\ Indexes' /\ Histories' /\ IndexStoresOnly'
  BY <1>1, <1>2 DEF TypeOK, Indexes, Histories, IndexStoresOnly
<1>4. PacketStoresOnly' /\ AnnouncedComplete'
  BY <1>1, <1>2 DEF PacketStoresOnly, Places, AnnouncedComplete, Complete, Slot
<1>5. Settles' /\ NoLaterHeader' /\ FirstHeaderLast'
  BY <1>2, PacketsUnchanged
<1> QED
  BY <1>3, <1>4, <1>5 DEF QueueInv

LEMMA PublishDoneInv ==
  ASSUME QueueInv, PublishDone
  PROVE  QueueInv'
<1>1. TypeOK /\ Indexes /\ IndexStoresOnly /\ Histories /\ AnnouncedComplete
  BY DEF QueueInv
<1>2. /\ hostPc = "index" /\ buffer = <<>> /\ hostPc' = "idle"
      /\ writeIndex' = pub.base + pub.n
      /\ pub' = pub /\ buffer' = buffer /\ ring' = ring
      /\ mailbox' = mailbox /\ doorbell' = doorbell /\ awake' = awake
      /\ readIndex' = readIndex /\ readPtr' = readPtr
      /\ accepted' = accepted /\ executed' = executed
  BY DEF PublishDone
<1>3. mailbox = pub.base + pub.n /\ doorbell = pub.base + pub.n
  BY <1>1, <1>2 DEF IndexStoresOnly
<1>4. TypeOK'
  BY <1>1, <1>2 DEF TypeOK
<1>5. Indexes' /\ Histories' /\ IndexStoresOnly'
  BY <1>1, <1>2, <1>3 DEF Indexes, Histories, IndexStoresOnly
<1>6. PacketStoresOnly' /\ AnnouncedComplete'
  BY <1>1, <1>2 DEF PacketStoresOnly, Places, AnnouncedComplete, Complete, Slot
<1>7. Settles' /\ NoLaterHeader' /\ FirstHeaderLast'
  BY <1>2, PacketsUnchanged
<1> QED
  BY <1>4, <1>5, <1>6, <1>7 DEF QueueInv

-----------------------------------------------------------------------------
(* The processor.                                                          *)
LEMMA FetchInv ==
  ASSUME QueueInv, Fetch
  PROVE  QueueInv'
<1>1. TypeOK /\ Indexes /\ PacketStoresOnly /\ IndexStoresOnly /\ Histories /\ AnnouncedComplete
  BY DEF QueueInv
<1>2. /\ readIndex < mailbox /\ readIndex < doorbell
      /\ executed' = Append(executed, ring[Slot(readIndex)].serial)
      /\ readIndex' = readIndex + 1
      /\ writeIndex' = writeIndex /\ hostPc' = hostPc /\ pub' = pub /\ buffer' = buffer
      /\ ring' = ring /\ mailbox' = mailbox /\ doorbell' = doorbell /\ awake' = awake
      /\ readPtr' = readPtr /\ accepted' = accepted
  BY DEF Fetch, Available
<1>3. /\ readIndex \in Nat /\ mailbox \in Nat /\ doorbell \in Nat /\ readPtr \in Nat
      /\ Len(accepted) = mailbox /\ Len(executed) = readIndex
      /\ accepted \in Seq(1..MaxPublications) /\ executed \in Seq(1..MaxPublications)
  BY <1>1 DEF TypeOK, Histories
<1>4. /\ ring[Slot(readIndex)].serial = accepted[readIndex + 1]
      /\ accepted[readIndex + 1] \in 1..MaxPublications
  <2>1. readIndex \in readIndex..(mailbox - 1) /\ readIndex + 1 \in 1..Len(accepted)
    BY <1>2, <1>3
  <2>2. Complete(readIndex, accepted[readIndex + 1])
    BY <1>1, <2>1 DEF AnnouncedComplete
  <2>3. ring[Slot(readIndex)].serial = accepted[readIndex + 1]
    BY <2>2 DEF Complete
  <2>4. accepted[readIndex + 1] \in 1..MaxPublications
    BY <1>3, <2>1, ElementOfSeq
  <2> QED
    BY <2>3, <2>4
<1>5. /\ executed' \in Seq(1..MaxPublications) /\ Len(executed') = readIndex + 1
      /\ executed'[readIndex + 1] = accepted[readIndex + 1]
      /\ \A i \in 1..readIndex : executed'[i] = executed[i]
  BY <1>2, <1>3, <1>4
<1>6. TypeOK'
  BY <1>1, <1>2, <1>3, <1>5 DEF TypeOK
<1>7. Indexes'
  BY <1>1, <1>2, <1>3 DEF Indexes
<1>8. PacketStoresOnly' /\ IndexStoresOnly'
  BY <1>1, <1>2 DEF PacketStoresOnly, IndexStoresOnly, Places, MailboxStore, DoorbellStore
<1>9. Histories'
  <2>1. ASSUME NEW i \in 1..(readIndex + 1) PROVE executed'[i] = accepted[i]
    <3>1. CASE i = readIndex + 1
      BY <1>5, <3>1
    <3>2. CASE i # readIndex + 1
      <4>1. i \in 1..readIndex
        BY <1>3, <3>2
      <4> QED
        BY <1>1, <1>5, <4>1 DEF Histories
    <3> QED
      BY <3>1, <3>2
  <2> QED
    BY <1>2, <1>3, <1>5, <2>1 DEF Histories
<1>10. AnnouncedComplete'
  <2>1. \A p \in readIndex'..(mailbox' - 1) : p \in readIndex..(mailbox - 1)
    BY <1>2, <1>3
  <2> QED
    BY <1>1, <1>2, <2>1 DEF AnnouncedComplete, Complete, Slot
<1>11. Settles' /\ NoLaterHeader' /\ FirstHeaderLast'
  BY <1>2, PacketsUnchanged
<1> QED
  BY <1>6, <1>7, <1>8, <1>9, <1>10, <1>11 DEF QueueInv

LEMMA ReportReadPtrInv ==
  ASSUME QueueInv, ReportReadPtr
  PROVE  QueueInv'
<1>1. TypeOK /\ Indexes /\ PacketStoresOnly /\ IndexStoresOnly /\ Histories /\ AnnouncedComplete
  BY DEF QueueInv
<1>2. /\ readPtr < readIndex /\ readPtr' = readIndex
      /\ writeIndex' = writeIndex /\ hostPc' = hostPc /\ pub' = pub /\ buffer' = buffer
      /\ ring' = ring /\ mailbox' = mailbox /\ doorbell' = doorbell /\ awake' = awake
      /\ readIndex' = readIndex /\ accepted' = accepted /\ executed' = executed
  BY DEF ReportReadPtr
<1>3. /\ readIndex \in Nat /\ readPtr \in Nat /\ RingSlots \in Nat
      /\ pub.base \in Nat /\ pub.n \in Nat
  BY <1>1, AqlAssumption DEF TypeOK
<1>4. TypeOK'
  BY <1>1, <1>2 DEF TypeOK
<1>5. Indexes'
  BY <1>1, <1>2, <1>3 DEF Indexes
<1>6. PacketStoresOnly'
  <2>1. \A i \in Places : buffer[i].id \in Nat
    BY <1>1, StoreFields
  <2>2. \A i \in Places : buffer[i].id < readPtr + RingSlots =>
                          buffer[i].id < readIndex + RingSlots
    BY <1>2, <1>3, <2>1
  <2> QED
    BY <1>1, <1>2, <2>2 DEF PacketStoresOnly, Places
<1>7. IndexStoresOnly' /\ Histories' /\ AnnouncedComplete'
  BY <1>1, <1>2 DEF IndexStoresOnly, Histories, AnnouncedComplete, Complete, Slot,
                    MailboxStore, DoorbellStore
<1>8. Settles' /\ NoLaterHeader' /\ FirstHeaderLast'
  BY <1>2, PacketsUnchanged
<1> QED
  BY <1>4, <1>5, <1>6, <1>7, <1>8 DEF QueueInv

LEMMA SleepInv ==
  ASSUME QueueInv, Sleep
  PROVE  QueueInv'
<1>1. TypeOK /\ Indexes /\ PacketStoresOnly /\ IndexStoresOnly /\ Histories /\ AnnouncedComplete
  BY DEF QueueInv
<1>2. /\ awake' = FALSE
      /\ writeIndex' = writeIndex /\ hostPc' = hostPc /\ pub' = pub /\ buffer' = buffer
      /\ ring' = ring /\ mailbox' = mailbox /\ doorbell' = doorbell
      /\ readIndex' = readIndex /\ readPtr' = readPtr
      /\ accepted' = accepted /\ executed' = executed
  BY DEF Sleep
<1>3. TypeOK'
  BY <1>1, <1>2 DEF TypeOK
<1>4. Indexes' /\ PacketStoresOnly' /\ IndexStoresOnly' /\ Histories' /\ AnnouncedComplete'
  BY <1>1, <1>2 DEF Indexes, PacketStoresOnly, IndexStoresOnly, Histories,
                    AnnouncedComplete, Complete, Slot, Places, MailboxStore, DoorbellStore
<1>5. Settles' /\ NoLaterHeader' /\ FirstHeaderLast'
  BY <1>2, PacketsUnchanged
<1> QED
  BY <1>3, <1>4, <1>5 DEF QueueInv

-----------------------------------------------------------------------------
LEMMA QueueInvInit ==
  ASSUME Init
  PROVE  QueueInv
<1>1. RingSlots \in Nat \ {0} /\ MaxChain \in 1..RingSlots /\ MaxPublications \in Nat
  BY AqlAssumption
<1>2. /\ writeIndex = 0 /\ hostPc = "idle" /\ pub = [serial |-> 0, base |-> 0, n |-> 0]
      /\ buffer = <<>> /\ ring = [s \in 0..(RingSlots - 1) |-> EmptySlot]
      /\ mailbox = 0 /\ doorbell = 0 /\ awake = FALSE /\ readIndex = 0 /\ readPtr = 0
      /\ accepted = <<>> /\ executed = <<>>
  BY DEF Init
<1>3. TypeOK
  <2>1. EmptySlot \in Packet /\ 0 \in 0..MaxPublications /\ 0 \in 0..MaxChain
    BY <1>1 DEF EmptySlot, Packet
  <2>2. pub \in [serial : 0..MaxPublications, base : Nat, n : 0..MaxChain]
    BY <1>2, <2>1
  <2>3. /\ buffer \in Seq(Store) /\ accepted \in Seq(1..MaxPublications)
        /\ executed \in Seq(1..MaxPublications)
    BY <1>2
  <2>4. ring \in [0..(RingSlots - 1) -> Packet]
    BY <1>2, <2>1
  <2> QED
    BY <1>2, <2>2, <2>3, <2>4 DEF TypeOK
<1>4. Indexes /\ PacketStoresOnly /\ IndexStoresOnly /\ FirstHeaderLast
  BY <1>1, <1>2 DEF Indexes, PacketStoresOnly, IndexStoresOnly, FirstHeaderLast, Places
<1>5. Settles
  BY <1>2 DEF Settles, Chain
<1>6. NoLaterHeader
  BY <1>2 DEF NoLaterHeader, EmptySlot
<1>7. Histories /\ AnnouncedComplete
  BY <1>2 DEF Histories, AnnouncedComplete
<1> QED
  BY <1>3, <1>4, <1>5, <1>6, <1>7 DEF QueueInv

LEMMA QueueInvNext ==
  ASSUME QueueInv, [Next]_vars
  PROVE  QueueInv'
<1>1. CASE Host
  BY <1>1, WritePacketsInv, AbandonPacketsInv, WriteIndexesInv, PublishDoneInv DEF Host
<1>2. CASE Drain
  <2>1. PICK i \in Places :
          DrainBody(i) \/ DrainHeader(i) \/ DrainMailbox(i) \/ DrainDoorbell(i)
    <3>1. DOMAIN buffer = Places
      BY DEF QueueInv, TypeOK, Places
    <3> QED
      BY <1>2, <3>1 DEF Drain
  <2> QED
    BY <2>1, DrainBodyInv, DrainHeaderInv, DrainMailboxInv, DrainDoorbellInv
<1>3. CASE Processor
  BY <1>3, FetchInv, ReportReadPtrInv, SleepInv DEF Processor
<1>4. CASE UNCHANGED vars
  <2>1. /\ writeIndex' = writeIndex /\ hostPc' = hostPc /\ pub' = pub /\ buffer' = buffer
        /\ ring' = ring /\ mailbox' = mailbox /\ doorbell' = doorbell /\ awake' = awake
        /\ readIndex' = readIndex /\ readPtr' = readPtr
        /\ accepted' = accepted /\ executed' = executed
    BY <1>4 DEF vars
  <2>2. TypeOK' /\ Indexes' /\ PacketStoresOnly' /\ IndexStoresOnly' /\ Histories'
        /\ AnnouncedComplete'
    BY <2>1 DEF QueueInv, TypeOK, Indexes, PacketStoresOnly, IndexStoresOnly, Histories,
                AnnouncedComplete, Complete, Slot, Places, MailboxStore, DoorbellStore
  <2>3. Settles' /\ NoLaterHeader' /\ FirstHeaderLast'
    BY <2>1, PacketsUnchanged
  <2> QED
    BY <2>2, <2>3 DEF QueueInv
<1> QED
  BY <1>1, <1>2, <1>3, <1>4 DEF Next

THEOREM QueueInvariant == Spec => []QueueInv
<1>1. Init => QueueInv
  BY QueueInvInit
<1>2. QueueInv /\ [Next]_vars => QueueInv'
  BY QueueInvNext
<1> QED
  BY <1>1, <1>2, PTL DEF Spec

(* Types: every value stays in its range, for any constants.               *)
THEOREM TypeCorrect == Spec => []TypeOK
<1>1. QueueInv => TypeOK
  BY DEF QueueInv
<1> QED
  BY <1>1, QueueInvariant, PTL

(* The processor never fetches a stale, torn or abandoned packet: what the *)
(* mailbox announces is in the ring in full, in whatever order the host's  *)
(* stores arrive and whatever an abandoned publication left behind.        *)
THEOREM AnnouncedPacketsComplete == Spec => []AnnouncedComplete
<1>1. QueueInv => AnnouncedComplete
  BY DEF QueueInv
<1> QED
  BY <1>1, QueueInvariant, PTL

(* A processor that sees the first packet's valid header sees the chain.   *)
THEOREM ChainVisible == Spec => []ChainVisibleWithFirstHeader
<1>1. QueueInv => ChainVisibleWithFirstHeader
  <2> SUFFICES ASSUME QueueInv, pub.n > 0, ring[Slot(pub.base)].header = pub.serial,
                      NEW k \in 0..(pub.n - 1)
               PROVE  Complete(pub.base + k, pub.serial)
    BY DEF ChainVisibleWithFirstHeader
  <2>1. TypeOK /\ Settles /\ IndexStoresOnly /\ FirstHeaderLast
    BY DEF QueueInv
  <2>2. \A i \in Places : buffer[i].to \notin {"body", "header"}
    <3>1. CASE hostPc = "index"
      BY <2>1, <3>1 DEF IndexStoresOnly, Places, MailboxStore, DoorbellStore
    <3>2. CASE hostPc # "index"
      <4>1. ~(Len(buffer) > 0)
        BY <2>1, <3>2 DEF FirstHeaderLast
      <4> QED
        BY <2>1, <4>1, BufferType DEF Places
    <3> QED
      BY <3>1, <3>2
  <2>3. pub.base + k \in Chain
    BY <2>1 DEF TypeOK, Chain
  <2> QED
    BY <2>1, <2>2, <2>3, EmptySettled
<1> QED
  BY <1>1, QueueInvariant, PTL

-----------------------------------------------------------------------------
(* The command stream: the mailbox store accepts, the fetch executes.      *)
LEMMA MailboxAccepts ==
  ASSUME QueueInv, NEW i \in Places, DrainMailbox(i)
  PROVE  Stream!Accept
<1>1. TypeOK /\ Indexes /\ Histories
  BY DEF QueueInv
<1>2. /\ buffer[i].to = "mailbox" /\ executed' = executed
      /\ accepted' = accepted \o [k \in 1..(buffer[i].id - mailbox) |-> pub.serial]
  BY DEF DrainMailbox
<1>3. /\ hostPc = "index" /\ mailbox = writeIndex
      /\ buffer = <<MailboxStore(pub.base + pub.n), DoorbellStore(pub.base + pub.n - 1)>>
  BY <1>2, IndexPhase DEF DoorbellStore, Places
<1>4. /\ pub.n \in 1..MaxChain /\ pub.serial \in 1..MaxPublications
      /\ pub.base \in Nat /\ pub.base = writeIndex
      /\ Len(accepted) = mailbox /\ Len(executed) = readIndex
      /\ readIndex \in Nat /\ readPtr \in Nat /\ RingSlots \in Nat
      /\ readPtr <= readIndex /\ pub.base + pub.n <= readPtr + RingSlots
  BY <1>1, <1>3, AqlAssumption DEF Indexes, TypeOK, Histories
<1>5. buffer[i].id = pub.base + pub.n
  BY <1>2, <1>3 DEF Places, MailboxStore, DoorbellStore
<1>6. buffer[i].id - mailbox = pub.n /\ Len(accepted) + pub.n <= Len(executed) + RingSlots
  BY <1>3, <1>4, <1>5
<1>7. accepted' = accepted \o [k \in 1..pub.n |-> pub.serial]
  BY <1>2, <1>6
<1> QED
  BY <1>2, <1>4, <1>6, <1>7, Zenon DEF Stream!Accept

LEMMA FetchExecutes ==
  ASSUME QueueInv, Fetch
  PROVE  Stream!Execute
<1>1. /\ readIndex < mailbox /\ accepted' = accepted
      /\ executed' = Append(executed, ring[Slot(readIndex)].serial)
  BY DEF Fetch, Available
<1>2. /\ readIndex \in Nat /\ mailbox \in Nat
      /\ Len(accepted) = mailbox /\ Len(executed) = readIndex
  BY DEF QueueInv, TypeOK, Histories
<1>3. readIndex \in readIndex..(mailbox - 1)
  BY <1>1, <1>2
<1>4. Complete(readIndex, accepted[readIndex + 1])
  BY <1>3 DEF QueueInv, AnnouncedComplete
<1>5. ring[Slot(readIndex)].serial = accepted[readIndex + 1]
  BY <1>4 DEF Complete
<1> QED
  BY <1>1, <1>2, <1>5 DEF Stream!Execute

(* The queue implements CommandStream: what is fetched is, packet for      *)
(* packet, what the mailbox announced, whatever was abandoned or refused.  *)
THEOREM QueueImplementsStream == Spec => ImplementsStream
<1>1. Init => Stream!Init
  BY DEF Init, Stream!Init
<1>2. QueueInv /\ [Next]_vars => [Stream!Next]_Stream!streamVars
  <2> SUFFICES ASSUME QueueInv, [Next]_vars
               PROVE  Stream!Next \/ UNCHANGED <<accepted, executed>>
    BY Zenon DEF Stream!streamVars
  <2>1. CASE Host
    BY <2>1 DEF Host, WritePackets, AbandonPackets, WriteIndexes, PublishDone
  <2>2. CASE Drain
    <3>1. PICK i \in Places :
            DrainBody(i) \/ DrainHeader(i) \/ DrainMailbox(i) \/ DrainDoorbell(i)
      <4>1. DOMAIN buffer = Places
        BY DEF QueueInv, TypeOK, Places
      <4> QED
        BY <2>2, <4>1 DEF Drain
    <3>2. CASE DrainMailbox(i)
      BY <3>2, MailboxAccepts DEF Stream!Next
    <3>3. CASE DrainBody(i) \/ DrainHeader(i) \/ DrainDoorbell(i)
      BY <3>3 DEF DrainBody, DrainHeader, DrainDoorbell
    <3> QED
      BY <3>1, <3>2, <3>3
  <2>3. CASE Fetch
    BY <2>3, FetchExecutes DEF Stream!Next
  <2>4. CASE ReportReadPtr \/ Sleep \/ UNCHANGED vars
    BY <2>4 DEF ReportReadPtr, Sleep, vars
  <2> QED
    BY <2>1, <2>2, <2>3, <2>4 DEF Next, Processor
<1> QED
  BY <1>1, <1>2, QueueInvariant, PTL DEF Spec, ImplementsStream, Stream!Spec

=============================================================================
