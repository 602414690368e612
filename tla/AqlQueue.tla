------------------------------ MODULE AqlQueue ------------------------------
(***************************************************************************)
(* A KFD compute queue: the host publishes AQL packets into a ring of      *)
(* RingSlots packet slots, raises the write-index mailbox and rings the    *)
(* doorbell; the command processor (CP) fetches packets behind them.       *)
(* KfdQueue in crates/mainarch-core/src/lib.rs: dispatch_kernel and the    *)
(* replay publishers, which differ in how they build packets, not in the   *)
(* order of their stores.                                                  *)
(*                                                                         *)
(* The code is written for "weakly ordered paths": a plain store may reach *)
(* memory after a later one.  The host's stores therefore go through a     *)
(* buffer that drains in any order that respects                           *)
(*   - coherence: stores to one location drain in program order,           *)
(*   - release stores and release fences: they drain after all before them,*)
(*   - the SeqCst fences: the host goes on only with an empty buffer.      *)
(* The CP is external: modelled from what the code's comments and guards   *)
(* take it to do.                                                          *)
(*                                                                         *)
(* A publication refused by a guard (mailbox mismatch, ring full, invalid  *)
(* packet) returns before its first store: it changes nothing, and is a    *)
(* stuttering step.  Packet ids are u64 and never wrap here.               *)
(*                                                                         *)
(* A definition that starts with Faulty is a plausible bug of the one that *)
(* follows it.  Nothing uses it: put in its place, it breaks a property.   *)
(***************************************************************************)
EXTENDS Naturals, Sequences

CONSTANTS
  RingSlots,       \* ring_slots (COMPUTE_AQL_RING_SLOTS)
  MaxChain,        \* longest packet chain published at once
  MaxPublications  \* bound on the publications tried

ASSUME AqlAssumption ==
  /\ RingSlots \in Nat \ {0}
  /\ MaxChain \in 1..RingSlots
  /\ MaxPublications \in Nat

VARIABLES
  writeIndex, \* self.write_index: the next packet id
  hostPc,     \* the publisher: idle, packets (written), index (written)
  pub,        \* the publication under way: serial number, first id, length
  buffer,     \* the host's stores that have not reached memory
  ring,       \* packet slots as the CP reads them
  mailbox,    \* write-index mailbox, as the CP reads it
  doorbell,   \* number of packets the last doorbell made known
  awake,      \* has a doorbell woken the CP since it last ran dry?
  readIndex,  \* packets the CP has fetched
  readPtr,    \* the read pointer the CP wrote back for the host
  accepted,   \* history: the serial of every packet id put in the mailbox
  executed    \* history: the serials of the packets fetched

vars == <<writeIndex, hostPc, pub, buffer, ring, mailbox, doorbell, awake,
          readIndex, readPtr, accepted, executed>>

Slot(id) == id % RingSlots

(* A slot has a body, named by its packet id and publication, and a header *)
(* that is 0 (invalid) or was made valid by a publication.                 *)
Packet == [id : Nat, serial : 0..MaxPublications, header : 0..MaxPublications]
EmptySlot == [id |-> 0, serial |-> 0, header |-> 0]

(* Stores of the host: of packet p's body, of its header (clear it or make *)
(* it valid), of the mailbox, of the doorbell.                             *)
BodyStore(p, serial) ==
  [to |-> "body", id |-> p, serial |-> serial, release |-> FALSE]
ClearStore(p) ==
  [to |-> "header", id |-> p, serial |-> 0, release |-> FALSE]
HeaderStore(p, serial) ==
  [to |-> "header", id |-> p, serial |-> serial, release |-> TRUE]
MailboxStore(next) ==
  [to |-> "mailbox", id |-> next, serial |-> 0, release |-> TRUE]

FaultyDoorbellStore(last) ==
  [to |-> "doorbell", id |-> last - 1, serial |-> 0, release |-> TRUE]

DoorbellStore(last) ==
  [to |-> "doorbell", id |-> last, serial |-> 0, release |-> TRUE]

SameLocation(a, b) ==
  a.to = b.to /\ (a.to \in {"body", "header"} => Slot(a.id) = Slot(b.id))

Init ==
  /\ writeIndex = 0
  /\ hostPc = "idle"
  /\ pub = [serial |-> 0, base |-> 0, n |-> 0]
  /\ buffer = <<>>
  /\ ring = [s \in 0..(RingSlots - 1) |-> EmptySlot]
  /\ mailbox = 0
  /\ doorbell = 0
  /\ awake = FALSE
  /\ readIndex = 0
  /\ readPtr = 0
  /\ accepted = <<>>
  /\ executed = <<>>

-----------------------------------------------------------------------------
Bodies(base, n, serial) ==
  [k \in 1..n |-> ClearStore(base + k - 1)]
    \o [k \in 1..n |-> BodyStore(base + k - 1, serial)]

FaultyPacketStores(base, n, serial) ==
  Bodies(base, n, serial) \o [k \in 1..n |-> HeaderStore(base + k - 1, serial)]

(* The cleared headers and the bodies of the whole chain, then the headers *)
(* of packets 1 .. n-1, then the header of packet 0.                       *)
PacketStores(base, n, serial) ==
  Bodies(base, n, serial)
    \o [k \in 1..(n - 1) |-> HeaderStore(base + k, serial)]
    \o <<HeaderStore(base, serial)>>

(* in_flight + packets.len() <= ring_slots *)
Room(n) == writeIndex - readPtr + n <= RingSlots

(* A publisher passes its guards: the ring has room for the chain after    *)
(* the read pointer the host sees.  It writes bodies and headers.          *)
WritePackets(n) ==
  /\ hostPc = "idle"
  /\ pub.serial < MaxPublications
  /\ Room(n)
  /\ pub' = [serial |-> pub.serial + 1, base |-> writeIndex, n |-> n]
  /\ buffer' = buffer \o PacketStores(writeIndex, n, pub.serial + 1)
  /\ hostPc' = "packets"
  /\ UNCHANGED <<writeIndex, ring, mailbox, doorbell, awake, readIndex,
                 readPtr, accepted, executed>>

(* The CPC snapshot file cannot be written: the publisher                  *)
(* returns an error and leaves complete packets behind in the ring.  The   *)
(* other error returns after a store have no action: each compares a body, *)
(* a header or the mailbox with what this thread has just stored there and *)
(* nobody else writes, so in coherent memory none can be taken.            *)
AbandonPackets ==
  /\ hostPc = "packets"
  /\ hostPc' = "idle"
  /\ UNCHANGED <<writeIndex, pub, buffer, ring, mailbox, doorbell, awake,
                 readIndex, readPtr, accepted, executed>>

FaultyPlainIndexes ==
  /\ hostPc = "packets"
  /\ buffer' = buffer \o
       <<[MailboxStore(pub.base + pub.n) EXCEPT !.release = FALSE],
         DoorbellStore(pub.base + pub.n - 1)>>
  /\ hostPc' = "index"
  /\ UNCHANGED <<writeIndex, pub, ring, mailbox, doorbell, awake, readIndex,
                 readPtr, accepted, executed>>

(* After the SeqCst fence: mailbox, release fence, doorbell with the index *)
(* of the last packet (not the count).                                     *)
WriteIndexes ==
  /\ hostPc = "packets"
  /\ buffer = <<>>
  /\ buffer' = <<MailboxStore(pub.base + pub.n),
                 DoorbellStore(pub.base + pub.n - 1)>>
  /\ hostPc' = "index"
  /\ UNCHANGED <<writeIndex, pub, ring, mailbox, doorbell, awake, readIndex,
                 readPtr, accepted, executed>>

(* After the doorbell's SeqCst fence: self.write_index = next. *)
PublishDone ==
  /\ hostPc = "index"
  /\ buffer = <<>>
  /\ writeIndex' = pub.base + pub.n
  /\ hostPc' = "idle"
  /\ UNCHANGED <<pub, buffer, ring, mailbox, doorbell, awake, readIndex,
                 readPtr, accepted, executed>>

-----------------------------------------------------------------------------
(* A store reaches memory.                                                 *)
MayDrain(i) ==
  \A j \in 1..(i - 1) :
    ~buffer[i].release /\ ~SameLocation(buffer[i], buffer[j])

RemoveAt(s, i) == SubSeq(s, 1, i - 1) \o SubSeq(s, i + 1, Len(s))

DrainBody(i) ==
  /\ i \in DOMAIN buffer
  /\ MayDrain(i)
  /\ buffer[i].to = "body"
  /\ ring' = [ring EXCEPT ![Slot(buffer[i].id)] =
                [@ EXCEPT !.id = buffer[i].id, !.serial = buffer[i].serial]]
  /\ buffer' = RemoveAt(buffer, i)
  /\ UNCHANGED <<writeIndex, hostPc, pub, mailbox, doorbell, awake, readIndex,
                 readPtr, accepted, executed>>

DrainHeader(i) ==
  /\ i \in DOMAIN buffer
  /\ MayDrain(i)
  /\ buffer[i].to = "header"
  /\ ring' = [ring EXCEPT ![Slot(buffer[i].id)].header = buffer[i].serial]
  /\ buffer' = RemoveAt(buffer, i)
  /\ UNCHANGED <<writeIndex, hostPc, pub, mailbox, doorbell, awake, readIndex,
                 readPtr, accepted, executed>>

DrainMailbox(i) ==
  /\ i \in DOMAIN buffer
  /\ MayDrain(i)
  /\ buffer[i].to = "mailbox"
  /\ mailbox' = buffer[i].id
  /\ accepted' = accepted \o [k \in 1..(buffer[i].id - mailbox) |-> pub.serial]
  /\ buffer' = RemoveAt(buffer, i)
  /\ UNCHANGED <<writeIndex, hostPc, pub, ring, doorbell, awake, readIndex,
                 readPtr, executed>>

(* The doorbell write reaches the CP and wakes it. *)
DrainDoorbell(i) ==
  /\ i \in DOMAIN buffer
  /\ MayDrain(i)
  /\ buffer[i].to = "doorbell"
  /\ doorbell' = buffer[i].id + 1
  /\ awake' = TRUE
  /\ buffer' = RemoveAt(buffer, i)
  /\ UNCHANGED <<writeIndex, hostPc, pub, ring, mailbox, readIndex, readPtr,
                 accepted, executed>>

-----------------------------------------------------------------------------
(* The command processor (external).                                       *)

(* It scans up to the mailbox, but never past the packet the doorbell named *)
Available == readIndex < mailbox /\ readIndex < doorbell

(* Fetch the next packet: its slot must hold a valid header. *)
Fetch ==
  /\ awake
  /\ Available
  /\ ring[Slot(readIndex)].header # 0
  /\ executed' = Append(executed, ring[Slot(readIndex)].serial)
  /\ readIndex' = readIndex + 1
  /\ UNCHANGED <<writeIndex, hostPc, pub, buffer, ring, mailbox, doorbell,
                 awake, readPtr, accepted>>

(* The packet's slot is reported free some time after its fetch. *)
ReportReadPtr ==
  /\ readPtr < readIndex
  /\ readPtr' = readIndex
  /\ UNCHANGED <<writeIndex, hostPc, pub, buffer, ring, mailbox, doorbell,
                 awake, readIndex, accepted, executed>>

(* Nothing more to fetch: sleep until the next doorbell. *)
Sleep ==
  /\ awake
  /\ ~Available
  /\ awake' = FALSE
  /\ UNCHANGED <<writeIndex, hostPc, pub, buffer, ring, mailbox, doorbell,
                 readIndex, readPtr, accepted, executed>>

-----------------------------------------------------------------------------
Host ==
  \/ \E n \in 1..MaxChain : WritePackets(n)
  \/ AbandonPackets
  \/ WriteIndexes
  \/ PublishDone

Drain ==
  \E i \in DOMAIN buffer :
    DrainBody(i) \/ DrainHeader(i) \/ DrainMailbox(i) \/ DrainDoorbell(i)

Processor == Fetch \/ ReportReadPtr \/ Sleep

Next == Host \/ Drain \/ Processor

Spec == Init /\ [][Next]_vars

(* Stores reach memory, and an awake CP goes on fetching. *)
FairSpec == Spec /\ WF_vars(Drain) /\ WF_vars(Fetch)

-----------------------------------------------------------------------------
Store == [to : {"body", "header", "mailbox", "doorbell"}, id : Nat,
          serial : 0..MaxPublications, release : BOOLEAN]

TypeOK ==
  /\ writeIndex \in Nat
  /\ hostPc \in {"idle", "packets", "index"}
  /\ pub \in [serial : 0..MaxPublications, base : Nat, n : 0..MaxChain]
  /\ buffer \in Seq(Store)
  /\ ring \in [0..(RingSlots - 1) -> Packet]
  /\ mailbox \in Nat
  /\ doorbell \in Nat
  /\ awake \in BOOLEAN
  /\ readIndex \in Nat
  /\ readPtr \in Nat
  /\ accepted \in Seq(1..MaxPublications)
  /\ executed \in Seq(1..MaxPublications)

(* Every packet the mailbox announces and the CP has not fetched is there  *)
(* in full: valid header, the body of that very packet id (not of an       *)
(* earlier lap of the ring) and of the publication that was accepted (not  *)
(* of an abandoned one).                                                   *)
Complete(p, serial) ==
  ring[Slot(p)] = [id |-> p, serial |-> serial, header |-> serial]
AnnouncedComplete ==
  \A p \in readIndex..(mailbox - 1) : Complete(p, accepted[p + 1])

(* Comment in the replay publishers: "If the packet processor ever         *)
(* observes packet 0's valid header early, the rest of the chain is        *)
(* already visible."                                                       *)
ChainVisibleWithFirstHeader ==
  pub.n > 0 /\ ring[Slot(pub.base)].header = pub.serial =>
    \A k \in 0..(pub.n - 1) : Complete(pub.base + k, pub.serial)

(* The queue implements the abstract command stream: every accepted packet *)
(* is fetched once, in order, as its own publication wrote it, and no more *)
(* than RingSlots wait.                                                    *)
Stream == INSTANCE CommandStream WITH Slots <- RingSlots
ImplementsStream == Stream!Spec

(* And no packet announced by a doorbell is left unfetched by a sleeping   *)
(* CP.                                                                     *)
ImplementsFairStream == Stream!FairSpec

=============================================================================
