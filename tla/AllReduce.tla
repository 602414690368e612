----------------------------- MODULE AllReduce ------------------------------
(***************************************************************************)
(* The sum all-reduce across r GPUs: AllReduce in                           *)
(* crates/mainarch-core/src/multigpu.rs with its kernels and the SDMA       *)
(* queues.  One host thread arms and waits for agents: the compute queue of *)
(* each GPU ("cu"), the second compute queue of the concurrent scheme       *)
(* ("cu2") and SDMA queues.  An agent's work is a sequence of phases; the   *)
(* operations of a phase run in any order, the next phase starts when all   *)
(* are done (a grid barrier, the barrier bit of an AQL packet, the packet   *)
(* order of an SDMA ring).                                                  *)
(*                                                                          *)
(* Data is a group of four floats: the set of inputs summed into it, each   *)
(* named by its rank, position and call; Garbage when one is counted twice. *)
(* An operation moves a range of groups in one step: NoConflict shows that  *)
(* no other agent touches the range meanwhile.                              *)
(*                                                                          *)
(* Left out: n = 0, the caps of the kernels' spins (4e9 rounds), the retry  *)
(* budget of an SDMA poll (4095 retries, then the engine goes on; the code  *)
(* takes it to outlast any kernel), arming errors and wait timeouts, and    *)
(* the u32 wrap of seq.                                                     *)
(***************************************************************************)
EXTENDS Chunks, SequencesExt

CONSTANTS
  RankCounts,      \* numbers of GPUs a group is brought up with
  Capacity,        \* cap: elements of each buffer
  Requests(_),     \* the calls tried with r GPUs: [algo, n, pull]
  MaxCalls,        \* bound on the calls
  Tiles,           \* MAINARCH_BIDIR_TILES
  OneshotTiles,    \* MAINARCH_ONESHOT_TILES
  SkipOwnFrom,     \* n from which a broadcast skips rank 0 (131_072)
  DirectMaxBytes, WriteRsMinBytes, OneshotMinBytes  \* thresholds of "auto"

(* MAINARCH_ALLREDUCE_ALGO; any other value is as good as none ("auto").   *)
Algos == {"auto", "direct", "rsag_read", "rsag_write", "oneshot", "sdma",
          "hybrid", "concurrent", "devhybrid", "bidir", "bidir2"}

ASSUME AllReduceAssumption ==
  /\ RankCounts \subseteq Nat \ {0}
  /\ {Capacity, MaxCalls, Tiles, OneshotTiles} \subseteq Nat \ {0}
  /\ \A r \in RankCounts : \A q \in Requests(r) :
       q.algo \in Algos /\ q.n \in 1..Capacity /\ q.pull \in BOOLEAN

VARIABLES
  r,      \* GPUs in the group
  calls,  \* calls begun
  n,      \* elements of the last call
  prog,   \* what the host has still to do in this call
  todo,   \* the phases each agent has still to run
  data,   \* memory: [buffer -> [group -> what was summed into it]]
  word,   \* arrival flags and semaphores
  seq     \* barrier sequence numbers used

vars == <<r, calls, n, prog, todo, data, word, seq>>

Ranks == 0..(r - 1)
Queue(k, g) == <<k, g, 0>>
Cu(g) == Queue("cu", g)
Cu2(g) == Queue("cu2", g)
Sdma(g, q) == <<"sdma", g, q>>
Agents == {Cu(g) : g \in Ranks} \cup {Cu2(g) : g \in Ranks}
            \cup {Sdma(g, q) : g \in Ranks, q \in Ranks}

(* Places in memory, in groups of four floats.                             *)
Buf(g, at) == [mem |-> <<"buf", g>>, at |-> at]
StageOf(k, g, at) == [mem |-> <<k, g>>, at |-> at]
Stage(g, at) == StageOf("stage", g, at)
Flag(g, from) == <<"flag", g, from>>  \* slot "from" of the flags of GPU g
Sem(g, i) == <<"sem", g, i>>
Groups(len) == CeilDiv(len, 4)

(* clv: groups of a share; Share4: when all are equal; Len4: the groups *)
(* share c really has.                                                     *)
Clv(len) == ChunkLength(len, r) \div 4
Share4(len) == (len \div r) \div 4
Len4(c, len) == Groups(ChunkLen(c, ChunkLength(len, r), len))

(* The operations of agents.                                               *)
Sum(srcs, dst, len) ==
  IF len = 0 THEN {}
             ELSE {[op |-> "sum", from |-> srcs, to |-> dst, len |-> len]}
Copy(src, dst, len) == Sum({src}, dst, len)
Signal(w, v) == {[op |-> "signal", word |-> w, val |-> v]}
Await(w, v) == {[op |-> "await", word |-> w, val |-> v]}

(* The commands of the host.  "refill": the command overwrites something   *)
(* the agent reads while it works (an SDMA ring, a pointer table).         *)
Arm(a, work) == <<[do |-> "arm", agent |-> a, work |-> work, refill |-> FALSE]>>
Refill(a, work) == <<[do |-> "arm", agent |-> a, work |-> work, refill |-> TRUE]>>
Wait(a) == <<[do |-> "wait", agent |-> a]>>

EachRank(Do(_)) == FlattenSeq([i \in 1..r |-> Do(i - 1)])
EachShare(len, Do(_)) ==
  EachRank(LAMBDA c : IF Len4(c, len) = 0 THEN <<>> ELSE Do(c))
EachPeer(g, Do(_)) == EachRank(LAMBDA p : IF p = g THEN <<>> ELSE Do(p))
-----------------------------------------------------------------------------
(* Kernels.                                                                *)

(* reduce_peers, and reduce_scatter over one share.                        *)
ReducePeers(g, at, len) ==
  <<Sum({Buf(p, at) : p \in Ranks}, Buf(g, at), len)>>
ReduceScatter(g, len) == ReducePeers(g, g * Clv(len), Len4(g, len))

BroadcastPeers(len) ==
  LET targets == IF len >= SkipOwnFrom THEN Ranks \ {0} ELSE Ranks
  IN  <<UNION {Copy(Buf(0, 0), Buf(p, 0), Groups(len)) : p \in targets}>>

BroadcastChunkSkipOwner(g, len) ==
  <<UNION {Copy(Buf(g, g * Clv(len)), Buf(p, g * Clv(len)), Len4(g, len)) :
             p \in Ranks \ {g}}>>

ScatterToStaging(g, len) ==
  <<UNION {Copy(Buf(g, c * Clv(len)), Stage(c, g * Clv(len)), Len4(c, len)) :
             c \in Ranks}>>

(* Sum the slots of a staging buffer, clv apart.                            *)
GatherReduceLocal(slot, out, clv, len) ==
  <<Sum({[slot EXCEPT !.at = @ + p * clv] : p \in Ranks}, out, len)>>

AllGather(g, len) ==
  <<UNION {Copy(Buf(c, c * Clv(len)), Buf(g, c * Clv(len)), Len4(c, len)) :
             c \in Ranks \ {g}}>>

P2pWrite(src, dsts, clv, len) ==
  <<UNION {Copy([src EXCEPT !.at = @ + p * clv], dsts[p], len) :
             p \in DOMAIN dsts}>>
P2pBroadcast(src, dsts, len) == <<UNION {Copy(src, d, len) : d \in dsts}>>

XgpuBarrier(g, s) ==
  [h \in 1..r |-> Signal(Flag(h - 1, g), s)]
    \o [h \in 1..r |-> Await(Flag(g, h - 1), s)]

AllreduceOneshot(g, len, s) ==
  ScatterToStaging(g, len)
    \o XgpuBarrier(g, s)
    \o GatherReduceLocal(Stage(g, 0), Buf(g, g * Clv(len)),
                         Clv(len), Len4(g, len))
    \o P2pBroadcast(Buf(g, g * Clv(len)),
                    {Buf(p, g * Clv(len)) : p \in Ranks}, Len4(g, len))

(* The semaphores of GPU g: q for the scatter of its queue q, r to release *)
(* the gather, r + 1 + q for the gather of queue q.                        *)
FaultyAwaitScatterFences(g, s) == <<>>
AwaitScatterFences(g, s) == EachPeer(g, LAMBDA q : <<Await(Sem(g, q), s)>>)
FaultyReleaseGather(g, s) == <<>>
ReleaseGather(g, s) == <<Signal(Sem(g, r), s)>>
AwaitGatherFences(g, s) ==
  EachPeer(g, LAMBDA q : <<Await(Sem(g, r + 1 + q), s)>>)

(* The CUs move the first cu groups of each share, its own share in full.  *)
AllreduceDualpath(g, clv, cu, s) ==
  <<UNION {Copy(Buf(g, c * clv), Stage(c, g * clv), IF c = g THEN clv ELSE cu) :
             c \in Ranks}>>
    \o AwaitScatterFences(g, s)
    \o XgpuBarrier(g, s)
    \o GatherReduceLocal(Stage(g, 0), Buf(g, g * clv), clv, clv)
    \o ReleaseGather(g, s)
    \o P2pBroadcast(Buf(g, g * clv), {Buf(p, g * clv) : p \in Ranks \ {g}}, cu)
    \o AwaitGatherFences(g, s)
-----------------------------------------------------------------------------
(* Host programs, one per scheme.                                          *)

Direct(len) ==
  IF r = 1 THEN <<>>
  ELSE Arm(Cu(0), ReducePeers(0, 0, Groups(len))) \o Wait(Cu(0))
         \o Arm(Cu(0), BroadcastPeers(len)) \o Wait(Cu(0))

ReduceStaged(a, g, base, slot, len) ==
  Arm(a, GatherReduceLocal(slot, Buf(g, base + g * Clv(len)), Clv(len),
                           Len4(g, len)))

Rsag(len, write, pull) ==
  LET reduce(g) ==
        IF write THEN ReduceStaged(Cu(g), g, 0, Stage(g, 0), len)
                 ELSE Arm(Cu(g), ReduceScatter(g, len))
      wait(g) == Wait(Cu(g))
  IN  (IF write THEN EachRank(LAMBDA g : Arm(Cu(g), ScatterToStaging(g, len)))
                       \o EachRank(wait)
                ELSE <<>>)
        \o EachShare(len, reduce)
        \o IF pull
           THEN EachShare(len, wait)
                  \o EachRank(LAMBDA g : Arm(Cu(g), AllGather(g, len)))
                  \o EachRank(wait)
           ELSE EachShare(len, LAMBDA g : Arm(Cu(g),
                                              BroadcastChunkSkipOwner(g, len)))
                  \o EachShare(len, wait)

Oneshot(len) ==
  EachRank(LAMBDA g : Arm(Cu(g), AllreduceOneshot(g, len, seq + 1)))
    \o EachRank(LAMBDA g : Wait(Cu(g)))

(* sdma_allreduce_range over the elements from group "base" on, with the   *)
(* staging buffers "stage" and the compute queues "queue";                 *)
(* all_reduce_sum_sdma is the whole vector with the first of each.         *)
SdmaRange(base, len, queue, stage) ==
  LET clv == Clv(len)
      own(c) == base + c * clv
  IN  EachRank(LAMBDA g : EachShare(len, LAMBDA c :
        Refill(Sdma(g, c), <<Copy(Buf(g, own(c)), StageOf(stage, c, g * clv),
                                  Len4(c, len))>>)))
        \o EachRank(LAMBDA g : EachShare(len, LAMBDA c : Wait(Sdma(g, c))))
        \o EachShare(len, LAMBDA g :
             ReduceStaged(Queue(queue, g), g, base, StageOf(stage, g, 0), len))
        \o EachShare(len, LAMBDA g : Wait(Queue(queue, g)))
        \o EachShare(len, LAMBDA g : EachRank(LAMBDA h :
             Refill(Sdma(g, h), <<Copy(Buf(g, own(g)), Buf(h, own(g)),
                                       Len4(g, len))>>)))
        \o EachShare(len, LAMBDA g : EachRank(LAMBDA h : Wait(Sdma(g, h))))

(* The shares and peers the CUs serve in the hybrid scheme: 45 %, rounded, *)
(* at least one and not all.                                               *)
CuPart(k) == Lesser((k * 45 + 50) \div 100, r - 1)
CuChunks == IF CuPart(r) = 0 THEN 1 ELSE CuPart(r)
CuPeers == IF CuPart(r - 1) = 0 THEN 1 ELSE CuPart(r - 1)

Hybrid(len) ==
  LET clv == Share4(len)
      nc == r - CuChunks          \* nc_sdma
      sd == (r - 1) - CuPeers     \* sd_g
      peer(g, p) == IF p < g THEN p ELSE p + 1
  IN  EachRank(LAMBDA g :
        FlattenSeq([i \in 1..nc |->
          Refill(Sdma(g, i - 1), <<Copy(Buf(g, (i - 1) * clv),
                                        Stage(i - 1, g * clv), clv)>>)])
          \o Refill(Cu(g), P2pWrite(Buf(g, nc * clv),
               [p \in 0..(CuChunks - 1) |-> Stage(nc + p, g * clv)], clv, clv)))
        \o EachRank(LAMBDA g :
             FlattenSeq([i \in 1..nc |-> Wait(Sdma(g, i - 1))]) \o Wait(Cu(g)))
        \o EachRank(LAMBDA g :
             ReduceStaged(Cu(g), g, 0, Stage(g, 0), len))
        \o EachRank(LAMBDA g : Wait(Cu(g)))
        \o EachRank(LAMBDA g :
             FlattenSeq([i \in 1..sd |->
               Refill(Sdma(g, i - 1), <<Copy(Buf(g, g * clv),
                 Buf(peer(g, i - 1), g * clv), clv)>>)])
               \o Refill(Cu(g), P2pBroadcast(Buf(g, g * clv),
                    {Buf(peer(g, p), g * clv) : p \in sd..(r - 2)}, clv)))
        \o EachRank(LAMBDA g :
             FlattenSeq([i \in 1..sd |-> Wait(Sdma(g, i - 1))]) \o Wait(Cu(g)))

(* Partition A: half of the elements, a multiple of four.                  *)
PartA(len) == 4 * (((len * 50) \div 100) \div 4)

Concurrent(len) ==
  LET an == PartA(len)
  IN  EachRank(LAMBDA g : Arm(Cu(g), AllreduceOneshot(g, an, seq + 1)))
        \o SdmaRange(an \div 4, len - an, "cu2", "stage_b")
        \o EachRank(LAMBDA g : Wait(Cu(g)))

(* One program of SDMA queue q on GPU g: scatter, fence, poll, gather,     *)
(* fence.                                                                  *)
DualpathSdma(g, q, clv, cu, s) ==
  <<Copy(Buf(g, q * clv + cu), Stage(q, g * clv + cu), clv - cu),
    Signal(Sem(g, q), s),
    Await(Sem(g, r), s),
    Copy(Buf(g, g * clv + cu), Buf(q, g * clv + cu), clv - cu),
    Signal(Sem(g, r + 1 + q), s)>>

Devhybrid(len) ==
  LET clv == Share4(len)
      cu == (clv * 45) \div 100
  IN  EachRank(LAMBDA g : EachPeer(g, LAMBDA q :
        Refill(Sdma(g, q), DualpathSdma(g, q, clv, cu, seq + 1))))
        \o EachRank(LAMBDA g :
             Arm(Cu(g), AllreduceDualpath(g, clv, cu, seq + 1)))
        \o EachRank(LAMBDA g : Wait(Cu(g)))
        \o EachRank(LAMBDA g : EachPeer(g, LAMBDA q : Wait(Sdma(g, q))))

(* The pipelined schemes, tile by tile; "at" is the group a tile of the    *)
(* share of g starts at.                                                   *)
TileLen(len) == Share4(len) \div Tiles
TileAt(g, len, t) == g * (Share4(len)) + t * TileLen(len)
WaitCus == EachRank(LAMBDA g : Wait(Cu(g)))

ReadTile(len, t) ==
  EachRank(LAMBDA g : EachRank(LAMBDA p :
    Refill(Sdma(g, p), <<Copy(Buf(p, TileAt(g, len, t)),
                              Stage(g, TileAt(p, len, t)), TileLen(len))>>)))
FaultyWaitReads == <<>>
WaitReads == EachRank(LAMBDA g : EachRank(LAMBDA p : Wait(Sdma(g, p))))
ReduceTile(len, t) ==
  EachRank(LAMBDA g : Arm(Cu(g),
    GatherReduceLocal(Stage(g, t * TileLen(len)),
                      Buf(g, TileAt(g, len, t)), Share4(len),
                      TileLen(len)))) \o WaitCus
PushTileByCu(len, t) ==
  EachRank(LAMBDA g : Refill(Cu(g), P2pBroadcast(Buf(g, TileAt(g, len, t)),
    {Buf(p, TileAt(g, len, t)) : p \in Ranks \ {g}}, TileLen(len))))

Bidir(len) ==
  ReadTile(len, 0) \o WaitReads \o ReduceTile(len, 0)
    \o FlattenSeq([t \in 1..(Tiles - 1) |->
         ReadTile(len, t) \o PushTileByCu(len, t - 1) \o WaitCus \o WaitReads
           \o ReduceTile(len, t)])
    \o PushTileByCu(len, Tiles - 1) \o WaitCus

ReadReduceTile(len, t) ==
  EachRank(LAMBDA g :
    Refill(Cu(g), ReducePeers(g, TileAt(g, len, t), TileLen(len))))
PushTileBySdma(len, t) ==
  EachRank(LAMBDA g : EachPeer(g, LAMBDA p :
    Refill(Sdma(g, p), <<Copy(Buf(g, TileAt(g, len, t)),
                              Buf(p, TileAt(g, len, t)), TileLen(len))>>)))
FaultyWaitWrites == <<>>
WaitWrites == EachRank(LAMBDA g : EachPeer(g, LAMBDA p : Wait(Sdma(g, p))))

Bidir2(len) ==
  ReadReduceTile(len, 0) \o WaitCus
    \o FlattenSeq([t \in 1..(Tiles - 1) |->
         ReadReduceTile(len, t) \o PushTileBySdma(len, t - 1)
           \o WaitWrites \o WaitCus])
    \o PushTileBySdma(len, Tiles - 1) \o WaitWrites
-----------------------------------------------------------------------------
(* Which scheme a call ends up with: forced, or by size, and the schemes   *)
(* that need equal shares or whole groups fall back.                       *)
BySize(len) ==
  IF r < 2 \/ len < 4 * r \/ 4 * len <= DirectMaxBytes THEN "direct"
  ELSE IF 4 * len >= OneshotMinBytes /\ len % 4 = 0 THEN "oneshot"
  ELSE IF 4 * len < WriteRsMinBytes THEN "rsag_read" ELSE "rsag_write"

NeedsOneshot(algo, len) ==
  \/ /\ algo \in {"hybrid", "devhybrid"}
     /\ r < 2 \/ len % (4 * r) # 0
  \/ /\ algo \in {"bidir", "bidir2"}
     /\ r < 2 \/ len % (4 * r * Tiles) # 0
  \/ /\ algo = "concurrent"
     /\ r < 2 \/ len % 4 # 0 \/ PartA(len) < 4 * r \/ len - PartA(len) < 4 * r

NeedsRsag(algo, len) == algo \in {"oneshot", "sdma"} /\ (r < 2 \/ len % 4 # 0)
NeedsDirect(algo) == algo \in {"rsag_read", "rsag_write"} /\ r < 2

Scheme(algo, len) ==
  LET asked == IF algo = "auto" THEN BySize(len) ELSE algo
      split == IF NeedsOneshot(asked, len) THEN "oneshot" ELSE asked
      whole == IF NeedsRsag(split, len) THEN "rsag_write" ELSE split
  IN  IF NeedsDirect(whole) THEN "direct" ELSE whole

Program(scheme, len, pull) ==
  CASE scheme = "direct" -> Direct(len)
    [] scheme = "rsag_read" -> Rsag(len, FALSE, pull)
    [] scheme = "rsag_write" -> Rsag(len, TRUE, pull)
    [] scheme = "oneshot" -> Oneshot(len)
    [] scheme = "sdma" -> SdmaRange(0, len, "cu", "stage")
    [] scheme = "hybrid" -> Hybrid(len)
    [] scheme = "concurrent" -> Concurrent(len)
    [] scheme = "devhybrid" -> Devhybrid(len)
    [] scheme = "bidir" -> Bidir(len)
    [] scheme = "bidir2" -> Bidir2(len)

(* Barrier sequence numbers a scheme reserves.                             *)
FaultySeqSpan(scheme) == 0
SeqSpan(scheme) ==
  CASE scheme \in {"oneshot", "concurrent"} -> OneshotTiles + 2
    [] scheme = "devhybrid" -> 2
    [] OTHER -> 0
-----------------------------------------------------------------------------
Memory(ranks) ==
  [m \in {"buf", "stage", "stage_b"} \X (0..(ranks - 1)) |->
     [i \in 0..((IF m[1] = "buf" THEN Groups(Capacity)
                 ELSE ranks * (ChunkLength(Capacity, ranks) \div 4)) - 1) |-> {}]]

Words(ranks) ==
  {<<"flag", g, p>> : g \in 0..(ranks - 1), p \in 0..(ranks - 1)}
    \cup {<<"sem", g, i>> : g \in 0..(ranks - 1), i \in 0..(2 * ranks)}

Init ==
  /\ r \in RankCounts
  /\ calls = 0 /\ n = 1 /\ prog = <<>> /\ seq = 0
  /\ todo = [a \in Agents |-> <<>>]
  /\ data = Memory(r)
  /\ word = [w \in Words(r) |-> 0]

(* set_n, set_input on every rank, all_reduce_sum.                         *)
Call(q) ==
  LET scheme == Scheme(q.algo, q.n)
  IN  /\ prog = <<>> /\ calls < MaxCalls
      /\ calls' = calls + 1
      /\ n' = q.n
      /\ data' = [m \in DOMAIN data |->
                    IF m[1] # "buf" THEN data[m]
                    ELSE [i \in DOMAIN data[m] |->
                            IF i < Groups(q.n) THEN {<<m[2], i, calls'>>}
                                               ELSE data[m][i]]]
      /\ prog' = Program(scheme, q.n, q.pull)
      /\ seq' = seq + SeqSpan(scheme)
      /\ UNCHANGED <<r, todo, word>>

(* The host arms an agent: its work is queued behind what it has, without  *)
(* the phases in which there is nothing to do.                             *)
Phases(work) ==
  FlattenSeq([i \in DOMAIN work |-> IF work[i] = {} THEN <<>> ELSE <<work[i]>>])
HostArm ==
  /\ prog # <<>> /\ Head(prog).do = "arm"
  /\ LET c == Head(prog)
     IN  todo' = [todo EXCEPT ![c.agent] = @ \o Phases(c.work)]
  /\ prog' = Tail(prog)
  /\ UNCHANGED <<r, calls, n, data, word, seq>>

(* The host's wait ends when the agent has drained.                        *)
HostWait ==
  /\ prog # <<>> /\ Head(prog).do = "wait"
  /\ todo[Head(prog).agent] = <<>>
  /\ prog' = Tail(prog)
  /\ UNCHANGED <<r, calls, n, todo, data, word, seq>>

Garbage == {<<-1, -1, -1>>}
Value(l, i) == data[l.mem][l.at + i]
Total(srcs, i) ==
  IF \A x, y \in srcs : x # y => Value(x, i) \cap Value(y, i) = {}
  THEN UNION {Value(l, i) : l \in srcs}
  ELSE Garbage

Run(a, o) ==
  /\ o.op = "await" => word[o.word] = o.val
  /\ todo' = [todo EXCEPT ![a] = IF Head(@) = {o} THEN Tail(@)
                                 ELSE <<Head(@) \ {o}>> \o Tail(@)]
  /\ data' = IF o.op # "sum" THEN data
             ELSE [data EXCEPT ![o.to.mem] = [i \in DOMAIN @ |->
                     IF i \in o.to.at..(o.to.at + o.len - 1)
                     THEN Total(o.from, i - o.to.at) ELSE @[i]]]
  /\ word' = IF o.op = "signal" THEN [word EXCEPT ![o.word] = o.val] ELSE word
  /\ UNCHANGED <<r, calls, n, prog, seq>>

Step(a) == todo[a] # <<>> /\ \E o \in Head(todo[a]) : Run(a, o)

Next ==
  \/ \E q \in Requests(r) : Call(q)
  \/ HostArm
  \/ HostWait
  \/ \E a \in Agents : Step(a)

Spec == Init /\ [][Next]_vars

(* The host thread runs, and some engine that can go on does: less than    *)
(* that each engine goes on with its own queue.                            *)
FairSpec ==
  /\ Spec
  /\ WF_vars(HostArm \/ HostWait)
  /\ WF_vars(\E a \in Agents : Step(a))
-----------------------------------------------------------------------------
(* Types: every agent's work is phases of operations on words and places   *)
(* that exist.                                                             *)
TypeOK ==
  /\ r \in RankCounts /\ calls \in 0..MaxCalls /\ n \in 1..Capacity
  /\ seq \in Nat
  /\ \A w \in DOMAIN word : word[w] \in 0..seq
  /\ \A a \in Agents : \A i \in 1..Len(todo[a]) : \A o \in todo[a][i] :
       IF o.op = "sum"
       THEN \A l \in o.from \cup {o.to} :
              l.at \in DOMAIN data[l.mem] /\ l.at + o.len - 1 \in DOMAIN data[l.mem]
       ELSE o.word \in DOMAIN word /\ o.val \in 1..seq

Returned == prog = <<>> /\ calls > 0

(* "every rank's buffer becomes the elementwise sum across all ranks": when *)
(* a call has returned, every element of every GPU is the sum of that       *)
(* element of all GPUs' inputs of this very call, each counted once.        *)
SumExact ==
  Returned =>
    \A g \in Ranks : \A i \in 0..(Groups(n) - 1) :
      data[<<"buf", g>>][i] = {<<p, i, calls>> : p \in Ranks}

Overlap(l1, len1, l2, len2) ==
  /\ l1.mem = l2.mem
  /\ l1.at < l2.at + len2 /\ l2.at < l1.at + len1

(* Does o1 write what o2 reads or writes?  A copy of a range onto itself   *)
(* leaves it as it is.                                                     *)
Disturbs(o1, o2) ==
  /\ o1.from # {o1.to}
  /\ \E l \in o2.from \cup {o2.to} : Overlap(o1.to, o1.len, l, o2.len)

Running == UNION {{<<a, o>> : o \in {x \in Head(todo[a]) : x.op = "sum"}} :
                    a \in {b \in Agents : todo[b] # <<>>}}

(* "no cross-GPU write conflicts": of two operations that may run at once, *)
(* on any engines of any GPUs, none writes a range the other reads or      *)
(* writes.                                                                 *)
NoConflict ==
  \A x, y \in Running : x # y => ~Disturbs(x[2], y[2])

(* A call returns only when every compute queue and SDMA engine has        *)
(* drained: the caller may then read the result and load the next inputs.  *)
QuietOnReturn == prog = <<>> => \A a \in Agents : todo[a] = <<>>

(* SDMA packets are written without a look at the read pointer, and        *)
(* pointer tables are rewritten in place: both only when the agent that    *)
(* reads them has drained, so no ring is lapped and no table changes under *)
(* a kernel.                                                               *)
RefillsOnlyDrained ==
  (prog # <<>> /\ Head(prog).do = "arm" /\ Head(prog).refill)
    => todo[Head(prog).agent] = <<>>

(* The shares of the vector partition it and its staging slots fit the     *)
(* staging buffers, also when rounding makes a share empty.                *)
ChunksPartition == SharesPartition(n, r, Capacity)

(* Every call returns: no engine waits for a flag, a fence or a release    *)
(* that never comes.                                                       *)
CallReturns == (prog # <<>>) ~> (prog = <<>>)
=============================================================================
