# A verification project for mainarch

mainarch is a Rust runtime that drives AMD GPUs through the kernel driver
(KFD) without a vendor library, with collectives across GPUs and a demo server
that decodes on top of it. This directory holds TLA+ modules of its concurrent
parts, TLC configurations that check them on small instances, and TLAPS proofs.
Paths below are relative to the repository.

## The system

| Component | State | Operations | What is hard |
|---|---|---|---|
| KV block lease pool (`crates/mainarch-cli/src/demo.rs`) | free list under a mutex, atomic gauges, one table per guard | `try_acquire`, `release_blocks`, drop of the guard | gauges outside the mutex, several acquirers |
| Live lane (`demo.rs`, `crates/mainarch-core/src/model.rs`) | bounded channel, `queued` and `in_flight` atomics, the worker's `active` vector, cancellation flags, event and reply channels; on the device the step, token history and block table of the loaded request | `run`, `start_stream`, the stream receive loop; the worker: drain, admit, decode pass, finish; begin, capture, restore and run of a decode step; the cancellation watch | handlers, clients and worker interleave; partial failures; one runner for all requests; 20 s GPU waits |
| OLMo lane (`crates/mainarch-cli/src/olmo_lane.rs`, `crates/mainarch-core/src/olmo2.rs`) | bounded channel, event channels, one KV cache that is never cleared | `submit`, prefill, generate, both handlers | hang-ups, failing steps, sequence limit, a dying worker |
| GPU device dispatch (`crates/mainarch-core/src/gpu.rs`) | kernarg ring, completion signals, dedicated signal leases, `next_signal` | arm, chain, wait, replay, blocking dispatch | signals re-armed after timeouts, errors between two steps |
| Compute AQL queue (`crates/mainarch-core/src/lib.rs`) | packet ring, write index, mailbox, doorbell, read pointer | single, chained and repeated publications | store order between CPU and command processor, ring wrap |
| SDMA queue (`lib.rs`) | dword ring, write pointer, target | copies, fences, polls, commit, wait | a ring written without looking at its reader |
| All-reduce (`crates/mainarch-core/src/multigpu.rs`, `kernels/mainarch_kernels.cl`) | buffers and staging buffers of all GPUs, arrival flags, semaphores, sequence numbers | ten schemes of `all_reduce_sum` | many engines on shared memory, device-side barriers |
| Persistent peer-flag all-reduce (the same files) | control words, peer flags, grid barriers, resident workgroups | host loop, leaders, workgroups, watchdogs | ranks run ahead of each other; a watchdog may fire on one of them |
| Ready-flag all-reduce (the same files) | ready counts and flags, error word | producers, reduce with watchdog, broadcast | inputs that arrive late, or never |
| KFD memory registry, kernel-driver bindings | records of live buffers | allocate, map to peers, free | error returns of the driver |
| Model API, weights, resident runner, CLI, sandbox, tools | mostly none between calls | validators, receipts, sequential drivers | little concurrency |

Connection handlers (a thread each) talk to the live worker by a channel, the
pool's mutex and atomics; the worker owns the device and drives `model.rs`;
`model.rs` arms kernels on `gpu.rs`; `gpu.rs` publishes packets on the queue of
`lib.rs`; the command processor fetches them and decrements signals. The OLMo
lane is a second server of the same program with a runner of its own. The
collectives drive one queue per GPU and the SDMA engines from one host thread;
their kernels meet through flags in each other's memory.

## Modules

| Module | Models | Refines |
|---|---|---|
| `KvBlockLeasePool` | the lease pool, each method split where another thread can look in | |
| `LaneService` | what a caller of the live lane is promised | |
| `LiveLane` | handlers, clients, watch threads and worker; extends the pool | `LaneService` |
| `SerialLane` | what the OLMo lane promises: a line served in order | |
| `OlmoLane` | its handlers, worker and KV cache | `SerialLane` |
| `CommandStream` | a stream of packets, executed once each in order | |
| `AqlQueue` | host, store buffer and command processor around the ring | `CommandStream` |
| `GpuDispatch` | arming, chaining, waiting and replaying on one device | |
| `Chunks` | how a vector is shared out among GPUs and workgroups | |
| `AllReduce` | host programs, kernels and SDMA programs of the ten schemes; extends `Chunks` | |
| `GridBarrier` | the sense-reversing barrier of a kernel's workgroups | |
| `PeerFlagDda` | the persistent all-reduce; extends `GridBarrier` | `GridBarrier` |
| `ReadyFlags` | the all-reduce that waits for ready flags | |
| `*Proofs` | theorems and proofs about the module they are named after | |

`MC*` modules give the constants of the runs. A definition whose name starts
with `Faulty` is a plausible bug of the definition after it; nothing uses it,
and each property is known to fail when one of them is put in place of its
original.

### How the modules correspond to the code

**KvBlockLeasePool.** `free` is `free_blocks` (as a set: the order of the
vector only chooses which blocks a lease gets), `lease[r]` the block table of
r's guard, `inUse` the `kv_blocks_in_use` atomic. `try_acquire` is two
actions, because other threads read the gauge while its mutex is held:
`TryAcquireTake` pops the blocks, `TryAcquirePublish` raises the gauge and
unlocks. `ReleaseBlocks` is the guard's `take()` or drop.

**LiveLane.** `hpc[r]` is the place of r's connection handler in `run` or
`start_stream` and the loop of `respond_chat_completion_stream`; its final
values are what the caller got. `chan` is the `sync_channel`, `queued` and
`inFlight` the atomics, `cancelled[r]`, `events[r]` and `reply[r]` the request's
shared flag, event channel and reply channel. `wpc`, `active`, `idx`, `cur` and
`fin` are the worker's control state: `top`, `recv` and `drain` the outer loop,
`check_free` and `check_gauge` the two reads of `validate_active_kv_ownership`,
`admit` is `admit_live_request`, `decode`, `run` and `emit` the pass over
`active`, and `fin_*` the four effects of `finish_active_live_request` and
`finish_unstarted_live_request` in their order. `runner`, `saved` and `page`
are what `model.rs` keeps on the device: the block table and step that are
loaded, each request's snapshot, and whose KV each block holds.

**LaneService.** A request's phase (idle, rejected, serving, settled,
answered), its steps and its result. The mapping reads the phase from the
lease, the reply, the rejection and the worker's place in the finish
(`Phase` in `LiveLane`).

**OlmoLane.** `chan`, `events[r]` and the locals `pos`, `next`, `generated` are
those of `submit`, the handlers and the worker loop of `olmo_lane.rs`; the
worker's places are its `recv`, `encode`, the prefill loop, the tests of the
generate loop, the step, and the sends. `kv` is the cache of `olmo2.rs`: a
step writes one position and attends to the positions before it, so it yields
the model's next token exactly if they hold this request's tokens. The layers of
a step are one action, but what a step leaves on the device is kept in
`leftover`: chain links without a signal, where a later arm failed, or kernels
that are still to lower the runner's one shared signal, where a wait timed out
(`gpu.rs:648`). In the second case each later wait ends with the layer before
its own, because every layer re-arms the same signal (`gpu.rs:744-748`), so a
step armed behind them (`OvertakenStep`) may return before its own last kernels
have run, and then leaves those for the next step or request. `overtaken`
remembers every request that had such a step. `WorkerDies` is a panic. The
mapping to `SerialLane` reads a request's phase from its result, the channel
and `cur`.

**AqlQueue.** `writeIndex` is `write_index`, `mailbox`, `doorbell`, `ring` and
`readPtr` the shared memory. The code says it is written for weakly ordered
paths, so the host's stores go through `buffer`, which drains in every order
that coherence, release stores and fences allow. Each publisher
is `WritePackets`, `WriteIndexes`, `PublishDone`, and `AbandonPackets` for the
error return in between. The command processor is not part of the repository;
`Fetch`, `ReportReadPtr` and `Sleep` are what the code's comments and guards
take it to do. The guards that read a packet and the mailbox back
(`lib.rs:3424-3438`, `3491-3504`) have no action: nobody but this thread stores
there, and a thread reads its own store, so in coherent memory they cannot fail.

**GpuDispatch.** `kargIdx`, `unretired`, `nextSignal`, `nextDedicated` and
`lease` are fields of `GpuDevice` (`karg_idx`, `unretired_kernargs`,
`next_signal`, the requested dedicated slot, the lease states), `value` the
signals in shared memory, `pending` the queue. `linked` and `waiting` are the
caller: whether it asked for a chain link, and whether it now waits. `Arm`
stands for the `arm_*` methods, `Replay` for the replayed descriptor chains,
`ArmFailsEarly` and `ArmFailsLate` for their error returns before and after the
signal's checkout, `WaitTimesOut` for `poll_until` giving up.

**Chunks, AllReduce.** `Chunks` has `round_up4` and the `chunk_off`/`chunk_len`
closures of the host next to the owner index and burst slices of the kernels.
In `AllReduce` a call becomes a program of the host (`prog`: arm this work on
that agent, wait for that agent), written by one operator per scheme of
`multigpu.rs`; the work of an agent is the phases of its kernel or SDMA program,
written by one operator per kernel. Operations of a phase run in any order and
interleave with all other agents; the next phase starts when all are done.
`data` gives each group of four floats the set of inputs summed into it,
tagged with rank, position and call, so that a sum that misses, repeats or
takes a stale input is a different value. `BySize` and `Scheme` pick the scheme
as the code does, with its thresholds as constants. Where `multigpu.rs` writes SDMA packets
or pointer tables in place, the command is marked `refill`.

**GridBarrier.** `arrived` and `sense` are the two words of `gbar`; the places
of a workgroup are the load of the sense, the `fetch_add`, the reset, the flip
and the spin of `grid_barrier`. `entered`, `left` and `gaveUp` are history.

**PeerFlagDda.** `hpc` follows the loop of `benchmark_persistent_dda_peer_flat`,
`ctrlGo`, `ctrlDone` and `err` are the control words it shares with the kernel,
`flag` the peer flags, and `wpc` the workgroups' places in
`allreduce_dda_peer_persistent`. A leader's loops over its peers take one step
per peer. Each spin may end by its watchdog at any time, as may the host's.

**ReadyFlags.** `count`, `flag` and `error` are `direct_ready_counts`,
`direct_ready_flags` and the flags' last word. `terminal` chooses whether the
GEMVs publish or a packet behind each does, `bad` is the producer that fault
injection poisons. Each workgroup of the reduce kernel polls, may trip,
re-reads the error word, and sums or not; the broadcast runs behind it.

## Runs

| Run | What it shows | Bounds |
|---|---|---|
| `lane_safety` | `TypeOK`, `LeaseExclusive`, `OwnershipCheckPasses`, `StepIsolated`, `ResultIsFinal` (and each request that ended is in one total), `QueuedExact`, `ResultReadyAtStreamEnd`, and the safety of `LaneService` (`ImplementsService`) | 3 requests, 4 blocks in tables of 2: two leases at a time, a third is denied; two streams (one of a single token, one whose client may leave) and one plain request; every admission and decode may fail |
| `lane_liveness` | `ChannelNeverFull`, `ImplementsFairService`, `EveryRequestEnds` | 2 requests and 2 leases at a queue limit of 1: the counter, not the pool, is what refuses; decodes may fail and leave kernels behind |
| `lane_hang` (violation) | `LeaseCoversDecode`, a statement of a metric's help text | as `lane_liveness`, at a queue limit of 2 |
| `olmo_lane` | `TypeOK`, `OutputExact`, the lane implements `SerialLane` with its fairness (`ImplementsFairLane`), `EveryCallEnds` | 3 prompts over a channel of 2 and a cache of 3 positions: one answer ends at the cache's end, one at its end of sequence, one prompt is too long; steps fail, kernels are left over, a client leaves, the worker dies |
| `aql_queue` | `TypeOK`, `AnnouncedComplete`, `ChainVisibleWithFirstHeader`, and the queue implements `CommandStream`: each packet once, in order, and, wake-ups included, every packet in the end (`ImplementsFairStream`) | ring of 4 slots, 3 publications of up to 3 packets: the ring wraps and fills with the read pointer lagging |
| `dispatch` | `TypeOK`, `WaitMeansRetired`, `KernargStable`, `WaitReturns` | 6 dispatches over 3 kernarg slots and 2 dedicated signals: the kernarg ring laps |
| `dispatch_faults` | `DedicatedSound` after failed arms and expired waits | 5 dispatches, 2 slots, 2 dedicated signals |
| `dispatch_timeout`, `dispatch_failure` (violations) | `WaitMeansRetired` fails once the caller goes on after an error | 4 dispatches, 2 slots |
| `allreduce` | `TypeOK`, `SumExact`, `NoConflict`, `QuietOnReturn`, `RefillsOnlyDrained`, `ChunksPartition`, `CallReturns` | two calls in a row, of any two of the listed schemes, on 1, 2 and 3 GPUs, with equal, short and empty shares and lengths that are no multiple of four; the second call meets what the first left in flags, semaphores and staging |
| `dda_peer` | `TypeOK`, `BarrierHolds`, `OutExact`, `InputsStable`, `OperationsEnd`, `KernelsRetire` | 2 ranks of 2 workgroups, 2 operations: one rank can be an operation ahead of another; every watchdog may fire |
| `ready_flags` | `TypeOK`, `OkMeansExact`, `WaitReturns` | 2 ranks, 2 workgroups, 2 operations, counters of 8 values (a poisoned one wraps); producers late, poisoned or never run |

Why the bounds are enough. The lane's properties are about two requests in the
decode pass and a third that is rejected, queued or admitted meanwhile; two
decode steps give a first, a middle and a last state of a request. Reuse of
state between operations (flags, counts, staging, the KV cache) needs two of
them, and interference needs two or three actors. Three GPUs are the first
number with an empty share and a peer that is neither oneself nor one's
partner. The theorems below remove the bounds where they are proved.

Deadlock is not checked: every system here may rest, when all requests have
ended, after the last call, or when all kernels have retired. What has to go
on is stated by the liveness properties. `MaxPublications`, `MaxDispatches`,
`MaxCalls`, `TotalOps` (also a parameter of the code) and `MaxOps` bound how
much work there is; requests are bounded by the constant `Request`, each being
submitted once. Blocks are interchangeable, so `lane_safety` reduces by
symmetry over them; no run with fairness uses symmetry.

### Fairness

- `LiveLane`: weakly fair to the worker and to each handler. They are
  operating system threads that block only in channel receives, the pool's
  short critical sections and GPU waits, and every GPU wait has a timeout. The
  clients and the cancellation watch are not fair: nobody has to leave.
  `HungRetires` is not fair, so nothing depends on abandoned kernels ending.
- `OlmoLane`: weakly fair to the worker, and to the handlers together. The
  clients, a panic, and the retirement of leftover kernels are not fair.
- `AqlQueue`: stores reach memory and an awake command processor fetches;
  nobody need publish, nor the processor report its read pointer.
- `GpuDispatch`: kernels terminate and a poll that can succeed does.
- `AllReduce`: the host thread runs, and some engine that can go on does. This
  is less than that each engine goes on, which is what hardware queues do.
- `PeerFlagDda`: the host thread, and each resident workgroup with its
  watchdogs: every spin in the kernel counts its rounds. Neither the flags nor
  the other ranks are assumed to come.
- `ReadyFlags`: the host and rank 0's queue. Nothing is assumed of producers.

## Disagreements found

| Run | Code | Said |
|---|---|---|
| `lane_hang` | a lease is released although the kernels of its timed-out decode still run (`demo.rs:1112`) | leases are released "after live decode exits" (`demo.rs:2041`) |
| `dispatch_timeout` | after an expired wait the same signal is armed again, and the late completion ends the next wait (`gpu.rs:747`) | "Wait for the most recently armed dispatch to retire." (`gpu.rs:646`) |
| `dispatch_failure` | a link that fails to arm leaves `next_signal` false, so the next dispatch is not waited for (`gpu.rs:347`) | the same |

In `lane_hang` a request is admitted and restored, its decode step fails on an
expired wait, and its lease goes back. `dispatch_timeout` and
`dispatch_failure` need a caller that goes on with its device after an arm or a
wait returned an error, as the live worker does when a decode step fails and it
keeps the runner for the other requests, and the OLMo worker with its next
prompt.

Seen in the code and not given a run of its own:

- A failed arm advances `karg_idx` but not the counter that guards the ring
  (`gpu.rs:12682`), so after failed arms a slot in use can be overwritten:
  `KernargStable` fails in `dispatch` with `MayFail = TRUE`.
- A request cancelled between two decode steps is counted in a total described
  as "cancelled before execution" (`demo.rs:1127`, `demo.rs:1951`).
- `mainarch_num_requests_waiting` is `queued` minus one while the lane is busy
  (`demo.rs:1902`), so with two requests decoding it reports one as waiting.
- What `dispatch_timeout` means for the OLMo lane: after a step timed out, steps
  of the next requests can return a token while their own LM head has still to
  run (`wpc = "generate" => leftover = "nothing"` fails in `olmo_lane`), where
  the code says "`dev.wait` returned above, so the LM head dispatch has retired"
  (`olmo2.rs:1571`) and that no dispatch is in flight (`olmo2.rs:1529`). The
  exception for `overtaken` requests in `OutputExact` is what this costs.
- When the OLMo worker dies, the JSON handler answers with the text it has as if
  it were complete, a stream ends without a final chunk, and later prompts are
  refused as if the queue were full. Requests whose client hung up count as
  completed, and the finish reason is always "length".
- Where a packet behind the GEMV publishes the ready flag, the poisoned counter
  that is to inject a fault has no effect: `OkMeansExact` promises a failure only
  where the GEMVs publish.
- After a grid barrier gave up, its count stays where it was.

## Proofs

All theorems hold for every value of the constants. They assume what the
modules' `ASSUME`s say: finitely many requests, blocks and workgroups, positive
sizes, each stream's steps in their range, and for `AllReduce` calls with one of
the `MAINARCH_ALLREDUCE_ALGO` values (any other value is `"auto"`, as in the code)
and a length that fits the buffers.

| Theorem | Of | Says |
|---|---|---|
| `PoolInvariant`, `PoolGaugeExact`, `PoolLeaseComplete`, `PoolLeaseExclusive` | the pool | its gauge is exact, tables are complete and disjoint |
| `LaneInvariant` | the lane | the inductive invariant `LaneInv` |
| `LaneLeaseExclusive`, `LaneNoLeaseLeak`, `LaneResultIsFinal`, `LaneResultReady`, `LaneOwnershipCheckPasses` | the lane | the properties of the same names |
| `LaneStepIsolated` | a lane without hanging decodes | each decode step runs on its own request's state |
| `LaneQueuedExact`, `LaneTypeCorrect`, `LaneChannelNeverFull` | the lane | its counters, and the queue limit they enforce |
| `LaneImplementsService` | the lane | every behaviour is one of `LaneService` |
| `DispatchType`, `DispatchDedicatedSound` | dispatch, with or without faults | types; soundness of dedicated signals |
| `DispatchWaitMeansRetired`, `DispatchKernargStable` | dispatch without faults | truthful waits; stable kernel arguments |
| `QueueInvariant`, `TypeCorrect`, `AnnouncedPacketsComplete`, `ChainVisible` | the AQL queue | a packet the processor may fetch is complete in memory, under every order in which stores drain |
| `QueueImplementsStream` | the AQL queue | every behaviour is one of `CommandStream` (`ImplementsStream`, the safety in `ImplementsFairStream`) |
| `OlmoInvariant`, `TypeCorrect`, `OutputAlwaysExact` | the OLMo lane | each answer is the prompt's own, whatever the cache held before, unless a step of it was armed behind leftover kernels |
| `LaneImplementsSerialLane` | the OLMo lane | every behaviour is one of `SerialLane` (`ImplementsSerialLane`, the safety in `ImplementsFairLane`) |
| `SharesAlwaysPartition`, `ShortSharesAtTheEnd`, `BurstsPartition`, `ChunksPartitionAlways` | `Chunks`, `AllReduce` | shares and bursts partition a vector of any length |
| `HostInvariant`, `TypeCorrect`, `QuietWhenReturned`, `RefillsDrained` | the all-reduce, all ten schemes | engines work within memory; a call returns with all engines drained; no ring or table is rewritten under its reader |
| `FlowingAlways`, `NoConflictAlways`, `SumExactAlways` | the all-reduce, all ten schemes | no two operations that may run at once disturb each other; a returned call leaves the exact sum on every GPU |
| `BarrierAlwaysHolds` | the grid barrier | nobody leaves before all have entered, in any number of uses |
| `ImplementsBarrier`, `DdaBarrierHolds` | the persistent all-reduce | it uses the barrier as specified, so the barrier holds in it |
| `AcceptedIsExact`, `InputsAreStable`, `TypeCorrect` | the persistent all-reduce | accepted operations are exact; inputs are never written under a reader |
| `OkIsExact`, `TypeCorrect` | the ready-flag all-reduce | Ok means the exact sum on every rank |

The proofs of the pool are in `LiveLaneProofs`, next to the lane that extends
it, and those of the barrier in `PeerFlagDdaProofs`. `AllReduceProofs` has the
host's theorems and what all schemes share of moves and their order;
`AllReduceSumProofs`, which extends it, goes through the ten schemes and proves
`NoConflict` and `SumExact`.

**The pool.** `PoolInv` is its properties together with its types: releasing
may subtract only what was counted, which needs that the tables are disjoint
from the free list, and that `lease[r]` is what was taken from it.

**The lane.** No property of the lane is inductive alone. `LaneInv` says where
everything is: a request is with its handler, in the channel, with the worker
as `cur`, or in `active`, and in one place only (`Places`); what
the worker's program counter implies (`Control`); that a lease is held exactly
from its acquisition to the first step of the finish (`Leases`); that a reply
is there exactly once the request is past that finish (`Replies`); and whose
state is in the snapshot, the runner and the pages (`Decoding`). The pool's
step lemmas carry `PoolInv` through the lane's steps. `Counters` adds the
cardinalities: `queued` counts the requests between their fetch_add and their
fetch_sub, and those of them that were not over the limit are at most
`QueueLimit`, because each compared the value before it with the limit.
`LaneChannelNeverFull` follows: the channel's requests and the sender are
different members of that set.

**The lane's refinement.** `ServiceInv` adds what the abstract guards need: an
active request has a step to go (`StepsInv`), the outcome about to be reported
is true (`OutcomeInv`), and the blocks outside the free list are the tables of
the lease holders (`SlotsInv`), which makes "one more table fits" the same as
"one more slot is free". Then each action is shown to be a step of
`LaneService` or to leave all phases alone: the take of a lease accepts, a
rejection rejects, a successful decode step is one, the release settles, the
reply delivers.

**The queue.** What the processor may fetch is safe only because of what is
still in the store buffer, so `QueueInv` is about the buffer. `Settles`: for
every packet of the latest publication, the last store to its slot that is
still buffered, or the slot if there is none, holds what that publication
wrote, whatever an abandoned one left behind in the same slots.
`FirstHeaderLast`: while packet stores are buffered, the last of them is the
first header's, and its release keeps it behind all others. `PacketStoresOnly`
and `Indexes`: no buffered store lies in a slot that may still be read.
`IndexStoresOnly`: when the mailbox store goes out, the buffer holds nothing
else but the doorbell store behind it; so the packets have settled in memory,
which makes `AnnouncedComplete` carry over to what the mailbox announces. With
`Histories`, the drain of the mailbox store is an `Accept` of `CommandStream`
and a fetch an `Execute`, and all other steps leave the stream alone.

**The OLMo lane.** The KV cache outlives the request, so exactness rests on an
order: `WorkInv` says that below the position of the request in service every
cell was written by this request, that the position is the prompt's length
plus the tokens sent, and that the next token is the right one. `PlaceInv` puts
a request in one place (with its handler, in the channel, in service), and
`EventInv` says that what a request was sent, received or not, is a run of its own
tokens and at most one end. A request that had a step armed behind leftover
kernels is excepted, as in the property; it stays excepted, and whoever runs
before those kernels and the ones it left itself have retired is excepted too,
so that the others start and go on with a quiet device. The phases of
`SerialLane` are then read off the places (`PhaseInv`), and each step of
worker, handlers and clients is one of its steps or changes no phase; that
"enough" tokens means the same in both is `WantedIs`.

**Dispatch.** `ChainInv`: without faults the caller's idea of a chain and
`next_signal` agree, only the newest packet carries a signal, and the polled
signal is at one until it retires. `KernargInv`: the slots of queued packets
lie behind `karg_idx` by at most the number of unretired dispatches, so a
smaller number than slots leaves the next one free. `DedicatedInv`: a queued
packet's dedicated signal is leased, at one, and no other packet's.

**Shares.** Arithmetic about `ChunkLength` for every length and number of
GPUs; the state part of `ChunksPartition` is only that `n` stays in its range.

**The barrier.** `BarrierHolds` says nothing of the words the barrier is made
of. `RoundInv` gives each GPU a round k: a workgroup is before its barrier k + 1,
in it with the current sense saved, or a straggler that still spins on the old
sense of barrier k. The word `arrived` is the number of those counted in this
round, and whoever resets and flips is the last of them. Once a workgroup gives
up there is no round any more, which is why the property excepts that GPU.

**The all-reduce.** A host program is a sequence built by folds, of a length
that depends on the number of GPUs, so nothing can be said of it by cases. It is
described by its places instead: `Settled(p, S, W)` says that program p arms
only agents of S, with work of W, waits for an agent somewhere after each arm of
it, and between an arm and a later refill of the same agent. A loop that arms
each of some agents once (`ArmBlock`) before a loop that waits for them all
(`WaitBlock`) is a settled round (`Round`); settled programs can be joined
(`SettledJoin`) or run inside an open round of other agents (`Around`, the
concurrent scheme), and work without a refill may be queued behind a round that
is still open (`FollowUp`). Each scheme is put together from these, down to
`ProgramSettled`, where W is the work that stays within the buffers, staging
slots and words (`Works`): that is where the shares, tiles and parts must fit.
`Covered` carries it through a run: the rest of the program waits for every
agent that has work, and before it refills it. A returned host has no program
left, so nobody has work; a refill at the head has nothing before it, so its
agent has none. `HostInv` is both with the shapes of memory.

**The sum.** `SumExact` is about all engines at once: a sum is exact only if
every input is in place when it is read and nobody writes there meanwhile. Ten
schemes would need ten such invariants, so the proof first takes what they have
in common. Seen from the vector, every operation is a *move*: it scatters a
range of a share to a staging slot (level 0), sums a range from the slots or
from the peers' buffers (level 1), or gathers the sum to a peer (level 2). Two
moves disturb each other (`Clash`) only where their ranges meet, and not when
they are copies of a range to different peers (`ApartMoves`); of two that do,
the one of lower level has to come first (`After`). It remains to show of each scheme:

- *Order.* Of two arms whose work clashes, the one of lower level comes first,
  and the host waits for its agent in between (`Orderly`). The schemes that meet
  on the device, one-shot, concurrent and device-coordinated, have agents that
  the host does not keep apart. For them the order follows from signals and
  waits: y of one agent cannot be done while x of another is not, if a chain of
  phases, signals and waits leads from x to y (`Behind`, `Linked`).
- *Service.* Every cell of the vector is summed by its owner, from the buffers or
  from slots that all peers have scattered to, and the sum is gathered by every
  other GPU (`Serves`), and the cells are the whole vector (`Tiled`).

Lemmas that join programs, rounds of a scheme, tiles and the two partitions of
the concurrent scheme keep both, as `Settled` is kept. `ProgramLaden` sums up
all ten schemes with their fallbacks.

In a run, `Led` carries the order: of what agents still have to do and what is
still to be armed, clashing work is in order (`Arranged`), and no wait is passed
before its signal, because a word holds the number of a barrier only once
its signal of this call is done, whatever earlier calls left there (`Synced`).
So an operation that may run comes before everything due that clashes with it
(`DueAfter`), two that may run at once do not clash (`NoConflictAlways`), and
none is done twice, except copies of a range onto itself (`DueOnce`). `Flow`
then follows the data, for every place of the vector: while its scatter or
direct sum is due, the inputs are there; while its staged sum is due, each of its
slots is filled or due to be; and the sum and each copy of it are there or due.
A move finds what it reads and spoils nothing that is still to be read, since
that would clash with a move that comes later (`FlowStep`). `FlowingAlways` is
the two together, under some layout and set of moves; a state has so many of
them that TLC cannot look for one, so it checks the two properties that follow.
A returned host has no work due, so all buffers hold the sum of this call.

**The persistent all-reduce.** Each of its steps is a step of `GridBarrier` or
leaves the barrier alone, so `BarrierInv` carries over. `DdaInv` then ties
everything to barrier counts, because they are all that ranks have in common:
a workgroup's place and operation are its number of barriers (`Progress`);
no rank is ahead of the host's word (`Started`); a consumed flag means that the
leader that set it has left the barrier after the sum (`FlagsMean`); the done
word means all consumed flags (`DoneMeans`); so a host that read no error and
the done word knows that every workgroup of every rank has summed
(`HostInv`, `SlicesExact`). An error only ends things early: a leader that saw one
cannot signal, and a barrier gives up only on a rank that has one
(`ErrorsSeen`, `GivesUpAfterError`).

**The ready-flag all-reduce.** `CountExact`: a ready count is the number of
workgroups that have counted, one behind if poisoned, so only the last one of an
intact producer publishes. Hence a set flag means that the input is written
(`FlagMeansWritten`), and without an error nobody has passed the flags before
all were set (`PassedReady`). `InputInPlace` and `SumInPlace` follow what each
slice holds until the broadcast has copied it.

**Only model-checked.** Everything under fairness (`EveryRequestEnds`,
`ImplementsFairService`, `WaitReturns`, `CallReturns`, `OperationsEnd`,
`KernelsRetire`, `EveryCallEnds`, `ImplementsFairLane`,
`ImplementsFairStream`): liveness and ENABLED are out of reach of the prover.
Every safety property of the passing runs is a theorem.

## What the models leave out

- HTTP, JSON, latency metrics, printing and the contents of tokens.
- What kernels that outlive a failed wait write. `StepIsolated` is therefore
  checked and proved for a lane whose failed decodes leave nothing running;
  `LeaseCoversDecode` shows why that matters.
- Branches of the lane that cannot be reached: the disconnected receive, the
  worker's test of `max_tokens` before a step, and the error branches that
  `ChannelNeverFull` and `OwnershipCheckPasses` show dead.
- A panic of a thread of the live lane, which would poison the pool's mutex.
- In `GpuDispatch`, the packets' way through the ring (that is `AqlQueue`),
  the argument layouts, and devices that use both replay and dedicated signals,
  which no program does.
- In `AllReduce`, watchdogs, poll budgets and arming errors: an SDMA poll gives
  up after a fixed number of retries, which the code takes to be longer than
  any kernel, and the model has no clock to compare them. Numeric rounding is
  left out too: a sum is the set of what was added.
- In `PeerFlagDda`, a host that frees the buffers after it timed out while
  kernels still run, and the flags that the one-shot all-reduce of the same
  group would find afterwards; and a barrier whose spin cap (four billion loads)
  runs out while all workgroups are alive, which would take a host or peer that
  keeps the leader waiting that long.
- In `ReadyFlags`, the refusal of a damaged descriptor by a GEMV
  (`mainarch_kernels.cl:14544`), which returns without computing while a packet
  behind it still publishes. The refusal is left in a status buffer, which the
  caller validates (`main.rs:111070`).
- Packet ids are 64 bits wide, sequence numbers 32, and neither wraps in the
  model.

### Not modelled

The components marked `not_modelled` in `PROJECT.json`, with the reason there.
They are most of the repository's lines: `main.rs` of the CLI, `model_api.rs`,
`weights.rs`, `resident_runner.rs`, the bridge loop and most of `gpu.rs`
(argument layouts, validators and numeric self-tests) are over 300 000 of
318 000. They are pure functions of their inputs (validators, builders and
printers of receipts), or one thread that runs a fixed list of steps and stops
at the first error. There is no interleaving, retry or protocol in them for a
state machine to say anything about, so the part of the repository that is
modelled is small in lines and large in behaviour. Of the concurrent parts, not modelled
are the other persistent kernels and the fused residual and normalisation
variants of the all-reduce, and the pair-of-queues batches of the AQL queue:
they repeat the protocols modelled here with other arithmetic or a second ring.

## Plan

1. Done: pool, live lane, abstract service; AQL queue and command stream;
   dispatch; the all-reduce schemes with SDMA; grid barrier, persistent and
   ready-flag all-reduce; OLMo lane and its abstract specification.
2. Done: proofs of the pool, the lane and the OLMo lane with their refinements,
   the AQL queue with its refinement, dispatch, the shares, the host programs of
   all schemes and the sums they compute, the barrier, and the two flag-driven
   all-reduces.
3. Left: a model of the pair-of-queues batches.
