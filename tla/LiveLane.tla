------------------------------ MODULE LiveLane ------------------------------
(***************************************************************************)
(* The live lane of demo-serve (crates/mainarch-cli/src/demo.rs): one      *)
(* worker thread that owns the GPU and interleaves the decode steps of     *)
(* several requests, and one connection handler thread per request that    *)
(* counts the request in, leases its KV blocks, queues it and waits.       *)
(*                                                                         *)
(* The request-private device state (step, token history, block table) is  *)
(* saved and restored around every decode step, because all requests share *)
(* one runner (crates/mainarch-core/src/model.rs).                         *)
(*                                                                         *)
(* Branches the program cannot reach have no action: the disconnected      *)
(* receive (serve keeps the sending end for ever), the worker's max_tokens *)
(* test before a step (collective_entry_gate refuses a request for zero    *)
(* tokens and a request leaves with its last step), and the error branches *)
(* that ChannelNeverFull and OwnershipCheckPasses show dead.  Timing       *)
(* metrics, HTTP and JSON are left out.                                    *)
(*                                                                         *)
(* A definition that starts with Faulty is a plausible bug of the one that *)
(* follows it.  Nothing uses it: put in its place, it breaks a property.   *)
(***************************************************************************)
EXTENDS KvBlockLeasePool, Sequences

CONSTANTS
  QueueLimit,    \* LIVE_LANE_QUEUE_LIMIT
  Stream,        \* requests served by start_stream; the others use run
  ProofTokens,   \* PROOF_STREAM_TOKENS, the steps of a request served by run
  StreamSteps,   \* streamed request -> max_steps, from its max_tokens
  MayLeave,      \* the clients that may close their connection early
  DecodeMayHang  \* can a failed decode leave its kernels running?

ASSUME LaneAssumption ==
  /\ QueueLimit \in Nat \ {0}
  /\ Stream \subseteq Request
  /\ ProofTokens \in Nat \ {0}
  /\ StreamSteps \in [Stream -> 1..ProofTokens]
  /\ MayLeave \subseteq Request
  /\ DecodeMayHang \in BOOLEAN

None == "none"
Kinds == {"completed", "cancelled", "failed"}
Rejections == {"queue_full", "kv_unavailable"}
Outcomes == Rejections \cup {"answered", "write_failed", "result_missing"}

VARIABLES
  hpc,        \* handler of each request: where it is, or its outcome
  queued,     \* LiveLane.queued
  chan,       \* the bounded channel from the handlers to the worker
  gone,       \* has the client closed its connection?
  cancelled,  \* the request's shared cancellation flag
  events,     \* stream events sent by the worker and not yet received
  reply,      \* the result sent on the request's reply channel
  wpc,        \* the worker's place in live_lane_worker
  active,     \* the worker's vector of active requests
  idx,        \* index into active of the decode loop
  cur,        \* the request being admitted or finished
  fin,        \* how cur is being finished, and where to go on afterwards
  inFlight,   \* LiveLane.in_flight
  generated,  \* generated_steps of each request
  opened,     \* are the device and the shared runner there?
  runner,     \* the state loaded in the shared runner
  saved,      \* each request's CachedModelDecodeProofState
  page,       \* whose KV data each physical block holds
  hung,       \* requests whose abandoned kernels still run
  totals      \* the completed, cancelled and failed counters

handlerVars == <<hpc, gone>>
workerVars == <<wpc, active, idx, cur, fin>>
gpuVars == <<generated, opened, runner, saved, page, hung>>
laneVars == <<hpc, queued, chan, gone, cancelled, events, reply, wpc, active,
              idx, cur, fin, inFlight, generated, opened, runner, saved, page,
              hung, totals>>
vars == <<poolVars, laneVars>>

Snapshot == [table : SUBSET Block, step : Nat]
Blank == [table |-> {}, step |-> 0]
NotFinishing == [kind |-> None, resume |-> None]

(* The decode steps a request asks for. *)
StepsAsked(r) == IF r \in Stream THEN StreamSteps[r] ELSE ProofTokens

(* The values that occur in a sequence. *)
Elements(s) == {s[i] : i \in 1..Len(s)}

(* active.remove(idx) *)
Without(s, i) == SubSeq(s, 1, i - 1) \o SubSeq(s, i + 1, Len(s))

FaultySenderDroppedEarly(r) == r \in Elements(chan) \cup Elements(active)

(* The stream sender lives in the request, so the receiver sees the end of *)
(* the stream once the request has left the queue and the worker.          *)
SenderAlive(r) == r \in Elements(chan) \cup Elements(active) \cup {cur}

Init ==
  /\ PoolInit
  /\ hpc = [r \in Request |-> "start"]
  /\ queued = 0
  /\ chan = <<>>
  /\ gone = [r \in Request |-> FALSE]
  /\ cancelled = [r \in Request |-> FALSE]
  /\ events = [r \in Request |-> 0]
  /\ reply = [r \in Request |-> None]
  /\ wpc = "top"
  /\ active = <<>>
  /\ idx = 0
  /\ cur = NoRequest
  /\ fin = NotFinishing
  /\ inFlight = FALSE
  /\ generated = [r \in Request |-> 0]
  /\ opened = "nothing"
  /\ runner = Blank
  /\ saved = [r \in Request |-> Blank]
  /\ page = [b \in Block |-> NoRequest]
  /\ hung = {}
  /\ totals = [k \in Kinds |-> 0]

-----------------------------------------------------------------------------
(* Connection handlers: LiveLane::run and LiveLane::start_stream.          *)

Goto(r, place) == hpc' = [hpc EXCEPT ![r] = place]

FaultyCountInOffByOne(r) ==
  /\ hpc[r] = "start"
  /\ queued' = queued + 1
  /\ Goto(r, IF queued > QueueLimit THEN "over" ELSE "counted")
  /\ UNCHANGED <<poolVars, chan, gone, cancelled, events, reply, workerVars,
                 inFlight, gpuVars, totals>>

(* queued.fetch_add(1), and the comparison of the value it returned. *)
CountIn(r) ==
  /\ hpc[r] = "start"
  /\ queued' = queued + 1
  /\ Goto(r, IF queued >= QueueLimit THEN "over" ELSE "counted")
  /\ UNCHANGED <<poolVars, chan, gone, cancelled, events, reply, workerVars,
                 inFlight, gpuVars, totals>>

(* Over the limit: count out again and report a full queue. *)
RejectFull(r) ==
  /\ hpc[r] = "over"
  /\ queued' = queued - 1
  /\ Goto(r, "queue_full")
  /\ UNCHANGED <<poolVars, chan, gone, cancelled, events, reply, workerVars,
                 inFlight, gpuVars, totals>>

(* kv_pool.try_acquire returns None. *)
LeaseDenied(r) ==
  /\ hpc[r] = "counted"
  /\ TryAcquireDenied(r)
  /\ Goto(r, "denied")
  /\ UNCHANGED <<queued, chan, gone, cancelled, events, reply, workerVars,
                 inFlight, gpuVars, totals>>

FaultyRejectStaysCounted(r) ==
  /\ hpc[r] = "denied"
  /\ Goto(r, "kv_unavailable")
  /\ UNCHANGED <<poolVars, queued, chan, gone, cancelled, events, reply,
                 workerVars, inFlight, gpuVars, totals>>

(* No lease: count out again and report that no KV block is available. *)
RejectNoBlocks(r) ==
  /\ hpc[r] = "denied"
  /\ queued' = queued - 1
  /\ Goto(r, "kv_unavailable")
  /\ UNCHANGED <<poolVars, chan, gone, cancelled, events, reply, workerVars,
                 inFlight, gpuVars, totals>>

LeaseTake(r) ==
  /\ hpc[r] = "counted"
  /\ TryAcquireTake(r)
  /\ Goto(r, "acquiring")
  /\ UNCHANGED <<queued, chan, gone, cancelled, events, reply, workerVars,
                 inFlight, gpuVars, totals>>

LeasePublish(r) ==
  /\ hpc[r] = "acquiring"
  /\ TryAcquirePublish(r)
  /\ Goto(r, "leased")
  /\ UNCHANGED <<queued, chan, gone, cancelled, events, reply, workerVars,
                 inFlight, gpuVars, totals>>

(* tx.try_send.  ChannelNeverFull shows that its error branch is dead.     *)
Send(r) ==
  /\ hpc[r] = "leased"
  /\ chan' = Append(chan, r)
  /\ Goto(r, IF r \in Stream THEN "streaming" ELSE "waiting")
  /\ UNCHANGED <<poolVars, queued, gone, cancelled, events, reply, workerVars,
                 inFlight, gpuVars, totals>>

(* run: done.recv returns the result. *)
TakeReply(r) ==
  /\ hpc[r] = "waiting"
  /\ reply[r] # None
  /\ Goto(r, "answered")
  /\ UNCHANGED <<poolVars, queued, chan, gone, cancelled, events, reply,
                 workerVars, inFlight, gpuVars, totals>>

-----------------------------------------------------------------------------
(* Streaming handlers: the receive loop of respond_chat_completion_stream. *)

(* An event arrives and is written to the connection. *)
StreamChunk(r) ==
  /\ hpc[r] = "streaming"
  /\ events[r] > 0
  /\ ~cancelled[r]
  /\ events' = [events EXCEPT ![r] = @ - 1]
  /\ UNCHANGED <<poolVars, hpc, queued, chan, gone, cancelled, reply,
                 workerVars, inFlight, gpuVars, totals>>

(* The write fails because the client is gone: the handler cancels the     *)
(* request and returns, which drops both of its receivers.                 *)
StreamWriteFails(r) ==
  /\ hpc[r] = "streaming"
  /\ events[r] > 0
  /\ ~cancelled[r]
  /\ gone[r]
  /\ events' = [events EXCEPT ![r] = @ - 1]
  /\ cancelled' = [cancelled EXCEPT ![r] = TRUE]
  /\ Goto(r, "write_failed")
  /\ UNCHANGED <<poolVars, queued, chan, gone, reply, workerVars, inFlight,
                 gpuVars, totals>>

(* An event arrives after the cancellation: the loop is left early. *)
StreamBreak(r) ==
  /\ hpc[r] = "streaming"
  /\ events[r] > 0
  /\ cancelled[r]
  /\ events' = [events EXCEPT ![r] = @ - 1]
  /\ Goto(r, "broke")
  /\ UNCHANGED <<poolVars, queued, chan, gone, cancelled, reply, workerVars,
                 inFlight, gpuVars, totals>>

(* The channel is drained and its sender dropped: the loop ends. *)
StreamEnd(r) ==
  /\ hpc[r] = "streaming"
  /\ events[r] = 0
  /\ ~SenderAlive(r)
  /\ Goto(r, "ended")
  /\ UNCHANGED <<poolVars, queued, chan, gone, cancelled, events, reply,
                 workerVars, inFlight, gpuVars, totals>>

(* done.recv_timeout(1s) returns the final result. *)
StreamResult(r) ==
  /\ hpc[r] \in {"ended", "broke"}
  /\ reply[r] # None
  /\ Goto(r, "answered")
  /\ UNCHANGED <<poolVars, queued, chan, gone, cancelled, events, reply,
                 workerVars, inFlight, gpuVars, totals>>

(* A second passes without a result: stream_final_result_missing.  That    *)
(* it cannot happen at "ended" is ResultReadyAtStreamEnd.                  *)
StreamResultMissing(r) ==
  /\ hpc[r] \in {"ended", "broke"}
  /\ reply[r] = None
  /\ Goto(r, "result_missing")
  /\ UNCHANGED <<poolVars, queued, chan, gone, cancelled, events, reply,
                 workerVars, inFlight, gpuVars, totals>>

-----------------------------------------------------------------------------
(* The client, and CancellationWatch's thread that peeks at its socket.    *)

Disconnect(r) ==
  /\ r \in MayLeave
  /\ hpc[r] \notin Outcomes
  /\ ~gone[r]
  /\ gone' = [gone EXCEPT ![r] = TRUE]
  /\ UNCHANGED <<poolVars, hpc, queued, chan, cancelled, events, reply,
                 workerVars, inFlight, gpuVars, totals>>

WatchCancels(r) ==
  /\ gone[r]
  /\ ~cancelled[r]
  /\ hpc[r] \notin Outcomes
  /\ cancelled' = [cancelled EXCEPT ![r] = TRUE]
  /\ UNCHANGED <<poolVars, handlerVars, queued, chan, events, reply,
                 workerVars, inFlight, gpuVars, totals>>

-----------------------------------------------------------------------------
(* The worker: live_lane_worker's outer loop.                              *)

FaultyAlwaysReceive ==
  /\ wpc = "top"
  /\ wpc' = "recv"
  /\ inFlight' = FALSE
  /\ UNCHANGED <<poolVars, handlerVars, queued, chan, cancelled, events, reply,
                 active, idx, cur, fin, gpuVars, totals>>

(* With nothing active, sleep in the receive; otherwise only drain. *)
WorkerTop ==
  /\ wpc = "top"
  /\ IF active = <<>>
       THEN inFlight' = FALSE /\ wpc' = "recv"
       ELSE wpc' = "drain" /\ UNCHANGED inFlight
  /\ UNCHANGED <<poolVars, handlerVars, queued, chan, cancelled, events, reply,
                 active, idx, cur, fin, gpuVars, totals>>

(* rx.recv while nothing is active, rx.try_recv while draining. *)
Receive ==
  /\ wpc \in {"recv", "drain"}
  /\ chan # <<>>
  /\ cur' = Head(chan)
  /\ chan' = Tail(chan)
  /\ wpc' = "admit"
  /\ UNCHANGED <<poolVars, handlerVars, queued, cancelled, events, reply,
                 active, idx, fin, inFlight, gpuVars, totals>>

(* The queue is empty: start a tick, or go back to sleep. *)
DrainEmpty ==
  /\ wpc = "drain"
  /\ chan = <<>>
  /\ IF active = <<>>
       THEN wpc' = "top" /\ UNCHANGED inFlight
       ELSE wpc' = "check_free" /\ inFlight' = TRUE
  /\ UNCHANGED <<poolVars, handlerVars, queued, chan, cancelled, events, reply,
                 active, idx, cur, fin, gpuVars, totals>>

(* validate_active_kv_ownership reads the free list inside the mutex ...   *)
CheckFreeList ==
  /\ wpc = "check_free"
  /\ poolLock = NoRequest
  /\ wpc' = "check_gauge"
  /\ UNCHANGED <<poolVars, handlerVars, queued, chan, cancelled, events, reply,
                 active, idx, cur, fin, inFlight, gpuVars, totals>>

(* ... and the in_use gauge outside it.  OwnershipCheckPasses shows that   *)
(* neither read ever finds what makes the tick fail closed.                *)
CheckGauge ==
  /\ wpc = "check_gauge"
  /\ wpc' = "decode"
  /\ idx' = 1
  /\ UNCHANGED <<poolVars, handlerVars, queued, chan, cancelled, events, reply,
                 active, cur, fin, inFlight, gpuVars, totals>>

-----------------------------------------------------------------------------
(* Admission: admit_live_request for cur.                                  *)

Finish(kind, resume) ==
  /\ wpc' = "fin_release"
  /\ fin' = [kind |-> kind, resume |-> resume]

AdmitCancelled ==
  /\ wpc = "admit"
  /\ cancelled[cur]
  /\ Finish("cancelled", "drain")
  /\ UNCHANGED <<poolVars, handlerVars, queued, chan, cancelled, events, reply,
                 active, idx, cur, inFlight, gpuVars, totals>>

(* GpuDevice::open or CachedModelDecodeProof::new fails; what was opened   *)
(* before stays open for the next request.                                 *)
AdmitOpenFails ==
  /\ wpc = "admit"
  /\ ~cancelled[cur]
  /\ opened # "runner"
  /\ opened' \in {opened, "device"}
  /\ Finish("failed", "drain")
  /\ UNCHANGED <<poolVars, handlerVars, queued, chan, cancelled, events, reply,
                 active, idx, cur, inFlight, generated, runner, saved, page,
                 hung, totals>>

(* begin_stepwise_request_with_block_table: reset the runner, install the  *)
(* block table and write the prefill image into the leased pages.          *)
InstallTable(r) ==
  /\ opened' = "runner"
  /\ runner' = [table |-> lease[r], step |-> 0]
  /\ page' = [b \in Block |-> IF b \in lease[r] THEN r ELSE page[b]]

(* The device-side table checks fail after the installation. *)
AdmitBeginFails ==
  /\ wpc = "admit"
  /\ ~cancelled[cur]
  /\ InstallTable(cur)
  /\ hung' \in (IF DecodeMayHang THEN {hung, hung \cup {cur}} ELSE {hung})
  /\ Finish("failed", "drain")
  /\ UNCHANGED <<poolVars, handlerVars, queued, chan, cancelled, events, reply,
                 active, idx, cur, inFlight, generated, saved, totals>>

Admit ==
  /\ wpc = "admit"
  /\ ~cancelled[cur]
  /\ InstallTable(cur)
  /\ saved' = [saved EXCEPT ![cur] = runner']
  /\ active' = Append(active, cur)
  /\ cur' = NoRequest
  /\ wpc' = "drain"
  /\ UNCHANGED <<poolVars, handlerVars, queued, chan, cancelled, events, reply,
                 idx, fin, inFlight, generated, hung, totals>>

-----------------------------------------------------------------------------
(* One pass of the decode loop over active.                                *)

DecodeNext == idx <= Len(active) /\ wpc = "decode"

DecodePassDone ==
  /\ wpc = "decode"
  /\ idx > Len(active)
  /\ wpc' = "top"
  /\ UNCHANGED <<poolVars, handlerVars, queued, chan, cancelled, events, reply,
                 active, idx, cur, fin, inFlight, gpuVars, totals>>

(* active.remove(idx) and finish_active_live_request. *)
Remove(kind) ==
  /\ cur' = active[idx]
  /\ active' = Without(active, idx)
  /\ Finish(kind, "decode")

DecodeCancelled ==
  /\ DecodeNext
  /\ cancelled[active[idx]]
  /\ Remove("cancelled")
  /\ UNCHANGED <<poolVars, handlerVars, queued, chan, cancelled, events, reply,
                 idx, inFlight, gpuVars, totals>>

FaultyNoRestore ==
  /\ DecodeNext
  /\ ~cancelled[active[idx]]
  /\ wpc' = "run"
  /\ UNCHANGED <<poolVars, handlerVars, queued, chan, cancelled, events, reply,
                 active, idx, cur, fin, inFlight, gpuVars, totals>>

(* restore_stepwise_state *)
Restore ==
  /\ DecodeNext
  /\ ~cancelled[active[idx]]
  /\ runner' = saved[active[idx]]
  /\ wpc' = "run"
  /\ UNCHANGED <<poolVars, handlerVars, queued, chan, cancelled, events, reply,
                 active, idx, cur, fin, inFlight, generated, opened, saved,
                 page, hung, totals>>

(* run_stepwise_next succeeds: the GPU advanced the loaded state by a step *)
(* and wrote the new token's KV into the loaded block table.               *)
RunStep ==
  /\ wpc = "run"
  /\ runner' = [runner EXCEPT !.step = @ + 1]
  /\ page' = [b \in Block |-> IF b \in runner.table THEN active[idx] ELSE page[b]]
  /\ generated' = [generated EXCEPT ![active[idx]] = @ + 1]
  /\ wpc' = "emit"
  /\ UNCHANGED <<poolVars, handlerVars, queued, chan, cancelled, events, reply,
                 active, idx, cur, fin, inFlight, opened, saved, hung, totals>>

(* The restore, an arm, the 20 s wait or the token check fails.  After a   *)
(* failed wait the step's kernels are still on the queue or executing.     *)
StepFails ==
  /\ wpc = "run"
  /\ hung' \in (IF DecodeMayHang THEN {hung, hung \cup {active[idx]}} ELSE {hung})
  /\ Remove("failed")
  /\ UNCHANGED <<poolVars, handlerVars, queued, chan, cancelled, events, reply,
                 idx, inFlight, generated, opened, runner, saved, page, totals>>

(* The abandoned kernels of r retire at last. *)
HungRetires(r) ==
  /\ r \in hung
  /\ hung' = hung \ {r}
  /\ UNCHANGED <<poolVars, handlerVars, queued, chan, cancelled, events, reply,
                 workerVars, inFlight, generated, opened, runner, saved, page,
                 totals>>

ReceiverGone(r) == hpc[r] \in Outcomes

FaultyCountOutTwice ==
  /\ wpc = "emit"
  /\ active[idx] \in Stream
  /\ ReceiverGone(active[idx])
  /\ cancelled' = [cancelled EXCEPT ![active[idx]] = TRUE]
  /\ queued' = queued - 1
  /\ Remove("cancelled")
  /\ UNCHANGED <<poolVars, handlerVars, chan, events, reply, idx, inFlight,
                 gpuVars, totals>>

FaultyTotalTwice ==
  /\ wpc = "emit"
  /\ active[idx] \in Stream
  /\ ReceiverGone(active[idx])
  /\ cancelled' = [cancelled EXCEPT ![active[idx]] = TRUE]
  /\ totals' = [totals EXCEPT !["cancelled"] = @ + 1]
  /\ Remove("cancelled")
  /\ UNCHANGED <<poolVars, handlerVars, queued, chan, events, reply, idx,
                 inFlight, gpuVars>>

(* Sending the event fails because the handler has returned: cancel. *)
EmitFails ==
  /\ wpc = "emit"
  /\ active[idx] \in Stream
  /\ ReceiverGone(active[idx])
  /\ cancelled' = [cancelled EXCEPT ![active[idx]] = TRUE]
  /\ Remove("cancelled")
  /\ UNCHANGED <<poolVars, handlerVars, queued, chan, events, reply, idx,
                 inFlight, gpuVars, totals>>

FaultyLastStep(r) == generated[r] + 1 >= StepsAsked(r)

(* generated_steps >= max_steps *)
LastStep(r) == generated[r] >= StepsAsked(r)

(* The event is sent (if the request streams); the request ends with its   *)
(* last step, or its state is captured and the loop goes on.               *)
Emit ==
  /\ wpc = "emit"
  /\ active[idx] \in Stream => ~ReceiverGone(active[idx])
  /\ events' = IF active[idx] \in Stream
                 THEN [events EXCEPT ![active[idx]] = @ + 1] ELSE events
  /\ IF LastStep(active[idx])
       THEN Remove("completed") /\ UNCHANGED <<idx, saved>>
       ELSE /\ saved' = [saved EXCEPT ![active[idx]] = runner]
            /\ idx' = idx + 1
            /\ wpc' = "decode"
            /\ UNCHANGED <<active, cur, fin>>
  /\ UNCHANGED <<poolVars, handlerVars, queued, chan, cancelled, reply,
                 inFlight, generated, opened, runner, page, hung, totals>>

-----------------------------------------------------------------------------
(* finish_unstarted_live_request and finish_active_live_request for cur:   *)
(* the lease goes first, then the counters, then the reply, and last the   *)
(* request with its stream sender is dropped.                              *)

(* kv_lease.take(): the guard is dropped. *)
FinishRelease ==
  /\ wpc = "fin_release"
  /\ ReleaseBlocks(cur)
  /\ wpc' = "fin_count"
  /\ UNCHANGED <<handlerVars, queued, chan, cancelled, events, reply, active,
                 idx, cur, fin, inFlight, gpuVars, totals>>

FinishCount ==
  /\ wpc = "fin_count"
  /\ totals' = [totals EXCEPT ![fin.kind] = @ + 1]
  /\ queued' = queued - 1
  /\ wpc' = "fin_reply"
  /\ UNCHANGED <<poolVars, handlerVars, chan, cancelled, events, reply, active,
                 idx, cur, fin, inFlight, gpuVars>>

FinishReply ==
  /\ wpc = "fin_reply"
  /\ reply' = [reply EXCEPT ![cur] = fin.kind]
  /\ wpc' = "fin_drop"
  /\ UNCHANGED <<poolVars, handlerVars, queued, chan, cancelled, events, active,
                 idx, cur, fin, inFlight, gpuVars, totals>>

FinishDrop ==
  /\ wpc = "fin_drop"
  /\ wpc' = fin.resume
  /\ cur' = NoRequest
  /\ fin' = NotFinishing
  /\ UNCHANGED <<poolVars, handlerVars, queued, chan, cancelled, events, reply,
                 active, idx, inFlight, gpuVars, totals>>

-----------------------------------------------------------------------------
HandlerSubmit(r) ==
  \/ CountIn(r) \/ RejectFull(r) \/ LeaseDenied(r) \/ RejectNoBlocks(r)
  \/ LeaseTake(r) \/ LeasePublish(r) \/ Send(r)

HandlerAwait(r) ==
  \/ TakeReply(r) \/ StreamChunk(r) \/ StreamWriteFails(r) \/ StreamBreak(r)
  \/ StreamEnd(r) \/ StreamResult(r) \/ StreamResultMissing(r)

Handler(r) == HandlerSubmit(r) \/ HandlerAwait(r)

WorkerLoop ==
  \/ WorkerTop \/ Receive \/ DrainEmpty \/ CheckFreeList \/ CheckGauge

WorkerAdmit ==
  \/ AdmitCancelled \/ AdmitOpenFails \/ AdmitBeginFails \/ Admit

WorkerDecode ==
  \/ DecodePassDone \/ DecodeCancelled \/ Restore
  \/ RunStep \/ StepFails \/ EmitFails \/ Emit

WorkerFinish == FinishRelease \/ FinishCount \/ FinishReply \/ FinishDrop

Worker == WorkerLoop \/ WorkerAdmit \/ WorkerDecode \/ WorkerFinish

Next ==
  \/ \E r \in Request :
       Handler(r) \/ Disconnect(r) \/ WatchCancels(r) \/ HungRetires(r)
  \/ Worker

Spec == Init /\ [][Next]_vars

(* Threads are scheduled by the operating system and every GPU wait has a  *)
(* timeout, so the worker and every handler that can step will.  Clients   *)
(* and the cancellation watch are free to do nothing.                      *)
FairSpec ==
  /\ Spec
  /\ WF_vars(Worker)
  /\ \A r \in Request : WF_vars(Handler(r))

-----------------------------------------------------------------------------
TypeOK ==
  /\ PoolTypeOK
  /\ hpc \in [Request -> {"start", "over", "counted", "denied", "acquiring",
                          "leased", "waiting", "streaming", "broke", "ended"}
                         \cup Outcomes]
  /\ queued \in Nat
  /\ chan \in Seq(Request)
  /\ gone \in [Request -> BOOLEAN]
  /\ cancelled \in [Request -> BOOLEAN]
  /\ events \in [Request -> Nat]
  /\ reply \in [Request -> Kinds \cup {None}]
  /\ wpc \in {"top", "recv", "drain", "check_free", "check_gauge", "admit",
              "decode", "run", "emit",
              "fin_release", "fin_count", "fin_reply", "fin_drop"}
  /\ active \in Seq(Request)
  /\ idx \in Nat
  /\ cur \in Request \cup {NoRequest}
  /\ fin \in [kind : Kinds \cup {None}, resume : {None, "drain", "decode"}]
  /\ inFlight \in BOOLEAN
  /\ generated \in [Request -> Nat]
  /\ opened \in {"nothing", "device", "runner"}
  /\ runner \in Snapshot
  /\ saved \in [Request -> Snapshot]
  /\ page \in [Block -> Request \cup {NoRequest}]
  /\ hung \in SUBSET Request
  /\ totals \in [Kinds -> Nat]

(* A request is being served from its place in the channel to the end of   *)
(* its finish.                                                             *)
InService(r) == r \in Elements(chan) \cup Elements(active) \cup {cur}

(* try_send never finds the channel full: the queued counter, taken before *)
(* the lease and given back after it, admits no more senders than slots.   *)
ChannelNeverFull ==
  \A r \in Request : hpc[r] = "leased" => Len(chan) < QueueLimit

(* A request is counted from its fetch_add to the one fetch_sub of its     *)
(* rejection or of its finish.                                             *)
Counted(r) ==
  \/ hpc[r] \in {"over", "counted", "denied", "acquiring", "leased"}
  \/ InService(r) /\ ~(r = cur /\ wpc \in {"fin_reply", "fin_drop"})

(* The queued gauge is exact: no interleaving of handlers and worker loses *)
(* or repeats a decrement, whichever way a request ends.                   *)
QueuedExact == queued = Cardinality({r \in Request : Counted(r)})

(* The tick's ownership check always passes: at its two reads no active    *)
(* table is short, shared, or back in the free list, and the in_use gauge, *)
(* read after the mutex was dropped, still covers the active blocks.       *)
ActiveBlocks == UNION {lease[active[i]] : i \in 1..Len(active)}
OwnershipCheckPasses ==
  /\ wpc = "check_free" /\ poolLock = NoRequest =>
       /\ \A i \in 1..Len(active) :
            Cardinality(lease[active[i]]) = BlocksPerRequest
       /\ \A i, j \in 1..Len(active) :
            i # j => lease[active[i]] \cap lease[active[j]] = {}
       /\ ActiveBlocks \cap free = {}
  /\ wpc = "check_gauge" => Cardinality(ActiveBlocks) <= inUse

(* A decode step runs on its own request's state: the runner holds that    *)
(* request's block table and step count, whatever other requests were      *)
(* admitted, stepped or failed since, and each of its pages holds its KV.  *)
StepIsolated ==
  wpc = "run" =>
    LET r == active[idx] IN
      /\ runner = [table |-> lease[r], step |-> generated[r]]
      /\ \A b \in lease[r] : page[b] = r

(* How a request ended, as counted by the worker before it is told.        *)
HowEnded(r) == IF r = cur /\ wpc = "fin_reply" THEN fin.kind ELSE reply[r]

(* Who sees the result sees the end of it: the lease is back in the pool,  *)
(* the request has left the queue and the worker, is in flight no more, and *)
(* has been counted once, under the end it is told: also one whose client   *)
(* left, which the worker can notice at its tick and at the event it fails *)
(* to send, and one that fails while it is cancelled.                      *)
ResultIsFinal ==
  /\ \A r \in Request : reply[r] # None =>
       lease[r] = {} /\ ~Counted(r) /\ r \notin Elements(active) \cup Elements(chan)
  /\ \A k \in Kinds : totals[k] = Cardinality({r \in Request : HowEnded(r) = k})

(* A handler that saw the end of its stream finds the final result sent:   *)
(* the one-second recv_timeout can only run out after a cancellation.      *)
ResultReadyAtStreamEnd ==
  \A r \in Request : hpc[r] = "ended" => reply[r] # None

(* No lease outlives its request's stay in the lane. *)
NoLeaseLeak ==
  \A r \in Request :
    lease[r] # {} => hpc[r] \in {"acquiring", "leased"} \/ InService(r)

(* Every request that arrives is rejected or answered, or its client left  *)
(* it: no submission hangs for ever.                                       *)
EveryRequestEnds == \A r \in Request : <>(hpc[r] \in Outcomes)

(* The lane implements LaneService: a lease is the slot of a request. *)
Phase(r) ==
  CASE reply[r] # None -> "answered"
    [] hpc[r] \in Rejections -> "rejected"
    [] lease[r] # {} -> "serving"
    [] r = cur /\ wpc \in {"fin_count", "fin_reply"} -> "settled"
    [] OTHER -> "idle"

Service == INSTANCE LaneService WITH
  Slots <- Cardinality(Block) \div BlocksPerRequest,
  MaxSteps <- [r \in Request |-> StepsAsked(r)],
  phase <- [r \in Request |-> Phase(r)],
  steps <- generated,
  result <- reply

(* Every behaviour of the threads is one the callers were promised:        *)
(* bounded service, one result per request, truthful and after release.    *)
ImplementsService == Service!Spec

(* With fair threads, every accepted request is settled and answered. *)
ImplementsFairService == Service!FairSpec

(* Doc of mainarch_kv_leases_released_total: leases are "released after    *)
(* live decode exits", so a request whose decode has begun keeps its lease  *)
(* while its kernels still run.                                            *)
LeaseCoversDecode == \A r \in hung : saved[r] # Blank => lease[r] # {}

=============================================================================
