------------------------------ MODULE OlmoLane ------------------------------
(***************************************************************************)
(* The OLMo serving lane: one worker thread that owns the GPU and the       *)
(* resident model (crates/mainarch-cli/src/olmo_lane.rs), a bounded channel *)
(* of prompts to it, and one handler thread per request that submits, reads *)
(* events and answers its client (crates/mainarch-cli/src/demo.rs).  The    *)
(* lane's single KV cache is never cleared: each step rewrites one position *)
(* and attends to the positions up to it (crates/mainarch-core/src/olmo2.rs)*)
(*                                                                         *)
(* A token is the request and the position it belongs to.  The model's      *)
(* greedy continuation of a request is Tok(r, prompt), Tok(r, prompt + 1),  *)
(* and so on; a step yields the next of them exactly if the cache holds     *)
(* this request's tokens in all positions it attends to, and Garbage else.  *)
(* The layers of a step are one action: no other thread touches the runner. *)
(*                                                                         *)
(* All waits of the runner poll one signal, which each layer arms anew and *)
(* the completion of any kernel armed with it lowers (gpu.rs).  A wait that *)
(* timed out therefore leaves a completion behind that ends the next wait, *)
(* and so on: each later wait returns a layer early, until all that was    *)
(* armed has retired before something new is.                              *)
(***************************************************************************)
EXTENDS Integers, Sequences, FiniteSets

CONSTANTS
  Request, NoRequest,
  QueueSlots,       \* capacity of the channel, 8
  MaxSeq,           \* max_seq
  Ask,              \* request -> prompt tokens, max_new, tokens before EOS
  Stream,           \* requests answered by respond_olmo_chat_stream
  MayLeave,         \* streaming clients that may close their connection
  MayFail,          \* can a step fail on the device, or tokenization?
  KernelsMayLinger, \* can a failed step leave kernels queued or running?
  MayDie            \* can the worker thread panic?

ASSUME OlmoLaneAssumption ==
  /\ NoRequest \notin Request
  /\ QueueSlots \in Nat \ {0} /\ MaxSeq \in Nat \ {0}
  /\ Ask \in [Request -> [prompt : Nat, max_new : Nat \ {0}, eos : Nat]]
  /\ MayLeave \subseteq Stream /\ Stream \subseteq Request
  /\ MayFail \in BOOLEAN /\ KernelsMayLinger \in BOOLEAN /\ MayDie \in BOOLEAN

VARIABLES
  hpc,       \* each handler: start, reading, or busy, ended, left
  got,       \* the events it has received
  events,    \* the reply channel of each request
  chan,      \* the channel of prompts
  wpc,       \* the worker: recv, encode, prefill, generate, step, count,
             \* done or dead
  cur,       \* the request it serves
  pos, next, \* its locals
  generated, \* its local, kept per request
  kv,        \* the token in each position of the KV cache
  leftover,  \* kernels of a step that has returned, queued or running
  overtaken, \* history: requests with a step begun before those had retired
  result,    \* history: how each request ended
  completed, queueFull \* the lane's counters

handlerVars == <<hpc, got>>
runnerVars == <<kv, leftover, overtaken>>
workerVars == <<wpc, cur, pos, next, generated, result, completed>>
vars == <<handlerVars, events, chan, workerVars, runnerVars, queueFull>>

(* None; chain links without a signal, where an arm failed; or one whose   *)
(* completion is still to lower the shared signal, where a wait timed out  *)
(* or returned early.                                                      *)
Leftovers == {"nothing", "links", "signal"}

Tok(r, p) == <<r, p>>
Garbage == <<NoRequest, 0>>

TokenEvent(i, t) == [kind |-> "token", n |-> i, token |-> t]
DoneEvent(g) == [kind |-> "done", n |-> g, token |-> Garbage]
ErrorEvent == [kind |-> "error", n |-> 0, token |-> Garbage]

Init ==
  /\ hpc = [r \in Request |-> "start"]
  /\ got = [r \in Request |-> <<>>]
  /\ events = [r \in Request |-> <<>>]
  /\ chan = <<>>
  /\ wpc = "recv" /\ cur = NoRequest /\ pos = 0 /\ next = Garbage
  /\ generated = [r \in Request |-> 0]
  /\ kv = [p \in 0..(MaxSeq - 1) |-> Garbage]
  /\ leftover = "nothing" /\ overtaken = {}
  /\ result = [r \in Request |-> "none"]
  /\ completed = 0 /\ queueFull = 0
-----------------------------------------------------------------------------
(* The handlers.                                                           *)

FaultyRoom == Len(chan) <= QueueSlots
Room == Len(chan) < QueueSlots

(* try_send hands the prompt over, with the sending end of its replies ... *)
Submit(r) ==
  /\ hpc[r] = "start"
  /\ wpc # "dead" /\ Room
  /\ chan' = Append(chan, r)
  /\ hpc' = [hpc EXCEPT ![r] = "reading"]
  /\ UNCHANGED <<got, events, workerVars, runnerVars, queueFull>>

(* ... or fails at once: a full channel and a dead worker look the same.   *)
SubmitFails(r) ==
  /\ hpc[r] = "start"
  /\ wpc = "dead" \/ ~Room
  /\ queueFull' = queueFull + 1
  /\ hpc' = [hpc EXCEPT ![r] = "busy"]
  /\ UNCHANGED <<got, events, chan, workerVars, runnerVars>>

(* An error ends the handler; Done ends a stream, the JSON handler reads   *)
(* on until the channel closes.                                            *)
Read(r) ==
  /\ hpc[r] = "reading" /\ events[r] # <<>>
  /\ LET e == Head(events[r])
         last == e.kind = "error" \/ (e.kind = "done" /\ r \in Stream)
     IN  /\ got' = [got EXCEPT ![r] = Append(@, e)]
         /\ events' = [events EXCEPT ![r] = IF last THEN <<>> ELSE Tail(@)]
         /\ hpc' = [hpc EXCEPT ![r] = IF last THEN "ended" ELSE @]
  /\ UNCHANGED <<chan, workerVars, runnerVars, queueFull>>

(* A write to a closed connection: the handler returns, its receiver goes. *)
Leave(r) ==
  /\ r \in MayLeave
  /\ hpc[r] = "reading" /\ events[r] # <<>>
  /\ hpc' = [hpc EXCEPT ![r] = "left"]
  /\ events' = [events EXCEPT ![r] = <<>>]
  /\ UNCHANGED <<got, chan, workerVars, runnerVars, queueFull>>

Queued(r) == \E i \in 1..Len(chan) : chan[i] = r

FaultySenderAlive(r) == wpc # "dead"
(* The only sending end travels with the request.                          *)
SenderAlive(r) == Queued(r) \/ cur = r

(* The channel is empty and closed: the loop over events ends.             *)
ReadEnds(r) ==
  /\ hpc[r] = "reading" /\ events[r] = <<>>
  /\ ~SenderAlive(r)
  /\ hpc' = [hpc EXCEPT ![r] = "ended"]
  /\ UNCHANGED <<got, events, chan, workerVars, runnerVars, queueFull>>
-----------------------------------------------------------------------------
(* The worker.                                                             *)

Listening(r) == hpc[r] \notin {"ended", "left"}

(* A send to a receiver that is gone is lost.                              *)
Send(e) ==
  events' = [events EXCEPT ![cur] = IF Listening(cur) THEN Append(@, e) ELSE @]

(* The request, and with it the sending end of its replies, is dropped.    *)
Finish(how) ==
  /\ result' = [result EXCEPT ![cur] = how]
  /\ cur' = NoRequest
  /\ wpc' = "recv"

Fails(how) ==
  /\ Send(ErrorEvent)
  /\ Finish(how)
  /\ UNCHANGED <<handlerVars, chan, pos, next, generated, completed, queueFull>>

Receive ==
  /\ wpc = "recv" /\ chan # <<>>
  /\ cur' = Head(chan) /\ chan' = Tail(chan)
  /\ wpc' = "encode"
  /\ UNCHANGED <<handlerVars, events, pos, next, generated, result, completed,
                 runnerVars, queueFull>>

(* The tokenizer fails, or yields no token.                                *)
EncodeFails ==
  /\ wpc = "encode"
  /\ MayFail \/ Ask[cur].prompt = 0
  /\ Fails("not encoded")
  /\ UNCHANGED runnerVars

FaultyEncode ==
  /\ wpc = "encode" /\ Ask[cur].prompt > 0
  /\ next' = Garbage
  /\ wpc' = "prefill"
  /\ UNCHANGED <<handlerVars, events, chan, cur, pos, generated, result,
                 completed, runnerVars, queueFull>>

Encode ==
  /\ wpc = "encode" /\ Ask[cur].prompt > 0
  /\ pos' = 0 /\ next' = Garbage
  /\ wpc' = "prefill"
  /\ UNCHANGED <<handlerVars, events, chan, cur, generated, result, completed,
                 runnerVars, queueFull>>

(* What a step that puts token t into the cache at pos yields.             *)
Put(t) == [kv EXCEPT ![pos] = t]
Yields(t) ==
  IF \A p \in 0..pos : Put(t)[p] = Tok(cur, p) THEN Tok(cur, pos + 1) ELSE Garbage

(* What a prefill step yields is overwritten unread, but for the last.      *)
Kept(t, place) == IF place = "generate" THEN t ELSE Garbage

(* Olmo2Runner::step of token t at pos, and where the worker goes on.      *)
Advance(place) ==
  /\ pos < MaxSeq
  /\ pos' = pos + 1
  /\ wpc' = place
  /\ UNCHANGED <<handlerVars, events, chan, cur, generated, result, completed,
                 queueFull>>

Step(t, place) ==
  /\ leftover = "nothing"
  /\ Advance(place)
  /\ kv' = Put(t) /\ next' = Kept(Yields(t), place)
  /\ UNCHANGED <<leftover, overtaken>>

Eos == Tok(cur, Ask[cur].prompt + Ask[cur].eos)

(* A step armed behind leftover kernels shares residual and position with  *)
(* them, and may read the logits of an earlier step: anything may come of  *)
(* it.  Behind links its waits are true, since the queue runs in order.  A *)
(* completion still to come ends its first wait, and each wait after that  *)
(* ends with the layer before: it returns before its own last kernels have *)
(* run, unless all of them retired before some layer was armed.            *)
OvertakenStep(t, place) ==
  /\ leftover # "nothing"
  /\ Advance(place)
  /\ kv' \in {Put(t), Put(Garbage)}
  /\ next' \in {Kept(x, place) : x \in {Yields(t), Eos, Garbage}}
  /\ leftover' \in {"nothing", leftover} \ {"links"}
  /\ overtaken' = overtaken \cup {cur}

(* It refuses a position beyond the cache.                                 *)
StepTooFar ==
  /\ pos >= MaxSeq
  /\ Fails("too long")
  /\ UNCHANGED runnerVars

(* A dispatch cannot be armed, a wait times out, or the logits are not     *)
(* finite: layers may have written the position, and layers may not.       *)
StepFails ==
  /\ MayFail /\ pos < MaxSeq
  /\ kv' \in {kv, Put(Garbage)}
  /\ leftover' \in IF KernelsMayLinger THEN Leftovers ELSE {leftover}
  /\ Fails("device")
  /\ UNCHANGED overtaken

Prefill ==
  /\ wpc = "prefill"
  /\ LET t == Tok(cur, pos)
         place == IF pos + 1 = Ask[cur].prompt THEN "generate" ELSE "prefill"
     IN  \/ Step(t, place) \/ OvertakenStep(t, place)
         \/ StepTooFar
         \/ StepFails

AnswerEnds == generated[cur] = Ask[cur].max_new \/ next = Eos

FaultyCacheFull == pos + 1 >= MaxSeq
(* The last token is sent and not put into the cache.                      *)
CacheFull == pos >= MaxSeq

(* The loop over max_new ends, at its top ...                              *)
GenerateEnds ==
  /\ wpc = "generate" /\ AnswerEnds
  /\ wpc' = "count"
  /\ UNCHANGED <<handlerVars, events, chan, cur, pos, next, generated, result,
                 completed, runnerVars, queueFull>>

(* ... because the client hung up ...                                      *)
GenerateHungUp ==
  /\ wpc = "generate" /\ ~AnswerEnds /\ ~Listening(cur)
  /\ wpc' = "count"
  /\ UNCHANGED <<handlerVars, events, chan, cur, pos, next, generated, result,
                 completed, runnerVars, queueFull>>

(* ... or, with the token sent, because the cache is full.                 *)
Generate ==
  /\ wpc = "generate" /\ ~AnswerEnds /\ Listening(cur)
  /\ Send(TokenEvent(generated[cur], next))
  /\ generated' = [generated EXCEPT ![cur] = @ + 1]
  /\ wpc' = IF CacheFull THEN "count" ELSE "step"
  /\ UNCHANGED <<handlerVars, chan, cur, pos, next, result, completed,
                 runnerVars, queueFull>>

Decode ==
  /\ wpc = "step"
  /\ \/ Step(next, "generate") \/ OvertakenStep(next, "generate")
     \/ StepTooFar \/ StepFails

Count ==
  /\ wpc = "count"
  /\ completed' = completed + 1
  /\ wpc' = "done"
  /\ UNCHANGED <<handlerVars, events, chan, cur, pos, next, generated, result,
                 runnerVars, queueFull>>

SendDone ==
  /\ wpc = "done"
  /\ Send(DoneEvent(generated[cur]))
  /\ Finish(IF Listening(cur) THEN "complete" ELSE "hung up")
  /\ UNCHANGED <<handlerVars, chan, pos, next, generated, completed,
                 runnerVars, queueFull>>

(* A panic drops the request, then the channel with all it holds.          *)
WorkerDies ==
  /\ MayDie /\ wpc \notin {"recv", "dead"}
  /\ wpc' = "dead" /\ cur' = NoRequest /\ chan' = <<>>
  /\ result' = [r \in Request |-> IF Queued(r) \/ r = cur THEN "cut" ELSE result[r]]
  /\ UNCHANGED <<handlerVars, events, pos, next, generated, completed,
                 runnerVars, queueFull>>

(* What is left over retires, and with it every completion to come.        *)
LeftoverRetires ==
  /\ leftover # "nothing"
  /\ leftover' = "nothing"
  /\ UNCHANGED <<handlerVars, events, chan, workerVars, kv, overtaken, queueFull>>

WorkerStep ==
  \/ Receive \/ EncodeFails \/ Encode \/ Prefill
  \/ GenerateEnds \/ GenerateHungUp \/ Generate \/ Decode \/ Count \/ SendDone

Handle(r) == Submit(r) \/ SubmitFails(r) \/ Read(r) \/ ReadEnds(r)

Next ==
  \/ WorkerStep \/ WorkerDies \/ LeftoverRetires
  \/ \E r \in Request : Handle(r) \/ Leave(r)

Spec == Init /\ [][Next]_vars

(* The worker and the handlers run; every wait on the device is bounded.   *)
FairSpec ==
  /\ Spec
  /\ WF_vars(WorkerStep)
  /\ WF_vars(\E r \in Request : Handle(r))
-----------------------------------------------------------------------------
Ends == {"complete", "hung up", "not encoded", "too long", "device"}
Event == [kind : {"token", "done", "error"}, n : Nat,
          token : (Request \cup {NoRequest}) \X Nat]

TypeOK ==
  /\ hpc \in [Request -> {"start", "reading", "busy", "ended", "left"}]
  /\ got \in [Request -> Seq(Event)] /\ events \in [Request -> Seq(Event)]
  /\ chan \in Seq(Request) /\ Len(chan) <= QueueSlots
  /\ wpc \in {"recv", "encode", "prefill", "generate", "step", "count", "done",
              "dead"}
  /\ cur \in Request \cup {NoRequest}
  /\ pos \in 0..MaxSeq
  /\ next \in (Request \cup {NoRequest}) \X Nat
  /\ generated \in [Request -> Nat]
  /\ kv \in [0..(MaxSeq - 1) -> (Request \cup {NoRequest}) \X Nat]
  /\ leftover \in Leftovers /\ overtaken \subseteq Request
  /\ result \in [Request -> Ends \cup {"none", "cut"}]
  /\ completed \in Nat /\ queueFull \in Nat

(* Every client is told the truth: what it receives is the model's greedy  *)
(* continuation of its own prompt, token by token without gap, repetition  *)
(* or anything of another request still in the cache; then at most one     *)
(* end, and a Done that counts exactly the tokens before it.  This is not   *)
(* promised to a request that had a step armed behind kernels of a step     *)
(* that had already returned, be it with an error or too early.             *)
OutputExact ==
  \A r \in Request \ overtaken :
    LET all == got[r] \o events[r]
    IN  \A k \in 1..Len(all) :
          CASE all[k].kind = "token" ->
                 all[k] = TokenEvent(k - 1, Tok(r, Ask[r].prompt + k - 1))
            [] all[k].kind = "done" -> all[k] = DoneEvent(k - 1) /\ k = Len(all)
            [] OTHER -> k = Len(all)

(* Every handler ends, also if its client hangs up, its step fails or the  *)
(* worker dies with its request: no loop over events waits for ever.       *)
EveryCallEnds == \A r \in Request : <>(hpc[r] \in {"busy", "ended", "left"})

Phase(r) ==
  IF result[r] # "none" THEN result[r]
  ELSE IF hpc[r] = "busy" THEN "refused"
  ELSE IF r = cur THEN "serving"
  ELSE IF Queued(r) THEN "waiting" ELSE "new"

Phases == [r \in Request |-> Phase(r)]

Serial == INSTANCE SerialLane WITH
  Slots <- QueueSlots, line <- chan, emitted <- generated,
  spoilt <- overtaken, broken <- (wpc = "dead"), phase <- Phases

(* The lane serves its line in order, one request at a time, each to its   *)
(* own end; an answer that fits the cache is never cut short by it.        *)
ImplementsSerialLane == Serial!Spec

(* No accepted request stays in the line or unanswered for ever: each is   *)
(* served to an end, or cut off with the worker.                           *)
ImplementsFairLane == Serial!FairSpec
=============================================================================
