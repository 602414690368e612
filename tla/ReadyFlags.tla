----------------------------- MODULE ReadyFlags -----------------------------
(***************************************************************************)
(* The direct all-reduce that starts before its inputs exist: on every rank *)
(* a producer GEMV writes its part of the input and publishes a ready flag; *)
(* rank 0's reduce kernel waits for the flags on the GPU, under a watchdog, *)
(* and a broadcast is queued behind it (crates/mainarch-core/src/           *)
(* multigpu.rs, kernels/mainarch_kernels.cl; used by the MLP of the decode  *)
(* runner in crates/mainarch-cli/src/main.rs).                              *)
(*                                                                         *)
(* All kernels divide the vector into the same slices, one per workgroup.   *)
(* A slice holds the inputs summed in it, as <<rank, operation>>.  A        *)
(* producer may be late, or never run: nothing but the watchdog bounds it.  *)
(* After a failed operation the program ends, so none follows it here.      *)
(* Left out: a GEMV that finds its argument descriptor damaged returns      *)
(* without computing, and a packet behind it still publishes.               *)
(***************************************************************************)
EXTENDS Integers, FiniteSets

CONSTANTS
  Parts,      \* parts, the number of ranks
  NumWg,      \* num_wg, the workgroups of a kernel
  CountWidth, \* number of values of counts[rank], 2^32
  MaxOps      \* operations checked

ASSUME ReadyFlagsAssumption ==
  /\ Parts \in Nat /\ Parts >= 2
  /\ NumWg \in Nat \ {0} /\ MaxOps \in Nat
  /\ CountWidth \in Nat /\ CountWidth > NumWg

Rank == 0..(Parts - 1)
Group == 0..(NumWg - 1)
NoRank == -1

VARIABLES
  hpc,      \* the host: idle, wait, check, ok or failed
  op,       \* operations begun
  terminal, \* do the GEMVs publish, or a packet behind each?
  bad,      \* the producer poisoned for fault injection, or NoRank
  ppc,      \* producer groups: none, compute, count, publish, done
  count, flag, \* direct_ready_counts, direct_ready_flags
  error,    \* the last word of the flags
  rpc,      \* reduce groups: none, poll, trip, read, sum, done
  bpc,      \* broadcast groups: none, copy, done
  buf       \* bufs: [rank -> [slice -> inputs summed]]

hostVars == <<hpc, op, terminal, bad>>
producerVars == <<ppc, count, flag>>
vars == <<hostVars, producerVars, error, rpc, bpc, buf>>

All(place) == [w \in Group |-> place]

Init ==
  /\ hpc = "idle" /\ op = 0 /\ terminal = TRUE /\ bad = NoRank
  /\ ppc = [p \in Rank |-> All("none")]
  /\ count = [p \in Rank |-> 0] /\ flag = [p \in Rank |-> 0]
  /\ error = 0
  /\ rpc = All("none") /\ bpc = All("none")
  /\ buf = [p \in Rank |-> All({})]
-----------------------------------------------------------------------------
(* The host.                                                               *)

FaultyFreshFlags == flag
FreshFlags == [p \in Rank |-> 0]

FaultyFreshCounts == [count EXCEPT ![bad'] = CountWidth - 1]
(* Fault injection makes the count of one producer miss its number.        *)
FreshCounts == [p \in Rank |-> IF p = bad' THEN CountWidth - 1 ELSE 0]

(* Reset flags, counts and error word, perhaps poison a producer, and      *)
(* dispatch producers, reduce and broadcast.                               *)
Begin ==
  /\ hpc \in {"idle", "ok"} /\ op < MaxOps
  /\ hpc' = "wait" /\ op' = op + 1
  /\ terminal' \in BOOLEAN /\ bad' \in Rank \cup {NoRank}
  /\ flag' = FreshFlags /\ count' = FreshCounts /\ error' = 0
  /\ ppc' = [p \in Rank |-> All("compute")]
  /\ rpc' = All("poll") /\ bpc' = All("copy")
  /\ UNCHANGED buf

(* The broadcast carries the completion signal.                            *)
WaitEnds ==
  /\ hpc = "wait" /\ bpc = All("done")
  /\ hpc' = "check"
  /\ UNCHANGED <<op, terminal, bad, producerVars, error, rpc, bpc, buf>>

Check ==
  /\ hpc = "check"
  /\ hpc' = IF error = 0 THEN "ok" ELSE "failed"
  /\ UNCHANGED <<op, terminal, bad, producerVars, error, rpc, bpc, buf>>
-----------------------------------------------------------------------------
(* The producers.                                                          *)

Produce(p, w, place) == ppc' = [ppc EXCEPT ![p][w] = place]

Compute(p, w) ==
  /\ ppc[p][w] = "compute"
  /\ buf' = [buf EXCEPT ![p][w] = {<<p, op>>}]
  /\ Produce(p, w, IF terminal THEN "count" ELSE "done")
  /\ UNCHANGED <<hostVars, count, flag, error, rpc, bpc>>

(* fetch_add: the last workgroup of the GEMV is to publish.                *)
Count(p, w) ==
  /\ ppc[p][w] = "count"
  /\ LET new == (count[p] + 1) % CountWidth
     IN  /\ count' = [count EXCEPT ![p] = new]
         /\ Produce(p, w, IF new = NumWg THEN "publish" ELSE "done")
  /\ UNCHANGED <<hostVars, flag, error, rpc, bpc, buf>>

Publish(p, w) ==
  /\ ppc[p][w] = "publish"
  /\ flag' = [flag EXCEPT ![p] = 1]
  /\ Produce(p, w, "done")
  /\ UNCHANGED <<hostVars, count, error, rpc, bpc, buf>>

(* The packet behind the GEMV publishes.                                   *)
PublishBehind(p) ==
  /\ ~terminal /\ ppc[p] = All("done") /\ flag[p] = 0
  /\ flag' = [flag EXCEPT ![p] = 1]
  /\ UNCHANGED <<hostVars, ppc, count, error, rpc, bpc, buf>>
-----------------------------------------------------------------------------
(* Reduce and broadcast on rank 0.                                         *)

Ready == \A p \in Rank : flag[p] = 1
Reduce(w, from, to) == rpc[w] = from /\ rpc' = [rpc EXCEPT ![w] = to]

SeeReady(w) ==
  /\ Ready /\ Reduce(w, "poll", "read")
  /\ UNCHANGED <<hostVars, producerVars, error, bpc, buf>>

(* The watchdog: the flags were read not ready once too often ...          *)
Late(w) ==
  /\ ~Ready /\ Reduce(w, "poll", "trip")
  /\ UNCHANGED <<hostVars, producerVars, error, bpc, buf>>

FaultyTrip(w) ==
  /\ Reduce(w, "trip", "poll")
  /\ error' = 1
  /\ UNCHANGED <<hostVars, producerVars, bpc, buf>>

(* ... and the error word is set, whatever became of them since.           *)
Trip(w) ==
  /\ Reduce(w, "trip", "read")
  /\ error' = 1
  /\ UNCHANGED <<hostVars, producerVars, bpc, buf>>

ReadError(w) ==
  /\ Reduce(w, "read", IF error = 0 THEN "sum" ELSE "done")
  /\ UNCHANGED <<hostVars, producerVars, error, bpc, buf>>

Garbage == {<<NoRank, 0>>}
Total(w) ==
  IF \A p, q \in Rank : p # q => buf[p][w] \cap buf[q][w] = {}
  THEN UNION {buf[p][w] : p \in Rank} ELSE Garbage

Sum(w) ==
  /\ Reduce(w, "sum", "done")
  /\ buf' = [buf EXCEPT ![0][w] = Total(w)]
  /\ UNCHANGED <<hostVars, producerVars, error, bpc>>

(* Queued behind the reduce, on its queue; it runs after an error, too.    *)
Copy(w) ==
  /\ rpc = All("done")
  /\ bpc[w] = "copy" /\ bpc' = [bpc EXCEPT ![w] = "done"]
  /\ buf' = [p \in Rank |-> [buf[p] EXCEPT ![w] = buf[0][w]]]
  /\ UNCHANGED <<hostVars, producerVars, error, rpc>>

ReduceStep(w) ==
  SeeReady(w) \/ Late(w) \/ Trip(w) \/ ReadError(w) \/ Sum(w)

Next ==
  \/ Begin \/ WaitEnds \/ Check
  \/ \E p \in Rank : PublishBehind(p)
       \/ \E w \in Group : Compute(p, w) \/ Count(p, w) \/ Publish(p, w)
  \/ \E w \in Group : ReduceStep(w) \/ Copy(w)

Spec == Init /\ [][Next]_vars

(* The host and rank 0's queue run.  Nothing is assumed of the producers.  *)
FairSpec ==
  /\ Spec
  /\ WF_vars(WaitEnds \/ Check)
  /\ \A w \in Group : WF_vars(ReduceStep(w) \/ Copy(w))
-----------------------------------------------------------------------------
(* Types; a counter that was not poisoned never passes its last workgroup. *)
TypeOK ==
  /\ hpc \in {"idle", "wait", "check", "ok", "failed"}
  /\ op \in 0..MaxOps /\ terminal \in BOOLEAN /\ bad \in Rank \cup {NoRank}
  /\ ppc \in [Rank -> [Group -> {"none", "compute", "count", "publish", "done"}]]
  /\ count \in [Rank -> 0..(CountWidth - 1)]
  /\ \A p \in Rank : count[p] <= NumWg \/ p = bad
  /\ flag \in [Rank -> {0, 1}] /\ error \in {0, 1}
  /\ rpc \in [Group -> {"none", "poll", "trip", "read", "sum", "done"}]
  /\ bpc \in [Group -> {"none", "copy", "done"}]
  /\ buf \in [Rank -> [Group -> SUBSET ((Rank \cup {NoRank}) \X (0..MaxOps))]]

(* An operation that returned Ok has put the sum of this operation's        *)
(* inputs, each counted once, into every slice of every rank, whichever     *)
(* workgroups met the watchdog when; and the fault injection cannot return  *)
(* Ok where the GEMVs publish.                                              *)
OkMeansExact ==
  hpc = "ok" =>
    /\ \A p \in Rank, w \in Group : buf[p][w] = {<<q, op>> : q \in Rank}
    /\ terminal => bad = NoRank

(* "a timeout stores 0xDEAD0101 and lets the kernel retire so the node does *)
(* not wedge if a producer packet never runs": every wait returns, with no  *)
(* assumption on the producers.                                             *)
WaitReturns == hpc = "wait" ~> hpc \in {"ok", "failed"}
=============================================================================
