---------------------------- MODULE PeerFlagDda -----------------------------
(***************************************************************************)
(* The persistent all-reduce of decode-sized vectors: one resident kernel   *)
(* per GPU serves many operations, allreduce_dda_peer_persistent in         *)
(* kernels/mainarch_kernels.cl, driven by the host loop of                  *)
(* benchmark_persistent_dda_peer_flat in                                    *)
(* crates/mainarch-core/src/multigpu.rs.  The host starts rank 0; ranks     *)
(* start each other and agree on the end through peer flags; the workgroups *)
(* of a rank meet in GridBarrier.  Workgroup 0 is the leader of its rank:   *)
(* only it reads and writes flags.                                          *)
(*                                                                          *)
(* Every wait has a watchdog that sets the rank's error word and goes on.   *)
(* It may fire at any time here (Trips), and so may the host's time out.    *)
(* A workgroup's slice of the vector is one value: the operation number of  *)
(* each input it summed.  InputsStable shows that summing in one step hides *)
(* nothing.                                                                 *)
(***************************************************************************)
EXTENDS GridBarrier

CONSTANTS
  Parts,     \* parts, the number of ranks
  TotalOps,  \* total_ops
  Trips      \* may watchdogs fire early?

ASSUME PeerFlagDdaAssumption ==
  /\ Parts \in Nat \ {0} /\ TotalOps \in Nat \ {0}
  /\ Gpu = 0..(Parts - 1)
  /\ 0 \in Group
  /\ Trips \in BOOLEAN

VARIABLES
  hpc,     \* the host: write, go, poll, check, accept, drain, finished, failed
  hrank,   \* its loop index over ranks
  op,      \* seq of the host
  input,   \* bufs: the operation each rank's input belongs to
  out,     \* outs: what each workgroup's slice of each rank sums
  ctrlGo,  \* ctrl[0] of rank 0
  ctrlDone,\* ctrl[1] of rank 0
  err,     \* ctrl[2] of each rank
  flag,    \* flags: [rank -> [peer -> last generation signalled]]
  wpc,     \* where each workgroup is in the kernel
  wseq,    \* its seq
  hop      \* h of each leader's loops over peers

hostVars == <<hpc, hrank, op, input, ctrlGo>>
kernelVars == <<out, ctrlDone, err, flag, wpc, wseq, hop>>
vars == <<barrierVars, hostVars, kernelVars>>

FaultyReady(s) == 2 * s + 1
Ready(s) == 2 * s - 1
Consumed(s) == 2 * s

(* The sum of one slice over all ranks.                                    *)
SumOf(in) == {<<p, in[p]>> : p \in Gpu}
Nothing == [w \in Group |-> {}]

First(w) == IF w = 0 THEN "start" ELSE "barrier1"

Init ==
  /\ BarrierInit
  /\ hpc = "write" /\ hrank = 0 /\ op = 1
  /\ input = [g \in Gpu |-> 0]
  /\ out = [g \in Gpu |-> Nothing]
  /\ ctrlGo = 0 /\ ctrlDone = 0
  /\ err = [g \in Gpu |-> 0]
  /\ flag = [g \in Gpu |-> [p \in Gpu |-> 0]]
  /\ wpc = [g \in Gpu |-> [w \in Group |-> First(w)]]
  /\ wseq = [g \in Gpu |-> [w \in Group |-> 1]]
  /\ hop = [g \in Gpu |-> 0]
-----------------------------------------------------------------------------
(* The host.                                                               *)

(* Fill a rank's input and clear its output.                               *)
HostWrite ==
  /\ hpc = "write"
  /\ input' = [input EXCEPT ![hrank] = op]
  /\ out' = [out EXCEPT ![hrank] = Nothing]
  /\ IF hrank + 1 < Parts THEN hrank' = hrank + 1 /\ UNCHANGED hpc
                          ELSE hrank' = 0 /\ hpc' = "go"
  /\ UNCHANGED <<barrierVars, op, ctrlGo, ctrlDone, err, flag, wpc, wseq, hop>>

HostGo ==
  /\ hpc = "go"
  /\ ctrlGo' = op
  /\ hpc' = "poll"
  /\ UNCHANGED <<barrierVars, hrank, op, input, kernelVars>>

HostPollEnds ==
  /\ hpc = "poll"
  /\ ctrlDone >= op \/ \E g \in Gpu : err[g] # 0
  /\ hpc' = "check"
  /\ UNCHANGED <<barrierVars, hrank, op, input, ctrlGo, kernelVars>>

HostTimesOut ==
  /\ Trips /\ hpc \in {"poll", "drain"}
  /\ hpc' = "failed"
  /\ UNCHANGED <<barrierVars, hrank, op, input, ctrlGo, kernelVars>>

(* The error words are read again, rank by rank.                           *)
FaultyHostCheck ==
  /\ hpc = "check"
  /\ hpc' = "accept"
  /\ UNCHANGED <<barrierVars, hrank, op, input, ctrlGo, kernelVars>>
HostCheck ==
  /\ hpc = "check"
  /\ IF err[hrank] # 0 THEN hpc' = "failed" /\ UNCHANGED hrank
     ELSE IF hrank + 1 < Parts THEN hrank' = hrank + 1 /\ UNCHANGED hpc
     ELSE hrank' = 0 /\ hpc' = "accept"
  /\ UNCHANGED <<barrierVars, op, input, ctrlGo, kernelVars>>

HostNext ==
  /\ hpc = "accept"
  /\ IF op < TotalOps THEN op' = op + 1 /\ hpc' = "write"
                      ELSE hpc' = "drain" /\ UNCHANGED op
  /\ UNCHANGED <<barrierVars, hrank, input, ctrlGo, kernelVars>>

Gone(g) == \A w \in Group : wpc[g][w] = "gone"

HostDrained ==
  /\ hpc = "drain" /\ \A g \in Gpu : Gone(g)
  /\ hpc' = "finished"
  /\ UNCHANGED <<barrierVars, hrank, op, input, ctrlGo, kernelVars>>
-----------------------------------------------------------------------------
(* The kernel.  A workgroup runs only outside the barrier.                 *)

At(g, w, place) == wpc[g][w] = place /\ bpc[g][w] = "out"
GoOn(g, w, place) == wpc' = [wpc EXCEPT ![g][w] = place]

StartSeen(g) ==
  IF g = 0 THEN ctrlGo = wseq[g][0] ELSE flag[g][0] >= Ready(wseq[g][0])

(* The leader waits for the host, or for rank 0.                           *)
Start(g) ==
  /\ At(g, 0, "start") /\ StartSeen(g)
  /\ GoOn(g, 0, IF err[g] = 0 THEN "ready" ELSE "awaitReady")
  /\ UNCHANGED <<barrierVars, hostVars, out, ctrlDone, err, flag, wseq, hop>>

StartTrips(g) ==
  /\ Trips /\ At(g, 0, "start") /\ ~StartSeen(g)
  /\ err' = [err EXCEPT ![g] = IF g = 0 THEN 1 ELSE 2]
  /\ GoOn(g, 0, "awaitReady")
  /\ UNCHANGED <<barrierVars, hostVars, out, ctrlDone, flag, wseq, hop>>

(* The leader's loops over its peers: h is at a peer, then at the next.    *)
Hop(g, from, to) ==
  IF hop[g] + 1 < Parts
  THEN hop' = [hop EXCEPT ![g] = @ + 1] /\ GoOn(g, 0, from)
  ELSE hop' = [hop EXCEPT ![g] = 0] /\ GoOn(g, 0, to)

Signal(g, from, to, value) ==
  /\ At(g, 0, from)
  /\ flag' = [flag EXCEPT ![hop[g]][g] = value]
  /\ Hop(g, from, to)
  /\ UNCHANGED <<barrierVars, hostVars, out, ctrlDone, err, wseq>>

Await(g, from, to, value) ==
  /\ At(g, 0, from)
  /\ flag[g][hop[g]] >= value
  /\ Hop(g, from, to)
  /\ UNCHANGED <<barrierVars, hostVars, out, ctrlDone, err, flag, wseq>>

AwaitTrips(g, from, to, value, code) ==
  /\ Trips /\ At(g, 0, from)
  /\ flag[g][hop[g]] < value
  /\ err' = [err EXCEPT ![g] = code]
  /\ Hop(g, from, to)
  /\ UNCHANGED <<barrierVars, hostVars, out, ctrlDone, flag, wseq>>

SignalReady(g) == Signal(g, "ready", "awaitReady", Ready(wseq[g][0]))
AwaitReady(g) == Await(g, "awaitReady", "barrier1", Ready(wseq[g][0]))
AwaitReadyTrips(g) ==
  AwaitTrips(g, "awaitReady", "barrier1", Ready(wseq[g][0]), 3)

EnterBarrier(g, w) ==
  /\ bpc[g][w] = "out"
  /\ \E k \in {<<"barrier1", "check1">>, <<"barrier2", "after2">>,
               <<"barrier3", "check3">>} :
       wpc[g][w] = k[1] /\ GoOn(g, w, k[2])
  /\ Enter(g, w)
  /\ UNCHANGED <<hostVars, out, ctrlDone, err, flag, wseq, hop>>

InBarrier(g, w) == Inside(g, w) /\ UNCHANGED <<hostVars, kernelVars>>

(* A barrier that lost a workgroup ends by its spin cap.  The cap can also *)
(* run out for a workgroup that waits for a leader which the host or a peer *)
(* keeps for 4e9 loads; a host or a peer that slow is left out.            *)
BarrierGivesUp(g, w) ==
  /\ \E v \in Group : wpc[g][v] = "gone"
  /\ GiveUp(g, w)
  /\ UNCHANGED <<hostVars, kernelVars>>

Check1(g, w) ==
  /\ At(g, w, "check1")
  /\ GoOn(g, w, IF err[g] # 0 THEN "gone" ELSE "compute")
  /\ UNCHANGED <<barrierVars, hostVars, out, ctrlDone, err, flag, wseq, hop>>

Compute(g, w) ==
  /\ At(g, w, "compute")
  /\ out' = [out EXCEPT ![g][w] = SumOf(input)]
  /\ GoOn(g, w, "barrier2")
  /\ UNCHANGED <<barrierVars, hostVars, ctrlDone, err, flag, wseq, hop>>

FaultyAfter2(g, w) ==
  /\ At(g, w, "after2")
  /\ GoOn(g, w, "barrier3")
  /\ ctrlDone' = IF w = 0 /\ g = 0 /\ err[g] = 0 THEN wseq[g][w] ELSE ctrlDone
  /\ UNCHANGED <<barrierVars, hostVars, out, err, flag, wseq, hop>>
After2(g, w) ==
  /\ At(g, w, "after2")
  /\ GoOn(g, w, IF w = 0 THEN "consumed" ELSE "barrier3")
  /\ UNCHANGED <<barrierVars, hostVars, out, ctrlDone, err, flag, wseq, hop>>

SignalConsumed(g) ==
  Signal(g, "consumed", "awaitConsumed", Consumed(wseq[g][0]))
AwaitConsumed(g) == Await(g, "awaitConsumed", "report", Consumed(wseq[g][0]))
AwaitConsumedTrips(g) ==
  AwaitTrips(g, "awaitConsumed", "report", Consumed(wseq[g][0]), 4)

(* Rank 0 reports the operation done if it met no error.                   *)
Report(g) ==
  /\ At(g, 0, "report")
  /\ ctrlDone' = IF g = 0 /\ err[g] = 0 THEN wseq[g][0] ELSE ctrlDone
  /\ GoOn(g, 0, "barrier3")
  /\ UNCHANGED <<barrierVars, hostVars, out, err, flag, wseq, hop>>

Check3(g, w) ==
  /\ At(g, w, "check3")
  /\ IF err[g] # 0 \/ wseq[g][w] = TotalOps
     THEN GoOn(g, w, "gone") /\ UNCHANGED wseq
     ELSE /\ GoOn(g, w, First(w))
          /\ wseq' = [wseq EXCEPT ![g][w] = @ + 1]
  /\ UNCHANGED <<barrierVars, hostVars, out, ctrlDone, err, flag, hop>>

HostStep ==
  HostWrite \/ HostGo \/ HostPollEnds \/ HostCheck \/ HostNext \/ HostDrained

LeaderStep(g) ==
  \/ Start(g) \/ SignalReady(g) \/ AwaitReady(g)
  \/ SignalConsumed(g) \/ AwaitConsumed(g) \/ Report(g)

Watchdog(g) == StartTrips(g) \/ AwaitReadyTrips(g) \/ AwaitConsumedTrips(g)

GroupStep(g, w) ==
  \/ EnterBarrier(g, w) \/ InBarrier(g, w) \/ BarrierGivesUp(g, w)
  \/ Check1(g, w) \/ Compute(g, w) \/ After2(g, w) \/ Check3(g, w)

Next ==
  \/ HostStep \/ HostTimesOut
  \/ \E g \in Gpu : LeaderStep(g) \/ Watchdog(g)
  \/ \E g \in Gpu, w \in Group : GroupStep(g, w)

Spec == Init /\ [][Next]_vars

(* The host thread runs, the workgroups are resident and run, and every    *)
(* spin ends: by what it waits for or by its watchdog.                     *)
FairSpec ==
  /\ Spec
  /\ WF_vars(HostStep)
  /\ \A g \in Gpu : WF_vars(LeaderStep(g) \/ Watchdog(g))
  /\ \A g \in Gpu, w \in Group : WF_vars(GroupStep(g, w))
-----------------------------------------------------------------------------
Places == {"start", "ready", "awaitReady", "barrier1", "check1", "compute",
           "barrier2", "after2", "consumed", "awaitConsumed", "report",
           "barrier3", "check3", "gone"}

TypeOK ==
  /\ hpc \in {"write", "go", "poll", "check", "accept", "drain", "finished",
              "failed"}
  /\ hrank \in Gpu /\ op \in 1..TotalOps
  /\ input \in [Gpu -> 0..TotalOps]
  /\ out \in [Gpu -> [Group -> SUBSET (Gpu \X (0..TotalOps))]]
  /\ ctrlGo \in 0..TotalOps /\ ctrlDone \in 0..TotalOps
  /\ err \in [Gpu -> 0..4]
  /\ flag \in [Gpu -> [Gpu -> 0..(2 * TotalOps)]]
  /\ wpc \in [Gpu -> [Group -> Places]]
  /\ wseq \in [Gpu -> [Group -> 1..TotalOps]]
  /\ hop \in [Gpu -> Gpu]

(* An operation the host accepts has put the sum of all inputs of this     *)
(* operation into every slice of every rank, whatever watchdogs fired.     *)
OutExact ==
  hpc = "accept" =>
    \A g \in Gpu, w \in Group : out[g][w] = {<<p, op>> : p \in Gpu}

(* "the exit barrier that prevents the next op from overwriting inputs     *)
(* while a slow peer still reads": while the host writes inputs and clears *)
(* outputs no workgroup of any rank is summing.                            *)
InputsStable ==
  hpc = "write" => \A g \in Gpu, w \in Group : wpc[g][w] # "compute"

(* Every operation ends: all are accepted and the kernels have retired, or *)
(* the host reports a failure.                                             *)
OperationsEnd == <>(hpc \in {"finished", "failed"})

(* Once a watchdog has fired on one rank the kernels of all ranks retire:  *)
(* no leader is left waiting for a peer, no workgroup for its leader.      *)
KernelsRetire == (\E g \in Gpu : err[g] # 0) ~> (\A g \in Gpu : Gone(g))
=============================================================================
