------------------------- MODULE AllReduceSumProofs --------------------------
(***************************************************************************)
(* Proofs of what the all-reduce computes, for every number of GPUs, every *)
(* capacity, every scheme and every sequence of calls: NoConflict and      *)
(* SumExact.                                                               *)
(*                                                                         *)
(* The moves of an operation, their levels and clashes, and the order that *)
(* a program keeps (Orderly, Linked, Led) are those of AllReduceProofs.    *)
(*                                                                         *)
(* Flow.  Every place of the vector has its inputs while a scatter or a    *)
(* sum of it is due, then each of its slots is filled or its scatter due,  *)
(* then the sum, and each copy of the sum, is there or due (Fed).  A move  *)
(* keeps this, because what it reads and writes is touched only by moves   *)
(* after it (FlowStep).  The moves of each scheme serve every cell of the  *)
(* vector (Serves, Tiled), so when a call begins the flow holds            *)
(* (FlowCall), and when nothing is due all buffers hold the sum            *)
(* (FlowEnds): SumExact.                                                   *)
(*                                                                         *)
(* For each scheme a layout, the moves of each arm and, for the schemes    *)
(* with barriers on the device, the links are given; lemma XRuns or        *)
(* XPlanned says that scheme X keeps the order and serves the vector.      *)
(***************************************************************************)
EXTENDS AllReduceProofs

-----------------------------------------------------------------------------
(* The reduce-scatter and all-gather schemes.                              *)
RsagParts(len, write, sc, wr, rd, ws, ag, bc) ==
  /\ sc = [i \in 1..r |-> sc[i]] /\ wr = [i \in 1..r |-> wr[i]] /\ ag = [i \in 1..r |-> ag[i]]
  /\ rd = [i \in 1..r |-> rd[i]] /\ ws = [i \in 1..r |-> ws[i]] /\ bc = [i \in 1..r |-> bc[i]]
  /\ \A i \in 1..r : /\ sc[i] = Arm(Cu(i - 1), ScatterToStaging(i - 1, len))
                     /\ wr[i] = Wait(Cu(i - 1))
                     /\ ag[i] = Arm(Cu(i - 1), AllGather(i - 1, len))
  /\ \A i \in 1..r : Len4(i - 1, len) = 0 => rd[i] = <<>> /\ ws[i] = <<>> /\ bc[i] = <<>>
  /\ \A i \in 1..r : Len4(i - 1, len) # 0 =>
       /\ rd[i] = IF write THEN ReduceStaged(Cu(i - 1), i - 1, 0, Stage(i - 1, 0), len)
                           ELSE Arm(Cu(i - 1), ReduceScatter(i - 1, len))
       /\ ws[i] = Wait(Cu(i - 1))
       /\ bc[i] = Arm(Cu(i - 1), BroadcastChunkSkipOwner(i - 1, len))

RsagJoins(len, write, pull, sc, wr, rd, ws, ag, bc) ==
  Rsag(len, write, pull) =
    ((IF write THEN FlattenSeq(sc) \o FlattenSeq(wr) ELSE <<>>) \o FlattenSeq(rd))
    \o (IF pull THEN (FlattenSeq(ws) \o FlattenSeq(ag)) \o FlattenSeq(wr)
                ELSE FlattenSeq(bc) \o FlattenSeq(ws))

LEMMA RsagIs ==
  ASSUME NEW len, NEW write \in BOOLEAN, NEW pull \in BOOLEAN
  PROVE  \E sc, wr, rd, ws, ag, bc :
           /\ RsagParts(len, write, sc, wr, rd, ws, ag, bc)
           /\ RsagJoins(len, write, pull, sc, wr, rd, ws, ag, bc)
<1>1. PICK wr : wr = [i \in 1..r |-> Wait(Cu(i - 1))]
  OBVIOUS
<1>2. PICK ws : ws = [i \in 1..r |-> IF Len4(i - 1, len) = 0 THEN <<>> ELSE Wait(Cu(i - 1))]
  OBVIOUS
<1>3. PICK sc : sc = [i \in 1..r |-> Arm(Cu(i - 1), ScatterToStaging(i - 1, len))]
  OBVIOUS
<1>4. PICK ag : ag = [i \in 1..r |-> Arm(Cu(i - 1), AllGather(i - 1, len))]
  OBVIOUS
<1>5. PICK bc : bc = [i \in 1..r |-> IF Len4(i - 1, len) = 0 THEN <<>>
                                     ELSE Arm(Cu(i - 1), BroadcastChunkSkipOwner(i - 1, len))]
  OBVIOUS
<1>6. PICK rw : rw = [i \in 1..r |-> IF Len4(i - 1, len) = 0 THEN <<>>
               ELSE ReduceStaged(Cu(i - 1), i - 1, 0, Stage(i - 1, 0), len)]
  OBVIOUS
<1>7. PICK rr : rr = [i \in 1..r |-> IF Len4(i - 1, len) = 0 THEN <<>>
               ELSE Arm(Cu(i - 1), ReduceScatter(i - 1, len))]
  OBVIOUS
<1>8. PICK rd : rd = IF write THEN rw ELSE rr
  OBVIOUS
<1>9. RsagParts(len, write, sc, wr, rd, ws, ag, bc)
  <2>1. CASE write = TRUE
    <3>1. rd = rw
      BY <1>8, <2>1
    <3> QED
      BY <1>1, <1>2, <1>3, <1>4, <1>5, <1>6, <2>1, <3>1 DEF RsagParts
  <2>2. CASE write = FALSE
    <3>1. rd = rr
      BY <1>8, <2>2
    <3> QED
      BY <1>1, <1>2, <1>3, <1>4, <1>5, <1>7, <2>2, <3>1 DEF RsagParts
  <2> QED
    BY <2>1, <2>2
<1>10. CASE write = TRUE /\ pull = TRUE
  <2>1. Rsag(len, TRUE, TRUE) =
        ((FlattenSeq(sc) \o FlattenSeq(wr)) \o FlattenSeq(rw))
          \o ((FlattenSeq(ws) \o FlattenSeq(ag)) \o FlattenSeq(wr))
    BY <1>1, <1>2, <1>3, <1>4, <1>6 DEF Rsag, EachShare, EachRank
  <2> QED
    BY <1>8, <1>9, <1>10, <2>1 DEF RsagJoins
<1>11. CASE write = TRUE /\ pull = FALSE
  <2>1. Rsag(len, TRUE, FALSE) =
        ((FlattenSeq(sc) \o FlattenSeq(wr)) \o FlattenSeq(rw))
          \o (FlattenSeq(bc) \o FlattenSeq(ws))
    BY <1>1, <1>2, <1>3, <1>5, <1>6 DEF Rsag, EachShare, EachRank
  <2> QED
    BY <1>8, <1>9, <1>11, <2>1 DEF RsagJoins
<1>12. CASE write = FALSE /\ pull = TRUE
  <2>1. Rsag(len, FALSE, TRUE) =
        (<<>> \o FlattenSeq(rr)) \o ((FlattenSeq(ws) \o FlattenSeq(ag)) \o FlattenSeq(wr))
    BY <1>1, <1>2, <1>4, <1>7 DEF Rsag, EachShare, EachRank
  <2> QED
    BY <1>8, <1>9, <1>12, <2>1 DEF RsagJoins
<1>13. CASE write = FALSE /\ pull = FALSE
  <2>1. Rsag(len, FALSE, FALSE) = (<<>> \o FlattenSeq(rr)) \o (FlattenSeq(bc) \o FlattenSeq(ws))
    BY <1>1, <1>2, <1>5, <1>7 DEF Rsag, EachShare, EachRank
  <2> QED
    BY <1>8, <1>9, <1>13, <2>1 DEF RsagJoins
<1> QED
  BY <1>10, <1>11, <1>12, <1>13

Three(a, b, c) == IsSeq(a) /\ IsSeq(b) /\ IsSeq(c)
LEMMA JoinThree ==
  ASSUME NEW a, NEW b, NEW c, Three(a, b, c)
  PROVE  a \o (b \o c) = (a \o b) \o c
<1>1. IsSeq(a) /\ IsSeq(b) /\ IsSeq(c)
  BY DEF Three
<1> QED
  BY <1>1, JoinAssociates

Five(a, b, c, d, e) == IsSeq(a) /\ IsSeq(b) /\ IsSeq(c) /\ IsSeq(d) /\ IsSeq(e)

LEMMA RegroupRounds ==
  ASSUME NEW a, NEW b, NEW c, NEW d, NEW e, Five(a, b, c, d, e)
  PROVE  (a \o b) \o ((c \o d) \o e) = (((a \o b) \o c) \o d) \o e
<1>1. PICK f, g : f = a \o b /\ g = c \o d
  OBVIOUS
<1>2. IsSeq(f) /\ IsSeq(g) /\ IsSeq(e) /\ IsSeq(c) /\ IsSeq(d)
  BY <1>1, Joined DEF Joins, Five
<1>3. Three(f, c, d) /\ Three(f, g, e)
  BY <1>2 DEF Three
<1>4. f \o (g \o e) = (f \o g) \o e
  BY <1>3, JoinThree
<1>5. f \o (c \o d) = (f \o c) \o d
  BY <1>3, JoinThree
<1> QED
  BY <1>1, <1>4, <1>5

LEMMA RegroupTurns ==
  ASSUME NEW a, IsSeq(a), NEW b, IsSeq(b), NEW c, IsSeq(c), NEW d, IsSeq(d)
  PROVE  (a \o b) \o (c \o d) = (a \o (b \o c)) \o d
<1>1. PICK f : f = a \o b
  OBVIOUS
<1>2. IsSeq(f)
  BY <1>1, Joined DEF Joins
<1>3. Three(f, c, d) /\ Three(a, b, c)
  BY <1>2 DEF Three
<1>4. f \o (c \o d) = (f \o c) \o d
  BY <1>3, JoinThree
<1>5. a \o (b \o c) = (a \o b) \o c
  BY <1>3, JoinThree
<1> QED
  BY <1>1, <1>4, <1>5

LEMMA RsagRuns ==
  ASSUME GroupAssumption, r >= 2, NEW len \in 0..Capacity, ShareFacts(len),
         NEW write \in BOOLEAN, NEW pull \in BOOLEAN
  PROVE  \E D : Runs(Rsag(len, write, pull), Vector(len), D)
<1>1. PICK L, C : L = Vector(len) /\ C = Shares(len)
  OBVIOUS
<1>2. /\ Laid(L) /\ PartOf(L, "stage", 0, len) /\ "stage" \in Kinds
      /\ \A D : Serves(L, D, "stage_b")
  BY <1>1, VectorFacts
<1>3. C \in SUBSET Ranks /\ Ranks \in SUBSET Ranks /\ \A i \in 1..r : i - 1 \in C <=> Len4(i - 1, len) # 0
  BY <1>1, RankIndex DEF Shares
<1>4. r \in Nat /\ \A i \in 1..r : i - 1 \in Ranks
  BY RankIndex
<1>5. PICK sc, wr, rd, ws, ag, bc :
           /\ RsagParts(len, write, sc, wr, rd, ws, ag, bc)
           /\ RsagJoins(len, write, pull, sc, wr, rd, ws, ag, bc)
  BY RsagIs
<1>6. PICK kind : kind = IF write THEN "staged" ELSE "direct"
  OBVIOUS
<1>7. /\ \A g \in Ranks : ScatterToStaging(g, len) = Made(L, "scatter", "stage", ScatterBy(len)[g])
      /\ \A g \in Ranks : ReduceScatter(g, len) = Made(L, "direct", "stage", OwnBy(len)[g])
      /\ \A g \in Ranks : BroadcastChunkSkipOwner(g, len) = Made(L, "gather", "stage", PushBy(len)[g])
      /\ \A g \in Ranks : AllGather(g, len) = Made(L, "gather", "stage", PullBy(len)[g])
      /\ \A g \in Ranks : GatherReduceLocal(Stage(g, 0), Buf(g, 0 + g * Clv(len)), Clv(len), Len4(g, len))
              = Made(L, "staged", "stage", OwnBy(len)[g])
  BY <1>2, WholeKernels, ShareKernels DEF Stage
<1>8. /\ QueueDealt(sc, "cu", Ranks, L, "scatter", "stage", ScatterBy(len))
      /\ QueueDealt(ag, "cu", Ranks, L, "gather", "stage", PullBy(len))
  BY <1>4, <1>5, <1>7 DEF QueueDealt, RsagParts, Handed, Cu
<1>9. QueueDealt(bc, "cu", C, L, "gather", "stage", PushBy(len))
  BY <1>3, <1>4, <1>5, <1>7 DEF QueueDealt, RsagParts, Handed, Cu
<1>10. QueueDealt(rd, "cu", C, L, kind, "stage", OwnBy(len))
  <2>1. ASSUME NEW i \in 1..r, i - 1 \in C
        PROVE  Handed(rd[i], Queue("cu", i - 1), Made(L, kind, "stage", OwnBy(len)[i - 1]))
    <3>1. CASE write
      BY <1>3, <1>4, <1>5, <1>6, <1>7, <2>1, <3>1 DEF RsagParts, Handed, Cu, ReduceStaged
    <3>2. CASE ~write
      BY <1>3, <1>4, <1>5, <1>6, <1>7, <2>1, <3>2 DEF RsagParts, Handed, Cu
    <3> QED
      BY <3>1, <3>2
  <2> QED
    BY <1>3, <1>5, <2>1 DEF QueueDealt, RsagParts
<1>11. /\ WaitBlock(FlattenSeq(wr), Queues("cu", Ranks))
       /\ WaitBlock(FlattenSeq(ws), Queues("cu", C))
  BY <1>3, <1>4, <1>5, QueueWaits DEF RsagParts, Cu
<1>12. /\ Parted(L, "scatter", "stage", Ranks, ScatterBy(len))
       /\ Parted(L, "gather", "stage", Ranks, PullBy(len))
       /\ Parted(L, "gather", "stage", C, PushBy(len))
       /\ Parted(L, kind, "stage", C, OwnBy(len))
       /\ kind \in MoveKinds /\ KindLvl(kind) = 1
  BY <1>2, <1>3, <1>6, RankShares DEF MoveKinds, KindLvl
<1>13. PICK E0, E1, E2, E3 : /\ E0 = Spread(L, "scatter", "stage", All(Ranks, ScatterBy(len)))
                             /\ E1 = Spread(L, kind, "stage", All(C, OwnBy(len)))
                             /\ E2 = Spread(L, "gather", "stage", All(Ranks, PullBy(len)))
                             /\ E3 = Spread(L, "gather", "stage", All(C, PushBy(len)))
  OBVIOUS
<1>14. /\ \A d \in E0 : Lvl(d) = 0 /\ d.kind = "scatter"
       /\ \A d \in E1 : Lvl(d) = 1 /\ d.kind = kind
       /\ \A d \in E2 : Lvl(d) = 2 /\ d.kind = "gather"
       /\ \A d \in E3 : Lvl(d) = 2 /\ d.kind = "gather"
  BY <1>12, <1>13, SpreadLvl, MvFields DEF KindLvl, Spread
<1>15. PICK pre, D0 : /\ pre = IF write THEN FlattenSeq(sc) \o FlattenSeq(wr) ELSE <<>>
                      /\ D0 = IF write THEN E0 ELSE {}
  OBVIOUS
<1>16. Tidy(pre, L, D0)
  <2>1. Deals(FlattenSeq(sc), Queues("cu", Ranks), L, "scatter", "stage", All(Ranks, ScatterBy(len)))
    BY <1>3, <1>8, <1>12, QueueDeals
  <2>2. Tidy(FlattenSeq(sc) \o FlattenSeq(wr), L, E0)
    BY <1>2, <1>11, <1>13, <2>1, DealRound DEF MoveKinds
  <2>3. CASE write
    BY <1>15, <2>2, <2>3
  <2>4. CASE ~write
    BY <1>15, <2>4, TidyNothing
  <2> QED
    BY <2>3, <2>4
<1>17. \A d \in D0 : Lvl(d) = 0 /\ d.kind = "scatter"
  BY <1>14, <1>15
<1>18. /\ IsSeq(pre) /\ IsSeq(FlattenSeq(rd)) /\ IsSeq(FlattenSeq(ws)) /\ IsSeq(FlattenSeq(ag))
       /\ IsSeq(FlattenSeq(wr)) /\ IsSeq(FlattenSeq(bc))
  <2>1. /\ \E J : Hands(FlattenSeq(rd), Queues("cu", C), J)
        /\ \E J : Hands(FlattenSeq(bc), Queues("cu", C), J)
        /\ \E J : Hands(FlattenSeq(ag), Queues("cu", Ranks), J)
    BY <1>3, <1>8, <1>9, <1>10, <1>12, QueueHanded
  <2> QED
    BY <1>11, <1>16, <2>1, HandsSeq, TidySeq, BlockSeqs
<1>19. PICK D : D = (D0 \cup E1) \cup (IF pull THEN E2 ELSE E3)
  OBVIOUS
<1>20. Orderly(Rsag(len, write, pull), L, D, {})
  <2>1. CASE pull
    <3>1. Deals(FlattenSeq(rd), Queues("cu", C), L, kind, "stage", All(C, OwnBy(len)))
      BY <1>3, <1>10, <1>12, QueueDeals
    <3>2. \A d \in D0 : Lvl(d) < KindLvl(kind)
      BY <1>12, <1>17
    <3>3. Tidy((pre \o FlattenSeq(rd)) \o FlattenSeq(ws), L, D0 \cup E1)
      BY <1>2, <1>11, <1>12, <1>13, <1>16, <3>1, <3>2, NextDealRound
    <3>4. Deals(FlattenSeq(ag), Queues("cu", Ranks), L, "gather", "stage", All(Ranks, PullBy(len)))
      BY <1>3, <1>8, <1>12, QueueDeals
    <3>5. \A d \in D0 \cup E1 : Lvl(d) < KindLvl("gather")
      BY <1>14, <1>17 DEF KindLvl
    <3>6. Tidy((((pre \o FlattenSeq(rd)) \o FlattenSeq(ws)) \o FlattenSeq(ag)) \o FlattenSeq(wr), L,
               (D0 \cup E1) \cup E2)
      BY <1>2, <1>11, <1>13, <3>3, <3>4, <3>5, NextDealRound DEF MoveKinds
    <3>7. (pre \o FlattenSeq(rd)) \o ((FlattenSeq(ws) \o FlattenSeq(ag)) \o FlattenSeq(wr))
            = (((pre \o FlattenSeq(rd)) \o FlattenSeq(ws)) \o FlattenSeq(ag)) \o FlattenSeq(wr)
      <4>1. PICK a, b, c, d, e : /\ a = pre /\ b = FlattenSeq(rd) /\ c = FlattenSeq(ws)
                                 /\ d = FlattenSeq(ag) /\ e = FlattenSeq(wr)
        OBVIOUS
      <4>2. Five(a, b, c, d, e)
        BY <1>18, <4>1 DEF Five
      <4>3. (a \o b) \o ((c \o d) \o e) = (((a \o b) \o c) \o d) \o e
        BY <4>2, RegroupRounds
      <4> QED
        BY <4>1, <4>3
    <3>8. Rsag(len, write, pull)
            = (((pre \o FlattenSeq(rd)) \o FlattenSeq(ws)) \o FlattenSeq(ag)) \o FlattenSeq(wr)
      BY <1>5, <1>15, <2>1, <3>7 DEF RsagJoins
    <3>9. D = (D0 \cup E1) \cup E2
      BY <1>19, <2>1
    <3> QED
      BY <3>6, <3>8, <3>9 DEF Tidy
  <2>2. CASE ~pull
    <3>1. \A c, d \in C : c # d => \A x \in OwnBy(len)[c], y \in PushBy(len)[d] : x[2] # y[2]
      <4>1. \A c \in C : \A x \in OwnBy(len)[c] : x[2] = c
        BY <1>3, AtomFields DEF OwnBy
      <4>2. \A c \in C : \A x \in PushBy(len)[c] : x[2] = c
        BY <1>3, AtomFields DEF PushBy
      <4> QED
        BY <4>1, <4>2
    <3>2. KindLvl(kind) < KindLvl("gather") /\ "gather" \in MoveKinds
      BY <1>12 DEF KindLvl, MoveKinds
    <3>3. Orderly(FlattenSeq(rd) \o FlattenSeq(bc), L, E1 \cup E3, {})
      BY <1>2, <1>3, <1>9, <1>10, <1>12, <1>13, <3>1, <3>2, SecondTurnDeals
    <3>4. MovesAllAfter(D0, E1 \cup E3)
      BY <1>14, <1>17 DEF MovesAllAfter, MovesAfter
    <3>5. Orderly(pre \o (FlattenSeq(rd) \o FlattenSeq(bc)), L, D0 \cup (E1 \cup E3), {})
      BY <1>2, <1>16, <3>3, <3>4, AfterTidy
    <3>6. Orderly((pre \o (FlattenSeq(rd) \o FlattenSeq(bc))) \o FlattenSeq(ws), L, D0 \cup (E1 \cup E3), {})
      BY <1>11, <3>5, ThenWaits
    <3>7. (pre \o FlattenSeq(rd)) \o (FlattenSeq(bc) \o FlattenSeq(ws))
            = (pre \o (FlattenSeq(rd) \o FlattenSeq(bc))) \o FlattenSeq(ws)
      <4>1. PICK a, b, c, d : /\ a = pre /\ b = FlattenSeq(rd) /\ c = FlattenSeq(bc)
                              /\ d = FlattenSeq(ws)
        OBVIOUS
      <4>2. IsSeq(a) /\ IsSeq(b) /\ IsSeq(c) /\ IsSeq(d)
        BY <1>18, <4>1
      <4>3. (a \o b) \o (c \o d) = (a \o (b \o c)) \o d
        BY <4>2, RegroupTurns
      <4> QED
        BY <4>1, <4>3
    <3>8. Rsag(len, write, pull) = (pre \o (FlattenSeq(rd) \o FlattenSeq(bc))) \o FlattenSeq(ws)
      BY <1>5, <1>15, <2>2, <3>7 DEF RsagJoins
    <3>9. D = D0 \cup (E1 \cup E3)
      BY <1>19, <2>2
    <3> QED
      BY <3>6, <3>8, <3>9
  <2> QED
    BY <2>1, <2>2
<1>21. Serves(L, D, "stage")
  <2>1. ASSUME NEW c \in C
        PROVE  /\ \/ Covers(D, "direct", "stage", c, c, len)
                  \/ Covers(D, "staged", "stage", c, c, len) /\ \A q \in Ranks : Covers(D, "scatter", "stage", q, c, len)
               /\ \A p \in Ranks \ {c} : Covers(D, "gather", "stage", p, c, len)
               /\ \/ \A d \in D : ~(d.k = "stage" /\ d.kind = "staged")
                  \/ \A q \in Ranks : Covers(D, "scatter", "stage", q, c, len)
    <3>1. c \in Ranks
      BY <1>3
    <3>2. Covers(D, kind, "stage", c, c, len)
      <4>1. Atom(c, c, len) \in All(C, OwnBy(len)) /\ E1 \subseteq D
        BY <1>19, <3>1 DEF OwnBy, All
      <4> QED
        BY <1>2, <1>13, <3>1, <4>1, AtomCovers
    <3>3. \A p \in Ranks \ {c} : Covers(D, "gather", "stage", p, c, len)
      <4> SUFFICES ASSUME NEW p \in Ranks \ {c} PROVE Covers(D, "gather", "stage", p, c, len)
        OBVIOUS
      <4>1. CASE pull
        <5>1. Atom(p, c, len) \in All(Ranks, PullBy(len)) /\ E2 \subseteq D
          BY <1>19, <3>1, <4>1 DEF PullBy, All
        <5> QED
          BY <1>2, <1>13, <3>1, <5>1, AtomCovers
      <4>2. CASE ~pull
        <5>1. Atom(p, c, len) \in All(C, PushBy(len)) /\ E3 \subseteq D
          BY <1>19, <3>1, <4>2 DEF PushBy, All
        <5> QED
          BY <1>2, <1>13, <3>1, <5>1, AtomCovers
      <4> QED
        BY <4>1, <4>2
    <3>4. CASE write
      <4>1. ASSUME NEW q \in Ranks PROVE Covers(D, "scatter", "stage", q, c, len)
        <5>1. Atom(q, c, len) \in All(Ranks, ScatterBy(len)) /\ E0 \subseteq D
          BY <1>15, <1>19, <3>1, <3>4 DEF ScatterBy, All
        <5> QED
          BY <1>2, <1>13, <3>1, <5>1, AtomCovers
      <4>2. kind = "staged"
        BY <1>6, <3>4
      <4> QED
        BY <3>2, <3>3, <4>1, <4>2
    <3>5. CASE ~write
      <4>1. kind = "direct" /\ D0 = {}
        BY <1>6, <1>15, <3>5
      <4>2. \A d \in D : d.kind # "staged"
        BY <1>14, <1>19, <4>1
      <4> QED
        BY <3>2, <3>3, <4>1, <4>2
    <3> QED
      BY <3>4, <3>5
  <2> QED
    BY <1>1, <1>2, <2>1, SharesServe
<1> QED
  BY <1>1, <1>2, <1>20, <1>21 DEF Runs

-----------------------------------------------------------------------------
(* The SDMA scheme over a range.                                           *)
SdmaParts(base, len, k, stage, f1, f2, f3, f4, p1, p2, rd, ws, p3, p4) ==
  /\ \A i \in 1..r : /\ f1[i] = [j \in 1..r |-> f1[i][j]] /\ f2[i] = [j \in 1..r |-> f2[i][j]]
                     /\ f3[i] = [j \in 1..r |-> f3[i][j]] /\ f4[i] = [j \in 1..r |-> f4[i][j]]
  /\ \A i, j \in 1..r :
       /\ Len4(j - 1, len) = 0 => f1[i][j] = <<>> /\ f2[i][j] = <<>>
       /\ Len4(j - 1, len) # 0 =>
            /\ f1[i][j] = Refill(Sdma(i - 1, j - 1),
                 <<Copy(Buf(i - 1, base + (j - 1) * Clv(len)),
                        StageOf(stage, j - 1, (i - 1) * Clv(len)), Len4(j - 1, len))>>)
            /\ f2[i][j] = Wait(Sdma(i - 1, j - 1))
       /\ f3[i][j] = Refill(Sdma(i - 1, j - 1),
            <<Copy(Buf(i - 1, base + (i - 1) * Clv(len)),
                   Buf(j - 1, base + (i - 1) * Clv(len)), Len4(i - 1, len))>>)
       /\ f4[i][j] = Wait(Sdma(i - 1, j - 1))
  /\ p1 = [i \in 1..r |-> p1[i]] /\ p2 = [i \in 1..r |-> p2[i]] /\ rd = [i \in 1..r |-> rd[i]]
  /\ ws = [i \in 1..r |-> ws[i]] /\ p3 = [i \in 1..r |-> p3[i]] /\ p4 = [i \in 1..r |-> p4[i]]
  /\ \A i \in 1..r :
       /\ p1[i] = FlattenSeq(f1[i]) /\ p2[i] = FlattenSeq(f2[i])
       /\ Len4(i - 1, len) = 0 => rd[i] = <<>> /\ ws[i] = <<>> /\ p3[i] = <<>> /\ p4[i] = <<>>
       /\ Len4(i - 1, len) # 0 =>
            /\ rd[i] = ReduceStaged(Queue(k, i - 1), i - 1, base, StageOf(stage, i - 1, 0), len)
            /\ ws[i] = Wait(Queue(k, i - 1))
            /\ p3[i] = FlattenSeq(f3[i]) /\ p4[i] = FlattenSeq(f4[i])

SdmaJoins(base, len, k, stage, p1, p2, rd, ws, p3, p4) ==
  SdmaRange(base, len, k, stage) =
    ((((FlattenSeq(p1) \o FlattenSeq(p2)) \o FlattenSeq(rd)) \o FlattenSeq(ws))
       \o FlattenSeq(p3)) \o FlattenSeq(p4)

LEMMA SdmaIs ==
  ASSUME NEW base, NEW len, NEW k, NEW stage
  PROVE  \E f1, f2, f3, f4, p1, p2, rd, ws, p3, p4 :
           /\ SdmaParts(base, len, k, stage, f1, f2, f3, f4, p1, p2, rd, ws, p3, p4)
           /\ SdmaJoins(base, len, k, stage, p1, p2, rd, ws, p3, p4)
<1>5. PICK f1 : f1 = [i \in 1..r |-> [j \in 1..r |->
                   IF Len4(j - 1, len) = 0 THEN <<>>
                   ELSE Refill(Sdma(i - 1, j - 1),
                          <<Copy(Buf(i - 1, base + (j - 1) * Clv(len)),
                                 StageOf(stage, j - 1, (i - 1) * Clv(len)), Len4(j - 1, len))>>)]]
  OBVIOUS
<1>6. PICK f2 : f2 = [i \in 1..r |-> [j \in 1..r |->
                   IF Len4(j - 1, len) = 0 THEN <<>> ELSE Wait(Sdma(i - 1, j - 1))]]
  OBVIOUS
<1>7. PICK f3 : f3 = [i \in 1..r |-> [j \in 1..r |->
                   Refill(Sdma(i - 1, j - 1),
                          <<Copy(Buf(i - 1, base + (i - 1) * Clv(len)),
                                 Buf(j - 1, base + (i - 1) * Clv(len)), Len4(i - 1, len))>>)]]
  OBVIOUS
<1>8. PICK f4 : f4 = [i \in 1..r |-> [j \in 1..r |-> Wait(Sdma(i - 1, j - 1))]]
  OBVIOUS
<1>9. PICK p1, p2, p3, p4 :
        /\ p1 = [i \in 1..r |-> FlattenSeq(f1[i])]
        /\ p2 = [i \in 1..r |-> FlattenSeq(f2[i])]
        /\ p3 = [i \in 1..r |-> IF Len4(i - 1, len) = 0 THEN <<>> ELSE FlattenSeq(f3[i])]
        /\ p4 = [i \in 1..r |-> IF Len4(i - 1, len) = 0 THEN <<>> ELSE FlattenSeq(f4[i])]
  OBVIOUS
<1>10. PICK rd, ws :
         /\ rd = [i \in 1..r |-> IF Len4(i - 1, len) = 0 THEN <<>>
                    ELSE ReduceStaged(Queue(k, i - 1), i - 1, base, StageOf(stage, i - 1, 0), len)]
         /\ ws = [i \in 1..r |-> IF Len4(i - 1, len) = 0 THEN <<>> ELSE Wait(Queue(k, i - 1))]
  OBVIOUS
<1>11. SdmaJoins(base, len, k, stage, p1, p2, rd, ws, p3, p4)
  BY <1>5, <1>6, <1>7, <1>8, <1>9, <1>10 DEF SdmaRange, EachRank, EachShare, SdmaJoins
<1>12. \A i \in 1..r : /\ f1[i] = [j \in 1..r |-> f1[i][j]] /\ f2[i] = [j \in 1..r |-> f2[i][j]]
                       /\ f3[i] = [j \in 1..r |-> f3[i][j]] /\ f4[i] = [j \in 1..r |-> f4[i][j]]
  BY <1>5, <1>6, <1>7, <1>8
<1>13. SdmaParts(base, len, k, stage, f1, f2, f3, f4, p1, p2, rd, ws, p3, p4)
  BY <1>5, <1>6, <1>7, <1>8, <1>9, <1>10, <1>12 DEF SdmaParts
<1> QED
  BY <1>11, <1>13

LEMMA SdmaRangeRuns ==
  ASSUME GroupAssumption, r >= 2, NEW L, Laid(L), NEW len \in 0..Capacity, NEW base \in Nat,
         NEW k, NEW stage \in Kinds, PartOf(L, stage, base, len)
  PROVE  \E D : /\ Tidy(SdmaRange(base, len, k, stage), L, D) /\ Serves(L, D, stage)
                /\ \A d \in D : d.k = stage
<1>1. PICK C, D, E : C = Shares(len) /\ D = Ranks \X C /\ E = C \X Ranks
  OBVIOUS
<1>2. /\ C \subseteq Ranks /\ D \subseteq Ranks \X Ranks /\ E \subseteq Ranks \X Ranks
      /\ \A e \in D : e[2] \in 0..(r - 1)
      /\ \A e \in E : e[2] \in 0..(r - 1)
  BY <1>1 DEF Shares, Ranks
<1>3. r \in Nat /\ \A i \in 1..r : i - 1 \in Ranks /\ (i - 1 \in C <=> Len4(i - 1, len) # 0)
  BY <1>1, RankIndex DEF Shares
<1>4. /\ \A i \in 1..r, j \in 1..r : <<i - 1, j - 1>> \in D <=> Len4(j - 1, len) # 0
      /\ \A i \in 1..r, j \in 1..r : <<i - 1, j - 1>> \in E <=> Len4(i - 1, len) # 0
      /\ \A i \in 1..r : Len4(i - 1, len) = 0 => \A q \in Ranks : <<i - 1, q>> \notin E
  BY <1>1, <1>3
<1>5. PICK f1, f2, f3, f4, p1, p2, rd, ws, p3, p4 :
           /\ SdmaParts(base, len, k, stage, f1, f2, f3, f4, p1, p2, rd, ws, p3, p4)
           /\ SdmaJoins(base, len, k, stage, p1, p2, rd, ws, p3, p4)
  BY SdmaIs
<1>6. /\ \A g, c \in Ranks :
           /\ <<Copy(Buf(g, base + c * Clv(len)), StageOf(stage, c, g * Clv(len)), Len4(c, len))>>
                = Made(L, "scatter", stage, QueueScatterBy(len)[<<g, c>>])
           /\ <<Copy(Buf(c, base + c * Clv(len)), Buf(g, base + c * Clv(len)), Len4(c, len))>>
                = Made(L, "gather", stage, QueuePushBy(len)[<<c, g>>])
      /\ \A g \in Ranks :
           GatherReduceLocal(StageOf(stage, g, 0), Buf(g, base + g * Clv(len)), Clv(len), Len4(g, len))
              = Made(L, "staged", stage, OwnBy(len)[g])
  <2>1. \A g, c \in Ranks : /\ QueueScatterBy(len)[<<g, c>>] = {Atom(g, c, len)}
                            /\ QueuePushBy(len)[<<c, g>>] = {Atom(g, c, len)}
    BY DEF QueueScatterBy, QueuePushBy
  <2> QED
    BY <2>1, ShareKernels DEF Made
<1>7. Deals(FlattenSeq(p1), Grid(D), L, "scatter", stage, All(D, QueueScatterBy(len)))
  <2>1. \A i, j \in 1..r : IF <<i - 1, j - 1>> \in D
          THEN Handed(f1[i][j], Sdma(i - 1, j - 1), Made(L, "scatter", stage, QueueScatterBy(len)[<<i - 1, j - 1>>]))
          ELSE f1[i][j] = <<>>
    <3> SUFFICES ASSUME NEW i \in 1..r, NEW j \in 1..r
                 PROVE  IF <<i - 1, j - 1>> \in D
          THEN Handed(f1[i][j], Sdma(i - 1, j - 1), Made(L, "scatter", stage, QueueScatterBy(len)[<<i - 1, j - 1>>]))
          ELSE f1[i][j] = <<>>
      OBVIOUS
    <3>1. PICK g, c : g = i - 1 /\ c = j - 1 /\ g \in Ranks /\ c \in Ranks
      BY <1>3
    <3>2. <<g, c>> \in D <=> Len4(c, len) # 0
      BY <1>4, <3>1
    <3>3. Len4(c, len) = 0 => f1[i][j] = <<>>
      BY <1>5, <3>1 DEF SdmaParts
    <3>4. Len4(c, len) # 0 => f1[i][j] = Refill(Sdma(g, c),
                 <<Copy(Buf(g, base + c * Clv(len)),
                        StageOf(stage, c, g * Clv(len)), Len4(c, len))>>)
      BY <1>5, <3>1 DEF SdmaParts
    <3>5. <<Copy(Buf(g, base + c * Clv(len)), StageOf(stage, c, g * Clv(len)), Len4(c, len))>>
                = Made(L, "scatter", stage, QueueScatterBy(len)[<<g, c>>])
      BY <1>6, <3>1
    <3>6. IF <<g, c>> \in D
          THEN Handed(f1[i][j], Sdma(g, c), Made(L, "scatter", stage, QueueScatterBy(len)[<<g, c>>]))
          ELSE f1[i][j] = <<>>
      BY <3>2, <3>3, <3>4, <3>5 DEF Handed
    <3> QED
      BY <3>1, <3>6
  <2>2. GridDealt(p1, f1, r, D, L, "scatter", stage, QueueScatterBy(len))
    BY <1>5, <2>1 DEF GridDealt, SdmaParts
  <2>3. Parted(L, "scatter", stage, D, QueueScatterBy(len))
    BY <1>2, QueueShares
  <2> QED
    BY <1>2, <1>3, <2>2, <2>3, GridDeals
<1>8. WaitBlock(FlattenSeq(p2), Grid(D))
  <2>1. GridAwaited(p2, f2, r, D)
    BY <1>4, <1>5 DEF SdmaParts, GridAwaited
  <2> QED
    BY <1>2, <1>3, <2>1, GridWaits
<1>9. Deals(FlattenSeq(p3), Grid(E), L, "gather", stage, All(E, QueuePushBy(len)))
  <2>1. ASSUME NEW i \in 1..r
        PROVE  \/ p3[i] = <<>> /\ \A q \in Ranks : <<i - 1, q>> \notin E
               \/ /\ p3[i] = FlattenSeq(f3[i])
                  /\ \A j \in 1..r : IF <<i - 1, j - 1>> \in E
                       THEN Handed(f3[i][j], Sdma(i - 1, j - 1), Made(L, "gather", stage, QueuePushBy(len)[<<i - 1, j - 1>>]))
                       ELSE f3[i][j] = <<>>
    <3>1. CASE Len4(i - 1, len) = 0
      BY <1>4, <1>5, <3>1 DEF SdmaParts
    <3>2. CASE Len4(i - 1, len) # 0
      <4>1. \A j \in 1..r : Handed(f3[i][j], Sdma(i - 1, j - 1), Made(L, "gather", stage, QueuePushBy(len)[<<i - 1, j - 1>>]))
        <5> SUFFICES ASSUME NEW j \in 1..r
                     PROVE  Handed(f3[i][j], Sdma(i - 1, j - 1), Made(L, "gather", stage, QueuePushBy(len)[<<i - 1, j - 1>>]))
          OBVIOUS
        <5>1. PICK g, c : g = i - 1 /\ c = j - 1 /\ g \in Ranks /\ c \in Ranks
          BY <1>3
        <5>2. f3[i][j] = Refill(Sdma(g, c), <<Copy(Buf(g, base + g * Clv(len)),
                                                   Buf(c, base + g * Clv(len)), Len4(g, len))>>)
          BY <1>5, <5>1 DEF SdmaParts
        <5>3. <<Copy(Buf(g, base + g * Clv(len)), Buf(c, base + g * Clv(len)), Len4(g, len))>>
                = Made(L, "gather", stage, QueuePushBy(len)[<<g, c>>])
          BY <1>6, <5>1
        <5>4. Handed(f3[i][j], Sdma(g, c), Made(L, "gather", stage, QueuePushBy(len)[<<g, c>>]))
          BY <5>2, <5>3 DEF Handed
        <5> QED
          BY <5>1, <5>4
      <4>2. p3[i] = FlattenSeq(f3[i])
        BY <1>5, <3>2 DEF SdmaParts
      <4> QED
        BY <1>4, <3>2, <4>1, <4>2
    <3> QED
      BY <3>1, <3>2
  <2>2. GridDealt(p3, f3, r, E, L, "gather", stage, QueuePushBy(len))
    BY <1>5, <2>1 DEF GridDealt, SdmaParts
  <2>3. Parted(L, "gather", stage, E, QueuePushBy(len))
    BY <1>2, QueueShares
  <2> QED
    BY <1>2, <1>3, <2>2, <2>3, GridDeals
<1>10. WaitBlock(FlattenSeq(p4), Grid(E))
  <2>1. GridAwaited(p4, f4, r, E)
    BY <1>4, <1>5 DEF SdmaParts, GridAwaited
  <2> QED
    BY <1>2, <1>3, <2>1, GridWaits
<1>11. Deals(FlattenSeq(rd), Queues(k, C), L, "staged", stage, All(C, OwnBy(len)))
  <2>1. QueueDealt(rd, k, C, L, "staged", stage, OwnBy(len))
    BY <1>3, <1>5, <1>6 DEF QueueDealt, SdmaParts, Handed, ReduceStaged
  <2>2. Parted(L, "staged", stage, C, OwnBy(len))
    BY <1>2, RankShares
  <2> QED
    BY <1>2, <2>1, <2>2, QueueDeals
<1>12. WaitBlock(FlattenSeq(ws), Queues(k, C))
  BY <1>2, <1>3, <1>5, QueueWaits DEF SdmaParts
<1>13. PICK E0, E1, E2 : /\ E0 = Spread(L, "scatter", stage, All(D, QueueScatterBy(len)))
                         /\ E1 = Spread(L, "staged", stage, All(C, OwnBy(len)))
                         /\ E2 = Spread(L, "gather", stage, All(E, QueuePushBy(len)))
  OBVIOUS
<1>14. /\ \A d \in E0 : Lvl(d) = 0 /\ d.k = stage
       /\ \A d \in E1 : Lvl(d) = 1 /\ d.k = stage
       /\ \A d \in E2 : Lvl(d) = 2 /\ d.k = stage
  BY <1>13, SpreadLvl, MvFields DEF KindLvl, Spread
<1>15. Tidy(FlattenSeq(p1) \o FlattenSeq(p2), L, E0)
  BY <1>7, <1>8, <1>13, DealRound DEF MoveKinds
<1>16. \A d \in E0 : Lvl(d) < KindLvl("staged")
  BY <1>14 DEF KindLvl
<1>17. Tidy(((FlattenSeq(p1) \o FlattenSeq(p2)) \o FlattenSeq(rd)) \o FlattenSeq(ws), L, E0 \cup E1)
  BY <1>11, <1>12, <1>13, <1>15, <1>16, NextDealRound DEF MoveKinds
<1>18. \A d \in E0 \cup E1 : Lvl(d) < KindLvl("gather")
  BY <1>14 DEF KindLvl
<1>19. Tidy(((((FlattenSeq(p1) \o FlattenSeq(p2)) \o FlattenSeq(rd)) \o FlattenSeq(ws))
            \o FlattenSeq(p3)) \o FlattenSeq(p4), L, (E0 \cup E1) \cup E2)
  BY <1>9, <1>10, <1>13, <1>17, <1>18, NextDealRound DEF MoveKinds
<1>20. PICK Z : Z = (E0 \cup E1) \cup E2
  OBVIOUS
<1>21. Serves(L, Z, stage)
  <2>1. ASSUME NEW c \in C
        PROVE  /\ Covers(Z, "staged", stage, c, c, len)
               /\ \A q \in Ranks : Covers(Z, "scatter", stage, q, c, len)
               /\ \A p \in Ranks \ {c} : Covers(Z, "gather", stage, p, c, len)
    <3>1. c \in Ranks /\ E0 \subseteq Z /\ E1 \subseteq Z /\ E2 \subseteq Z
      BY <1>2, <1>20
    <3>2. Covers(Z, "staged", stage, c, c, len)
      <4>1. Atom(c, c, len) \in All(C, OwnBy(len))
        BY <3>1 DEF OwnBy, All
      <4> QED
        BY <1>13, <3>1, <4>1, AtomCovers
    <3>3. ASSUME NEW q \in Ranks PROVE Covers(Z, "scatter", stage, q, c, len)
      <4>1. <<q, c>> \in D /\ Atom(q, c, len) \in QueueScatterBy(len)[<<q, c>>]
        BY <1>1, <3>1 DEF QueueScatterBy
      <4>2. Atom(q, c, len) \in All(D, QueueScatterBy(len))
        BY <4>1 DEF All
      <4> QED
        BY <1>13, <3>1, <4>2, AtomCovers
    <3>4. ASSUME NEW p \in Ranks PROVE Covers(Z, "gather", stage, p, c, len)
      <4>1. <<c, p>> \in E /\ Atom(p, c, len) \in QueuePushBy(len)[<<c, p>>]
        BY <1>1, <3>1 DEF QueuePushBy
      <4>2. Atom(p, c, len) \in All(E, QueuePushBy(len))
        BY <4>1 DEF All
      <4> QED
        BY <1>13, <3>1, <4>2, AtomCovers
    <3> QED
      BY <3>2, <3>3, <3>4
  <2> QED
    BY <1>1, <2>1, SharesServe
<1>22. \A d \in Z : d.k = stage
  BY <1>14, <1>20
<1>23. Tidy(SdmaRange(base, len, k, stage), L, Z)
  BY <1>5, <1>19, <1>20 DEF SdmaJoins
<1> QED
  BY <1>21, <1>22, <1>23

LEMMA SdmaRuns ==
  ASSUME GroupAssumption, r >= 2, NEW len \in 0..Capacity, ShareFacts(len), NEW k
  PROVE  \E D : Runs(SdmaRange(0, len, k, "stage"), Vector(len), D)
<1>1. PICK L : L = Vector(len)
  OBVIOUS
<1>2. /\ Laid(L) /\ PartOf(L, "stage", 0, len) /\ "stage" \in Kinds
      /\ \A D : Serves(L, D, "stage_b")
  BY <1>1, VectorFacts
<1>3. PICK z : z = 0 /\ z \in Nat
  OBVIOUS
<1>4. PartOf(L, "stage", z, len)
  BY <1>2, <1>3
<1>5. PICK D : Tidy(SdmaRange(z, len, k, "stage"), L, D) /\ Serves(L, D, "stage")
  BY <1>2, <1>3, <1>4, SdmaRangeRuns
<1> QED
  BY <1>1, <1>2, <1>3, <1>5 DEF Runs, Tidy

-----------------------------------------------------------------------------
(* A vector that divides into equal shares of whole groups.                *)
LEMMA Multiple ==
  ASSUME NEW a \in Nat, NEW b \in Nat \ {0}, a % b = 0
  PROVE  \E k \in Nat : a = b * k
<1>1. PICK q : q = a \div b
  OBVIOUS
<1>2. q \in Int /\ b * q <= a /\ a < b * q + b
  BY <1>1, DivBounds
<1>3. a = b * q + (a % b)
  BY <1>1
<1>4. a = b * q
  BY <1>2, <1>3
<1>5. q >= 0
  <2> SUFFICES ASSUME q < 0 PROVE FALSE
    BY <1>2
  <2>1. b * (q + 1) <= b * 0
    BY <1>2
  <2> QED
    BY <1>2, <2>1
<1> QED
  BY <1>2, <1>4, <1>5

EvenFacts(len, k) ==
  /\ k \in Nat /\ Clv(len) = k /\ Share4(len) = k /\ Groups(len) = r * k
  /\ \A c \in Ranks : Len4(c, len) = k

LEMMA EvenShares ==
  ASSUME GroupAssumption, NEW len \in 0..Capacity, len % (4 * r) = 0
  PROVE  EvenFacts(len, Share4(len))
<1>1. r \in Nat \ {0} /\ len \in Nat /\ 4 * r \in Nat \ {0}
  BY DEF GroupAssumption
<1>2. PICK k \in Nat : len = (4 * r) * k
  BY <1>1, Multiple
<1>3. PICK x : x = r * k /\ x \in Nat
  BY <1>1
<1>4. len = 4 * x /\ len = r * (4 * k)
  BY <1>1, <1>2, <1>3
<1>5. Groups(len) = x
  BY <1>3, <1>4 DEF Groups, CeilDiv
<1>6. 4 * k = len \div r
  <2>1. 4 * k \in Int /\ (4 * k) * r <= len /\ len < (4 * k) * r + r
    BY <1>1, <1>4
  <2> QED
    BY <1>1, <2>1, DivUnique
<1>7. 4 * k = CeilDiv(len, r)
  <2>1. len + r - 1 \in Int /\ 4 * k \in Int
    BY <1>1
  <2>2. (4 * k) * r <= len + r - 1 /\ len + r - 1 < (4 * k) * r + r
    BY <1>1, <1>4
  <2>3. 4 * k = (len + r - 1) \div r
    BY <1>1, <2>1, <2>2, DivUnique
  <2> QED
    BY <2>3 DEF CeilDiv
<1>8. Share4(len) = k
  <2>1. (4 * k) \div 4 = k
    OBVIOUS
  <2> QED
    BY <1>6, <2>1 DEF Share4
<1>9. ChunkLength(len, r) = 4 * k
  <2>1. RoundUp4(4 * k) = 4 * k
    BY DEF RoundUp4
  <2> QED
    BY <1>7, <2>1 DEF ChunkLength
<1>10. Clv(len) = k
  <2>1. (4 * k) \div 4 = k
    OBVIOUS
  <2> QED
    BY <1>9, <2>1 DEF Clv
<1>11. ASSUME NEW c \in Ranks PROVE Len4(c, len) = k
  <2>1. c \in Nat /\ c < r
    BY <1>1 DEF Ranks
  <2>2. c * k \in Nat /\ c * k + k <= r * k
    BY <2>1, <1>1, Products
  <2>3. PICK y : y = c * k /\ y \in Nat
    BY <2>2
  <2>4. c * (4 * k) = 4 * y
    BY <2>1, <2>3
  <2>5. y + k <= x
    BY <1>3, <2>2, <2>3
  <2>6. ChunkLen(c, 4 * k, len) = 4 * k
    BY <1>3, <1>4, <2>3, <2>4, <2>5 DEF ChunkLen, Lesser
  <2>7. Groups(4 * k) = k
    BY DEF Groups, CeilDiv
  <2> QED
    BY <1>9, <2>6, <2>7 DEF Len4
<1> QED
  BY <1>3, <1>5, <1>8, <1>10, <1>11 DEF EvenFacts

-----------------------------------------------------------------------------
(* The hybrid scheme.                                                      *)
HybridScatterBy(len, m) ==
  [a \in Mixed(m) |-> IF a[1] = "sdma" THEN {Atom(a[2], a[3], len)}
                                       ELSE {Atom(a[2], c, len) : c \in m..(r - 1)}]
HybridPushBy(len, m) ==
  [a \in Mixed(m) |-> IF a[1] = "sdma" THEN {Atom(PeerOf(a[2], a[3]), a[2], len)}
                                       ELSE {Atom(PeerOf(a[2], p), a[2], len) : p \in m..(r - 2)}]

LEMMA MixedMembers ==
  ASSUME GroupAssumption, NEW m \in Nat, m <= r
  PROVE  /\ \A g \in Ranks : Cu(g) \in Mixed(m) /\ Cu(g)[1] = "cu" /\ Cu(g)[2] = g
         /\ \A g \in Ranks, q \in 0..(m - 1) :
              /\ Sdma(g, q) \in Mixed(m) /\ Sdma(g, q)[1] = "sdma"
              /\ Sdma(g, q)[2] = g /\ Sdma(g, q)[3] = q
         /\ \A a \in Mixed(m) :
              \/ \E g \in Ranks, q \in 0..(m - 1) : a = Sdma(g, q)
              \/ \E g \in Ranks : a = Cu(g)
<1>1. PICK D : D = Ranks \X (0..(m - 1))
  OBVIOUS
<1>2. D \subseteq Ranks \X Ranks
  BY <1>1 DEF Ranks, GroupAssumption
<1>3. \A a \in Grid(D) : a = Sdma(a[2], a[3]) /\ <<a[2], a[3]>> \in D
  BY <1>2, GridNames
<1>4. \A a \in Queues("cu", Ranks) : \E g \in Ranks : a = Cu(g)
  BY DEF Queues, Cu
<1>5. \A g \in Ranks : Cu(g) \in Queues("cu", Ranks)
  BY DEF Queues, Cu
<1>6. \A g \in Ranks, q \in 0..(m - 1) : Sdma(g, q) \in Grid(D)
  BY <1>1, <1>2, GridNames
<1>7. Mixed(m) = Grid(D) \cup Queues("cu", Ranks)
  BY <1>1 DEF Mixed
<1>8. \A a \in Grid(D) : \E g \in Ranks, q \in 0..(m - 1) : a = Sdma(g, q)
  BY <1>1, <1>3
<1>9. \A g, q : Sdma(g, q)[1] = "sdma" /\ Sdma(g, q)[2] = g /\ Sdma(g, q)[3] = q
  BY DEF Sdma
<1>10. \A g : Cu(g)[1] = "cu" /\ Cu(g)[2] = g
  BY DEF Cu, Queue
<1> QED
  BY <1>4, <1>5, <1>6, <1>7, <1>8, <1>9, <1>10

LEMMA HybridScatterIs ==
  ASSUME GroupAssumption, NEW len, NEW m \in Nat, m <= r
  PROVE  /\ \A g \in Ranks, q \in 0..(m - 1) : HybridScatterBy(len, m)[Sdma(g, q)] = {Atom(g, q, len)}
         /\ \A g \in Ranks : HybridScatterBy(len, m)[Cu(g)] = {Atom(g, c, len) : c \in m..(r - 1)}
         /\ \A g \in Ranks, q \in 0..(m - 1) : HybridPushBy(len, m)[Sdma(g, q)] = {Atom(PeerOf(g, q), g, len)}
         /\ \A g \in Ranks : HybridPushBy(len, m)[Cu(g)] = {Atom(PeerOf(g, p), g, len) : p \in m..(r - 2)}
<1>1. \A a \in Mixed(m) : HybridScatterBy(len, m)[a] = IF a[1] = "sdma" THEN {Atom(a[2], a[3], len)}
                                       ELSE {Atom(a[2], c, len) : c \in m..(r - 1)}
  BY DEF HybridScatterBy
<1>2. \A a \in Mixed(m) : HybridPushBy(len, m)[a] = IF a[1] = "sdma" THEN {Atom(PeerOf(a[2], a[3]), a[2], len)}
                                       ELSE {Atom(PeerOf(a[2], p), a[2], len) : p \in m..(r - 2)}
  BY DEF HybridPushBy
<1>3. ASSUME NEW g \in Ranks
      PROVE  /\ HybridScatterBy(len, m)[Cu(g)] = {Atom(g, c, len) : c \in m..(r - 1)}
             /\ HybridPushBy(len, m)[Cu(g)] = {Atom(PeerOf(g, p), g, len) : p \in m..(r - 2)}
  <2>1. PICK a : a = Cu(g) /\ a \in Mixed(m) /\ a[1] = "cu" /\ a[2] = g
    BY MixedMembers
  <2>2. /\ HybridScatterBy(len, m)[a] = {Atom(a[2], c, len) : c \in m..(r - 1)}
        /\ HybridPushBy(len, m)[a] = {Atom(PeerOf(a[2], p), a[2], len) : p \in m..(r - 2)}
    BY <1>1, <1>2, <2>1
  <2> QED
    BY <2>1, <2>2
<1>4. ASSUME NEW g \in Ranks, NEW q \in 0..(m - 1)
      PROVE  /\ HybridScatterBy(len, m)[Sdma(g, q)] = {Atom(g, q, len)}
             /\ HybridPushBy(len, m)[Sdma(g, q)] = {Atom(PeerOf(g, q), g, len)}
  <2>1. PICK a : a = Sdma(g, q) /\ a \in Mixed(m) /\ a[1] = "sdma" /\ a[2] = g /\ a[3] = q
    BY MixedMembers
  <2>2. /\ HybridScatterBy(len, m)[a] = {Atom(a[2], a[3], len)}
        /\ HybridPushBy(len, m)[a] = {Atom(PeerOf(a[2], a[3]), a[2], len)}
    BY <1>1, <1>2, <2>1
  <2> QED
    BY <2>1, <2>2
<1> QED
  BY <1>3, <1>4

LEMMA Peers ==
  ASSUME GroupAssumption, r >= 2
  PROVE  /\ \A g \in Ranks, p \in 0..(r - 2) : PeerOf(g, p) \in Ranks \ {g}
         /\ \A g \in Ranks, p, q \in 0..(r - 2) : PeerOf(g, p) = PeerOf(g, q) => p = q
         /\ \A g \in Ranks : \A h \in Ranks \ {g} : \E p \in 0..(r - 2) : PeerOf(g, p) = h
<1>1. r \in Nat
  BY DEF GroupAssumption
<1>2. ASSUME NEW g \in Ranks, NEW h \in Ranks \ {g} PROVE \E p \in 0..(r - 2) : PeerOf(g, p) = h
  <2>1. CASE h < g
    <3>1. h \in 0..(r - 2) /\ PeerOf(g, h) = h
      BY <1>1, <2>1 DEF PeerOf, Ranks
    <3> QED
      BY <3>1
  <2>2. CASE ~(h < g)
    <3>1. h - 1 \in 0..(r - 2) /\ PeerOf(g, h - 1) = h
      BY <1>1, <2>2 DEF PeerOf, Ranks
    <3> QED
      BY <3>1
  <2> QED
    BY <2>1, <2>2
<1> QED
  BY <1>1, <1>2 DEF PeerOf, Ranks

LEMMA HybridShares ==
  ASSUME GroupAssumption, r >= 2, NEW L, NEW k, NEW base, NEW len, PartOf(L, k, base, len),
         NEW m \in Nat
  PROVE  /\ m <= r => Parted(L, "scatter", k, Mixed(m), HybridScatterBy(len, m))
         /\ m <= r - 1 => Parted(L, "gather", k, Mixed(m), HybridPushBy(len, m))
<1>1. r \in Nat /\ Ranks = 0..(r - 1)
  BY DEF GroupAssumption, Ranks
<1>2. ASSUME m <= r PROVE Parted(L, "scatter", k, Mixed(m), HybridScatterBy(len, m))
  <2>1. PICK A, F : A = Mixed(m) /\ F = HybridScatterBy(len, m)
    OBVIOUS
  <2>2. ASSUME NEW a \in A, NEW x \in F[a]
        PROVE  \E p, c \in Ranks : /\ x = Atom(p, c, len)
                                   /\ a = IF c < m THEN Sdma(p, c) ELSE Cu(p)
    <3>1. CASE \E g \in Ranks, q \in 0..(m - 1) : a = Sdma(g, q)
      <4>1. PICK g \in Ranks, q \in 0..(m - 1) : a = Sdma(g, q)
        BY <3>1
      <4>2. x = Atom(g, q, len)
        BY <1>2, <2>1, <4>1, HybridScatterIs
      <4>3. q \in Ranks /\ q < m
        BY <1>1, <1>2
      <4> QED
        BY <4>1, <4>2, <4>3
    <3>2. CASE \E g \in Ranks : a = Cu(g)
      <4>1. PICK g \in Ranks : a = Cu(g)
        BY <3>2
      <4>2. PICK c \in m..(r - 1) : x = Atom(g, c, len)
        BY <1>2, <2>1, <4>1, HybridScatterIs
      <4>3. c \in Ranks /\ ~(c < m)
        BY <1>1, <1>2
      <4> QED
        BY <4>1, <4>2, <4>3
    <3> QED
      BY <1>2, <2>1, <3>1, <3>2, MixedMembers
  <2>3. \A a \in A : \A x \in F[a] : \E p, c \in Ranks : x = Atom(p, c, len)
    BY <2>2
  <2>4. ASSUME NEW a \in A, NEW b \in A, NEW x \in F[a], NEW y \in F[b], x[1] = y[1], x[2] = y[2]
        PROVE  a = b /\ x = y
    <3>1. PICK p \in Ranks, c \in Ranks : x = Atom(p, c, len) /\ a = IF c < m THEN Sdma(p, c) ELSE Cu(p)
      BY <2>2
    <3>2. PICK q \in Ranks, d \in Ranks : y = Atom(q, d, len) /\ b = IF d < m THEN Sdma(q, d) ELSE Cu(q)
      BY <2>2
    <3>3. p = q /\ c = d
      BY <2>4, <3>1, <3>2, AtomFields
    <3> QED
      BY <3>1, <3>2, <3>3
  <2>5. \A a, b \in A : \A x \in F[a], y \in F[b] :
           (a = b /\ x = y) \/ x[2] # y[2] \/ ("scatter" \in {"scatter", "gather"} /\ x[1] # y[1])
    BY <2>4
  <2>6. Parted(L, "scatter", k, A, F)
    BY <2>3, <2>5, AtomShares
  <2> QED
    BY <2>1, <2>6
<1>3. ASSUME m <= r - 1 PROVE Parted(L, "gather", k, Mixed(m), HybridPushBy(len, m))
  <2>1. PICK A, F : A = Mixed(m) /\ F = HybridPushBy(len, m)
    OBVIOUS
  <2>2. ASSUME NEW a \in A, NEW x \in F[a]
        PROVE  \E g \in Ranks, p \in 0..(r - 2) :
                 /\ x = Atom(PeerOf(g, p), g, len) /\ PeerOf(g, p) \in Ranks
                 /\ a = IF p < m THEN Sdma(g, p) ELSE Cu(g)
    <3>1. CASE \E g \in Ranks, q \in 0..(m - 1) : a = Sdma(g, q)
      <4>1. PICK g \in Ranks, q \in 0..(m - 1) : a = Sdma(g, q)
        BY <3>1
      <4>2. x = Atom(PeerOf(g, q), g, len)
        BY <1>1, <1>3, <2>1, <4>1, HybridScatterIs
      <4>3. q \in 0..(r - 2) /\ q < m
        BY <1>1, <1>3
      <4> QED
        BY <4>1, <4>2, <4>3, Peers
    <3>2. CASE \E g \in Ranks : a = Cu(g)
      <4>1. PICK g \in Ranks : a = Cu(g)
        BY <3>2
      <4>2. PICK p \in m..(r - 2) : x = Atom(PeerOf(g, p), g, len)
        BY <1>1, <1>3, <2>1, <4>1, HybridScatterIs
      <4>3. p \in 0..(r - 2) /\ ~(p < m)
        BY <1>1, <1>3
      <4> QED
        BY <4>1, <4>2, <4>3, Peers
    <3>3. m <= r
      BY <1>1, <1>3
    <3> QED
      BY <2>1, <3>1, <3>2, <3>3, MixedMembers
  <2>3. \A a \in A : \A x \in F[a] : \E p, c \in Ranks : x = Atom(p, c, len)
    BY <2>2
  <2>4. ASSUME NEW a \in A, NEW b \in A, NEW x \in F[a], NEW y \in F[b], x[1] = y[1], x[2] = y[2]
        PROVE  a = b /\ x = y
    <3>1. PICK g \in Ranks, p \in 0..(r - 2) : x = Atom(PeerOf(g, p), g, len) /\ a = IF p < m THEN Sdma(g, p) ELSE Cu(g)
      BY <2>2
    <3>2. PICK h \in Ranks, q \in 0..(r - 2) : y = Atom(PeerOf(h, q), h, len) /\ b = IF q < m THEN Sdma(h, q) ELSE Cu(h)
      BY <2>2
    <3>3. g = h /\ PeerOf(g, p) = PeerOf(h, q)
      BY <2>4, <3>1, <3>2, AtomFields
    <3>4. p = q
      BY <3>3, Peers
    <3> QED
      BY <3>1, <3>2, <3>3, <3>4
  <2>5. \A a, b \in A : \A x \in F[a], y \in F[b] :
           (a = b /\ x = y) \/ x[2] # y[2] \/ ("gather" \in {"scatter", "gather"} /\ x[1] # y[1])
    BY <2>4
  <2>6. Parted(L, "gather", k, A, F)
    BY <2>3, <2>5, AtomShares
  <2> QED
    BY <2>1, <2>6
<1> QED
  BY <1>2, <1>3

LEMMA HybridKernels ==
  ASSUME GroupAssumption, r >= 2, NEW L, NEW len, PartOf(L, "stage", 0, len),
         NEW clv, EvenFacts(len, clv), NEW g \in Ranks
  PROVE  /\ \A q \in Ranks :
              <<Copy(Buf(g, q * clv), Stage(q, g * clv), clv)>>
                = Made(L, "scatter", "stage", {Atom(g, q, len)})
         /\ \A h \in Ranks :
              <<Copy(Buf(g, g * clv), Buf(h, g * clv), clv)>>
                = Made(L, "gather", "stage", {Atom(h, g, len)})
         /\ \A m \in Nat :
              P2pBroadcast(Buf(g, g * clv), {Buf(PeerOf(g, p), g * clv) : p \in m..(r - 2)}, clv)
                = Made(L, "gather", "stage", {Atom(PeerOf(g, p), g, len) : p \in m..(r - 2)})
<1>1. /\ clv \in Nat /\ Clv(len) = clv /\ r \in Nat /\ Ranks = 0..(r - 1)
      /\ \A c \in Ranks : Len4(c, len) = clv
  BY DEF EvenFacts, GroupAssumption, Ranks
<1>2. \A c \in Ranks : 0 + c * Clv(len) = c * Clv(len)
  BY SharePlaces
<1>3. \A h, c \in Ranks :
        /\ Copy(Buf(h, c * clv), Stage(c, h * clv), clv)
             = Moved(L, Spread(L, "scatter", "stage", {Atom(h, c, len)}))
        /\ Copy(Buf(c, c * clv), Buf(h, c * clv), clv)
             = Moved(L, Spread(L, "gather", "stage", {Atom(h, c, len)}))
  <2> SUFFICES ASSUME NEW h \in Ranks, NEW c \in Ranks
               PROVE  /\ Copy(Buf(h, c * clv), Stage(c, h * clv), clv)
                           = Moved(L, Spread(L, "scatter", "stage", {Atom(h, c, len)}))
                      /\ Copy(Buf(c, c * clv), Buf(h, c * clv), clv)
                           = Moved(L, Spread(L, "gather", "stage", {Atom(h, c, len)}))
    OBVIOUS
  <2>1. /\ Copy(Buf(h, 0 + c * Clv(len)), StageOf("stage", c, h * Clv(len)), Len4(c, len))
             = Moved(L, Spread(L, "scatter", "stage", {Atom(h, c, len)}))
        /\ Copy(Buf(c, 0 + c * Clv(len)), Buf(h, 0 + c * Clv(len)), Len4(c, len))
             = Moved(L, Spread(L, "gather", "stage", {Atom(h, c, len)}))
    BY ShareKernels
  <2>2. 0 + c * Clv(len) = c * clv /\ Clv(len) = clv /\ Len4(c, len) = clv
    BY <1>1, <1>2
  <2> QED
    BY <2>1, <2>2 DEF Stage
<1>5. ASSUME NEW m \in Nat
      PROVE  P2pBroadcast(Buf(g, g * clv), {Buf(PeerOf(g, p), g * clv) : p \in m..(r - 2)}, clv)
                = Made(L, "gather", "stage", {Atom(PeerOf(g, p), g, len) : p \in m..(r - 2)})
  <2>1. PICK A, d, f, C, X : /\ A = m..(r - 2)
                    /\ d = {Buf(PeerOf(g, p), g * clv) : p \in A}
                    /\ f = [p \in A |-> Atom(PeerOf(g, p), g, len)]
                    /\ C = [p \in A |-> Copy(Buf(g, g * clv), Buf(PeerOf(g, p), g * clv), clv)]
                    /\ X = {Atom(PeerOf(g, p), g, len) : p \in A}
    OBVIOUS
  <2>2. ASSUME NEW p \in A PROVE C[p] = Moved(L, Spread(L, "gather", "stage", {f[p]}))
    <3>1. p \in 0..(r - 2)
      BY <1>1, <2>1
    <3>2. PeerOf(g, p) \in Ranks
      BY <3>1, Peers
    <3> QED
      BY <1>3, <2>1, <3>2
  <2>3. PICK U : U = UNION {Copy(Buf(g, g * clv), t, clv) : t \in d}
    OBVIOUS
  <2>4. EachMoves(L, "gather", "stage", A, C, f)
    BY <2>2 DEF EachMoves
  <2>5. Collects(A, C, U)
    BY <2>1, <2>3 DEF Collects
  <2>6. Lists(A, f, X)
    BY <2>1 DEF Lists
  <2>7. U = Moved(L, Spread(L, "gather", "stage", X))
    BY <2>4, <2>5, <2>6, PhaseOf
  <2>8. P2pBroadcast(Buf(g, g * clv), d, clv) = <<U>>
    BY <2>3 DEF P2pBroadcast
  <2> QED
    BY <2>1, <2>7, <2>8 DEF Made
<1> QED
  BY <1>3, <1>5 DEF Made

LEMMA HybridWrite ==
  ASSUME GroupAssumption, r >= 2, NEW L, NEW len, PartOf(L, "stage", 0, len),
         NEW clv, EvenFacts(len, clv), NEW g \in Ranks, NEW m \in Nat, NEW k \in Nat, m + k = r,
         NEW v, v = P2pWrite(Buf(g, m * clv), [p \in 0..(k - 1) |-> Stage(m + p, g * clv)], clv, clv)
  PROVE  v = Made(L, "scatter", "stage", {Atom(g, c, len) : c \in m..(r - 1)})
<1>1. clv \in Nat /\ r \in Nat /\ Ranks = 0..(r - 1)
  BY DEF EvenFacts, GroupAssumption, Ranks
<1>2. PICK A, d, f, C, X : /\ A = 0..(k - 1)
                  /\ d = [p \in A |-> Stage(m + p, g * clv)]
                  /\ f = [p \in A |-> Atom(g, m + p, len)]
                  /\ C = [p \in A |-> Copy([Buf(g, m * clv) EXCEPT !.at = @ + p * clv], d[p], clv)]
                  /\ X = {Atom(g, c, len) : c \in m..(r - 1)}
  OBVIOUS
<1>3. ASSUME NEW p \in A PROVE C[p] = Moved(L, Spread(L, "scatter", "stage", {f[p]}))
  <2>1. p \in Nat /\ m + p \in Ranks
    BY <1>1, <1>2
  <2>2. m * clv + p * clv = (m + p) * clv
    BY <1>1, <2>1
  <2>3. [Buf(g, m * clv) EXCEPT !.at = @ + p * clv] = Buf(g, (m + p) * clv)
    BY <2>2 DEF Buf
  <2>4. PICK c : c = m + p /\ c \in Ranks
    BY <2>1
  <2>5. <<Copy(Buf(g, c * clv), Stage(c, g * clv), clv)>>
          = Made(L, "scatter", "stage", {Atom(g, c, len)})
    BY <2>4, HybridKernels
  <2>6. Copy(Buf(g, c * clv), Stage(c, g * clv), clv)
          = Moved(L, Spread(L, "scatter", "stage", {Atom(g, c, len)}))
    BY <2>5 DEF Made
  <2> QED
    BY <1>2, <2>3, <2>4, <2>6
<1>4. PICK U : U = UNION {C[p] : p \in A}
  OBVIOUS
<1>5. EachMoves(L, "scatter", "stage", A, C, f)
  BY <1>3 DEF EachMoves
<1>6. Collects(A, C, U)
  BY <1>4 DEF Collects
<1>7. Lists(A, f, X)
  <2>1. ASSUME NEW c \in m..(r - 1) PROVE c - m \in A /\ m + (c - m) = c
    BY <1>1, <1>2
  <2>2. ASSUME NEW p \in A PROVE m + p \in m..(r - 1)
    BY <1>1, <1>2
  <2> QED
    BY <1>2, <2>1, <2>2 DEF Lists
<1>8. U = Moved(L, Spread(L, "scatter", "stage", X))
  BY <1>5, <1>6, <1>7, PhaseOf
<1>9. v = P2pWrite(Buf(g, m * clv), d, clv, clv)
  BY <1>2
<1>10. v = <<U>>
  BY <1>2, <1>4, <1>9 DEF P2pWrite
<1> QED
  BY <1>2, <1>8, <1>10 DEF Made

(* The program of the hybrid scheme.                                       *)
HybridParts(len, clv, nc, k, sd, p1, w1, rd, p2, w2) ==
  /\ p1 = [i \in 1..r |-> p1[i]] /\ w1 = [i \in 1..r |-> w1[i]] /\ rd = [i \in 1..r |-> rd[i]]
  /\ p2 = [i \in 1..r |-> p2[i]] /\ w2 = [i \in 1..r |-> w2[i]]
  /\ \A i \in 1..r :
       /\ \E t : /\ t = [j \in 1..nc |-> Refill(Sdma(i - 1, j - 1),
                     <<Copy(Buf(i - 1, (j - 1) * clv), Stage(j - 1, (i - 1) * clv), clv)>>)]
                 /\ p1[i] = FlattenSeq(t) \o Refill(Cu(i - 1), P2pWrite(Buf(i - 1, nc * clv),
                      [p \in 0..(k - 1) |-> Stage(nc + p, (i - 1) * clv)], clv, clv))
       /\ \E t : /\ t = [j \in 1..nc |-> Wait(Sdma(i - 1, j - 1))]
                 /\ w1[i] = FlattenSeq(t) \o Wait(Cu(i - 1))
       /\ rd[i] = ReduceStaged(Cu(i - 1), i - 1, 0, Stage(i - 1, 0), len)
       /\ \E t : /\ t = [j \in 1..sd |-> Refill(Sdma(i - 1, j - 1),
                     <<Copy(Buf(i - 1, (i - 1) * clv),
                            Buf(PeerOf(i - 1, j - 1), (i - 1) * clv), clv)>>)]
                 /\ p2[i] = FlattenSeq(t) \o Refill(Cu(i - 1), P2pBroadcast(Buf(i - 1, (i - 1) * clv),
                      {Buf(PeerOf(i - 1, p), (i - 1) * clv) : p \in sd..(r - 2)}, clv))
       /\ \E t : /\ t = [j \in 1..sd |-> Wait(Sdma(i - 1, j - 1))]
                 /\ w2[i] = FlattenSeq(t) \o Wait(Cu(i - 1))

HybridJoins(len, p1, w1, rd, p2, w2) ==
  Hybrid(len) = ((((FlattenSeq(p1) \o FlattenSeq(w1)) \o FlattenSeq(rd)) \o WaitCus)
                  \o FlattenSeq(p2)) \o FlattenSeq(w2)

LEMMA HybridIs ==
  ASSUME NEW len, NEW clv, clv = Share4(len), NEW nc, nc = r - CuChunks,
         NEW k, k = CuChunks, NEW sd, sd = (r - 1) - CuPeers
  PROVE  \E p1, w1, rd, p2, w2 : /\ HybridParts(len, clv, nc, k, sd, p1, w1, rd, p2, w2)
                                 /\ HybridJoins(len, p1, w1, rd, p2, w2)
<1>5. PICK p1 : p1 = [i \in 1..r |->
        FlattenSeq([j \in 1..nc |-> Refill(Sdma(i - 1, j - 1),
                     <<Copy(Buf(i - 1, (j - 1) * clv), Stage(j - 1, (i - 1) * clv), clv)>>)])
          \o Refill(Cu(i - 1), P2pWrite(Buf(i - 1, nc * clv),
               [p \in 0..(k - 1) |-> Stage(nc + p, (i - 1) * clv)], clv, clv))]
  OBVIOUS
<1>6. PICK w1 : w1 = [i \in 1..r |->
        FlattenSeq([j \in 1..nc |-> Wait(Sdma(i - 1, j - 1))]) \o Wait(Cu(i - 1))]
  OBVIOUS
<1>7. PICK rd : rd = [i \in 1..r |->
                        ReduceStaged(Cu(i - 1), i - 1, 0, Stage(i - 1, 0), len)]
  OBVIOUS
<1>8. PICK p2 : p2 = [i \in 1..r |->
        FlattenSeq([j \in 1..sd |-> Refill(Sdma(i - 1, j - 1),
                     <<Copy(Buf(i - 1, (i - 1) * clv),
                            Buf(PeerOf(i - 1, j - 1), (i - 1) * clv), clv)>>)])
          \o Refill(Cu(i - 1), P2pBroadcast(Buf(i - 1, (i - 1) * clv),
               {Buf(PeerOf(i - 1, p), (i - 1) * clv) : p \in sd..(r - 2)}, clv))]
  OBVIOUS
<1>9. PICK w2 : w2 = [i \in 1..r |->
        FlattenSeq([j \in 1..sd |-> Wait(Sdma(i - 1, j - 1))]) \o Wait(Cu(i - 1))]
  OBVIOUS
<1>10. HybridJoins(len, p1, w1, rd, p2, w2)
  BY <1>5, <1>6, <1>7, <1>8, <1>9 DEF Hybrid, HybridJoins, WaitCus, EachRank, PeerOf
<1>11. HybridParts(len, clv, nc, k, sd, p1, w1, rd, p2, w2)
  BY <1>5, <1>6, <1>7, <1>8, <1>9 DEF HybridParts
<1> QED
  BY <1>10, <1>11

LEMMA HybridRuns ==
  ASSUME GroupAssumption, r >= 2, NEW len \in 0..Capacity, ShareFacts(len), len % (4 * r) = 0
  PROVE  \E D : Runs(Hybrid(len), Vector(len), D)
<1>1. PICK L, clv, nc, k, sd : /\ L = Vector(len) /\ clv = Share4(len)
                               /\ nc = r - CuChunks /\ k = CuChunks /\ sd = (r - 1) - CuPeers
  OBVIOUS
<1>2. /\ Laid(L) /\ PartOf(L, "stage", 0, len) /\ "stage" \in Kinds
      /\ \A D : Serves(L, D, "stage_b")
  BY <1>1, VectorFacts
<1>3. EvenFacts(len, clv) /\ \A c \in Ranks : Len4(c, len) = clv
  BY <1>1, EvenShares DEF EvenFacts
<1>4. /\ r \in Nat /\ nc \in Nat /\ nc <= r /\ sd \in Nat /\ sd <= r - 1 /\ sd <= r
      /\ k \in Nat /\ nc + k = r /\ sd <= r - 2
  BY <1>1, HybridSplit DEF GroupAssumption
<1>5. PICK p1, w1, rd, p2, w2 : /\ HybridParts(len, clv, nc, k, sd, p1, w1, rd, p2, w2)
                                /\ HybridJoins(len, p1, w1, rd, p2, w2)
  BY <1>1, HybridIs
<1>6. /\ \A i \in 1..r : i - 1 \in Ranks
      /\ \A j \in 1..nc : j - 1 \in 0..(nc - 1) /\ j - 1 \in Ranks
      /\ \A j \in 1..sd : j - 1 \in 0..(sd - 1) /\ j - 1 \in 0..(r - 2)
      /\ Ranks = 0..(r - 1)
  BY <1>4 DEF Ranks
<1>7. PICK F, G : F = HybridScatterBy(len, nc) /\ G = HybridPushBy(len, sd)
  OBVIOUS
<1>8. Deals(FlattenSeq(p1), Mixed(nc), L, "scatter", "stage", All(Mixed(nc), F))
  <2>1. ASSUME NEW i \in 1..r
        PROVE  \E t, c :
          /\ p1[i] = FlattenSeq(t) \o c /\ t = [j \in 1..nc |-> t[j]]
          /\ \A j \in 1..nc : Handed(t[j], Sdma(i - 1, j - 1), Made(L, "scatter", "stage", F[Sdma(i - 1, j - 1)]))
          /\ Handed(c, Cu(i - 1), Made(L, "scatter", "stage", F[Cu(i - 1)]))
    <3>1. PICK g : g = i - 1 /\ g \in Ranks
      BY <1>6
    <3>2. PICK t : /\ t = [j \in 1..nc |-> Refill(Sdma(g, j - 1),
                     <<Copy(Buf(g, (j - 1) * clv), Stage(j - 1, g * clv), clv)>>)]
                   /\ p1[i] = FlattenSeq(t) \o Refill(Cu(g), P2pWrite(Buf(g, nc * clv),
                      [p \in 0..(k - 1) |-> Stage(nc + p, g * clv)], clv, clv))
      BY <1>5, <3>1 DEF HybridParts
    <3>3. PICK v : v = P2pWrite(Buf(g, nc * clv),
                      [p \in 0..(k - 1) |-> Stage(nc + p, g * clv)], clv, clv)
      OBVIOUS
    <3>4. v = Made(L, "scatter", "stage", {Atom(g, c, len) : c \in nc..(r - 1)})
      BY <1>2, <1>3, <1>4, <3>1, <3>3, HybridWrite
    <3>5. F[Cu(g)] = {Atom(g, c, len) : c \in nc..(r - 1)}
      BY <1>4, <1>7, <3>1, HybridScatterIs
    <3>6. Handed(Refill(Cu(g), v), Cu(g), Made(L, "scatter", "stage", F[Cu(g)]))
      BY <3>4, <3>5 DEF Handed
    <3>7. ASSUME NEW j \in 1..nc
          PROVE  Handed(t[j], Sdma(g, j - 1), Made(L, "scatter", "stage", F[Sdma(g, j - 1)]))
      <4>1. PICK q : q = j - 1 /\ q \in 0..(nc - 1) /\ q \in Ranks
        BY <1>6
      <4>2. t[j] = Refill(Sdma(g, q), <<Copy(Buf(g, q * clv), Stage(q, g * clv), clv)>>)
        BY <3>2, <4>1
      <4>3. <<Copy(Buf(g, q * clv), Stage(q, g * clv), clv)>> = Made(L, "scatter", "stage", {Atom(g, q, len)})
        BY <1>2, <1>3, <3>1, <4>1, HybridKernels
      <4>4. F[Sdma(g, q)] = {Atom(g, q, len)}
        BY <1>4, <1>7, <3>1, <4>1, HybridScatterIs
      <4> QED
        BY <4>1, <4>2, <4>3, <4>4 DEF Handed
    <3>8. t = [j \in 1..nc |-> t[j]]
      BY <3>2
    <3> QED
      BY <3>1, <3>2, <3>3, <3>6, <3>7, <3>8
  <2>2. p1 = [i \in 1..r |-> p1[i]]
    BY <1>5 DEF HybridParts
  <2>3. MixedDealt(p1, nc, L, "scatter", "stage", F)
    BY <2>1, <2>2 DEF MixedDealt
  <2>4. Parted(L, "scatter", "stage", Mixed(nc), F)
    BY <1>2, <1>4, <1>7, HybridShares
  <2> QED
    BY <1>4, <2>3, <2>4, MixedDeals
<1>9. Deals(FlattenSeq(p2), Mixed(sd), L, "gather", "stage", All(Mixed(sd), G))
  <2>1. ASSUME NEW i \in 1..r
        PROVE  \E t, c :
          /\ p2[i] = FlattenSeq(t) \o c /\ t = [j \in 1..sd |-> t[j]]
          /\ \A j \in 1..sd : Handed(t[j], Sdma(i - 1, j - 1), Made(L, "gather", "stage", G[Sdma(i - 1, j - 1)]))
          /\ Handed(c, Cu(i - 1), Made(L, "gather", "stage", G[Cu(i - 1)]))
    <3>1. PICK g : g = i - 1 /\ g \in Ranks
      BY <1>6
    <3>2. PICK t : /\ t = [j \in 1..sd |-> Refill(Sdma(g, j - 1),
                     <<Copy(Buf(g, g * clv), Buf(PeerOf(g, j - 1), g * clv), clv)>>)]
                   /\ p2[i] = FlattenSeq(t) \o Refill(Cu(g), P2pBroadcast(Buf(g, g * clv),
                      {Buf(PeerOf(g, p), g * clv) : p \in sd..(r - 2)}, clv))
      BY <1>5, <3>1 DEF HybridParts
    <3>3. PICK v : v = P2pBroadcast(Buf(g, g * clv),
                      {Buf(PeerOf(g, p), g * clv) : p \in sd..(r - 2)}, clv)
      OBVIOUS
    <3>4. v = Made(L, "gather", "stage", {Atom(PeerOf(g, p), g, len) : p \in sd..(r - 2)})
      BY <1>2, <1>3, <1>4, <3>1, <3>3, HybridKernels
    <3>5. G[Cu(g)] = {Atom(PeerOf(g, p), g, len) : p \in sd..(r - 2)}
      BY <1>4, <1>7, <3>1, HybridScatterIs
    <3>6. Handed(Refill(Cu(g), v), Cu(g), Made(L, "gather", "stage", G[Cu(g)]))
      BY <3>4, <3>5 DEF Handed
    <3>7. ASSUME NEW j \in 1..sd
          PROVE  Handed(t[j], Sdma(g, j - 1), Made(L, "gather", "stage", G[Sdma(g, j - 1)]))
      <4>1. PICK q, h : q = j - 1 /\ q \in 0..(sd - 1) /\ h = PeerOf(g, q) /\ h \in Ranks
        BY <1>6, <3>1, Peers
      <4>2. t[j] = Refill(Sdma(g, q), <<Copy(Buf(g, g * clv), Buf(h, g * clv), clv)>>)
        BY <3>2, <4>1
      <4>3. <<Copy(Buf(g, g * clv), Buf(h, g * clv), clv)>> = Made(L, "gather", "stage", {Atom(h, g, len)})
        BY <1>2, <1>3, <3>1, <4>1, HybridKernels
      <4>4. G[Sdma(g, q)] = {Atom(h, g, len)}
        BY <1>4, <1>7, <3>1, <4>1, HybridScatterIs
      <4> QED
        BY <4>1, <4>2, <4>3, <4>4 DEF Handed
    <3>8. t = [j \in 1..sd |-> t[j]]
      BY <3>2
    <3> QED
      BY <3>1, <3>2, <3>3, <3>6, <3>7, <3>8
  <2>2. p2 = [i \in 1..r |-> p2[i]]
    BY <1>5 DEF HybridParts
  <2>3. MixedDealt(p2, sd, L, "gather", "stage", G)
    BY <2>1, <2>2 DEF MixedDealt
  <2>4. Parted(L, "gather", "stage", Mixed(sd), G)
    BY <1>2, <1>4, <1>7, HybridShares
  <2> QED
    BY <1>4, <2>3, <2>4, MixedDeals
<1>10. WaitBlock(FlattenSeq(w1), Mixed(nc)) /\ WaitBlock(FlattenSeq(w2), Mixed(sd))
  <2>1. ASSUME NEW i \in 1..r
        PROVE  /\ \E t : /\ w1[i] = FlattenSeq(t) \o Wait(Cu(i - 1)) /\ t = [j \in 1..nc |-> t[j]]
                         /\ \A j \in 1..nc : t[j] = Wait(Sdma(i - 1, j - 1))
               /\ \E t : /\ w2[i] = FlattenSeq(t) \o Wait(Cu(i - 1)) /\ t = [j \in 1..sd |-> t[j]]
                         /\ \A j \in 1..sd : t[j] = Wait(Sdma(i - 1, j - 1))
    <3>1. PICK t : /\ t = [j \in 1..nc |-> Wait(Sdma(i - 1, j - 1))]
                   /\ w1[i] = FlattenSeq(t) \o Wait(Cu(i - 1))
      BY <1>5 DEF HybridParts
    <3>2. PICK u : /\ u = [j \in 1..sd |-> Wait(Sdma(i - 1, j - 1))]
                   /\ w2[i] = FlattenSeq(u) \o Wait(Cu(i - 1))
      BY <1>5 DEF HybridParts
    <3>3. /\ t = [j \in 1..nc |-> t[j]] /\ \A j \in 1..nc : t[j] = Wait(Sdma(i - 1, j - 1))
          /\ u = [j \in 1..sd |-> u[j]] /\ \A j \in 1..sd : u[j] = Wait(Sdma(i - 1, j - 1))
      BY <3>1, <3>2
    <3> QED
      BY <3>1, <3>2, <3>3
  <2>2. w1 = [i \in 1..r |-> w1[i]] /\ w2 = [i \in 1..r |-> w2[i]]
    BY <1>5 DEF HybridParts
  <2>3. MixedAwaited(w1, nc) /\ MixedAwaited(w2, sd)
    BY <2>1, <2>2 DEF MixedAwaited
  <2> QED
    BY <1>4, <2>3, MixedWaits
<1>11. Deals(FlattenSeq(rd), Queues("cu", Ranks), L, "staged", "stage", All(Ranks, OwnBy(len)))
  <2>1. ASSUME NEW i \in 1..r
        PROVE  Handed(rd[i], Queue("cu", i - 1), Made(L, "staged", "stage", OwnBy(len)[i - 1]))
    <3>1. PICK g : g = i - 1 /\ g \in Ranks
      BY <1>6
    <3>2. rd[i] = Arm(Queue("cu", g), GatherReduceLocal(StageOf("stage", g, 0), Buf(g, 0 + g * Clv(len)),
                                                         Clv(len), Len4(g, len)))
      BY <1>5, <3>1 DEF HybridParts, ReduceStaged, Cu, Stage
    <3>3. GatherReduceLocal(StageOf("stage", g, 0), Buf(g, 0 + g * Clv(len)), Clv(len), Len4(g, len))
            = Made(L, "staged", "stage", OwnBy(len)[g])
      BY <1>2, <3>1, ShareKernels
    <3> QED
      BY <3>1, <3>2, <3>3 DEF Handed
  <2>2. rd = [i \in 1..r |-> rd[i]]
    BY <1>5 DEF HybridParts
  <2>3. QueueDealt(rd, "cu", Ranks, L, "staged", "stage", OwnBy(len))
    BY <1>6, <2>1, <2>2 DEF QueueDealt
  <2>4. Parted(L, "staged", "stage", Ranks, OwnBy(len))
    BY <1>2, RankShares
  <2> QED
    BY <2>3, <2>4, QueueDeals
<1>12. PICK E0, E1, E2 : /\ E0 = Spread(L, "scatter", "stage", All(Mixed(nc), F))
                         /\ E1 = Spread(L, "staged", "stage", All(Ranks, OwnBy(len)))
                         /\ E2 = Spread(L, "gather", "stage", All(Mixed(sd), G))
  OBVIOUS
<1>13. /\ \A d \in E0 : Lvl(d) < KindLvl("staged") /\ Lvl(d) < KindLvl("gather")
       /\ \A d \in E1 : Lvl(d) < KindLvl("gather")
  BY <1>12, SpreadLvl DEF KindLvl
<1>14. Tidy(FlattenSeq(p1) \o FlattenSeq(w1), L, E0)
  BY <1>2, <1>8, <1>10, <1>12, DealRound DEF MoveKinds
<1>15. Tidy(((FlattenSeq(p1) \o FlattenSeq(w1)) \o FlattenSeq(rd)) \o WaitCus, L, E0 \cup E1)
  BY <1>2, <1>11, <1>12, <1>13, <1>14, WaitForCus, NextDealRound DEF MoveKinds
<1>16. \A d \in E0 \cup E1 : Lvl(d) < KindLvl("gather")
  BY <1>13
<1>17. PICK Z : Z = (E0 \cup E1) \cup E2
  OBVIOUS
<1>18. Tidy(Hybrid(len), L, Z)
  BY <1>2, <1>5, <1>9, <1>10, <1>12, <1>15, <1>16, <1>17, NextDealRound DEF MoveKinds, HybridJoins
<1>19. ASSUME NEW c \in Ranks
       PROVE  /\ Covers(Z, "staged", "stage", c, c, len)
              /\ \A q \in Ranks : Covers(Z, "scatter", "stage", q, c, len)
              /\ \A p \in Ranks \ {c} : Covers(Z, "gather", "stage", p, c, len)
  <2>1. E0 \subseteq Z /\ E1 \subseteq Z /\ E2 \subseteq Z
    BY <1>17
  <2>2. Covers(Z, "staged", "stage", c, c, len)
    <3>1. Atom(c, c, len) \in All(Ranks, OwnBy(len))
      BY DEF OwnBy, All
    <3> QED
      BY <1>2, <1>12, <2>1, <3>1, AtomCovers
  <2>3. ASSUME NEW q \in Ranks PROVE Covers(Z, "scatter", "stage", q, c, len)
    <3>1. \E a \in Mixed(nc) : Atom(q, c, len) \in F[a]
      <4>1. CASE c < nc
        <5>1. c \in 0..(nc - 1)
          BY <1>4, <1>6, <4>1
        <5>2. Sdma(q, c) \in Mixed(nc) /\ F[Sdma(q, c)] = {Atom(q, c, len)}
          BY <1>4, <1>7, <5>1, MixedMembers, HybridScatterIs
        <5> QED
          BY <5>2
      <4>2. CASE ~(c < nc)
        <5>1. c \in nc..(r - 1)
          BY <1>4, <1>6, <4>2
        <5>2. Cu(q) \in Mixed(nc) /\ F[Cu(q)] = {Atom(q, h, len) : h \in nc..(r - 1)}
          BY <1>4, <1>7, MixedMembers, HybridScatterIs
        <5> QED
          BY <5>1, <5>2
      <4> QED
        BY <4>1, <4>2
    <3>2. Atom(q, c, len) \in All(Mixed(nc), F)
      BY <3>1 DEF All
    <3> QED
      BY <1>2, <1>12, <2>1, <3>2, AtomCovers
  <2>4. ASSUME NEW p \in Ranks \ {c} PROVE Covers(Z, "gather", "stage", p, c, len)
    <3>1. PICK q \in 0..(r - 2) : PeerOf(c, q) = p
      BY Peers
    <3>2. \E a \in Mixed(sd) : Atom(p, c, len) \in G[a]
      <4>1. CASE q < sd
        <5>1. q \in 0..(sd - 1)
          BY <1>4, <4>1
        <5>2. Sdma(c, q) \in Mixed(sd) /\ G[Sdma(c, q)] = {Atom(PeerOf(c, q), c, len)}
          BY <1>4, <1>7, <5>1, MixedMembers, HybridScatterIs
        <5> QED
          BY <3>1, <5>2
      <4>2. CASE ~(q < sd)
        <5>1. q \in sd..(r - 2)
          BY <1>4, <4>2
        <5>2. Cu(c) \in Mixed(sd) /\ G[Cu(c)] = {Atom(PeerOf(c, h), c, len) : h \in sd..(r - 2)}
          BY <1>4, <1>7, MixedMembers, HybridScatterIs
        <5> QED
          BY <3>1, <5>1, <5>2
      <4> QED
        BY <4>1, <4>2
    <3>3. Atom(p, c, len) \in All(Mixed(sd), G)
      BY <3>2 DEF All
    <3> QED
      BY <1>2, <1>12, <2>1, <3>3, AtomCovers
  <2> QED
    BY <2>2, <2>3, <2>4
<1>20. Serves(L, Z, "stage")
  BY <1>2, <1>19, SharesServe DEF Shares
<1> QED
  BY <1>1, <1>2, <1>18, <1>20 DEF Runs, Tidy

-----------------------------------------------------------------------------
(* The pipelined schemes: tile t of every share.                           *)
TileAtom(p, c, len, t) == <<p, c, t * TileLen(len), TileLen(len)>>
TileToAll(len, t) == {TileAtom(e[2], e[1], len, t) : e \in Ranks \X Ranks}
TileToPeers(len, t) == {TileAtom(e[2], e[1], len, t) : e \in Others}
TileOwn(len, t) == {TileAtom(c, c, len, t) : c \in Ranks}

TileFacts(len) ==
  /\ Share4(len) \in Nat /\ TileLen(len) \in Nat /\ Share4(len) = Tiles * TileLen(len)
  /\ Tiles \in Nat \ {0}
  /\ len % (4 * r) = 0

LEMMA MultipleMod ==
  ASSUME NEW a \in Nat, NEW b \in Nat \ {0}, NEW k \in Nat, a = b * k
  PROVE  a % b = 0 /\ a \div b = k
<1>1. k * b <= a /\ a < k * b + b /\ b * k = a
  OBVIOUS
<1>2. k = a \div b
  BY <1>1, DivUnique
<1>3. a = b * (a \div b) + (a % b) /\ a % b \in 0..(b - 1)
  OBVIOUS
<1> QED
  BY <1>1, <1>2, <1>3

LEMMA TilesEven ==
  ASSUME GroupAssumption, NEW len \in 0..Capacity, len % (4 * r * Tiles) = 0
  PROVE  TileFacts(len)
<1>1. r \in Nat \ {0} /\ len \in Nat /\ Tiles \in Nat \ {0}
  BY AllReduceAssumption DEF GroupAssumption
<1>2. PICK x : x = 4 * r /\ x \in Nat \ {0}
  BY <1>1
<1>3. PICK y : y = x * Tiles /\ y \in Nat \ {0}
  BY <1>1, <1>2
<1>4. PICK k \in Nat : len = y * k
  BY <1>1, <1>2, <1>3, Multiple
<1>5. PICK z : z = Tiles * k /\ z \in Nat
  BY <1>1
<1>6. len = x * z
  BY <1>1, <1>2, <1>3, <1>4, <1>5
<1>7. len % x = 0
  BY <1>1, <1>2, <1>5, <1>6, MultipleMod
<1>8. len = r * (4 * z)
  BY <1>1, <1>2, <1>5, <1>6
<1>9. len \div r = 4 * z
  <2>1. 4 * z \in Nat
    BY <1>5
  <2> QED
    BY <1>1, <1>8, <2>1, MultipleMod
<1>10. Share4(len) = z
  <2>1. (4 * z) \div 4 = z
    BY <1>5
  <2> QED
    BY <1>9, <2>1 DEF Share4
<1>11. z \div Tiles = k
  BY <1>1, <1>5, MultipleMod
<1>12. TileLen(len) = k
  BY <1>10, <1>11 DEF TileLen
<1> QED
  BY <1>1, <1>2, <1>5, <1>7, <1>10, <1>12 DEF TileFacts

(* Every place of a share is in a tile.                                    *)
LEMMA TileHas ==
  ASSUME NEW len, TileFacts(len), NEW o \in Nat, o < Share4(len)
  PROVE  \E t \in 0..(Tiles - 1) : t * TileLen(len) <= o /\ o < t * TileLen(len) + TileLen(len)
<1>1. PICK S, l, T : S = Share4(len) /\ l = TileLen(len) /\ T = Tiles
  OBVIOUS
<1>2. S \in Nat /\ l \in Nat /\ S = T * l /\ T \in Nat \ {0}
  BY <1>1 DEF TileFacts
<1>3. l # 0
  BY <1>1, <1>2
<1>4. PICK t : t = o \div l
  OBVIOUS
<1>5. t \in Int /\ l * t <= o /\ o < l * t + l
  BY <1>2, <1>3, <1>4, DivBounds
<1>6. t >= 0
  <2> SUFFICES ASSUME t < 0 PROVE FALSE
    BY <1>5
  <2>1. l * (t + 1) <= l * 0
    BY <1>2, <1>5
  <2> QED
    BY <1>2, <1>5, <2>1
<1>7. t < T
  <2> SUFFICES ASSUME T <= t PROVE FALSE
    BY <1>2, <1>5
  <2>1. l * T <= l * t
    BY <1>2, <1>5
  <2> QED
    BY <1>1, <1>2, <1>5, <2>1
<1>8. t * l = l * t
  BY <1>2, <1>5
<1> QED
  BY <1>1, <1>2, <1>5, <1>6, <1>7, <1>8

(* The vector of equal shares, and a tile in it.                           *)
TileShaped(L, len) ==
  /\ Laid(L) /\ L["stage"] = Part(0, Share4(len), Groups(len)) /\ TileFacts(len)
  /\ Groups(len) = r * Share4(len)

LEMMA TilesShaped ==
  ASSUME GroupAssumption, NEW len \in 0..Capacity, ShareFacts(len), TileFacts(len)
  PROVE  TileShaped(Vector(len), len) /\ \A c \in Ranks : Len4(c, len) = Share4(len)
<1>1. EvenFacts(len, Share4(len))
  BY EvenShares DEF TileFacts
<1>2. Laid(Vector(len)) /\ PartOf(Vector(len), "stage", 0, len)
  BY VectorFacts
<1>3. Vector(len)["stage"] = Part(0, Clv(len), 0 + Groups(len)) /\ Groups(len) \in Nat
  BY <1>2 DEF PartOf, ShareFacts
<1>4. 0 + Groups(len) = Groups(len)
  BY <1>3
<1> QED
  BY <1>1, <1>2, <1>3, <1>4 DEF TileShaped, EvenFacts

LEMMA TileFieldsOf == \A p, c, len, t :
  /\ TileAtom(p, c, len, t)[1] = p /\ TileAtom(p, c, len, t)[2] = c
  /\ TileAtom(p, c, len, t)[3] = t * TileLen(len) /\ TileAtom(p, c, len, t)[4] = TileLen(len)
BY DEF TileAtom

LEMMA TileInPart ==
  ASSUME GroupAssumption, NEW L, NEW len \in 0..Capacity, TileShaped(L, len),
         NEW t \in 0..(Tiles - 1), NEW p \in Ranks, NEW c \in Ranks
  PROVE  InPart(L, "stage", TileAtom(p, c, len, t))
<1>1. PICK S, l, x, e, y : /\ S = Share4(len) /\ l = TileLen(len) /\ x = t * l /\ e = Groups(len)
                           /\ y = c * S
  OBVIOUS
<1>2. x \in Nat /\ l \in Nat /\ x + l <= S
  BY <1>1, TileIn
<1>3. S \in Nat /\ e = r * S /\ r \in Nat /\ c \in Nat /\ c < r
  BY <1>1 DEF TileShaped, TileFacts, GroupAssumption, Ranks
<1>4. y \in Nat /\ y + S <= e
  BY <1>1, <1>3, Products
<1>5. L["stage"].base = 0 /\ L["stage"].slot = S /\ L["stage"].end = e
  BY <1>1, PartFields DEF TileShaped
<1>6. PICK a : a = TileAtom(p, c, len, t)
  OBVIOUS
<1>7. a[1] = p /\ a[2] = c /\ a[3] = x /\ a[4] = l
  BY <1>1, <1>6, TileFieldsOf
<1>8. 0 + y + x + l <= e
  BY <1>2, <1>3, <1>4
<1>9. InPart(L, "stage", a)
  BY <1>1, <1>2, <1>5, <1>7, <1>8 DEF InPart
<1> QED
  BY <1>6, <1>9

LEMMA TileBounded ==
  ASSUME GroupAssumption, NEW L, NEW len \in 0..Capacity, TileShaped(L, len),
         NEW t \in 0..(Tiles - 1)
  PROVE  /\ Bounded(L, "stage", TileToAll(len, t))
         /\ Bounded(L, "stage", TileToPeers(len, t))
         /\ Bounded(L, "stage", TileOwn(len, t))
<1>1. \A e \in Others : e[1] \in Ranks /\ e[2] \in Ranks
  BY DEF Others
<1>2. \A e \in Ranks \X Ranks : e[1] \in Ranks /\ e[2] \in Ranks
  OBVIOUS
<1> QED
  BY <1>1, <1>2, TileInPart DEF Bounded, TileToAll, TileToPeers, TileOwn

(* Different tiles are elsewhere.                                          *)
LEMMA TilesElsewhere ==
  ASSUME GroupAssumption, NEW len \in 0..Capacity, NEW t \in 0..(Tiles - 1), NEW u \in 0..(Tiles - 1),
         t # u, NEW p, NEW c, NEW q, NEW d
  PROVE  Elsewhere("stage", TileAtom(p, c, len, t), "stage", TileAtom(q, d, len, u))
<1>1. PICK l : l = TileLen(len)
  OBVIOUS
<1>2. l \in Nat /\ t \in Nat /\ u \in Nat
  BY <1>1, TileIn
<1>3. t < u => t * l + l <= u * l
  BY <1>2, Products
<1>4. u < t => u * l + l <= t * l
  BY <1>2, Products
<1>5. t < u \/ u < t
  BY <1>2
<1> QED
  BY <1>1, <1>3, <1>4, <1>5, TileFieldsOf DEF Elsewhere

(* The kernels on tiles.                                                   *)
LEMMA TileCopies ==
  ASSUME GroupAssumption, NEW L, NEW len \in 0..Capacity, TileShaped(L, len),
         NEW t \in 0..(Tiles - 1), NEW c \in Ranks, NEW p \in Ranks
  PROVE  /\ Copy(Buf(p, TileAt(c, len, t)), Stage(c, TileAt(p, len, t)), TileLen(len))
              = Moved(L, Spread(L, "scatter", "stage", {TileAtom(p, c, len, t)}))
         /\ Copy(Buf(c, TileAt(c, len, t)), Buf(p, TileAt(c, len, t)), TileLen(len))
              = Moved(L, Spread(L, "gather", "stage", {TileAtom(p, c, len, t)}))
<1>1. PICK S, l, x, k : S = Share4(len) /\ l = TileLen(len) /\ x = t * l /\ k = "stage"
  OBVIOUS
<1>2. x \in Nat /\ S \in Nat
  BY <1>1, TileIn DEF TileShaped, TileFacts
<1>3. L[k].base = 0 /\ L[k].slot = S
  BY <1>1, PartFields DEF TileShaped
<1>4. \A g \in Ranks : g * S \in Nat /\ TileAt(g, len, t) = g * S + x /\ 0 + g * S + x = g * S + x
  BY <1>1, <1>2 DEF TileAt, Ranks, GroupAssumption
<1>5. \A g \in Ranks : PlaceOf(L, k, g, x, TileAt(g, len, t)) /\ SlotAt(L, k, g, x, TileAt(g, len, t))
  BY <1>3, <1>4 DEF PlaceOf, SlotAt
<1>6. PICK at, to, a : at = TileAt(c, len, t) /\ to = TileAt(p, len, t) /\ a = TileAtom(p, c, len, t)
  OBVIOUS
<1>7. IsAtom(a, p, c, x, l)
  BY <1>1, <1>6, TileFieldsOf DEF IsAtom
<1>8. IsAtom(a, p, c, x, l) /\ PlaceOf(L, k, c, x, at) /\ SlotAt(L, k, p, x, to)
  BY <1>5, <1>6, <1>7
<1>9. /\ Copy(Buf(p, at), StageOf(k, c, to), l) = Moved(L, Spread(L, "scatter", k, {a}))
      /\ Copy(Buf(c, at), Buf(p, at), l) = Moved(L, Spread(L, "gather", k, {a}))
  BY <1>8, PlacedScatter, PlacedGather
<1> QED
  BY <1>1, <1>6, <1>9 DEF Stage

LEMMA TileKernels ==
  ASSUME GroupAssumption, NEW L, NEW len \in 0..Capacity, TileShaped(L, len),
         NEW t \in 0..(Tiles - 1), NEW c \in Ranks
  PROVE  /\ GatherReduceLocal(Stage(c, t * TileLen(len)), Buf(c, TileAt(c, len, t)), Share4(len), TileLen(len))
              = Made(L, "staged", "stage", {TileAtom(c, c, len, t)})
         /\ ReducePeers(c, TileAt(c, len, t), TileLen(len))
              = Made(L, "direct", "stage", {TileAtom(c, c, len, t)})
<1>1. PICK S, l, x, k : S = Share4(len) /\ l = TileLen(len) /\ x = t * l /\ k = "stage"
  OBVIOUS
<1>2. x \in Nat /\ S \in Nat
  BY <1>1, TileIn DEF TileShaped, TileFacts
<1>3. L[k].base = 0 /\ L[k].slot = S
  BY <1>1, PartFields DEF TileShaped
<1>4. \A g \in Ranks : g * S \in Nat /\ TileAt(g, len, t) = g * S + x /\ 0 + g * S + x = g * S + x
  BY <1>1, <1>2 DEF TileAt, Ranks, GroupAssumption
<1>5. \A g \in Ranks : PlaceOf(L, k, g, x, TileAt(g, len, t)) /\ SlotAt(L, k, g, x, TileAt(g, len, t))
  BY <1>3, <1>4 DEF PlaceOf, SlotAt
<1>6. \A p : IsAtom(TileAtom(p, c, len, t), p, c, x, l)
  BY <1>1, TileFieldsOf DEF IsAtom
<1>7. Strides(L, k, x)
  BY <1>2, <1>3, NatSteps
<1>8. PICK at : at = TileAt(c, len, t)
  OBVIOUS
<1>10. PICK a : a = TileAtom(c, c, len, t)
  OBVIOUS
<1>11. IsAtom(a, c, c, x, l) /\ PlaceOf(L, k, c, x, at)
  BY <1>5, <1>6, <1>8, <1>10
<1>12. GatherReduceLocal(StageOf(k, c, x), Buf(c, at), L[k].slot, l) = <<Moved(L, Spread(L, "staged", k, {a}))>>
  <2>1. IsAtom(a, c, c, x, l) /\ PlaceOf(L, k, c, x, at) /\ Strides(L, k, x)
    BY <1>7, <1>11
  <2>2. PICK b, o, m, to : b = a /\ o = x /\ m = l /\ to = at
    OBVIOUS
  <2>3. IsAtom(b, c, c, o, m) /\ PlaceOf(L, k, c, o, to) /\ Strides(L, k, o)
    BY <2>1, <2>2
  <2>4. GatherReduceLocal(StageOf(k, c, o), Buf(c, to), L[k].slot, m) = <<Moved(L, Spread(L, "staged", k, {b}))>>
    BY <2>3, PlacedStaged
  <2> QED
    BY <2>2, <2>4
<1>13. ReducePeers(c, at, l) = <<Moved(L, Spread(L, "direct", k, {a}))>>
  BY <1>11, PlacedDirect
<1> QED
  BY <1>1, <1>3, <1>8, <1>10, <1>12, <1>13 DEF Made, Stage

LEMMA TileReadDeals ==
  ASSUME GroupAssumption, NEW L, NEW len \in 0..Capacity, TileShaped(L, len),
         NEW t \in 0..(Tiles - 1)
  PROVE  Deals(ReadTile(len, t), Grid(Ranks \X Ranks), L, "scatter", "stage", TileToAll(len, t))
<1>1. PICK f : f = [i \in 1..r |-> [j \in 1..r |->
                 Refill(Sdma(i - 1, j - 1),
                        <<Copy(Buf(j - 1, TileAt(i - 1, len, t)),
                               Stage(i - 1, TileAt(j - 1, len, t)), TileLen(len))>>)]]
  OBVIOUS
<1>2. PICK p : p = [i \in 1..r |-> FlattenSeq(f[i])]
  OBVIOUS
<1>3. ReadTile(len, t) = FlattenSeq(p)
  BY <1>1, <1>2 DEF ReadTile, EachRank
<1>4. PICK D, F : D = Ranks \X Ranks /\ F = [e \in D |-> {TileAtom(e[2], e[1], len, t)}]
  OBVIOUS
<1>5. ASSUME NEW i \in 1..r, NEW j \in 1..r
      PROVE  IF <<i - 1, j - 1>> \in D
             THEN Handed(f[i][j], Sdma(i - 1, j - 1), Made(L, "scatter", "stage", F[<<i - 1, j - 1>>]))
             ELSE f[i][j] = <<>>
  <2>1. PICK g, q : g = i - 1 /\ q = j - 1 /\ g \in Ranks /\ q \in Ranks
    BY RankIndex
  <2>2. f[i][j] = Refill(Sdma(g, q), <<Copy(Buf(q, TileAt(g, len, t)),
                               Stage(g, TileAt(q, len, t)), TileLen(len))>>)
    BY <1>1, <2>1
  <2>3. Copy(Buf(q, TileAt(g, len, t)), Stage(g, TileAt(q, len, t)), TileLen(len))
          = Moved(L, Spread(L, "scatter", "stage", {TileAtom(q, g, len, t)}))
    BY <2>1, TileCopies
  <2>4. <<g, q>> \in D /\ F[<<g, q>>] = {TileAtom(q, g, len, t)}
    BY <1>4, <2>1
  <2> QED
    BY <2>1, <2>2, <2>3, <2>4 DEF Handed, Made
<1>6. /\ p = [i \in 1..r |-> p[i]] /\ \A i \in 1..r : p[i] = FlattenSeq(f[i])
      /\ \A i \in 1..r : f[i] = [j \in 1..r |-> f[i][j]]
  BY <1>1, <1>2
<1>7. GridDealt(p, f, r, D, L, "scatter", "stage", F)
  BY <1>5, <1>6 DEF GridDealt
<1>8. Parted(L, "scatter", "stage", D, F)
  <2>1. \A e \in D : /\ F[e] = {TileAtom(e[2], e[1], len, t)} /\ F[e] \subseteq TileToAll(len, t)
                     /\ e = <<e[1], e[2]>>
    BY <1>4 DEF TileToAll
  <2>2. \A e \in D : Bounded(L, "stage", F[e])
    BY <2>1, TileBounded DEF Bounded
  <2>3. ASSUME NEW e \in D, NEW d \in D, NEW x \in F[e], NEW y \in F[d]
        PROVE  (e = d /\ x = y) \/ Asunder("scatter", x, y)
    <3>1. x[1] = e[2] /\ x[2] = e[1] /\ y[1] = d[2] /\ y[2] = d[1]
      BY <2>1, TileFieldsOf
    <3>2. e[1] = d[1] /\ e[2] = d[2] => e = d /\ x = y
      BY <2>1
    <3> QED
      BY <3>1, <3>2 DEF Asunder
  <2> QED
    BY <2>2, <2>3 DEF Parted
<1>9. All(D, F) = TileToAll(len, t)
  BY <1>4 DEF All, TileToAll
<1>10. D \subseteq Ranks \X Ranks /\ r \in Nat /\ \A e \in D : e[2] \in 0..(r - 1)
  BY <1>4, PeerPairs
<1> QED
  BY <1>3, <1>4, <1>7, <1>8, <1>9, <1>10, GridDeals

LEMMA TilePushDeals ==
  ASSUME GroupAssumption, NEW L, NEW len \in 0..Capacity, TileShaped(L, len),
         NEW t \in 0..(Tiles - 1)
  PROVE  Deals(PushTileBySdma(len, t), Grid(Others), L, "gather", "stage", TileToPeers(len, t))
<1>1. PICK f : f = [i \in 1..r |-> [j \in 1..r |->
                 IF j - 1 = i - 1 THEN <<>>
                 ELSE Refill(Sdma(i - 1, j - 1),
                        <<Copy(Buf(i - 1, TileAt(i - 1, len, t)),
                               Buf(j - 1, TileAt(i - 1, len, t)), TileLen(len))>>)]]
  OBVIOUS
<1>2. PICK p : p = [i \in 1..r |-> FlattenSeq(f[i])]
  OBVIOUS
<1>3. PushTileBySdma(len, t) = FlattenSeq(p)
  BY <1>1, <1>2 DEF PushTileBySdma, EachPeer, EachRank
<1>4. PICK D, F : D = Others /\ F = [e \in D |-> {TileAtom(e[2], e[1], len, t)}]
  OBVIOUS
<1>5. ASSUME NEW i \in 1..r, NEW j \in 1..r
      PROVE  IF <<i - 1, j - 1>> \in D
             THEN Handed(f[i][j], Sdma(i - 1, j - 1), Made(L, "gather", "stage", F[<<i - 1, j - 1>>]))
             ELSE f[i][j] = <<>>
  <2>1. PICK g, q : g = i - 1 /\ q = j - 1 /\ g \in Ranks /\ q \in Ranks
    BY RankIndex
  <2>2. g # q => f[i][j] = Refill(Sdma(g, q), <<Copy(Buf(g, TileAt(g, len, t)),
                               Buf(q, TileAt(g, len, t)), TileLen(len))>>)
    BY <1>1, <2>1
  <2>3. Copy(Buf(g, TileAt(g, len, t)), Buf(q, TileAt(g, len, t)), TileLen(len))
          = Moved(L, Spread(L, "gather", "stage", {TileAtom(q, g, len, t)}))
    BY <2>1, TileCopies
  <2>4. <<g, q>> \in D <=> g # q
    BY <1>4, <2>1 DEF Others
  <2>5. g # q => F[<<g, q>>] = {TileAtom(q, g, len, t)}
    BY <1>4, <2>4
  <2>6. g = q => f[i][j] = <<>>
    BY <1>1, <2>1
  <2>7. IF <<g, q>> \in D
        THEN Handed(f[i][j], Sdma(g, q), Made(L, "gather", "stage", F[<<g, q>>]))
        ELSE f[i][j] = <<>>
    BY <2>2, <2>3, <2>4, <2>5, <2>6 DEF Handed, Made
  <2> QED
    BY <2>1, <2>7
<1>6. /\ p = [i \in 1..r |-> p[i]] /\ \A i \in 1..r : p[i] = FlattenSeq(f[i])
      /\ \A i \in 1..r : f[i] = [j \in 1..r |-> f[i][j]]
  BY <1>1, <1>2
<1>7. GridDealt(p, f, r, D, L, "gather", "stage", F)
  BY <1>5, <1>6 DEF GridDealt
<1>8. Parted(L, "gather", "stage", D, F)
  <2>1. \A e \in D : /\ F[e] = {TileAtom(e[2], e[1], len, t)} /\ F[e] \subseteq TileToPeers(len, t)
                     /\ e = <<e[1], e[2]>>
    BY <1>4 DEF TileToPeers, Others
  <2>2. \A e \in D : Bounded(L, "stage", F[e])
    BY <2>1, TileBounded DEF Bounded
  <2>3. ASSUME NEW e \in D, NEW d \in D, NEW x \in F[e], NEW y \in F[d]
        PROVE  (e = d /\ x = y) \/ Asunder("gather", x, y)
    <3>1. x[1] = e[2] /\ x[2] = e[1] /\ y[1] = d[2] /\ y[2] = d[1]
      BY <2>1, TileFieldsOf
    <3>2. e[1] = d[1] /\ e[2] = d[2] => e = d /\ x = y
      BY <2>1
    <3> QED
      BY <3>1, <3>2 DEF Asunder
  <2> QED
    BY <2>2, <2>3 DEF Parted
<1>9. All(D, F) = TileToPeers(len, t)
  BY <1>4 DEF All, TileToPeers
<1>10. D \subseteq Ranks \X Ranks /\ r \in Nat /\ \A e \in D : e[2] \in 0..(r - 1)
  BY <1>4, PeerPairs
<1> QED
  BY <1>3, <1>4, <1>7, <1>8, <1>9, <1>10, GridDeals

LEMMA TileCuDeals ==
  ASSUME GroupAssumption, NEW L, NEW len \in 0..Capacity, TileShaped(L, len),
         NEW t \in 0..(Tiles - 1)
  PROVE  Deals(PushTileByCu(len, t), Queues("cu", Ranks), L, "gather", "stage", TileToPeers(len, t))
<1>1. PICK s : s = [i \in 1..r |-> Refill(Cu(i - 1), P2pBroadcast(Buf(i - 1, TileAt(i - 1, len, t)),
                      {Buf(p, TileAt(i - 1, len, t)) : p \in Ranks \ {i - 1}}, TileLen(len)))]
  OBVIOUS
<1>2. PushTileByCu(len, t) = FlattenSeq(s)
  BY <1>1 DEF PushTileByCu, EachRank
<1>3. PICK F : F = [g \in Ranks |-> {TileAtom(p, g, len, t) : p \in Ranks \ {g}}]
  OBVIOUS
<1>4. ASSUME NEW i \in 1..r
      PROVE  IF i - 1 \in Ranks
             THEN Handed(s[i], Queue("cu", i - 1), Made(L, "gather", "stage", F[i - 1])) ELSE s[i] = <<>>
  <2>1. PICK g, v : /\ g = i - 1 /\ g \in Ranks
                    /\ v = P2pBroadcast(Buf(g, TileAt(g, len, t)),
                              {Buf(p, TileAt(g, len, t)) : p \in Ranks \ {g}}, TileLen(len))
    BY RankIndex
  <2>2. s[i] = Refill(Queue("cu", g), v)
    BY <1>1, <2>1 DEF Cu
  <2>3. PICK A, at, m, d, f, C, U, X :
          /\ A = Ranks \ {g} /\ at = TileAt(g, len, t) /\ m = TileLen(len)
          /\ d = {Buf(p, at) : p \in A}
          /\ f = [p \in A |-> TileAtom(p, g, len, t)]
          /\ C = [p \in A |-> Copy(Buf(g, at), Buf(p, at), m)]
          /\ U = UNION {Copy(Buf(g, at), x, m) : x \in d}
          /\ X = {TileAtom(p, g, len, t) : p \in A}
    OBVIOUS
  <2>4. ASSUME NEW p \in A PROVE C[p] = Moved(L, Spread(L, "gather", "stage", {f[p]}))
    <3>1. p \in Ranks /\ g \in Ranks
      BY <2>1, <2>3
    <3>2. Copy(Buf(g, TileAt(g, len, t)), Buf(p, TileAt(g, len, t)), TileLen(len))
            = Moved(L, Spread(L, "gather", "stage", {TileAtom(p, g, len, t)}))
      BY <3>1, TileCopies
    <3> QED
      BY <2>3, <3>2
  <2>5. EachMoves(L, "gather", "stage", A, C, f)
    BY <2>4 DEF EachMoves
  <2>6. Collects(A, C, U)
    BY <2>3 DEF Collects
  <2>7. Lists(A, f, X)
    BY <2>3 DEF Lists
  <2>8. U = Moved(L, Spread(L, "gather", "stage", X))
    BY <2>5, <2>6, <2>7, PhaseOf
  <2>9. v = <<U>>
    BY <2>1, <2>3 DEF P2pBroadcast
  <2>10. F[g] = X
    BY <1>3, <2>1, <2>3
  <2>11. Handed(s[i], Queue("cu", g), Made(L, "gather", "stage", F[g]))
    BY <2>2, <2>8, <2>9, <2>10 DEF Handed, Made
  <2> QED
    BY <2>1, <2>11
<1>5. QueueDealt(s, "cu", Ranks, L, "gather", "stage", F)
  BY <1>1, <1>4 DEF QueueDealt
<1>6. All(Ranks, F) = TileToPeers(len, t)
  <2>1. ASSUME NEW x \in All(Ranks, F) PROVE x \in TileToPeers(len, t)
    <3>1. PICK g \in Ranks : x \in F[g]
      BY DEF All
    <3>2. PICK p \in Ranks \ {g} : x = TileAtom(p, g, len, t)
      BY <1>3, <3>1
    <3>3. <<g, p>> \in Others
      BY DEF Others
    <3> QED
      BY <3>2, <3>3 DEF TileToPeers
  <2>2. ASSUME NEW x \in TileToPeers(len, t) PROVE x \in All(Ranks, F)
    <3>1. PICK e \in Others : x = TileAtom(e[2], e[1], len, t)
      BY DEF TileToPeers
    <3>2. PICK g, p : g = e[1] /\ p = e[2] /\ g \in Ranks /\ p \in Ranks \ {g}
      BY DEF Others
    <3>3. x \in F[g]
      BY <1>3, <3>1, <3>2
    <3> QED
      BY <3>2, <3>3 DEF All
  <2> QED
    BY <2>1, <2>2
<1>7. Parted(L, "gather", "stage", Ranks, F)
  <2>1. \A g \in Ranks : F[g] \subseteq TileToPeers(len, t)
    BY <1>6 DEF All
  <2>2. \A g \in Ranks : Bounded(L, "stage", F[g])
    BY <2>1, TileBounded DEF Bounded
  <2>3. \A g \in Ranks : \A x \in F[g] : x[2] = g /\ \E p \in Ranks : x = TileAtom(p, g, len, t) /\ x[1] = p
    BY <1>3, TileFieldsOf
  <2> QED
    BY <2>2, <2>3 DEF Parted, Asunder
<1> QED
  BY <1>2, <1>5, <1>6, <1>7, QueueDeals

LEMMA TileOwnDeals ==
  ASSUME GroupAssumption, NEW L, NEW len \in 0..Capacity, TileShaped(L, len),
         NEW t \in 0..(Tiles - 1)
  PROVE  /\ \E p : /\ ReduceTile(len, t) = p \o WaitCus
                   /\ Deals(p, Queues("cu", Ranks), L, "staged", "stage", TileOwn(len, t))
         /\ Deals(ReadReduceTile(len, t), Queues("cu", Ranks), L, "direct", "stage", TileOwn(len, t))
<1>1. PICK s, u :
        /\ s = [i \in 1..r |-> Arm(Cu(i - 1), GatherReduceLocal(Stage(i - 1, t * TileLen(len)),
                   Buf(i - 1, TileAt(i - 1, len, t)), Share4(len), TileLen(len)))]
        /\ u = [i \in 1..r |-> Refill(Cu(i - 1), ReducePeers(i - 1, TileAt(i - 1, len, t), TileLen(len)))]
  OBVIOUS
<1>2. ReduceTile(len, t) = FlattenSeq(s) \o WaitCus /\ ReadReduceTile(len, t) = FlattenSeq(u)
  BY <1>1 DEF ReduceTile, ReadReduceTile, EachRank
<1>3. PICK F : F = [g \in Ranks |-> {TileAtom(g, g, len, t)}]
  OBVIOUS
<1>4. ASSUME NEW i \in 1..r
      PROVE  /\ Handed(s[i], Queue("cu", i - 1), Made(L, "staged", "stage", F[i - 1]))
             /\ Handed(u[i], Queue("cu", i - 1), Made(L, "direct", "stage", F[i - 1]))
             /\ i - 1 \in Ranks
  <2>1. PICK g : g = i - 1 /\ g \in Ranks
    BY RankIndex
  <2>2. /\ s[i] = Arm(Queue("cu", g), GatherReduceLocal(Stage(g, t * TileLen(len)),
                   Buf(g, TileAt(g, len, t)), Share4(len), TileLen(len)))
        /\ u[i] = Refill(Queue("cu", g), ReducePeers(g, TileAt(g, len, t), TileLen(len)))
    BY <1>1, <2>1 DEF Cu
  <2>3. F[g] = {TileAtom(g, g, len, t)}
    BY <1>3, <2>1
  <2> QED
    BY <2>1, <2>2, <2>3, TileKernels DEF Handed
<1>5. /\ QueueDealt(s, "cu", Ranks, L, "staged", "stage", F)
      /\ QueueDealt(u, "cu", Ranks, L, "direct", "stage", F)
  BY <1>1, <1>4 DEF QueueDealt
<1>6. All(Ranks, F) = TileOwn(len, t)
  BY <1>3 DEF All, TileOwn
<1>7. \A kind : Parted(L, kind, "stage", Ranks, F)
  <2>1. \A g \in Ranks : F[g] \subseteq TileOwn(len, t)
    BY <1>6 DEF All
  <2>2. \A g \in Ranks : Bounded(L, "stage", F[g])
    BY <2>1, TileBounded DEF Bounded
  <2>3. \A g \in Ranks : \A x \in F[g] : x[2] = g /\ x = TileAtom(g, g, len, t)
    BY <1>3, TileFieldsOf
  <2> QED
    BY <2>2, <2>3 DEF Parted, Asunder
<1>8. /\ Deals(FlattenSeq(s), Queues("cu", Ranks), L, "staged", "stage", TileOwn(len, t))
      /\ Deals(FlattenSeq(u), Queues("cu", Ranks), L, "direct", "stage", TileOwn(len, t))
  BY <1>5, <1>6, <1>7, QueueDeals
<1> QED
  BY <1>2, <1>8

-----------------------------------------------------------------------------
(* Two teams at once, whose moves are apart, and both waited for.          *)
LEMMA DealsHands ==
  ASSUME NEW L, NEW kind, NEW k, NEW p, NEW A, NEW X, Deals(p, A, L, kind, k, X)
  PROVE  \E J : Hands(p, A, J)
BY DEF Deals

LEMMA DealsOrderly ==
  ASSUME GroupAssumption, r >= 2, NEW L, Laid(L), NEW kind \in MoveKinds, NEW k \in Kinds,
         NEW p, NEW A, NEW X, Deals(p, A, L, kind, k, X)
  PROVE  Orderly(p, L, Spread(L, kind, k, X), {})
<1>1. PICK J, Y : Hands(p, A, J) /\ Spreads(A, J, L, kind, k, Y) /\ All(A, Y) = X
  BY DEF Deals
<1>2. PICK D : D = Shared(A, L, kind, k, Y)
  OBVIOUS
<1>3. /\ Team(A, J, L, Shared(A, L, kind, k, Y))
      /\ All(A, Shared(A, L, kind, k, Y)) = Spread(L, kind, k, All(A, Y))
  BY <1>1, SpreadTeam
<1>4. Team(A, J, L, D) /\ All(A, D) = Spread(L, kind, k, X)
  BY <1>1, <1>2, <1>3
<1>5. Orderly(p, L, All(A, D), {})
  BY <1>1, <1>4, TeamOrderly
<1> QED
  BY <1>4, <1>5

(* Two blocks that hand out their own jobs hand out jobs together.         *)
LEMMA HandsBoth ==
  ASSUME NEW p, NEW q, NEW A, NEW B, NEW J, NEW K, Hands(p, A, J), Hands(q, B, K), A \cap B = {}
  PROVE  \E I : Hands(p \o q, A \cup B, I)
<1>1. PICK I : I = [a \in A \cup B |-> IF a \in A THEN J[a] ELSE K[a]]
  OBVIOUS
<1>2. /\ \A a \in A : I[a] = J[a]
      /\ \A a \in B : I[a] = K[a]
  BY <1>1
<1>3. Hands(p, A, I)
  BY <1>2 DEF Hands
<1>4. Hands(q, B, I)
  BY <1>2 DEF Hands
<1> QED
  BY <1>3, <1>4, HandsJoin

LEMMA TwoTeams ==
  ASSUME GroupAssumption, r >= 2, NEW L, Laid(L),
         NEW kind \in MoveKinds, NEW k \in Kinds, NEW p, NEW A, NEW X, Deals(p, A, L, kind, k, X),
         NEW knd \in MoveKinds, NEW h \in Kinds, NEW q, NEW B, NEW Y, Deals(q, B, L, knd, h, Y),
         A \cap B = {}, MovesAllApart(Spread(L, kind, k, X), Spread(L, knd, h, Y)),
         NEW v, NEW V, WaitBlock(v, V), NEW w, NEW W, WaitBlock(w, W), V \cup W = A \cup B
  PROVE  Tidy(((p \o q) \o v) \o w, L, Spread(L, kind, k, X) \cup Spread(L, knd, h, Y))
<1>1. PICK D, E : D = Spread(L, kind, k, X) /\ E = Spread(L, knd, h, Y)
  OBVIOUS
<1>2. Orderly(p, L, D, {}) /\ Orderly(q, L, E, {}) /\ MovesAllApart(D, E)
  BY <1>1, DealsOrderly
<1>3. Orderly(p \o q, L, D \cup E, {})
  BY <1>2, OrderlyBeside
<1>4. PICK J, K : Hands(p, A, J) /\ Hands(q, B, K)
  BY DealsHands
<1>5. PICK I : Hands(p \o q, A \cup B, I)
  BY <1>4, HandsBoth
<1>6. WaitBlock(v \o w, A \cup B)
  BY WaitsJoin
<1>7. Drained((p \o q) \o (v \o w))
  BY <1>5, <1>6, RoundDrained
<1>8. IsSeq(p \o q) /\ IsSeq(v) /\ IsSeq(w)
  BY <1>5, HandsSeq, BlockSeqs
<1>9. ((p \o q) \o v) \o w = (p \o q) \o (v \o w)
  BY <1>8, JoinAssociates
<1>10. Orderly((p \o q) \o (v \o w), L, D \cup E, {})
  BY <1>3, <1>6, ThenWaits
<1> QED
  BY <1>1, <1>7, <1>9, <1>10 DEF Tidy

(* A round after a program that has drained.                               *)
LEMMA DealAfter ==
  ASSUME GroupAssumption, r >= 2, NEW L, Laid(L), NEW kind \in MoveKinds, NEW k \in Kinds,
         NEW p, NEW q, NEW A, NEW X, Deals(p, A, L, kind, k, X), WaitBlock(q, A),
         NEW v, NEW E, Tidy(v, L, E), MovesAllAfter(E, Spread(L, kind, k, X))
  PROVE  Tidy((v \o p) \o q, L, E \cup Spread(L, kind, k, X))
<1>1. PICK J, Y : Hands(p, A, J) /\ Spreads(A, J, L, kind, k, Y) /\ All(A, Y) = X
  BY DEF Deals
<1>2. Tidy(p \o q, L, Spread(L, kind, k, X))
  BY DealRound
<1>3. Tidy(v \o (p \o q), L, E \cup Spread(L, kind, k, X))
  BY <1>2, TidyJoin
<1>4. IsSeq(v) /\ IsSeq(p) /\ IsSeq(q)
  BY <1>1, TidySeq, HandsSeq, BlockSeqs
<1>5. (v \o p) \o q = v \o (p \o q)
  BY <1>4, JoinAssociates
<1> QED
  BY <1>3, <1>5

-----------------------------------------------------------------------------
(* The moves of a kind of tile t.                                          *)
TileAtoms(kind, len, t) ==
  IF kind = "scatter" THEN TileToAll(len, t)
  ELSE IF kind = "gather" THEN TileToPeers(len, t) ELSE TileOwn(len, t)
TileMoves(L, kind, len, t) == Spread(L, kind, "stage", TileAtoms(kind, len, t))

LEMMA TileNames == \A L, len, t :
  /\ Spread(L, "scatter", "stage", TileToAll(len, t)) = TileMoves(L, "scatter", len, t)
  /\ Spread(L, "gather", "stage", TileToPeers(len, t)) = TileMoves(L, "gather", len, t)
  /\ Spread(L, "staged", "stage", TileOwn(len, t)) = TileMoves(L, "staged", len, t)
  /\ Spread(L, "direct", "stage", TileOwn(len, t)) = TileMoves(L, "direct", len, t)
BY DEF TileMoves, TileAtoms

LEMMA TilesApart ==
  ASSUME GroupAssumption, NEW L, NEW len \in 0..Capacity, TileShaped(L, len),
         NEW kind \in MoveKinds, NEW knd \in MoveKinds,
         NEW t \in 0..(Tiles - 1), NEW u \in 0..(Tiles - 1), t # u
  PROVE  MovesAllApart(TileMoves(L, kind, len, t), TileMoves(L, knd, len, u))
<1>1. PICK X, Y : X = TileAtoms(kind, len, t) /\ Y = TileAtoms(knd, len, u)
  OBVIOUS
<1>2. Bounded(L, "stage", X) /\ Bounded(L, "stage", Y)
  BY <1>1, TileBounded DEF TileAtoms
<1>3. /\ \A x \in X : \E p, c : x = TileAtom(p, c, len, t)
      /\ \A y \in Y : \E q, d : y = TileAtom(q, d, len, u)
  BY <1>1 DEF TileAtoms, TileToAll, TileToPeers, TileOwn
<1>4. ASSUME NEW x \in X, NEW y \in Y PROVE Elsewhere("stage", x, "stage", y)
  <2>1. PICK p, c : x = TileAtom(p, c, len, t)
    BY <1>3
  <2>2. PICK q, d : y = TileAtom(q, d, len, u)
    BY <1>3
  <2> QED
    BY <2>1, <2>2, TilesElsewhere
<1>5. Laid(L) /\ "stage" \in Kinds
  BY DEF TileShaped, Kinds
<1>6. MovesAllApart(Spread(L, kind, "stage", X), Spread(L, knd, "stage", Y))
  BY <1>2, <1>4, <1>5, SpreadElsewhere
<1> QED
  BY <1>1, <1>6 DEF TileMoves

LEMMA TilesAfter ==
  ASSUME GroupAssumption, NEW L, NEW len \in 0..Capacity, TileShaped(L, len),
         NEW kind \in MoveKinds, NEW knd \in MoveKinds,
         NEW t \in 0..(Tiles - 1), NEW u \in 0..(Tiles - 1), t # u \/ KindLvl(kind) < KindLvl(knd)
  PROVE  MovesAllAfter(TileMoves(L, kind, len, t), TileMoves(L, knd, len, u))
<1>1. CASE t # u
  BY <1>1, TilesApart DEF MovesAllApart, MovesAllAfter, MovesAfter
<1>2. CASE KindLvl(kind) < KindLvl(knd)
  BY <1>2, SpreadAfter DEF TileMoves
<1> QED
  BY <1>1, <1>2

LEMMA AfterBoth ==
  /\ \A D, E, F : MovesAllAfter(D, F) /\ MovesAllAfter(E, F) => MovesAllAfter(D \cup E, F)
  /\ \A D, E, F : MovesAllAfter(F, D) /\ MovesAllAfter(F, E) => MovesAllAfter(F, D \cup E)
BY DEF MovesAllAfter

(* Tile t comes before the moves of later tiles and the gather of its own. *)
LEMMA AfterAll ==
  ASSUME NEW A, NEW D, NEW F, \A a \in A : MovesAllAfter(D[a], F)
  PROVE  MovesAllAfter(All(A, D), F)
BY DEF MovesAllAfter, All

LEMMA AllAfter ==
  ASSUME NEW A, NEW D, NEW F, \A a \in A : MovesAllAfter(F, D[a])
  PROVE  MovesAllAfter(F, All(A, D))
BY DEF MovesAllAfter, All

-----------------------------------------------------------------------------
(* The moves of the pipelined schemes: those of the kinds K of every tile. *)
TilesServed(L, len, D) ==
  \A t \in 0..(Tiles - 1) :
    /\ \/ TileMoves(L, "direct", len, t) \subseteq D
       \/ TileMoves(L, "staged", len, t) \subseteq D /\ TileMoves(L, "scatter", len, t) \subseteq D
    /\ TileMoves(L, "gather", len, t) \subseteq D
    /\ \/ \A d \in D : ~(d.k = "stage" /\ d.kind = "staged")
       \/ TileMoves(L, "scatter", len, t) \subseteq D

LEMMA TileReach ==
  ASSUME GroupAssumption, NEW L, NEW len \in 0..Capacity, TileFacts(len),
         NEW t \in 0..(Tiles - 1), NEW o \in Nat,
         t * TileLen(len) <= o, o < t * TileLen(len) + TileLen(len),
         NEW D, NEW kind, TileMoves(L, kind, len, t) \subseteq D,
         NEW p, NEW c, TileAtom(p, c, len, t) \in TileAtoms(kind, len, t)
  PROVE  Reach(D, kind, "stage", p, c, o)
<1>1. PICK off, m : off = t * TileLen(len) /\ m = TileLen(len)
  OBVIOUS
<1>2. off \in Nat /\ m \in Nat /\ off <= o /\ o < off + m
  BY <1>1, TileIn DEF TileFacts
<1>3. PICK X, E : X = TileAtoms(kind, len, t) /\ E = Spread(L, kind, "stage", X) /\ E \subseteq D
  BY DEF TileMoves
<1>4. <<p, c, off, m>> \in X
  BY <1>1, <1>3 DEF TileAtom
<1>5. Reach(E, kind, "stage", p, c, o)
  BY <1>2, <1>3, <1>4, SpreadReach
<1> QED
  BY <1>3, <1>5, ReachMore

LEMMA TilesServe ==
  ASSUME GroupAssumption, NEW L, NEW len \in 0..Capacity, TileShaped(L, len),
         NEW D, TilesServed(L, len, D)
  PROVE  Serves(L, D, "stage")
<1>1. ASSUME NEW c \in Ranks, NEW o \in Nat, Cell(L, "stage", c, o)
      PROVE  Plainly(D, "stage", c, o)
  <2>1. TileFacts(len) /\ o < Share4(len)
    BY <1>1, PartFields DEF TileShaped, Cell
  <2>2. PICK t \in 0..(Tiles - 1) : t * TileLen(len) <= o /\ o < t * TileLen(len) + TileLen(len)
    BY <2>1, TileHas
  <2>3. /\ TileAtom(c, c, len, t) \in TileAtoms("direct", len, t)
        /\ TileAtom(c, c, len, t) \in TileAtoms("staged", len, t)
    BY DEF TileAtoms, TileOwn
  <2>4. \A q \in Ranks : TileAtom(q, c, len, t) \in TileAtoms("scatter", len, t)
    <3>1. ASSUME NEW q \in Ranks PROVE TileAtom(q, c, len, t) \in TileToAll(len, t)
      <4>1. <<c, q>> \in Ranks \X Ranks
        OBVIOUS
      <4> QED
        BY <4>1 DEF TileToAll
    <3> QED
      BY <3>1 DEF TileAtoms
  <2>5. \A p \in Ranks \ {c} : TileAtom(p, c, len, t) \in TileAtoms("gather", len, t)
    <3>1. ASSUME NEW p \in Ranks \ {c} PROVE TileAtom(p, c, len, t) \in TileToPeers(len, t)
      <4>1. <<c, p>> \in Others
        BY DEF Others
      <4> QED
        BY <4>1 DEF TileToPeers
    <3> QED
      BY <3>1 DEF TileAtoms
  <2>6. TileMoves(L, "direct", len, t) \subseteq D => Reach(D, "direct", "stage", c, c, o)
    BY <2>1, <2>2, <2>3, TileReach
  <2>7. TileMoves(L, "staged", len, t) \subseteq D => Reach(D, "staged", "stage", c, c, o)
    BY <2>1, <2>2, <2>3, TileReach
  <2>8. TileMoves(L, "scatter", len, t) \subseteq D
          => \A q \in Ranks : Reach(D, "scatter", "stage", q, c, o)
    BY <2>1, <2>2, <2>4, TileReach
  <2>9. TileMoves(L, "gather", len, t) \subseteq D
          => \A p \in Ranks \ {c} : Reach(D, "gather", "stage", p, c, o)
    BY <2>1, <2>2, <2>5, TileReach
  <2> QED
    BY <2>6, <2>7, <2>8, <2>9 DEF TilesServed, Plainly, Summed, Gathered
<1> QED
  BY <1>1 DEF Serves

(* Which tiles there are.                                                  *)
LEMMA TileCounts ==
  /\ Tiles - 1 \in Nat /\ 0 \in 0..(Tiles - 1) /\ Tiles - 1 \in 0..(Tiles - 1)
  /\ \A t \in 1..(Tiles - 1) : t \in 0..(Tiles - 1) /\ t - 1 \in 0..(Tiles - 1)
  /\ \A t \in 0..(Tiles - 1) : t = 0 \/ t \in 1..(Tiles - 1)
  /\ \A t \in 0..(Tiles - 1) : t = Tiles - 1 \/ (t + 1 \in 1..(Tiles - 1) /\ (t + 1) - 1 = t)
BY AllReduceAssumption

LEMMA TileKinds ==
  /\ {"scatter", "staged", "direct", "gather"} \subseteq MoveKinds /\ "stage" \in Kinds
  /\ KindLvl("scatter") = 0 /\ KindLvl("staged") = 1 /\ KindLvl("direct") = 1 /\ KindLvl("gather") = 2
  /\ \A L, len, t : \A d \in TileMoves(L, "scatter", len, t) : d.kind = "scatter"
  /\ \A L, len, t : \A d \in TileMoves(L, "direct", len, t) : d.kind = "direct"
  /\ \A L, len, t : \A d \in TileMoves(L, "gather", len, t) : d.kind = "gather"
<1>1. \A L, kind, len, t : \A d \in TileMoves(L, kind, len, t) : d.kind = kind
  BY MvFields DEF TileMoves, Spread
<1> QED
  BY <1>1 DEF MoveKinds, Kinds, KindLvl

-----------------------------------------------------------------------------
(* The moves of bidir: each tile but the first is read, the one before it  *)
(* pushed meanwhile, then reduced.                                         *)
BidirTile(L, len, t) ==
  (TileMoves(L, "scatter", len, t) \cup TileMoves(L, "gather", len, t - 1))
    \cup TileMoves(L, "staged", len, t)
BidirFirst(L, len) == TileMoves(L, "scatter", len, 0) \cup TileMoves(L, "staged", len, 0)

LEMMA TileBeforeBidir ==
  ASSUME GroupAssumption, NEW L, NEW len \in 0..Capacity, TileShaped(L, len),
         NEW kind \in MoveKinds, NEW t \in 0..(Tiles - 1), NEW u \in 1..(Tiles - 1),
         t # u, KindLvl(kind) < 2 \/ t # u - 1
  PROVE  MovesAllAfter(TileMoves(L, kind, len, t), BidirTile(L, len, u))
<1>1. u \in 0..(Tiles - 1) /\ u - 1 \in 0..(Tiles - 1)
  BY TileCounts
<1>2. MovesAllAfter(TileMoves(L, kind, len, t), TileMoves(L, "scatter", len, u))
  BY <1>1, TileKinds, TilesAfter
<1>3. MovesAllAfter(TileMoves(L, kind, len, t), TileMoves(L, "staged", len, u))
  BY <1>1, TileKinds, TilesAfter
<1>4. MovesAllAfter(TileMoves(L, kind, len, t), TileMoves(L, "gather", len, u - 1))
  BY <1>1, TileKinds, TilesAfter
<1> QED
  BY <1>2, <1>3, <1>4, AfterBoth DEF BidirTile

LEMMA TileBeforeLast ==
  ASSUME GroupAssumption, NEW L, NEW len \in 0..Capacity, TileShaped(L, len),
         NEW kind \in MoveKinds, NEW t \in 0..(Tiles - 1), KindLvl(kind) < 2 \/ t # Tiles - 1
  PROVE  MovesAllAfter(TileMoves(L, kind, len, t), TileMoves(L, "gather", len, Tiles - 1))
BY TileCounts, TileKinds, TilesAfter

LEMMA BidirTilesAfter ==
  ASSUME GroupAssumption, NEW L, NEW len \in 0..Capacity, TileShaped(L, len),
         NEW u \in 1..(Tiles - 1)
  PROVE  /\ \A t \in 1..(Tiles - 1) : t < u => MovesAllAfter(BidirTile(L, len, t), BidirTile(L, len, u))
         /\ MovesAllAfter(BidirFirst(L, len), BidirTile(L, len, u))
         /\ MovesAllAfter(BidirTile(L, len, u), TileMoves(L, "gather", len, Tiles - 1))
<1>1. ASSUME NEW t \in 1..(Tiles - 1), t < u
      PROVE  MovesAllAfter(BidirTile(L, len, t), BidirTile(L, len, u))
  <2>1. t \in 0..(Tiles - 1) /\ t - 1 \in 0..(Tiles - 1) /\ t # u /\ t - 1 # u /\ t - 1 # u - 1
    BY <1>1, TileCounts
  <2>2. MovesAllAfter(TileMoves(L, "scatter", len, t), BidirTile(L, len, u))
    BY <2>1, TileKinds, TileBeforeBidir
  <2>3. MovesAllAfter(TileMoves(L, "staged", len, t), BidirTile(L, len, u))
    BY <2>1, TileKinds, TileBeforeBidir
  <2>4. MovesAllAfter(TileMoves(L, "gather", len, t - 1), BidirTile(L, len, u))
    BY <2>1, TileKinds, TileBeforeBidir
  <2> QED
    BY <2>2, <2>3, <2>4, AfterBoth DEF BidirTile
<1>2. MovesAllAfter(BidirFirst(L, len), BidirTile(L, len, u))
  <2>1. PICK z : z = 0 /\ z \in 0..(Tiles - 1) /\ z # u
    BY TileCounts
  <2>2. MovesAllAfter(TileMoves(L, "scatter", len, z), BidirTile(L, len, u))
    BY <2>1, TileKinds, TileBeforeBidir
  <2>3. MovesAllAfter(TileMoves(L, "staged", len, z), BidirTile(L, len, u))
    BY <2>1, TileKinds, TileBeforeBidir
  <2> QED
    BY <2>1, <2>2, <2>3, AfterBoth DEF BidirFirst
<1>3. MovesAllAfter(BidirTile(L, len, u), TileMoves(L, "gather", len, Tiles - 1))
  <2>1. u \in 0..(Tiles - 1) /\ u - 1 \in 0..(Tiles - 1) /\ u - 1 # Tiles - 1
    BY TileCounts
  <2>2. MovesAllAfter(TileMoves(L, "scatter", len, u), TileMoves(L, "gather", len, Tiles - 1))
    BY <2>1, TileKinds, TileBeforeLast
  <2>3. MovesAllAfter(TileMoves(L, "staged", len, u), TileMoves(L, "gather", len, Tiles - 1))
    BY <2>1, TileKinds, TileBeforeLast
  <2>4. MovesAllAfter(TileMoves(L, "gather", len, u - 1), TileMoves(L, "gather", len, Tiles - 1))
    BY <2>1, TileKinds, TileBeforeLast
  <2> QED
    BY <2>2, <2>3, <2>4, AfterBoth DEF BidirTile
<1> QED
  BY <1>1, <1>2, <1>3

(* The program of bidir.                                                   *)
BidirParts(len, f) ==
  f = [t \in 1..(Tiles - 1) |->
         (((ReadTile(len, t) \o PushTileByCu(len, t - 1)) \o WaitCus) \o WaitReads)
           \o ReduceTile(len, t)]
BidirJoins(len, f) ==
  Bidir(len) =
        ((((ReadTile(len, 0) \o WaitReads) \o ReduceTile(len, 0)) \o FlattenSeq(f))
           \o PushTileByCu(len, Tiles - 1)) \o WaitCus

LEMMA BidirIs ==
  ASSUME NEW len
  PROVE  \E f : BidirParts(len, f) /\ BidirJoins(len, f)
BY DEF BidirParts, BidirJoins, Bidir

LEMMA ReduceTileTidy ==
  ASSUME GroupAssumption, r >= 2, NEW L, NEW len \in 0..Capacity, TileShaped(L, len),
         NEW t \in 0..(Tiles - 1)
  PROVE  Tidy(ReduceTile(len, t), L, TileMoves(L, "staged", len, t))
<1>1. PICK p : /\ ReduceTile(len, t) = p \o WaitCus
               /\ Deals(p, Queues("cu", Ranks), L, "staged", "stage", TileOwn(len, t))
  BY TileOwnDeals
<1>2. Laid(L)
  BY DEF TileShaped
<1>3. Tidy(p \o WaitCus, L, Spread(L, "staged", "stage", TileOwn(len, t)))
  BY <1>1, <1>2, TileKinds, WaitForCus, DealRound
<1> QED
  BY <1>1, <1>3, TileNames

LEMMA BidirTileTidy ==
  ASSUME GroupAssumption, r >= 2, NEW L, NEW len \in 0..Capacity, TileShaped(L, len),
         NEW t \in 1..(Tiles - 1)
  PROVE  Tidy((((ReadTile(len, t) \o PushTileByCu(len, t - 1)) \o WaitCus) \o WaitReads)
                \o ReduceTile(len, t), L, BidirTile(L, len, t))
<1>1. t \in 0..(Tiles - 1) /\ t - 1 \in 0..(Tiles - 1) /\ t # t - 1
  BY TileCounts
<1>2. PICK A, B : A = Grid(Ranks \X Ranks) /\ B = Queues("cu", Ranks)
  OBVIOUS
<1>3. A \cap B = {} /\ B \cup A = A \cup B
  BY <1>2, PeerPairs, AgentSets
<1>4. /\ Deals(ReadTile(len, t), A, L, "scatter", "stage", TileToAll(len, t))
      /\ Deals(PushTileByCu(len, t - 1), B, L, "gather", "stage", TileToPeers(len, t - 1))
      /\ WaitBlock(WaitReads, A) /\ WaitBlock(WaitCus, B)
  BY <1>1, <1>2, TileReadDeals, TileCuDeals, WaitForEngines, WaitForCus
<1>5. MovesAllApart(TileMoves(L, "scatter", len, t), TileMoves(L, "gather", len, t - 1))
  BY <1>1, TileKinds, TilesApart
<1>6. Laid(L)
  BY DEF TileShaped
<1>7. MovesAllApart(Spread(L, "scatter", "stage", TileToAll(len, t)),
                    Spread(L, "gather", "stage", TileToPeers(len, t - 1)))
  BY <1>5, TileNames
<1>8. Tidy(((ReadTile(len, t) \o PushTileByCu(len, t - 1)) \o WaitCus) \o WaitReads, L,
           Spread(L, "scatter", "stage", TileToAll(len, t))
             \cup Spread(L, "gather", "stage", TileToPeers(len, t - 1)))
  BY <1>3, <1>4, <1>6, <1>7, TileKinds, TwoTeams
<1>9. PICK D, p : /\ D = TileMoves(L, "scatter", len, t) \cup TileMoves(L, "gather", len, t - 1)
                  /\ p = ((ReadTile(len, t) \o PushTileByCu(len, t - 1)) \o WaitCus) \o WaitReads
  OBVIOUS
<1>10. Tidy(p, L, D)
  BY <1>8, <1>9, TileNames
<1>11. Tidy(ReduceTile(len, t), L, TileMoves(L, "staged", len, t))
  BY <1>1, ReduceTileTidy
<1>12. MovesAllAfter(D, TileMoves(L, "staged", len, t))
  <2>1. MovesAllAfter(TileMoves(L, "scatter", len, t), TileMoves(L, "staged", len, t))
    BY <1>1, TileKinds, TilesAfter
  <2>2. MovesAllAfter(TileMoves(L, "gather", len, t - 1), TileMoves(L, "staged", len, t))
    BY <1>1, TileKinds, TilesAfter
  <2> QED
    BY <1>9, <2>1, <2>2, AfterBoth
<1>13. Tidy(p \o ReduceTile(len, t), L, D \cup TileMoves(L, "staged", len, t))
  BY <1>6, <1>10, <1>11, <1>12, TidyJoin
<1> QED
  BY <1>9, <1>13 DEF BidirTile

LEMMA BidirFirstTidy ==
  ASSUME GroupAssumption, r >= 2, NEW L, NEW len \in 0..Capacity, TileShaped(L, len)
  PROVE  Tidy((ReadTile(len, 0) \o WaitReads) \o ReduceTile(len, 0), L, BidirFirst(L, len))
<1>1. PICK z : z = 0 /\ z \in 0..(Tiles - 1)
  BY TileCounts
<1>2. Laid(L)
  BY DEF TileShaped
<1>3. Deals(ReadTile(len, z), Grid(Ranks \X Ranks), L, "scatter", "stage", TileToAll(len, z))
  BY <1>1, TileReadDeals
<1>4. Tidy(ReadTile(len, z) \o WaitReads, L, Spread(L, "scatter", "stage", TileToAll(len, z)))
  BY <1>2, <1>3, TileKinds, WaitForEngines, DealRound
<1>5. Tidy(ReadTile(len, z) \o WaitReads, L, TileMoves(L, "scatter", len, z))
  BY <1>4, TileNames
<1>6. Tidy(ReduceTile(len, z), L, TileMoves(L, "staged", len, z))
  BY <1>1, ReduceTileTidy
<1>7. MovesAllAfter(TileMoves(L, "scatter", len, z), TileMoves(L, "staged", len, z))
  BY <1>1, TileKinds, TilesAfter
<1>8. Tidy((ReadTile(len, z) \o WaitReads) \o ReduceTile(len, z), L,
           TileMoves(L, "scatter", len, z) \cup TileMoves(L, "staged", len, z))
  BY <1>2, <1>5, <1>6, <1>7, TidyJoin
<1> QED
  BY <1>1, <1>8 DEF BidirFirst

-----------------------------------------------------------------------------
BidirMoves(L, len) ==
  (BidirFirst(L, len) \cup All(1..(Tiles - 1), [t \in 1..(Tiles - 1) |-> BidirTile(L, len, t)]))
    \cup TileMoves(L, "gather", len, Tiles - 1)

LEMMA BidirTidy ==
  ASSUME GroupAssumption, r >= 2, NEW L, NEW len \in 0..Capacity, TileShaped(L, len)
  PROVE  Tidy(Bidir(len), L, BidirMoves(L, len))
<1>1. PICK f : BidirParts(len, f) /\ BidirJoins(len, f)
  BY BidirIs
<1>2. PICK m, T : m = Tiles - 1 /\ m \in Nat /\ T = [t \in 1..m |-> BidirTile(L, len, t)]
  BY TileCounts
<1>3. f = [t \in 1..m |-> f[t]]
  BY <1>1, <1>2 DEF BidirParts
<1>4. \A t \in 1..m : Tidy(f[t], L, T[t])
  <2>1. ASSUME NEW t \in 1..m PROVE Tidy(f[t], L, T[t])
    <3>1. t \in 1..(Tiles - 1)
      BY <1>2
    <3>2. f[t] = (((ReadTile(len, t) \o PushTileByCu(len, t - 1)) \o WaitCus) \o WaitReads)
                   \o ReduceTile(len, t)
      BY <1>1, <3>1 DEF BidirParts
    <3>3. T[t] = BidirTile(L, len, t)
      BY <1>2
    <3> QED
      BY <3>1, <3>2, <3>3, BidirTileTidy
  <2> QED
    BY <2>1
<1>5. \A t, u \in 1..m : t < u => MovesAllAfter(T[t], T[u])
  BY <1>2, BidirTilesAfter
<1>6. Laid(L)
  BY DEF TileShaped
<1>7. Tidy(FlattenSeq(f), L, All(1..m, T))
  BY <1>2, <1>3, <1>4, <1>5, <1>6, FlattenTidy
<1>8. PICK p, D, E, G : /\ p = (ReadTile(len, 0) \o WaitReads) \o ReduceTile(len, 0)
                        /\ D = BidirFirst(L, len) /\ E = All(1..m, T)
                        /\ G = TileMoves(L, "gather", len, m)
  OBVIOUS
<1>9. Tidy(p, L, D)
  BY <1>8, BidirFirstTidy
<1>10. MovesAllAfter(D, E)
  <2>1. \A u \in 1..m : MovesAllAfter(D, T[u])
    BY <1>2, <1>8, BidirTilesAfter
  <2> QED
    BY <1>8, <2>1, AllAfter
<1>11. Tidy(p \o FlattenSeq(f), L, D \cup E)
  BY <1>6, <1>7, <1>8, <1>9, <1>10, TidyJoin
<1>12. MovesAllAfter(D \cup E, G)
  <2>1. \A u \in 1..m : MovesAllAfter(T[u], G)
    BY <1>2, <1>8, BidirTilesAfter
  <2>2. MovesAllAfter(E, G)
    BY <1>8, <2>1, AfterAll
  <2>3. PICK z : z = 0 /\ z \in 0..(Tiles - 1)
    BY TileCounts
  <2>4. MovesAllAfter(TileMoves(L, "scatter", len, z), G) /\ MovesAllAfter(TileMoves(L, "staged", len, z), G)
    BY <1>2, <1>8, <2>3, TileKinds, TileBeforeLast
  <2>5. MovesAllAfter(D, G)
    BY <1>8, <2>3, <2>4, AfterBoth DEF BidirFirst
  <2> QED
    BY <2>2, <2>5, AfterBoth
<1>13. m \in 0..(Tiles - 1)
  BY <1>2, TileCounts
<1>14. Deals(PushTileByCu(len, m), Queues("cu", Ranks), L, "gather", "stage", TileToPeers(len, m))
  BY <1>13, TileCuDeals
<1>15. Spread(L, "gather", "stage", TileToPeers(len, m)) = G
  BY <1>8, TileNames
<1>16. PICK v : v = p \o FlattenSeq(f)
  OBVIOUS
<1>17. Tidy(v, L, D \cup E) /\ MovesAllAfter(D \cup E, Spread(L, "gather", "stage", TileToPeers(len, m)))
  BY <1>11, <1>12, <1>15, <1>16
<1>18. Tidy((v \o PushTileByCu(len, m)) \o WaitCus, L,
            (D \cup E) \cup Spread(L, "gather", "stage", TileToPeers(len, m)))
  BY <1>6, <1>14, <1>17, TileKinds, WaitForCus, DealAfter
<1>19. Bidir(len) = (v \o PushTileByCu(len, m)) \o WaitCus
  BY <1>1, <1>2, <1>8, <1>16 DEF BidirJoins
<1>20. BidirMoves(L, len) = (D \cup E) \cup G
  BY <1>2, <1>8 DEF BidirMoves
<1> QED
  BY <1>15, <1>18, <1>19, <1>20

LEMMA BidirRuns ==
  ASSUME GroupAssumption, r >= 2, NEW len \in 0..Capacity, ShareFacts(len), TileFacts(len)
  PROVE  \E D : Runs(Bidir(len), Vector(len), D)
<1>1. PICK L, D : L = Vector(len) /\ D = BidirMoves(L, len)
  OBVIOUS
<1>2. TileShaped(L, len)
  BY <1>1, TilesShaped
<1>3. Orderly(Bidir(len), L, D, {})
  BY <1>1, <1>2, BidirTidy DEF Tidy
<1>4. TilesServed(L, len, D)
  <2>1. ASSUME NEW t \in 0..(Tiles - 1)
        PROVE  /\ TileMoves(L, "scatter", len, t) \subseteq D
               /\ TileMoves(L, "staged", len, t) \subseteq D
    <3>1. CASE t = 0
      BY <1>1, <3>1 DEF BidirMoves, BidirFirst
    <3>2. CASE t \in 1..(Tiles - 1)
      <4>1. BidirTile(L, len, t) \subseteq D
        BY <1>1, <3>2 DEF BidirMoves, All
      <4> QED
        BY <4>1 DEF BidirTile
    <3> QED
      BY <3>1, <3>2, TileCounts
  <2>2. ASSUME NEW t \in 0..(Tiles - 1)
        PROVE  TileMoves(L, "gather", len, t) \subseteq D
    <3>1. CASE t = Tiles - 1
      BY <1>1, <3>1 DEF BidirMoves
    <3>2. CASE t + 1 \in 1..(Tiles - 1) /\ (t + 1) - 1 = t
      <4>1. PICK u : u = t + 1 /\ u \in 1..(Tiles - 1) /\ u - 1 = t
        BY <3>2
      <4>2. BidirTile(L, len, u) \subseteq D
        BY <1>1, <4>1 DEF BidirMoves, All
      <4> QED
        BY <4>1, <4>2 DEF BidirTile
    <3> QED
      BY <3>1, <3>2, TileCounts
  <2> QED
    BY <2>1, <2>2 DEF TilesServed
<1>5. Serves(L, D, "stage") /\ Serves(L, D, "stage_b")
  BY <1>1, <1>2, <1>4, TilesServe, VectorFacts
<1> QED
  BY <1>1, <1>3, <1>5 DEF Runs

-----------------------------------------------------------------------------
(* The moves of bidir2: each tile but the first is summed while the one    *)
(* before it is pushed.                                                    *)
Bidir2Tile(L, len, t) == TileMoves(L, "direct", len, t) \cup TileMoves(L, "gather", len, t - 1)

LEMMA TileBeforeBidir2 ==
  ASSUME GroupAssumption, NEW L, NEW len \in 0..Capacity, TileShaped(L, len),
         NEW kind \in MoveKinds, NEW t \in 0..(Tiles - 1), NEW u \in 1..(Tiles - 1),
         t # u, KindLvl(kind) < 2 \/ t # u - 1
  PROVE  MovesAllAfter(TileMoves(L, kind, len, t), Bidir2Tile(L, len, u))
<1>1. u \in 0..(Tiles - 1) /\ u - 1 \in 0..(Tiles - 1)
  BY TileCounts
<1>2. MovesAllAfter(TileMoves(L, kind, len, t), TileMoves(L, "direct", len, u))
  BY <1>1, TileKinds, TilesAfter
<1>3. MovesAllAfter(TileMoves(L, kind, len, t), TileMoves(L, "gather", len, u - 1))
  BY <1>1, TileKinds, TilesAfter
<1> QED
  BY <1>2, <1>3, AfterBoth DEF Bidir2Tile

LEMMA Bidir2TilesAfter ==
  ASSUME GroupAssumption, NEW L, NEW len \in 0..Capacity, TileShaped(L, len),
         NEW u \in 1..(Tiles - 1)
  PROVE  /\ \A t \in 1..(Tiles - 1) : t < u => MovesAllAfter(Bidir2Tile(L, len, t), Bidir2Tile(L, len, u))
         /\ MovesAllAfter(TileMoves(L, "direct", len, 0), Bidir2Tile(L, len, u))
         /\ MovesAllAfter(Bidir2Tile(L, len, u), TileMoves(L, "gather", len, Tiles - 1))
<1>1. ASSUME NEW t \in 1..(Tiles - 1), t < u
      PROVE  MovesAllAfter(Bidir2Tile(L, len, t), Bidir2Tile(L, len, u))
  <2>1. t \in 0..(Tiles - 1) /\ t - 1 \in 0..(Tiles - 1) /\ t # u /\ t - 1 # u /\ t - 1 # u - 1
    BY <1>1, TileCounts
  <2>2. MovesAllAfter(TileMoves(L, "direct", len, t), Bidir2Tile(L, len, u))
    BY <2>1, TileKinds, TileBeforeBidir2
  <2>3. MovesAllAfter(TileMoves(L, "gather", len, t - 1), Bidir2Tile(L, len, u))
    BY <2>1, TileKinds, TileBeforeBidir2
  <2> QED
    BY <2>2, <2>3, AfterBoth DEF Bidir2Tile
<1>2. MovesAllAfter(TileMoves(L, "direct", len, 0), Bidir2Tile(L, len, u))
  <2>1. PICK z : z = 0 /\ z \in 0..(Tiles - 1) /\ z # u
    BY TileCounts
  <2>2. MovesAllAfter(TileMoves(L, "direct", len, z), Bidir2Tile(L, len, u))
    BY <2>1, TileKinds, TileBeforeBidir2
  <2> QED
    BY <2>1, <2>2
<1>3. MovesAllAfter(Bidir2Tile(L, len, u), TileMoves(L, "gather", len, Tiles - 1))
  <2>1. u \in 0..(Tiles - 1) /\ u - 1 \in 0..(Tiles - 1) /\ u - 1 # Tiles - 1
    BY TileCounts
  <2>2. MovesAllAfter(TileMoves(L, "direct", len, u), TileMoves(L, "gather", len, Tiles - 1))
    BY <2>1, TileKinds, TileBeforeLast
  <2>3. MovesAllAfter(TileMoves(L, "gather", len, u - 1), TileMoves(L, "gather", len, Tiles - 1))
    BY <2>1, TileKinds, TileBeforeLast
  <2> QED
    BY <2>2, <2>3, AfterBoth DEF Bidir2Tile
<1> QED
  BY <1>1, <1>2, <1>3

Bidir2Parts(len, f) ==
  f = [t \in 1..(Tiles - 1) |->
         ((ReadReduceTile(len, t) \o PushTileBySdma(len, t - 1)) \o WaitWrites) \o WaitCus]
Bidir2Joins(len, f) ==
  Bidir2(len) =
        (((ReadReduceTile(len, 0) \o WaitCus) \o FlattenSeq(f))
           \o PushTileBySdma(len, Tiles - 1)) \o WaitWrites

LEMMA Bidir2Is ==
  ASSUME NEW len
  PROVE  \E f : Bidir2Parts(len, f) /\ Bidir2Joins(len, f)
BY DEF Bidir2Parts, Bidir2Joins, Bidir2

LEMMA Bidir2TileTidy ==
  ASSUME GroupAssumption, r >= 2, NEW L, NEW len \in 0..Capacity, TileShaped(L, len),
         NEW t \in 1..(Tiles - 1)
  PROVE  Tidy(((ReadReduceTile(len, t) \o PushTileBySdma(len, t - 1)) \o WaitWrites) \o WaitCus,
              L, Bidir2Tile(L, len, t))
<1>1. t \in 0..(Tiles - 1) /\ t - 1 \in 0..(Tiles - 1) /\ t # t - 1
  BY TileCounts
<1>2. PICK A, B : A = Queues("cu", Ranks) /\ B = Grid(Others)
  OBVIOUS
<1>3. A \cap B = {} /\ B \cup A = A \cup B
  BY <1>2, PeerPairs, AgentSets
<1>4. /\ Deals(ReadReduceTile(len, t), A, L, "direct", "stage", TileOwn(len, t))
      /\ Deals(PushTileBySdma(len, t - 1), B, L, "gather", "stage", TileToPeers(len, t - 1))
      /\ WaitBlock(WaitWrites, B) /\ WaitBlock(WaitCus, A)
  BY <1>1, <1>2, TileOwnDeals, TilePushDeals, WaitForPeers, WaitForCus
<1>5. MovesAllApart(TileMoves(L, "direct", len, t), TileMoves(L, "gather", len, t - 1))
  BY <1>1, TileKinds, TilesApart
<1>6. Laid(L)
  BY DEF TileShaped
<1>7. MovesAllApart(Spread(L, "direct", "stage", TileOwn(len, t)),
                    Spread(L, "gather", "stage", TileToPeers(len, t - 1)))
  BY <1>5, TileNames
<1>8. Tidy(((ReadReduceTile(len, t) \o PushTileBySdma(len, t - 1)) \o WaitWrites) \o WaitCus, L,
           Spread(L, "direct", "stage", TileOwn(len, t))
             \cup Spread(L, "gather", "stage", TileToPeers(len, t - 1)))
  BY <1>3, <1>4, <1>6, <1>7, TileKinds, TwoTeams
<1> QED
  BY <1>8, TileNames DEF Bidir2Tile

Bidir2Moves(L, len) ==
  (TileMoves(L, "direct", len, 0)
     \cup All(1..(Tiles - 1), [t \in 1..(Tiles - 1) |-> Bidir2Tile(L, len, t)]))
    \cup TileMoves(L, "gather", len, Tiles - 1)

LEMMA Bidir2Tidy ==
  ASSUME GroupAssumption, r >= 2, NEW L, NEW len \in 0..Capacity, TileShaped(L, len)
  PROVE  Tidy(Bidir2(len), L, Bidir2Moves(L, len))
<1>1. PICK f : Bidir2Parts(len, f) /\ Bidir2Joins(len, f)
  BY Bidir2Is
<1>2. PICK m, T : m = Tiles - 1 /\ m \in Nat /\ T = [t \in 1..m |-> Bidir2Tile(L, len, t)]
  BY TileCounts
<1>3. f = [t \in 1..m |-> f[t]]
  BY <1>1, <1>2 DEF Bidir2Parts
<1>4. \A t \in 1..m : Tidy(f[t], L, T[t])
  <2>1. ASSUME NEW t \in 1..m PROVE Tidy(f[t], L, T[t])
    <3>1. t \in 1..(Tiles - 1)
      BY <1>2
    <3>2. f[t] = ((ReadReduceTile(len, t) \o PushTileBySdma(len, t - 1)) \o WaitWrites) \o WaitCus
      BY <1>1, <3>1 DEF Bidir2Parts
    <3>3. T[t] = Bidir2Tile(L, len, t)
      BY <1>2
    <3> QED
      BY <3>1, <3>2, <3>3, Bidir2TileTidy
  <2> QED
    BY <2>1
<1>5. \A t, u \in 1..m : t < u => MovesAllAfter(T[t], T[u])
  BY <1>2, Bidir2TilesAfter
<1>6. Laid(L)
  BY DEF TileShaped
<1>7. Tidy(FlattenSeq(f), L, All(1..m, T))
  BY <1>2, <1>3, <1>4, <1>5, <1>6, FlattenTidy
<1>8. PICK z : z = 0 /\ z \in 0..(Tiles - 1)
  BY TileCounts
<1>9. PICK p, D, E, G : /\ p = ReadReduceTile(len, z) \o WaitCus
                        /\ D = TileMoves(L, "direct", len, z) /\ E = All(1..m, T)
                        /\ G = TileMoves(L, "gather", len, m)
  OBVIOUS
<1>10. Tidy(p, L, D)
  <2>1. Deals(ReadReduceTile(len, z), Queues("cu", Ranks), L, "direct", "stage", TileOwn(len, z))
    BY <1>8, TileOwnDeals
  <2>2. Tidy(ReadReduceTile(len, z) \o WaitCus, L, Spread(L, "direct", "stage", TileOwn(len, z)))
    BY <1>6, <2>1, TileKinds, WaitForCus, DealRound
  <2> QED
    BY <1>9, <2>2, TileNames
<1>11. MovesAllAfter(D, E)
  <2>1. \A u \in 1..m : MovesAllAfter(D, T[u])
    BY <1>2, <1>8, <1>9, Bidir2TilesAfter
  <2> QED
    BY <1>9, <2>1, AllAfter
<1>12. Tidy(p \o FlattenSeq(f), L, D \cup E)
  BY <1>6, <1>7, <1>9, <1>10, <1>11, TidyJoin
<1>13. MovesAllAfter(D \cup E, G)
  <2>1. \A u \in 1..m : MovesAllAfter(T[u], G)
    BY <1>2, <1>9, Bidir2TilesAfter
  <2>2. MovesAllAfter(E, G)
    BY <1>9, <2>1, AfterAll
  <2>3. MovesAllAfter(D, G)
    BY <1>2, <1>8, <1>9, TileKinds, TileBeforeLast
  <2> QED
    BY <2>2, <2>3, AfterBoth
<1>14. m \in 0..(Tiles - 1)
  BY <1>2, TileCounts
<1>15. Deals(PushTileBySdma(len, m), Grid(Others), L, "gather", "stage", TileToPeers(len, m))
  BY <1>14, TilePushDeals
<1>16. Spread(L, "gather", "stage", TileToPeers(len, m)) = G
  BY <1>9, TileNames
<1>17. PICK v : v = p \o FlattenSeq(f)
  OBVIOUS
<1>18. Tidy(v, L, D \cup E) /\ MovesAllAfter(D \cup E, Spread(L, "gather", "stage", TileToPeers(len, m)))
  BY <1>12, <1>13, <1>16, <1>17
<1>19. Tidy((v \o PushTileBySdma(len, m)) \o WaitWrites, L,
            (D \cup E) \cup Spread(L, "gather", "stage", TileToPeers(len, m)))
  BY <1>6, <1>15, <1>18, TileKinds, WaitForPeers, DealAfter
<1>20. Bidir2(len) = (v \o PushTileBySdma(len, m)) \o WaitWrites
  BY <1>1, <1>2, <1>8, <1>9, <1>17 DEF Bidir2Joins
<1>21. Bidir2Moves(L, len) = (D \cup E) \cup G
  BY <1>2, <1>8, <1>9 DEF Bidir2Moves
<1> QED
  BY <1>16, <1>19, <1>20, <1>21

LEMMA Bidir2Runs ==
  ASSUME GroupAssumption, r >= 2, NEW len \in 0..Capacity, ShareFacts(len), TileFacts(len)
  PROVE  \E D : Runs(Bidir2(len), Vector(len), D)
<1>1. PICK L, D : L = Vector(len) /\ D = Bidir2Moves(L, len)
  OBVIOUS
<1>2. TileShaped(L, len)
  BY <1>1, TilesShaped
<1>3. Orderly(Bidir2(len), L, D, {})
  BY <1>1, <1>2, Bidir2Tidy DEF Tidy
<1>4. TilesServed(L, len, D)
  <2>1. ASSUME NEW t \in 0..(Tiles - 1)
        PROVE  TileMoves(L, "direct", len, t) \subseteq D
    <3>1. CASE t = 0
      BY <1>1, <3>1 DEF Bidir2Moves
    <3>2. CASE t \in 1..(Tiles - 1)
      <4>1. Bidir2Tile(L, len, t) \subseteq D
        BY <1>1, <3>2 DEF Bidir2Moves, All
      <4> QED
        BY <4>1 DEF Bidir2Tile
    <3> QED
      BY <3>1, <3>2, TileCounts
  <2>2. ASSUME NEW t \in 0..(Tiles - 1)
        PROVE  TileMoves(L, "gather", len, t) \subseteq D
    <3>1. CASE t = Tiles - 1
      BY <1>1, <3>1 DEF Bidir2Moves
    <3>2. CASE t + 1 \in 1..(Tiles - 1) /\ (t + 1) - 1 = t
      <4>1. PICK u : u = t + 1 /\ u \in 1..(Tiles - 1) /\ u - 1 = t
        BY <3>2
      <4>2. Bidir2Tile(L, len, u) \subseteq D
        BY <1>1, <4>1 DEF Bidir2Moves, All
      <4> QED
        BY <4>1, <4>2 DEF Bidir2Tile
    <3> QED
      BY <3>1, <3>2, TileCounts
  <2>3. ASSUME NEW d \in D PROVE d.kind # "staged"
    <3>1. \/ \E t : d \in TileMoves(L, "direct", len, t)
          \/ \E t : d \in TileMoves(L, "gather", len, t)
      <4>1. \/ d \in TileMoves(L, "direct", len, 0)
            \/ \E t \in 1..(Tiles - 1) : d \in Bidir2Tile(L, len, t)
            \/ d \in TileMoves(L, "gather", len, Tiles - 1)
        BY <1>1, <2>3 DEF Bidir2Moves, All
      <4> QED
        BY <4>1 DEF Bidir2Tile
    <3> QED
      BY <3>1, TileKinds
  <2> QED
    BY <2>1, <2>2, <2>3 DEF TilesServed
<1>5. Serves(L, D, "stage") /\ Serves(L, D, "stage_b")
  BY <1>1, <1>2, <1>4, TilesServe, VectorFacts
<1> QED
  BY <1>1, <1>3, <1>5 DEF Runs

-----------------------------------------------------------------------------
(* Pieces of work, which do the operations X, each once and in order.      *)
Piece(w, X) == IsSeq(w) /\ Once(w) /\ Fine(w) /\ Does(w) = X
Talk(X) == \A o \in X : o.op # "sum"
SetAfter(X, Y) == \A x \in X, y \in Y : After(x, y)

LEMMA OnePhase ==
  ASSUME NEW P
  PROVE  IsSeq(<<P>>) /\ Len(<<P>>) = 1 /\ <<P>>[1] = P
<1>1. <<P>> \in Seq({P})
  OBVIOUS
<1> QED
  BY <1>1 DEF IsSeq

LEMMA PieceOne ==
  ASSUME NEW P, \A x, y \in P : x = y \/ Apart(x, y)
  PROVE  Piece(<<P>>, P)
<1>1. PICK w : w = <<P>>
  OBVIOUS
<1>2. IsSeq(w) /\ Len(w) = 1 /\ w[1] = P
  BY <1>1, OnePhase
<1>3. \A i \in 1..Len(w) : i = 1
  BY <1>2
<1>4. Does(w) = P
  BY <1>2, <1>3 DEF Does
<1>5. Once(w)
  BY <1>3 DEF Once
<1>6. Fine(w)
  BY <1>2, <1>3 DEF Fine
<1> QED
  BY <1>1, <1>2, <1>4, <1>5, <1>6 DEF Piece

LEMMA PieceNothing == Piece(<<>>, {})
<1>1. IsSeq(<<>>) /\ Len(<<>>) = 0
  <2>1. <<>> \in Seq({}) /\ Len(<<>>) = 0
    OBVIOUS
  <2> QED
    BY <2>1 DEF IsSeq
<1>2. 1..Len(<<>>) = {}
  BY <1>1
<1> QED
  BY <1>1, <1>2 DEF Piece, Once, Fine, Does

LEMMA TalkAfter ==
  ASSUME NEW X, NEW Y, Talk(X) \/ Talk(Y)
  PROVE  SetAfter(X, Y)
BY DEF Talk, SetAfter, After, Clash

LEMMA PrecJoin ==
  ASSUME NEW v, NEW w, IsSeq(v), IsSeq(w), NEW x, NEW y,
         (x \in Does(v) /\ y \in Does(w)) \/ Prec(v, x, y) \/ Prec(w, x, y)
  PROVE  Prec(v \o w, x, y)
<1>1. PICK u, l, m : u = v \o w /\ l = Len(v) /\ m = Len(w)
  OBVIOUS
<1>2. Joins(u, v, w)
  BY <1>1, Joined
<1>3. /\ l \in Nat /\ m \in Nat /\ Len(u) = l + m
      /\ \A i \in 1..l : u[i] = v[i]
      /\ \A i \in 1..m : u[l + i] = w[i]
  BY <1>1, <1>2 DEF Joins
<1>4. CASE x \in Does(v) /\ y \in Does(w)
  <2>1. PICK i \in 1..l, j \in 1..m : x \in v[i] /\ y \in w[j]
    BY <1>1, <1>4 DEF Does
  <2>2. PICK k : k = l + j /\ k \in 1..Len(u) /\ i \in 1..Len(u) /\ i < k
    BY <1>3
  <2>3. x \in u[i] /\ y \in u[k]
    BY <1>3, <2>1, <2>2
  <2> QED
    BY <1>1, <2>2, <2>3 DEF Prec
<1>5. CASE Prec(v, x, y)
  <2>1. PICK i \in 1..l, j \in 1..l : i < j /\ x \in v[i] /\ y \in v[j]
    BY <1>1, <1>5 DEF Prec
  <2>2. i \in 1..Len(u) /\ j \in 1..Len(u)
    BY <1>3
  <2>3. x \in u[i] /\ y \in u[j]
    BY <1>3, <2>1
  <2> QED
    BY <1>1, <2>1, <2>2, <2>3 DEF Prec
<1>6. CASE Prec(w, x, y)
  <2>1. PICK i \in 1..m, j \in 1..m : i < j /\ x \in w[i] /\ y \in w[j]
    BY <1>1, <1>6 DEF Prec
  <2>2. PICK g, h : g = l + i /\ h = l + j /\ g \in 1..Len(u) /\ h \in 1..Len(u) /\ g < h
    BY <1>3, <2>1
  <2>3. x \in u[g] /\ y \in u[h]
    BY <1>3, <2>1, <2>2
  <2> QED
    BY <1>1, <2>2, <2>3 DEF Prec
<1> QED
  BY <1>4, <1>5, <1>6

LEMMA PieceJoin ==
  ASSUME NEW v, NEW w, NEW X, NEW Y, Piece(v, X), Piece(w, Y), X \cap Y = {}, SetAfter(X, Y)
  PROVE  Piece(v \o w, X \cup Y)
<1>1. PICK u, l, m : u = v \o w /\ l = Len(v) /\ m = Len(w)
  OBVIOUS
<1>2. Joins(u, v, w)
  BY <1>1, Joined DEF Piece
<1>3. /\ l \in Nat /\ m \in Nat /\ Len(u) = l + m /\ IsSeq(u)
      /\ \A i \in 1..l : u[i] = v[i]
      /\ \A i \in 1..m : u[l + i] = w[i]
      /\ \A i \in 1..Len(u) : i <= l \/ \E j \in 1..m : i = l + j
  BY <1>1, <1>2 DEF Joins
<1>4. PICK O : O = Sums(v) \cup Sums(w)
  OBVIOUS
<1>5. Suits(v, O, TRUE) /\ Suits(w, O, TRUE) /\ WorksAfter(v, w)
  BY <1>4 DEF Suits, Piece, WorksAfter, SetAfter
<1>6. Suits(u, O, TRUE) /\ Does(u) = X \cup Y
  BY <1>1, <1>5, JoinSuits DEF Piece
<1>7. Once(u)
  <2> SUFFICES ASSUME NEW i \in 1..Len(u), NEW j \in 1..Len(u), NEW o \in u[i], o \in u[j] PROVE i = j
    BY DEF Once
  <2>1. CASE i <= l /\ j <= l
    <3>1. i \in 1..l /\ j \in 1..l /\ o \in v[i] /\ o \in v[j]
      BY <1>3, <2>1
    <3> QED
      BY <1>1, <3>1 DEF Piece, Once
  <2>2. CASE \E a, b \in 1..m : i = l + a /\ j = l + b
    <3>1. PICK a \in 1..m, b \in 1..m : i = l + a /\ j = l + b
      BY <2>2
    <3>2. o \in w[a] /\ o \in w[b]
      BY <1>3, <3>1
    <3>3. a = b
      BY <1>1, <3>2 DEF Piece, Once
    <3> QED
      BY <3>1, <3>3
  <2>3. ASSUME NEW g \in 1..Len(u), NEW h \in 1..Len(u), g <= l, \E b \in 1..m : h = l + b,
               o \in u[g], o \in u[h]
        PROVE  FALSE
    <3>1. PICK b \in 1..m : h = l + b
      BY <2>3
    <3>2. o \in v[g] /\ o \in w[b] /\ g \in 1..l
      BY <1>3, <2>3, <3>1
    <3>3. o \in X /\ o \in Y
      BY <1>1, <3>2 DEF Piece, Does
    <3> QED
      BY <3>3
  <2> QED
    BY <1>3, <2>1, <2>2, <2>3
<1> QED
  BY <1>1, <1>3, <1>6, <1>7 DEF Piece, Suits

LEMMA FlattenTalk ==
  ASSUME NEW m \in Nat, NEW s, s = [i \in 1..m |-> s[i]],
         NEW X, \A i \in 1..m : Piece(s[i], X[i]) /\ Talk(X[i]),
         \A i, j \in 1..m : i < j => X[i] \cap X[j] = {}
  PROVE  Piece(FlattenSeq(s), All(1..m, X))
<1>1. CASE m = 0
  <2>1. All(1..m, X) = {}
    BY <1>1 DEF All
  <2> QED
    BY <1>1, <2>1, FlattenNothing, PieceNothing
<1>2. CASE m # 0
  <2>1. PICK f : Unfolds(f, s, m) /\ FlattenSeq(s) = f[m]
    BY <1>2, FlattenUnfolds
  <2>3. PICK G : G = {i \in 1..m : Piece(f[i], All(1..i, X))}
    OBVIOUS
  <2>4. 1 \in G
    <3>1. 1 \in 1..m
      BY <1>2
    <3>2. All(1..1, X) = X[1]
      BY DEF All
    <3> QED
      BY <2>1, <2>3, <3>1, <3>2 DEF Unfolds
  <2>5. ASSUME NEW i \in 2..m, i - 1 \in G PROVE i \in G
    <3>1. i \in 1..m /\ i - 1 \in 1..m
      OBVIOUS
    <3>2. Piece(f[i - 1], All(1..(i - 1), X)) /\ Piece(s[i], X[i]) /\ Talk(X[i])
      BY <2>3, <2>5, <3>1
    <3>3. \A x : x \in 1..i <=> x = i \/ x \in 1..(i - 1)
      BY <3>1
    <3>4. All(1..i, X) = All(1..(i - 1), X) \cup X[i]
      BY <3>3 DEF All
    <3>5. \A x \in 1..(i - 1) : x \in 1..m /\ x < i
      BY <3>1
    <3>6. All(1..(i - 1), X) \cap X[i] = {}
      BY <3>1, <3>5 DEF All
    <3>7. SetAfter(All(1..(i - 1), X), X[i])
      BY <3>2, TalkAfter
    <3>8. Piece(f[i - 1] \o s[i], All(1..i, X))
      BY <3>2, <3>4, <3>6, <3>7, PieceJoin
    <3>9. f[i] = f[i - 1] \o s[i]
      BY <2>1 DEF Unfolds
    <3> QED
      BY <2>3, <3>1, <3>8, <3>9
  <2>6. m \in G
    BY <1>2, <2>4, <2>5, Climb
  <2> QED
    BY <2>1, <2>3, <2>6
<1> QED
  BY <1>1, <1>2

(* Phases of one word operation each.                                      *)
LEMMA RowTalk ==
  ASSUME NEW m \in Nat, NEW o, \A i \in 1..m : o[i].op # "sum",
         \A i, j \in 1..m : o[i] = o[j] => i = j
  PROVE  Piece([i \in 1..m |-> {o[i]}], {o[i] : i \in 1..m})
<1>1. PICK w : w = [i \in 1..m |-> {o[i]}]
  OBVIOUS
<1>2. w \in Seq({{o[i]} : i \in 1..m}) /\ Len(w) = m
  BY <1>1
<1>3. \A i \in 1..m : w[i] = {o[i]}
  BY <1>1
<1>4. Does(w) = {o[i] : i \in 1..m}
  BY <1>2, <1>3 DEF Does
<1>5. Once(w)
  BY <1>2, <1>3 DEF Once
<1>6. Fine(w)
  <2>1. \A i \in 1..Len(w) : \A x \in w[i] : x.op # "sum"
    BY <1>2, <1>3
  <2> QED
    BY <1>2, <2>1 DEF Fine, IsSeq, After, Apart, Clash
<1> QED
  BY <1>1, <1>2, <1>4, <1>5, <1>6 DEF Piece, IsSeq

-----------------------------------------------------------------------------
(* Signals, and the operations that wait for them.                         *)
Sig(k, v) == [op |-> "signal", word |-> k, val |-> v]
Awt(k, v) == [op |-> "await", word |-> k, val |-> v]
Sigs(K, v) == {Sig(k, v) : k \in K}
Awts(K, v) == {Awt(k, v) : k \in K}

LEMMA SigFields == \A k, v : Sig(k, v).op = "signal" /\ Sig(k, v).word = k /\ Sig(k, v).val = v
BY DEF Sig

LEMMA AwtFields == \A k, v : Awt(k, v).op = "await" /\ Awt(k, v).word = k /\ Awt(k, v).val = v
BY DEF Awt

LEMMA SignalIs ==
  ASSUME NEW k, NEW v
  PROVE  Signal(k, v) = {Sig(k, v)}
BY DEF Sig, Signal

LEMMA AwaitIs ==
  ASSUME NEW k, NEW v
  PROVE  Await(k, v) = {Awt(k, v)}
BY DEF Awt, Await

LEMMA WordTalk ==
  ASSUME NEW K, NEW v
  PROVE  /\ Talk(Sigs(K, v)) /\ Talk(Awts(K, v))
         /\ \A o \in Sigs(K, v) : o.op = "signal" /\ o.word \in K /\ o.val = v /\ o = Sig(o.word, v)
         /\ \A o \in Awts(K, v) : o.op = "await" /\ o.word \in K /\ o.val = v /\ o = Awt(o.word, v)
         /\ \A k \in K : Sig(k, v) \in Sigs(K, v) /\ Awt(k, v) \in Awts(K, v)
<1>1. \A o \in Sigs(K, v) : \E k \in K : o = Sig(k, v)
  BY DEF Sigs
<1>2. \A o \in Awts(K, v) : \E k \in K : o = Awt(k, v)
  BY DEF Awts
<1>3. \A o \in Sigs(K, v) : o.op = "signal" /\ o.word \in K /\ o.val = v /\ o = Sig(o.word, v)
  BY <1>1, SigFields
<1>4. \A o \in Awts(K, v) : o.op = "await" /\ o.word \in K /\ o.val = v /\ o = Awt(o.word, v)
  BY <1>2, AwtFields
<1>5. \A k \in K : Sig(k, v) \in Sigs(K, v) /\ Awt(k, v) \in Awts(K, v)
  BY DEF Sigs, Awts
<1> QED
  BY <1>3, <1>4, <1>5 DEF Talk

LEMMA WordOne ==
  ASSUME NEW k, NEW v
  PROVE  /\ Piece(<<Signal(k, v)>>, Sigs({k}, v))
         /\ Piece(<<Await(k, v)>>, Awts({k}, v))
<1>1. Signal(k, v) = Sigs({k}, v) /\ Await(k, v) = Awts({k}, v)
  <2>1. \A o : o \in Sigs({k}, v) <=> o = Sig(k, v)
    BY DEF Sigs
  <2>2. \A o : o \in Awts({k}, v) <=> o = Awt(k, v)
    BY DEF Awts
  <2>3. Signal(k, v) = Sigs({k}, v)
    BY <2>1, SignalIs
  <2>4. Await(k, v) = Awts({k}, v)
    BY <2>2, AwaitIs
  <2> QED
    BY <2>3, <2>4
<1>2. /\ \A x, y \in Sigs({k}, v) : x = y \/ Apart(x, y)
      /\ \A x, y \in Awts({k}, v) : x = y \/ Apart(x, y)
  BY DEF Sigs, Awts
<1> QED
  BY <1>1, <1>2, PieceOne

(* Phases that signal, or await, one word after the other.                 *)
LEMMA RowWords ==
  ASSUME NEW m \in Nat, NEW k, \A i, j \in 1..m : k[i] = k[j] => i = j, NEW v,
         NEW K, K = {k[i] : i \in 1..m}
  PROVE  /\ Piece([i \in 1..m |-> Signal(k[i], v)], Sigs(K, v))
         /\ Piece([i \in 1..m |-> Await(k[i], v)], Awts(K, v))
<1>1. PICK o, u : o = [i \in 1..m |-> Sig(k[i], v)] /\ u = [i \in 1..m |-> Awt(k[i], v)]
  OBVIOUS
<1>2. /\ \A i \in 1..m : o[i].op # "sum" /\ u[i].op # "sum"
      /\ \A i \in 1..m : o[i].word = k[i] /\ u[i].word = k[i]
  BY <1>1, SigFields, AwtFields
<1>3. /\ \A i, j \in 1..m : o[i] = o[j] => i = j
      /\ \A i, j \in 1..m : u[i] = u[j] => i = j
  BY <1>2
<1>4. /\ Piece([i \in 1..m |-> {o[i]}], {o[i] : i \in 1..m})
      /\ Piece([i \in 1..m |-> {u[i]}], {u[i] : i \in 1..m})
  <2>1. Piece([i \in 1..m |-> {o[i]}], {o[i] : i \in 1..m})
    BY <1>2, <1>3, RowTalk
  <2>2. Piece([i \in 1..m |-> {u[i]}], {u[i] : i \in 1..m})
    BY <1>2, <1>3, RowTalk
  <2> QED
    BY <2>1, <2>2
<1>5. /\ [i \in 1..m |-> {o[i]}] = [i \in 1..m |-> Signal(k[i], v)]
      /\ [i \in 1..m |-> {u[i]}] = [i \in 1..m |-> Await(k[i], v)]
  <2>1. ASSUME NEW i \in 1..m PROVE {o[i]} = Signal(k[i], v) /\ {u[i]} = Await(k[i], v)
    <3>1. o[i] = Sig(k[i], v) /\ u[i] = Awt(k[i], v)
      BY <1>1
    <3> QED
      BY <3>1, SignalIs, AwaitIs
  <2> QED
    BY <2>1
<1>6. {o[i] : i \in 1..m} = Sigs(K, v)
  BY <1>1 DEF Sigs
<1>7. {u[i] : i \in 1..m} = Awts(K, v)
  BY <1>1 DEF Awts
<1> QED
  BY <1>4, <1>5, <1>6, <1>7

(* The words of the barrier: those GPU g sets, and those set for it.       *)
FlagsBy(g) == {Flag(h, g) : h \in Ranks}
FlagsFor(g) == {Flag(g, h) : h \in Ranks}

LEMMA BarrierPiece ==
  ASSUME GroupAssumption, NEW g \in Ranks, NEW v
  PROVE  /\ Piece(XgpuBarrier(g, v), Sigs(FlagsBy(g), v) \cup Awts(FlagsFor(g), v))
         /\ Talk(Sigs(FlagsBy(g), v) \cup Awts(FlagsFor(g), v))
         /\ \A x \in Sigs(FlagsBy(g), v), y \in Awts(FlagsFor(g), v) : Prec(XgpuBarrier(g, v), x, y)
<1>1. PICK k, l : k = [i \in 1..r |-> Flag(i - 1, g)] /\ l = [i \in 1..r |-> Flag(g, i - 1)]
  OBVIOUS
<1>2. r \in Nat
  BY DEF GroupAssumption
<1>3. /\ \A i, j \in 1..r : k[i] = k[j] => i = j
      /\ \A i, j \in 1..r : l[i] = l[j] => i = j
  <2>1. \A i, j \in 1..r : i - 1 = j - 1 => i = j
    BY <1>2
  <2> QED
    BY <1>1, <2>1 DEF Flag
<1>4. FlagsBy(g) = {k[i] : i \in 1..r} /\ FlagsFor(g) = {l[i] : i \in 1..r}
  <2>1. /\ \A i \in 1..r : i - 1 \in Ranks
        /\ \A h \in Ranks : \E i \in 1..r : i - 1 = h
    BY RankIndex, <1>2 DEF Ranks
  <2>2. FlagsBy(g) = {k[i] : i \in 1..r}
    BY <1>1, <2>1 DEF FlagsBy
  <2>3. FlagsFor(g) = {l[i] : i \in 1..r}
    BY <1>1, <2>1 DEF FlagsFor
  <2> QED
    BY <2>2, <2>3
<1>5. PICK p, q, X, Y : /\ p = [i \in 1..r |-> Signal(k[i], v)] /\ q = [i \in 1..r |-> Await(l[i], v)]
                        /\ X = Sigs(FlagsBy(g), v) /\ Y = Awts(FlagsFor(g), v)
  OBVIOUS
<1>6. Piece(p, X) /\ Piece(q, Y)
  BY <1>2, <1>3, <1>4, <1>5, RowWords
<1>7. Talk(X) /\ Talk(Y) /\ X \cap Y = {}
  BY <1>5, WordTalk
<1>8. XgpuBarrier(g, v) = p \o q
  BY <1>1, <1>5 DEF XgpuBarrier
<1>9. Piece(p \o q, X \cup Y)
  BY <1>6, <1>7, TalkAfter, PieceJoin
<1>10. \A x \in X, y \in Y : Prec(p \o q, x, y)
  BY <1>6, PrecJoin DEF Piece
<1> QED
  BY <1>5, <1>7, <1>8, <1>9, <1>10 DEF Talk

-----------------------------------------------------------------------------
(* Chains of signals: y of b comes after x of a.                           *)
Passes(S, J, a, x, b, y) == \A M : ClosedIn(S, J, M) /\ <<a, x>> \in M => <<b, y>> \in M

LEMMA PassOn ==
  ASSUME NEW S, NEW J, NEW a \in S, NEW b \in S, NEW x \in Does(J[a]), NEW y \in Does(J[b]),
         Leads(J, a, x, b, y)
  PROVE  Passes(S, J, a, x, b, y)
BY DEF Passes, ClosedIn

LEMMA PassAll ==
  ASSUME NEW S, NEW J, NEW a, NEW x, NEW b, NEW y, NEW c, NEW z,
         Passes(S, J, a, x, b, y), Passes(S, J, b, y, c, z)
  PROVE  Passes(S, J, a, x, c, z)
BY DEF Passes

LEMMA PassBehind ==
  ASSUME NEW S, NEW J, NEW a, NEW x, NEW b, NEW y, NEW z \in Does(J[b]),
         Passes(S, J, a, x, b, z), Prec(J[b], z, y)
  PROVE  Behind(S, J, a, x, b, y)
BY DEF Passes, Behind

(* Through a word that a signals and b awaits.                             *)
LEMMA PassWord ==
  ASSUME NEW S, NEW J, NEW a \in S, NEW b \in S, NEW x \in Does(J[a]), NEW k, NEW v,
         Sig(k, v) \in Does(J[a]), Awt(k, v) \in Does(J[b]), Prec(J[a], x, Sig(k, v))
  PROVE  Passes(S, J, a, x, b, Awt(k, v))
<1>1. Leads(J, a, x, a, Sig(k, v))
  BY DEF Leads
<1>2. Leads(J, a, Sig(k, v), b, Awt(k, v))
  BY SigFields, AwtFields DEF Leads
<1> QED
  BY <1>1, <1>2, PassOn, PassAll

-----------------------------------------------------------------------------
(* Phases of moves as pieces.                                              *)
Fairly(L, kind, k, X) ==
  /\ Laid(L) /\ kind \in MoveKinds /\ k \in Kinds /\ Bounded(L, k, X)
  /\ \A x, y \in X : x = y \/ Asunder(kind, x, y)

LEMMA SpreadPiece ==
  ASSUME GroupAssumption, r >= 2, NEW L, NEW kind, NEW k, NEW X, Fairly(L, kind, k, X)
  PROVE  /\ Piece(<<Moved(L, Spread(L, kind, k, X))>>, Moved(L, Spread(L, kind, k, X)))
         /\ AreMoves(L, Spread(L, kind, k, X))
<1>1. PICK P : P = Moved(L, Spread(L, kind, k, X))
  OBVIOUS
<1>2. Job(<<P>>, L, Spread(L, kind, k, X), FALSE)
  BY <1>1, SpreadJob DEF Fairly
<1>3. AreMoves(L, Spread(L, kind, k, X)) /\ Fine(<<P>>)
  BY <1>2 DEF Job
<1>4. Len(<<P>>) = 1 /\ <<P>>[1] = P
  BY OnePhase
<1>5. \A x, y \in P : x = y \/ Apart(x, y)
  BY <1>3, <1>4 DEF Fine
<1> QED
  BY <1>1, <1>3, <1>5, PieceOne

(* Moves of a lower level come first, and are other operations.            *)
LEMMA LowerFirst ==
  ASSUME GroupAssumption, r >= 2, NEW L, Laid(L), NEW D, AreMoves(L, D), NEW E, AreMoves(L, E),
         \A d \in D, e \in E : Lvl(d) < Lvl(e)
  PROVE  Moved(L, D) \cap Moved(L, E) = {} /\ SetAfter(Moved(L, D), Moved(L, E))
<1>1. ASSUME NEW d \in D, NEW e \in E PROVE Op(L, d) # Op(L, e) /\ After(Op(L, d), Op(L, e))
  <2>1. IsMove(L, d) /\ IsMove(L, e)
    BY DEF AreMoves
  <2>2. Level(Op(L, d)) = Lvl(d) /\ Level(Op(L, e)) = Lvl(e)
    BY <2>1, LevelOfMove
  <2>3. Lvl(d) \in {0, 1, 2} /\ Lvl(e) \in {0, 1, 2}
    BY DEF Lvl
  <2> QED
    BY <2>2, <2>3 DEF After
<1> QED
  BY <1>1 DEF Moved, SetAfter

(* Operations on words are no moves.                                       *)
LEMMA MovesNoTalk ==
  ASSUME NEW L, NEW D, NEW X, Talk(X)
  PROVE  Moved(L, D) \cap X = {} /\ \A x \in Moved(L, D) : x.op = "sum"
<1>1. \A x \in Moved(L, D) : x.op = "sum"
  BY OpPlaces DEF Moved
<1> QED
  BY <1>1 DEF Talk

(* Agents whose moves are in order, or kept so by what they signal.        *)
Waited(S, J, L, a, d, b, e) ==
  MovesAfter(d, e) \/ Behind(S, J, b, Op(L, e), a, Op(L, d))
Signals(J, a, W, v) == \A x \in Does(J[a]) : x.op = "signal" => x.word \in W[a] /\ x = Sig(x.word, v)

LinkedBy(S, J, L, D, W, v) ==
  /\ \A a \in S : /\ IsSeq(J[a]) /\ Once(J[a]) /\ AreMoves(L, D[a]) /\ Sums(J[a]) = Moved(L, D[a])
                  /\ Signals(J, a, W, v)
  /\ \A a, b \in S : a # b => W[a] \cap W[b] = {}
  /\ \A a, b \in S : a # b => \A d \in D[a], e \in D[b] : Waited(S, J, L, a, d, b, e)

LEMMA LinkedIs ==
  ASSUME GroupAssumption, r >= 2, NEW L, Laid(L), NEW S, NEW J, NEW D, NEW W, NEW v,
         LinkedBy(S, J, L, D, W, v)
  PROVE  Linked(S, J)
<1>1. \A a \in S : IsSeq(J[a]) /\ Once(J[a])
  BY DEF LinkedBy
<1>2. ASSUME NEW a \in S, NEW b \in S, NEW x \in Does(J[a]), NEW y \in Does(J[b]),
             x.op = "signal", y.op = "signal", x.word = y.word
      PROVE  a = b /\ x = y
  <2>1. x.word \in W[a] /\ x = Sig(x.word, v) /\ y.word \in W[b] /\ y = Sig(y.word, v)
    BY <1>2 DEF LinkedBy, Signals
  <2>2. a = b
    BY <1>2, <2>1 DEF LinkedBy
  <2> QED
    BY <1>2, <2>1, <2>2
<1>3. ASSUME NEW a \in S, NEW b \in S, a # b, NEW x \in Does(J[a]), NEW y \in Does(J[b])
      PROVE  After(x, y) \/ Behind(S, J, b, y, a, x)
  <2>1. CASE x.op # "sum" \/ y.op # "sum"
    BY <2>1 DEF After, Clash
  <2>2. CASE x.op = "sum" /\ y.op = "sum"
    <3>1. x \in Moved(L, D[a]) /\ y \in Moved(L, D[b])
      BY <2>2 DEF LinkedBy, Sums
    <3>2. PICK d \in D[a], e \in D[b] : x = Op(L, d) /\ y = Op(L, e)
      BY <3>1 DEF Moved
    <3>3. Waited(S, J, L, a, d, b, e) /\ IsMove(L, d) /\ IsMove(L, e)
      BY <1>3 DEF LinkedBy, AreMoves
    <3>4. MovesAfter(d, e) => After(x, y)
      BY <3>2, <3>3, AfterMoves
    <3> QED
      BY <3>2, <3>3, <3>4 DEF Waited
  <2> QED
    BY <2>1, <2>2
<1> QED
  BY <1>1, <1>2, <1>3 DEF Linked

-----------------------------------------------------------------------------
(* The one-kernel scheme.                                                  *)
PushAllBy(len) == [g \in Ranks |-> {Atom(p, g, len) : p \in Ranks}]

LEMMA PushAllShares ==
  ASSUME GroupAssumption, NEW L, NEW k, NEW base, NEW len, PartOf(L, k, base, len)
  PROVE  Parted(L, "gather", k, Ranks, PushAllBy(len))
<1>1. \A a \in Ranks : \A x \in PushAllBy(len)[a] :
        x[2] = a /\ \E p \in Ranks : x = Atom(p, a, len) /\ x[1] = p
  BY AtomFields DEF PushAllBy
<1> QED
  BY <1>1, AtomShares

LEMMA PushAllKernel ==
  ASSUME GroupAssumption, NEW L, NEW len, PartOf(L, "stage", 0, len), NEW g \in Ranks
  PROVE  P2pBroadcast(Buf(g, g * Clv(len)), {Buf(p, g * Clv(len)) : p \in Ranks}, Len4(g, len))
           = Made(L, "gather", "stage", PushAllBy(len)[g])
<1>1. PICK at, m : at = g * Clv(len) /\ m = Len4(g, len)
  OBVIOUS
<1>0. \A c \in Ranks : 0 + c * Clv(len) = c * Clv(len)
  BY SharePlaces
<1>2. \A h, c \in Ranks :
        /\ Copy(Buf(h, c * Clv(len)), StageOf("stage", c, h * Clv(len)), Len4(c, len))
             = Moved(L, Spread(L, "scatter", "stage", {Atom(h, c, len)}))
        /\ Copy(Buf(c, c * Clv(len)), Buf(h, c * Clv(len)), Len4(c, len))
             = Moved(L, Spread(L, "gather", "stage", {Atom(h, c, len)}))
  BY <1>0, ShareKernels
<1>3. ASSUME NEW p \in Ranks
      PROVE  Copy(Buf(g, at), Buf(p, at), m) = Moved(L, Spread(L, "gather", "stage", {Atom(p, g, len)}))
  BY <1>1, <1>2
<1>4. PICK C, f, d, U, X :
        /\ C = [p \in Ranks |-> Copy(Buf(g, at), Buf(p, at), m)]
        /\ f = [p \in Ranks |-> Atom(p, g, len)]
        /\ d = {Buf(p, at) : p \in Ranks}
        /\ U = UNION {Copy(Buf(g, at), x, m) : x \in d}
        /\ X = {Atom(p, g, len) : p \in Ranks}
  OBVIOUS
<1>5. EachMoves(L, "gather", "stage", Ranks, C, f)
  BY <1>3, <1>4 DEF EachMoves
<1>6. Collects(Ranks, C, U) /\ Lists(Ranks, f, X)
  BY <1>4 DEF Collects, Lists
<1>7. U = Moved(L, Spread(L, "gather", "stage", X))
  BY <1>5, <1>6, PhaseOf
<1>8. P2pBroadcast(Buf(g, at), d, m) = <<U>>
  BY <1>4 DEF P2pBroadcast
<1>9. PushAllBy(len)[g] = X
  BY <1>4 DEF PushAllBy
<1> QED
  BY <1>1, <1>4, <1>7, <1>8, <1>9 DEF Made

OneMoves(L, len, g) ==
  (Spread(L, "scatter", "stage", ScatterBy(len)[g]) \cup Spread(L, "staged", "stage", OwnBy(len)[g]))
    \cup Spread(L, "gather", "stage", PushAllBy(len)[g])

(* What GPU g moves, signals and awaits.                                   *)
OneJob(w, L, D, g, v) ==
  /\ IsSeq(w) /\ Once(w) /\ Fine(w) /\ AreMoves(L, D) /\ Sums(w) = Moved(L, D)
  /\ \A x \in Does(w) : x.op = "signal" => x.word \in FlagsBy(g) /\ x = Sig(x.word, v)
  /\ \A h \in Ranks : Sig(Flag(h, g), v) \in Does(w) /\ Awt(Flag(g, h), v) \in Does(w)
  /\ \A d \in D : d.kind = "scatter" =>
       d.p = g /\ \A h \in Ranks : Prec(w, Op(L, d), Sig(Flag(h, g), v))
  /\ \A d \in D : d.kind # "scatter" =>
       d.c = g /\ \A h \in Ranks : Prec(w, Awt(Flag(g, h), v), Op(L, d))

OneParts(L, len, g, w, B, D0, D1, D2, v) ==
  /\ w = ((<<Moved(L, D0)>> \o B) \o <<Moved(L, D1)>>) \o <<Moved(L, D2)>>
  /\ B = XgpuBarrier(g, v)
  /\ D0 = Spread(L, "scatter", "stage", ScatterBy(len)[g])
  /\ D1 = Spread(L, "staged", "stage", OwnBy(len)[g])
  /\ D2 = Spread(L, "gather", "stage", PushAllBy(len)[g])

LEMMA OneshotIs ==
  ASSUME GroupAssumption, NEW L, NEW len, PartOf(L, "stage", 0, len), NEW g \in Ranks, NEW v
  PROVE  \E B, D0, D1, D2 : OneParts(L, len, g, AllreduceOneshot(g, len, v), B, D0, D1, D2, v)
<1>1. PICK B, D0, D1, D2 :
        /\ B = XgpuBarrier(g, v)
        /\ D0 = Spread(L, "scatter", "stage", ScatterBy(len)[g])
        /\ D1 = Spread(L, "staged", "stage", OwnBy(len)[g])
        /\ D2 = Spread(L, "gather", "stage", PushAllBy(len)[g])
  OBVIOUS
<1>2. ScatterToStaging(g, len) = <<Moved(L, D0)>>
  BY <1>1, WholeKernels DEF Made
<1>3. GatherReduceLocal(Stage(g, 0), Buf(g, g * Clv(len)), Clv(len), Len4(g, len)) = <<Moved(L, D1)>>
  <2>1. 0 + g * Clv(len) = g * Clv(len)
    BY SharePlaces
  <2>2. GatherReduceLocal(StageOf("stage", g, 0), Buf(g, 0 + g * Clv(len)), Clv(len), Len4(g, len))
          = Made(L, "staged", "stage", OwnBy(len)[g])
    BY ShareKernels
  <2> QED
    BY <1>1, <2>1, <2>2 DEF Made, Stage
<1>4. P2pBroadcast(Buf(g, g * Clv(len)), {Buf(p, g * Clv(len)) : p \in Ranks}, Len4(g, len))
        = <<Moved(L, D2)>>
  BY <1>1, PushAllKernel DEF Made
<1>5. AllreduceOneshot(g, len, v)
        = ((<<Moved(L, D0)>> \o B) \o <<Moved(L, D1)>>) \o <<Moved(L, D2)>>
  BY <1>1, <1>2, <1>3, <1>4 DEF AllreduceOneshot
<1> QED
  BY <1>1, <1>5 DEF OneParts

LEMMA OneJobOf ==
  ASSUME GroupAssumption, r >= 2, NEW L, Laid(L), NEW len, PartOf(L, "stage", 0, len),
         NEW g \in Ranks, NEW v
  PROVE  OneJob(AllreduceOneshot(g, len, v), L, OneMoves(L, len, g), g, v)
<1>1. PICK w : w = AllreduceOneshot(g, len, v)
  OBVIOUS
<1>2. PICK B, D0, D1, D2 : OneParts(L, len, g, w, B, D0, D1, D2, v)
  BY <1>1, OneshotIs
<1>3. /\ Parted(L, "scatter", "stage", Ranks, ScatterBy(len))
      /\ Parted(L, "staged", "stage", Ranks, OwnBy(len))
      /\ Parted(L, "gather", "stage", Ranks, PushAllBy(len))
  BY RankShares, PushAllShares
<1>4. /\ Fairly(L, "scatter", "stage", ScatterBy(len)[g])
      /\ Fairly(L, "staged", "stage", OwnBy(len)[g])
      /\ Fairly(L, "gather", "stage", PushAllBy(len)[g])
  BY <1>3 DEF Fairly, Parted, MoveKinds, Kinds
<1>5. PICK M0, M1, M2 : M0 = Moved(L, D0) /\ M1 = Moved(L, D1) /\ M2 = Moved(L, D2)
  OBVIOUS
<1>6. /\ Piece(<<M0>>, M0) /\ AreMoves(L, D0)
      /\ Piece(<<M1>>, M1) /\ AreMoves(L, D1)
      /\ Piece(<<M2>>, M2) /\ AreMoves(L, D2)
  BY <1>2, <1>4, <1>5, SpreadPiece DEF OneParts
<1>7. PICK X, Y, Z : X = Sigs(FlagsBy(g), v) /\ Y = Awts(FlagsFor(g), v) /\ Z = X \cup Y
  OBVIOUS
<1>8. Piece(B, Z) /\ Talk(Z) /\ \A x \in X, y \in Y : Prec(B, x, y)
  BY <1>2, <1>7, BarrierPiece DEF OneParts
<1>9. /\ \A d \in D0 : Lvl(d) = 0 /\ d.kind = "scatter" /\ d.p = g
      /\ \A d \in D1 : Lvl(d) = 1 /\ d.kind # "scatter" /\ d.c = g
      /\ \A d \in D2 : Lvl(d) = 2 /\ d.kind # "scatter" /\ d.c = g
  <2>1. /\ \A x \in ScatterBy(len)[g] : x[1] = g
        /\ \A x \in OwnBy(len)[g] : x[2] = g
        /\ \A x \in PushAllBy(len)[g] : x[2] = g
    BY AtomFields DEF ScatterBy, OwnBy, PushAllBy
  <2>2. \A d \in D0 : Lvl(d) = 0 /\ d.kind = "scatter" /\ d.p = g
    BY <1>2, <2>1, MvFields DEF OneParts, Spread, KindLvl
  <2>3. \A d \in D1 : Lvl(d) = 1 /\ d.kind # "scatter" /\ d.c = g
    BY <1>2, <2>1, MvFields DEF OneParts, Spread, KindLvl
  <2>4. \A d \in D2 : Lvl(d) = 2 /\ d.kind # "scatter" /\ d.c = g
    BY <1>2, <2>1, MvFields DEF OneParts, Spread, KindLvl
  <2> QED
    BY <2>2, <2>3, <2>4
<1>10. /\ M0 \cap M1 = {} /\ SetAfter(M0, M1)
       /\ M0 \cap M2 = {} /\ SetAfter(M0, M2)
       /\ M1 \cap M2 = {} /\ SetAfter(M1, M2)
  BY <1>5, <1>6, <1>9, LowerFirst
<1>11. M0 \cap Z = {} /\ M1 \cap Z = {} /\ M2 \cap Z = {}
  BY <1>5, <1>8, MovesNoTalk
<1>12. SetAfter(M0, Z) /\ SetAfter(Z, M1) /\ SetAfter(Z, M2)
  BY <1>8, TalkAfter
<1>13. PICK w1, w2 : w1 = <<M0>> \o B /\ w2 = w1 \o <<M1>>
  OBVIOUS
<1>14. Piece(w1, M0 \cup Z)
  BY <1>6, <1>8, <1>11, <1>12, <1>13, PieceJoin
<1>15. Piece(w2, (M0 \cup Z) \cup M1)
  <2>1. (M0 \cup Z) \cap M1 = {} /\ SetAfter(M0 \cup Z, M1)
    BY <1>10, <1>11, <1>12 DEF SetAfter
  <2> QED
    BY <1>6, <1>13, <1>14, <2>1, PieceJoin
<1>16. w = w2 \o <<M2>>
  BY <1>2, <1>5, <1>13 DEF OneParts
<1>17. Piece(w, ((M0 \cup Z) \cup M1) \cup M2)
  <2>1. ((M0 \cup Z) \cup M1) \cap M2 = {} /\ SetAfter((M0 \cup Z) \cup M1, M2)
    BY <1>10, <1>11, <1>12 DEF SetAfter
  <2> QED
    BY <1>6, <1>15, <1>16, <2>1, PieceJoin
<1>18. PICK D : D = OneMoves(L, len, g) /\ D = (D0 \cup D1) \cup D2
  BY <1>2 DEF OneMoves, OneParts
<1>19. AreMoves(L, D) /\ Moved(L, D) = (M0 \cup M1) \cup M2
  BY <1>5, <1>6, <1>18 DEF AreMoves, Moved
<1>20. Sums(w) = Moved(L, D)
  <2>1. \A x \in (M0 \cup M1) \cup M2 : x.op = "sum"
    BY <1>19, OpPlaces DEF Moved
  <2>2. \A x \in Z : x.op # "sum"
    BY <1>8 DEF Talk
  <2> QED
    BY <1>17, <1>19, <2>1, <2>2 DEF Sums, Piece
<1>21. \A x \in Does(w) : x.op = "signal" => x.word \in FlagsBy(g) /\ x = Sig(x.word, v)
  <2>1. \A x \in (M0 \cup M1) \cup M2 : x.op = "sum"
    BY <1>19, OpPlaces DEF Moved
  <2> QED
    BY <1>7, <1>17, <2>1, WordTalk DEF Piece
<1>22. ASSUME NEW h \in Ranks
       PROVE  Sig(Flag(h, g), v) \in X /\ Awt(Flag(g, h), v) \in Y
  <2>1. Flag(h, g) \in FlagsBy(g) /\ Flag(g, h) \in FlagsFor(g)
    BY DEF FlagsBy, FlagsFor
  <2> QED
    BY <1>7, <2>1, WordTalk
<1>23. ASSUME NEW x, NEW y, Prec(w1, x, y) PROVE Prec(w, x, y)
  BY <1>6, <1>13, <1>14, <1>15, <1>16, <1>23, PrecJoin DEF Piece
<1>24. \A x \in M0, y \in X : Prec(w, x, y)
  <2>1. \A x \in M0, y \in X : Prec(w1, x, y)
    BY <1>6, <1>7, <1>8, <1>13, PrecJoin DEF Piece
  <2> QED
    BY <1>23, <2>1
<1>25. \A x \in Y, y \in M1 \cup M2 : Prec(w, x, y)
  <2>1. \A x \in Y, y \in M1 : Prec(w2, x, y)
    BY <1>6, <1>7, <1>13, <1>14, PrecJoin DEF Piece
  <2>2. \A x \in Y, y \in M1 : Prec(w, x, y)
    BY <1>6, <1>15, <1>16, <2>1, PrecJoin DEF Piece
  <2>3. \A x \in Y, y \in M2 : Prec(w, x, y)
    BY <1>6, <1>7, <1>15, <1>16, PrecJoin DEF Piece
  <2> QED
    BY <2>2, <2>3
<1>26. ASSUME NEW d \in D
       PROVE  \/ d.kind = "scatter" /\ d.p = g /\ Op(L, d) \in M0
              \/ d.kind # "scatter" /\ d.c = g /\ Op(L, d) \in M1 \cup M2
  BY <1>5, <1>9, <1>18 DEF Moved
<1>27. \A h \in Ranks : Sig(Flag(h, g), v) \in Does(w) /\ Awt(Flag(g, h), v) \in Does(w)
  BY <1>7, <1>17, <1>22 DEF Piece
<1>28. IsSeq(w) /\ Once(w) /\ Fine(w)
  BY <1>17 DEF Piece
<1>29. OneJob(w, L, D, g, v)
  BY <1>19, <1>20, <1>21, <1>22, <1>24, <1>25, <1>26, <1>27, <1>28 DEF OneJob
<1> QED
  BY <1>1, <1>18, <1>29

-----------------------------------------------------------------------------
(* The compute queues of all GPUs, each with the job of its GPU.           *)
TeamJobs(S, J, D, W, L, v) ==
  /\ \A a \in S : a[2] \in Ranks /\ W[a] = FlagsBy(a[2]) /\ OneJob(J[a], L, D[a], a[2], v)
  /\ \A a, b \in S : a[2] = b[2] => a = b

LEMMA FlagsApart == \A g, h : g # h => FlagsBy(g) \cap FlagsBy(h) = {}
<1> SUFFICES ASSUME NEW g, NEW h, g # h, NEW x \in Ranks, NEW y \in Ranks, Flag(x, g) = Flag(y, h)
             PROVE  FALSE
  BY DEF FlagsBy
<1>1. Flag(x, g)[3] = g /\ Flag(y, h)[3] = h
  BY DEF Flag
<1> QED
  BY <1>1

(* A move of another GPU on the same range: the barrier is between them.   *)
LEMMA BarrierBetween ==
  ASSUME GroupAssumption, r >= 2, NEW L, Laid(L), NEW S, NEW J, NEW D, NEW W, NEW v,
         TeamJobs(S, J, D, W, L, v), NEW a \in S, NEW b \in S, a # b,
         NEW d \in D[a], NEW e \in D[b]
  PROVE  Waited(S, J, L, a, d, b, e)
<1>1. PICK g, h : g = a[2] /\ h = b[2]
  OBVIOUS
<1>2. g \in Ranks /\ h \in Ranks /\ g # h
  BY <1>1 DEF TeamJobs
<1>3. OneJob(J[a], L, D[a], g, v) /\ OneJob(J[b], L, D[b], h, v)
  BY <1>1 DEF TeamJobs
<1>4. IsMove(L, d) /\ IsMove(L, e)
  BY <1>3 DEF OneJob, AreMoves
<1>5. SUFFICES ASSUME ~MovesAfter(d, e) PROVE Behind(S, J, b, Op(L, e), a, Op(L, d))
  BY DEF Waited
<1>6. Meet(d, e)
  BY <1>5 DEF MovesAfter, MovesApart
<1>7. d.c = e.c
  BY <1>4, <1>6, SameShare
<1>8. ~(Lvl(d) < Lvl(e))
  BY <1>5 DEF MovesAfter
<1>9. e.kind = "scatter"
  <2>1. SUFFICES ASSUME e.kind # "scatter" PROVE FALSE
    OBVIOUS
  <2>2. e.c = h
    BY <1>3, <2>1 DEF OneJob
  <2>3. d.kind # "scatter"
    BY <1>8, <2>1 DEF Lvl
  <2>4. d.c = g
    BY <1>3, <2>3 DEF OneJob
  <2> QED
    BY <1>2, <1>7, <2>2, <2>4
<1>10. e.p = h
  BY <1>3, <1>9 DEF OneJob
<1>11. d.kind # "scatter"
  <2>1. SUFFICES ASSUME d.kind = "scatter" PROVE FALSE
    OBVIOUS
  <2>2. d.p = g
    BY <1>3, <2>1 DEF OneJob
  <2>3. Lvl(d) = Lvl(e)
    BY <1>9, <2>1 DEF Lvl
  <2>4. MovesApart(d, e)
    BY <1>2, <1>10, <2>1, <2>2, <2>3 DEF MovesApart
  <2> QED
    BY <1>5, <2>4 DEF MovesAfter
<1>12. Prec(J[b], Op(L, e), Sig(Flag(g, h), v))
  BY <1>2, <1>3, <1>9 DEF OneJob
<1>13. Sig(Flag(g, h), v) \in Does(J[b]) /\ Awt(Flag(g, h), v) \in Does(J[a])
  BY <1>2, <1>3 DEF OneJob
<1>14. Prec(J[a], Awt(Flag(g, h), v), Op(L, d))
  BY <1>2, <1>3, <1>11 DEF OneJob
<1>15. Op(L, e) \in Does(J[b])
  BY <1>3 DEF OneJob, Sums, Moved
<1>16. Passes(S, J, b, Op(L, e), a, Awt(Flag(g, h), v))
  BY <1>12, <1>13, <1>15, PassWord
<1> QED
  BY <1>13, <1>14, <1>16, PassBehind

LEMMA TeamLinked ==
  ASSUME GroupAssumption, r >= 2, NEW L, Laid(L), NEW S, NEW J, NEW D, NEW W, NEW v,
         TeamJobs(S, J, D, W, L, v)
  PROVE  Linked(S, J)
<1>1. \A a \in S : /\ IsSeq(J[a]) /\ Once(J[a]) /\ AreMoves(L, D[a]) /\ Sums(J[a]) = Moved(L, D[a])
                   /\ Signals(J, a, W, v)
  <2> SUFFICES ASSUME NEW a \in S
               PROVE  /\ IsSeq(J[a]) /\ Once(J[a]) /\ AreMoves(L, D[a]) /\ Sums(J[a]) = Moved(L, D[a])
                      /\ Signals(J, a, W, v)
    OBVIOUS
  <2>1. OneJob(J[a], L, D[a], a[2], v) /\ W[a] = FlagsBy(a[2])
    BY DEF TeamJobs
  <2> QED
    BY <2>1 DEF OneJob, Signals
<1>2. \A a, b \in S : a # b => W[a] \cap W[b] = {}
  <2> SUFFICES ASSUME NEW a \in S, NEW b \in S, a # b PROVE W[a] \cap W[b] = {}
    OBVIOUS
  <2>1. W[a] = FlagsBy(a[2]) /\ W[b] = FlagsBy(b[2]) /\ a[2] # b[2]
    BY DEF TeamJobs
  <2> QED
    BY <2>1, FlagsApart
<1>3. \A a, b \in S : a # b => \A d \in D[a], e \in D[b] : Waited(S, J, L, a, d, b, e)
  BY BarrierBetween
<1>4. LinkedBy(S, J, L, D, W, v)
  BY <1>1, <1>2, <1>3 DEF LinkedBy
<1> QED
  BY <1>4, LinkedIs

-----------------------------------------------------------------------------
(* Agents that are armed once, by a block, in a program that goes on       *)
(* without arming them.                                                    *)
Spares(q, S) == \A i \in 1..Len(q) : q[i].do = "arm" => q[i].agent \notin S

LEMMA HandsPlan ==
  ASSUME NEW p, NEW S, NEW J, Hands(p, S, J), NEW q, IsSeq(q), Spares(q, S)
  PROVE  ArmedOnce(S, J, p \o q) /\ \A a \in S : ToCome(p \o q, a)
<1>1. PICK u : u = p \o q
  OBVIOUS
<1>2. IsSeq(p)
  BY HandsSeq
<1>3. Joins(u, p, q)
  BY <1>1, <1>2, Joined
<1>4. PICK l, m : l = Len(p) /\ m = Len(q)
  OBVIOUS
<1>5. /\ l \in Nat /\ m \in Nat /\ Len(u) = l + m
      /\ \A i \in 1..l : u[i] = p[i]
      /\ \A i \in 1..m : u[l + i] = q[i]
      /\ \A i \in 1..Len(u) : i <= l \/ \E j \in 1..m : i = l + j
  BY <1>3, <1>4 DEF Joins
<1>6. \A i \in 1..l : i \in 1..Len(u)
  BY <1>5
<1>7. /\ \A i \in 1..l : p[i].do = "arm" /\ p[i].agent \in S /\ p[i].work = J[p[i].agent]
      /\ \A i, j \in 1..l : p[i].agent = p[j].agent => i = j
      /\ \A a \in S : \E i \in 1..l : p[i].agent = a
  BY <1>4 DEF Hands
<1>8. \A i \in 1..Len(u) : u[i].do = "arm" /\ u[i].agent \in S => i \in 1..l /\ u[i] = p[i]
  <2> SUFFICES ASSUME NEW i \in 1..Len(u), u[i].do = "arm", u[i].agent \in S
               PROVE  i \in 1..l /\ u[i] = p[i]
    OBVIOUS
  <2>1. ASSUME NEW j \in 1..m, i = l + j PROVE FALSE
    BY <1>4, <1>5, <2>1 DEF Spares
  <2> QED
    BY <1>5, <2>1
<1>9. ArmedOnce(S, J, u)
  BY <1>7, <1>8 DEF ArmedOnce
<1>10. \A a \in S : ToCome(u, a)
  BY <1>5, <1>6, <1>7 DEF ToCome
<1> QED
  BY <1>1, <1>9, <1>10

LEMMA SparesWaits ==
  ASSUME NEW q, NEW A, WaitBlock(q, A), NEW S
  PROVE  Spares(q, S)
BY DEF WaitBlock, Spares

LEMMA SparesJoin ==
  ASSUME NEW p, NEW q, IsSeq(p), IsSeq(q), NEW S, Spares(p, S), Spares(q, S)
  PROVE  Spares(p \o q, S)
<1>1. PICK u : u = p \o q
  OBVIOUS
<1>2. Joins(u, p, q)
  BY <1>1, Joined
<1> QED
  BY <1>1, <1>2 DEF Joins, Spares

-----------------------------------------------------------------------------
(* A program that can be called: it keeps the order, by its waits and by   *)
(* its signals, and serves all of the vector.                              *)
Planned(p, L, v) ==
  \E D, S, J : /\ Plan(p, L, D, S, J, v)
               /\ Serves(L, D, "stage") /\ Serves(L, D, "stage_b")

LEMMA RunsPlanned ==
  ASSUME NEW p, NEW L, \E D : Runs(p, L, D), NEW v
  PROVE  Planned(p, L, v)
<1>1. PICK D : Runs(p, L, D)
  OBVIOUS
<1>2. Plan(p, L, D, {}, <<>>, v)
  BY <1>1, PlanAlone DEF Runs
<1> QED
  BY <1>1, <1>2 DEF Runs, Planned

(* The one-kernel scheme, over the part "stage" of the vector.             *)
Calling(S, J, v) ==
  \A a \in S : \A x \in Does(J[a]) : x.op = "signal" => x.word \in Words(r) /\ x.val = v

OneArmed(p, L, E, S, J, v) ==
  /\ S = Queues("cu", Ranks) /\ Hands(p, S, J) /\ Linked(S, J) /\ Orderly(p, L, E, S)
  /\ Calling(S, J, v) /\ \A d \in E : d.k = "stage"
  /\ \A D : E \subseteq D => Serves(L, D, "stage")

OneTeam(S, J, D, W, L, len, v) ==
  /\ S = Queues("cu", Ranks)
  /\ J = [a \in S |-> AllreduceOneshot(a[2], len, v)]
  /\ D = [a \in S |-> OneMoves(L, len, a[2])]
  /\ W = [a \in S |-> FlagsBy(a[2])]

LEMMA OneTeamIs ==
  ASSUME GroupAssumption, r >= 2, NEW L, Laid(L), NEW len, PartOf(L, "stage", 0, len), NEW v,
         NEW S, NEW J, NEW D, NEW W, OneTeam(S, J, D, W, L, len, v)
  PROVE  TeamJobs(S, J, D, W, L, v) /\ Calling(S, J, v)
<1>1. \A a \in S : a[2] \in Ranks /\ a = Queue("cu", a[2])
  BY NamesOfAgents DEF OneTeam, Queues
<1>2. ASSUME NEW a \in S
      PROVE  a[2] \in Ranks /\ W[a] = FlagsBy(a[2]) /\ OneJob(J[a], L, D[a], a[2], v)
  <2>1. PICK g : g = a[2]
    OBVIOUS
  <2>2. g \in Ranks
    BY <1>1, <2>1
  <2>3. OneJob(AllreduceOneshot(g, len, v), L, OneMoves(L, len, g), g, v)
    BY <2>2, OneJobOf
  <2>4. J[a] = AllreduceOneshot(g, len, v) /\ D[a] = OneMoves(L, len, g) /\ W[a] = FlagsBy(g)
    BY <2>1 DEF OneTeam
  <2> QED
    BY <2>1, <2>2, <2>3, <2>4
<1>3. \A a, b \in S : a[2] = b[2] => a = b
  BY <1>1
<1>4. TeamJobs(S, J, D, W, L, v)
  BY <1>2, <1>3 DEF TeamJobs
<1>5. \A g \in Ranks : FlagsBy(g) \subseteq Words(r)
  BY DEF FlagsBy, Flag, Words, Ranks
<1>6. Calling(S, J, v)
  <2> SUFFICES ASSUME NEW a \in S, NEW x \in Does(J[a]), x.op = "signal"
               PROVE  x.word \in Words(r) /\ x.val = v
    BY DEF Calling
  <2>1. OneJob(J[a], L, D[a], a[2], v) /\ a[2] \in Ranks
    BY <1>2
  <2>2. x.word \in FlagsBy(a[2]) /\ x = Sig(x.word, v)
    BY <2>1 DEF OneJob
  <2> QED
    BY <1>5, <2>1, <2>2, SigFields
<1> QED
  BY <1>4, <1>6

LEMMA OneMovesKind ==
  ASSUME NEW L, NEW len, NEW g
  PROVE  \A d \in OneMoves(L, len, g) : d.k = "stage"
BY MvFields DEF OneMoves, Spread

LEMMA OneServes ==
  ASSUME GroupAssumption, r >= 2, NEW L, NEW len \in 0..Capacity, PartOf(L, "stage", 0, len),
         NEW D, \A g \in Ranks : OneMoves(L, len, g) \subseteq D
  PROVE  Serves(L, D, "stage")
<1>1. ASSUME NEW c \in Ranks
      PROVE  /\ Covers(D, "staged", "stage", c, c, len)
             /\ \A q \in Ranks : Covers(D, "scatter", "stage", q, c, len)
             /\ \A p \in Ranks \ {c} : Covers(D, "gather", "stage", p, c, len)
  <2>1. Covers(D, "staged", "stage", c, c, len)
    <3>1. Spread(L, "staged", "stage", OwnBy(len)[c]) \subseteq D
      BY DEF OneMoves
    <3>2. Atom(c, c, len) \in OwnBy(len)[c]
      BY DEF OwnBy
    <3> QED
      BY <3>1, <3>2, AtomCovers
  <2>2. ASSUME NEW q \in Ranks
        PROVE  Covers(D, "scatter", "stage", q, c, len)
    <3>1. Spread(L, "scatter", "stage", ScatterBy(len)[q]) \subseteq D
      BY DEF OneMoves
    <3>2. Atom(q, c, len) \in ScatterBy(len)[q]
      BY DEF ScatterBy
    <3> QED
      BY <3>1, <3>2, AtomCovers
  <2>3. ASSUME NEW p \in Ranks \ {c}
        PROVE  Covers(D, "gather", "stage", p, c, len)
    <3>1. Spread(L, "gather", "stage", PushAllBy(len)[c]) \subseteq D
      BY DEF OneMoves
    <3>2. Atom(p, c, len) \in PushAllBy(len)[c]
      BY DEF PushAllBy
    <3> QED
      BY <3>1, <3>2, AtomCovers
  <2> QED
    BY <2>1, <2>2, <2>3
<1>2. \A c \in Shares(len) : c \in Ranks
  BY DEF Shares
<1> QED
  BY <1>1, <1>2, SharesServe

LEMMA OneArms ==
  ASSUME GroupAssumption, r >= 2, NEW L, Laid(L), NEW len \in 0..Capacity, PartOf(L, "stage", 0, len),
         NEW v, NEW f, f = [i \in 1..r |-> Arm(Cu(i - 1), AllreduceOneshot(i - 1, len, v))]
  PROVE  \E E, S, J : OneArmed(FlattenSeq(f), L, E, S, J, v)
<1>1. PICK S : S = Queues("cu", Ranks)
  OBVIOUS
<1>2. PICK J, D, W : OneTeam(S, J, D, W, L, len, v)
  BY <1>1 DEF OneTeam
<1>3. TeamJobs(S, J, D, W, L, v) /\ Calling(S, J, v)
  BY <1>2, OneTeamIs
<1>4. Linked(S, J)
  BY <1>3, TeamLinked
<1>5. \A g \in Ranks : Queue("cu", g) \in S /\ Queue("cu", g)[2] = g
  BY <1>1, NamesOfAgents DEF Queues
<1>6. \A g \in Ranks : J[Queue("cu", g)] = AllreduceOneshot(g, len, v)
                       /\ D[Queue("cu", g)] = OneMoves(L, len, g)
  BY <1>2, <1>5 DEF OneTeam
<1>7. \A i \in 1..r : HandsAgent(f[i], Queue("cu", i - 1), J)
  BY <1>6, RankIndex DEF HandsAgent, Cu
<1>8. Hands(FlattenSeq(f), S, J)
  BY <1>1, <1>7, RankIndex, QueueHands
<1>9. \A a \in S : Job(J[a], L, D[a], a \in S)
  BY <1>3 DEF TeamJobs, OneJob, Job
<1>10. Orderly(FlattenSeq(f), L, UNION {D[a] : a \in S}, S)
  BY <1>8, <1>9, BlockOrderly
<1>11. PICK E : E = UNION {D[a] : a \in S}
  OBVIOUS
<1>12. \A g \in Ranks : OneMoves(L, len, g) \subseteq E
  BY <1>5, <1>6, <1>11
<1>13. \A X : E \subseteq X => Serves(L, X, "stage")
  BY <1>12, OneServes
<1>14. \A d \in E : d.k = "stage"
  BY <1>2, <1>11, OneMovesKind DEF OneTeam
<1>15. OneArmed(FlattenSeq(f), L, E, S, J, v)
  BY <1>1, <1>3, <1>4, <1>8, <1>10, <1>11, <1>13, <1>14 DEF OneArmed
<1> QED
  BY <1>15

LEMMA OneshotPlanned ==
  ASSUME GroupAssumption, r >= 2, NEW len \in 0..Capacity, ShareFacts(len)
  PROVE  Planned(Oneshot(len), Vector(len), seq + 1)
<1>1. PICK L, v : L = Vector(len) /\ v = seq + 1
  OBVIOUS
<1>2. Laid(L) /\ PartOf(L, "stage", 0, len) /\ \A D : Serves(L, D, "stage_b")
  BY <1>1, VectorFacts
<1>3. PICK f : f = [i \in 1..r |-> Arm(Cu(i - 1), AllreduceOneshot(i - 1, len, v))]
  OBVIOUS
<1>4. PICK wr : wr = EachRank(LAMBDA g : Wait(Cu(g)))
  OBVIOUS
<1>5. WaitBlock(wr, Queues("cu", Ranks))
  BY <1>4, WaitForRanks DEF Cu
<1>6. Oneshot(len) = FlattenSeq(f) \o wr
  BY <1>1, <1>3, <1>4 DEF Oneshot, EachRank
<1>7. PICK E, S, J : OneArmed(FlattenSeq(f), L, E, S, J, v)
  BY <1>2, <1>3, OneArms
<1>8. IsSeq(wr) /\ Spares(wr, S)
  BY <1>5, BlockSeqs, SparesWaits
<1>9. ArmedOnce(S, J, FlattenSeq(f) \o wr) /\ \A a \in S : ToCome(FlattenSeq(f) \o wr, a)
  BY <1>7, <1>8, HandsPlan DEF OneArmed
<1>10. Orderly(FlattenSeq(f) \o wr, L, E, S)
  BY <1>5, <1>7, ThenWaits DEF OneArmed
<1>11. S \subseteq Agents
  BY <1>7, AgentSets DEF OneArmed
<1>12. Plan(Oneshot(len), L, E, S, J, v)
  BY <1>6, <1>7, <1>9, <1>10, <1>11 DEF Plan, OneArmed, Calling
<1>13. Serves(L, E, "stage")
  BY <1>7 DEF OneArmed
<1> QED
  BY <1>1, <1>2, <1>12, <1>13 DEF Planned

-----------------------------------------------------------------------------
(* The concurrent scheme: two parts of the vector, one for each kind of    *)
(* agents.                                                                 *)
Halves(len) ==
  LET an == PartA(len)
  IN  Layout(Part(0, Clv(an), Groups(an)),
             Part(an \div 4, Clv(len - an), (an \div 4) + Groups(len - an)))

LEMMA HalvesFacts ==
  ASSUME GroupAssumption, NEW len \in 0..Capacity,
         NEW an, an = PartA(len), NEW base, base = an \div 4
  PROVE  /\ an \in 0..Capacity /\ len - an \in 0..Capacity /\ base \in Nat
         /\ base + Groups(len - an) <= Groups(Capacity) /\ Groups(an) = base
         /\ Groups(len) = base + Groups(len - an)
         /\ Laid(Halves(len))
         /\ PartOf(Halves(len), "stage", 0, an)
         /\ PartOf(Halves(len), "stage_b", base, len - an)
<1>2. /\ an \in 0..Capacity /\ len - an \in 0..Capacity /\ base \in Nat
      /\ base + Groups(len - an) <= Groups(Capacity) /\ Groups(an) = base
      /\ Groups(len) = base + Groups(len - an)
  <2>1. len \in Nat /\ Capacity \in Nat /\ len <= Capacity
    BY DEF GroupAssumption
  <2>2. PICK h : h = (len * 50) \div 100
    OBVIOUS
  <2>3. h \in Nat /\ h <= len
    BY <2>1, <2>2
  <2>4. PICK b : b = h \div 4
    OBVIOUS
  <2>5. b \in Nat /\ 4 * b <= len /\ an = 4 * b
    BY <2>2, <2>3, <2>4 DEF PartA
  <2>6. base = b
    BY <2>5
  <2>7. /\ Groups(len - an) = ((len - an) + 3) \div 4
        /\ Groups(Capacity) = (Capacity + 3) \div 4
        /\ Groups(an) = (an + 3) \div 4 /\ Groups(len) = (len + 3) \div 4
    BY <2>1, <2>5 DEF Groups, CeilDiv
  <2>8. b + (((len - 4 * b) + 3) \div 4) <= (Capacity + 3) \div 4
    BY <2>1, <2>5
  <2>9. (4 * b + 3) \div 4 = b /\ (len + 3) \div 4 = b + (((len - 4 * b) + 3) \div 4)
    BY <2>1, <2>5
  <2> QED
    BY <2>1, <2>5, <2>6, <2>7, <2>8, <2>9
<1>3. ShareFacts(an) /\ ShareFacts(len - an)
  BY <1>2, ShareSizes
<1>4. PICK s, e, t, f : /\ s = Clv(an) /\ e = Groups(an) /\ t = Clv(len - an)
                        /\ f = base + Groups(len - an)
  OBVIOUS
<1>5. s \in Nat /\ e \in Nat /\ t \in Nat /\ f \in Nat /\ e <= base
  BY <1>2, <1>3, <1>4 DEF ShareFacts
<1>6. Halves(len) = Layout(Part(0, s, e), Part(base, t, f))
  BY <1>4 DEF Halves
<1>7. PICK z : z = 0
  OBVIOUS
<1>8. z \in Nat
  BY <1>7
<1>9. /\ Laid(Layout(Part(z, s, e), Part(base, t, f)))
      /\ Layout(Part(z, s, e), Part(base, t, f))["stage"] = Part(z, s, e)
      /\ Layout(Part(z, s, e), Part(base, t, f))["stage_b"] = Part(base, t, f)
  BY <1>2, <1>5, <1>8 DEF Laid, Layout, Part, Kinds
<1>10. Laid(Halves(len)) /\ Halves(len)["stage"] = Part(0, s, e)
       /\ Halves(len)["stage_b"] = Part(base, t, f)
  BY <1>6, <1>7, <1>9
<1>11. 0 + Groups(an) = e
  BY <1>4, <1>5
<1>12. PartOf(Halves(len), "stage", 0, an)
  BY <1>3, <1>4, <1>10, <1>11 DEF PartOf
<1>13. PartOf(Halves(len), "stage_b", base, len - an)
  BY <1>2, <1>3, <1>4, <1>10 DEF PartOf
<1> QED
  BY <1>2, <1>10, <1>12, <1>13

LEMMA PartsApart ==
  ASSUME GroupAssumption, NEW L, Laid(L), NEW D, NEW E, AreMoves(L, D), AreMoves(L, E),
         \A d \in D : d.k = "stage", \A e \in E : e.k = "stage_b"
  PROVE  MovesAllApart(D, E)
<1> SUFFICES ASSUME NEW d \in D, NEW e \in E PROVE MovesApart(d, e)
  BY DEF MovesAllApart
<1>1. IsMove(L, d) /\ IsMove(L, e) /\ d.k # e.k
  BY DEF AreMoves
<1>2. ~Meet(d, e)
  BY <1>1, SameShare
<1> QED
  BY <1>2 DEF MovesApart

LEMMA ConcurrentPlanned ==
  ASSUME GroupAssumption, r >= 2, NEW len \in 0..Capacity
  PROVE  Planned(Concurrent(len), Halves(len), seq + 1)
<1>1. PICK L, v, an, base : L = Halves(len) /\ v = seq + 1 /\ an = PartA(len) /\ base = an \div 4
  OBVIOUS
<1>2. /\ an \in 0..Capacity /\ len - an \in 0..Capacity /\ base \in Nat
      /\ base + Groups(len - an) <= Groups(Capacity)
      /\ Laid(L) /\ PartOf(L, "stage", 0, an) /\ PartOf(L, "stage_b", base, len - an)
  BY <1>1, HalvesFacts
<1>3. PICK f : f = [i \in 1..r |-> Arm(Cu(i - 1), AllreduceOneshot(i - 1, an, v))]
  OBVIOUS
<1>4. PICK m, w : /\ m = SdmaRange(base, len - an, "cu2", "stage_b")
                  /\ w = EachRank(LAMBDA g : Wait(Cu(g)))
  OBVIOUS
<1>5. WaitBlock(w, Queues("cu", Ranks))
  BY <1>4, WaitForRanks DEF Cu
<1>6. Concurrent(len) = (FlattenSeq(f) \o m) \o w
  BY <1>1, <1>3, <1>4 DEF Concurrent, EachRank
<1>7. PICK E, S, J : OneArmed(FlattenSeq(f), L, E, S, J, v)
  BY <1>2, <1>3, OneArms
<1>8. "stage_b" \in Kinds
  BY DEF Kinds
<1>9. PICK D : /\ Tidy(m, L, D) /\ Serves(L, D, "stage_b") /\ \A d \in D : d.k = "stage_b"
  BY <1>2, <1>4, <1>8, SdmaRangeRuns
<1>10. Orderly(m, L, D, {}) /\ IsSeq(m)
  BY <1>9 DEF Tidy, Orderly
<1>11. IsSeq(FlattenSeq(f)) /\ IsSeq(w)
  BY <1>5, <1>7, BlockSeqs, HandsSeq DEF OneArmed
<1>12. Orderly(FlattenSeq(f), L, E, S)
  BY <1>7 DEF OneArmed
<1>13. AreMoves(L, E) /\ AreMoves(L, D)
  BY <1>10, <1>12 DEF Orderly
<1>14. MovesAllApart(E, D)
  BY <1>2, <1>7, <1>9, <1>13, PartsApart DEF OneArmed
<1>15. Orderly(FlattenSeq(f) \o m, L, E \cup D, S)
  BY <1>2, <1>10, <1>12, <1>14, OrderlyBeside
<1>16. Orderly((FlattenSeq(f) \o m) \o w, L, E \cup D, S)
  BY <1>5, <1>15, ThenWaits
<1>17. ShareFacts(len - an)
  BY <1>2, ShareSizes
<1>18. Settled(m, Queues("cu2", Ranks) \cup Engines, Works(0))
  <2>1. 0 \in Nat /\ "stage_b" \in {"stage", "stage_b"}
    OBVIOUS
  <2> QED
    BY <1>2, <1>4, <1>17, <2>1, SdmaRangeSettled
<1>19. Queues("cu", Ranks) \cap (Queues("cu2", Ranks) \cup Engines) = {}
  BY AgentSets
<1>20. Spares(m, S)
  BY <1>7, <1>18, <1>19 DEF Settled, ArmsAwaited, Spares, OneArmed
<1>21. Spares(w, S)
  BY <1>5, SparesWaits
<1>22. IsSeq(m \o w) /\ Spares(m \o w, S)
  <2>1. Joins(m \o w, m, w)
    BY <1>10, <1>11, Joined
  <2> QED
    BY <1>10, <1>11, <1>20, <1>21, <2>1, SparesJoin DEF Joins
<1>23. (FlattenSeq(f) \o m) \o w = FlattenSeq(f) \o (m \o w)
  BY <1>10, <1>11, JoinAssociates
<1>24. /\ ArmedOnce(S, J, FlattenSeq(f) \o (m \o w))
       /\ \A a \in S : ToCome(FlattenSeq(f) \o (m \o w), a)
  BY <1>7, <1>22, HandsPlan DEF OneArmed
<1>25. S \subseteq Agents
  BY <1>7, AgentSets DEF OneArmed
<1>26. PICK u, X : u = (FlattenSeq(f) \o m) \o w /\ X = E \cup D
  OBVIOUS
<1>27. ArmedOnce(S, J, u) /\ \A a \in S : ToCome(u, a)
  BY <1>23, <1>24, <1>26
<1>28. Plan(u, L, X, S, J, v)
  BY <1>7, <1>16, <1>25, <1>26, <1>27 DEF Plan, OneArmed, Calling
<1>29. Serves(L, X, "stage")
  BY <1>7, <1>26 DEF OneArmed
<1>30. Serves(L, X, "stage_b")
  <2>1. \A kind, p, c, o : Reach(D, kind, "stage_b", p, c, o) => Reach(X, kind, "stage_b", p, c, o)
    BY <1>26, ReachMore
  <2>2. \A d \in X : d.k = "stage_b" => d \in D
    <3>1. "stage" # "stage_b"
      OBVIOUS
    <3> QED
      BY <1>7, <1>26, <3>1 DEF OneArmed
  <2> SUFFICES ASSUME NEW c \in Ranks, NEW o \in Nat, Cell(L, "stage_b", c, o)
               PROVE  Plainly(X, "stage_b", c, o)
    BY DEF Serves
  <2>3. Plainly(D, "stage_b", c, o)
    BY <1>9 DEF Serves
  <2> QED
    BY <2>1, <2>2, <2>3 DEF Plainly, Summed, Gathered
<1> QED
  BY <1>1, <1>6, <1>26, <1>28, <1>29, <1>30 DEF Planned

-----------------------------------------------------------------------------
(* The dual-path scheme: shares of clv groups, the first cu of which the   *)
(* compute queues move, and the SDMA queues the rest.                      *)
Bit(p, c, off, m) == <<p, c, off, m>>
CuLen(g, c, clv, cu) == IF c = g THEN clv ELSE cu

DevShape(L, clv, cu) ==
  /\ Laid(L) /\ clv \in Nat /\ cu \in 0..clv /\ L["stage"].base = 0 /\ L["stage"].slot = clv
  /\ \A c \in Ranks : c * clv \in Nat /\ c * clv + clv <= L["stage"].end

CuScatter(g, clv, cu) == {Bit(g, c, 0, CuLen(g, c, clv, cu)) : c \in Ranks}
CuOwn(g, clv) == {Bit(g, g, 0, clv)}
CuPush(g, cu) == {Bit(p, g, 0, cu) : p \in Ranks \ {g}}
RestScatter(g, q, clv, cu) == {Bit(g, q, cu, clv - cu)}
RestPush(g, q, clv, cu) == {Bit(q, g, cu, clv - cu)}

LEMMA BitFields == \A p, c, off, m : /\ Bit(p, c, off, m)[1] = p /\ Bit(p, c, off, m)[2] = c
                                     /\ Bit(p, c, off, m)[3] = off /\ Bit(p, c, off, m)[4] = m
                                     /\ IsAtom(Bit(p, c, off, m), p, c, off, m)
BY DEF Bit, IsAtom

LEMMA BitInPart ==
  ASSUME GroupAssumption, NEW L, NEW clv, NEW cu, DevShape(L, clv, cu),
         NEW p \in Ranks, NEW c \in Ranks, NEW off \in Nat, NEW m \in Nat, off + m <= clv
  PROVE  InPart(L, "stage", Bit(p, c, off, m))
<1>1. PICK y, e : y = c * clv /\ e = L["stage"].end
  OBVIOUS
<1>2. y \in Nat /\ y + clv <= e /\ clv \in Nat /\ L["stage"].base = 0 /\ L["stage"].slot = clv
  BY <1>1 DEF DevShape
<1>3. e \in Nat
  BY <1>1 DEF DevShape, Laid, Kinds
<1>4. 0 + y + off + m <= e
  BY <1>2, <1>3
<1>5. PICK x : x = Bit(p, c, off, m)
  OBVIOUS
<1>6. x[1] = p /\ x[2] = c /\ x[3] = off /\ x[4] = m
  BY <1>5, BitFields
<1>7. L["stage"].base + x[2] * L["stage"].slot + x[3] + x[4] = 0 + y + off + m
  BY <1>1, <1>2, <1>6
<1> QED
  BY <1>1, <1>2, <1>4, <1>5, <1>6, <1>7 DEF InPart

LEMMA DevFair ==
  ASSUME GroupAssumption, NEW L, NEW clv, NEW cu, DevShape(L, clv, cu),
         NEW g \in Ranks
  PROVE  /\ Fairly(L, "scatter", "stage", CuScatter(g, clv, cu))
         /\ Fairly(L, "staged", "stage", CuOwn(g, clv))
         /\ Fairly(L, "gather", "stage", CuPush(g, cu))
<1>1. Laid(L) /\ clv \in Nat /\ cu \in 0..clv /\ "stage" \in Kinds
  BY DEF DevShape, Kinds
<1>2. {"scatter", "staged", "gather"} \subseteq MoveKinds
  BY DEF MoveKinds
<1>3. \A c \in Ranks : CuLen(g, c, clv, cu) \in Nat /\ 0 + CuLen(g, c, clv, cu) <= clv
  BY <1>1 DEF CuLen
<1>4. 0 \in Nat /\ cu \in Nat /\ 0 + cu <= clv /\ 0 + clv <= clv
  BY <1>1
<1>5. /\ Bounded(L, "stage", CuScatter(g, clv, cu))
      /\ Bounded(L, "stage", CuOwn(g, clv))
      /\ Bounded(L, "stage", CuPush(g, cu))
  BY <1>1, <1>3, <1>4, BitInPart DEF Bounded, CuScatter, CuOwn, CuPush
<1>6. /\ \A x, y \in CuScatter(g, clv, cu) : x = y \/ Asunder("scatter", x, y)
      /\ \A x, y \in CuOwn(g, clv) : x = y \/ Asunder("staged", x, y)
      /\ \A x, y \in CuPush(g, cu) : x = y \/ Asunder("gather", x, y)
  BY BitFields DEF Asunder, CuScatter, CuOwn, CuPush
<1> QED
  BY <1>1, <1>2, <1>5, <1>6 DEF Fairly

LEMMA RestFair ==
  ASSUME GroupAssumption, NEW L, NEW clv, NEW cu, DevShape(L, clv, cu),
         NEW g \in Ranks, NEW q \in Ranks
  PROVE  /\ Fairly(L, "scatter", "stage", RestScatter(g, q, clv, cu))
         /\ Fairly(L, "gather", "stage", RestPush(g, q, clv, cu))
<1>1. Laid(L) /\ clv \in Nat /\ cu \in 0..clv /\ "stage" \in Kinds
  BY DEF DevShape, Kinds
<1>2. {"scatter", "gather"} \subseteq MoveKinds
  BY DEF MoveKinds
<1>3. cu \in Nat /\ clv - cu \in Nat /\ cu + (clv - cu) <= clv
  BY <1>1
<1>4. /\ Bounded(L, "stage", RestScatter(g, q, clv, cu))
      /\ Bounded(L, "stage", RestPush(g, q, clv, cu))
  BY <1>1, <1>3, BitInPart DEF Bounded, RestScatter, RestPush
<1>5. /\ \A x, y \in RestScatter(g, q, clv, cu) : x = y
      /\ \A x, y \in RestPush(g, q, clv, cu) : x = y
  BY DEF RestScatter, RestPush
<1> QED
  BY <1>1, <1>2, <1>4, <1>5 DEF Fairly

LEMMA DevPlaces ==
  ASSUME GroupAssumption, NEW L, NEW clv, NEW cu, DevShape(L, clv, cu),
         NEW c \in Ranks
  PROVE  /\ PlaceOf(L, "stage", c, 0, c * clv) /\ PlaceOf(L, "stage", c, cu, c * clv + cu)
         /\ SlotAt(L, "stage", c, 0, c * clv) /\ SlotAt(L, "stage", c, cu, c * clv + cu)
<1>1. PICK y : y = c * clv
  OBVIOUS
<1>2. y \in Nat /\ cu \in Nat /\ L["stage"].base = 0 /\ L["stage"].slot = clv
  BY <1>1 DEF DevShape
<1>3. y = 0 + y + 0 /\ y + cu = 0 + y + cu /\ y = y + 0
  BY <1>2
<1> QED
  BY <1>1, <1>2, <1>3 DEF PlaceOf, SlotAt

LEMMA CuScatterIs ==
  ASSUME GroupAssumption, NEW L, NEW clv, NEW cu, DevShape(L, clv, cu), NEW g \in Ranks
  PROVE  UNION {Copy(Buf(g, c * clv), Stage(c, g * clv), IF c = g THEN clv ELSE cu) : c \in Ranks}
           = Moved(L, Spread(L, "scatter", "stage", CuScatter(g, clv, cu)))
<1>1. PICK C, f : /\ f = [c \in Ranks |-> Bit(g, c, 0, CuLen(g, c, clv, cu))]
                  /\ C = [c \in Ranks |-> Copy(Buf(g, c * clv), StageOf("stage", c, g * clv),
                                               CuLen(g, c, clv, cu))]
  OBVIOUS
<1>2. ASSUME NEW c \in Ranks
      PROVE  C[c] = Moved(L, Spread(L, "scatter", "stage", {f[c]}))
  <2>1. PICK x, m, at, to, z : /\ m = CuLen(g, c, clv, cu) /\ z = 0 /\ x = Bit(g, c, z, m)
                            /\ at = c * clv /\ to = g * clv
    OBVIOUS
  <2>2. PlaceOf(L, "stage", c, z, at) /\ SlotAt(L, "stage", g, z, to)
    BY <2>1, DevPlaces
  <2>3. IsAtom(x, g, c, z, m)
    BY <2>1, BitFields
  <2>4. Copy(Buf(g, at), StageOf("stage", c, to), m) = Moved(L, Spread(L, "scatter", "stage", {x}))
    BY <2>2, <2>3, PlacedScatter
  <2> QED
    BY <1>1, <2>1, <2>4
<1>3. PICK U, X : U = UNION {C[c] : c \in Ranks} /\ X = {f[c] : c \in Ranks}
  OBVIOUS
<1>4. EachMoves(L, "scatter", "stage", Ranks, C, f)
  BY <1>2 DEF EachMoves
<1>5. Collects(Ranks, C, U) /\ Lists(Ranks, f, X)
  BY <1>3 DEF Collects, Lists
<1>6. U = Moved(L, Spread(L, "scatter", "stage", X))
  BY <1>4, <1>5, PhaseOf
<1>7. X = CuScatter(g, clv, cu)
  BY <1>1, <1>3 DEF CuScatter
<1>8. U = UNION {Copy(Buf(g, c * clv), Stage(c, g * clv), IF c = g THEN clv ELSE cu) : c \in Ranks}
  BY <1>1, <1>3 DEF CuLen, Stage
<1> QED
  BY <1>6, <1>7, <1>8

LEMMA CuPushIs ==
  ASSUME GroupAssumption, NEW L, NEW clv, NEW cu, DevShape(L, clv, cu), NEW g \in Ranks
  PROVE  P2pBroadcast(Buf(g, g * clv), {Buf(p, g * clv) : p \in Ranks \ {g}}, cu)
           = <<Moved(L, Spread(L, "gather", "stage", CuPush(g, cu)))>>
<1>1. PICK C, f, A, d : /\ A = Ranks \ {g} /\ d = {Buf(p, g * clv) : p \in A}
                     /\ f = [p \in A |-> Bit(p, g, 0, cu)]
                     /\ C = [p \in A |-> Copy(Buf(g, g * clv), Buf(p, g * clv), cu)]
  OBVIOUS
<1>2. ASSUME NEW p \in A
      PROVE  C[p] = Moved(L, Spread(L, "gather", "stage", {f[p]}))
  <2>1. PICK x, at, z : z = 0 /\ x = Bit(p, g, z, cu) /\ at = g * clv
    OBVIOUS
  <2>2. PlaceOf(L, "stage", g, z, at)
    BY <2>1, DevPlaces
  <2>3. IsAtom(x, p, g, z, cu)
    BY <2>1, BitFields
  <2>4. Copy(Buf(g, at), Buf(p, at), cu) = Moved(L, Spread(L, "gather", "stage", {x}))
    BY <2>2, <2>3, PlacedGather
  <2> QED
    BY <1>1, <2>1, <2>4
<1>3. PICK U, X : U = UNION {C[p] : p \in A} /\ X = {f[p] : p \in A}
  OBVIOUS
<1>4. EachMoves(L, "gather", "stage", A, C, f)
  BY <1>2 DEF EachMoves
<1>5. Collects(A, C, U) /\ Lists(A, f, X)
  BY <1>3 DEF Collects, Lists
<1>6. U = Moved(L, Spread(L, "gather", "stage", X))
  BY <1>4, <1>5, PhaseOf
<1>7. X = CuPush(g, cu)
  BY <1>1, <1>3 DEF CuPush
<1>8. U = UNION {Copy(Buf(g, g * clv), x, cu) : x \in d}
  BY <1>1, <1>3
<1>9. P2pBroadcast(Buf(g, g * clv), d, cu) = <<U>>
  BY <1>8 DEF P2pBroadcast
<1> QED
  BY <1>1, <1>6, <1>7, <1>9

LEMMA CuOwnIs ==
  ASSUME GroupAssumption, NEW L, NEW clv, NEW cu, DevShape(L, clv, cu), NEW g \in Ranks
  PROVE  GatherReduceLocal(Stage(g, 0), Buf(g, g * clv), clv, clv)
           = <<Moved(L, Spread(L, "staged", "stage", CuOwn(g, clv)))>>
<1>1. PICK x, at, z : z = 0 /\ x = Bit(g, g, z, clv) /\ at = g * clv
  OBVIOUS
<1>2. PlaceOf(L, "stage", g, z, at)
  BY <1>1, DevPlaces
<1>3. IsAtom(x, g, g, z, clv)
  BY <1>1, BitFields
<1>4. L["stage"].slot = clv /\ clv \in Nat
  BY DEF DevShape
<1>5. Strides(L, "stage", z)
  BY <1>1, <1>4, NatSteps
<1>6. GatherReduceLocal(StageOf("stage", g, z), Buf(g, at), L["stage"].slot, clv)
        = <<Moved(L, Spread(L, "staged", "stage", {x}))>>
  BY <1>2, <1>3, <1>5, PlacedStaged
<1> QED
  BY <1>1, <1>4, <1>6 DEF Stage, CuOwn

LEMMA RestIs ==
  ASSUME GroupAssumption, NEW L, NEW clv, NEW cu, DevShape(L, clv, cu), NEW g \in Ranks, NEW q \in Ranks
  PROVE  /\ Copy(Buf(g, q * clv + cu), Stage(q, g * clv + cu), clv - cu)
              = Moved(L, Spread(L, "scatter", "stage", RestScatter(g, q, clv, cu)))
         /\ Copy(Buf(g, g * clv + cu), Buf(q, g * clv + cu), clv - cu)
              = Moved(L, Spread(L, "gather", "stage", RestPush(g, q, clv, cu)))
<1>1. PICK m, to, at : m = clv - cu /\ to = g * clv + cu /\ at = q * clv + cu
  OBVIOUS
<1>2. /\ PlaceOf(L, "stage", q, cu, at) /\ PlaceOf(L, "stage", g, cu, to)
      /\ SlotAt(L, "stage", g, cu, to)
  BY <1>1, DevPlaces
<1>3. PICK x, y : x = Bit(g, q, cu, m) /\ y = Bit(q, g, cu, m)
  OBVIOUS
<1>4. IsAtom(x, g, q, cu, m) /\ IsAtom(y, q, g, cu, m)
  BY <1>3, BitFields
<1>5. Copy(Buf(g, at), StageOf("stage", q, to), m) = Moved(L, Spread(L, "scatter", "stage", {x}))
  BY <1>2, <1>4, PlacedScatter
<1>6. Copy(Buf(g, to), Buf(q, to), m) = Moved(L, Spread(L, "gather", "stage", {y}))
  BY <1>2, <1>4, PlacedGather
<1> QED
  BY <1>1, <1>3, <1>5, <1>6 DEF Stage, RestScatter, RestPush

-----------------------------------------------------------------------------
(* The semaphores of GPU g, by what they are for.                          *)
ScatterFences(g) == {Sem(g, q) : q \in Ranks \ {g}}
GatherFences(g) == {Sem(g, r + 1 + q) : q \in Ranks \ {g}}

LEMMA WordsApart ==
  ASSUME NEW K, NEW H, NEW v
  PROVE  /\ Sigs(K, v) \cap Awts(H, v) = {}
         /\ K \cap H = {} => Sigs(K, v) \cap Sigs(H, v) = {} /\ Awts(K, v) \cap Awts(H, v) = {}
<1>1. /\ \A o \in Sigs(K, v) : o.op = "signal" /\ o.word \in K
      /\ \A o \in Sigs(H, v) : o.op = "signal" /\ o.word \in H
      /\ \A o \in Awts(K, v) : o.op = "await" /\ o.word \in K
      /\ \A o \in Awts(H, v) : o.op = "await" /\ o.word \in H
  BY WordTalk
<1>2. Sigs(K, v) \cap Awts(H, v) = {}
  BY <1>1
<1>3. ASSUME K \cap H = {} PROVE Sigs(K, v) \cap Sigs(H, v) = {} /\ Awts(K, v) \cap Awts(H, v) = {}
  BY <1>1, <1>3
<1> QED
  BY <1>2, <1>3

LEMMA SemIs == \A g, i, h, j : /\ Sem(g, i) = Sem(h, j) => g = h /\ i = j
                               /\ Sem(g, i) # Flag(h, j)
BY DEF Sem, Flag

LEMMA FenceNames ==
  ASSUME GroupAssumption, NEW g \in Ranks
  PROVE  /\ ScatterFences(g) \cap GatherFences(g) = {}
         /\ {Sem(g, r)} \cap ScatterFences(g) = {} /\ {Sem(g, r)} \cap GatherFences(g) = {}
         /\ {Sem(g, r)} \cap FlagsBy(g) = {}
         /\ ScatterFences(g) \cap FlagsFor(g) = {} /\ GatherFences(g) \cap FlagsFor(g) = {}
<1>1. r \in Nat /\ \A q \in Ranks : q \in Nat /\ q < r
  BY DEF GroupAssumption, Ranks
<1>2. \A q, p \in Ranks : q # r /\ r + 1 + p # r /\ q # r + 1 + p
  BY <1>1
<1> QED
  BY <1>2, SemIs DEF ScatterFences, GatherFences, FlagsBy, FlagsFor

(* Fences: an await per peer.                                              *)
Distinct(k) == \A p, q \in Ranks : k[p] = k[q] => p = q
Fenced(f, k, g, v) ==
  /\ f = [i \in 1..r |-> f[i]]
  /\ \A i \in 1..r : f[i] = IF i - 1 = g THEN <<>> ELSE <<Await(k[i - 1], v)>>

LEMMA FencePiece ==
  ASSUME GroupAssumption, NEW g \in Ranks, NEW v,
         NEW k, Distinct(k), NEW f, Fenced(f, k, g, v),
         NEW K, K = {k[q] : q \in Ranks \ {g}}
  PROVE  Piece(FlattenSeq(f), Awts(K, v))
<1>0. f = [i \in 1..r |-> f[i]] /\ \A i \in 1..r : f[i] = IF i - 1 = g THEN <<>> ELSE <<Await(k[i - 1], v)>>
  BY DEF Fenced
<1>1. /\ r \in Nat /\ \A i \in 1..r : i - 1 \in Ranks
      /\ \A q \in Ranks : \E i \in 1..r : i - 1 = q
  <2>1. r \in Nat /\ \A i \in 1..r : i - 1 \in Ranks
    BY DEF GroupAssumption, Ranks
  <2>2. ASSUME NEW q \in Ranks PROVE \E i \in 1..r : i - 1 = q
    <3>1. q \in Int /\ q >= 0 /\ q <= r - 1
      BY <2>1 DEF Ranks
    <3>2. q + 1 \in 1..r /\ (q + 1) - 1 = q
      BY <2>1, <3>1
    <3> QED
      BY <3>2
  <2> QED
    BY <2>1, <2>2
<1>7. \A p, q \in Ranks : k[p] = k[q] => p = q
  BY DEF Distinct
<1>2. PICK X : X = [i \in 1..r |-> IF i - 1 = g THEN {} ELSE Awts({k[i - 1]}, v)]
  OBVIOUS
<1>3. ASSUME NEW i \in 1..r PROVE Piece(f[i], X[i]) /\ Talk(X[i])
  <2>1. CASE i - 1 = g
    BY <1>0, <1>2, <2>1, PieceNothing DEF Talk
  <2>2. CASE i - 1 # g
    <3>1. f[i] = <<Await(k[i - 1], v)>> /\ X[i] = Awts({k[i - 1]}, v)
      BY <1>0, <1>2, <2>2
    <3>2. PICK z, H : z = k[i - 1] /\ H = {z}
      OBVIOUS
    <3>3. Piece(<<Await(z, v)>>, Awts({z}, v))
      BY WordOne
    <3>4. Talk(Awts(H, v))
      BY WordTalk
    <3> QED
      BY <3>1, <3>2, <3>3, <3>4
  <2> QED
    BY <2>1, <2>2
<1>4. ASSUME NEW i \in 1..r, NEW j \in 1..r, i < j PROVE X[i] \cap X[j] = {}
  <2>1. CASE i - 1 = g \/ j - 1 = g
    BY <1>2, <2>1
  <2>2. CASE i - 1 # g /\ j - 1 # g
    <3>1. i - 1 \in Ranks /\ j - 1 \in Ranks /\ i - 1 # j - 1
      BY <1>1, <1>4
    <3>5. k[i - 1] # k[j - 1]
      BY <1>7, <3>1
    <3>2. {k[i - 1]} \cap {k[j - 1]} = {}
      BY <3>5
    <3>3. X[i] = Awts({k[i - 1]}, v) /\ X[j] = Awts({k[j - 1]}, v)
      BY <1>2, <2>2
    <3>4. Awts({k[i - 1]}, v) \cap Awts({k[j - 1]}, v) = {}
      BY <3>2, WordsApart
    <3> QED
      BY <3>3, <3>4
  <2> QED
    BY <2>1, <2>2
<1>5. Piece(FlattenSeq(f), All(1..r, X))
  BY <1>0, <1>1, <1>3, <1>4, FlattenTalk
<1>6. All(1..r, X) = Awts(K, v)
  <2>1. \A i \in 1..r : \A x : x \in X[i] <=> (i - 1 # g /\ x = Awt(k[i - 1], v))
    BY <1>2 DEF Awts
  <2>2. \A x : x \in All(1..r, X) <=> \E i \in 1..r : i - 1 # g /\ x = Awt(k[i - 1], v)
    BY <2>1 DEF All
  <2>3. \A x : x \in Awts(K, v) <=> \E q \in Ranks \ {g} : x = Awt(k[q], v)
    BY DEF Awts
  <2>4. ASSUME NEW x, NEW i \in 1..r, i - 1 # g, x = Awt(k[i - 1], v) PROVE x \in Awts(K, v)
    BY <1>1, <2>3, <2>4
  <2>5. ASSUME NEW x, NEW q \in Ranks \ {g}, x = Awt(k[q], v) PROVE x \in All(1..r, X)
    <3>1. PICK i \in 1..r : i - 1 = q
      BY <1>1
    <3> QED
      BY <2>2, <2>5, <3>1
  <2> QED
    BY <2>2, <2>3, <2>4, <2>5
<1> QED
  BY <1>5, <1>6

LEMMA FencesAre ==
  ASSUME GroupAssumption, NEW g \in Ranks, NEW v
  PROVE  /\ Piece(AwaitScatterFences(g, v), Awts(ScatterFences(g), v))
         /\ Piece(ReleaseGather(g, v), Sigs({Sem(g, r)}, v))
         /\ Piece(AwaitGatherFences(g, v), Awts(GatherFences(g), v))
<1>1. r \in Nat /\ \A i \in 1..r : i - 1 \in Ranks
  BY DEF GroupAssumption, Ranks
<1>2. Piece(AwaitScatterFences(g, v), Awts(ScatterFences(g), v))
  <2>1. PICK k, f, K : /\ k = [q \in Ranks |-> Sem(g, q)]
                       /\ f = [i \in 1..r |-> IF i - 1 = g THEN <<>> ELSE <<Await(Sem(g, i - 1), v)>>]
                       /\ K = {k[q] : q \in Ranks \ {g}}
    OBVIOUS
  <2>2. Distinct(k)
    <3> SUFFICES ASSUME NEW p \in Ranks, NEW q \in Ranks, k[p] = k[q] PROVE p = q
      BY DEF Distinct
    <3>1. Sem(g, p) = Sem(g, q)
      BY <2>1
    <3> QED
      BY <3>1, SemIs
  <2>3. Fenced(f, k, g, v)
    BY <1>1, <2>1 DEF Fenced
  <2>4. Piece(FlattenSeq(f), Awts(K, v))
    BY <2>1, <2>2, <2>3, FencePiece
  <2>5. AwaitScatterFences(g, v) = FlattenSeq(f)
    BY <2>1 DEF AwaitScatterFences, EachPeer, EachRank
  <2>6. K = ScatterFences(g)
    BY <2>1 DEF ScatterFences
  <2> QED
    BY <2>4, <2>5, <2>6
<1>3. Piece(AwaitGatherFences(g, v), Awts(GatherFences(g), v))
  <2>1. PICK k, f, K : /\ k = [q \in Ranks |-> Sem(g, r + 1 + q)]
                       /\ f = [i \in 1..r |-> IF i - 1 = g THEN <<>> ELSE <<Await(Sem(g, r + 1 + (i - 1)), v)>>]
                       /\ K = {k[q] : q \in Ranks \ {g}}
    OBVIOUS
  <2>7. \A p, q \in Ranks : r + 1 + p = r + 1 + q => p = q
    BY <1>1 DEF Ranks
  <2>2. Distinct(k)
    <3> SUFFICES ASSUME NEW p \in Ranks, NEW q \in Ranks, k[p] = k[q] PROVE p = q
      BY DEF Distinct
    <3>1. Sem(g, r + 1 + p) = Sem(g, r + 1 + q)
      BY <2>1
    <3>2. r + 1 + p = r + 1 + q
      BY <3>1, SemIs
    <3> QED
      BY <2>7, <3>2
  <2>3. Fenced(f, k, g, v)
    BY <1>1, <2>1 DEF Fenced
  <2>4. Piece(FlattenSeq(f), Awts(K, v))
    BY <2>1, <2>2, <2>3, FencePiece
  <2>5. AwaitGatherFences(g, v) = FlattenSeq(f)
    BY <2>1 DEF AwaitGatherFences, EachPeer, EachRank
  <2>6. K = GatherFences(g)
    BY <2>1 DEF GatherFences
  <2> QED
    BY <2>4, <2>5, <2>6
<1>4. Piece(ReleaseGather(g, v), Sigs({Sem(g, r)}, v))
  BY WordOne DEF ReleaseGather
<1> QED
  BY <1>2, <1>3, <1>4

(* A piece more.                                                           *)
LEMMA PieceMore ==
  ASSUME NEW v, NEW u, NEW w, w = v \o u, NEW X, NEW Y, Piece(v, X), Piece(u, Y),
         X \cap Y = {}, SetAfter(X, Y)
  PROVE  /\ Piece(w, X \cup Y)
         /\ \A x \in X, y \in Y : Prec(w, x, y)
         /\ \A x, y : Prec(v, x, y) => Prec(w, x, y)
         /\ \A x, y : Prec(u, x, y) => Prec(w, x, y)
<1>1. Piece(w, X \cup Y)
  BY PieceJoin
<1>2. IsSeq(v) /\ IsSeq(u) /\ Does(v) = X /\ Does(u) = Y
  BY DEF Piece
<1> QED
  BY <1>1, <1>2, PrecJoin

-----------------------------------------------------------------------------
(* What the compute queue of GPU g does in the dual-path scheme.           *)
Working(w, L, D) ==
  IsSeq(w) /\ Once(w) /\ Fine(w) /\ AreMoves(L, D) /\ Sums(w) = Moved(L, D)

CuTalk(w, g, v) ==
  /\ \A x \in Does(w) : x.op = "signal" =>
       x.word \in FlagsBy(g) \cup {Sem(g, r)} /\ x = Sig(x.word, v)
  /\ \A h \in Ranks : /\ Sig(Flag(h, g), v) \in Does(w) /\ Awt(Flag(g, h), v) \in Does(w)
                      /\ Prec(w, Awt(Flag(g, h), v), Sig(Sem(g, r), v))
  /\ Sig(Sem(g, r), v) \in Does(w)
  /\ \A q \in Ranks \ {g} :
       /\ Awt(Sem(g, q), v) \in Does(w)
       /\ \A h \in Ranks : Prec(w, Awt(Sem(g, q), v), Sig(Flag(h, g), v))

CuMoves(w, L, D, g, cu, v) ==
  /\ \A d \in D : d.kind = "scatter" =>
       /\ d.p = g /\ (d.c # g => d.off + d.len <= cu)
       /\ \A h \in Ranks : Prec(w, Op(L, d), Sig(Flag(h, g), v))
  /\ \A d \in D : d.kind # "scatter" =>
       /\ d.c = g /\ d.kind \in {"staged", "gather"}
       /\ \A h \in Ranks : Prec(w, Awt(Flag(g, h), v), Op(L, d))
  /\ \A d \in D : d.kind = "staged" => Prec(w, Op(L, d), Sig(Sem(g, r), v))
  /\ \A d \in D : d.kind = "gather" => d.off + d.len <= cu

CuParts(L, clv, cu, g, w, F1, B, F2, F3, D0, D1, D2, v) ==
  /\ w = (((((<<Moved(L, D0)>> \o F1) \o B) \o <<Moved(L, D1)>>) \o F2) \o <<Moved(L, D2)>>) \o F3
  /\ F1 = AwaitScatterFences(g, v) /\ B = XgpuBarrier(g, v)
  /\ F2 = ReleaseGather(g, v) /\ F3 = AwaitGatherFences(g, v)
  /\ D0 = Spread(L, "scatter", "stage", CuScatter(g, clv, cu))
  /\ D1 = Spread(L, "staged", "stage", CuOwn(g, clv))
  /\ D2 = Spread(L, "gather", "stage", CuPush(g, cu))

CuDoes(L, g, clv, cu) ==
  (Spread(L, "scatter", "stage", CuScatter(g, clv, cu)) \cup Spread(L, "staged", "stage", CuOwn(g, clv)))
    \cup Spread(L, "gather", "stage", CuPush(g, cu))

LEMMA DualpathIs ==
  ASSUME GroupAssumption, NEW L, NEW clv, NEW cu, DevShape(L, clv, cu), NEW g \in Ranks, NEW v
  PROVE  \E F1, B, F2, F3, D0, D1, D2 :
           CuParts(L, clv, cu, g, AllreduceDualpath(g, clv, cu, v), F1, B, F2, F3, D0, D1, D2, v)
<1>1. PICK F1, B, F2, F3, D0, D1, D2 :
        /\ F1 = AwaitScatterFences(g, v) /\ B = XgpuBarrier(g, v)
        /\ F2 = ReleaseGather(g, v) /\ F3 = AwaitGatherFences(g, v)
        /\ D0 = Spread(L, "scatter", "stage", CuScatter(g, clv, cu))
        /\ D1 = Spread(L, "staged", "stage", CuOwn(g, clv))
        /\ D2 = Spread(L, "gather", "stage", CuPush(g, cu))
  OBVIOUS
<1>2. UNION {Copy(Buf(g, c * clv), Stage(c, g * clv), IF c = g THEN clv ELSE cu) : c \in Ranks}
        = Moved(L, D0)
  BY <1>1, CuScatterIs
<1>3. GatherReduceLocal(Stage(g, 0), Buf(g, g * clv), clv, clv) = <<Moved(L, D1)>>
  BY <1>1, CuOwnIs
<1>4. P2pBroadcast(Buf(g, g * clv), {Buf(p, g * clv) : p \in Ranks \ {g}}, cu) = <<Moved(L, D2)>>
  BY <1>1, CuPushIs
<1>5. AllreduceDualpath(g, clv, cu, v)
        = (((((<<Moved(L, D0)>> \o F1) \o B) \o <<Moved(L, D1)>>) \o F2) \o <<Moved(L, D2)>>) \o F3
  BY <1>1, <1>2, <1>3, <1>4 DEF AllreduceDualpath
<1> QED
  BY <1>1, <1>5 DEF CuParts

LEMMA CuWorks ==
  ASSUME GroupAssumption, r >= 2, NEW L, NEW clv, NEW cu, DevShape(L, clv, cu),
         NEW g \in Ranks, NEW v, NEW w, w = AllreduceDualpath(g, clv, cu, v),
         NEW D, D = CuDoes(L, g, clv, cu)
  PROVE  Working(w, L, D) /\ CuTalk(w, g, v) /\ CuMoves(w, L, D, g, cu, v)
<1>1. PICK F1, B, F2, F3, D0, D1, D2 : CuParts(L, clv, cu, g, w, F1, B, F2, F3, D0, D1, D2, v)
  BY DualpathIs
<1>2. PICK M0, M1, M2 : M0 = Moved(L, D0) /\ M1 = Moved(L, D1) /\ M2 = Moved(L, D2)
  OBVIOUS
<1>3. Laid(L) /\ cu \in Nat /\ clv \in Nat
  BY DEF DevShape
<1>4. /\ Piece(<<M0>>, M0) /\ AreMoves(L, D0)
      /\ Piece(<<M1>>, M1) /\ AreMoves(L, D1)
      /\ Piece(<<M2>>, M2) /\ AreMoves(L, D2)
  BY <1>1, <1>2, DevFair, SpreadPiece DEF CuParts
<1>5. PICK X, Y, Z, T1, T2, T3 :
        /\ X = Sigs(FlagsBy(g), v) /\ Y = Awts(FlagsFor(g), v) /\ Z = X \cup Y
        /\ T1 = Awts(ScatterFences(g), v) /\ T2 = Sigs({Sem(g, r)}, v) /\ T3 = Awts(GatherFences(g), v)
  OBVIOUS
<1>6. Piece(B, Z) /\ Talk(Z) /\ \A x \in X, y \in Y : Prec(B, x, y)
  BY <1>1, <1>5, BarrierPiece DEF CuParts
<1>7. Piece(F1, T1) /\ Piece(F2, T2) /\ Piece(F3, T3)
  BY <1>1, <1>5, FencesAre DEF CuParts
<1>8. Talk(T1) /\ Talk(T2) /\ Talk(T3)
  BY <1>5, WordTalk
<1>9. /\ \A d \in D0 : Lvl(d) = 0 /\ d.kind = "scatter" /\ d.p = g /\ (d.c # g => d.off + d.len <= cu)
      /\ \A d \in D1 : Lvl(d) = 1 /\ d.kind = "staged" /\ d.c = g
      /\ \A d \in D2 : Lvl(d) = 2 /\ d.kind = "gather" /\ d.c = g /\ d.off + d.len <= cu
  <2>1. /\ \A x \in CuScatter(g, clv, cu) : x[1] = g /\ (x[2] # g => x[3] = 0 /\ x[4] = cu)
        /\ \A x \in CuOwn(g, clv) : x[2] = g
        /\ \A x \in CuPush(g, cu) : x[2] = g /\ x[3] = 0 /\ x[4] = cu
    BY BitFields DEF CuScatter, CuOwn, CuPush, CuLen
  <2>0. 0 + cu <= cu
    BY <1>3
  <2>2. \A d \in D0 : Lvl(d) = 0 /\ d.kind = "scatter" /\ d.p = g /\ (d.c # g => d.off + d.len <= cu)
    BY <1>1, <2>0, <2>1, MvFields DEF CuParts, Spread, KindLvl
  <2>3. \A d \in D1 : Lvl(d) = 1 /\ d.kind = "staged" /\ d.c = g
    BY <1>1, <2>1, MvFields DEF CuParts, Spread, KindLvl
  <2>4. \A d \in D2 : Lvl(d) = 2 /\ d.kind = "gather" /\ d.c = g /\ d.off + d.len <= cu
    BY <1>1, <2>0, <2>1, MvFields DEF CuParts, Spread, KindLvl
  <2> QED
    BY <2>2, <2>3, <2>4
<1>10. /\ M0 \cap M1 = {} /\ SetAfter(M0, M1)
       /\ M0 \cap M2 = {} /\ SetAfter(M0, M2)
       /\ M1 \cap M2 = {} /\ SetAfter(M1, M2)
  BY <1>2, <1>3, <1>4, <1>9, LowerFirst
<1>11. /\ \A T \in {Z, T1, T2, T3} : Talk(T)
       /\ \A M \in {M0, M1, M2} : \A T \in {Z, T1, T2, T3} : M \cap T = {}
  <2>1. \A T \in {Z, T1, T2, T3} : Talk(T)
    BY <1>6, <1>8
  <2> QED
    BY <1>2, <2>1, MovesNoTalk
<1>12. /\ T1 \cap Z = {} /\ T1 \cap T2 = {} /\ T1 \cap T3 = {}
       /\ Z \cap T2 = {} /\ Z \cap T3 = {} /\ T2 \cap T3 = {}
  <2>1. T1 \cap X = {} /\ T1 \cap T2 = {} /\ T2 \cap Y = {} /\ X \cap T3 = {} /\ T2 \cap T3 = {}
    BY <1>5, WordsApart
  <2>2. T1 \cap Y = {} /\ T1 \cap T3 = {} /\ Y \cap T3 = {} /\ X \cap T2 = {}
    BY <1>5, FenceNames, WordsApart
  <2> QED
    BY <1>5, <2>1, <2>2
<1>13. \A T \in {Z, T1, T2, T3} : \A V : SetAfter(T, V) /\ SetAfter(V, T)
  BY <1>11, TalkAfter
<1>14. PICK w1, w2, w3, w4, w5 :
         /\ w1 = <<M0>> \o F1 /\ w2 = w1 \o B /\ w3 = w2 \o <<M1>> /\ w4 = w3 \o F2 /\ w5 = w4 \o <<M2>>
  OBVIOUS
<1>15. w = w5 \o F3
  BY <1>1, <1>2, <1>14 DEF CuParts
<1>16. PICK X1, X2, X3, X4, X5 :
         /\ X1 = M0 \cup T1 /\ X2 = X1 \cup Z /\ X3 = X2 \cup M1 /\ X4 = X3 \cup T2 /\ X5 = X4 \cup M2
  OBVIOUS
<1>17. Piece(w1, X1)
  BY <1>4, <1>7, <1>11, <1>13, <1>14, <1>16, PieceMore
<1>18. /\ Piece(w2, X2) /\ \A x \in X1, y \in Z : Prec(w2, x, y)
       /\ \A x \in X, y \in Y : Prec(w2, x, y)
  <2>1. X1 \cap Z = {} /\ SetAfter(X1, Z)
    BY <1>11, <1>12, <1>13, <1>16
  <2> QED
    BY <1>6, <1>14, <1>16, <1>17, <2>1, PieceMore
<1>19. /\ Piece(w3, X3) /\ \A x \in X2, y \in M1 : Prec(w3, x, y)
       /\ \A x, y : Prec(w2, x, y) => Prec(w3, x, y)
  <2>1. X2 \cap M1 = {} /\ SetAfter(X2, M1)
    BY <1>10, <1>11, <1>13, <1>16 DEF SetAfter
  <2> QED
    <3>1. w3 = w2 \o <<M1>> /\ X3 = X2 \cup M1 /\ Piece(w2, X2) /\ Piece(<<M1>>, M1)
      BY <1>4, <1>14, <1>16, <1>18
    <3> QED
      BY <2>1, <3>1, PieceMore
<1>20. /\ Piece(w4, X4) /\ \A x \in X3, y \in T2 : Prec(w4, x, y)
       /\ \A x, y : Prec(w3, x, y) => Prec(w4, x, y)
  <2>1. X3 \cap T2 = {} /\ SetAfter(X3, T2)
    BY <1>11, <1>12, <1>13, <1>16
  <2> QED
    <3>1. w4 = w3 \o F2 /\ X4 = X3 \cup T2 /\ Piece(w3, X3) /\ Piece(F2, T2)
      BY <1>7, <1>14, <1>16, <1>19
    <3> QED
      BY <2>1, <3>1, PieceMore
<1>21. /\ Piece(w5, X5) /\ \A x \in X4, y \in M2 : Prec(w5, x, y)
       /\ \A x, y : Prec(w4, x, y) => Prec(w5, x, y)
  <2>1. X4 \cap M2 = {} /\ SetAfter(X4, M2)
    BY <1>10, <1>11, <1>13, <1>16 DEF SetAfter
  <2> QED
    <3>1. w5 = w4 \o <<M2>> /\ X5 = X4 \cup M2 /\ Piece(w4, X4) /\ Piece(<<M2>>, M2)
      BY <1>4, <1>14, <1>16, <1>20
    <3> QED
      BY <2>1, <3>1, PieceMore
<1>22. /\ Piece(w, X5 \cup T3) /\ \A x, y : Prec(w5, x, y) => Prec(w, x, y)
  <2>1. X5 \cap T3 = {} /\ SetAfter(X5, T3)
    BY <1>11, <1>12, <1>13, <1>16
  <2> QED
    BY <1>7, <1>15, <1>21, <2>1, PieceMore
<1>23. /\ \A x \in M0 \cup T1, y \in X : Prec(w, x, y)
       /\ \A x \in Y, y \in M1 \cup M2 : Prec(w, x, y)
       /\ \A x \in Y \cup M1, y \in T2 : Prec(w, x, y)
  BY <1>5, <1>16, <1>18, <1>19, <1>20, <1>21, <1>22
<1>24. Does(w) = X5 \cup T3 /\ IsSeq(w) /\ Once(w) /\ Fine(w)
  BY <1>22 DEF Piece
<1>25. D = (D0 \cup D1) \cup D2
  BY <1>1 DEF CuDoes, CuParts
<1>26. AreMoves(L, D) /\ Moved(L, D) = (M0 \cup M1) \cup M2
  BY <1>2, <1>4, <1>25 DEF AreMoves, Moved
<1>27. \A x \in (M0 \cup M1) \cup M2 : x.op = "sum"
  BY <1>26, OpPlaces DEF Moved
<1>28. Sums(w) = Moved(L, D)
  <2>1. \A x \in (Z \cup T1) \cup (T2 \cup T3) : x.op # "sum"
    BY <1>11 DEF Talk
  <2> QED
    BY <1>16, <1>24, <1>26, <1>27, <2>1 DEF Sums
<1>29. Working(w, L, D)
  BY <1>24, <1>26, <1>28 DEF Working
<1>30. ASSUME NEW h \in Ranks
       PROVE  Sig(Flag(h, g), v) \in X /\ Awt(Flag(g, h), v) \in Y
  <2>1. Flag(h, g) \in FlagsBy(g) /\ Flag(g, h) \in FlagsFor(g)
    BY DEF FlagsBy, FlagsFor
  <2> QED
    BY <1>5, <2>1, WordTalk
<1>31. Sig(Sem(g, r), v) \in T2
  BY <1>5, WordTalk
<1>32. ASSUME NEW q \in Ranks \ {g} PROVE Awt(Sem(g, q), v) \in T1
  <2>1. Sem(g, q) \in ScatterFences(g)
    BY DEF ScatterFences
  <2> QED
    BY <1>5, <2>1, WordTalk
<1>33. CuTalk(w, g, v)
  <2>1. ASSUME NEW x \in Does(w), x.op = "signal"
        PROVE  x.word \in FlagsBy(g) \cup {Sem(g, r)} /\ x = Sig(x.word, v)
    <3>1. x \in X \cup T2
      <4>1. x \notin Y /\ x \notin T1 /\ x \notin T3
        BY <1>5, <2>1, WordTalk
      <4> QED
        BY <1>5, <1>16, <1>24, <1>27, <2>1, <4>1
    <3> QED
      BY <1>5, <3>1, WordTalk
  <2>2. ASSUME NEW h \in Ranks
        PROVE  /\ Sig(Flag(h, g), v) \in Does(w) /\ Awt(Flag(g, h), v) \in Does(w)
               /\ Prec(w, Awt(Flag(g, h), v), Sig(Sem(g, r), v))
    BY <1>5, <1>16, <1>23, <1>24, <1>30, <1>31
  <2>3. Sig(Sem(g, r), v) \in Does(w)
    BY <1>16, <1>24, <1>31
  <2>4. ASSUME NEW q \in Ranks \ {g}
        PROVE  /\ Awt(Sem(g, q), v) \in Does(w)
               /\ \A h \in Ranks : Prec(w, Awt(Sem(g, q), v), Sig(Flag(h, g), v))
    BY <1>16, <1>23, <1>24, <1>30, <1>32
  <2> QED
    BY <2>1, <2>2, <2>3, <2>4 DEF CuTalk
<1>34. CuMoves(w, L, D, g, cu, v)
  <2>1. \A d \in D0 : Op(L, d) \in M0
    BY <1>2 DEF Moved
  <2>2. \A d \in D1 : Op(L, d) \in M1
    BY <1>2 DEF Moved
  <2>3. \A d \in D2 : Op(L, d) \in M2
    BY <1>2 DEF Moved
  <2>4. \A d \in D : /\ d.kind = "scatter" => d \in D0
                     /\ d.kind = "staged" => d \in D1
                     /\ d.kind = "gather" => d \in D2
                     /\ d.kind # "scatter" => d \in D1 \cup D2
    BY <1>9, <1>25
  <2>5. \A d \in D : d.kind = "scatter" =>
          /\ d.p = g /\ (d.c # g => d.off + d.len <= cu)
          /\ \A h \in Ranks : Prec(w, Op(L, d), Sig(Flag(h, g), v))
    BY <1>9, <1>23, <1>30, <2>1, <2>4
  <2>6. \A d \in D : d.kind # "scatter" =>
          /\ d.c = g /\ d.kind \in {"staged", "gather"}
          /\ \A h \in Ranks : Prec(w, Awt(Flag(g, h), v), Op(L, d))
    BY <1>9, <1>23, <1>30, <2>2, <2>3, <2>4
  <2>7. \A d \in D : d.kind = "staged" => Prec(w, Op(L, d), Sig(Sem(g, r), v))
    BY <1>23, <1>31, <2>2, <2>4
  <2>8. \A d \in D : d.kind = "gather" => d.off + d.len <= cu
    BY <1>9, <2>4
  <2> QED
    BY <2>5, <2>6, <2>7, <2>8 DEF CuMoves
<1> QED
  BY <1>29, <1>33, <1>34

-----------------------------------------------------------------------------
(* What SDMA queue q of GPU g does in the dual-path scheme.                *)
RestTalk(w, g, q, v) ==
  /\ \A x \in Does(w) : x.op = "signal" =>
       x.word \in {Sem(g, q), Sem(g, r + 1 + q)} /\ x = Sig(x.word, v)
  /\ Sig(Sem(g, q), v) \in Does(w) /\ Awt(Sem(g, r), v) \in Does(w)

RestMoves(w, L, D, g, q, cu, v) ==
  /\ \A d \in D : d.kind = "scatter" =>
       d.p = g /\ d.c = q /\ cu <= d.off /\ Prec(w, Op(L, d), Sig(Sem(g, q), v))
  /\ \A d \in D : d.kind # "scatter" =>
       /\ d.kind = "gather" /\ d.c = g /\ d.p = q /\ cu <= d.off
       /\ Prec(w, Awt(Sem(g, r), v), Op(L, d))

RestDoes(L, g, q, clv, cu) ==
  Spread(L, "scatter", "stage", RestScatter(g, q, clv, cu))
    \cup Spread(L, "gather", "stage", RestPush(g, q, clv, cu))

RestParts(L, clv, cu, g, q, w, D0, D1, v) ==
  /\ w = (((<<Moved(L, D0)>> \o <<Signal(Sem(g, q), v)>>) \o <<Await(Sem(g, r), v)>>)
            \o <<Moved(L, D1)>>) \o <<Signal(Sem(g, r + 1 + q), v)>>
  /\ D0 = Spread(L, "scatter", "stage", RestScatter(g, q, clv, cu))
  /\ D1 = Spread(L, "gather", "stage", RestPush(g, q, clv, cu))

FiveOf(x, a, b, c, d, e) == x = <<a, b, c, d, e>>

LEMMA FivePhases ==
  ASSUME NEW x, NEW a, NEW b, NEW c, NEW d, NEW e, FiveOf(x, a, b, c, d, e)
  PROVE  x = (((<<a>> \o <<b>>) \o <<c>>) \o <<d>>) \o <<e>>
<1>1. PICK X : X = {a, b, c, d, e}
  OBVIOUS
<1>2. /\ <<a>> \in Seq(X) /\ <<b>> \in Seq(X) /\ <<c>> \in Seq(X) /\ <<d>> \in Seq(X) /\ <<e>> \in Seq(X)
      /\ <<a, b, c, d, e>> \in Seq(X)
  BY <1>1
<1>3. PICK p2 : p2 = <<a>> \o <<b>>
  OBVIOUS
<1>4. p2 \in Seq(X) /\ Len(p2) = 2 /\ p2[1] = a /\ p2[2] = b
  BY <1>2, <1>3, ConcatProperties
<1>5. PICK p3 : p3 = p2 \o <<c>>
  OBVIOUS
<1>6. p3 \in Seq(X) /\ Len(p3) = 3 /\ p3[1] = a /\ p3[2] = b /\ p3[3] = c
  <2>1. PICK s : s = <<c>>
    OBVIOUS
  <2>2. s \in Seq(X) /\ Len(s) = 1 /\ s[1] = c
    BY <1>2, <2>1
  <2>3. /\ p3 \in Seq(X) /\ Len(p3) = Len(p2) + Len(s)
        /\ \A i \in 1..(Len(p2) + Len(s)) : p3[i] = IF i <= Len(p2) THEN p2[i] ELSE s[i - Len(p2)]
    BY <1>4, <1>5, <2>1, <2>2, ConcatProperties
  <2> QED
    BY <1>4, <2>2, <2>3
<1>7. PICK p4 : p4 = p3 \o <<d>>
  OBVIOUS
<1>8. p4 \in Seq(X) /\ Len(p4) = 4 /\ p4[1] = a /\ p4[2] = b /\ p4[3] = c /\ p4[4] = d
  <2>1. PICK s : s = <<d>>
    OBVIOUS
  <2>2. s \in Seq(X) /\ Len(s) = 1 /\ s[1] = d
    BY <1>2, <2>1
  <2>3. /\ p4 \in Seq(X) /\ Len(p4) = Len(p3) + Len(s)
        /\ \A i \in 1..(Len(p3) + Len(s)) : p4[i] = IF i <= Len(p3) THEN p3[i] ELSE s[i - Len(p3)]
    BY <1>6, <1>7, <2>1, <2>2, ConcatProperties
  <2> QED
    BY <1>6, <2>2, <2>3
<1>9. PICK u, w : u = p4 \o <<e>> /\ w = <<a, b, c, d, e>>
  OBVIOUS
<1>10. u \in Seq(X) /\ Len(u) = 5 /\ u[1] = a /\ u[2] = b /\ u[3] = c /\ u[4] = d /\ u[5] = e
  <2>1. PICK s : s = <<e>>
    OBVIOUS
  <2>2. s \in Seq(X) /\ Len(s) = 1 /\ s[1] = e
    BY <1>2, <2>1
  <2>3. /\ u \in Seq(X) /\ Len(u) = Len(p4) + Len(s)
        /\ \A i \in 1..(Len(p4) + Len(s)) : u[i] = IF i <= Len(p4) THEN p4[i] ELSE s[i - Len(p4)]
    BY <1>8, <1>9, <2>1, <2>2, ConcatProperties
  <2> QED
    BY <1>8, <2>2, <2>3
<1>11. w \in Seq(X) /\ Len(w) = 5 /\ w[1] = a /\ w[2] = b /\ w[3] = c /\ w[4] = d /\ w[5] = e
  BY <1>2, <1>9
<1>12. \A i \in 1..Len(u) : u[i] = w[i]
  BY <1>10, <1>11
<1>13. u = w
  BY <1>10, <1>11, <1>12, SeqEqual
<1> QED
  BY <1>3, <1>5, <1>7, <1>9, <1>13 DEF FiveOf

LEMMA RestPhases ==
  ASSUME GroupAssumption, NEW L, NEW clv, NEW cu, DevShape(L, clv, cu), NEW g \in Ranks, NEW q \in Ranks, NEW v
  PROVE  \E D0, D1 : RestParts(L, clv, cu, g, q, DualpathSdma(g, q, clv, cu, v), D0, D1, v)
<1>1. PICK D0, D1 : /\ D0 = Spread(L, "scatter", "stage", RestScatter(g, q, clv, cu))
                    /\ D1 = Spread(L, "gather", "stage", RestPush(g, q, clv, cu))
  OBVIOUS
<1>2. PICK a, b, c, d, e :
        /\ a = Copy(Buf(g, q * clv + cu), Stage(q, g * clv + cu), clv - cu)
        /\ b = Signal(Sem(g, q), v) /\ c = Await(Sem(g, r), v)
        /\ d = Copy(Buf(g, g * clv + cu), Buf(q, g * clv + cu), clv - cu)
        /\ e = Signal(Sem(g, r + 1 + q), v)
  OBVIOUS
<1>3. a = Moved(L, D0) /\ d = Moved(L, D1)
  BY <1>1, <1>2, RestIs
<1>4. DualpathSdma(g, q, clv, cu, v) = <<a, b, c, d, e>>
  BY <1>2 DEF DualpathSdma
<1>5. DualpathSdma(g, q, clv, cu, v) = (((<<a>> \o <<b>>) \o <<c>>) \o <<d>>) \o <<e>>
  <2>1. PICK x : x = DualpathSdma(g, q, clv, cu, v)
    OBVIOUS
  <2>2. FiveOf(x, a, b, c, d, e)
    BY <1>4, <2>1 DEF FiveOf
  <2> QED
    BY <2>1, <2>2, FivePhases
<1> QED
  BY <1>1, <1>2, <1>3, <1>5 DEF RestParts

LEMMA RestWorks ==
  ASSUME GroupAssumption, r >= 2, NEW L, NEW clv, NEW cu, DevShape(L, clv, cu),
         NEW g \in Ranks, NEW q \in Ranks, NEW v, NEW w, w = DualpathSdma(g, q, clv, cu, v),
         NEW D, D = RestDoes(L, g, q, clv, cu)
  PROVE  Working(w, L, D) /\ RestTalk(w, g, q, v) /\ RestMoves(w, L, D, g, q, cu, v)
<1>1. PICK D0, D1 : RestParts(L, clv, cu, g, q, w, D0, D1, v)
  BY RestPhases
<1>2. PICK M0, M1, S1, W1, S2 :
        /\ M0 = Moved(L, D0) /\ M1 = Moved(L, D1)
        /\ S1 = Signal(Sem(g, q), v) /\ W1 = Await(Sem(g, r), v) /\ S2 = Signal(Sem(g, r + 1 + q), v)
  OBVIOUS
<1>3. Laid(L) /\ cu \in Nat /\ clv \in Nat
  BY DEF DevShape
<1>4. /\ Piece(<<M0>>, M0) /\ AreMoves(L, D0)
      /\ Piece(<<M1>>, M1) /\ AreMoves(L, D1)
  BY <1>1, <1>2, RestFair, SpreadPiece DEF RestParts
<1>5. PICK T1, T2, T3 :
        T1 = Sigs({Sem(g, q)}, v) /\ T2 = Awts({Sem(g, r)}, v) /\ T3 = Sigs({Sem(g, r + 1 + q)}, v)
  OBVIOUS
<1>7. Piece(<<S1>>, T1) /\ Piece(<<W1>>, T2) /\ Piece(<<S2>>, T3)
  BY <1>2, <1>5, WordOne
<1>8. Talk(T1) /\ Talk(T2) /\ Talk(T3)
  BY <1>5, WordTalk
<1>9. /\ \A d \in D0 : Lvl(d) = 0 /\ d.kind = "scatter" /\ d.p = g /\ d.c = q /\ cu <= d.off
      /\ \A d \in D1 : Lvl(d) = 2 /\ d.kind = "gather" /\ d.c = g /\ d.p = q /\ cu <= d.off
  <2>0. cu <= cu
    BY <1>3
  <2>1. /\ \A x \in RestScatter(g, q, clv, cu) : x[1] = g /\ x[2] = q /\ x[3] = cu
        /\ \A x \in RestPush(g, q, clv, cu) : x[1] = q /\ x[2] = g /\ x[3] = cu
    BY BitFields DEF RestScatter, RestPush
  <2>2. \A d \in D0 : Lvl(d) = 0 /\ d.kind = "scatter" /\ d.p = g /\ d.c = q /\ cu <= d.off
    BY <1>1, <2>0, <2>1, MvFields DEF RestParts, Spread, KindLvl
  <2>3. \A d \in D1 : Lvl(d) = 2 /\ d.kind = "gather" /\ d.c = g /\ d.p = q /\ cu <= d.off
    BY <1>1, <2>0, <2>1, MvFields DEF RestParts, Spread, KindLvl
  <2> QED
    BY <2>2, <2>3
<1>10. M0 \cap M1 = {} /\ SetAfter(M0, M1)
  BY <1>2, <1>3, <1>4, <1>9, LowerFirst
<1>11. /\ \A T \in {T1, T2, T3} : Talk(T)
       /\ \A M \in {M0, M1} : \A T \in {T1, T2, T3} : M \cap T = {}
  BY <1>2, <1>8, MovesNoTalk
<1>12. T1 \cap T2 = {} /\ T1 \cap T3 = {} /\ T2 \cap T3 = {}
  <2>1. q # r + 1 + q
    BY DEF Ranks, GroupAssumption
  <2>2. {Sem(g, q)} \cap {Sem(g, r + 1 + q)} = {}
    BY <2>1, SemIs
  <2>3. T1 \cap T3 = {}
    BY <1>5, <2>2, WordsApart
  <2> QED
    BY <1>5, <2>3, WordsApart
<1>13. \A T \in {T1, T2, T3} : \A V : SetAfter(T, V) /\ SetAfter(V, T)
  BY <1>11, TalkAfter
<1>14. PICK w1, w2, w3 : w1 = <<M0>> \o <<S1>> /\ w2 = w1 \o <<W1>> /\ w3 = w2 \o <<M1>>
  OBVIOUS
<1>15. w = w3 \o <<S2>>
  BY <1>1, <1>2, <1>14 DEF RestParts
<1>16. PICK X1, X2, X3 : X1 = M0 \cup T1 /\ X2 = X1 \cup T2 /\ X3 = X2 \cup M1
  OBVIOUS
<1>17. Piece(w1, X1) /\ \A x \in M0, y \in T1 : Prec(w1, x, y)
  <2>1. M0 \cap T1 = {} /\ SetAfter(M0, T1)
    BY <1>11, <1>13
  <2> QED
    BY <1>4, <1>7, <1>14, <1>16, <2>1, PieceMore
<1>18. Piece(w2, X2) /\ \A x, y : Prec(w1, x, y) => Prec(w2, x, y)
  <2>1. X1 \cap T2 = {} /\ SetAfter(X1, T2)
    BY <1>11, <1>12, <1>13, <1>16
  <2>2. w2 = w1 \o <<W1>> /\ X2 = X1 \cup T2 /\ Piece(<<W1>>, T2)
    BY <1>7, <1>14, <1>16
  <2> QED
    BY <1>17, <2>1, <2>2, PieceMore
<1>19. /\ Piece(w3, X3) /\ \A x \in X2, y \in M1 : Prec(w3, x, y)
       /\ \A x, y : Prec(w2, x, y) => Prec(w3, x, y)
  <2>1. X2 \cap M1 = {} /\ SetAfter(X2, M1)
    BY <1>10, <1>11, <1>13, <1>16 DEF SetAfter
  <2>2. w3 = w2 \o <<M1>> /\ X3 = X2 \cup M1 /\ Piece(<<M1>>, M1) /\ Piece(w2, X2)
    BY <1>4, <1>14, <1>16, <1>18
  <2> QED
    BY <2>1, <2>2, PieceMore
<1>20. Piece(w, X3 \cup T3) /\ \A x, y : Prec(w3, x, y) => Prec(w, x, y)
  <2>1. X3 \cap T3 = {} /\ SetAfter(X3, T3)
    BY <1>11, <1>12, <1>13, <1>16
  <2>2. w = w3 \o <<S2>> /\ Piece(<<S2>>, T3) /\ Piece(w3, X3)
    BY <1>7, <1>15, <1>19
  <2> QED
    BY <2>1, <2>2, PieceMore
<1>21. /\ \A x \in M0, y \in T1 : Prec(w, x, y)
       /\ \A x \in T2, y \in M1 : Prec(w, x, y)
  BY <1>16, <1>17, <1>18, <1>19, <1>20
<1>24. Does(w) = X3 \cup T3 /\ IsSeq(w) /\ Once(w) /\ Fine(w)
  BY <1>20 DEF Piece
<1>25. D = D0 \cup D1
  BY <1>1 DEF RestDoes, RestParts
<1>26. AreMoves(L, D) /\ Moved(L, D) = M0 \cup M1
  BY <1>2, <1>4, <1>25 DEF AreMoves, Moved
<1>27. \A x \in M0 \cup M1 : x.op = "sum"
  BY <1>26, OpPlaces DEF Moved
<1>28. Sums(w) = Moved(L, D)
  <2>1. \A x \in (T1 \cup T2) \cup T3 : x.op # "sum"
    BY <1>11 DEF Talk
  <2> QED
    BY <1>16, <1>24, <1>26, <1>27, <2>1 DEF Sums
<1>29. Working(w, L, D)
  BY <1>24, <1>26, <1>28 DEF Working
<1>30. Sig(Sem(g, q), v) \in T1 /\ Awt(Sem(g, r), v) \in T2
  BY <1>5, WordTalk
<1>33. RestTalk(w, g, q, v)
  <2>1. ASSUME NEW x \in Does(w), x.op = "signal"
        PROVE  x.word \in {Sem(g, q), Sem(g, r + 1 + q)} /\ x = Sig(x.word, v)
    <3>1. x \notin T2
      BY <1>5, <2>1, WordTalk
    <3>2. x \in T1 \cup T3
      BY <1>16, <1>24, <1>27, <2>1, <3>1
    <3> QED
      BY <1>5, <3>2, WordTalk
  <2> QED
    BY <1>16, <1>24, <1>30, <2>1 DEF RestTalk
<1>34. RestMoves(w, L, D, g, q, cu, v)
  <2>1. \A d \in D0 : Op(L, d) \in M0
    BY <1>2 DEF Moved
  <2>2. \A d \in D1 : Op(L, d) \in M1
    BY <1>2 DEF Moved
  <2>4. \A d \in D : /\ d.kind = "scatter" => d \in D0
                     /\ d.kind # "scatter" => d \in D1
    BY <1>9, <1>25
  <2>5. \A d \in D : d.kind = "scatter" =>
          d.p = g /\ d.c = q /\ cu <= d.off /\ Prec(w, Op(L, d), Sig(Sem(g, q), v))
    BY <1>9, <1>21, <1>30, <2>1, <2>4
  <2>6. \A d \in D : d.kind # "scatter" =>
          /\ d.kind = "gather" /\ d.c = g /\ d.p = q /\ cu <= d.off
          /\ Prec(w, Awt(Sem(g, r), v), Op(L, d))
    BY <1>9, <1>21, <1>30, <2>2, <2>4
  <2> QED
    BY <2>5, <2>6 DEF RestMoves
<1> QED
  BY <1>29, <1>33, <1>34

-----------------------------------------------------------------------------
(* The agents of the dual-path scheme: on each GPU the compute queue and   *)
(* one SDMA queue per peer.                                                *)
CuDuty(S, J, D, W, L, g, cu, v) ==
  /\ Cu(g) \in S /\ W[Cu(g)] = FlagsBy(g) \cup {Sem(g, r)}
  /\ Working(J[Cu(g)], L, D[Cu(g)])
  /\ CuTalk(J[Cu(g)], g, v) /\ CuMoves(J[Cu(g)], L, D[Cu(g)], g, cu, v)

RestDuty(S, J, D, W, L, g, q, cu, v) ==
  /\ Sdma(g, q) \in S /\ W[Sdma(g, q)] = {Sem(g, q), Sem(g, r + 1 + q)}
  /\ Working(J[Sdma(g, q)], L, D[Sdma(g, q)])
  /\ RestTalk(J[Sdma(g, q)], g, q, v) /\ RestMoves(J[Sdma(g, q)], L, D[Sdma(g, q)], g, q, cu, v)

DevTeam(S, J, D, W, L, cu, v) ==
  /\ cu \in Nat
  /\ \A g \in Ranks : CuDuty(S, J, D, W, L, g, cu, v)
  /\ \A g \in Ranks : \A q \in Ranks \ {g} : RestDuty(S, J, D, W, L, g, q, cu, v)
  /\ \A a \in S : \/ \E g \in Ranks : a = Cu(g)
                  \/ \E g \in Ranks : \E q \in Ranks \ {g} : a = Sdma(g, q)

(* Moves of one share that lie on both sides of an offset.                 *)
LEMMA OffApart ==
  ASSUME GroupAssumption, NEW L, Laid(L), NEW d, IsMove(L, d), NEW e, IsMove(L, e),
         d.k = e.k, d.c = e.c, NEW cu \in Nat, d.off + d.len <= cu, cu <= e.off
  PROVE  ~Meet(d, e) /\ ~Meet(e, d)
<1>1. PICK B \in Nat, x \in Nat : B = L[d.k].base /\ x = d.c * L[d.k].slot
  <2>1. L[d.k].base \in Nat
    BY DEF Laid, IsMove
  <2>2. d.c * L[d.k].slot \in Nat
    BY MovePlaces
  <2> QED
    BY <2>1, <2>2
<1>2. d.pos = B + x + d.off /\ e.pos = B + x + e.off
  BY <1>1 DEF IsMove
<1>3. d.off \in Nat /\ e.off \in Nat /\ d.len \in Nat /\ e.len \in Nat
  BY DEF IsMove
<1> QED
  BY <1>2, <1>3 DEF Meet

(* A scatter to GPU g's staging passes to the barrier flag of GPU g.       *)
LEMMA CuToFlag ==
  ASSUME NEW S, NEW J, NEW D, NEW W, NEW L, NEW cu, NEW v, DevTeam(S, J, D, W, L, cu, v),
         NEW g \in Ranks, NEW h \in Ranks, NEW e \in D[Cu(h)], e.kind = "scatter"
  PROVE  Passes(S, J, Cu(h), Op(L, e), Cu(g), Awt(Flag(g, h), v))
<1>1. CuDuty(S, J, D, W, L, h, cu, v) /\ CuDuty(S, J, D, W, L, g, cu, v)
  BY DEF DevTeam
<1>2. Prec(J[Cu(h)], Op(L, e), Sig(Flag(g, h), v))
  BY <1>1 DEF CuDuty, CuMoves
<1>3. Sig(Flag(g, h), v) \in Does(J[Cu(h)]) /\ Awt(Flag(g, h), v) \in Does(J[Cu(g)])
  BY <1>1 DEF CuDuty, CuTalk
<1>4. Op(L, e) \in Does(J[Cu(h)])
  BY <1>1 DEF CuDuty, Working, Sums, Moved
<1>5. Cu(g) \in S /\ Cu(h) \in S
  BY <1>1 DEF CuDuty
<1> QED
  BY <1>2, <1>3, <1>4, <1>5, PassWord

LEMMA RestToFlag ==
  ASSUME NEW S, NEW J, NEW D, NEW W, NEW L, NEW cu, NEW v, DevTeam(S, J, D, W, L, cu, v),
         NEW g \in Ranks, NEW h \in Ranks, NEW q \in Ranks \ {h},
         NEW e \in D[Sdma(h, q)], e.kind = "scatter"
  PROVE  Passes(S, J, Sdma(h, q), Op(L, e), Cu(g), Awt(Flag(g, h), v))
<1>1. CuDuty(S, J, D, W, L, h, cu, v) /\ CuDuty(S, J, D, W, L, g, cu, v)
  BY DEF DevTeam
<1>2. RestDuty(S, J, D, W, L, h, q, cu, v)
  BY DEF DevTeam
<1>3. Cu(g) \in S /\ Cu(h) \in S /\ Sdma(h, q) \in S
  BY <1>1, <1>2 DEF CuDuty, RestDuty
<1>4. Passes(S, J, Sdma(h, q), Op(L, e), Cu(h), Awt(Sem(h, q), v))
  <2>1. Prec(J[Sdma(h, q)], Op(L, e), Sig(Sem(h, q), v))
    BY <1>2 DEF RestDuty, RestMoves
  <2>2. Sig(Sem(h, q), v) \in Does(J[Sdma(h, q)])
    BY <1>2 DEF RestDuty, RestTalk
  <2>3. Awt(Sem(h, q), v) \in Does(J[Cu(h)])
    BY <1>1 DEF CuDuty, CuTalk
  <2>4. Op(L, e) \in Does(J[Sdma(h, q)])
    BY <1>2 DEF RestDuty, Working, Sums, Moved
  <2> QED
    BY <1>3, <2>1, <2>2, <2>3, <2>4, PassWord
<1>5. Passes(S, J, Cu(h), Awt(Sem(h, q), v), Cu(g), Awt(Flag(g, h), v))
  <2>1. Prec(J[Cu(h)], Awt(Sem(h, q), v), Sig(Flag(g, h), v))
    BY <1>1 DEF CuDuty, CuTalk
  <2>2. Sig(Flag(g, h), v) \in Does(J[Cu(h)]) /\ Awt(Flag(g, h), v) \in Does(J[Cu(g)])
    BY <1>1 DEF CuDuty, CuTalk
  <2>3. Awt(Sem(h, q), v) \in Does(J[Cu(h)])
    BY <1>1 DEF CuDuty, CuTalk
  <2> QED
    BY <1>3, <2>1, <2>2, <2>3, PassWord
<1> QED
  BY <1>4, <1>5, PassAll

(* The flag of GPU h is awaited before GPU g sums or gathers.              *)
LEMMA FlagToCu ==
  ASSUME NEW S, NEW J, NEW D, NEW W, NEW L, NEW cu, NEW v, DevTeam(S, J, D, W, L, cu, v),
         NEW g \in Ranks, NEW h \in Ranks, NEW d \in D[Cu(g)], d.kind # "scatter",
         NEW b, NEW x, Passes(S, J, b, x, Cu(g), Awt(Flag(g, h), v))
  PROVE  Behind(S, J, b, x, Cu(g), Op(L, d))
<1>1. CuDuty(S, J, D, W, L, g, cu, v)
  BY DEF DevTeam
<1>2. Prec(J[Cu(g)], Awt(Flag(g, h), v), Op(L, d))
  BY <1>1 DEF CuDuty, CuMoves
<1>3. Awt(Flag(g, h), v) \in Does(J[Cu(g)])
  BY <1>1 DEF CuDuty, CuTalk
<1> QED
  BY <1>2, <1>3, PassBehind

(* The compute queue releases the gather to its SDMA queues.               *)
LEMMA ReleaseToRest ==
  ASSUME NEW S, NEW J, NEW D, NEW W, NEW L, NEW cu, NEW v, DevTeam(S, J, D, W, L, cu, v),
         NEW g \in Ranks, NEW q \in Ranks \ {g}, NEW d \in D[Sdma(g, q)], d.kind # "scatter",
         NEW x \in Does(J[Cu(g)]), Prec(J[Cu(g)], x, Sig(Sem(g, r), v))
  PROVE  /\ Passes(S, J, Cu(g), x, Sdma(g, q), Awt(Sem(g, r), v))
         /\ Behind(S, J, Cu(g), x, Sdma(g, q), Op(L, d))
<1>1. CuDuty(S, J, D, W, L, g, cu, v) /\ RestDuty(S, J, D, W, L, g, q, cu, v)
  BY DEF DevTeam
<1>2. Cu(g) \in S /\ Sdma(g, q) \in S
  BY <1>1 DEF CuDuty, RestDuty
<1>3. Sig(Sem(g, r), v) \in Does(J[Cu(g)])
  BY <1>1 DEF CuDuty, CuTalk
<1>4. Awt(Sem(g, r), v) \in Does(J[Sdma(g, q)])
  BY <1>1 DEF RestDuty, RestTalk
<1>5. Passes(S, J, Cu(g), x, Sdma(g, q), Awt(Sem(g, r), v))
  BY <1>2, <1>3, <1>4, PassWord
<1>6. Prec(J[Sdma(g, q)], Awt(Sem(g, r), v), Op(L, d))
  BY <1>1 DEF RestDuty, RestMoves
<1> QED
  BY <1>4, <1>5, <1>6, PassBehind

LEMMA FlagToRest ==
  ASSUME NEW S, NEW J, NEW D, NEW W, NEW L, NEW cu, NEW v, DevTeam(S, J, D, W, L, cu, v),
         NEW g \in Ranks, NEW h \in Ranks, NEW q \in Ranks \ {g},
         NEW d \in D[Sdma(g, q)], d.kind # "scatter",
         NEW b, NEW x, Passes(S, J, b, x, Cu(g), Awt(Flag(g, h), v))
  PROVE  Behind(S, J, b, x, Sdma(g, q), Op(L, d))
<1>1. CuDuty(S, J, D, W, L, g, cu, v) /\ RestDuty(S, J, D, W, L, g, q, cu, v)
  BY DEF DevTeam
<1>2. Awt(Flag(g, h), v) \in Does(J[Cu(g)]) /\ Prec(J[Cu(g)], Awt(Flag(g, h), v), Sig(Sem(g, r), v))
  BY <1>1 DEF CuDuty, CuTalk
<1>3. Passes(S, J, Cu(g), Awt(Flag(g, h), v), Sdma(g, q), Awt(Sem(g, r), v))
  BY <1>2, ReleaseToRest
<1>4. Passes(S, J, b, x, Sdma(g, q), Awt(Sem(g, r), v))
  BY <1>3, PassAll
<1>5. Awt(Sem(g, r), v) \in Does(J[Sdma(g, q)])
  BY <1>1 DEF RestDuty, RestTalk
<1>6. Prec(J[Sdma(g, q)], Awt(Sem(g, r), v), Op(L, d))
  BY <1>1 DEF RestDuty, RestMoves
<1> QED
  BY <1>4, <1>5, <1>6, PassBehind

(* Two moves that would be out of order are of one share.                  *)
Contest(L, d, e) ==
  /\ IsMove(L, d) /\ IsMove(L, e) /\ Meet(d, e) /\ d.k = e.k /\ d.c = e.c
  /\ ~(Lvl(d) < Lvl(e))
  /\ Lvl(d) = Lvl(e) /\ d.kind \in {"scatter", "gather"} => d.p = e.p

LEMMA ContestOf ==
  ASSUME GroupAssumption, NEW L, Laid(L), NEW d, IsMove(L, d), NEW e, IsMove(L, e), ~MovesAfter(d, e)
  PROVE  Contest(L, d, e)
<1>1. Meet(d, e) /\ ~(Lvl(d) < Lvl(e))
      /\ ~(Lvl(d) = Lvl(e) /\ d.kind \in {"scatter", "gather"} /\ d.p # e.p)
  BY DEF MovesAfter, MovesApart
<1>2. d.k = e.k /\ d.c = e.c
  BY <1>1, SameShare
<1> QED
  BY <1>1, <1>2 DEF Contest

LEMMA ContestLevels ==
  ASSUME NEW L, NEW d, NEW e, Contest(L, d, e)
  PROVE  /\ e.kind # "scatter" => d.kind # "scatter"
         /\ d.kind = "scatter" => e.kind = "scatter" /\ d.p = e.p
         /\ e.kind = "gather" => d.kind = "gather" /\ d.p = e.p
<1>1. e.kind # "scatter" => d.kind # "scatter"
  BY DEF Contest, Lvl
<1>2. d.kind = "scatter" => Lvl(d) = Lvl(e)
  BY <1>1 DEF Lvl
<1>3. e.kind = "gather" => d.kind = "gather" /\ Lvl(d) = Lvl(e)
  BY DEF Contest, Lvl
<1> QED
  BY <1>1, <1>2, <1>3 DEF Contest

LEMMA ContestOffsets ==
  ASSUME GroupAssumption, NEW L, Laid(L), NEW d, NEW e, Contest(L, d, e), NEW cu \in Nat
  PROVE  ~(d.off + d.len <= cu /\ cu <= e.off) /\ ~(e.off + e.len <= cu /\ cu <= d.off)
<1>1. IsMove(L, d) /\ IsMove(L, e) /\ d.k = e.k /\ d.c = e.c /\ e.k = d.k /\ e.c = d.c
  BY DEF Contest
<1>2. d.off + d.len <= cu /\ cu <= e.off => ~Meet(d, e)
  BY <1>1, OffApart
<1>3. e.off + e.len <= cu /\ cu <= d.off => ~Meet(d, e)
  BY <1>1, OffApart
<1> QED
  BY <1>2, <1>3 DEF Contest

(* Compute queue against compute queue.                                    *)
LEMMA CuAgainstCu ==
  ASSUME GroupAssumption, NEW L, Laid(L),
         NEW S, NEW J, NEW D, NEW W, NEW cu, NEW v, DevTeam(S, J, D, W, L, cu, v),
         NEW g \in Ranks, NEW h \in Ranks, g # h,
         NEW d \in D[Cu(g)], NEW e \in D[Cu(h)], Contest(L, d, e)
  PROVE  Behind(S, J, Cu(h), Op(L, e), Cu(g), Op(L, d))
<1>1. CuMoves(J[Cu(g)], L, D[Cu(g)], g, cu, v) /\ CuMoves(J[Cu(h)], L, D[Cu(h)], h, cu, v)
  BY DEF DevTeam, CuDuty
<1>2. d.c = e.c
  BY DEF Contest
<1>3. e.kind = "scatter"
  BY <1>1, <1>2, ContestLevels DEF CuMoves
<1>4. d.kind # "scatter"
  BY <1>1, <1>3, ContestLevels DEF CuMoves
<1>5. Passes(S, J, Cu(h), Op(L, e), Cu(g), Awt(Flag(g, h), v))
  BY <1>3, CuToFlag
<1> QED
  BY <1>4, <1>5, FlagToCu

LEMMA CuAgainstRest ==
  ASSUME GroupAssumption, NEW L, Laid(L),
         NEW S, NEW J, NEW D, NEW W, NEW cu, NEW v, DevTeam(S, J, D, W, L, cu, v),
         NEW g \in Ranks, NEW h \in Ranks, NEW q \in Ranks \ {h},
         NEW d \in D[Cu(g)], NEW e \in D[Sdma(h, q)], Contest(L, d, e)
  PROVE  Behind(S, J, Sdma(h, q), Op(L, e), Cu(g), Op(L, d))
<1>1. CuMoves(J[Cu(g)], L, D[Cu(g)], g, cu, v) /\ RestMoves(J[Sdma(h, q)], L, D[Sdma(h, q)], h, q, cu, v)
  BY DEF DevTeam, CuDuty, RestDuty
<1>2. cu \in Nat /\ d.c = e.c
  BY DEF Contest, DevTeam
<1>3. ~(d.off + d.len <= cu /\ cu <= e.off)
  BY <1>2, ContestOffsets
<1>4. cu <= e.off
  BY <1>1 DEF RestMoves
<1>5. e.kind = "scatter"
  <2>1. SUFFICES ASSUME e.kind # "scatter" PROVE FALSE
    OBVIOUS
  <2>2. e.kind = "gather"
    BY <1>1, <2>1 DEF RestMoves
  <2>3. d.kind = "gather"
    BY <2>2, ContestLevels
  <2> QED
    BY <1>1, <1>3, <1>4, <2>3 DEF CuMoves
<1>6. d.kind # "scatter"
  <2>1. SUFFICES ASSUME d.kind = "scatter" PROVE FALSE
    OBVIOUS
  <2>2. d.p = e.p
    BY <2>1, ContestLevels
  <2>3. d.p = g /\ e.p = h /\ e.c = q
    BY <1>1, <1>5, <2>1 DEF CuMoves, RestMoves
  <2>4. d.c # g
    BY <1>2, <2>2, <2>3
  <2> QED
    BY <1>1, <1>3, <1>4, <2>1, <2>4 DEF CuMoves
<1>7. Passes(S, J, Sdma(h, q), Op(L, e), Cu(g), Awt(Flag(g, h), v))
  BY <1>5, RestToFlag
<1> QED
  BY <1>6, <1>7, FlagToCu

LEMMA RestAgainstCu ==
  ASSUME GroupAssumption, NEW L, Laid(L),
         NEW S, NEW J, NEW D, NEW W, NEW cu, NEW v, DevTeam(S, J, D, W, L, cu, v),
         NEW g \in Ranks, NEW h \in Ranks, NEW q \in Ranks \ {g},
         NEW d \in D[Sdma(g, q)], NEW e \in D[Cu(h)], Contest(L, d, e)
  PROVE  Behind(S, J, Cu(h), Op(L, e), Sdma(g, q), Op(L, d))
<1>1. CuMoves(J[Cu(h)], L, D[Cu(h)], h, cu, v) /\ RestMoves(J[Sdma(g, q)], L, D[Sdma(g, q)], g, q, cu, v)
  BY DEF DevTeam, CuDuty, RestDuty
<1>2. cu \in Nat /\ d.c = e.c
  BY DEF Contest, DevTeam
<1>3. ~(e.off + e.len <= cu /\ cu <= d.off)
  BY <1>2, ContestOffsets
<1>4. cu <= d.off
  BY <1>1 DEF RestMoves
<1>5. d.kind # "scatter"
  <2>1. SUFFICES ASSUME d.kind = "scatter" PROVE FALSE
    OBVIOUS
  <2>2. d.p = e.p /\ e.kind = "scatter"
    BY <2>1, ContestLevels
  <2>3. d.p = g /\ e.p = h /\ d.c = q
    BY <1>1, <2>1, <2>2 DEF CuMoves, RestMoves
  <2>4. e.c # h
    BY <1>2, <2>2, <2>3
  <2> QED
    BY <1>1, <1>3, <1>4, <2>2, <2>4 DEF CuMoves
<1>6. CASE e.kind = "scatter"
  <2>1. Passes(S, J, Cu(h), Op(L, e), Cu(g), Awt(Flag(g, h), v))
    BY <1>6, CuToFlag
  <2> QED
    BY <1>5, <2>1, FlagToRest
<1>7. CASE e.kind # "scatter"
  <2>1. g = h
    BY <1>1, <1>2, <1>5, <1>7 DEF CuMoves, RestMoves
  <2>2. e.kind = "staged"
    BY <1>1, <1>3, <1>4, <1>7 DEF CuMoves
  <2>3. Prec(J[Cu(g)], Op(L, e), Sig(Sem(g, r), v))
    BY <1>1, <2>1, <2>2 DEF CuMoves
  <2>4. Op(L, e) \in Does(J[Cu(g)])
    <3>1. Working(J[Cu(h)], L, D[Cu(h)])
      BY DEF DevTeam, CuDuty
    <3> QED
      BY <2>1, <3>1 DEF Working, Sums, Moved
  <2> QED
    BY <1>5, <2>1, <2>3, <2>4, ReleaseToRest
<1> QED
  BY <1>6, <1>7

LEMMA RestAgainstRest ==
  ASSUME GroupAssumption, NEW L, Laid(L),
         NEW S, NEW J, NEW D, NEW W, NEW cu, NEW v, DevTeam(S, J, D, W, L, cu, v),
         NEW g \in Ranks, NEW h \in Ranks, NEW q \in Ranks \ {g}, NEW p \in Ranks \ {h},
         ~(g = h /\ p = q),
         NEW d \in D[Sdma(g, q)], NEW e \in D[Sdma(h, p)], Contest(L, d, e)
  PROVE  Behind(S, J, Sdma(h, p), Op(L, e), Sdma(g, q), Op(L, d))
<1>1. /\ RestMoves(J[Sdma(g, q)], L, D[Sdma(g, q)], g, q, cu, v)
      /\ RestMoves(J[Sdma(h, p)], L, D[Sdma(h, p)], h, p, cu, v)
  BY DEF DevTeam, RestDuty
<1>2. d.c = e.c
  BY DEF Contest
<1>3. d.kind # "scatter"
  BY <1>1, <1>2, ContestLevels DEF RestMoves
<1>4. e.kind = "scatter"
  BY <1>1, <1>2, ContestLevels DEF RestMoves
<1>5. Passes(S, J, Sdma(h, p), Op(L, e), Cu(g), Awt(Flag(g, h), v))
  BY <1>4, RestToFlag
<1> QED
  BY <1>3, <1>5, FlagToRest

LEMMA DevWaited ==
  ASSUME GroupAssumption, NEW L, Laid(L),
         NEW S, NEW J, NEW D, NEW W, NEW cu, NEW v, DevTeam(S, J, D, W, L, cu, v),
         NEW a \in S, NEW b \in S, a # b, NEW d \in D[a], NEW e \in D[b],
         IsMove(L, d), IsMove(L, e)
  PROVE  Waited(S, J, L, a, d, b, e)
<1>1. SUFFICES ASSUME ~MovesAfter(d, e) PROVE Behind(S, J, b, Op(L, e), a, Op(L, d))
  BY DEF Waited
<1>2. Contest(L, d, e)
  BY <1>1, ContestOf
<1>3. /\ (\E g \in Ranks : a = Cu(g)) \/ \E g \in Ranks : \E q \in Ranks \ {g} : a = Sdma(g, q)
      /\ (\E h \in Ranks : b = Cu(h)) \/ \E h \in Ranks : \E p \in Ranks \ {h} : b = Sdma(h, p)
  BY DEF DevTeam
<1>4. ASSUME NEW g \in Ranks, a = Cu(g), NEW h \in Ranks, b = Cu(h)
      PROVE  Behind(S, J, b, Op(L, e), a, Op(L, d))
  BY <1>2, <1>4, CuAgainstCu
<1>5. ASSUME NEW g \in Ranks, a = Cu(g), NEW h \in Ranks, NEW p \in Ranks \ {h}, b = Sdma(h, p)
      PROVE  Behind(S, J, b, Op(L, e), a, Op(L, d))
  BY <1>2, <1>5, CuAgainstRest
<1>6. ASSUME NEW g \in Ranks, NEW q \in Ranks \ {g}, a = Sdma(g, q), NEW h \in Ranks, b = Cu(h)
      PROVE  Behind(S, J, b, Op(L, e), a, Op(L, d))
  BY <1>2, <1>6, RestAgainstCu
<1>7. ASSUME NEW g \in Ranks, NEW q \in Ranks \ {g}, a = Sdma(g, q),
             NEW h \in Ranks, NEW p \in Ranks \ {h}, b = Sdma(h, p)
      PROVE  Behind(S, J, b, Op(L, e), a, Op(L, d))
  BY <1>2, <1>7, RestAgainstRest
<1> QED
  BY <1>3, <1>4, <1>5, <1>6, <1>7

LEMMA SemsApart ==
  ASSUME GroupAssumption,
         NEW S, NEW J, NEW D, NEW W, NEW L, NEW cu, NEW v, DevTeam(S, J, D, W, L, cu, v),
         NEW a \in S, NEW b \in S, a # b
  PROVE  W[a] \cap W[b] = {}
<1>0. \A g, h, i : Sem(g, i) \notin FlagsBy(h)
  BY SemIs DEF FlagsBy
<1>1. /\ (\E g \in Ranks : a = Cu(g)) \/ \E g \in Ranks : \E q \in Ranks \ {g} : a = Sdma(g, q)
      /\ (\E h \in Ranks : b = Cu(h)) \/ \E h \in Ranks : \E p \in Ranks \ {h} : b = Sdma(h, p)
  BY DEF DevTeam
<1>2. \A g \in Ranks : W[Cu(g)] = FlagsBy(g) \cup {Sem(g, r)}
  BY DEF DevTeam, CuDuty
<1>3. \A g \in Ranks : \A q \in Ranks \ {g} : W[Sdma(g, q)] = {Sem(g, q), Sem(g, r + 1 + q)}
  BY DEF DevTeam, RestDuty
<1>4. ASSUME NEW g \in Ranks, a = Cu(g), NEW h \in Ranks, b = Cu(h)
      PROVE  W[a] \cap W[b] = {}
  <2>1. g # h
    BY <1>4
  <2> QED
    BY <1>2, <1>4, <2>1, <1>0, FlagsApart, SemIs
<1>5. \A g, h \in Ranks : \A p \in Ranks \ {h} : W[Cu(g)] \cap W[Sdma(h, p)] = {}
  <2> SUFFICES ASSUME NEW g \in Ranks, NEW h \in Ranks, NEW p \in Ranks \ {h}
               PROVE  W[Cu(g)] \cap W[Sdma(h, p)] = {}
    OBVIOUS
  <2>1. r # p /\ r # r + 1 + p
    BY DEF Ranks, GroupAssumption
  <2> QED
    BY <1>0, <1>2, <1>3, <2>1, SemIs
<1>6. ASSUME NEW g \in Ranks, NEW q \in Ranks \ {g}, a = Sdma(g, q),
             NEW h \in Ranks, NEW p \in Ranks \ {h}, b = Sdma(h, p)
      PROVE  W[a] \cap W[b] = {}
  <2>1. g = h => p # q
    BY <1>6
  <2>2. q # r + 1 + p /\ p # r + 1 + q /\ (r + 1 + q = r + 1 + p => p = q)
    BY DEF Ranks, GroupAssumption
  <2> QED
    BY <1>3, <1>6, <2>1, <2>2, SemIs
<1> QED
  BY <1>1, <1>4, <1>5, <1>6

LEMMA DevLinked ==
  ASSUME GroupAssumption, r >= 2, NEW L, Laid(L),
         NEW S, NEW J, NEW D, NEW W, NEW cu, NEW v, DevTeam(S, J, D, W, L, cu, v)
  PROVE  Linked(S, J) /\ \A a \in S : Working(J[a], L, D[a])
<1>1. ASSUME NEW a \in S PROVE Working(J[a], L, D[a]) /\ Signals(J, a, W, v)
  <2>1. ASSUME NEW g \in Ranks, a = Cu(g) PROVE Working(J[a], L, D[a]) /\ Signals(J, a, W, v)
    BY <2>1 DEF DevTeam, CuDuty, CuTalk, Signals
  <2>2. ASSUME NEW g \in Ranks, NEW q \in Ranks \ {g}, a = Sdma(g, q)
        PROVE  Working(J[a], L, D[a]) /\ Signals(J, a, W, v)
    BY <2>2 DEF DevTeam, RestDuty, RestTalk, Signals
  <2> QED
    BY <2>1, <2>2 DEF DevTeam
<1>2. \A a, b \in S : a # b => W[a] \cap W[b] = {}
  BY SemsApart
<1>3. \A a, b \in S : a # b => \A d \in D[a], e \in D[b] : Waited(S, J, L, a, d, b, e)
  <2> SUFFICES ASSUME NEW a \in S, NEW b \in S, a # b, NEW d \in D[a], NEW e \in D[b]
               PROVE  Waited(S, J, L, a, d, b, e)
    OBVIOUS
  <2>1. IsMove(L, d) /\ IsMove(L, e)
    BY <1>1 DEF Working, AreMoves
  <2> QED
    BY <2>1, DevWaited
<1>4. LinkedBy(S, J, L, D, W, v)
  BY <1>1, <1>2, <1>3 DEF LinkedBy, Working
<1> QED
  BY <1>1, <1>4, LinkedIs

(* The agents of the dual-path scheme with their jobs.                     *)
DevAgents == Queues("cu", Ranks) \cup Grid(Others)
DevJobs(S, J, D, L, clv, cu, v) ==
  /\ S = DevAgents
  /\ \A g \in Ranks : J[Cu(g)] = AllreduceDualpath(g, clv, cu, v) /\ D[Cu(g)] = CuDoes(L, g, clv, cu)
  /\ \A g \in Ranks : \A q \in Ranks \ {g} :
       J[Sdma(g, q)] = DualpathSdma(g, q, clv, cu, v) /\ D[Sdma(g, q)] = RestDoes(L, g, q, clv, cu)

LEMMA DevNames ==
  ASSUME GroupAssumption
  PROVE  /\ \A g \in Ranks : Cu(g) \in DevAgents /\ Cu(g)[1] = "cu" /\ Cu(g)[2] = g
         /\ \A g \in Ranks : \A q \in Ranks \ {g} :
              /\ Sdma(g, q) \in DevAgents /\ Sdma(g, q)[1] = "sdma"
              /\ Sdma(g, q)[2] = g /\ Sdma(g, q)[3] = q
         /\ \A a \in DevAgents : \/ \E g \in Ranks : a = Cu(g)
                                 \/ \E g \in Ranks : \E q \in Ranks \ {g} : a = Sdma(g, q)
<1>1. \A g : Cu(g)[1] = "cu" /\ Cu(g)[2] = g
  BY DEF Cu, Queue
<1>2. \A g, q : Sdma(g, q)[1] = "sdma" /\ Sdma(g, q)[2] = g /\ Sdma(g, q)[3] = q
  BY DEF Sdma
<1>3. \A g \in Ranks : Cu(g) \in DevAgents
  BY DEF DevAgents, Queues, Cu
<1>4. \A g \in Ranks : \A q \in Ranks \ {g} : Sdma(g, q) \in DevAgents
  <2> SUFFICES ASSUME NEW g \in Ranks, NEW q \in Ranks \ {g} PROVE Sdma(g, q) \in Grid(Others)
    BY DEF DevAgents
  <2>1. <<g, q>> \in Others
    BY DEF Others
  <2> QED
    BY <2>1, GridNames, PeerPairs
<1>5. ASSUME NEW a \in DevAgents
      PROVE  \/ \E g \in Ranks : a = Cu(g)
             \/ \E g \in Ranks : \E q \in Ranks \ {g} : a = Sdma(g, q)
  <2>1. CASE a \in Queues("cu", Ranks)
    BY <2>1 DEF Queues, Cu
  <2>2. CASE a \in Grid(Others)
    <3>1. a = Sdma(a[2], a[3]) /\ <<a[2], a[3]>> \in Others
      BY <2>2, GridNames, PeerPairs
    <3>2. a[2] \in Ranks /\ a[3] \in Ranks /\ a[2] # a[3]
      BY <3>1 DEF Others
    <3> QED
      BY <3>1, <3>2
  <2> QED
    BY <2>1, <2>2 DEF DevAgents
<1> QED
  BY <1>1, <1>2, <1>3, <1>4, <1>5

LEMMA DevTeamOf ==
  ASSUME GroupAssumption, r >= 2, NEW L, NEW clv, NEW cu, DevShape(L, clv, cu), NEW v
  PROVE  \E S, J, D, W : DevJobs(S, J, D, L, clv, cu, v) /\ DevTeam(S, J, D, W, L, cu, v)
<1>1. PICK S, J, D, W :
        /\ S = DevAgents
        /\ J = [a \in S |-> IF a[1] = "cu" THEN AllreduceDualpath(a[2], clv, cu, v)
                                           ELSE DualpathSdma(a[2], a[3], clv, cu, v)]
        /\ D = [a \in S |-> IF a[1] = "cu" THEN CuDoes(L, a[2], clv, cu)
                                           ELSE RestDoes(L, a[2], a[3], clv, cu)]
        /\ W = [a \in S |-> IF a[1] = "cu" THEN FlagsBy(a[2]) \cup {Sem(a[2], r)}
                                           ELSE {Sem(a[2], a[3]), Sem(a[2], r + 1 + a[3])}]
  OBVIOUS
<1>2. ASSUME NEW g \in Ranks
      PROVE  /\ Cu(g) \in S /\ J[Cu(g)] = AllreduceDualpath(g, clv, cu, v)
             /\ D[Cu(g)] = CuDoes(L, g, clv, cu) /\ W[Cu(g)] = FlagsBy(g) \cup {Sem(g, r)}
  BY <1>1, DevNames
<1>3. ASSUME NEW g \in Ranks, NEW q \in Ranks \ {g}
      PROVE  /\ Sdma(g, q) \in S /\ J[Sdma(g, q)] = DualpathSdma(g, q, clv, cu, v)
             /\ D[Sdma(g, q)] = RestDoes(L, g, q, clv, cu)
             /\ W[Sdma(g, q)] = {Sem(g, q), Sem(g, r + 1 + q)}
  <2>1. Sdma(g, q) \in S /\ Sdma(g, q)[1] # "cu" /\ Sdma(g, q)[2] = g /\ Sdma(g, q)[3] = q
    BY <1>1, DevNames
  <2>2. J[Sdma(g, q)] = DualpathSdma(g, q, clv, cu, v)
    BY <1>1, <2>1
  <2>3. D[Sdma(g, q)] = RestDoes(L, g, q, clv, cu)
    BY <1>1, <2>1
  <2>4. W[Sdma(g, q)] = {Sem(g, q), Sem(g, r + 1 + q)}
    BY <1>1, <2>1
  <2> QED
    BY <2>1, <2>2, <2>3, <2>4
<1>4. ASSUME NEW g \in Ranks PROVE CuDuty(S, J, D, W, L, g, cu, v)
  <2>1. PICK w, E : w = AllreduceDualpath(g, clv, cu, v) /\ E = CuDoes(L, g, clv, cu)
    OBVIOUS
  <2>2. Working(w, L, E) /\ CuTalk(w, g, v) /\ CuMoves(w, L, E, g, cu, v)
    BY <2>1, CuWorks
  <2> QED
    BY <1>2, <2>1, <2>2 DEF CuDuty
<1>5. ASSUME NEW g \in Ranks, NEW q \in Ranks \ {g} PROVE RestDuty(S, J, D, W, L, g, q, cu, v)
  <2>1. PICK w, E : w = DualpathSdma(g, q, clv, cu, v) /\ E = RestDoes(L, g, q, clv, cu)
    OBVIOUS
  <2>2. Working(w, L, E) /\ RestTalk(w, g, q, v) /\ RestMoves(w, L, E, g, q, cu, v)
    BY <2>1, RestWorks
  <2> QED
    BY <1>3, <2>1, <2>2 DEF RestDuty
<1>6. DevTeam(S, J, D, W, L, cu, v)
  <2>1. cu \in Nat
    BY DEF DevShape
  <2> QED
    BY <1>1, <1>4, <1>5, <2>1, DevNames DEF DevTeam
<1>7. DevJobs(S, J, D, L, clv, cu, v)
  BY <1>1, <1>2, <1>3 DEF DevJobs
<1> QED
  BY <1>6, <1>7

(* The words they signal are words of the group.                           *)
LEMMA DevCalling ==
  ASSUME GroupAssumption, NEW S, NEW J, NEW D, NEW W, NEW L, NEW cu, NEW v, DevTeam(S, J, D, W, L, cu, v)
  PROVE  Calling(S, J, v)
<1>1. \A g, h \in Ranks : Flag(h, g) \in Words(r)
  BY DEF Words, Ranks, Flag
<1>2. \A g \in Ranks : Sem(g, r) \in Words(r)
  BY DEF Words, Ranks, Sem, GroupAssumption
<1>3. \A g, q \in Ranks : Sem(g, q) \in Words(r) /\ Sem(g, r + 1 + q) \in Words(r)
  BY DEF Words, Ranks, Sem, GroupAssumption
<1>4. ASSUME NEW g \in Ranks, NEW x \in Does(J[Cu(g)]), x.op = "signal"
      PROVE  x.word \in Words(r) /\ x.val = v
  <2>1. x.word \in FlagsBy(g) \cup {Sem(g, r)} /\ x = Sig(x.word, v)
    BY <1>4 DEF DevTeam, CuDuty, CuTalk
  <2>2. x.word \in Words(r)
    BY <1>1, <1>2, <2>1 DEF FlagsBy
  <2> QED
    BY <2>1, <2>2, SigFields
<1>5. ASSUME NEW g \in Ranks, NEW q \in Ranks \ {g}, NEW x \in Does(J[Sdma(g, q)]), x.op = "signal"
      PROVE  x.word \in Words(r) /\ x.val = v
  <2>1. x.word \in {Sem(g, q), Sem(g, r + 1 + q)} /\ x = Sig(x.word, v)
    BY <1>5 DEF DevTeam, RestDuty, RestTalk
  <2>2. x.word \in Words(r)
    BY <1>3, <2>1
  <2> QED
    BY <2>1, <2>2, SigFields
<1> QED
  BY <1>4, <1>5 DEF Calling, DevTeam

(* They serve the vector.                                                  *)
LEMMA BitReach ==
  ASSUME NEW L, NEW kind, NEW k, NEW X, NEW p, NEW c, NEW off \in Nat, NEW m \in Nat,
         Bit(p, c, off, m) \in X, NEW o \in Nat, off <= o, o < off + m,
         NEW E, Spread(L, kind, k, X) \subseteq E
  PROVE  Reach(E, kind, k, p, c, o)
<1>1. <<p, c, off, m>> \in X
  BY DEF Bit
<1>2. Reach(Spread(L, kind, k, X), kind, k, p, c, o)
  BY <1>1, SpreadReach
<1> QED
  BY <1>2, ReachMore

LEMMA DevReaches ==
  ASSUME GroupAssumption, NEW L, NEW clv, NEW cu, DevShape(L, clv, cu),
         NEW E, \A g \in Ranks : CuDoes(L, g, clv, cu) \subseteq E,
         \A g \in Ranks : \A q \in Ranks \ {g} : RestDoes(L, g, q, clv, cu) \subseteq E,
         NEW c \in Ranks, NEW p \in Ranks, NEW o \in Nat, o < clv
  PROVE  /\ Reach(E, "staged", "stage", c, c, o) /\ Reach(E, "scatter", "stage", p, c, o)
         /\ p # c => Reach(E, "gather", "stage", p, c, o)
<1>1. PICK z : z = 0
  OBVIOUS
<1>2. clv \in Nat /\ cu \in Nat /\ clv - cu \in Nat /\ z \in Nat /\ z <= o /\ z + clv = clv /\ z + cu = cu
      /\ cu + (clv - cu) = clv
  BY <1>1 DEF DevShape
<1>3. Reach(E, "staged", "stage", c, c, o)
  <2>1. Bit(c, c, z, clv) \in CuOwn(c, clv)
    BY <1>1 DEF CuOwn
  <2>2. Spread(L, "staged", "stage", CuOwn(c, clv)) \subseteq E
    BY DEF CuDoes
  <2>3. o < z + clv
    BY <1>2
  <2> QED
    BY <1>2, <2>1, <2>2, <2>3, BitReach
<1>4. CASE o < cu
  <2>1. Reach(E, "scatter", "stage", p, c, o)
    <3>1. PICK m : m = CuLen(p, c, clv, cu)
      OBVIOUS
    <3>2. Bit(p, c, z, m) \in CuScatter(p, clv, cu)
      BY <1>1, <3>1 DEF CuScatter
    <3>3. Spread(L, "scatter", "stage", CuScatter(p, clv, cu)) \subseteq E
      BY DEF CuDoes
    <3>4. m \in Nat /\ o < z + m
      BY <1>2, <1>4, <3>1 DEF CuLen
    <3> QED
      BY <1>2, <3>2, <3>3, <3>4, BitReach
  <2>2. ASSUME p # c PROVE Reach(E, "gather", "stage", p, c, o)
    <3>1. Bit(p, c, z, cu) \in CuPush(c, cu)
      BY <1>1, <2>2 DEF CuPush
    <3>2. Spread(L, "gather", "stage", CuPush(c, cu)) \subseteq E
      BY DEF CuDoes
    <3>3. o < z + cu
      BY <1>2, <1>4
    <3> QED
      BY <1>2, <3>1, <3>2, <3>3, BitReach
  <2> QED
    BY <1>3, <2>1, <2>2
<1>5. CASE ~(o < cu) /\ p # c
  <2>1. Reach(E, "scatter", "stage", p, c, o)
    <3>1. Bit(p, c, cu, clv - cu) \in RestScatter(p, c, clv, cu)
      BY DEF RestScatter
    <3>2. Spread(L, "scatter", "stage", RestScatter(p, c, clv, cu)) \subseteq E
      BY <1>5 DEF RestDoes
    <3>3. cu <= o /\ o < cu + (clv - cu)
      BY <1>2, <1>5
    <3> QED
      BY <1>2, <3>1, <3>2, <3>3, BitReach
  <2>2. Reach(E, "gather", "stage", p, c, o)
    <3>1. Bit(p, c, cu, clv - cu) \in RestPush(c, p, clv, cu)
      BY DEF RestPush
    <3>2. Spread(L, "gather", "stage", RestPush(c, p, clv, cu)) \subseteq E
      BY <1>5 DEF RestDoes
    <3>3. cu <= o /\ o < cu + (clv - cu)
      BY <1>2, <1>5
    <3> QED
      BY <1>2, <3>1, <3>2, <3>3, BitReach
  <2> QED
    BY <1>3, <2>1, <2>2
<1>6. CASE p = c
  <2>1. PICK m : m = CuLen(p, c, clv, cu)
    OBVIOUS
  <2>2. Bit(p, c, z, m) \in CuScatter(p, clv, cu)
    BY <1>1, <2>1 DEF CuScatter
  <2>3. Spread(L, "scatter", "stage", CuScatter(p, clv, cu)) \subseteq E
    BY DEF CuDoes
  <2>4. m \in Nat /\ o < z + m
    BY <1>2, <1>6, <2>1 DEF CuLen
  <2>5. Reach(E, "scatter", "stage", p, c, o)
    BY <1>2, <2>2, <2>3, <2>4, BitReach
  <2> QED
    BY <1>3, <1>6, <2>5
<1> QED
  BY <1>4, <1>5, <1>6

LEMMA DevServes ==
  ASSUME GroupAssumption, NEW L, NEW clv, NEW cu, DevShape(L, clv, cu),
         NEW E, \A g \in Ranks : CuDoes(L, g, clv, cu) \subseteq E,
         \A g \in Ranks : \A q \in Ranks \ {g} : RestDoes(L, g, q, clv, cu) \subseteq E
  PROVE  Serves(L, E, "stage")
<1> SUFFICES ASSUME NEW c \in Ranks, NEW o \in Nat, Cell(L, "stage", c, o)
             PROVE  Plainly(E, "stage", c, o)
  BY DEF Serves
<1>1. o < clv
  BY DEF Cell, DevShape
<1>2. \A p \in Ranks : Reach(E, "scatter", "stage", p, c, o)
  BY <1>1, DevReaches
<1>3. Reach(E, "staged", "stage", c, c, o)
  BY <1>1, DevReaches
<1>4. \A p \in Ranks \ {c} : Reach(E, "gather", "stage", p, c, o)
  BY <1>1, DevReaches
<1> QED
  BY <1>2, <1>3, <1>4 DEF Plainly, Summed, Gathered

DevBlocks(S, J, clv, cu, v, f, p, q) ==
  /\ f = [i \in 1..r |-> [j \in 1..r |->
            IF j - 1 = i - 1 THEN <<>>
            ELSE Refill(Sdma(i - 1, j - 1), DualpathSdma(i - 1, j - 1, clv, cu, v))]]
  /\ p = [i \in 1..r |-> FlattenSeq(f[i])]
  /\ q = [i \in 1..r |-> Arm(Cu(i - 1), AllreduceDualpath(i - 1, clv, cu, v))]

LEMMA DevHands ==
  ASSUME GroupAssumption, NEW S, NEW J, NEW D, NEW L, NEW clv, NEW cu, NEW v,
         DevJobs(S, J, D, L, clv, cu, v), NEW f, NEW p, NEW q, DevBlocks(S, J, clv, cu, v, f, p, q)
  PROVE  Hands(FlattenSeq(p) \o FlattenSeq(q), S, J)
<1>1. Hands(FlattenSeq(p), Grid(Others), J)
  <2>1. \A i, j \in 1..r : IF <<i - 1, j - 1>> \in Others
                           THEN HandsAgent(f[i][j], Sdma(i - 1, j - 1), J)
                           ELSE f[i][j] = <<>>
    <3> SUFFICES ASSUME NEW i \in 1..r, NEW j \in 1..r
                 PROVE  IF <<i - 1, j - 1>> \in Others
                        THEN HandsAgent(f[i][j], Sdma(i - 1, j - 1), J) ELSE f[i][j] = <<>>
      OBVIOUS
    <3>1. PICK g \in Ranks, h \in Ranks : g = i - 1 /\ h = j - 1
      BY RankIndex
    <3>2. f[i][j] = IF h = g THEN <<>> ELSE Refill(Sdma(g, h), DualpathSdma(g, h, clv, cu, v))
      BY <3>1 DEF DevBlocks
    <3>3. h # g => J[Sdma(g, h)] = DualpathSdma(g, h, clv, cu, v)
      BY DEF DevJobs
    <3>4. h # g => HandsAgent(f[i][j], Sdma(g, h), J)
      BY <3>2, <3>3 DEF HandsAgent
    <3>5. <<i - 1, j - 1>> \in Others <=> h # g
      BY <3>1, PeerPairs
    <3> QED
      BY <3>1, <3>2, <3>4, <3>5
  <2>2. /\ p = [i \in 1..r |-> p[i]] /\ \A i \in 1..r : p[i] = FlattenSeq(f[i])
        /\ \A i \in 1..r : f[i] = [j \in 1..r |-> f[i][j]]
    BY DEF DevBlocks
  <2>3. \A i \in 1..r : \A j \in 1..r : IF <<i - 1, j - 1>> \in Others
                           THEN HandsAgent(f[i][j], Sdma(i - 1, j - 1), J)
                           ELSE f[i][j] = <<>>
    BY <2>1
  <2>4. GridHanded(p, f, r, Others, J)
    BY <2>2, <2>3 DEF GridHanded
  <2> QED
    BY <2>4, PeerPairs, GridHands
<1>2. Hands(FlattenSeq(q), Queues("cu", Ranks), J)
  <2>1. \A i \in 1..r : HandsAgent(q[i], Queue("cu", i - 1), J)
    <3> SUFFICES ASSUME NEW i \in 1..r PROVE HandsAgent(q[i], Cu(i - 1), J)
      BY DEF Cu
    <3>1. PICK g \in Ranks : g = i - 1
      BY RankIndex
    <3>2. q[i] = Arm(Cu(g), AllreduceDualpath(g, clv, cu, v))
      BY <3>1 DEF DevBlocks
    <3>3. J[Cu(g)] = AllreduceDualpath(g, clv, cu, v)
      BY DEF DevJobs
    <3> QED
      BY <3>1, <3>2, <3>3 DEF HandsAgent
  <2>2. q = [i \in 1..r |-> q[i]]
    BY DEF DevBlocks
  <2> QED
    BY <2>1, <2>2, RankIndex, QueueHands
<1>3. Grid(Others) \cap Queues("cu", Ranks) = {}
  BY PeerPairs, AgentSets
<1>4. S = Grid(Others) \cup Queues("cu", Ranks)
  BY DEF DevJobs, DevAgents
<1> QED
  BY <1>1, <1>2, <1>3, <1>4, HandsJoin

(* The device-coordinated scheme.                                          *)
LEMMA DevShapeOf ==
  ASSUME GroupAssumption, NEW len \in 0..Capacity, len % (4 * r) = 0, ShareFacts(len),
         NEW clv, clv = Share4(len), NEW cu, cu = (clv * 45) \div 100
  PROVE  DevShape(Vector(len), clv, cu)
<1>1. EvenFacts(len, clv)
  BY EvenShares
<1>2. clv \in Nat /\ Clv(len) = clv /\ Groups(len) = r * clv
  BY <1>1 DEF EvenFacts
<1>3. cu \in 0..clv
  BY <1>2
<1>4. Vector(len)["stage"] = Part(0, clv, r * clv) /\ Laid(Vector(len))
  <2>1. PartOf(Vector(len), "stage", 0, len) /\ Laid(Vector(len))
    BY VectorFacts
  <2>2. Groups(len) \in Nat
    BY DEF ShareFacts
  <2>3. 0 + Groups(len) = r * clv
    BY <1>2, <2>2
  <2> QED
    BY <1>2, <2>1, <2>3 DEF PartOf
<1>5. \A c \in Ranks : c * clv \in Nat /\ c * clv + clv <= r * clv
  BY <1>2 DEF ShareFacts
<1> QED
  BY <1>2, <1>3, <1>4, <1>5, PartFields DEF DevShape

LEMMA DevhybridPlanned ==
  ASSUME GroupAssumption, r >= 2, NEW len \in 0..Capacity, len % (4 * r) = 0, ShareFacts(len)
  PROVE  Planned(Devhybrid(len), Vector(len), seq + 1)
<1>1. PICK L, v, clv, cu : L = Vector(len) /\ v = seq + 1 /\ clv = Share4(len) /\ cu = (clv * 45) \div 100
  OBVIOUS
<1>2. DevShape(L, clv, cu)
  BY <1>1, DevShapeOf
<1>3. Laid(L) /\ \A D : Serves(L, D, "stage_b")
  BY <1>1, VectorFacts
<1>4. PICK S, J, D, W : DevJobs(S, J, D, L, clv, cu, v) /\ DevTeam(S, J, D, W, L, cu, v)
  BY <1>2, DevTeamOf
<1>5. Linked(S, J) /\ \A a \in S : Working(J[a], L, D[a])
  BY <1>3, <1>4, DevLinked
<1>6. Calling(S, J, v)
  BY <1>4, DevCalling
<1>7. PICK f, p, q : DevBlocks(S, J, clv, cu, v, f, p, q)
  BY DEF DevBlocks
<1>8. PICK w : w = [i \in 1..r |-> Wait(Cu(i - 1))]
  OBVIOUS
<1>9. Devhybrid(len) = ((FlattenSeq(p) \o FlattenSeq(q)) \o FlattenSeq(w)) \o WaitWrites
  BY <1>1, <1>7, <1>8 DEF Devhybrid, WaitWrites, EachPeer, EachRank, DevBlocks
<1>10. PICK u : u = FlattenSeq(p) \o FlattenSeq(q)
  OBVIOUS
<1>11. Hands(u, S, J)
  BY <1>4, <1>7, <1>10, DevHands
<1>12. PICK E : E = UNION {D[a] : a \in S}
  OBVIOUS
<1>13. Orderly(u, L, E, S)
  <2>1. \A a \in S : Job(J[a], L, D[a], a \in S)
    BY <1>5 DEF Job, Working
  <2> QED
    BY <1>11, <1>12, <2>1, BlockOrderly
<1>14. WaitBlock(FlattenSeq(w), Queues("cu", Ranks))
  <2>1. \A i \in 1..r : w[i] = Wait(Queue("cu", i - 1))
    BY <1>8 DEF Cu
  <2> QED
    BY <1>8, <2>1, RankIndex, QueueWaits
<1>15. WaitBlock(WaitWrites, Grid(Others))
  BY WaitForPeers
<1>16. PICK x, y : x = FlattenSeq(w) /\ y = WaitWrites
  OBVIOUS
<1>17. Orderly((u \o x) \o y, L, E, S)
  <2>1. Orderly(u \o x, L, E, S)
    BY <1>13, <1>14, <1>16, ThenWaits
  <2> QED
    BY <1>15, <1>16, <2>1, ThenWaits
<1>18. WaitBlock(x \o y, Queues("cu", Ranks) \cup Grid(Others))
  BY <1>14, <1>15, <1>16, WaitsJoin
<1>19. ArmedOnce(S, J, u \o (x \o y)) /\ \A a \in S : ToCome(u \o (x \o y), a)
  <2>1. IsSeq(x \o y) /\ Spares(x \o y, S)
    BY <1>18, BlockSeqs, SparesWaits
  <2> QED
    BY <1>11, <2>1, HandsPlan
<1>20. u \o (x \o y) = (u \o x) \o y
  <2>1. IsSeq(u) /\ IsSeq(x) /\ IsSeq(y)
    BY <1>11, <1>14, <1>15, <1>16, HandsSeq, BlockSeqs
  <2> QED
    BY <2>1, JoinThree DEF Three
<1>21. S \subseteq Agents
  <2>1. Queues("cu", Ranks) \subseteq Agents /\ Grid(Others) \subseteq Agents
    BY AgentSets, PeerPairs
  <2> QED
    BY <1>4, <2>1 DEF DevJobs, DevAgents
<1>22. PICK z : z = (u \o x) \o y
  OBVIOUS
<1>23. ArmedOnce(S, J, z) /\ (\A a \in S : ToCome(z, a)) /\ Orderly(z, L, E, S)
  BY <1>17, <1>19, <1>20, <1>22
<1>24. Plan(z, L, E, S, J, v)
  BY <1>5, <1>6, <1>21, <1>23 DEF Plan, Calling
<1>25. Serves(L, E, "stage")
  <2>1. \A g \in Ranks : CuDoes(L, g, clv, cu) \subseteq E
    BY <1>4, <1>12, DevNames DEF DevJobs
  <2>2. \A g \in Ranks : \A h \in Ranks \ {g} : RestDoes(L, g, h, clv, cu) \subseteq E
    BY <1>4, <1>12, DevNames DEF DevJobs
  <2> QED
    BY <1>2, <2>1, <2>2, DevServes
<1>26. Devhybrid(len) = z
  BY <1>9, <1>10, <1>16, <1>22
<1> QED
  BY <1>1, <1>3, <1>24, <1>25, <1>26 DEF Planned

-----------------------------------------------------------------------------
(* Every place of the vector, of e groups, is in a cell of the layout.      *)
PlaceIn(L, k, c, o, i) == Cell(L, k, c, o) /\ i = L[k].base + c * L[k].slot + o
Tiled(L, e) ==
  /\ \A k \in Kinds : L[k].end <= e
  /\ \A i \in Nat : i < e => \E k \in Kinds, c \in Ranks, o \in Nat : PlaceIn(L, k, c, o, i)

LEMMA WholeEnds ==
  ASSUME NEW s, NEW e \in Nat
  PROVE  \A k \in Kinds : Whole(s, e)[k].end <= e
<1>1. \A k \in Kinds : Whole(s, e)[k].end = e
  BY PartFields DEF Whole, Layout, Kinds
<1> QED
  BY <1>1

LEMMA InShares ==
  ASSUME GroupAssumption, NEW s \in Nat, NEW j \in Nat, NEW x, x = r * s, j < x
  PROVE  \E c \in Ranks, o \in Nat : j = c * s + o /\ o < s
<1>1. s \in Nat \ {0} /\ r \in Nat \ {0}
  BY DEF GroupAssumption
<1>2. PICK c \in Int, y \in Int : c = j \div s /\ y = s * c /\ y = c * s /\ y <= j /\ j < y + s
  BY <1>1, DivBounds
<1>3. c \in Nat
  <2>1. SUFFICES ASSUME c < 0 PROVE FALSE
    OBVIOUS
  <2>2. s * (c + 1) <= 0
    BY <1>1, <2>1
  <2>3. s * (c + 1) = y + s
    BY <1>1, <1>2
  <2> QED
    BY <1>1, <1>2, <2>2, <2>3
<1>4. c < r
  <2>1. SUFFICES ASSUME r <= c PROVE FALSE
    BY <1>1
  <2>2. r * s <= c * s
    BY <1>1, <1>3, <2>1
  <2>3. r * s \in Nat
    BY <1>1
  <2> QED
    BY <1>2, <2>2, <2>3
<1>5. PICK o : o = j - y
  OBVIOUS
<1>6. o \in Nat /\ o < s /\ j = y + o
  BY <1>1, <1>2, <1>5
<1>7. c \in Ranks
  BY <1>1, <1>3, <1>4 DEF Ranks
<1> QED
  BY <1>2, <1>6, <1>7

LEMMA ShareTiles ==
  ASSUME GroupAssumption, NEW L, NEW k, NEW base, NEW len \in 0..Capacity, PartOf(L, k, base, len),
         NEW j \in Nat, j < Groups(len)
  PROVE  \E c \in Ranks, o \in Nat : PlaceIn(L, k, c, o, base + j)
<1>1. PICK s : s = Clv(len)
  OBVIOUS
<1>2. s \in Nat /\ len \in Nat /\ len <= r * (4 * s) /\ r \in Nat
  BY <1>1, ClvIs DEF GroupAssumption
<1>3. PICK x \in Nat : x = r * s
  BY <1>2
<1>4. len <= 4 * x
  BY <1>2, <1>3
<1>5. Groups(len) <= x /\ Groups(len) \in Nat
  BY <1>2, <1>4 DEF Groups, CeilDiv
<1>6. PICK c \in Ranks, o \in Nat : j = c * s + o /\ o < s
  <2>1. j < x
    BY <1>5
  <2> QED
    BY <1>2, <1>3, <2>1, InShares
<1>7. L[k].base = base /\ L[k].slot = s /\ L[k].end = base + Groups(len) /\ base \in Nat
  BY <1>1, PartFields DEF PartOf
<1>8. c * s \in Nat
  BY <1>2, <1>6 DEF Ranks
<1>9. PlaceIn(L, k, c, o, base + j)
  BY <1>5, <1>6, <1>7, <1>8 DEF PlaceIn, Cell
<1> QED
  BY <1>9

LEMMA VectorTiled ==
  ASSUME GroupAssumption, NEW len \in 0..Capacity, ShareFacts(len)
  PROVE  Laid(Vector(len)) /\ Tiled(Vector(len), Groups(len))
<1>1. Laid(Vector(len)) /\ PartOf(Vector(len), "stage", 0, len) /\ "stage" \in Kinds
  BY VectorFacts
<1>2. ASSUME NEW i \in Nat, i < Groups(len)
      PROVE  \E k \in Kinds, c \in Ranks, o \in Nat : PlaceIn(Vector(len), k, c, o, i)
  <2>1. \E c \in Ranks, o \in Nat : PlaceIn(Vector(len), "stage", c, o, 0 + i)
    BY <1>1, <1>2, ShareTiles
  <2>2. 0 + i = i
    OBVIOUS
  <2> QED
    BY <1>1, <2>1, <2>2
<1>3. \A k \in Kinds : Vector(len)[k].end <= Groups(len)
  BY WholeEnds DEF Vector, ShareFacts
<1> QED
  BY <1>1, <1>2, <1>3 DEF Tiled

LEMMA WholeTiled ==
  ASSUME GroupAssumption, NEW e \in Nat
  PROVE  Laid(Whole(e, e)) /\ Tiled(Whole(e, e), e)
<1>1. Laid(Whole(e, e)) /\ Whole(e, e)["stage"] = Part(0, e, e)
  BY WholeLaid
<1>2. PICK L, c : L = Whole(e, e) /\ c = 0
  OBVIOUS
<1>3. L["stage"].base = 0 /\ L["stage"].slot = e /\ L["stage"].end = e /\ c \in Ranks /\ c * e = 0
  BY <1>1, <1>2, PartFields DEF Ranks, GroupAssumption
<1>4. ASSUME NEW i \in Nat, i < e PROVE PlaceIn(L, "stage", c, i, i)
  BY <1>3, <1>4 DEF PlaceIn, Cell
<1>5. \A k \in Kinds : L[k].end <= e
  BY <1>2, WholeEnds
<1>6. "stage" \in Kinds
  BY DEF Kinds
<1> QED
  BY <1>1, <1>2, <1>3, <1>4, <1>5, <1>6 DEF Tiled

LEMMA HalvesTiled ==
  ASSUME GroupAssumption, NEW len \in 0..Capacity
  PROVE  Laid(Halves(len)) /\ Tiled(Halves(len), Groups(len))
<1>1. PICK L, an, base : L = Halves(len) /\ an = PartA(len) /\ base = an \div 4
  OBVIOUS
<1>2. /\ an \in 0..Capacity /\ len - an \in 0..Capacity /\ base \in Nat
      /\ Groups(an) = base /\ Groups(len) = base + Groups(len - an)
      /\ Laid(L) /\ PartOf(L, "stage", 0, an) /\ PartOf(L, "stage_b", base, len - an)
  BY <1>1, HalvesFacts
<1>3. ASSUME NEW i \in Nat, i < Groups(len)
      PROVE  \E k \in Kinds, c \in Ranks, o \in Nat : PlaceIn(L, k, c, o, i)
  <2>1. CASE i < base
    <3>1. \E c \in Ranks, o \in Nat : PlaceIn(L, "stage", c, o, 0 + i)
      BY <1>2, <2>1, ShareTiles
    <3>2. 0 + i = i
      OBVIOUS
    <3> QED
      BY <3>1, <3>2 DEF Kinds
  <2>2. CASE ~(i < base)
    <3>1. PICK j \in Nat : i = base + j
      BY <1>2, <2>2
    <3>2. Groups(len - an) \in Nat
      BY <1>2 DEF PartOf, ShareFacts
    <3>3. j < Groups(len - an)
      BY <1>2, <1>3, <3>1, <3>2
    <3>4. \E c \in Ranks, o \in Nat : PlaceIn(L, "stage_b", c, o, base + j)
      BY <1>2, <3>3, ShareTiles
    <3> QED
      BY <3>1, <3>4 DEF Kinds
  <2> QED
    BY <2>1, <2>2
<1>4. \A k \in Kinds : L[k].end <= Groups(len)
  <2>1. L["stage"].end = 0 + Groups(an) /\ L["stage_b"].end = base + Groups(len - an)
    BY <1>2, PartFields DEF PartOf
  <2>2. base \in Nat /\ Groups(len - an) \in Nat
    BY <1>2 DEF PartOf, ShareFacts
  <2>3. L["stage"].end <= Groups(len) /\ L["stage_b"].end <= Groups(len)
    BY <1>2, <2>1, <2>2
  <2> QED
    BY <2>3 DEF Kinds
<1> QED
  BY <1>1, <1>2, <1>3, <1>4 DEF Tiled

-----------------------------------------------------------------------------
(* What the choice of a scheme makes sure of.                              *)
SchemeSuits(s, len) ==
  /\ s \in Schemes
  /\ s # "direct" => ~(r < 2)
  /\ s \in {"hybrid", "devhybrid"} => len % (4 * r) = 0
  /\ s \in {"bidir", "bidir2"} => len % (4 * r * Tiles) = 0

LEMMA SchemeChoice ==
  ASSUME NEW algo \in Algos, NEW len
  PROVE  SchemeSuits(Scheme(algo, len), len)
<1>1. PICK asked : asked = IF algo = "auto" THEN BySize(len) ELSE algo
  OBVIOUS
<1>2. asked \in Schemes
  BY <1>1 DEF Schemes, Algos, BySize
<1>3. PICK split : split = IF NeedsOneshot(asked, len) THEN "oneshot" ELSE asked
  OBVIOUS
<1>4. /\ split \in Schemes
      /\ split \in {"hybrid", "devhybrid", "bidir", "bidir2", "concurrent"} => ~(r < 2)
      /\ split \in {"hybrid", "devhybrid"} => len % (4 * r) = 0
      /\ split \in {"bidir", "bidir2"} => len % (4 * r * Tiles) = 0
  BY <1>2, <1>3 DEF NeedsOneshot, Schemes, Algos
<1>5. PICK whole : whole = IF NeedsRsag(split, len) THEN "rsag_write" ELSE split
  OBVIOUS
<1>6. /\ whole \in Schemes
      /\ whole \in {"hybrid", "devhybrid", "bidir", "bidir2", "concurrent", "oneshot", "sdma"} => ~(r < 2)
      /\ whole \in {"hybrid", "devhybrid"} => len % (4 * r) = 0
      /\ whole \in {"bidir", "bidir2"} => len % (4 * r * Tiles) = 0
  BY <1>4, <1>5 DEF NeedsRsag, Schemes, Algos
<1>7. PICK s : s = IF NeedsDirect(whole) THEN "direct" ELSE whole
  OBVIOUS
<1>8. Scheme(algo, len) = s
  BY <1>1, <1>3, <1>5, <1>7 DEF Scheme
<1>9. SchemeSuits(s, len)
  BY <1>6, <1>7 DEF SchemeSuits, NeedsDirect, Schemes, Algos
<1> QED
  BY <1>8, <1>9

-----------------------------------------------------------------------------
(* Every program keeps the order and serves the whole vector.              *)
Laden(p, len, v) == \E L : Laid(L) /\ Tiled(L, Groups(len)) /\ Planned(p, L, v)

LEMMA LadenVector ==
  ASSUME GroupAssumption, NEW len \in 0..Capacity, ShareFacts(len), NEW p, NEW v,
         Planned(p, Vector(len), v)
  PROVE  Laden(p, len, v)
BY VectorTiled DEF Laden

LEMMA ProgramLaden ==
  ASSUME GroupAssumption, r >= 2, NEW len \in 1..Capacity, NEW s, SchemeSuits(s, len), NEW pull \in BOOLEAN
  PROVE  Laden(Program(s, len, pull), len, seq + 1)
<1>1. len \in 0..Capacity /\ ShareFacts(len)
  BY ShareSizes
<1>2. CASE s = "direct"
  <2>1. Groups(len) \in Nat
    BY <1>1 DEF ShareFacts
  <2>2. Planned(Direct(len), Whole(Groups(len), Groups(len)), seq + 1)
    BY <1>1, DirectRuns, RunsPlanned
  <2> QED
    BY <1>2, <2>1, <2>2, WholeTiled DEF Program, Laden
<1>3. CASE s = "rsag_read"
  <2>1. Planned(Rsag(len, FALSE, pull), Vector(len), seq + 1)
    BY <1>1, RsagRuns, RunsPlanned
  <2> QED
    BY <1>1, <1>3, <2>1, LadenVector DEF Program
<1>4. CASE s = "rsag_write"
  <2>1. Planned(Rsag(len, TRUE, pull), Vector(len), seq + 1)
    BY <1>1, RsagRuns, RunsPlanned
  <2> QED
    BY <1>1, <1>4, <2>1, LadenVector DEF Program
<1>5. CASE s = "oneshot"
  <2>1. Planned(Oneshot(len), Vector(len), seq + 1)
    BY <1>1, OneshotPlanned
  <2> QED
    BY <1>1, <1>5, <2>1, LadenVector DEF Program
<1>6. CASE s = "sdma"
  <2>1. Planned(SdmaRange(0, len, "cu", "stage"), Vector(len), seq + 1)
    BY <1>1, SdmaRuns, RunsPlanned
  <2> QED
    BY <1>1, <1>6, <2>1, LadenVector DEF Program
<1>7. CASE s = "hybrid"
  <2>1. Planned(Hybrid(len), Vector(len), seq + 1)
    BY <1>1, <1>7, HybridRuns, RunsPlanned DEF SchemeSuits
  <2> QED
    BY <1>1, <1>7, <2>1, LadenVector DEF Program
<1>8. CASE s = "concurrent"
  <2>1. Planned(Concurrent(len), Halves(len), seq + 1)
    BY <1>1, ConcurrentPlanned
  <2> QED
    BY <1>1, <1>8, <2>1, HalvesTiled DEF Program, Laden
<1>9. CASE s = "devhybrid"
  <2>1. Planned(Devhybrid(len), Vector(len), seq + 1)
    BY <1>1, <1>9, DevhybridPlanned DEF SchemeSuits
  <2> QED
    BY <1>1, <1>9, <2>1, LadenVector DEF Program
<1>10. CASE s = "bidir"
  <2>1. TileFacts(len)
    BY <1>1, <1>10, TilesEven DEF SchemeSuits
  <2>2. Planned(Bidir(len), Vector(len), seq + 1)
    BY <1>1, <2>1, BidirRuns, RunsPlanned
  <2> QED
    BY <1>1, <1>10, <2>2, LadenVector DEF Program
<1>11. CASE s = "bidir2"
  <2>1. TileFacts(len)
    BY <1>1, <1>11, TilesEven DEF SchemeSuits
  <2>2. Planned(Bidir2(len), Vector(len), seq + 1)
    BY <1>1, <2>1, Bidir2Runs, RunsPlanned
  <2> QED
    BY <1>1, <1>11, <2>2, LadenVector DEF Program
<1> QED
  BY <1>2, <1>3, <1>4, <1>5, <1>6, <1>7, <1>8, <1>9, <1>10, <1>11 DEF SchemeSuits, Schemes, Algos

(* With one GPU there is nothing to do.                                    *)
LEMMA AloneNothing ==
  ASSUME GroupAssumption, ~(r >= 2), NEW len, NEW s, SchemeSuits(s, len), NEW pull
  PROVE  s = "direct" /\ r = 1 /\ Program(s, len, pull) = <<>>
<1>1. r = 1
  BY DEF GroupAssumption
<1>2. s = "direct"
  BY <1>1 DEF SchemeSuits
<1> QED
  BY <1>1, <1>2 DEF Program, Direct

-----------------------------------------------------------------------------
(* What holds of the agents' work t, the commands p to come and the words w*)
(* between the calls and during them.                                      *)
Led(O, S, J, t, p, w) ==
  Arranged(O, S, t, p) /\ Synced(S, J, t, p, w) /\ Named(S, J, DOMAIN w)

LEMMA RigidArranged ==
  ASSUME NEW O, NEW S, NEW t, NEW p, Arranged(O, S, t, p)
  PROVE  Arranged(O, S, t, p)'
BY DEF Arranged, InOrder, Suits, Beside, Ahead, Turn, Fine, WorksApart, WorksAfter, Apart, After, Does,
       Sums, Clash, Disturbs, Overlap, Level, Awaits, IsSeq

LEMMA RigidSynced ==
  ASSUME NEW S, NEW J, NEW t, NEW p, NEW w, Synced(S, J, t, p, w)
  PROVE  Synced(S, J, t, p, w)'
BY DEF Synced, Linked, ArmedOnce, ToCome, Talks, Yet, Once, Does, Prec, Behind, ClosedIn, Leads, Pending,
       After, Clash, Disturbs, Overlap, Level, IsSeq

LEMMA RigidLed ==
  ASSUME NEW O, NEW S, NEW J, NEW t, NEW p, NEW w, Led(O, S, J, t, p, w)
  PROVE  Led(O, S, J, t, p, w)'
<1>1. Named(S, J, DOMAIN w)'
  BY DEF Led, Named, Does
<1> QED
  BY <1>1, RigidArranged, RigidSynced DEF Led

LEMMA LedCall ==
  ASSUME NEW p, NEW L, NEW D, NEW S, NEW J, NEW v, Plan(p, L, D, S, J, v),
         NEW t, DOMAIN t = Agents, \A a \in Agents : t[a] = <<>>,
         NEW w, DOMAIN w = Words(r), \A k \in Words(r) : w[k] # v
  PROVE  Led(Moved(L, D), S, J, t, p, w)
<1>1. Arranged(Moved(L, D), S, t, p)
  BY CallArranged DEF Plan
<1>2. Synced(S, J, t, p, w)
  BY CallSynced
<1>3. Named(S, J, DOMAIN w)
  BY DEF Plan, Named
<1> QED
  BY <1>1, <1>2, <1>3 DEF Led

LEMMA LedArm ==
  ASSUME NEW O, NEW S, NEW J, NEW t, NEW p, NEW w, Led(O, S, J, t, p, w),
         p # <<>>, Head(p).do = "arm", Head(p).agent \in DOMAIN t, IsSeq(Head(p).work),
         NEW u, u = [t EXCEPT ![Head(p).agent] = @ \o Phases(Head(p).work)]
  PROVE  Led(O, S, J, u, Tail(p), w)
<1>1. IsSeq(p) /\ Arranged(O, S, t, p) /\ Synced(S, J, t, p, w)
  BY DEF Led, Arranged
<1>2. PICK c : c = Head(p).agent
  OBVIOUS
<1>3. Arranged(O, S, u, Tail(p))
  <2>1. Arms(t, u, p, c)
    BY <1>2 DEF Arms
  <2> QED
    BY <1>1, <2>1, ArmArranged
<1>4. Synced(S, J, u, Tail(p), w)
  BY <1>1, <1>2, ArmSynced
<1> QED
  BY <1>3, <1>4 DEF Led

LEMMA LedWait ==
  ASSUME NEW O, NEW S, NEW J, NEW t, NEW p, NEW w, Led(O, S, J, t, p, w),
         p # <<>>, Head(p).do = "wait", t[Head(p).agent] = <<>>
  PROVE  Led(O, S, J, t, Tail(p), w)
<1>1. IsSeq(p) /\ Arranged(O, S, t, p) /\ Synced(S, J, t, p, w)
  BY DEF Led, Arranged
<1>2. Arranged(O, S, t, Tail(p))
  BY <1>1, WaitArranged
<1>3. Synced(S, J, t, Tail(p), w)
  BY <1>1, WaitSynced
<1> QED
  BY <1>2, <1>3 DEF Led

LEMMA LedStep ==
  ASSUME NEW O, NEW S, NEW J, NEW t, NEW p, NEW w, Led(O, S, J, t, p, w),
         NEW c \in DOMAIN t, t[c] # <<>>, NEW o \in Head(t[c]),
         o.op = "await" => w[o.word] = o.val,
         NEW u, u = [t EXCEPT ![c] = Left(t[c], o)],
         NEW x, x = IF o.op = "signal" THEN [w EXCEPT ![o.word] = o.val] ELSE w
  PROVE  Led(O, S, J, u, p, x)
<1>1. Arranged(O, S, t, p) /\ Synced(S, J, t, p, w) /\ Named(S, J, DOMAIN w)
  BY DEF Led
<1>2. Arranged(O, S, u, p)
  BY <1>1, StepArranged
<1>3. c \in S \/ o.op = "sum"
  <2>1. Suits(t[c], O, c \in S)
    BY <1>1 DEF Arranged
  <2>2. o \in Does(t[c])
    BY <2>1, HeadDoes DEF Suits, Fine
  <2> QED
    BY <2>1, <2>2 DEF Suits, Sums
<1>4. DOMAIN x = DOMAIN w
  OBVIOUS
<1>5. \A k \in DOMAIN w : x[k] = w[k] \/ (o.op = "signal" /\ k = o.word)
  OBVIOUS
<1>6. Synced(S, J, u, p, x)
  BY <1>1, <1>3, <1>5, StepSynced
<1> QED
  BY <1>1, <1>2, <1>4, <1>6 DEF Led

(* Of two operations that may run at once neither disturbs the other.      *)
LEMMA LedApart ==
  ASSUME NEW O, NEW S, NEW J, NEW t, NEW p, NEW w, Led(O, S, J, t, p, w),
         NEW a \in DOMAIN t, t[a] # <<>>, NEW x \in Head(t[a]), x.op = "sum",
         NEW b \in DOMAIN t, t[b] # <<>>, NEW y \in Head(t[b]), y.op = "sum",
         a # b \/ x # y
  PROVE  ~Disturbs(x, y)
<1>1. Arranged(O, S, t, p) /\ Synced(S, J, t, p, w)
  BY DEF Led
<1>2. CASE a = b
  <2>1. Apart(x, y)
    BY <1>1, <1>2, ReadyFirst
  <2> QED
    BY <2>1 DEF Apart, Clash
<1>3. CASE a # b
  <2>1. Suits(t[a], O, a \in S) /\ Suits(t[b], O, b \in S)
    BY <1>1 DEF Arranged
  <2>2. x \in Does(t[a]) /\ y \in Does(t[b])
    BY <2>1, HeadDoes DEF Suits, Fine
  <2>3. After(x, y)
    BY <1>1, <1>3, <2>2, ReadyFirst
  <2>4. After(y, x)
    BY <1>1, <1>3, <2>2, ReadyFirst
  <2>5. PICK i, j : i = Level(x) /\ j = Level(y)
    OBVIOUS
  <2>6. i \in 0..2 /\ j \in 0..2
    BY <2>5 DEF Level
  <2>7. ~Clash(x, y)
    <3>1. Clash(x, y) => i < j
      BY <2>3, <2>5 DEF After
    <3>2. Clash(x, y) => j < i
      BY <2>4, <2>5 DEF After, Clash
    <3> QED
      BY <2>6, <3>1, <3>2
  <2> QED
    BY <2>7 DEF Clash
<1> QED
  BY <1>2, <1>3

-----------------------------------------------------------------------------
(* The vector group by group: a place is a move of one group.               *)
IsPlace(L, u) == IsMove(L, u) /\ u.len = 1
Hits(d, u) == d.k = u.k /\ d.c = u.c /\ Meet(d, u)
SlotOf(L, d, q) == q * L[d.k].slot + d.off

(* The groups that an operation reads and writes.                          *)
Mem(k, g) == <<k, g>>
Spans(l, len, m, i) == l.mem = m /\ l.at <= i /\ i < l.at + len
Writes(o, m, i) == Spans(o.to, o.len, m, i)
Reads(o, m, i) == \E l \in o.from : Spans(l, o.len, m, i)

Numbered(o) ==
  /\ o.op = "sum" /\ o.len \in Nat /\ o.to.at \in Nat
  /\ \A l \in o.from : l.at \in Nat

LEMMA SlotIsNat ==
  ASSUME GroupAssumption, NEW L, Laid(L), NEW d, IsMove(L, d), NEW q \in Ranks
  PROVE  SlotOf(L, d, q) \in Nat
<1>1. PICK s, o : s = L[d.k].slot /\ o = d.off
  OBVIOUS
<1>2. s \in Nat /\ o \in Nat /\ q \in Nat
  BY <1>1 DEF IsMove, Laid, Ranks, GroupAssumption
<1>3. PICK z \in Nat : z = q * s
  BY <1>2
<1>4. SlotOf(L, d, q) = z + o
  BY <1>1, <1>3 DEF SlotOf
<1> QED
  BY <1>2, <1>3, <1>4

(* Where a place lies in a move that hits it.                              *)
LEMMA HitPlaces ==
  ASSUME GroupAssumption, NEW L, Laid(L), NEW d, IsMove(L, d), NEW u, IsPlace(L, u), Hits(d, u)
  PROVE  \E j \in Nat : /\ d.pos \in Nat /\ d.len \in Nat /\ u.pos \in Nat
                        /\ u.pos = d.pos + j /\ j < d.len /\ d.off \in Nat
                        /\ u.off = d.off + j
                        /\ \A q \in Ranks : SlotOf(L, u, q) = SlotOf(L, d, q) + j
<1>1. PICK x \in Nat : x = d.c * L[d.k].slot /\ d.pos = L[d.k].base + x + d.off
  BY MovePlaces
<1>2. u.pos = L[d.k].base + x + u.off
  BY <1>1 DEF IsPlace, IsMove, Hits
<1>3. /\ d.pos \in Nat /\ d.len \in Nat /\ u.pos \in Nat /\ u.len = 1
      /\ d.pos < u.pos + u.len /\ u.pos < d.pos + d.len
      /\ d.off \in Nat /\ u.off \in Nat /\ L[d.k].base \in Nat
  BY MovePlaces DEF IsPlace, Hits, Meet, IsMove, Laid
<1>4. PICK j : j = u.pos - d.pos
  OBVIOUS
<1>5. j \in Nat /\ u.pos = d.pos + j /\ j < d.len
  BY <1>3, <1>4
<1>6. u.off = d.off + j
  BY <1>1, <1>2, <1>3, <1>5
<1>7. ASSUME NEW q \in Ranks PROVE SlotOf(L, u, q) = SlotOf(L, d, q) + j
  <2>1. PICK s : s = L[d.k].slot
    OBVIOUS
  <2>2. s \in Nat /\ q \in Nat
    BY <2>1 DEF IsMove, Laid, Ranks, GroupAssumption
  <2>3. PICK z \in Nat : z = q * s
    BY <2>2
  <2>4. SlotOf(L, d, q) = z + d.off /\ SlotOf(L, u, q) = z + u.off
    BY <2>1, <2>3 DEF SlotOf, Hits
  <2> QED
    BY <1>3, <1>5, <1>6, <2>3, <2>4
<1> QED
  BY <1>3, <1>5, <1>6, <1>7

LEMMA MoveNumbered ==
  ASSUME GroupAssumption, NEW L, Laid(L), NEW d, IsMove(L, d)
  PROVE  Numbered(Op(L, d))
<1>1. d.pos \in Nat /\ d.len \in Nat /\ d.p \in Ranks
  BY MovePlaces DEF IsMove
<1>2. \A q \in Ranks : q * L[d.k].slot + d.off \in Nat
  BY SlotIsNat DEF SlotOf
<1>3. To(L, d).at \in Nat /\ \A l \in From(L, d) : l.at \in Nat
  BY <1>1, <1>2, OpPlaces DEF IsMove, Buf, StageOf
<1> QED
  BY <1>1, <1>3, OpPlaces DEF Numbered

(* What an operation reads and writes where its move hits a place.         *)
LEMMA HitPoints ==
  ASSUME GroupAssumption, NEW L, Laid(L), NEW d, IsMove(L, d), NEW u, IsPlace(L, u), Hits(d, u)
  PROVE  /\ d.kind = "scatter" =>
              /\ Reads(Op(L, d), Mem("buf", d.p), u.pos)
              /\ Writes(Op(L, d), Mem(u.k, u.c), SlotOf(L, u, d.p))
         /\ d.kind = "direct" =>
              /\ \A q \in Ranks : Reads(Op(L, d), Mem("buf", q), u.pos)
              /\ Writes(Op(L, d), Mem("buf", u.c), u.pos)
         /\ d.kind = "staged" =>
              /\ \A q \in Ranks : Reads(Op(L, d), Mem(u.k, u.c), SlotOf(L, u, q))
              /\ Writes(Op(L, d), Mem("buf", u.c), u.pos)
         /\ d.kind = "gather" =>
              /\ Reads(Op(L, d), Mem("buf", u.c), u.pos)
              /\ Writes(Op(L, d), Mem("buf", d.p), u.pos)
<1>1. PICK j \in Nat : /\ d.pos \in Nat /\ d.len \in Nat /\ u.pos \in Nat
                       /\ u.pos = d.pos + j /\ j < d.len /\ d.off \in Nat
                       /\ u.off = d.off + j
                       /\ \A q \in Ranks : SlotOf(L, u, q) = SlotOf(L, d, q) + j
  BY HitPlaces
<1>2. \A g : Spans(Buf(g, d.pos), d.len, Mem("buf", g), u.pos)
  BY <1>1 DEF Spans, Buf, Mem
<1>3. \A q \in Ranks : Spans(StageOf(d.k, d.c, SlotOf(L, d, q)), d.len, Mem(u.k, u.c), SlotOf(L, u, q))
  BY <1>1, SlotIsNat DEF Spans, StageOf, Mem, Hits
<1>4. CASE d.kind = "scatter"
  <2>1. From(L, d) = {Buf(d.p, d.pos)} /\ To(L, d) = StageOf(d.k, d.c, SlotOf(L, d, d.p)) /\ d.p \in Ranks
    BY <1>4, OpPlaces DEF IsMove, SlotOf
  <2> QED
    BY <1>2, <1>3, <1>4, <2>1, OpPlaces DEF Reads, Writes
<1>5. CASE d.kind = "direct"
  <2>1. From(L, d) = {Buf(q, d.pos) : q \in Ranks} /\ To(L, d) = Buf(u.c, d.pos)
    BY <1>5, OpPlaces DEF Hits
  <2> QED
    BY <1>2, <1>5, <2>1, OpPlaces DEF Reads, Writes
<1>6. CASE d.kind = "staged"
  <2>1. From(L, d) = {StageOf(d.k, d.c, SlotOf(L, d, q)) : q \in Ranks} /\ To(L, d) = Buf(u.c, d.pos)
    BY <1>6, OpPlaces DEF Hits, SlotOf
  <2> QED
    BY <1>2, <1>3, <1>6, <2>1, OpPlaces DEF Reads, Writes
<1>7. CASE d.kind = "gather"
  <2>1. From(L, d) = {Buf(u.c, d.pos)} /\ To(L, d) = Buf(d.p, d.pos)
    BY <1>7, OpPlaces DEF Hits
  <2> QED
    BY <1>2, <1>7, <2>1, OpPlaces DEF Reads, Writes
<1> QED
  BY <1>4, <1>5, <1>6, <1>7

(* An operation that writes a place, or a slot of it, hits it.             *)
LEMMA WriteHits ==
  ASSUME GroupAssumption, NEW L, Laid(L), NEW d, IsMove(L, d), NEW u, IsPlace(L, u),
         NEW g \in Ranks, Writes(Op(L, d), Mem("buf", g), u.pos)
  PROVE  /\ Hits(d, u) /\ d.kind \in {"staged", "direct", "gather"}
         /\ d.kind # "gather" => g = u.c
         /\ d.kind = "gather" => g = d.p
<1>1. Spans(To(L, d), d.len, Mem("buf", g), u.pos)
  BY OpPlaces DEF Writes
<1>2. d.kind # "scatter"
  <2>1. SUFFICES ASSUME d.kind = "scatter" PROVE FALSE
    OBVIOUS
  <2>2. To(L, d) = StageOf(d.k, d.c, d.p * L[d.k].slot + d.off)
    BY <2>1, OpPlaces
  <2>3. d.k = "buf"
    BY <1>1, <2>2 DEF Spans, StageOf, Mem
  <2> QED
    BY <2>3 DEF IsMove, Kinds
<1>3. d.kind \in {"staged", "direct", "gather"}
  BY <1>2 DEF IsMove
<1>4. PICK h : To(L, d) = Buf(h, d.pos) /\ (d.kind = "gather" => h = d.p) /\ (d.kind # "gather" => h = d.c)
  BY <1>3, OpPlaces
<1>5. h = g /\ d.pos <= u.pos /\ u.pos < d.pos + d.len
  BY <1>1, <1>4 DEF Spans, Buf, Mem
<1>6. IsMove(L, u) /\ u.len = 1
  BY DEF IsPlace
<1>7. Meet(d, u)
  <2>1. d.pos \in Nat /\ u.pos \in Nat
    BY <1>6, MovePlaces
  <2> QED
    BY <1>5, <1>6, <2>1 DEF Meet
<1>8. d.k = u.k /\ d.c = u.c
  BY <1>6, <1>7, SameShare
<1> QED
  BY <1>3, <1>4, <1>5, <1>7, <1>8 DEF Hits

LEMMA SlotHits ==
  ASSUME GroupAssumption, NEW L, Laid(L), NEW d, IsMove(L, d), NEW u, IsPlace(L, u),
         NEW q \in Ranks, Writes(Op(L, d), Mem(u.k, u.c), SlotOf(L, u, q))
  PROVE  d.kind = "scatter" /\ Hits(d, u) /\ d.p = q
<1>1. Spans(To(L, d), d.len, Mem(u.k, u.c), SlotOf(L, u, q))
  BY OpPlaces DEF Writes
<1>2. IsMove(L, u) /\ u.len = 1 /\ d.p \in Ranks /\ u.k \in Kinds
  BY DEF IsPlace, IsMove
<1>3. d.kind = "scatter"
  <2>1. SUFFICES ASSUME d.kind # "scatter" PROVE FALSE
    OBVIOUS
  <2>2. PICK h : To(L, d) = Buf(h, d.pos)
    BY <2>1, OpPlaces DEF IsMove
  <2>3. u.k = "buf"
    BY <1>1, <2>2 DEF Spans, Buf, Mem
  <2> QED
    BY <1>2, <2>3 DEF Kinds
<1>4. To(L, d) = StageOf(d.k, d.c, SlotOf(L, d, d.p))
  BY <1>3, OpPlaces DEF SlotOf
<1>5. /\ d.k = u.k /\ d.c = u.c
      /\ SlotOf(L, d, d.p) <= SlotOf(L, u, q) /\ SlotOf(L, u, q) < SlotOf(L, d, d.p) + d.len
  BY <1>1, <1>4 DEF Spans, StageOf, Mem
<1>6. SlotOf(L, d, d.p) \in Nat /\ SlotOf(L, u, q) \in Nat
  BY <1>2, SlotIsNat
<1>7. SlotOf(L, d, d.p) < SlotOf(L, u, q) + u.len
  BY <1>2, <1>5, <1>6
<1>8. d.p * L[d.k].slot + d.off < q * L[u.k].slot + u.off + u.len
      /\ q * L[u.k].slot + u.off < d.p * L[d.k].slot + d.off + d.len
  BY <1>5, <1>7 DEF SlotOf
<1>9. d.p = q /\ Meet(d, u)
  BY <1>2, <1>5, <1>8, SameSlot
<1> QED
  BY <1>3, <1>5, <1>9 DEF Hits

(* Two operations at one place of memory clash.                            *)
LEMMA PointClash ==
  ASSUME NEW x, NEW y, Numbered(x), Numbered(y), NEW m, NEW i \in Nat,
         Writes(x, m, i), Reads(y, m, i) \/ Writes(y, m, i), x.from # {x.to}
  PROVE  Clash(x, y) /\ Clash(y, x)
<1>1. PICK l \in y.from \cup {y.to} : Spans(l, y.len, m, i)
  BY DEF Reads, Writes
<1>2. l.at \in Nat /\ y.len \in Nat /\ x.len \in Nat /\ x.to.at \in Nat
  BY <1>1 DEF Numbered
<1>3. Overlap(x.to, x.len, l, y.len)
  BY <1>1, <1>2 DEF Writes, Spans, Overlap
<1>4. Disturbs(x, y)
  BY <1>1, <1>3 DEF Disturbs
<1> QED
  BY <1>4 DEF Clash, Numbered

(* Only a gather to the owner itself changes nothing.                      *)
LEMMA SelfMove ==
  ASSUME GroupAssumption, r >= 2, NEW L, Laid(L), NEW d, IsMove(L, d), Op(L, d).from = {Op(L, d).to}
  PROVE  d.kind = "gather" /\ d.p = d.c
<1>1. From(L, d) = {To(L, d)}
  BY OpPlaces
<1>2. CASE d.kind = "scatter"
  <2>1. Buf(d.p, d.pos) = StageOf(d.k, d.c, d.p * L[d.k].slot + d.off)
    BY <1>1, <1>2, OpPlaces
  <2>2. d.k = "buf"
    BY <2>1 DEF Buf, StageOf
  <2> QED
    BY <2>2 DEF IsMove, Kinds
<1>3. CASE d.kind = "direct"
  <2>1. PICK a \in Ranks, b \in Ranks : a # b
    BY DEF Ranks, GroupAssumption
  <2>2. Buf(a, d.pos) \in From(L, d) /\ Buf(b, d.pos) \in From(L, d)
    BY <1>3, OpPlaces
  <2>3. Buf(a, d.pos) = Buf(b, d.pos)
    BY <1>1, <2>2
  <2> QED
    BY <2>1, <2>3 DEF Buf
<1>4. CASE d.kind = "staged"
  <2>1. PICK a \in Ranks : TRUE
    BY DEF Ranks, GroupAssumption
  <2>2. StageOf(d.k, d.c, a * L[d.k].slot + d.off) \in From(L, d) /\ To(L, d) = Buf(d.c, d.pos)
    BY <1>4, OpPlaces
  <2>3. d.k = "buf"
    BY <1>1, <2>2 DEF Buf, StageOf
  <2> QED
    BY <2>3 DEF IsMove, Kinds
<1>5. CASE d.kind = "gather"
  <2>1. Buf(d.c, d.pos) = Buf(d.p, d.pos)
    BY <1>1, <1>5, OpPlaces
  <2> QED
    BY <1>5, <2>1 DEF Buf
<1> QED
  BY <1>2, <1>3, <1>4, <1>5 DEF IsMove

-----------------------------------------------------------------------------
(* What memory m holds, and the memory m2 that operation o leaves.          *)
Has(m, k, i, v) == k \in DOMAIN m /\ i \in DOMAIN m[k] /\ m[k][i] = v

TotalOf(m, srcs, i) ==
  IF \A x, y \in srcs : x # y => m[x.mem][x.at + i] \cap m[y.mem][y.at + i] = {}
  THEN UNION {m[l.mem][l.at + i] : l \in srcs}
  ELSE Garbage

Wrote(m, m2, o) ==
  m2 = [m EXCEPT ![o.to.mem] = [i \in DOMAIN @ |->
          IF i \in o.to.at..(o.to.at + o.len - 1)
          THEN TotalOf(m, o.from, i - o.to.at) ELSE @[i]]]

Holds(m, o) ==
  o.to.mem \in DOMAIN m
  /\ \A i \in Nat : o.to.at <= i /\ i < o.to.at + o.len => i \in DOMAIN m[o.to.mem]

LEMMA WroteElsewhere ==
  ASSUME NEW m, NEW m2, NEW o, Numbered(o), Wrote(m, m2, o),
         NEW k, NEW i \in Nat, NEW v, Has(m, k, i, v), ~Writes(o, k, i)
  PROVE  Has(m2, k, i, v)
<1>1. o.to.at \in Nat /\ o.len \in Nat
  BY DEF Numbered
<1>2. PICK a, e : a = o.to.at /\ e = o.to.at + o.len - 1
  OBVIOUS
<1>3. CASE k # o.to.mem
  BY <1>3 DEF Wrote, Has
<1>4. CASE k = o.to.mem
  <2>1. i \notin o.to.at..(o.to.at + o.len - 1)
    BY <1>1, <1>4 DEF Writes, Spans
  <2> QED
    BY <1>4, <2>1 DEF Wrote, Has
<1> QED
  BY <1>3, <1>4

LEMMA WroteHere ==
  ASSUME NEW m, NEW m2, NEW o, Numbered(o), Wrote(m, m2, o), Holds(m, o),
         NEW k, NEW i \in Nat, Writes(o, k, i)
  PROVE  Has(m2, k, i, TotalOf(m, o.from, i - o.to.at))
<1>1. o.to.at \in Nat /\ o.len \in Nat
  BY DEF Numbered
<1>2. k = o.to.mem /\ o.to.at <= i /\ i < o.to.at + o.len
  BY DEF Writes, Spans
<1>3. i \in o.to.at..(o.to.at + o.len - 1)
  BY <1>1, <1>2
<1>4. k \in DOMAIN m /\ i \in DOMAIN m[k]
  BY <1>2 DEF Holds
<1> QED
  BY <1>2, <1>3, <1>4 DEF Wrote, Has

(* The inputs and their sum.                                               *)
Input(q, i, cl) == {<<q, i, cl>>}
Full(i, cl) == {<<q, i, cl>> : q \in Ranks}

LEMMA TotalOne ==
  ASSUME NEW m, NEW l, NEW i
  PROVE  TotalOf(m, {l}, i) = m[l.mem][l.at + i]
BY DEF TotalOf

LEMMA TotalAll ==
  ASSUME NEW m, NEW f, NEW srcs, srcs = {f[q] : q \in Ranks}, NEW j, NEW i, NEW cl,
         \A q \in Ranks : m[f[q].mem][f[q].at + j] = Input(q, i, cl)
  PROVE  TotalOf(m, srcs, j) = Full(i, cl)
<1>1. \A x, y \in srcs : x # y => m[x.mem][x.at + j] \cap m[y.mem][y.at + j] = {}
  <2> SUFFICES ASSUME NEW p \in Ranks, NEW q \in Ranks, f[p] # f[q]
               PROVE  m[f[p].mem][f[p].at + j] \cap m[f[q].mem][f[q].at + j] = {}
    OBVIOUS
  <2>1. p # q
    OBVIOUS
  <2>2. Input(p, i, cl) \cap Input(q, i, cl) = {}
    BY <2>1 DEF Input
  <2> QED
    BY <2>2
<1>2. TotalOf(m, srcs, j) = UNION {m[l.mem][l.at + j] : l \in srcs}
  BY <1>1 DEF TotalOf
<1>3. {m[l.mem][l.at + j] : l \in srcs} = {Input(q, i, cl) : q \in Ranks}
  OBVIOUS
<1>4. UNION {Input(q, i, cl) : q \in Ranks} = Full(i, cl)
  BY DEF Input, Full
<1> QED
  BY <1>2, <1>3, <1>4

(* What a move writes at the place, or the slot, that it hits.             *)
LEMMA ScatterValue ==
  ASSUME GroupAssumption, NEW L, Laid(L), NEW d, IsMove(L, d), NEW u, IsPlace(L, u), Hits(d, u),
         d.kind = "scatter", NEW m, NEW v, Has(m, Mem("buf", d.p), u.pos, v)
  PROVE  TotalOf(m, Op(L, d).from, SlotOf(L, u, d.p) - Op(L, d).to.at) = v
<1>1. PICK j \in Nat : /\ d.pos \in Nat /\ u.pos = d.pos + j
                       /\ \A q \in Ranks : SlotOf(L, u, q) = SlotOf(L, d, q) + j
  BY HitPlaces
<1>2. d.p \in Ranks /\ SlotOf(L, d, d.p) \in Nat
  BY SlotIsNat DEF IsMove
<1>3. Op(L, d).from = {Buf(d.p, d.pos)} /\ Op(L, d).to = StageOf(d.k, d.c, SlotOf(L, d, d.p))
  BY OpPlaces DEF SlotOf
<1>4. Op(L, d).to.at = SlotOf(L, d, d.p)
  BY <1>3 DEF StageOf
<1>5. SlotOf(L, u, d.p) - Op(L, d).to.at = j
  BY <1>1, <1>2, <1>4
<1>6. TotalOf(m, {Buf(d.p, d.pos)}, j) = m[Buf(d.p, d.pos).mem][Buf(d.p, d.pos).at + j]
  BY TotalOne
<1>7. Buf(d.p, d.pos).mem = Mem("buf", d.p) /\ Buf(d.p, d.pos).at = d.pos
  BY DEF Buf, Mem
<1> QED
  BY <1>1, <1>3, <1>5, <1>6, <1>7 DEF Has

LEMMA BufIndex ==
  ASSUME GroupAssumption, NEW L, Laid(L), NEW d, IsMove(L, d), NEW u, IsPlace(L, u), Hits(d, u),
         NEW g, To(L, d) = Buf(g, d.pos)
  PROVE  \E j \in Nat : /\ d.pos \in Nat /\ u.pos = d.pos + j /\ u.pos - Op(L, d).to.at = j
                        /\ \A q \in Ranks : SlotOf(L, u, q) = SlotOf(L, d, q) + j
<1>1. PICK j \in Nat : /\ d.pos \in Nat /\ u.pos = d.pos + j
                       /\ \A q \in Ranks : SlotOf(L, u, q) = SlotOf(L, d, q) + j
  BY HitPlaces
<1>2. Op(L, d).to.at = d.pos
  BY OpPlaces DEF Buf
<1>3. u.pos - Op(L, d).to.at = j
  BY <1>1, <1>2
<1> QED
  BY <1>1, <1>3

LEMMA GatherValue ==
  ASSUME GroupAssumption, NEW L, Laid(L), NEW d, IsMove(L, d), NEW u, IsPlace(L, u), Hits(d, u),
         d.kind = "gather", NEW m, NEW v, Has(m, Mem("buf", u.c), u.pos, v)
  PROVE  TotalOf(m, Op(L, d).from, u.pos - Op(L, d).to.at) = v
<1>1. Op(L, d).from = {Buf(d.c, d.pos)} /\ To(L, d) = Buf(d.p, d.pos)
  BY OpPlaces
<1>2. PICK j \in Nat : d.pos \in Nat /\ u.pos = d.pos + j /\ u.pos - Op(L, d).to.at = j
  <2>1. PICK g : g = d.p
    OBVIOUS
  <2>2. To(L, d) = Buf(g, d.pos)
    BY <1>1, <2>1
  <2> QED
    BY <2>2, BufIndex
<1>3. TotalOf(m, {Buf(d.c, d.pos)}, j) = m[Buf(d.c, d.pos).mem][Buf(d.c, d.pos).at + j]
  BY TotalOne
<1>4. Buf(d.c, d.pos).mem = Mem("buf", u.c) /\ Buf(d.c, d.pos).at = d.pos
  BY DEF Buf, Mem, Hits
<1> QED
  BY <1>1, <1>2, <1>3, <1>4 DEF Has

LEMMA DirectValue ==
  ASSUME GroupAssumption, NEW L, Laid(L), NEW d, IsMove(L, d), NEW u, IsPlace(L, u), Hits(d, u),
         d.kind = "direct", NEW m, NEW cl,
         \A q \in Ranks : Has(m, Mem("buf", q), u.pos, Input(q, u.pos, cl))
  PROVE  TotalOf(m, Op(L, d).from, u.pos - Op(L, d).to.at) = Full(u.pos, cl)
<1>1. Op(L, d).from = {Buf(q, d.pos) : q \in Ranks} /\ To(L, d) = Buf(d.c, d.pos)
  BY OpPlaces
<1>2. PICK j \in Nat : d.pos \in Nat /\ u.pos = d.pos + j /\ u.pos - Op(L, d).to.at = j
  <2>1. PICK g : g = d.c
    OBVIOUS
  <2>2. To(L, d) = Buf(g, d.pos)
    BY <1>1, <2>1
  <2> QED
    BY <2>2, BufIndex
<1>3. PICK f : f = [q \in Ranks |-> Buf(q, d.pos)]
  OBVIOUS
<1>4. Op(L, d).from = {f[q] : q \in Ranks}
  BY <1>1, <1>3
<1>5. PICK i : i = u.pos
  OBVIOUS
<1>6. ASSUME NEW q \in Ranks PROVE m[f[q].mem][f[q].at + j] = Input(q, i, cl)
  <2>1. f[q].mem = Mem("buf", q) /\ f[q].at = d.pos
    BY <1>3 DEF Buf, Mem
  <2> QED
    BY <1>2, <1>5, <2>1 DEF Has
<1>7. TotalOf(m, Op(L, d).from, j) = Full(i, cl)
  BY <1>4, <1>6, TotalAll
<1> QED
  BY <1>2, <1>5, <1>7

LEMMA StagedValue ==
  ASSUME GroupAssumption, NEW L, Laid(L), NEW d, IsMove(L, d), NEW u, IsPlace(L, u), Hits(d, u),
         d.kind = "staged", NEW m, NEW cl,
         \A q \in Ranks : Has(m, Mem(u.k, u.c), SlotOf(L, u, q), Input(q, u.pos, cl))
  PROVE  TotalOf(m, Op(L, d).from, u.pos - Op(L, d).to.at) = Full(u.pos, cl)
<1>1. Op(L, d).from = {StageOf(d.k, d.c, SlotOf(L, d, q)) : q \in Ranks} /\ To(L, d) = Buf(d.c, d.pos)
  BY OpPlaces DEF SlotOf
<1>2. PICK j \in Nat : /\ u.pos - Op(L, d).to.at = j
                       /\ \A q \in Ranks : SlotOf(L, u, q) = SlotOf(L, d, q) + j
  BY <1>1, BufIndex
<1>3. PICK f : f = [q \in Ranks |-> StageOf(d.k, d.c, SlotOf(L, d, q))]
  OBVIOUS
<1>4. Op(L, d).from = {f[q] : q \in Ranks}
  BY <1>1, <1>3
<1>5. PICK i : i = u.pos
  OBVIOUS
<1>6. ASSUME NEW q \in Ranks PROVE m[f[q].mem][f[q].at + j] = Input(q, i, cl)
  <2>1. f[q].mem = Mem(u.k, u.c) /\ f[q].at = SlotOf(L, d, q)
    BY <1>3 DEF StageOf, Mem, Hits
  <2> QED
    BY <1>2, <1>5, <2>1 DEF Has
<1>7. TotalOf(m, Op(L, d).from, j) = Full(i, cl)
  BY <1>4, <1>6, TotalAll
<1> QED
  BY <1>2, <1>5, <1>7

-----------------------------------------------------------------------------
(* What of the moves D is still to be done at place u; R are the operations*)
(* that are still to be done.                                              *)
Owed(L, D, R, kind, p, u) ==
  \E d \in D : /\ d.kind = kind /\ Hits(d, u) /\ Op(L, d) \in R
               /\ kind \in {"scatter", "gather"} => d.p = p

(* A place: while its scatter or its sum is owed the inputs are there, a   *)
(* slot is filled or owed, and so are the sum and its copies.              *)
ScatterFed(L, D, R, m, cl, u) ==
  \A q \in Ranks :
    Owed(L, D, R, "scatter", q, u) => Has(m, Mem("buf", q), u.pos, Input(q, u.pos, cl))
DirectFed(L, D, R, m, cl, u) ==
  Owed(L, D, R, "direct", u.c, u) =>
    \A q \in Ranks : Has(m, Mem("buf", q), u.pos, Input(q, u.pos, cl))
StagedFed(L, D, R, m, cl, u) ==
  Owed(L, D, R, "staged", u.c, u) =>
    \A q \in Ranks : \/ Owed(L, D, R, "scatter", q, u)
                     \/ Has(m, Mem(u.k, u.c), SlotOf(L, u, q), Input(q, u.pos, cl))
SumDone(L, D, R, m, cl, u) ==
  \/ Owed(L, D, R, "direct", u.c, u) \/ Owed(L, D, R, "staged", u.c, u)
  \/ Has(m, Mem("buf", u.c), u.pos, Full(u.pos, cl))
CopiesDone(L, D, R, m, cl, u) ==
  \A g \in Ranks \ {u.c} :
    Owed(L, D, R, "gather", g, u) \/ Has(m, Mem("buf", g), u.pos, Full(u.pos, cl))

Fed(L, D, R, m, cl, u) ==
  /\ ScatterFed(L, D, R, m, cl, u) /\ DirectFed(L, D, R, m, cl, u)
  /\ StagedFed(L, D, R, m, cl, u)
  /\ SumDone(L, D, R, m, cl, u) /\ CopiesDone(L, D, R, m, cl, u)
Flow(L, D, R, m, cl) == \A u : IsPlace(L, u) => Fed(L, D, R, m, cl, u)

(* Move d is made next: it leaves R2 and the memory m2.                    *)
Doing(L, D, R, R2, m, m2, d) ==
  /\ Laid(L) /\ AreMoves(L, D) /\ d \in D /\ Op(L, d) \in R
  /\ \A x \in R : x # Op(L, d) => After(Op(L, d), x)
  /\ R2 \subseteq R /\ R \ {Op(L, d)} \subseteq R2
  /\ Op(L, d).from = {Op(L, d).to} \/ Op(L, d) \notin R2
  /\ Wrote(m, m2, Op(L, d)) /\ Holds(m, Op(L, d))

(* What meets it comes later.                                              *)
LEMMA MeetsLater ==
  ASSUME GroupAssumption, r >= 2, NEW L, NEW D, NEW R, NEW R2, NEW m, NEW m2, NEW d,
         Doing(L, D, R, R2, m, m2, d), NEW e \in D, Op(L, e) \in R, Op(L, e) # Op(L, d),
         NEW k, NEW i \in Nat,
         \/ /\ Writes(Op(L, d), k, i) /\ Op(L, d).from # {Op(L, d).to}
            /\ Reads(Op(L, e), k, i)
         \/ /\ Writes(Op(L, e), k, i) /\ Op(L, e).from # {Op(L, e).to}
            /\ Reads(Op(L, d), k, i)
  PROVE  Lvl(d) < Lvl(e)
<1>1. PICK x, y : x = Op(L, e) /\ y = Op(L, d)
  OBVIOUS
<1>2. IsMove(L, d) /\ IsMove(L, e) /\ Laid(L) /\ After(y, x)
  BY <1>1 DEF Doing, AreMoves
<1>3. Numbered(x) /\ Numbered(y)
  BY <1>1, <1>2, MoveNumbered
<1>4. Clash(y, x)
  BY <1>1, <1>3, PointClash
<1>5. Level(y) < Level(x)
  BY <1>2, <1>4 DEF After
<1>6. Level(y) = Lvl(d) /\ Level(x) = Lvl(e)
  BY <1>1, <1>2, LevelOfMove
<1> QED
  BY <1>5, <1>6

LEMMA OwedFewer ==
  ASSUME NEW L, NEW D, NEW R, NEW R2 \in SUBSET R, NEW kind, NEW p, NEW u,
         Owed(L, D, R2, kind, p, u)
  PROVE  Owed(L, D, R, kind, p, u)
BY DEF Owed

LEMMA OwedKept ==
  ASSUME NEW L, NEW D, NEW R, NEW R2, NEW m, NEW m2, NEW d,
         Doing(L, D, R, R2, m, m2, d), NEW kind, NEW p, NEW u, Owed(L, D, R, kind, p, u)
  PROVE  \/ Owed(L, D, R2, kind, p, u)
         \/ \E e \in D : /\ e.kind = kind /\ Hits(e, u) /\ Op(L, e) = Op(L, d)
                         /\ kind \in {"scatter", "gather"} => e.p = p
<1>1. PICK e \in D : /\ e.kind = kind /\ Hits(e, u) /\ Op(L, e) \in R
                     /\ kind \in {"scatter", "gather"} => e.p = p
  BY DEF Owed
<1>2. CASE Op(L, e) = Op(L, d)
  BY <1>1, <1>2
<1>3. CASE Op(L, e) # Op(L, d)
  <2>1. Op(L, e) \in R2
    BY <1>1, <1>3 DEF Doing
  <2> QED
    BY <1>1, <2>1 DEF Owed
<1> QED
  BY <1>2, <1>3

(* What the move finds at its sources.                                     *)
LEMMA GatherFinds ==
  ASSUME GroupAssumption, r >= 2, NEW L, NEW D, NEW R, NEW R2, NEW m, NEW m2, NEW d,
         Doing(L, D, R, R2, m, m2, d), NEW u, IsPlace(L, u), Hits(d, u), d.kind = "gather",
         NEW cl, Fed(L, D, R, m, cl, u)
  PROVE  Has(m, Mem("buf", u.c), u.pos, Full(u.pos, cl))
<1>1. SUFFICES ASSUME NEW e \in D, e.kind \in {"direct", "staged"}, Hits(e, u), Op(L, e) \in R
               PROVE  FALSE
  BY DEF Fed, SumDone, Owed
<1>2. Laid(L) /\ IsMove(L, d) /\ IsMove(L, e) /\ u.pos \in Nat
  BY MovePlaces DEF Doing, AreMoves, IsPlace
<1>3. Lvl(d) = 2 /\ Lvl(e) = 1
  BY <1>1 DEF Lvl
<1>4. Op(L, e) # Op(L, d)
  <2>1. Level(Op(L, e)) = Lvl(e) /\ Level(Op(L, d)) = Lvl(d)
    BY <1>2, LevelOfMove
  <2> QED
    BY <1>3, <2>1
<1>5. Reads(Op(L, d), Mem("buf", u.c), u.pos)
  BY <1>2, HitPoints
<1>6. Writes(Op(L, e), Mem("buf", u.c), u.pos)
  BY <1>1, <1>2, HitPoints
<1>7. Op(L, e).from # {Op(L, e).to}
  BY <1>1, <1>2, SelfMove
<1>8. Lvl(d) < Lvl(e)
  BY <1>1, <1>2, <1>4, <1>5, <1>6, <1>7, MeetsLater
<1> QED
  BY <1>3, <1>8

LEMMA StagedFinds ==
  ASSUME GroupAssumption, r >= 2, NEW L, NEW D, NEW R, NEW R2, NEW m, NEW m2, NEW d,
         Doing(L, D, R, R2, m, m2, d), NEW u, IsPlace(L, u), Hits(d, u), d.kind = "staged",
         NEW cl, Fed(L, D, R, m, cl, u), NEW q \in Ranks
  PROVE  Has(m, Mem(u.k, u.c), SlotOf(L, u, q), Input(q, u.pos, cl))
<1>1. Owed(L, D, R, "staged", u.c, u)
  BY DEF Owed, Doing
<1>2. SUFFICES ASSUME NEW e \in D, e.kind = "scatter", Hits(e, u), Op(L, e) \in R, e.p = q
               PROVE  FALSE
  BY <1>1 DEF Fed, StagedFed, Owed
<1>3. Laid(L) /\ IsMove(L, d) /\ IsMove(L, e) /\ IsMove(L, u)
  BY DEF Doing, AreMoves, IsPlace
<1>4. Lvl(d) = 1 /\ Lvl(e) = 0
  BY <1>2 DEF Lvl
<1>5. Op(L, e) # Op(L, d)
  <2>1. Level(Op(L, e)) = Lvl(e) /\ Level(Op(L, d)) = Lvl(d)
    BY <1>3, LevelOfMove
  <2> QED
    BY <1>4, <2>1
<1>6. Reads(Op(L, d), Mem(u.k, u.c), SlotOf(L, u, q))
  BY <1>3, HitPoints
<1>7. Writes(Op(L, e), Mem(u.k, u.c), SlotOf(L, u, q))
  BY <1>2, <1>3, HitPoints
<1>8. Op(L, e).from # {Op(L, e).to}
  BY <1>2, <1>3, SelfMove
<1>9. SlotOf(L, u, q) \in Nat
  BY <1>3, SlotIsNat
<1>10. Lvl(d) < Lvl(e)
  BY <1>2, <1>5, <1>6, <1>7, <1>8, <1>9, MeetsLater
<1> QED
  BY <1>4, <1>10

(* What it writes is the sum in a buffer and an input in a slot.           *)
LEMMA WritesFull ==
  ASSUME GroupAssumption, r >= 2, NEW L, NEW D, NEW R, NEW R2, NEW m, NEW m2, NEW d,
         Doing(L, D, R, R2, m, m2, d), NEW u, IsPlace(L, u),
         NEW g \in Ranks, Writes(Op(L, d), Mem("buf", g), u.pos),
         NEW cl, Fed(L, D, R, m, cl, u)
  PROVE  Has(m2, Mem("buf", g), u.pos, Full(u.pos, cl))
<1>1. Laid(L) /\ IsMove(L, d) /\ u.pos \in Nat
  BY MovePlaces DEF Doing, AreMoves, IsPlace
<1>2. Hits(d, u) /\ d.kind \in {"staged", "direct", "gather"}
  BY <1>1, WriteHits
<1>3. TotalOf(m, Op(L, d).from, u.pos - Op(L, d).to.at) = Full(u.pos, cl)
  <2>1. CASE d.kind = "gather"
    <3>1. Has(m, Mem("buf", u.c), u.pos, Full(u.pos, cl))
      BY <1>2, <2>1, GatherFinds
    <3> QED
      BY <1>1, <1>2, <2>1, <3>1, GatherValue
  <2>2. CASE d.kind = "staged"
    <3>1. \A q \in Ranks : Has(m, Mem(u.k, u.c), SlotOf(L, u, q), Input(q, u.pos, cl))
      BY <1>2, <2>2, StagedFinds
    <3> QED
      BY <1>1, <1>2, <2>2, <3>1, StagedValue
  <2>3. CASE d.kind = "direct"
    <3>1. Owed(L, D, R, "direct", u.c, u)
      BY <1>2, <2>3 DEF Owed, Doing
    <3>2. \A q \in Ranks : Has(m, Mem("buf", q), u.pos, Input(q, u.pos, cl))
      BY <3>1 DEF Fed, DirectFed
    <3> QED
      BY <1>1, <1>2, <2>3, <3>2, DirectValue
  <2> QED
    BY <1>2, <2>1, <2>2, <2>3
<1>4. Numbered(Op(L, d)) /\ Wrote(m, m2, Op(L, d)) /\ Holds(m, Op(L, d))
  BY <1>1, MoveNumbered DEF Doing
<1>5. Has(m2, Mem("buf", g), u.pos, TotalOf(m, Op(L, d).from, u.pos - Op(L, d).to.at))
  BY <1>1, <1>4, WroteHere
<1> QED
  BY <1>3, <1>5

LEMMA WritesInput ==
  ASSUME GroupAssumption, r >= 2, NEW L, NEW D, NEW R, NEW R2, NEW m, NEW m2, NEW d,
         Doing(L, D, R, R2, m, m2, d), NEW u, IsPlace(L, u),
         NEW q \in Ranks, Writes(Op(L, d), Mem(u.k, u.c), SlotOf(L, u, q)),
         NEW cl, Fed(L, D, R, m, cl, u)
  PROVE  Has(m2, Mem(u.k, u.c), SlotOf(L, u, q), Input(q, u.pos, cl))
<1>1. Laid(L) /\ IsMove(L, d) /\ IsMove(L, u)
  BY DEF Doing, AreMoves, IsPlace
<1>2. d.kind = "scatter" /\ Hits(d, u) /\ d.p = q
  BY <1>1, SlotHits
<1>3. Has(m, Mem("buf", d.p), u.pos, Input(q, u.pos, cl))
  <2>1. Owed(L, D, R, "scatter", q, u)
    BY <1>2 DEF Owed, Doing
  <2> QED
    BY <1>2, <2>1 DEF Fed, ScatterFed
<1>4. TotalOf(m, Op(L, d).from, SlotOf(L, u, d.p) - Op(L, d).to.at) = Input(q, u.pos, cl)
  BY <1>1, <1>2, <1>3, ScatterValue
<1>5. Numbered(Op(L, d)) /\ Wrote(m, m2, Op(L, d)) /\ Holds(m, Op(L, d)) /\ SlotOf(L, u, q) \in Nat
  BY <1>1, MoveNumbered, SlotIsNat DEF Doing
<1>6. Has(m2, Mem(u.k, u.c), SlotOf(L, u, q), TotalOf(m, Op(L, d).from, SlotOf(L, u, q) - Op(L, d).to.at))
  BY <1>5, WroteHere
<1> QED
  BY <1>2, <1>4, <1>6

(* A copy onto itself changes nothing.                                     *)
LEMMA SelfKeeps ==
  ASSUME NEW m, NEW m2, NEW o, Numbered(o), Wrote(m, m2, o), Holds(m, o), o.from = {o.to},
         NEW k, NEW i \in Nat, NEW v, Has(m, k, i, v)
  PROVE  Has(m2, k, i, v)
<1>1. CASE ~Writes(o, k, i)
  BY <1>1, WroteElsewhere
<1>2. CASE Writes(o, k, i)
  <2>1. Has(m2, k, i, TotalOf(m, o.from, i - o.to.at))
    BY <1>2, WroteHere
  <2>2. TotalOf(m, {o.to}, i - o.to.at) = m[o.to.mem][o.to.at + (i - o.to.at)]
    <3>1. PICK l, j : l = o.to /\ j = i - o.to.at
      OBVIOUS
    <3>2. TotalOf(m, {l}, j) = m[l.mem][l.at + j]
      BY TotalOne
    <3> QED
      BY <3>1, <3>2
  <2>3. o.to.at + (i - o.to.at) = i /\ o.to.mem = k
    BY <1>2 DEF Numbered, Writes, Spans
  <2> QED
    BY <2>1, <2>2, <2>3 DEF Has
<1> QED
  BY <1>1, <1>2

-----------------------------------------------------------------------------
(* A move keeps every place fed.                                            *)
Placed(L, D, R, R2, m, m2, d, cl, u) ==
  Doing(L, D, R, R2, m, m2, d) /\ IsPlace(L, u) /\ Fed(L, D, R, m, cl, u)

LEMMA PlacedFacts ==
  ASSUME GroupAssumption, r >= 2, NEW L, NEW D, NEW R, NEW R2, NEW m, NEW m2, NEW d, NEW cl, NEW u,
         Placed(L, D, R, R2, m, m2, d, cl, u)
  PROVE  /\ Laid(L) /\ IsMove(L, d) /\ IsMove(L, u) /\ IsPlace(L, u) /\ u.pos \in Nat /\ u.c \in Ranks
         /\ \A e \in D : IsMove(L, e)
         /\ Numbered(Op(L, d)) /\ Wrote(m, m2, Op(L, d)) /\ Holds(m, Op(L, d))
         /\ \A q \in Ranks : SlotOf(L, u, q) \in Nat
         /\ R2 \subseteq R /\ (Op(L, d).from = {Op(L, d).to} \/ Op(L, d) \notin R2)
<1>1. Laid(L) /\ IsMove(L, d) /\ IsMove(L, u) /\ \A e \in D : IsMove(L, e)
  BY DEF Placed, Doing, AreMoves, IsPlace
<1>2. u.pos \in Nat /\ u.c \in Ranks
  BY <1>1, MovePlaces DEF IsMove
<1>3. Numbered(Op(L, d))
  BY <1>1, MoveNumbered
<1>4. \A q \in Ranks : SlotOf(L, u, q) \in Nat
  BY <1>1, SlotIsNat
<1> QED
  BY <1>1, <1>2, <1>3, <1>4 DEF Placed, Doing

(* An input that is still to be read is not overwritten.                   *)
LEMMA InputStays ==
  ASSUME GroupAssumption, r >= 2, NEW L, NEW D, NEW R, NEW R2, NEW m, NEW m2, NEW d, NEW cl, NEW u,
         Placed(L, D, R, R2, m, m2, d, cl, u),
         NEW e \in D, Op(L, e) \in R2, Lvl(e) < 2, NEW q \in Ranks,
         Reads(Op(L, e), Mem("buf", q), u.pos),
         NEW v, Has(m, Mem("buf", q), u.pos, v)
  PROVE  Has(m2, Mem("buf", q), u.pos, v)
<1>1. CASE ~Writes(Op(L, d), Mem("buf", q), u.pos)
  BY <1>1, PlacedFacts, WroteElsewhere
<1>2. CASE Op(L, d).from = {Op(L, d).to}
  BY <1>2, PlacedFacts, SelfKeeps
<1>3. CASE Writes(Op(L, d), Mem("buf", q), u.pos) /\ Op(L, d).from # {Op(L, d).to}
  <2>1. Op(L, e) \in R /\ Op(L, e) # Op(L, d) /\ u.pos \in Nat
    BY <1>3, PlacedFacts
  <2>2. Lvl(d) < Lvl(e)
    BY <1>3, <2>1, MeetsLater DEF Placed
  <2>3. d.kind \in {"staged", "direct", "gather"}
    BY <1>3, PlacedFacts, WriteHits
  <2>4. PICK i, j : i = Lvl(d) /\ j = Lvl(e)
    OBVIOUS
  <2>5. i \in {1, 2} /\ j \in {0, 1, 2}
    BY <2>3, <2>4 DEF Lvl
  <2>6. i < j /\ j < 2
    BY <2>2, <2>4
  <2> QED
    BY <2>5, <2>6
<1> QED
  BY <1>1, <1>2, <1>3

LEMMA KeepsScatterFed ==
  ASSUME GroupAssumption, r >= 2, NEW L, NEW D, NEW R, NEW R2, NEW m, NEW m2, NEW d, NEW cl, NEW u,
         Placed(L, D, R, R2, m, m2, d, cl, u)
  PROVE  ScatterFed(L, D, R2, m2, cl, u)
<1> SUFFICES ASSUME NEW q \in Ranks, Owed(L, D, R2, "scatter", q, u)
             PROVE  Has(m2, Mem("buf", q), u.pos, Input(q, u.pos, cl))
  BY DEF ScatterFed
<1>1. PICK e \in D : e.kind = "scatter" /\ Hits(e, u) /\ Op(L, e) \in R2 /\ e.p = q
  BY DEF Owed
<1>2. Has(m, Mem("buf", q), u.pos, Input(q, u.pos, cl))
  <2>1. Owed(L, D, R, "scatter", q, u)
    BY PlacedFacts, OwedFewer
  <2> QED
    BY <2>1 DEF Placed, Fed, ScatterFed
<1>3. Reads(Op(L, e), Mem("buf", q), u.pos)
  BY <1>1, PlacedFacts, HitPoints
<1>4. Lvl(e) < 2
  BY <1>1 DEF Lvl
<1> QED
  BY <1>1, <1>2, <1>3, <1>4, InputStays

LEMMA KeepsDirectFed ==
  ASSUME GroupAssumption, r >= 2, NEW L, NEW D, NEW R, NEW R2, NEW m, NEW m2, NEW d, NEW cl, NEW u,
         Placed(L, D, R, R2, m, m2, d, cl, u)
  PROVE  DirectFed(L, D, R2, m2, cl, u)
<1> SUFFICES ASSUME Owed(L, D, R2, "direct", u.c, u), NEW q \in Ranks
             PROVE  Has(m2, Mem("buf", q), u.pos, Input(q, u.pos, cl))
  BY DEF DirectFed
<1>1. PICK e \in D : e.kind = "direct" /\ Hits(e, u) /\ Op(L, e) \in R2
  BY DEF Owed
<1>2. Has(m, Mem("buf", q), u.pos, Input(q, u.pos, cl))
  <2>1. Owed(L, D, R, "direct", u.c, u)
    BY PlacedFacts, OwedFewer
  <2> QED
    BY <2>1 DEF Placed, Fed, DirectFed
<1>3. Reads(Op(L, e), Mem("buf", q), u.pos)
  BY <1>1, PlacedFacts, HitPoints
<1>4. Lvl(e) < 2
  BY <1>1 DEF Lvl
<1> QED
  BY <1>1, <1>2, <1>3, <1>4, InputStays

LEMMA KeepsStagedFed ==
  ASSUME GroupAssumption, r >= 2, NEW L, NEW D, NEW R, NEW R2, NEW m, NEW m2, NEW d, NEW cl, NEW u,
         Placed(L, D, R, R2, m, m2, d, cl, u)
  PROVE  StagedFed(L, D, R2, m2, cl, u)
<1> SUFFICES ASSUME Owed(L, D, R2, "staged", u.c, u), NEW q \in Ranks,
                    ~Owed(L, D, R2, "scatter", q, u)
             PROVE  Has(m2, Mem(u.k, u.c), SlotOf(L, u, q), Input(q, u.pos, cl))
  BY DEF StagedFed
<1>1. CASE Writes(Op(L, d), Mem(u.k, u.c), SlotOf(L, u, q))
  BY <1>1, WritesInput DEF Placed
<1>2. CASE ~Writes(Op(L, d), Mem(u.k, u.c), SlotOf(L, u, q))
  <2>1. Owed(L, D, R, "staged", u.c, u)
    BY PlacedFacts, OwedFewer
  <2>2. ~Owed(L, D, R, "scatter", q, u)
    <3>1. SUFFICES ASSUME NEW e \in D, e.kind = "scatter", Hits(e, u), Op(L, e) = Op(L, d), e.p = q
                   PROVE  FALSE
      BY OwedKept DEF Placed
    <3>2. Writes(Op(L, e), Mem(u.k, u.c), SlotOf(L, u, q))
      BY <3>1, PlacedFacts, HitPoints
    <3> QED
      BY <1>2, <3>1, <3>2
  <2>3. Has(m, Mem(u.k, u.c), SlotOf(L, u, q), Input(q, u.pos, cl))
    BY <2>1, <2>2 DEF Placed, Fed, StagedFed
  <2> QED
    BY <1>2, <2>3, PlacedFacts, WroteElsewhere
<1> QED
  BY <1>1, <1>2

LEMMA KeepsSumDone ==
  ASSUME GroupAssumption, r >= 2, NEW L, NEW D, NEW R, NEW R2, NEW m, NEW m2, NEW d, NEW cl, NEW u,
         Placed(L, D, R, R2, m, m2, d, cl, u)
  PROVE  SumDone(L, D, R2, m2, cl, u)
<1>1. CASE Writes(Op(L, d), Mem("buf", u.c), u.pos)
  <2>1. u.c \in Ranks
    BY PlacedFacts
  <2>2. Has(m2, Mem("buf", u.c), u.pos, Full(u.pos, cl))
    BY <1>1, <2>1, WritesFull DEF Placed
  <2> QED
    BY <2>2 DEF SumDone
<1>2. CASE ~Writes(Op(L, d), Mem("buf", u.c), u.pos)
  <2>1. CASE Has(m, Mem("buf", u.c), u.pos, Full(u.pos, cl))
    <3>1. Has(m2, Mem("buf", u.c), u.pos, Full(u.pos, cl))
      BY <1>2, <2>1, PlacedFacts, WroteElsewhere
    <3> QED
      BY <3>1 DEF SumDone
  <2>2. ASSUME NEW kind \in {"direct", "staged"}, Owed(L, D, R, kind, u.c, u)
        PROVE  Owed(L, D, R2, kind, u.c, u)
    <3>1. SUFFICES ASSUME NEW e \in D, e.kind = kind, Hits(e, u), Op(L, e) = Op(L, d)
                   PROVE  FALSE
      BY <2>2, OwedKept DEF Placed
    <3>2. Writes(Op(L, e), Mem("buf", u.c), u.pos)
      BY <3>1, PlacedFacts, HitPoints
    <3> QED
      BY <1>2, <3>1, <3>2
  <2>3. SumDone(L, D, R, m, cl, u)
    BY DEF Placed, Fed
  <2> QED
    BY <2>1, <2>2, <2>3 DEF SumDone
<1> QED
  BY <1>1, <1>2

LEMMA KeepsCopiesDone ==
  ASSUME GroupAssumption, r >= 2, NEW L, NEW D, NEW R, NEW R2, NEW m, NEW m2, NEW d, NEW cl, NEW u,
         Placed(L, D, R, R2, m, m2, d, cl, u)
  PROVE  CopiesDone(L, D, R2, m2, cl, u)
<1> SUFFICES ASSUME NEW g \in Ranks \ {u.c}, ~Owed(L, D, R2, "gather", g, u)
             PROVE  Has(m2, Mem("buf", g), u.pos, Full(u.pos, cl))
  BY DEF CopiesDone
<1>1. CASE Writes(Op(L, d), Mem("buf", g), u.pos)
  BY <1>1, WritesFull DEF Placed
<1>2. CASE ~Writes(Op(L, d), Mem("buf", g), u.pos)
  <2>1. ~Owed(L, D, R, "gather", g, u)
    <3>1. SUFFICES ASSUME NEW e \in D, e.kind = "gather", Hits(e, u), Op(L, e) = Op(L, d), e.p = g
                   PROVE  FALSE
      BY OwedKept DEF Placed
    <3>2. Writes(Op(L, e), Mem("buf", g), u.pos)
      BY <3>1, PlacedFacts, HitPoints
    <3> QED
      BY <1>2, <3>1, <3>2
  <2>2. Has(m, Mem("buf", g), u.pos, Full(u.pos, cl))
    BY <2>1 DEF Placed, Fed, CopiesDone
  <2> QED
    BY <1>2, <2>2, PlacedFacts, WroteElsewhere
<1> QED
  BY <1>1, <1>2

LEMMA FlowStep ==
  ASSUME GroupAssumption, r >= 2, NEW L, NEW D, NEW R, NEW R2, NEW m, NEW m2, NEW d,
         Doing(L, D, R, R2, m, m2, d), NEW cl, Flow(L, D, R, m, cl)
  PROVE  Flow(L, D, R2, m2, cl)
<1> SUFFICES ASSUME NEW u, IsPlace(L, u) PROVE Fed(L, D, R2, m2, cl, u)
  BY DEF Flow
<1>1. Placed(L, D, R, R2, m, m2, d, cl, u)
  BY DEF Flow, Placed
<1> QED
  BY <1>1, KeepsScatterFed, KeepsDirectFed, KeepsStagedFed, KeepsSumDone, KeepsCopiesDone DEF Fed

-----------------------------------------------------------------------------
(* The moves still to be made: agents have them, or arms to come.           *)
Due(t, p, o) ==
  \/ \E a \in DOMAIN t : o \in Does(t[a])
  \/ \E i \in 1..Len(p) : p[i].do = "arm" /\ o \in Does(p[i].work)
DueOps(L, D, t, p) == {o \in Moved(L, D) : Due(t, p, o)}

(* Arming and waiting leave them as they are.                              *)
LEMMA DueArm ==
  ASSUME NEW p, IsSeq(p), p # <<>>, Head(p).do = "arm",
         NEW t, NEW u, DOMAIN u = DOMAIN t, NEW c \in DOMAIN t, c = Head(p).agent,
         Does(u[c]) = Does(t[c]) \cup Does(Head(p).work),
         \A a \in DOMAIN t : a # c => u[a] = t[a], NEW o
  PROVE  Due(u, Tail(p), o) <=> Due(t, p, o)
<1>1. /\ Len(p) \in Nat /\ Len(Tail(p)) = Len(p) - 1 /\ Len(p) >= 1 /\ p[1] = Head(p)
      /\ \A i \in 1..(Len(p) - 1) : Tail(p)[i] = p[i + 1]
  BY Tails
<1>2. 1 \in 1..Len(p) /\ \A i \in 1..(Len(p) - 1) : i + 1 \in 1..Len(p)
  BY <1>1
<1>3. \A i \in 1..Len(p) : i = 1 \/ (i - 1 \in 1..(Len(p) - 1) /\ (i - 1) + 1 = i)
  BY <1>1
<1>4. ASSUME Due(u, Tail(p), o) PROVE Due(t, p, o)
  <2>1. CASE \E a \in DOMAIN u : o \in Does(u[a])
    <3>1. PICK a \in DOMAIN u : o \in Does(u[a])
      BY <2>1
    <3>2. o \in Does(t[a]) \/ o \in Does(p[1].work)
      BY <1>1, <3>1
    <3> QED
      BY <1>1, <1>2, <3>1, <3>2 DEF Due
  <2>2. CASE \E i \in 1..Len(Tail(p)) : Tail(p)[i].do = "arm" /\ o \in Does(Tail(p)[i].work)
    BY <1>1, <1>2, <2>2 DEF Due
  <2> QED
    BY <1>4, <2>1, <2>2 DEF Due
<1>5. ASSUME Due(t, p, o) PROVE Due(u, Tail(p), o)
  <2>1. CASE \E a \in DOMAIN t : o \in Does(t[a])
    <3>1. PICK a \in DOMAIN t : o \in Does(t[a])
      BY <2>1
    <3>2. o \in Does(u[a])
      BY <3>1
    <3> QED
      BY <3>1, <3>2 DEF Due
  <2>2. CASE \E i \in 1..Len(p) : p[i].do = "arm" /\ o \in Does(p[i].work)
    <3>1. PICK i \in 1..Len(p) : p[i].do = "arm" /\ o \in Does(p[i].work)
      BY <2>2
    <3>2. CASE i = 1
      <4>1. o \in Does(u[c])
        BY <1>1, <3>1, <3>2
      <4> QED
        BY <4>1 DEF Due
    <3>3. CASE i # 1
      BY <1>1, <1>3, <3>1, <3>3 DEF Due
    <3> QED
      BY <3>2, <3>3
  <2> QED
    BY <1>5, <2>1, <2>2 DEF Due
<1> QED
  BY <1>4, <1>5

LEMMA DueWait ==
  ASSUME NEW p, IsSeq(p), p # <<>>, Head(p).do = "wait", NEW t, NEW o
  PROVE  Due(t, Tail(p), o) <=> Due(t, p, o)
<1>1. /\ Len(p) \in Nat /\ Len(Tail(p)) = Len(p) - 1 /\ Len(p) >= 1 /\ p[1] = Head(p)
      /\ \A i \in 1..(Len(p) - 1) : Tail(p)[i] = p[i + 1]
  BY Tails
<1>2. \A i \in 1..(Len(p) - 1) : i + 1 \in 1..Len(p)
  BY <1>1
<1>3. \A i \in 1..Len(p) : i = 1 \/ (i - 1 \in 1..(Len(p) - 1) /\ (i - 1) + 1 = i)
  BY <1>1
<1>4. ASSUME NEW i \in 1..Len(p), p[i].do = "arm", o \in Does(p[i].work)
      PROVE  \E j \in 1..Len(Tail(p)) : Tail(p)[j].do = "arm" /\ o \in Does(Tail(p)[j].work)
  <2>1. i # 1
    BY <1>1, <1>4
  <2>2. i - 1 \in 1..(Len(p) - 1) /\ (i - 1) + 1 = i
    BY <1>3, <2>1
  <2>3. Tail(p)[i - 1] = p[i] /\ i - 1 \in 1..Len(Tail(p))
    BY <1>1, <2>2
  <2> QED
    BY <1>4, <2>3
<1>5. ASSUME NEW i \in 1..Len(Tail(p)), Tail(p)[i].do = "arm", o \in Does(Tail(p)[i].work)
      PROVE  \E j \in 1..Len(p) : p[j].do = "arm" /\ o \in Does(p[j].work)
  BY <1>1, <1>2, <1>5
<1> QED
  BY <1>4, <1>5 DEF Due

(* A step does its operation: it remains only if another agent, or a later *)
(* arm, has it too.                                                        *)
Steps(t, u, c, o) ==
  /\ c \in DOMAIN t /\ IsSeq(t[c]) /\ t[c] # <<>> /\ o \in Head(t[c])
  /\ u = [t EXCEPT ![c] = Left(t[c], o)]

LEMMA DueStep ==
  ASSUME NEW t, NEW u, NEW c, NEW o, Steps(t, u, c, o), NEW p, NEW x
  PROVE  /\ Due(u, p, x) => Due(t, p, x)
         /\ Due(t, p, x) => Due(u, p, x) \/ x = o
         /\ Due(t, p, o)
<1> USE DEF Steps
<1>1. /\ Does(Left(t[c], o)) \subseteq Does(t[c])
      /\ Does(t[c]) \subseteq Does(Left(t[c], o)) \cup {o}
  BY LeftKeeps
<1>2. /\ DOMAIN u = DOMAIN t /\ u[c] = Left(t[c], o)
      /\ \A a \in DOMAIN t : a # c => u[a] = t[a]
  OBVIOUS
<1>3. o \in Does(t[c])
  BY HeadDoes
<1>4. \A a \in DOMAIN t : Does(u[a]) \subseteq Does(t[a]) /\ Does(t[a]) \subseteq Does(u[a]) \cup {o}
  BY <1>1, <1>2
<1> QED
  BY <1>2, <1>3, <1>4 DEF Due

(* An operation that may run comes before all that are due, and is not due *)
(* again unless it is a copy onto itself.                                  *)
LEMMA DueAfter ==
  ASSUME NEW O, NEW S, NEW J, NEW t, NEW p, NEW w, Led(O, S, J, t, p, w),
         NEW c \in DOMAIN t, t[c] # <<>>, NEW o \in Head(t[c]), NEW x, Due(t, p, x), x # o
  PROVE  After(o, x)
<1>1. Arranged(O, S, t, p) /\ Synced(S, J, t, p, w)
  BY DEF Led
<1>2. IsSeq(t[c])
  BY <1>1 DEF Arranged, Suits, Fine
<1>3. CASE \E a \in DOMAIN t : x \in Does(t[a])
  <2>1. PICK a \in DOMAIN t : x \in Does(t[a])
    BY <1>3
  <2>2. CASE a # c
    BY <1>1, <2>1, <2>2, ReadyFirst
  <2>3. CASE a = c
    <3>1. x \in Does(Left(t[c], o))
      BY <1>2, <2>1, <2>3, LeftKeeps
    <3> QED
      BY <1>1, <3>1, ReadyFirst
  <2> QED
    BY <2>2, <2>3
<1>4. CASE \E i \in 1..Len(p) : p[i].do = "arm" /\ x \in Does(p[i].work)
  BY <1>1, <1>4, ReadyFirst
<1> QED
  BY <1>3, <1>4 DEF Due

LEMMA DueOnce ==
  ASSUME NEW O, NEW S, NEW J, NEW t, NEW p, NEW w, Led(O, S, J, t, p, w),
         NEW c \in DOMAIN t, t[c] # <<>>, NEW o \in Head(t[c]),
         Numbered(o), o.len # 0, o.from # {o.to},
         NEW u, u = [t EXCEPT ![c] = Left(t[c], o)]
  PROVE  ~Due(u, p, o)
<1>1. Arranged(O, S, t, p) /\ Synced(S, J, t, p, w)
  BY DEF Led
<1>2. ~After(o, o)
  <2>1. Overlap(o.to, o.len, o.to, o.len)
    BY DEF Numbered, Overlap
  <2>2. Clash(o, o)
    BY <2>1 DEF Numbered, Clash, Disturbs
  <2>3. PICK i : i = Level(o)
    OBVIOUS
  <2>4. i \in {0, 1, 2}
    BY <2>3 DEF Level
  <2>5. ~(i < i)
    BY <2>4
  <2> QED
    BY <2>2, <2>3, <2>5 DEF After
<1>3. /\ DOMAIN u = DOMAIN t /\ u[c] = Left(t[c], o)
      /\ \A a \in DOMAIN t : a # c => u[a] = t[a]
  OBVIOUS
<1>4. \A a \in DOMAIN t : o \notin Does(u[a])
  <2>1. \A a \in DOMAIN t : a # c => o \notin Does(t[a])
    BY <1>1, <1>2, ReadyFirst
  <2>2. o \notin Does(Left(t[c], o))
    BY <1>1, <1>2, ReadyFirst
  <2> QED
    BY <1>3, <2>1, <2>2
<1>5. \A i \in 1..Len(p) : p[i].do = "arm" => o \notin Does(p[i].work)
  BY <1>1, <1>2, ReadyFirst
<1> QED
  BY <1>3, <1>4, <1>5 DEF Due

-----------------------------------------------------------------------------
(* When a call begins every GPU has its inputs, and all moves are due.      *)
Loaded(m, e, cl) ==
  \A q \in Ranks, i \in Nat : i < Groups(e) => Has(m, Mem("buf", q), i, Input(q, i, cl))

LEMMA PlaceCell ==
  ASSUME GroupAssumption, NEW L, Laid(L), NEW u, IsPlace(L, u)
  PROVE  /\ u.k \in Kinds /\ u.c \in Ranks /\ u.off \in Nat /\ u.pos \in Nat
         /\ Cell(L, u.k, u.c, u.off) /\ u.pos < L[u.k].end
<1>1. IsMove(L, u) /\ u.len = 1
  BY DEF IsPlace
<1>2. PICK x \in Nat : x = u.c * L[u.k].slot /\ u.pos = L[u.k].base + x + u.off
  BY <1>1, MovePlaces
<1>3. /\ u.off \in Nat /\ u.off + u.len <= L[u.k].slot /\ u.pos + u.len <= L[u.k].end
      /\ u.pos \in Nat /\ L[u.k].slot \in Nat /\ L[u.k].end \in Nat
      /\ u.k \in Kinds /\ u.c \in Ranks
  BY <1>1, MovePlaces DEF IsMove, Laid
<1>4. u.off < L[u.k].slot /\ u.pos < L[u.k].end
  BY <1>1, <1>3
<1> QED
  BY <1>2, <1>3, <1>4 DEF Cell

LEMMA ReachOwes ==
  ASSUME GroupAssumption, NEW L, Laid(L), NEW D, AreMoves(L, D), NEW u, IsPlace(L, u),
         NEW kind, NEW p, Reach(D, kind, u.k, p, u.c, u.off)
  PROVE  Owed(L, D, Moved(L, D), kind, p, u)
<1>1. PICK d \in D : /\ d.kind = kind /\ d.k = u.k /\ d.p = p /\ d.c = u.c
                     /\ d.off <= u.off /\ u.off < d.off + d.len
  BY DEF Reach
<1>2. IsMove(L, d) /\ IsMove(L, u) /\ u.len = 1
  BY DEF AreMoves, IsPlace
<1>3. PICK x \in Nat : x = d.c * L[d.k].slot /\ d.pos = L[d.k].base + x + d.off
  BY <1>2, MovePlaces
<1>4. u.pos = L[d.k].base + x + u.off
  BY <1>1, <1>2, <1>3 DEF IsMove
<1>5. d.off \in Nat /\ u.off \in Nat /\ d.len \in Nat /\ L[d.k].base \in Nat
  BY <1>2 DEF IsMove, Laid
<1>6. Meet(d, u)
  BY <1>1, <1>2, <1>3, <1>4, <1>5 DEF Meet
<1> QED
  BY <1>1, <1>6 DEF Owed, Hits, Moved

LEMMA FlowCall ==
  ASSUME GroupAssumption, NEW L, Laid(L), NEW e, Tiled(L, Groups(e)), Groups(e) \in Nat,
         NEW D, AreMoves(L, D), Serves(L, D, "stage"), Serves(L, D, "stage_b"),
         NEW m, NEW cl, Loaded(m, e, cl)
  PROVE  Flow(L, D, Moved(L, D), m, cl)
<1> SUFFICES ASSUME NEW u, IsPlace(L, u) PROVE Fed(L, D, Moved(L, D), m, cl, u)
  BY DEF Flow
<1>1. /\ u.k \in Kinds /\ u.c \in Ranks /\ u.off \in Nat /\ u.pos \in Nat
      /\ Cell(L, u.k, u.c, u.off) /\ u.pos < L[u.k].end /\ L[u.k].end \in Nat
  BY PlaceCell DEF Laid
<1>2. \A q \in Ranks : Has(m, Mem("buf", q), u.pos, Input(q, u.pos, cl))
  <2>1. L[u.k].end <= Groups(e)
    BY <1>1 DEF Tiled
  <2>2. u.pos < Groups(e)
    BY <1>1, <2>1
  <2> QED
    BY <1>1, <2>2 DEF Loaded
<1>3. Serves(L, D, u.k)
  BY <1>1 DEF Kinds
<1>4. PICK R : R = Moved(L, D)
  OBVIOUS
<1>5. \A kind, p : Reach(D, kind, u.k, p, u.c, u.off) => Owed(L, D, R, kind, p, u)
  BY <1>4, ReachOwes
<1>6. Plainly(D, u.k, u.c, u.off)
  BY <1>1, <1>3 DEF Serves
<1>7. SumDone(L, D, R, m, cl, u)
  BY <1>5, <1>6 DEF Plainly, Summed, SumDone
<1>8. CopiesDone(L, D, R, m, cl, u)
  BY <1>5, <1>6 DEF Plainly, Gathered, CopiesDone
<1>9. StagedFed(L, D, R, m, cl, u)
  <2> SUFFICES ASSUME Owed(L, D, R, "staged", u.c, u), NEW q \in Ranks
               PROVE  Owed(L, D, R, "scatter", q, u)
    BY DEF StagedFed
  <2>1. \E d \in D : d.k = u.k /\ d.kind = "staged"
    BY DEF Owed, Hits
  <2>2. Reach(D, "scatter", u.k, q, u.c, u.off)
    BY <1>6, <2>1 DEF Plainly
  <2> QED
    BY <1>5, <2>2
<1>10. ScatterFed(L, D, R, m, cl, u) /\ DirectFed(L, D, R, m, cl, u)
  BY <1>2 DEF ScatterFed, DirectFed
<1> QED
  BY <1>4, <1>7, <1>8, <1>9, <1>10 DEF Fed

(* One GPU alone has the sum to begin with.                                *)
LEMMA FlowAlone ==
  ASSUME GroupAssumption, r = 1, NEW L, Laid(L), NEW e, Tiled(L, Groups(e)), Groups(e) \in Nat,
         NEW m, NEW cl, Loaded(m, e, cl)
  PROVE  Flow(L, {}, Moved(L, {}), m, cl)
<1> SUFFICES ASSUME NEW u, IsPlace(L, u) PROVE Fed(L, {}, Moved(L, {}), m, cl, u)
  BY DEF Flow
<1>1. /\ u.k \in Kinds /\ u.c \in Ranks /\ u.pos \in Nat
      /\ u.pos < L[u.k].end /\ L[u.k].end \in Nat
  BY PlaceCell DEF Laid
<1>2. Has(m, Mem("buf", u.c), u.pos, Input(u.c, u.pos, cl))
  <2>1. L[u.k].end <= Groups(e)
    BY <1>1 DEF Tiled
  <2>2. u.pos < Groups(e)
    BY <1>1, <2>1
  <2> QED
    BY <1>1, <2>2 DEF Loaded
<1>3. Ranks = {u.c}
  BY <1>1 DEF Ranks
<1>4. Full(u.pos, cl) = Input(u.c, u.pos, cl)
  BY <1>3 DEF Full, Input
<1>5. \A R, kind, p : ~Owed(L, {}, R, kind, p, u)
  BY DEF Owed
<1> QED
  BY <1>2, <1>3, <1>4, <1>5 DEF Fed, ScatterFed, DirectFed, StagedFed, SumDone, CopiesDone

LEMMA DueCall ==
  ASSUME NEW p, NEW L, NEW D, NEW S, Orderly(p, L, D, S),
         NEW t, \A a \in DOMAIN t : t[a] = <<>>
  PROVE  DueOps(L, D, t, p) = Moved(L, D)
BY DEF DueOps, Due, Orderly, Offers, Moved

(* When nothing is due every buffer holds the sum at every place.          *)
LEMMA FlowEnds ==
  ASSUME GroupAssumption, NEW L, Laid(L), NEW e, Tiled(L, Groups(e)), NEW D, NEW m, NEW cl,
         Flow(L, D, {}, m, cl), NEW g \in Ranks, NEW i \in Nat, i < Groups(e)
  PROVE  Has(m, Mem("buf", g), i, Full(i, cl))
<1>1. PICK k \in Kinds, c \in Ranks, o \in Nat : PlaceIn(L, k, c, o, i)
  BY DEF Tiled
<1>2. PICK u : u = [kind |-> "gather", k |-> k, p |-> c, c |-> c, off |-> o, len |-> 1, pos |-> i]
  OBVIOUS
<1>3. u.kind = "gather" /\ u.k = k /\ u.p = c /\ u.c = c /\ u.off = o /\ u.len = 1 /\ u.pos = i
  BY <1>2
<1>4. o < L[k].slot /\ i < L[k].end /\ i = L[k].base + c * L[k].slot + o
  BY <1>1 DEF PlaceIn, Cell
<1>5. o + 1 <= L[k].slot /\ i + 1 <= L[k].end
  BY <1>4 DEF Laid
<1>6. IsPlace(L, u)
  BY <1>3, <1>4, <1>5 DEF IsPlace, IsMove
<1>7. Fed(L, D, {}, m, cl, u)
  BY <1>6 DEF Flow
<1>8. \A kind, p : ~Owed(L, D, {}, kind, p, u)
  BY DEF Owed
<1>9. Has(m, Mem("buf", u.c), u.pos, Full(u.pos, cl))
  BY <1>7, <1>8 DEF Fed, SumDone
<1>10. g # u.c => Has(m, Mem("buf", g), u.pos, Full(u.pos, cl))
  BY <1>7, <1>8 DEF Fed, CopiesDone
<1> QED
  BY <1>3, <1>9, <1>10

-----------------------------------------------------------------------------
(* The invariant of the sum: with layout L the moves D are led, and flow.   *)
Summing(L, D, S, J, t, p, w, m, cl, e) ==
  /\ Laid(L) /\ AreMoves(L, D) /\ (r >= 2 \/ D = {})
  /\ cl = 0 \/ Tiled(L, Groups(e))
  /\ Led(Moved(L, D), S, J, t, p, w)
  /\ Flow(L, D, DueOps(L, D, t, p), m, cl)

Flowing ==
  \E L, D, S, J, t, p, w, m, cl, e :
    /\ t = todo /\ p = prog /\ w = word /\ m = data /\ cl = calls /\ e = n
    /\ Summing(L, D, S, J, t, p, w, m, cl, e)

(* All of it depends on the size of the group alone.                       *)
LEMMA RigidOps ==
  ASSUME r' = r, NEW L, NEW D
  PROVE  /\ Ranks' = Ranks /\ Moved(L, D)' = Moved(L, D)
         /\ \A d : Op(L, d)' = Op(L, d)
<1>1. Ranks' = Ranks
  BY DEF Ranks
<1>2. \A d : From(L, d)' = From(L, d)
  BY <1>1 DEF From, Buf, StageOf
<1>3. \A d : To(L, d)' = To(L, d)
  BY DEF To, Buf, StageOf
<1>4. \A d : Op(L, d)' = Op(L, d)
  BY <1>2, <1>3 DEF Op
<1> QED
  BY <1>1, <1>4 DEF Moved

LEMMA RigidMoves ==
  ASSUME r' = r, NEW L
  PROVE  /\ Laid(L)' <=> Laid(L)
         /\ \A d : IsMove(L, d)' <=> IsMove(L, d)
         /\ \A u : IsPlace(L, u)' <=> IsPlace(L, u)
         /\ \A D : AreMoves(L, D)' <=> AreMoves(L, D)
<1>1. Ranks' = Ranks
  BY DEF Ranks
<1>2. Laid(L)' <=> Laid(L)
  BY DEF Laid, Kinds
<1>3. \A d : IsMove(L, d)' <=> IsMove(L, d)
  BY <1>1 DEF IsMove, Kinds
<1> QED
  BY <1>2, <1>3 DEF IsPlace, AreMoves

LEMMA RigidFlow ==
  ASSUME r' = r, NEW L, NEW D, NEW R, NEW m, NEW cl, Flow(L, D, R, m, cl)
  PROVE  Flow(L, D, R, m, cl)'
<1>1. Ranks' = Ranks /\ \A d : Op(L, d)' = Op(L, d)
  BY RigidOps
<1>2. \A kind, p, u : Owed(L, D, R, kind, p, u)' <=> Owed(L, D, R, kind, p, u)
  BY <1>1 DEF Owed, Hits, Meet
<1>3. \A k, i, v : Has(m, k, i, v)' <=> Has(m, k, i, v)
  BY DEF Has
<1>4. \A i : Full(i, cl)' = Full(i, cl)
  BY <1>1 DEF Full
<1>5. \A q, i : Input(q, i, cl)' = Input(q, i, cl)
  BY DEF Input
<1>6. \A k, g : Mem(k, g)' = Mem(k, g)
  BY DEF Mem
<1>7. \A u, q : SlotOf(L, u, q)' = SlotOf(L, u, q)
  BY DEF SlotOf
<1> SUFFICES ASSUME NEW u, IsPlace(L, u)' PROVE Fed(L, D, R, m, cl, u)'
  BY DEF Flow
<1>8. Fed(L, D, R, m, cl, u)
  BY RigidMoves DEF Flow
<1>9. ScatterFed(L, D, R, m, cl, u)' /\ DirectFed(L, D, R, m, cl, u)'
  BY <1>1, <1>2, <1>8 DEF Fed, ScatterFed, DirectFed, Has, Input, Mem
<1>10. StagedFed(L, D, R, m, cl, u)'
  BY <1>1, <1>2, <1>8 DEF Fed, StagedFed, Has, Input, Mem, SlotOf
<1>11. SumDone(L, D, R, m, cl, u)' /\ CopiesDone(L, D, R, m, cl, u)'
  BY <1>1, <1>2, <1>8 DEF Fed, SumDone, CopiesDone, Has, Full, Mem
<1> QED
  BY <1>9, <1>10, <1>11 DEF Fed

LEMMA RigidTiled ==
  ASSUME r' = r, NEW L, NEW e, Tiled(L, Groups(e))
  PROVE  Tiled(L, Groups(e))'
<1>1. Ranks' = Ranks
  BY DEF Ranks
<1> QED
  BY <1>1 DEF Tiled, PlaceIn, Cell, Kinds, Groups, CeilDiv

LEMMA RigidSumming ==
  ASSUME r' = r, NEW L, NEW D, NEW S, NEW J, NEW t, NEW p, NEW w, NEW m, NEW cl, NEW e,
         Summing(L, D, S, J, t, p, w, m, cl, e)
  PROVE  Summing(L, D, S, J, t, p, w, m, cl, e)'
<1>1. Laid(L)' /\ AreMoves(L, D)' /\ (r >= 2 \/ D = {})'
  BY RigidMoves DEF Summing
<1>2. (cl = 0 \/ Tiled(L, Groups(e)))'
  BY RigidTiled DEF Summing
<1>3. Moved(L, D)' = Moved(L, D)
  BY RigidOps
<1>4. PICK O, R : O = Moved(L, D) /\ R = DueOps(L, D, t, p)
  OBVIOUS
<1>5. O = Moved(L, D)' /\ R = DueOps(L, D, t, p)'
  <2>1. \A o : Due(t, p, o)' <=> Due(t, p, o)
    BY DEF Due, Does
  <2> QED
    BY <1>3, <1>4, <2>1 DEF DueOps
<1>6. Led(O, S, J, t, p, w)'
  BY <1>4, RigidLed DEF Summing
<1>7. Flow(L, D, R, m, cl)'
  BY <1>4, RigidFlow DEF Summing
<1> QED
  BY <1>1, <1>2, <1>5, <1>6, <1>7 DEF Summing

LEMMA FlowingNext ==
  ASSUME r' = r, NEW L, NEW D, NEW S, NEW J, NEW t, NEW p, NEW w, NEW m, NEW cl, NEW e,
         t = todo', p = prog', w = word', m = data', cl = calls', e = n',
         Summing(L, D, S, J, t, p, w, m, cl, e)
  PROVE  Flowing'
<1>1. Summing(L, D, S, J, t, p, w, m, cl, e)'
  BY RigidSumming
<1> QED
  BY <1>1 DEF Flowing

-----------------------------------------------------------------------------
(* Each action keeps the order and the flow.                                *)
LEMMA NoPlaces ==
  ASSUME NEW z, z = 0, NEW u
  PROVE  ~IsPlace(Whole(z, z), u)
<1> SUFFICES ASSUME IsPlace(Whole(z, z), u) PROVE FALSE
  OBVIOUS
<1>1. PICK L : L = Whole(z, z)
  OBVIOUS
<1>2. L["stage"] = Part(z, z, z) /\ L["stage_b"] = Part(z, z, z)
  BY <1>1, LayoutLaid DEF Whole
<1>3. L["stage"].slot = z /\ L["stage_b"].slot = z
  BY <1>2, PartFields
<1>4. u.k \in {"stage", "stage_b"} /\ u.off \in Nat /\ u.len = 1 /\ u.off + u.len <= L[u.k].slot
  BY <1>1 DEF IsPlace, IsMove, Kinds
<1>5. L[u.k].slot = z
  BY <1>3, <1>4
<1> QED
  BY <1>4, <1>5

LEMMA InitFlowing == Init => Flowing
<1> SUFFICES ASSUME Init PROVE Flowing
  OBVIOUS
<1>1. PICK t, p, w, v, z : t = todo /\ p = prog /\ w = word /\ v = 1 /\ z = 0
  OBVIOUS
<1>2. PICK m, cl, e, L : m = data /\ cl = calls /\ e = n /\ L = Whole(z, z)
  OBVIOUS
<1>3. p = <<>> /\ DOMAIN t = Agents /\ \A a \in Agents : t[a] = <<>>
  BY <1>1 DEF Init
<1>4. DOMAIN w = Words(r) /\ \A k \in Words(r) : w[k] # v
  BY <1>1 DEF Init
<1>5. Plan(p, L, {}, {}, <<>>, v)
  <2>1. Orderly(p, L, {}, {})
    BY <1>3, TidyNothing DEF Tidy
  <2> QED
    BY <2>1, PlanAlone
<1>6. Led(Moved(L, {}), {}, <<>>, t, p, w)
  BY <1>3, <1>4, <1>5, LedCall
<1>7. Laid(L)
  BY <1>1, <1>2, WholeLaid
<1>8. Flow(L, {}, DueOps(L, {}, t, p), m, cl)
  BY <1>1, <1>2, NoPlaces DEF Flow
<1>9. cl = 0
  BY <1>2 DEF Init
<1>10. Summing(L, {}, {}, <<>>, t, p, w, m, cl, e)
  BY <1>6, <1>7, <1>8, <1>9 DEF Summing, AreMoves
<1> QED
  BY <1>1, <1>2, <1>10 DEF Flowing

(* What a call loads into the buffers.                                     *)
LEMMA CallLoads ==
  ASSUME HostInv, NEW q \in Requests(r), Call(q),
         NEW m, m = data', NEW cl, cl = calls', NEW e, e = q.n
  PROVE  Loaded(m, e, cl)
<1>1. GroupAssumption /\ r \in RankCounts
  BY CountedGroup DEF HostInv, Counted
<1>2. e \in 1..Capacity
  BY <1>1, AllReduceAssumption
<1>3. ShareFacts(e)
  BY <1>1, <1>2, ShareSizes DEF GroupAssumption
<1>4. Groups(e) \in Nat /\ Groups(Capacity) \in Nat /\ Groups(e) <= Groups(Capacity)
  BY <1>3 DEF ShareFacts
<1> SUFFICES ASSUME NEW g \in Ranks, NEW i \in Nat, i < Groups(e)
             PROVE  Has(m, Mem("buf", g), i, Input(g, i, cl))
  BY DEF Loaded
<1>5. PICK k : k = Mem("buf", g)
  OBVIOUS
<1>6. k \in Mems /\ k[1] = "buf" /\ k[2] = g
  BY <1>5 DEF Mem, Mems
<1>7. DOMAIN data = Mems /\ DOMAIN data[k] = 0..(Groups(Capacity) - 1)
  BY <1>6 DEF HostInv, Shaped, Extent
<1>8. i \in DOMAIN data[k]
  BY <1>4, <1>7
<1>9. m = [h \in DOMAIN data |->
             IF h[1] # "buf" THEN data[h]
             ELSE [j \in DOMAIN data[h] |->
                     IF j < Groups(e) THEN {<<h[2], j, cl>>} ELSE data[h][j]]]
  BY DEF Call
<1>10. k \in DOMAIN m /\ m[k] = [j \in DOMAIN data[k] |->
                     IF j < Groups(e) THEN {<<k[2], j, cl>>} ELSE data[k][j]]
  BY <1>6, <1>7, <1>9
<1>11. i \in DOMAIN m[k] /\ m[k][i] = {<<g, i, cl>>}
  BY <1>6, <1>8, <1>10
<1> QED
  BY <1>5, <1>10, <1>11 DEF Has, Input

(* What a call lets its program find, whatever it plans.                   *)
LEMMA CallIdle ==
  ASSUME HostInv, NEW q \in Requests(r), Call(q),
         NEW t, t = todo', NEW w, w = word', NEW v, v = seq + 1
  PROVE  /\ DOMAIN t = Agents /\ \A a \in Agents : t[a] = <<>>
         /\ DOMAIN w = Words(r) /\ \A k \in Words(r) : w[k] # v
<1>1. DOMAIN t = Agents /\ \A a \in Agents : t[a] = <<>>
  <2>1. prog = <<>> /\ todo' = todo
    BY DEF Call
  <2>2. Covered(<<>>, todo) /\ DOMAIN todo = Agents
    BY <2>1 DEF HostInv, Programmed, Queued
  <2> QED
    BY <2>1, <2>2, NoneAwaited
<1>2. word' = word /\ word \in [Words(r) -> 0..seq] /\ seq \in Nat
  BY DEF Call, HostInv, Flagged, Counted
<1>3. \A k \in Words(r) : word[k] # seq + 1
  BY <1>2
<1> QED
  BY <1>1, <1>2, <1>3

LEMMA CallFlows ==
  ASSUME HostInv, NEW q \in Requests(r), Call(q)
  PROVE  Flowing'
<1>1. GroupAssumption /\ r \in RankCounts /\ r' = r
  BY CountedGroup DEF HostInv, Counted, Call
<1>2. q.algo \in Algos /\ q.n \in 1..Capacity /\ q.pull \in BOOLEAN
  BY <1>1, AllReduceAssumption
<1>3. PICK s, len, pull : s = Scheme(q.algo, q.n) /\ len = q.n /\ pull = q.pull
  OBVIOUS
<1>4. SchemeSuits(s, len)
  BY <1>2, <1>3, SchemeChoice
<1>5. PICK t, p, w, v : t = todo' /\ p = prog' /\ w = word' /\ v = seq + 1
  OBVIOUS
<1>6. PICK m, cl, e : m = data' /\ cl = calls' /\ e = q.n
  OBVIOUS
<1>7. p = Program(s, len, pull) /\ e = n' /\ e = len
  BY <1>3, <1>5, <1>6 DEF Call
<1>8. DOMAIN t = Agents /\ \A a \in Agents : t[a] = <<>>
  BY <1>5, CallIdle
<1>9. DOMAIN w = Words(r) /\ \A k \in Words(r) : w[k] # v
  BY <1>5, CallIdle
<1>10. Loaded(m, e, cl)
  BY <1>6, CallLoads
<1>11. Groups(e) \in Nat
  BY <1>1, <1>2, <1>6, ShareSizes DEF ShareFacts, GroupAssumption
<1>12. CASE r >= 2
  <2>1. Laden(p, len, v)
    BY <1>1, <1>2, <1>3, <1>4, <1>5, <1>7, <1>12, ProgramLaden
  <2>2. PICK L : Laid(L) /\ Tiled(L, Groups(e)) /\ Planned(p, L, v)
    BY <1>7, <2>1 DEF Laden
  <2>3. PICK D, S, J : Plan(p, L, D, S, J, v) /\ Serves(L, D, "stage") /\ Serves(L, D, "stage_b")
    BY <2>2 DEF Planned
  <2>4. Orderly(p, L, D, S) /\ AreMoves(L, D)
    BY <2>3 DEF Plan, Orderly
  <2>5. Led(Moved(L, D), S, J, t, p, w)
    BY <1>8, <1>9, <2>3, LedCall
  <2>6. DueOps(L, D, t, p) = Moved(L, D)
    BY <1>8, <2>4, DueCall
  <2>7. Flow(L, D, Moved(L, D), m, cl)
    BY <1>1, <1>10, <1>11, <2>2, <2>3, <2>4, FlowCall
  <2>8. Summing(L, D, S, J, t, p, w, m, cl, e)
    BY <1>12, <2>2, <2>4, <2>5, <2>6, <2>7 DEF Summing
  <2> QED
    BY <1>1, <1>5, <1>6, <1>7, <2>8, FlowingNext
<1>13. CASE ~(r >= 2)
  <2>1. p = <<>> /\ r = 1
    BY <1>1, <1>3, <1>4, <1>7, <1>13, AloneNothing
  <2>2. PICK L : L = Whole(Groups(e), Groups(e))
    OBVIOUS
  <2>3. Laid(L) /\ Tiled(L, Groups(e))
    BY <1>1, <1>11, <2>2, WholeTiled
  <2>4. Orderly(p, L, {}, {}) /\ AreMoves(L, {})
    BY <2>1, TidyNothing DEF Tidy, AreMoves
  <2>5. Plan(p, L, {}, {}, <<>>, v)
    BY <2>4, PlanAlone
  <2>6. Led(Moved(L, {}), {}, <<>>, t, p, w)
    BY <1>8, <1>9, <2>5, LedCall
  <2>7. DueOps(L, {}, t, p) = Moved(L, {})
    BY <1>8, <2>4, DueCall
  <2>8. Flow(L, {}, Moved(L, {}), m, cl)
    BY <1>1, <1>10, <1>11, <2>1, <2>3, FlowAlone
  <2>9. Summing(L, {}, {}, <<>>, t, p, w, m, cl, e)
    BY <2>3, <2>4, <2>6, <2>7, <2>8 DEF Summing
  <2> QED
    BY <1>1, <1>5, <1>6, <1>7, <2>9, FlowingNext
<1> QED
  BY <1>12, <1>13

(* What the host is about to do.                                           *)
LEMMA HostHead ==
  ASSUME HostInv, prog # <<>>
  PROVE  /\ IsSeq(prog) /\ DOMAIN todo = Agents
         /\ Head(prog).do = "arm" => Head(prog).agent \in Agents /\ IsSeq(Head(prog).work)
<1>1. Settled(prog, Agents, Works(seq)) /\ IsSeq(prog) /\ DOMAIN todo = Agents
  BY SettledSeq DEF HostInv, Programmed, Queued
<1>2. prog[1] = Head(prog) /\ 1 \in 1..Len(prog)
  BY <1>1, Tails
<1>3. Head(prog).do = "arm" => Head(prog).agent \in Agents /\ Head(prog).work \in Works(seq)
  BY <1>1, <1>2 DEF Settled, ArmsAwaited, WorkFrom
<1> QED
  BY <1>1, <1>3 DEF Works, IsSeq

LEMMA DueSame ==
  ASSUME NEW L, NEW D, NEW t, NEW p, NEW u, NEW q, \A o \in Moved(L, D) : Due(u, q, o) <=> Due(t, p, o)
  PROVE  DueOps(L, D, u, q) = DueOps(L, D, t, p)
BY DEF DueOps

LEMMA HostArmFlows ==
  ASSUME HostInv, Flowing, HostArm
  PROVE  Flowing'
<1>1. PICK L, D, S, J, t, p, w, m, cl, e :
         /\ t = todo /\ p = prog /\ w = word /\ m = data /\ cl = calls /\ e = n
         /\ Summing(L, D, S, J, t, p, w, m, cl, e)
  BY DEF Flowing
<1>2. PICK u, q : u = todo' /\ q = prog'
  OBVIOUS
<1>3. w = word' /\ m = data' /\ cl = calls' /\ e = n' /\ r' = r
  BY <1>1 DEF HostArm
<1>4. /\ p # <<>> /\ Head(p).do = "arm" /\ q = Tail(p)
      /\ u = [t EXCEPT ![Head(p).agent] = @ \o Phases(Head(p).work)]
  BY <1>1, <1>2 DEF HostArm
<1>5. IsSeq(p) /\ Head(p).agent \in DOMAIN t /\ IsSeq(Head(p).work)
  BY <1>1, <1>4, HostHead
<1>6. Led(Moved(L, D), S, J, t, p, w)
  BY <1>1 DEF Summing
<1>7. Led(Moved(L, D), S, J, u, q, w)
  BY <1>4, <1>5, <1>6, LedArm
<1>8. PICK c : c = Head(p).agent
  OBVIOUS
<1>9. /\ DOMAIN u = DOMAIN t /\ \A a \in DOMAIN t : a # c => u[a] = t[a]
      /\ u[c] = t[c] \o Phases(Head(p).work)
  BY <1>4, <1>5, <1>8
<1>10. Does(u[c]) = Does(t[c]) \cup Does(Head(p).work)
  <2>1. PICK O : Arranged(O, S, t, p)
    BY <1>6 DEF Led
  <2>2. Arms(t, u, p, c)
    BY <1>4, <1>5, <1>8 DEF Arms
  <2> QED
    BY <2>1, <2>2, ArmArranged
<1>12. DueOps(L, D, u, q) = DueOps(L, D, t, p)
  <2>1. ASSUME NEW o PROVE Due(u, q, o) <=> Due(t, p, o)
    <3>1. c \in DOMAIN t /\ p # <<>> /\ Head(p).do = "arm" /\ q = Tail(p)
      BY <1>4, <1>5, <1>8
    <3>2. Due(u, Tail(p), o) <=> Due(t, p, o)
      BY <1>5, <1>8, <1>9, <1>10, <3>1, DueArm
    <3> QED
      BY <3>1, <3>2
  <2> QED
    BY <2>1, DueSame
<1>13. Summing(L, D, S, J, u, q, w, m, cl, e)
  BY <1>1, <1>7, <1>12 DEF Summing
<1> QED
  BY <1>2, <1>3, <1>13, FlowingNext

LEMMA HostWaitFlows ==
  ASSUME HostInv, Flowing, HostWait
  PROVE  Flowing'
<1>1. PICK L, D, S, J, t, p, w, m, cl, e :
         /\ t = todo /\ p = prog /\ w = word /\ m = data /\ cl = calls /\ e = n
         /\ Summing(L, D, S, J, t, p, w, m, cl, e)
  BY DEF Flowing
<1>2. PICK q : q = prog'
  OBVIOUS
<1>3. t = todo' /\ w = word' /\ m = data' /\ cl = calls' /\ e = n' /\ r' = r
  BY <1>1 DEF HostWait
<1>4. p # <<>> /\ Head(p).do = "wait" /\ t[Head(p).agent] = <<>> /\ q = Tail(p)
  BY <1>1, <1>2 DEF HostWait
<1>5. IsSeq(p)
  BY <1>1, <1>4, HostHead
<1>6. Led(Moved(L, D), S, J, t, q, w)
  BY <1>1, <1>4, LedWait DEF Summing
<1>7. DueOps(L, D, t, q) = DueOps(L, D, t, p)
  BY <1>4, <1>5, DueWait, DueSame
<1>8. Summing(L, D, S, J, t, q, w, m, cl, e)
  BY <1>1, <1>6, <1>7 DEF Summing
<1> QED
  BY <1>2, <1>3, <1>8, FlowingNext

(* What the step of an agent does to memory.                               *)
LEMMA SumWrites ==
  ASSUME HostInv, NEW a \in Agents, todo[a] # <<>>, NEW o \in Head(todo[a]), o.op = "sum",
         Run(a, o), NEW m, m = data, NEW m2, m2 = data'
  PROVE  Wrote(m, m2, o) /\ Holds(m, o) /\ o.len # 0
<1>1. PICK w : w = todo[a]
  OBVIOUS
<1>2. w \in Seq(SUBSET Ops(seq)) /\ w # <<>> /\ o \in Head(w)
  BY <1>1 DEF HostInv, Queued, Works
<1>3. Head(w) \in SUBSET Ops(seq)
  BY <1>2, HeadTailProperties
<1>4. o \in SumOps
  BY <1>2, <1>3 DEF Ops, WordOps
<1>5. InMemory(o.to, o.len) /\ o.len \in Nat \ {0}
  BY <1>4 DEF SumOps
<1>6. \A srcs, i : Total(srcs, i) = TotalOf(m, srcs, i)
  BY DEF Total, TotalOf, Value
<1>7. Wrote(m, m2, o)
  BY <1>6 DEF Run, Wrote
<1>8. PICK k, at, len : k = o.to.mem /\ at = o.to.at /\ len = o.len
  OBVIOUS
<1>9. k \in Mems /\ at \in Nat /\ len \in Nat /\ at + len <= Extent(k[1])
  BY <1>5, <1>8 DEF InMemory
<1>10. DOMAIN m = Mems /\ DOMAIN m[k] = 0..(Extent(k[1]) - 1)
  BY <1>9 DEF HostInv, Shaped
<1>11. Extent(k[1]) \in Int
  <2>1. GroupAssumption /\ Capacity \in 0..Capacity
    BY CountedGroup DEF HostInv, GroupAssumption
  <2>2. Groups(Capacity) \in Int /\ r * Clv(Capacity) \in Int
    BY <2>1, ShareSizes DEF ShareFacts
  <2> QED
    BY <2>2 DEF Extent
<1>12. ASSUME NEW i \in Nat, at <= i, i < at + len PROVE i \in DOMAIN m[k]
  BY <1>9, <1>10, <1>11, <1>12
<1>13. Holds(m, o)
  BY <1>8, <1>9, <1>10, <1>12 DEF Holds
<1> QED
  BY <1>5, <1>7, <1>13

LEMMA StepDoes ==
  ASSUME GroupAssumption, r >= 2,
         NEW L, NEW D, NEW S, NEW J, NEW t, NEW p, NEW w, NEW m, NEW cl, NEW e,
         Summing(L, D, S, J, t, p, w, m, cl, e),
         NEW a, NEW d \in D, NEW o, o = Op(L, d), NEW u, Steps(t, u, a, o),
         NEW m2, Wrote(m, m2, o), Holds(m, o), o.len # 0
  PROVE  Flow(L, D, DueOps(L, D, u, p), m2, cl)
<1>1. PICK R, R2 : R = DueOps(L, D, t, p) /\ R2 = DueOps(L, D, u, p)
  OBVIOUS
<1>2. Laid(L) /\ AreMoves(L, D) /\ IsMove(L, d)
  BY DEF Summing, AreMoves
<1>3. PICK O : O = Moved(L, D) /\ Led(O, S, J, t, p, w)
  BY DEF Summing
<1>4. /\ a \in DOMAIN t /\ t[a] # <<>> /\ o \in Head(t[a]) /\ o \in O
      /\ u = [t EXCEPT ![a] = Left(t[a], o)]
  BY <1>3 DEF Moved, Steps
<1>5. Numbered(o)
  BY <1>2, MoveNumbered
<1>6. o \in R
  <2>1. ASSUME NEW x PROVE Due(t, p, o)
    BY DueStep
  <2> QED
    BY <1>1, <1>3, <1>4, <2>1 DEF DueOps
<1>7. \A x \in R : x # o => After(o, x)
  BY <1>1, <1>3, <1>4, DueAfter DEF DueOps
<1>8. R2 \subseteq R /\ R \ {o} \subseteq R2
  <2>1. ASSUME NEW x PROVE (Due(u, p, x) => Due(t, p, x)) /\ (Due(t, p, x) => Due(u, p, x) \/ x = o)
    BY DueStep
  <2> QED
    BY <1>1, <2>1 DEF DueOps
<1>9. o.from = {o.to} \/ o \notin R2
  <2>1. o.from # {o.to} => ~Due(u, p, o)
    BY <1>3, <1>4, <1>5, DueOnce
  <2> QED
    BY <1>1, <2>1 DEF DueOps
<1>10. Doing(L, D, R, R2, m, m2, d)
  BY <1>2, <1>6, <1>7, <1>8, <1>9 DEF Doing
<1>11. Flow(L, D, R, m, cl)
  BY <1>1 DEF Summing
<1>12. Flow(L, D, R2, m2, cl)
  BY <1>10, <1>11, FlowStep
<1> QED
  BY <1>1, <1>12

LEMMA StepFlows ==
  ASSUME HostInv, Flowing, NEW a \in Agents, Step(a)
  PROVE  Flowing'
<1>1. PICK L, D, S, J, t, p, w, m, cl, e :
         /\ t = todo /\ p = prog /\ w = word /\ m = data /\ cl = calls /\ e = n
         /\ Summing(L, D, S, J, t, p, w, m, cl, e)
  BY DEF Flowing
<1>2. PICK u, x, m2 : u = todo' /\ x = word' /\ m2 = data'
  OBVIOUS
<1>3. t[a] # <<>> /\ DOMAIN t = Agents
  BY <1>1 DEF Step, HostInv, Queued
<1>4. PICK o \in Head(t[a]) : Run(a, o)
  BY <1>1 DEF Step
<1>5. p = prog' /\ cl = calls' /\ e = n' /\ r' = r
  BY <1>1, <1>4 DEF Run
<1>6. u = [t EXCEPT ![a] = Left(t[a], o)]
  BY <1>1, <1>2, <1>4 DEF Run, Left
<1>7. /\ o.op = "await" => w[o.word] = o.val
      /\ x = IF o.op = "signal" THEN [w EXCEPT ![o.word] = o.val] ELSE w
  BY <1>1, <1>2, <1>4 DEF Run
<1>8. PICK O : O = Moved(L, D) /\ Led(O, S, J, t, p, w)
  BY <1>1 DEF Summing
<1>9. Led(O, S, J, u, p, x)
  BY <1>3, <1>4, <1>6, <1>7, <1>8, LedStep
<1>10. Suits(t[a], O, a \in S) /\ IsSeq(t[a])
  BY <1>3, <1>8 DEF Led, Arranged, Suits, Fine
<1>11. Steps(t, u, a, o)
  BY <1>3, <1>4, <1>6, <1>10 DEF Steps
<1>12. Flow(L, D, DueOps(L, D, u, p), m2, cl)
  <2>1. CASE \E d \in D : o = Op(L, d)
    <3>1. PICK d \in D : o = Op(L, d)
      BY <2>1
    <3>2. r >= 2 /\ GroupAssumption
      BY <1>1, CountedGroup DEF Summing, HostInv
    <3>3. Wrote(m, m2, o) /\ Holds(m, o) /\ o.len # 0
      <4>1. o.op = "sum"
        BY <3>1 DEF Op
      <4> QED
        BY <1>1, <1>2, <1>3, <1>4, <4>1, SumWrites
    <3> QED
      BY <1>1, <1>11, <3>1, <3>2, <3>3, StepDoes
  <2>2. CASE ~\E d \in D : o = Op(L, d)
    <3>1. o \notin O
      BY <1>8, <2>2 DEF Moved
    <3>2. o \in Does(t[a])
      BY <1>3, <1>4, <1>10, Tails DEF Does
    <3>3. o.op # "sum"
      BY <1>10, <3>1, <3>2 DEF Suits, Sums
    <3>4. m2 = m
      BY <1>1, <1>2, <1>4, <3>3 DEF Run
    <3>5. ASSUME NEW y, y # o PROVE Due(u, p, y) <=> Due(t, p, y)
      BY <1>11, <3>5, DueStep
    <3>6. DueOps(L, D, u, p) = DueOps(L, D, t, p)
      BY <1>8, <3>1, <3>5, DueSame
    <3> QED
      BY <1>1, <3>4, <3>6 DEF Summing
  <2> QED
    BY <2>1, <2>2
<1>13. Summing(L, D, S, J, u, p, x, m2, cl, e)
  BY <1>1, <1>8, <1>9, <1>12 DEF Summing
<1> QED
  BY <1>2, <1>5, <1>13, FlowingNext

LEMMA StillFlows ==
  ASSUME Flowing, UNCHANGED vars
  PROVE  Flowing'
<1>1. PICK L, D, S, J, t, p, w, m, cl, e :
         /\ t = todo /\ p = prog /\ w = word /\ m = data /\ cl = calls /\ e = n
         /\ Summing(L, D, S, J, t, p, w, m, cl, e)
  BY DEF Flowing
<1>2. t = todo' /\ p = prog' /\ w = word' /\ m = data' /\ cl = calls' /\ e = n' /\ r' = r
  BY <1>1 DEF vars
<1> QED
  BY <1>1, <1>2, FlowingNext

(* The order of the moves and the flow of the inputs hold in every state:  *)
(* of what an agent may do next nothing that is still due clashes with it, *)
(* and every place has its inputs until they are summed, and then the sum, *)
(* or a move that brings it is due.                                        *)
THEOREM FlowingAlways == Spec => []Flowing
<1>1. HostInv /\ Flowing /\ [Next]_vars => Flowing'
  <2> SUFFICES ASSUME HostInv, Flowing, [Next]_vars PROVE Flowing'
    OBVIOUS
  <2>1. CASE \E q \in Requests(r) : Call(q)
    BY <2>1, CallFlows
  <2>2. CASE HostArm
    BY <2>2, HostArmFlows
  <2>3. CASE HostWait
    BY <2>3, HostWaitFlows
  <2>4. CASE \E a \in Agents : Step(a)
    BY <2>4, StepFlows
  <2>5. CASE UNCHANGED vars
    BY <2>5, StillFlows
  <2> QED
    BY <2>1, <2>2, <2>3, <2>4, <2>5 DEF Next
<1> QED
  BY <1>1, InitFlowing, HostInvariant, PTL DEF Spec

(* Of two operations that may run at once, on any engines of any GPUs and  *)
(* in any scheme, neither writes what the other reads or writes.           *)
THEOREM NoConflictAlways == Spec => []NoConflict
<1>1. HostInv /\ Flowing => NoConflict
  <2> SUFFICES ASSUME HostInv, Flowing, NEW x \in Running, NEW y \in Running, x # y
               PROVE  ~Disturbs(x[2], y[2])
    BY DEF NoConflict
  <2>1. PICK a, o : a \in Agents /\ todo[a] # <<>> /\ o \in Head(todo[a]) /\ o.op = "sum" /\ x = <<a, o>>
    BY DEF Running
  <2>2. PICK b, m : b \in Agents /\ todo[b] # <<>> /\ m \in Head(todo[b]) /\ m.op = "sum" /\ y = <<b, m>>
    BY DEF Running
  <2>3. PICK O, S, J, t, p, w : t = todo /\ Led(O, S, J, t, p, w)
    BY DEF Flowing, Summing
  <2>4. DOMAIN t = Agents
    BY <2>3 DEF HostInv, Queued
  <2>5. a # b \/ o # m
    BY <2>1, <2>2
  <2>6. ~Disturbs(o, m)
    BY <2>1, <2>2, <2>3, <2>4, <2>5, LedApart
  <2> QED
    BY <2>1, <2>2, <2>6
<1> QED
  BY <1>1, HostInvariant, FlowingAlways, PTL

(* When a call has returned every element of every GPU is the sum of that  *)
(* element of all GPUs' inputs of this call, each counted once.            *)
THEOREM SumExactAlways == Spec => []SumExact
<1>1. HostInv /\ Flowing => SumExact
  <2> SUFFICES ASSUME HostInv, Flowing, prog = <<>>, calls > 0,
                      NEW g \in Ranks, NEW i \in 0..(Groups(n) - 1)
               PROVE  data[<<"buf", g>>][i] = {<<p, i, calls>> : p \in Ranks}
    BY DEF SumExact, Returned
  <2>1. PICK L, D, S, J, t, p, w, m, cl, e :
          /\ t = todo /\ p = prog /\ w = word /\ m = data /\ cl = calls /\ e = n
          /\ Summing(L, D, S, J, t, p, w, m, cl, e)
    BY DEF Flowing
  <2>2. GroupAssumption /\ e \in 0..Capacity
    BY <2>1, CountedGroup DEF HostInv, Counted, GroupAssumption
  <2>3. i \in Nat /\ i < Groups(e)
    BY <2>1, <2>2, ShareSizes DEF ShareFacts
  <2>4. Laid(L) /\ Tiled(L, Groups(e)) /\ Flow(L, D, DueOps(L, D, t, p), m, cl)
    BY <2>1 DEF Summing
  <2>5. p = <<>> /\ DOMAIN t = Agents /\ \A a \in Agents : t[a] = <<>>
    BY <2>1, NoneAwaited DEF HostInv, Programmed, Queued
  <2>6. \A o : ~Due(t, p, o)
    BY <2>5, NothingApart, EmptyIsSeq DEF Due
  <2>7. DueOps(L, D, t, p) = {}
    BY <2>6 DEF DueOps
  <2>8. Has(m, Mem("buf", g), i, Full(i, cl))
    BY <2>2, <2>3, <2>4, <2>7, FlowEnds
  <2> QED
    BY <2>1, <2>8 DEF Has, Mem, Full
<1> QED
  BY <1>1, HostInvariant, FlowingAlways, PTL
=============================================================================
