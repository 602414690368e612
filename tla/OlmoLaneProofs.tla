--------------------------- MODULE OlmoLaneProofs ---------------------------
(***************************************************************************)
(* Proofs about the OLMo lane, for any number of requests, any prompts and *)
(* answers, any channel and cache size, and whatever fails, hangs up or    *)
(* dies.                                                                   *)
(*                                                                         *)
(* A request is in one place at a time (PlaceInv); what has been sent to   *)
(* it is a run of its own tokens and at most one end (EventInv); while it  *)
(* is served, the cache holds its tokens in the positions below pos and    *)
(* pos follows from the tokens sent (WorkInv).                             *)
(***************************************************************************)
EXTENDS OlmoLane, SequenceTheorems, TLAPS

Fresh(r) ==
  got[r] = <<>> /\ events[r] = <<>> /\ generated[r] = 0 /\ r \notin overtaken

PlaceInv ==
  /\ \A i, j \in 1..Len(chan) : chan[i] = chan[j] => i = j
  /\ ~Queued(cur)
  /\ cur = NoRequest <=> wpc \in {"recv", "dead"}
  /\ wpc = "dead" => chan = <<>>
  /\ \A r \in Request :
       /\ hpc[r] \in {"start", "busy"} =>
            ~SenderAlive(r) /\ result[r] = "none" /\ Fresh(r)
       /\ Queued(r) => result[r] = "none" /\ hpc[r] = "reading" /\ Fresh(r)
       /\ r = cur => result[r] = "none" /\ hpc[r] \in {"reading", "left"}
       /\ result[r] = "none" => hpc[r] \in {"start", "busy"} \/ SenderAlive(r)

(* What a request has been sent: what its handler has received, then what  *)
(* is still in its channel.                                                *)
Sent(r) == Len(got[r]) + Len(events[r])
At(g, v, k) == IF k <= Len(g) THEN g[k] ELSE v[k - Len(g)]
SentAt(r, k) == At(got[r], events[r], k)

(* The event a request must be sent as its k-th of n.                      *)
Truthful(e, r, k, n) ==
  \/ e = TokenEvent(k - 1, Tok(r, Ask[r].prompt + k - 1))
  \/ k = n /\ e \in {DoneEvent(k - 1), ErrorEvent}

EventInv ==
  \A r \in Request :
    /\ result[r] = "none" => \A k \in 1..Sent(r) : SentAt(r, k).kind = "token"
    /\ r = cur /\ hpc[r] = "reading" => Sent(r) = generated[r]
    /\ r \notin overtaken =>
         \A k \in 1..Sent(r) : Truthful(SentAt(r, k), r, k, Sent(r))

(* How far the request in service is.                                      *)
Progressed(g, p, max) ==
  /\ wpc \in {"encode", "prefill"} => g = 0
  /\ wpc = "prefill" => pos < p
  /\ wpc = "generate" => pos = p + g
  /\ wpc = "step" => pos = p + g - 1 /\ pos < MaxSeq
  /\ wpc \in {"generate", "step", "count", "done"} =>
       g <= max /\ p + g <= MaxSeq + 1

(* What holds unless kernels of an earlier request were in its way.        *)
Undisturbed(g, p, max, eos) ==
  /\ g <= eos
  /\ wpc \in {"prefill", "generate", "step"} =>
       \A i \in 0..(pos - 1) : kv[i] = Tok(cur, i)
  /\ wpc \in {"generate", "step"} => next = Tok(cur, pos)
  /\ wpc \in {"count", "done"} /\ hpc[cur] = "reading" =>
       g \in {max, eos, MaxSeq - p + 1}

WorkInv ==
  cur \in Request =>
    /\ Progressed(generated[cur], Ask[cur].prompt, Ask[cur].max_new)
    /\ cur \notin overtaken =>
         Undisturbed(generated[cur], Ask[cur].prompt, Ask[cur].max_new, Ask[cur].eos)

OlmoInv == TypeOK /\ PlaceInv /\ EventInv /\ WorkInv

-----------------------------------------------------------------------------
(* The channel of prompts.                                                 *)
Distinct == \A i, j \in 1..Len(chan) : chan[i] = chan[j] => i = j

LEMMA Enqueued ==
  ASSUME chan \in Seq(Request), Distinct, NEW r \in Request, ~Queued(r),
         chan' = Append(chan, r)
  PROVE  /\ Distinct'
         /\ \A q : Queued(q)' <=> Queued(q) \/ q = r
<1>1. /\ Len(chan) \in Nat /\ Len(chan') = Len(chan) + 1
      /\ chan'[Len(chan) + 1] = r
      /\ \A i \in 1..Len(chan) : chan'[i] = chan[i]
  OBVIOUS
<1>2. Distinct'
  <2> SUFFICES ASSUME NEW i \in 1..Len(chan'), NEW j \in 1..Len(chan'),
                      chan'[i] = chan'[j], i # j
               PROVE  FALSE
    BY DEF Distinct
  <2>1. CASE i = Len(chan) + 1
    <3>1. j \in 1..Len(chan) /\ chan[j] = r
      BY <1>1, <2>1
    <3> QED BY <3>1 DEF Queued
  <2>2. CASE j = Len(chan) + 1
    <3>1. i \in 1..Len(chan) /\ chan[i] = r
      BY <1>1, <2>2
    <3> QED BY <3>1 DEF Queued
  <2>3. CASE i # Len(chan) + 1 /\ j # Len(chan) + 1
    <3>1. i \in 1..Len(chan) /\ j \in 1..Len(chan) /\ chan[i] = chan[j]
      BY <1>1, <2>3
    <3> QED BY <3>1 DEF Distinct
  <2> QED BY <2>1, <2>2, <2>3
<1>3. ASSUME NEW q PROVE Queued(q)' <=> Queued(q) \/ q = r
  <2>1. ASSUME Queued(q)' PROVE Queued(q) \/ q = r
    <3>1. PICK i \in 1..Len(chan') : chan'[i] = q
      BY <2>1 DEF Queued
    <3>2. i \in 1..Len(chan) \/ i = Len(chan) + 1
      BY <1>1
    <3> QED BY <1>1, <3>1, <3>2 DEF Queued
  <2>2. ASSUME Queued(q) PROVE Queued(q)'
    <3>1. PICK i \in 1..Len(chan) : chan[i] = q
      BY <2>2 DEF Queued
    <3>2. i \in 1..Len(chan') /\ chan'[i] = q
      BY <1>1, <3>1
    <3> QED BY <3>2 DEF Queued
  <2>3. ASSUME q = r PROVE Queued(q)'
    <3>1. Len(chan) + 1 \in 1..Len(chan') /\ chan'[Len(chan) + 1] = q
      BY <1>1, <2>3
    <3> QED BY <3>1 DEF Queued
  <2> QED BY <2>1, <2>2, <2>3
<1> QED BY <1>2, <1>3

LEMMA Dequeued ==
  ASSUME chan \in Seq(Request), Distinct, chan # <<>>, chan' = Tail(chan)
  PROVE  /\ Distinct' /\ chan' \in Seq(Request) /\ Len(chan') = Len(chan) - 1
         /\ Head(chan) \in Request /\ Queued(Head(chan))
         /\ \A q : Queued(q)' <=> Queued(q) /\ q # Head(chan)
<1>1. /\ Len(chan) \in Nat /\ Len(chan) >= 1 /\ Len(chan') = Len(chan) - 1
      /\ chan' \in Seq(Request) /\ Head(chan) = chan[1] /\ Head(chan) \in Request
      /\ \A i \in 1..Len(chan') : chan'[i] = chan[i + 1]
  OBVIOUS
<1>2. Distinct'
  <2> SUFFICES ASSUME NEW i \in 1..Len(chan'), NEW j \in 1..Len(chan'), chan'[i] = chan'[j]
               PROVE  i = j
    BY DEF Distinct
  <2>1. i + 1 \in 1..Len(chan) /\ j + 1 \in 1..Len(chan) /\ chan[i + 1] = chan[j + 1]
    BY <1>1
  <2>2. i + 1 = j + 1
    BY <2>1 DEF Distinct
  <2> QED BY <2>2
<1>3. 1 \in 1..Len(chan)
  BY <1>1
<1>4. ASSUME NEW q PROVE Queued(q)' <=> Queued(q) /\ q # Head(chan)
  <2>1. ASSUME Queued(q)' PROVE Queued(q) /\ q # Head(chan)
    <3>1. PICK i \in 1..Len(chan') : chan'[i] = q
      BY <2>1 DEF Queued
    <3>2. i + 1 \in 1..Len(chan) /\ chan[i + 1] = q /\ i + 1 # 1
      BY <1>1, <3>1
    <3>3. chan[1] # q
      BY <1>3, <3>2 DEF Distinct
    <3> QED BY <1>1, <3>2, <3>3 DEF Queued
  <2>2. ASSUME Queued(q), q # Head(chan) PROVE Queued(q)'
    <3>1. PICK i \in 1..Len(chan) : chan[i] = q
      BY <2>2 DEF Queued
    <3>2. i # 1
      BY <1>1, <2>2, <3>1
    <3>3. i - 1 \in 1..Len(chan') /\ (i - 1) + 1 = i
      BY <1>1, <3>2
    <3>4. chan'[i - 1] = q
      BY <1>1, <3>1, <3>3
    <3> QED BY <3>3, <3>4 DEF Queued
  <2> QED BY <2>1, <2>2
<1>5. Queued(Head(chan))
  BY <1>1, <1>3 DEF Queued
<1> QED BY <1>1, <1>2, <1>4, <1>5

LEMMA NotQueued ==
  ASSUME chan \in Seq(Request)
  PROVE  ~Queued(NoRequest)
<1>1. \A i \in 1..Len(chan) : chan[i] \in Request
  OBVIOUS
<1> QED BY <1>1, OlmoLaneAssumption DEF Queued

-----------------------------------------------------------------------------
(* What a request has been sent.                                           *)
LEMMA PlacesOfBoth ==
  ASSUME NEW S, NEW g \in Seq(S), NEW v \in Seq(S), NEW m, NEW n, m = Len(g), n = Len(v)
  PROVE  /\ m \in Nat /\ n \in Nat /\ m + n \in Nat
         /\ \A k \in 1..(m + n) : At(g, v, k) \in S
<1>1. m \in Nat /\ n \in Nat
  OBVIOUS
<1>2. m + n \in Nat
  <2>1. \A a, b \in Nat : a + b \in Nat
    OBVIOUS
  <2> QED BY <1>1, <2>1, Zenon
<1>3. ASSUME NEW k \in 1..(m + n) PROVE At(g, v, k) \in S
  <2>1. CASE k <= m
    <3>1. k \in 1..Len(g)
      BY <1>1, <2>1
    <3> QED BY <2>1, <3>1, ElementOfSeq DEF At
  <2>2. CASE ~(k <= m)
    <3>1. k - m \in 1..n
      BY <1>1, <2>2
    <3>2. v[k - m] \in S
      BY <3>1, ElementOfSeq
    <3> QED BY <2>2, <3>2 DEF At
  <2> QED BY <2>1, <2>2
<1> QED BY <1>1, <1>2, <1>3

(* An event is sent: the last place.                                       *)
LengthensBy(w, v, g, e) ==
  /\ Len(w) = Len(v) + 1
  /\ At(g, w, Len(g) + Len(v) + 1) = e
  /\ \A k \in 1..(Len(g) + Len(v)) : At(g, w, k) = At(g, v, k)

LEMMA PlacesOfSend ==
  ASSUME NEW S, NEW g \in Seq(S), NEW v \in Seq(S), NEW e \in S,
         NEW m, NEW n, m = Len(g), n = Len(v),
         NEW w, w = Append(v, e)
  PROVE  w \in Seq(S) /\ LengthensBy(w, v, g, e)
<1>1. m \in Nat /\ n \in Nat
  BY LenProperties
<1>2. /\ w \in Seq(S) /\ Len(w) = n + 1 /\ w[n + 1] = e
      /\ \A k \in 1..n : w[k] = v[k]
  BY AppendProperties
<1>3. At(g, w, m + n + 1) = e
  <2>1. PICK k : k = m + n + 1
    OBVIOUS
  <2>2. ~(k <= m) /\ k - m = n + 1
    BY <1>1, <2>1
  <2>3. At(g, w, k) = e
    BY <1>2, <2>2 DEF At
  <2> QED BY <2>1, <2>3
<1>4. ASSUME NEW k \in 1..(m + n) PROVE At(g, w, k) = At(g, v, k)
  <2>1. CASE k <= m
    BY <2>1 DEF At
  <2>2. CASE ~(k <= m)
    <3>1. k - m \in 1..n
      BY <1>1, <2>2
    <3> QED BY <1>2, <2>2, <3>1 DEF At
  <2> QED BY <2>1, <2>2
<1> QED BY <1>2, <1>3, <1>4 DEF LengthensBy

(* The first event in the channel is received: no place changes.           *)
Receives(h, w, g, v) ==
  LET m == Len(g)
      n == Len(v)
  IN  /\ Len(h) = m + 1
      /\ n \in Nat \ {0}
      /\ At(g, v, m + 1) = Head(v)
      /\ w = Tail(v) => /\ Len(w) = n - 1
                        /\ \A k \in 1..(m + n) : At(h, w, k) = At(g, v, k)
      /\ w = <<>> => \A k \in 1..(m + 1) : At(h, w, k) = At(g, v, k)

LEMMA PlacesOfReceipt ==
  ASSUME NEW S, NEW g \in Seq(S), NEW v \in Seq(S), v # <<>>,
         NEW m, NEW n, m = Len(g), n = Len(v),
         NEW h, h = Append(g, Head(v)), NEW w, w \in {Tail(v), <<>>}
  PROVE  h \in Seq(S) /\ w \in Seq(S) /\ Receives(h, w, g, v)
<1>1. m \in Nat /\ n \in Nat \ {0} /\ Head(v) \in S /\ Head(v) = v[1]
  OBVIOUS
<1>2. h \in Seq(S) /\ Len(h) = m + 1 /\ h[m + 1] = v[1] /\ \A k \in 1..m : h[k] = g[k]
  BY <1>1
<1>3. w \in Seq(S)
  <2>1. Tail(v) \in Seq(S) /\ <<>> \in Seq(S)
    BY HeadTailProperties, EmptySeq
  <2> QED BY <2>1, Zenon
<1>4. w = Tail(v) => Len(w) = n - 1 /\ \A k \in 1..(n - 1) : w[k] = v[k + 1]
  OBVIOUS
<1>5. ASSUME NEW k \in 1..(m + 1) PROVE At(h, w, k) = At(g, v, k)
  <2>1. At(h, w, k) = h[k]
    BY <1>1, <1>2 DEF At
  <2>2. CASE k <= m
    BY <1>1, <1>2, <2>1, <2>2 DEF At
  <2>3. CASE ~(k <= m)
    <3>1. k = m + 1 /\ k - m = 1
      BY <1>1, <2>3
    <3> QED BY <1>2, <2>1, <2>3, <3>1 DEF At
  <2> QED BY <2>2, <2>3
<1>6. ASSUME w = Tail(v), NEW k \in 1..(m + n) PROVE At(h, w, k) = At(g, v, k)
  <2>1. CASE k <= m + 1
    <3>1. k \in 1..(m + 1)
      BY <1>1, <2>1
    <3> QED BY <1>5, <3>1
  <2>2. CASE ~(k <= m + 1)
    <3>1. PICK j : j = k - (m + 1)
      OBVIOUS
    <3>2. j \in 1..(n - 1) /\ k - m = j + 1 /\ ~(k <= m)
      BY <1>1, <2>2, <3>1
    <3>3. At(h, w, k) = w[j]
      BY <1>2, <2>2, <3>1 DEF At
    <3>4. At(g, v, k) = v[j + 1]
      BY <3>2 DEF At
    <3> QED BY <1>4, <1>6, <3>2, <3>3, <3>4
  <2> QED BY <2>1, <2>2
<1>7. At(g, v, m + 1) = Head(v)
  <2>1. PICK k : k = m + 1
    OBVIOUS
  <2>2. ~(k <= m) /\ k - m = 1
    BY <1>1, <2>1
  <2> QED BY <1>1, <2>1, <2>2 DEF At
<1> QED BY <1>1, <1>2, <1>3, <1>4, <1>5, <1>6, <1>7 DEF Receives

LEMMA SentType ==
  ASSUME TypeOK, NEW r \in Request
  PROVE  /\ got[r] \in Seq(Event) /\ events[r] \in Seq(Event)
         /\ Len(got[r]) \in Nat /\ Len(events[r]) \in Nat /\ Sent(r) \in Nat
         /\ \A k \in 1..Sent(r) : SentAt(r, k) \in Event
<1>1. got[r] \in Seq(Event) /\ events[r] \in Seq(Event)
  BY DEF TypeOK
<1>2. PICK g, v : g = got[r] /\ v = events[r]
  OBVIOUS
<1>3. PICK m, n : m = Len(g) /\ n = Len(v)
  OBVIOUS
<1>4. /\ m \in Nat /\ n \in Nat /\ m + n \in Nat
      /\ \A k \in 1..(m + n) : At(g, v, k) \in Event
  BY <1>1, <1>2, <1>3, PlacesOfBoth
<1> QED BY <1>1, <1>2, <1>3, <1>4 DEF Sent, SentAt

LEMMA SentSame ==
  ASSUME NEW r, got'[r] = got[r], events'[r] = events[r]
  PROVE  Sent(r)' = Sent(r) /\ \A k : SentAt(r, k)' = SentAt(r, k)
  BY DEF Sent, SentAt, At

LEMMA SentMore ==
  ASSUME TypeOK, NEW r \in Request, NEW e \in Event, got'[r] = got[r],
         events'[r] = Append(events[r], e), NEW n, n = Sent(r)
  PROVE  /\ events'[r] \in Seq(Event)
         /\ Sent(r)' = n + 1
         /\ SentAt(r, n + 1)' = e
         /\ \A k \in 1..n : SentAt(r, k)' = SentAt(r, k)
<1>1. got[r] \in Seq(Event) /\ events[r] \in Seq(Event)
  BY DEF TypeOK
<1>2. PICK g, v, w : g = got[r] /\ v = events[r] /\ w = Append(v, e)
  OBVIOUS
<1>3. PICK a, b : a = Len(g) /\ b = Len(v)
  OBVIOUS
<1>4. w \in Seq(Event) /\ LengthensBy(w, v, g, e)
  <2>1. g \in Seq(Event) /\ v \in Seq(Event) /\ w = Append(v, e)
    BY <1>1, <1>2
  <2> QED BY <1>3, <2>1, PlacesOfSend
<1>5. /\ a \in Nat /\ b \in Nat /\ n = a + b
      /\ Len(w) = b + 1 /\ At(g, w, n + 1) = e
      /\ \A k \in 1..n : At(g, w, k) = At(g, v, k)
  <2>1. a \in Nat /\ b \in Nat
    BY <1>1, <1>2, <1>3, LenProperties
  <2>2. n = a + b
    BY <1>2, <1>3 DEF Sent
  <2>3. /\ Len(w) = b + 1 /\ At(g, w, a + b + 1) = e
        /\ \A k \in 1..(a + b) : At(g, w, k) = At(g, v, k)
    BY <1>3, <1>4 DEF LengthensBy
  <2> QED BY <2>1, <2>2, <2>3
<1>6. Sent(r)' = n + 1
  <2>1. Sent(r)' = Len(g) + Len(w)
    BY <1>2 DEF Sent
  <2> QED BY <1>3, <1>5, <2>1
<1>7. \A k : SentAt(r, k)' = At(g, w, k) /\ SentAt(r, k) = At(g, v, k)
  BY <1>2 DEF SentAt, At
<1> QED BY <1>2, <1>4, <1>5, <1>6, <1>7

-----------------------------------------------------------------------------
(* What a step leaves alone.                                               *)
LEMMA PlacesKept ==
  ASSUME PlaceInv, UNCHANGED <<hpc, chan, cur, result>>,
         wpc' \in {"recv", "dead"} <=> wpc \in {"recv", "dead"},
         wpc' = "dead" <=> wpc = "dead",
         \A r \in Request : r # cur =>
            /\ got'[r] = got[r] /\ events'[r] = events[r] /\ generated'[r] = generated[r]
            /\ r \in overtaken' <=> r \in overtaken
  PROVE  PlaceInv'
<1>1. \A q : (Queued(q)' <=> Queued(q)) /\ (SenderAlive(q)' <=> SenderAlive(q))
  BY DEF Queued, SenderAlive
<1>2. \A r \in Request : r # cur => (Fresh(r)' <=> Fresh(r))
  BY DEF Fresh
<1>3. /\ \A i, j \in 1..Len(chan) : chan[i] = chan[j] => i = j
      /\ ~Queued(cur)
      /\ cur = NoRequest <=> wpc \in {"recv", "dead"}
      /\ wpc = "dead" => chan = <<>>
  BY DEF PlaceInv
<1>4. ASSUME NEW r \in Request
      PROVE  /\ hpc'[r] \in {"start", "busy"} =>
                  ~SenderAlive(r)' /\ result'[r] = "none" /\ Fresh(r)'
             /\ Queued(r)' => result'[r] = "none" /\ hpc'[r] = "reading" /\ Fresh(r)'
             /\ r = cur' => result'[r] = "none" /\ hpc'[r] \in {"reading", "left"}
             /\ result'[r] = "none" => hpc'[r] \in {"start", "busy"} \/ SenderAlive(r)'
  <2>1. /\ hpc[r] \in {"start", "busy"} =>
             ~SenderAlive(r) /\ result[r] = "none" /\ Fresh(r)
        /\ Queued(r) => result[r] = "none" /\ hpc[r] = "reading" /\ Fresh(r)
        /\ r = cur => result[r] = "none" /\ hpc[r] \in {"reading", "left"}
        /\ result[r] = "none" => hpc[r] \in {"start", "busy"} \/ SenderAlive(r)
    BY DEF PlaceInv
  <2>2. hpc[r] \in {"start", "busy"} => r # cur
    BY <2>1 DEF SenderAlive
  <2>3. Queued(r) => r # cur
    BY <1>3
  <2> QED BY <1>1, <1>2, <2>1, <2>2, <2>3
<1> QED BY <1>1, <1>3, <1>4 DEF PlaceInv

LEMMA EventsKept ==
  ASSUME EventInv, UNCHANGED <<got, events>>, overtaken \subseteq overtaken',
         \A r \in Request : result'[r] = "none" => result[r] = "none",
         \A r \in Request : r = cur' /\ hpc'[r] = "reading" => Sent(r) = generated'[r]
  PROVE  EventInv'
<1>1. ASSUME NEW r \in Request
      PROVE  Sent(r)' = Sent(r) /\ \A k : SentAt(r, k)' = SentAt(r, k)
  BY SentSame
<1>2. ASSUME NEW r \in Request
      PROVE  /\ result'[r] = "none" => \A k \in 1..Sent(r)' : SentAt(r, k)'.kind = "token"
             /\ r = cur' /\ hpc'[r] = "reading" => Sent(r)' = generated'[r]
             /\ r \notin overtaken' =>
                  \A k \in 1..Sent(r)' : Truthful(SentAt(r, k)', r, k, Sent(r)')
  <2>1. /\ result[r] = "none" => \A k \in 1..Sent(r) : SentAt(r, k).kind = "token"
        /\ r \notin overtaken => \A k \in 1..Sent(r) : Truthful(SentAt(r, k), r, k, Sent(r))
    BY DEF EventInv
  <2> QED BY <1>1, <2>1
<1> QED BY <1>2 DEF EventInv, Truthful, TokenEvent, DoneEvent, ErrorEvent, Tok, Garbage

LEMMA WorkKept ==
  ASSUME WorkInv, UNCHANGED <<wpc, cur, pos, next, generated, kv, overtaken>>,
         hpc'[cur] = "reading" => hpc[cur] = "reading"
  PROVE  WorkInv'
<1> SUFFICES ASSUME cur \in Request
             PROVE  /\ Progressed(generated[cur], Ask[cur].prompt, Ask[cur].max_new)'
                    /\ cur \notin overtaken =>
                         Undisturbed(generated[cur], Ask[cur].prompt, Ask[cur].max_new,
                                     Ask[cur].eos)'
  BY DEF WorkInv
<1>1. Progressed(generated[cur], Ask[cur].prompt, Ask[cur].max_new)'
  BY DEF WorkInv, Progressed
<1>2. cur \notin overtaken =>
        Undisturbed(generated[cur], Ask[cur].prompt, Ask[cur].max_new, Ask[cur].eos)'
  BY DEF WorkInv, Undisturbed, Tok
<1> QED BY <1>1, <1>2

LEMMA NoWork ==
  ASSUME cur' = NoRequest
  PROVE  WorkInv'
  BY OlmoLaneAssumption DEF WorkInv

-----------------------------------------------------------------------------
(* Sending.                                                                *)
LEMMA EventTypes ==
  ASSUME NEW n \in Nat, NEW t \in (Request \cup {NoRequest}) \X Nat
  PROVE  TokenEvent(n, t) \in Event /\ DoneEvent(n) \in Event /\ ErrorEvent \in Event
  BY DEF TokenEvent, DoneEvent, ErrorEvent, Garbage, Event

LEMMA SendFacts ==
  ASSUME TypeOK, PlaceInv, cur \in Request, NEW e \in Event, Send(e), got' = got
  PROVE  /\ events' \in [Request -> Seq(Event)]
         /\ \A r \in Request : r # cur => events'[r] = events[r]
         /\ Listening(cur) <=> hpc[cur] = "reading"
         /\ ~Listening(cur) => events'[cur] = events[cur]
         /\ Listening(cur) => events'[cur] = Append(events[cur], e)
<1>1. events \in [Request -> Seq(Event)] /\ hpc[cur] \in {"reading", "left"}
  BY DEF TypeOK, PlaceInv
<1>2. Listening(cur) <=> hpc[cur] = "reading"
  BY <1>1 DEF Listening
<1>3. Append(events[cur], e) \in Seq(Event)
  BY <1>1
<1> QED BY <1>1, <1>2, <1>3 DEF Send

(* A truthful end, after which the request is no longer served.            *)
LEMMA FinishKeeps ==
  ASSUME OlmoInv, cur \in Request, NEW e \in Event, Send(e),
         NEW how \in Ends, Finish(how),
         UNCHANGED <<hpc, got, chan, generated, overtaken>>,
         e \in {DoneEvent(generated[cur]), ErrorEvent}
  PROVE  /\ events' \in [Request -> Seq(Event)]
         /\ result' \in [Request -> Ends \cup {"none", "cut"}]
         /\ PlaceInv' /\ EventInv' /\ WorkInv'
<1>1. TypeOK /\ PlaceInv /\ EventInv
  BY DEF OlmoInv
<1>2. /\ events' \in [Request -> Seq(Event)]
      /\ \A r \in Request : r # cur => events'[r] = events[r]
      /\ Listening(cur) <=> hpc[cur] = "reading"
      /\ ~Listening(cur) => events'[cur] = events[cur]
      /\ Listening(cur) => events'[cur] = Append(events[cur], e)
  BY <1>1, SendFacts
<1>3. /\ result' \in [Request -> Ends \cup {"none", "cut"}]
      /\ result'[cur] = how /\ how # "none"
      /\ \A r \in Request : r # cur => result'[r] = result[r]
      /\ cur' = NoRequest /\ wpc' = "recv"
  BY <1>1 DEF TypeOK, Finish, Ends
<1>4. PlaceInv'
  <2>1. /\ \A i, j \in 1..Len(chan) : chan[i] = chan[j] => i = j
        /\ ~Queued(cur) /\ chan \in Seq(Request)
    BY <1>1 DEF PlaceInv, TypeOK
  <2>2. \A q : Queued(q)' <=> Queued(q)
    BY DEF Queued
  <2>3. ~Queued(cur)'
    BY <1>3, <2>1, <2>2, NotQueued DEF Queued
  <2>4. ASSUME NEW r \in Request
        PROVE  /\ hpc'[r] \in {"start", "busy"} =>
                    ~SenderAlive(r)' /\ result'[r] = "none" /\ Fresh(r)'
               /\ Queued(r)' => result'[r] = "none" /\ hpc'[r] = "reading" /\ Fresh(r)'
               /\ r # cur'
               /\ result'[r] = "none" => hpc'[r] \in {"start", "busy"} \/ SenderAlive(r)'
    <3>1. /\ hpc[r] \in {"start", "busy"} =>
               ~SenderAlive(r) /\ result[r] = "none" /\ Fresh(r)
          /\ Queued(r) => result[r] = "none" /\ hpc[r] = "reading" /\ Fresh(r)
          /\ result[r] = "none" => hpc[r] \in {"start", "busy"} \/ SenderAlive(r)
      BY <1>1 DEF PlaceInv
    <3>2. r # cur' /\ (SenderAlive(r)' <=> Queued(r))
      BY <1>3, <2>2, OlmoLaneAssumption DEF SenderAlive
    <3>3. hpc[r] \in {"start", "busy"} \/ Queued(r) => r # cur
      BY <2>1, <3>1 DEF SenderAlive
    <3>4. r # cur => (Fresh(r)' <=> Fresh(r))
      BY <1>2 DEF Fresh
    <3> QED BY <1>3, <2>2, <3>1, <3>2, <3>3, <3>4 DEF SenderAlive
  <2> QED BY <1>3, <2>1, <2>3, <2>4 DEF PlaceInv
<1>5. EventInv'
  <2> SUFFICES ASSUME NEW r \in Request
               PROVE  /\ result'[r] = "none" => \A k \in 1..Sent(r)' : SentAt(r, k)'.kind = "token"
                      /\ r \notin overtaken =>
                           \A k \in 1..Sent(r)' : Truthful(SentAt(r, k)', r, k, Sent(r)')
    BY <1>3, OlmoLaneAssumption
       DEF EventInv, Truthful, TokenEvent, DoneEvent, ErrorEvent, Tok, Garbage
  <2>1. /\ result[r] = "none" => \A k \in 1..Sent(r) : SentAt(r, k).kind = "token"
        /\ r = cur /\ hpc[r] = "reading" => Sent(r) = generated[r]
        /\ r \notin overtaken => \A k \in 1..Sent(r) : Truthful(SentAt(r, k), r, k, Sent(r))
    BY <1>1 DEF EventInv
  <2>2. CASE r # cur \/ ~Listening(cur)
    <3>1. Sent(r)' = Sent(r) /\ \A k : SentAt(r, k)' = SentAt(r, k)
      BY <1>2, <2>2, SentSame
    <3>2. result'[r] = "none" => result[r] = "none"
      BY <1>3
    <3> QED BY <2>1, <3>1, <3>2
  <2>3. CASE r = cur /\ Listening(cur)
    <3>1. PICK n : n = Sent(r)
      OBVIOUS
    <3>2. n \in Nat /\ n = generated[r] /\ result[r] = "none"
      BY <1>1, <1>2, <2>1, <2>3, <3>1, SentType DEF PlaceInv
    <3>3. /\ Sent(r)' = n + 1 /\ SentAt(r, n + 1)' = e
          /\ \A k \in 1..n : SentAt(r, k)' = SentAt(r, k)
      BY <1>1, <1>2, <2>3, <3>1, SentMore
    <3>4. ASSUME r \notin overtaken, NEW k \in 1..(n + 1)
          PROVE  Truthful(SentAt(r, k)', r, k, n + 1)
      <4>1. CASE k = n + 1
        <5>1. k - 1 = n /\ SentAt(r, k)' = e
          BY <3>2, <3>3, <4>1
        <5> QED BY <2>3, <3>2, <4>1, <5>1 DEF Truthful
      <4>2. CASE k # n + 1
        <5>1. k \in 1..n
          BY <3>2, <4>2
        <5>2. Truthful(SentAt(r, k), r, k, n) /\ SentAt(r, k).kind = "token"
          BY <2>1, <3>1, <3>2, <3>4, <5>1
        <5>3. SentAt(r, k) = TokenEvent(k - 1, Tok(r, Ask[r].prompt + k - 1))
          BY <5>2 DEF Truthful, DoneEvent, ErrorEvent
        <5> QED BY <3>3, <5>1, <5>3 DEF Truthful
      <4> QED BY <4>1, <4>2
    <3> QED BY <1>3, <2>3, <3>3, <3>4
  <2> QED BY <2>2, <2>3
<1> QED BY <1>2, <1>3, <1>4, <1>5, NoWork

-----------------------------------------------------------------------------
(* The worker.                                                             *)
Token == (Request \cup {NoRequest}) \X Nat

LEMMA AskTypes ==
  ASSUME NEW r \in Request
  PROVE  Ask[r].prompt \in Nat /\ Ask[r].max_new \in Nat \ {0} /\ Ask[r].eos \in Nat
  BY OlmoLaneAssumption

LEMMA TokType ==
  ASSUME NEW r \in Request, NEW p \in Nat
  PROVE  Tok(r, p) \in Token /\ Garbage \in Token
  BY DEF Tok, Garbage, Token

LEMMA Serving ==
  ASSUME TypeOK, PlaceInv, wpc \notin {"recv", "dead"}
  PROVE  /\ cur \in Request /\ result[cur] = "none"
         /\ hpc[cur] \in {"reading", "left"}
         /\ generated[cur] \in Nat /\ pos \in 0..MaxSeq /\ MaxSeq \in Nat /\ pos \in Nat
  BY OlmoLaneAssumption DEF TypeOK, PlaceInv

LEMMA PutType ==
  ASSUME TypeOK, pos < MaxSeq, NEW t \in Token
  PROVE  /\ Put(t) \in [0..(MaxSeq - 1) -> Token]
         /\ pos \in 0..(MaxSeq - 1)
         /\ Put(t)[pos] = t
         /\ \A i \in 0..(MaxSeq - 1) : i # pos => Put(t)[i] = kv[i]
<1>1. pos \in 0..MaxSeq /\ MaxSeq \in Nat /\ kv \in [0..(MaxSeq - 1) -> Token]
  BY OlmoLaneAssumption DEF TypeOK, Token
<1>2. pos \in 0..(MaxSeq - 1)
  BY <1>1
<1> QED BY <1>1, <1>2 DEF Put

LEMMA ReceiveInv ==
  ASSUME OlmoInv, Receive
  PROVE  OlmoInv'
<1>1. TypeOK /\ PlaceInv /\ EventInv
  BY DEF OlmoInv
<1>2. /\ wpc = "recv" /\ chan # <<>> /\ wpc' = "encode"
      /\ cur' = Head(chan) /\ chan' = Tail(chan)
      /\ hpc' = hpc /\ got' = got /\ events' = events /\ pos' = pos /\ next' = next
      /\ generated' = generated /\ result' = result /\ completed' = completed
      /\ kv' = kv /\ leftover' = leftover /\ overtaken' = overtaken
      /\ queueFull' = queueFull
  BY DEF Receive, handlerVars, runnerVars
<1>3. chan \in Seq(Request) /\ Distinct /\ cur = NoRequest
  BY <1>1, <1>2 DEF TypeOK, PlaceInv, Distinct
<1>4. /\ Distinct' /\ chan' \in Seq(Request) /\ Len(chan') = Len(chan) - 1
      /\ cur' \in Request /\ Queued(cur')
      /\ \A q : Queued(q)' <=> Queued(q) /\ q # cur'
  BY <1>2, <1>3, Dequeued
<1>5. TypeOK'
  <2>1. Len(chan') <= QueueSlots
    BY <1>1, <1>3, <1>4, OlmoLaneAssumption DEF TypeOK
  <2> QED BY <1>1, <1>2, <1>4, <2>1 DEF TypeOK
<1>6. \A r \in Request :
        /\ hpc[r] \in {"start", "busy"} =>
             ~SenderAlive(r) /\ result[r] = "none" /\ Fresh(r)
        /\ Queued(r) => result[r] = "none" /\ hpc[r] = "reading" /\ Fresh(r)
        /\ result[r] = "none" => hpc[r] \in {"start", "busy"} \/ SenderAlive(r)
  BY <1>1 DEF PlaceInv
<1>7. PlaceInv'
  <2>1. \A r \in Request : (SenderAlive(r)' <=> SenderAlive(r)) /\ (Fresh(r)' <=> Fresh(r))
    BY <1>2, <1>3, <1>4, OlmoLaneAssumption DEF SenderAlive, Fresh
  <2>2. ASSUME NEW r \in Request
        PROVE  /\ hpc'[r] \in {"start", "busy"} =>
                    ~SenderAlive(r)' /\ result'[r] = "none" /\ Fresh(r)'
               /\ Queued(r)' => result'[r] = "none" /\ hpc'[r] = "reading" /\ Fresh(r)'
               /\ r = cur' => result'[r] = "none" /\ hpc'[r] \in {"reading", "left"}
               /\ result'[r] = "none" => hpc'[r] \in {"start", "busy"} \/ SenderAlive(r)'
    BY <1>2, <1>4, <1>6, <2>1
  <2>3. ~Queued(cur)'
    <3>1. ~(Queued(cur') /\ cur' # cur')
      OBVIOUS
    <3> QED BY <1>4 DEF Queued
  <2>4. (cur' = NoRequest <=> wpc' \in {"recv", "dead"}) /\ wpc' # "dead"
    BY <1>2, <1>4, OlmoLaneAssumption
  <2> QED BY <1>4, <2>2, <2>3, <2>4 DEF PlaceInv, Distinct
<1>8. EventInv'
  <2>1. Fresh(cur')
    BY <1>4, <1>6
  <2>2. Sent(cur') = 0 /\ generated'[cur'] = 0
    BY <1>2, <2>1 DEF Fresh, Sent
  <2> QED BY <1>1, <1>2, <2>2, EventsKept
<1>9. WorkInv'
  <2>1. generated'[cur'] = 0 /\ Ask[cur'].eos \in Nat
    BY <1>2, <1>4, <1>6, AskTypes DEF Fresh
  <2>2. Progressed(generated[cur], Ask[cur].prompt, Ask[cur].max_new)'
    BY <1>2, <2>1 DEF Progressed
  <2>3. Undisturbed(generated[cur], Ask[cur].prompt, Ask[cur].max_new, Ask[cur].eos)'
    BY <1>2, <2>1 DEF Undisturbed
  <2> QED BY <2>2, <2>3 DEF WorkInv
<1> QED BY <1>5, <1>7, <1>8, <1>9 DEF OlmoInv

LEMMA FailsInv ==
  ASSUME OlmoInv, wpc \notin {"recv", "dead"}, NEW how \in Ends, Fails(how),
         kv' \in [0..(MaxSeq - 1) -> Token], leftover' \in Leftovers, overtaken' = overtaken
  PROVE  OlmoInv'
<1>1. TypeOK /\ PlaceInv
  BY DEF OlmoInv
<1>2. cur \in Request
  BY <1>1, Serving
<1>3. /\ Send(ErrorEvent) /\ Finish(how)
      /\ hpc' = hpc /\ got' = got /\ chan' = chan /\ pos' = pos /\ next' = next
      /\ generated' = generated /\ completed' = completed /\ queueFull' = queueFull
      /\ cur' = NoRequest /\ wpc' = "recv"
  BY DEF Fails, handlerVars, Finish
<1>4. ErrorEvent \in Event
  BY EventTypes DEF ErrorEvent, Event, Garbage
<1>5. /\ events' \in [Request -> Seq(Event)]
      /\ result' \in [Request -> Ends \cup {"none", "cut"}]
      /\ PlaceInv' /\ EventInv' /\ WorkInv'
  BY <1>2, <1>3, <1>4, FinishKeeps
<1>6. TypeOK'
  BY <1>1, <1>3, <1>5 DEF TypeOK, Token
<1> QED BY <1>5, <1>6 DEF OlmoInv

LEMMA EncodeFailsInv ==
  ASSUME OlmoInv, EncodeFails
  PROVE  OlmoInv'
<1>1. /\ wpc = "encode" /\ Fails("not encoded") /\ "not encoded" \in Ends
      /\ kv' = kv /\ leftover' = leftover /\ overtaken' = overtaken
  BY DEF EncodeFails, runnerVars, Ends
<1>2. kv' \in [0..(MaxSeq - 1) -> Token] /\ leftover' \in Leftovers
  BY <1>1 DEF OlmoInv, TypeOK, Token
<1> QED BY <1>1, <1>2, FailsInv

LEMMA StepTooFarInv ==
  ASSUME OlmoInv, wpc \in {"prefill", "step"}, StepTooFar
  PROVE  OlmoInv'
<1>1. /\ Fails("too long") /\ "too long" \in Ends
      /\ kv' = kv /\ leftover' = leftover /\ overtaken' = overtaken
  BY DEF StepTooFar, runnerVars, Ends
<1>2. kv' \in [0..(MaxSeq - 1) -> Token] /\ leftover' \in Leftovers
  BY <1>1 DEF OlmoInv, TypeOK, Token
<1> QED BY <1>1, <1>2, FailsInv

LEMMA StepFailsInv ==
  ASSUME OlmoInv, wpc \in {"prefill", "step"}, StepFails
  PROVE  OlmoInv'
<1>1. /\ Fails("device") /\ "device" \in Ends /\ pos < MaxSeq
      /\ kv' \in {kv, Put(Garbage)} /\ leftover' \in IF KernelsMayLinger THEN Leftovers ELSE {leftover}
      /\ overtaken' = overtaken
  BY DEF StepFails, Ends
<1>2. TypeOK /\ Garbage \in Token
  BY DEF OlmoInv, Garbage, Token
<1>3. kv' \in [0..(MaxSeq - 1) -> Token]
  BY <1>1, <1>2, PutType DEF TypeOK, Token
<1>4. leftover' \in Leftovers
  BY <1>1, <1>2 DEF TypeOK
<1> QED BY <1>1, <1>3, <1>4, FailsInv

(* A step of the model: the position it writes joins those below it, or    *)
(* the request joins those that were overtaken.                            *)
LEMMA StepInv ==
  ASSUME OlmoInv, NEW t \in Token, NEW place,
         Step(t, place) \/ OvertakenStep(t, place),
         \/ wpc = "prefill" /\ place = IF pos + 1 = Ask[cur].prompt THEN "generate" ELSE "prefill"
         \/ wpc = "step" /\ place = "generate",
         cur \notin overtaken => t = Tok(cur, pos)
  PROVE  OlmoInv'
<1>1. TypeOK /\ PlaceInv /\ EventInv /\ WorkInv
  BY DEF OlmoInv
<1>2. /\ pos < MaxSeq
      /\ \/ /\ kv' = Put(t) /\ next' = Kept(Yields(t), place)
            /\ leftover' = leftover /\ overtaken' = overtaken
         \/ /\ kv' \in {Put(t), Put(Garbage)}
            /\ next' \in {Kept(x, place) : x \in {Yields(t), Eos, Garbage}}
            /\ leftover' \in {"nothing", leftover} /\ overtaken' = overtaken \cup {cur}
      /\ pos' = pos + 1 /\ wpc' = place
      /\ hpc' = hpc /\ got' = got /\ events' = events /\ chan' = chan /\ cur' = cur
      /\ generated' = generated /\ result' = result /\ completed' = completed
      /\ queueFull' = queueFull
  BY DEF Step, OvertakenStep, Advance, handlerVars
<1>3. /\ cur \in Request /\ generated[cur] \in Nat /\ pos \in Nat /\ MaxSeq \in Nat
      /\ Ask[cur].prompt \in Nat /\ Ask[cur].max_new \in Nat \ {0} /\ Ask[cur].eos \in Nat
  BY <1>1, Serving, AskTypes
<1>4. Tok(cur, pos + 1) \in Token /\ Eos \in Token /\ Garbage \in Token
  <2>1. Ask[cur].prompt + Ask[cur].eos \in Nat /\ pos + 1 \in Nat
    BY <1>3
  <2> QED BY <1>3, <2>1, TokType DEF Eos
<1>5. place \in {"prefill", "generate"}
  OBVIOUS
<1>6. TypeOK'
  <2>1. next' \in Token
    BY <1>2, <1>4 DEF Yields, Kept
  <2>2. pos' \in 0..MaxSeq
    BY <1>2, <1>3
  <2>3. overtaken' \subseteq Request
    BY <1>1, <1>2, <1>3 DEF TypeOK
  <2>4. kv' \in [0..(MaxSeq - 1) -> Token]
    BY <1>1, <1>2, <1>4, PutType
  <2>5. leftover' \in Leftovers
    BY <1>1, <1>2 DEF TypeOK, Leftovers
  <2> QED BY <1>1, <1>2, <1>5, <2>1, <2>2, <2>3, <2>4, <2>5 DEF TypeOK, Token
<1>7. PlaceInv'
  <2>1. \A r \in Request : r # cur => (r \in overtaken' <=> r \in overtaken)
    BY <1>2
  <2> QED BY <1>1, <1>2, <1>5, <2>1, PlacesKept
<1>8. EventInv'
  <2>1. \A r \in Request : r = cur /\ hpc[r] = "reading" => Sent(r) = generated[r]
    BY <1>1 DEF EventInv
  <2> QED BY <1>1, <1>2, <2>1, EventsKept
<1>9. WorkInv'
  <2>1. PICK g, p, max, eos : /\ g = generated[cur] /\ p = Ask[cur].prompt
                              /\ max = Ask[cur].max_new /\ eos = Ask[cur].eos
    OBVIOUS
  <2>2. Progressed(g, p, max) /\ (cur \notin overtaken => Undisturbed(g, p, max, eos))
    BY <1>1, <1>3, <2>1 DEF WorkInv
  <2>3. Progressed(g, p, max)'
    <3>1. CASE wpc = "prefill"
      <4>1. g = 0 /\ pos < p /\ place = IF pos + 1 = p THEN "generate" ELSE "prefill"
        BY <2>1, <2>2, <3>1 DEF Progressed
      <4> QED BY <1>2, <1>3, <2>1, <4>1 DEF Progressed
    <3>2. CASE wpc = "step"
      <4>1. pos = p + g - 1 /\ g <= max /\ place = "generate"
        BY <2>1, <2>2, <3>2 DEF Progressed
      <4> QED BY <1>2, <1>3, <2>1, <4>1 DEF Progressed
    <3> QED BY <3>1, <3>2
  <2>4. ASSUME cur \notin overtaken' PROVE Undisturbed(g, p, max, eos)'
    <3>1. cur \notin overtaken /\ kv' = Put(t) /\ next' = Kept(Yields(t), place)
      BY <1>2, <2>4
    <3>2. Undisturbed(g, p, max, eos) /\ t = Tok(cur, pos)
      BY <2>2, <3>1
    <3>3. \A i \in 0..(pos - 1) : kv[i] = Tok(cur, i)
      BY <3>2 DEF Undisturbed
    <3>4. \A i \in 0..pos : kv'[i] = Tok(cur, i)
      <4> SUFFICES ASSUME NEW i \in 0..pos PROVE kv'[i] = Tok(cur, i)
        OBVIOUS
      <4>1. i = pos \/ (i \in 0..(pos - 1) /\ i \in 0..(MaxSeq - 1) /\ i # pos)
        BY <1>2, <1>3
      <4>2. kv'[pos] = t /\ \A q \in 0..(MaxSeq - 1) : q # pos => kv'[q] = kv[q]
        BY <1>1, <1>2, <3>1, PutType
      <4> QED BY <3>2, <3>3, <4>1, <4>2
    <3>5. place = "generate" => next' = Tok(cur, pos')
      <4>1. \A i \in 0..pos : Put(t)[i] = Tok(cur, i)
        BY <3>1, <3>4
      <4>2. Yields(t) = Tok(cur, pos + 1)
        BY <4>1 DEF Yields
      <4> QED BY <1>2, <3>1, <4>2 DEF Kept
    <3>6. pos' - 1 = pos
      BY <1>2, <1>3
    <3>7. g <= eos
      BY <3>2 DEF Undisturbed
    <3> QED BY <1>2, <1>5, <3>4, <3>5, <3>6, <3>7 DEF Undisturbed, Tok
  <2> QED BY <1>2, <2>1, <2>3, <2>4 DEF WorkInv
<1> QED BY <1>6, <1>7, <1>8, <1>9 DEF OlmoInv

LEMMA EncodeInv ==
  ASSUME OlmoInv, Encode
  PROVE  OlmoInv'
<1>1. TypeOK /\ PlaceInv /\ EventInv /\ WorkInv
  BY DEF OlmoInv
<1>2. /\ wpc = "encode" /\ Ask[cur].prompt > 0 /\ pos' = 0 /\ next' = Garbage
      /\ wpc' = "prefill"
      /\ hpc' = hpc /\ got' = got /\ events' = events /\ chan' = chan /\ cur' = cur
      /\ generated' = generated /\ result' = result /\ completed' = completed
      /\ kv' = kv /\ leftover' = leftover /\ overtaken' = overtaken
      /\ queueFull' = queueFull
  BY DEF Encode, handlerVars, runnerVars
<1>3. /\ cur \in Request /\ generated[cur] \in Nat /\ MaxSeq \in Nat
      /\ Ask[cur].prompt \in Nat
  BY <1>1, <1>2, Serving, AskTypes
<1>4. TypeOK'
  <2>1. next' \in (Request \cup {NoRequest}) \X Nat
    BY <1>2 DEF Garbage
  <2>2. pos' \in 0..MaxSeq
    BY <1>2, <1>3
  <2> QED BY <1>1, <1>2, <2>1, <2>2 DEF TypeOK
<1>5. PlaceInv'
  BY <1>1, <1>2, PlacesKept
<1>6. EventInv'
  <2>1. \A r \in Request : r = cur /\ hpc[r] = "reading" => Sent(r) = generated[r]
    BY <1>1 DEF EventInv
  <2> QED BY <1>1, <1>2, <2>1, EventsKept
<1>7. WorkInv'
  <2>1. PICK g, p, max, eos : /\ g = generated[cur] /\ p = Ask[cur].prompt
                              /\ max = Ask[cur].max_new /\ eos = Ask[cur].eos
    OBVIOUS
  <2>2. Progressed(g, p, max) /\ (cur \notin overtaken => Undisturbed(g, p, max, eos))
    BY <1>1, <1>3, <2>1 DEF WorkInv
  <2>3. Progressed(g, p, max)'
    BY <1>2, <2>1, <2>2 DEF Progressed
  <2>4. cur \notin overtaken => Undisturbed(g, p, max, eos)'
    BY <1>2, <2>2 DEF Undisturbed
  <2> QED BY <1>2, <2>1, <2>3, <2>4 DEF WorkInv
<1> QED BY <1>4, <1>5, <1>6, <1>7 DEF OlmoInv

LEMMA PrefillInv ==
  ASSUME OlmoInv, Prefill
  PROVE  OlmoInv'
<1>1. wpc = "prefill"
  BY DEF Prefill
<1>2. PICK t : t = Tok(cur, pos)
  OBVIOUS
<1>3. PICK place : place = IF pos + 1 = Ask[cur].prompt THEN "generate" ELSE "prefill"
  OBVIOUS
<1>4. Step(t, place) \/ OvertakenStep(t, place) \/ StepTooFar \/ StepFails
  BY <1>2, <1>3 DEF Prefill
<1>5. cur \in Request /\ pos \in Nat
  BY <1>1, Serving DEF OlmoInv
<1>6. t \in Token
  BY <1>2, <1>5, TokType
<1>7. ASSUME Step(t, place) \/ OvertakenStep(t, place) PROVE OlmoInv'
  BY <1>1, <1>2, <1>3, <1>6, <1>7, StepInv
<1> QED BY <1>1, <1>4, <1>7, StepTooFarInv, StepFailsInv

LEMMA DecodeInv ==
  ASSUME OlmoInv, Decode
  PROVE  OlmoInv'
<1>1. /\ wpc = "step"
      /\ \/ Step(next, "generate") \/ OvertakenStep(next, "generate")
         \/ StepTooFar \/ StepFails
  BY DEF Decode
<1>2. next \in Token
  BY DEF OlmoInv, TypeOK, Token
<1>3. cur \in Request
  BY <1>1, Serving DEF OlmoInv
<1>4. cur \notin overtaken => next = Tok(cur, pos)
  BY <1>1, <1>3 DEF OlmoInv, WorkInv, Undisturbed
<1> QED BY <1>1, <1>2, <1>4, StepInv, StepTooFarInv, StepFailsInv

(* The answer ends: nothing is sent.                                       *)
LEMMA GenerateStopsInv ==
  ASSUME OlmoInv, GenerateEnds \/ GenerateHungUp
  PROVE  OlmoInv'
<1>1. TypeOK /\ PlaceInv /\ EventInv /\ WorkInv
  BY DEF OlmoInv
<1>2. /\ wpc = "generate" /\ wpc' = "count" /\ (AnswerEnds \/ ~Listening(cur))
      /\ pos' = pos /\ next' = next
      /\ hpc' = hpc /\ got' = got /\ events' = events /\ chan' = chan /\ cur' = cur
      /\ generated' = generated /\ result' = result /\ completed' = completed
      /\ kv' = kv /\ leftover' = leftover /\ overtaken' = overtaken
      /\ queueFull' = queueFull
  BY DEF GenerateEnds, GenerateHungUp, handlerVars, runnerVars
<1>3. /\ cur \in Request /\ generated[cur] \in Nat /\ MaxSeq \in Nat /\ pos \in 0..MaxSeq
      /\ Ask[cur].prompt \in Nat /\ Ask[cur].max_new \in Nat \ {0} /\ Ask[cur].eos \in Nat
  BY <1>1, <1>2, Serving, AskTypes
<1>4. TypeOK'
  BY <1>1, <1>2 DEF TypeOK
<1>5. PlaceInv'
  BY <1>1, <1>2, PlacesKept
<1>6. EventInv'
  <2>1. \A r \in Request : r = cur /\ hpc[r] = "reading" => Sent(r) = generated[r]
    BY <1>1 DEF EventInv
  <2> QED BY <1>1, <1>2, <2>1, EventsKept
<1>7. WorkInv'
  <2>1. PICK g, p, max, eos : /\ g = generated[cur] /\ p = Ask[cur].prompt
                              /\ max = Ask[cur].max_new /\ eos = Ask[cur].eos
    OBVIOUS
  <2>2. Progressed(g, p, max) /\ (cur \notin overtaken => Undisturbed(g, p, max, eos))
    BY <1>1, <1>3, <2>1 DEF WorkInv
  <2>3. pos = p + g /\ g <= max /\ p + g <= MaxSeq + 1
    BY <1>2, <2>2 DEF Progressed
  <2>4. Progressed(g, p, max)'
    BY <1>2, <2>3 DEF Progressed
  <2>5. ASSUME cur \notin overtaken PROVE Undisturbed(g, p, max, eos)'
    <3>1. g <= eos /\ next = Tok(cur, pos)
      BY <1>2, <2>2, <2>5 DEF Undisturbed
    <3>2. ASSUME hpc[cur] = "reading" PROVE g \in {max, eos}
      <4>1. g = max \/ next = Tok(cur, p + eos)
        BY <1>2, <2>1, <3>2 DEF Listening, AnswerEnds, Eos
      <4>2. next = Tok(cur, p + eos) => pos = p + eos
        BY <3>1 DEF Tok
      <4>3. pos = p + eos => g = eos
        BY <1>3, <2>1, <2>3
      <4> QED BY <4>1, <4>2, <4>3
    <3> QED BY <1>2, <3>1, <3>2 DEF Undisturbed
  <2> QED BY <1>2, <2>1, <2>4, <2>5 DEF WorkInv
<1> QED BY <1>4, <1>5, <1>6, <1>7 DEF OlmoInv

LEMMA GenerateInv ==
  ASSUME OlmoInv, Generate
  PROVE  OlmoInv'
<1>1. TypeOK /\ PlaceInv /\ EventInv /\ WorkInv
  BY DEF OlmoInv
<1>2. PICK e : e = TokenEvent(generated[cur], next)
  OBVIOUS
<1>3. /\ wpc = "generate" /\ ~AnswerEnds /\ Listening(cur) /\ Send(e)
      /\ generated' = [generated EXCEPT ![cur] = @ + 1]
      /\ wpc' = IF CacheFull THEN "count" ELSE "step"
      /\ pos' = pos /\ next' = next
      /\ hpc' = hpc /\ got' = got /\ chan' = chan /\ cur' = cur
      /\ result' = result /\ completed' = completed
      /\ kv' = kv /\ leftover' = leftover /\ overtaken' = overtaken
      /\ queueFull' = queueFull
  BY <1>2 DEF Generate, handlerVars, runnerVars
<1>4. /\ cur \in Request /\ generated[cur] \in Nat /\ MaxSeq \in Nat /\ pos \in 0..MaxSeq
      /\ Ask[cur].prompt \in Nat /\ Ask[cur].max_new \in Nat \ {0} /\ Ask[cur].eos \in Nat
      /\ result[cur] = "none"
  BY <1>1, <1>3, Serving, AskTypes
<1>5. e \in Event /\ e.kind = "token"
  <2>1. next \in (Request \cup {NoRequest}) \X Nat
    BY <1>1 DEF TypeOK
  <2> QED BY <1>2, <1>4, <2>1, EventTypes DEF TokenEvent
<1>6. /\ events' \in [Request -> Seq(Event)]
      /\ \A r \in Request : r # cur => events'[r] = events[r]
      /\ hpc[cur] = "reading"
      /\ events'[cur] = Append(events[cur], e)
  BY <1>1, <1>3, <1>4, <1>5, SendFacts
<1>7. /\ generated' \in [Request -> Nat]
      /\ generated'[cur] = generated[cur] + 1
      /\ \A r \in Request : r # cur => generated'[r] = generated[r]
  BY <1>1, <1>3, <1>4 DEF TypeOK
<1>8. TypeOK'
  BY <1>1, <1>3, <1>6, <1>7 DEF TypeOK
<1>9. PlaceInv'
  BY <1>1, <1>3, <1>6, <1>7, PlacesKept
<1>10. PICK g, p, max, eos : /\ g = generated[cur] /\ p = Ask[cur].prompt
                             /\ max = Ask[cur].max_new /\ eos = Ask[cur].eos
  OBVIOUS
<1>11. Progressed(g, p, max) /\ (cur \notin overtaken => Undisturbed(g, p, max, eos))
  BY <1>1, <1>4, <1>10 DEF WorkInv
<1>12. pos = p + g /\ g <= max
  BY <1>3, <1>11 DEF Progressed
<1>13. cur \notin overtaken => g <= eos /\ next = Tok(cur, pos)
  BY <1>3, <1>11 DEF Undisturbed
<1>14. EventInv'
  <2> SUFFICES ASSUME NEW r \in Request
               PROVE  /\ result[r] = "none" => \A k \in 1..Sent(r)' : SentAt(r, k)'.kind = "token"
                      /\ r = cur /\ hpc[r] = "reading" => Sent(r)' = generated'[r]
                      /\ r \notin overtaken =>
                           \A k \in 1..Sent(r)' : Truthful(SentAt(r, k)', r, k, Sent(r)')
    BY <1>3 DEF EventInv, Truthful, TokenEvent, DoneEvent, ErrorEvent, Tok, Garbage
  <2>1. /\ result[r] = "none" => \A k \in 1..Sent(r) : SentAt(r, k).kind = "token"
        /\ r = cur /\ hpc[r] = "reading" => Sent(r) = generated[r]
        /\ r \notin overtaken => \A k \in 1..Sent(r) : Truthful(SentAt(r, k), r, k, Sent(r))
    BY <1>1 DEF EventInv
  <2>2. CASE r # cur
    <3>1. Sent(r)' = Sent(r) /\ \A k : SentAt(r, k)' = SentAt(r, k)
      BY <1>3, <1>6, <2>2, SentSame
    <3> QED BY <2>1, <2>2, <3>1
  <2>3. CASE r = cur
    <3>1. PICK n : n = Sent(r)
      OBVIOUS
    <3>2. n \in Nat /\ n = g /\ n = generated[r]
      BY <1>1, <1>4, <1>6, <1>10, <2>1, <2>3, <3>1
    <3>3. /\ Sent(r)' = n + 1 /\ SentAt(r, n + 1)' = e
          /\ \A k \in 1..n : SentAt(r, k)' = SentAt(r, k)
      BY <1>1, <1>3, <1>5, <1>6, <2>3, <3>1, SentMore
    <3>4. ASSUME NEW k \in 1..(n + 1)
          PROVE  /\ SentAt(r, k)'.kind = "token"
                 /\ r \notin overtaken => Truthful(SentAt(r, k)', r, k, n + 1)
      <4>1. CASE k = n + 1
        <5>1. SentAt(r, k)' = e /\ k - 1 = g /\ p + k - 1 = p + g
          BY <1>4, <1>10, <3>2, <3>3, <4>1
        <5>2. r \notin overtaken => e = TokenEvent(k - 1, Tok(r, Ask[r].prompt + k - 1))
          BY <1>2, <1>10, <1>12, <1>13, <2>3, <5>1
        <5> QED BY <1>5, <5>1, <5>2 DEF Truthful
      <4>2. CASE k # n + 1
        <5>1. k \in 1..n
          BY <3>2, <4>2
        <5>2. /\ SentAt(r, k).kind = "token"
              /\ r \notin overtaken => Truthful(SentAt(r, k), r, k, n)
          BY <1>4, <2>1, <2>3, <3>1, <5>1
        <5>3. r \notin overtaken =>
                SentAt(r, k) = TokenEvent(k - 1, Tok(r, Ask[r].prompt + k - 1))
          BY <5>2 DEF Truthful, DoneEvent, ErrorEvent
        <5> QED BY <3>3, <5>1, <5>2, <5>3 DEF Truthful
      <4> QED BY <4>1, <4>2
    <3>5. Sent(r)' = generated'[r]
      BY <1>7, <2>3, <3>2, <3>3
    <3> QED BY <3>3, <3>4, <3>5
  <2> QED BY <2>2, <2>3
<1>15. WorkInv'
  <2>1. g # max /\ (cur \notin overtaken => g # eos)
    <3>1. generated[cur] # Ask[cur].max_new /\ next # Tok(cur, Ask[cur].prompt + Ask[cur].eos)
      BY <1>3 DEF AnswerEnds, Eos
    <3> QED BY <1>10, <1>12, <1>13, <3>1
  <2>2. PICK h : h = g + 1
    OBVIOUS
  <2>3. /\ h <= max /\ (cur \notin overtaken => h <= eos)
        /\ p + h = pos + 1 /\ p + h <= MaxSeq + 1 /\ pos = p + h - 1
    BY <1>4, <1>10, <1>12, <1>13, <2>1, <2>2
  <2>4. Progressed(h, p, max)'
    BY <1>3, <1>4, <2>3 DEF Progressed, CacheFull
  <2>5. ASSUME cur \notin overtaken PROVE Undisturbed(h, p, max, eos)'
    <3>1. CASE CacheFull
      <4>1. h = MaxSeq - p + 1
        BY <1>4, <1>10, <1>12, <2>2, <3>1 DEF CacheFull
      <4> QED BY <1>3, <2>3, <2>5, <3>1, <4>1 DEF Undisturbed
    <3>2. CASE ~CacheFull
      <4>1. \A i \in 0..(pos - 1) : kv[i] = Tok(cur, i)
        BY <1>3, <1>11, <2>5 DEF Undisturbed
      <4> QED BY <1>3, <1>13, <2>3, <2>5, <3>2, <4>1 DEF Undisturbed, Tok
    <3> QED BY <3>1, <3>2
  <2> QED BY <1>3, <1>7, <1>10, <2>2, <2>4, <2>5 DEF WorkInv
<1> QED BY <1>8, <1>9, <1>14, <1>15 DEF OlmoInv

LEMMA CountInv ==
  ASSUME OlmoInv, Count
  PROVE  OlmoInv'
<1>1. TypeOK /\ PlaceInv /\ EventInv /\ WorkInv
  BY DEF OlmoInv
<1>2. /\ wpc = "count" /\ wpc' = "done" /\ completed' = completed + 1
      /\ pos' = pos /\ next' = next
      /\ hpc' = hpc /\ got' = got /\ events' = events /\ chan' = chan /\ cur' = cur
      /\ generated' = generated /\ result' = result
      /\ kv' = kv /\ leftover' = leftover /\ overtaken' = overtaken
      /\ queueFull' = queueFull
  BY DEF Count, handlerVars, runnerVars
<1>3. TypeOK'
  BY <1>1, <1>2 DEF TypeOK
<1>4. PlaceInv'
  BY <1>1, <1>2, PlacesKept
<1>5. EventInv'
  <2>1. \A r \in Request : r = cur /\ hpc[r] = "reading" => Sent(r) = generated[r]
    BY <1>1 DEF EventInv
  <2> QED BY <1>1, <1>2, <2>1, EventsKept
<1>6. WorkInv'
  BY <1>1, <1>2 DEF WorkInv, Progressed, Undisturbed, Tok
<1> QED BY <1>3, <1>4, <1>5, <1>6 DEF OlmoInv

LEMMA SendDoneInv ==
  ASSUME OlmoInv, SendDone
  PROVE  OlmoInv'
<1>1. TypeOK /\ PlaceInv
  BY DEF OlmoInv
<1>2. PICK e, how : e = DoneEvent(generated[cur])
                    /\ how = IF Listening(cur) THEN "complete" ELSE "hung up"
  OBVIOUS
<1>3. /\ wpc = "done" /\ Send(e) /\ Finish(how)
      /\ hpc' = hpc /\ got' = got /\ chan' = chan /\ pos' = pos /\ next' = next
      /\ generated' = generated /\ completed' = completed /\ queueFull' = queueFull
      /\ kv' = kv /\ leftover' = leftover /\ overtaken' = overtaken
      /\ cur' = NoRequest /\ wpc' = "recv"
  BY <1>2 DEF SendDone, handlerVars, runnerVars, Finish
<1>4. cur \in Request /\ generated[cur] \in Nat
  BY <1>1, <1>3, Serving
<1>5. e \in Event /\ how \in Ends
  BY <1>2, <1>4 DEF DoneEvent, Event, Garbage, Ends
<1>6. /\ events' \in [Request -> Seq(Event)]
      /\ result' \in [Request -> Ends \cup {"none", "cut"}]
      /\ PlaceInv' /\ EventInv' /\ WorkInv'
  BY <1>2, <1>3, <1>4, <1>5, FinishKeeps
<1>7. TypeOK'
  BY <1>1, <1>3, <1>6 DEF TypeOK
<1> QED BY <1>6, <1>7 DEF OlmoInv

LEMMA WorkerDiesInv ==
  ASSUME OlmoInv, WorkerDies
  PROVE  OlmoInv'
<1>1. TypeOK /\ PlaceInv /\ EventInv
  BY DEF OlmoInv
<1>2. /\ wpc' = "dead" /\ cur' = NoRequest /\ chan' = <<>>
      /\ result' = [r \in Request |-> IF Queued(r) \/ r = cur THEN "cut" ELSE result[r]]
      /\ hpc' = hpc /\ got' = got /\ events' = events /\ pos' = pos /\ next' = next
      /\ generated' = generated /\ completed' = completed
      /\ kv' = kv /\ leftover' = leftover /\ overtaken' = overtaken
      /\ queueFull' = queueFull
  BY DEF WorkerDies, handlerVars, runnerVars
<1>3. \A r : ~Queued(r)'
  BY <1>2 DEF Queued
<1>4. \A r \in Request : ~SenderAlive(r)'
  BY <1>2, <1>3, OlmoLaneAssumption DEF SenderAlive, Queued
<1>5. TypeOK'
  <2>1. chan' \in Seq(Request) /\ Len(chan') <= QueueSlots
    BY <1>2, OlmoLaneAssumption
  <2>2. result' \in [Request -> Ends \cup {"none", "cut"}]
    BY <1>1, <1>2 DEF TypeOK
  <2> QED BY <1>1, <1>2, <2>1, <2>2 DEF TypeOK
<1>6. PlaceInv'
  <2>1. ASSUME NEW r \in Request
        PROVE  /\ hpc'[r] \in {"start", "busy"} =>
                    ~SenderAlive(r)' /\ result'[r] = "none" /\ Fresh(r)'
               /\ ~Queued(r)' /\ r # cur'
               /\ result'[r] = "none" => hpc'[r] \in {"start", "busy"} \/ SenderAlive(r)'
    <3>1. /\ hpc[r] \in {"start", "busy"} =>
               ~SenderAlive(r) /\ result[r] = "none" /\ Fresh(r)
          /\ result[r] = "none" => hpc[r] \in {"start", "busy"} \/ SenderAlive(r)
      BY <1>1 DEF PlaceInv
    <3>2. Fresh(r)' <=> Fresh(r)
      BY <1>2 DEF Fresh
    <3>3. result'[r] = IF SenderAlive(r) THEN "cut" ELSE result[r]
      BY <1>2 DEF SenderAlive
    <3> QED BY <1>2, <1>3, <1>4, <3>1, <3>2, <3>3, OlmoLaneAssumption
  <2>2. ~Queued(cur)'
    BY <1>3 DEF Queued
  <2> QED BY <1>2, <2>1, <2>2 DEF PlaceInv
<1>7. EventInv'
  <2>1. \A r \in Request : result'[r] = "none" => result[r] = "none"
    BY <1>2
  <2>2. \A r \in Request : r # cur'
    BY <1>2, OlmoLaneAssumption
  <2> QED BY <1>1, <1>2, <2>1, <2>2, EventsKept
<1> QED BY <1>2, <1>5, <1>6, <1>7, NoWork DEF OlmoInv

LEMMA LeftoverRetiresInv ==
  ASSUME OlmoInv, LeftoverRetires
  PROVE  OlmoInv'
<1>1. TypeOK /\ PlaceInv /\ EventInv /\ WorkInv
  BY DEF OlmoInv
<1>2. /\ leftover' = "nothing"
      /\ hpc' = hpc /\ got' = got /\ events' = events /\ chan' = chan /\ cur' = cur
      /\ wpc' = wpc /\ pos' = pos /\ next' = next /\ generated' = generated
      /\ result' = result /\ completed' = completed
      /\ kv' = kv /\ overtaken' = overtaken /\ queueFull' = queueFull
  BY DEF LeftoverRetires, handlerVars, workerVars
<1>3. TypeOK'
  BY <1>1, <1>2 DEF TypeOK, Leftovers
<1>4. PlaceInv'
  BY <1>1, <1>2, PlacesKept
<1>5. EventInv'
  <2>1. \A r \in Request : r = cur /\ hpc[r] = "reading" => Sent(r) = generated[r]
    BY <1>1 DEF EventInv
  <2> QED BY <1>1, <1>2, <2>1, EventsKept
<1>6. WorkInv'
  BY <1>1, <1>2, WorkKept
<1> QED BY <1>3, <1>4, <1>5, <1>6 DEF OlmoInv

-----------------------------------------------------------------------------
(* The handlers.                                                           *)
LEMMA SubmitInv ==
  ASSUME OlmoInv, NEW r \in Request, Submit(r)
  PROVE  OlmoInv'
<1>1. TypeOK /\ PlaceInv /\ EventInv /\ WorkInv
  BY DEF OlmoInv
<1>2. /\ hpc[r] = "start" /\ wpc # "dead" /\ Room /\ chan' = Append(chan, r)
      /\ hpc' = [hpc EXCEPT ![r] = "reading"]
      /\ got' = got /\ events' = events /\ cur' = cur
      /\ wpc' = wpc /\ pos' = pos /\ next' = next /\ generated' = generated
      /\ result' = result /\ completed' = completed
      /\ kv' = kv /\ leftover' = leftover /\ overtaken' = overtaken
      /\ queueFull' = queueFull
  BY DEF Submit, workerVars, runnerVars
<1>3. /\ ~SenderAlive(r) /\ result[r] = "none" /\ Fresh(r)
      /\ chan \in Seq(Request) /\ Distinct /\ ~Queued(cur)
  BY <1>1, <1>2 DEF PlaceInv, TypeOK, Distinct
<1>4. ~Queued(r) /\ r # cur
  BY <1>3 DEF SenderAlive
<1>5. Distinct' /\ \A q : Queued(q)' <=> Queued(q) \/ q = r
  BY <1>2, <1>3, <1>4, Enqueued
<1>6. /\ hpc' \in [Request -> {"start", "reading", "busy", "ended", "left"}]
      /\ hpc'[r] = "reading" /\ \A q \in Request : q # r => hpc'[q] = hpc[q]
  BY <1>1, <1>2 DEF TypeOK
<1>7. TypeOK'
  <2>1. chan' \in Seq(Request) /\ Len(chan') <= QueueSlots
    BY <1>2, <1>3, OlmoLaneAssumption DEF Room
  <2> QED BY <1>1, <1>2, <1>6, <2>1 DEF TypeOK
<1>8. PlaceInv'
  <2>1. ~Queued(cur)'
    <3>1. ~(Queued(cur) \/ cur = r)
      BY <1>3, <1>4
    <3> QED BY <1>2, <1>5, <3>1 DEF Queued
  <2>2. (cur' = NoRequest <=> wpc' \in {"recv", "dead"}) /\ wpc' # "dead"
    BY <1>1, <1>2 DEF PlaceInv
  <2>3. ASSUME NEW q \in Request
        PROVE  /\ hpc'[q] \in {"start", "busy"} =>
                    ~SenderAlive(q)' /\ result'[q] = "none" /\ Fresh(q)'
               /\ Queued(q)' => result'[q] = "none" /\ hpc'[q] = "reading" /\ Fresh(q)'
               /\ q = cur' => result'[q] = "none" /\ hpc'[q] \in {"reading", "left"}
               /\ result'[q] = "none" => hpc'[q] \in {"start", "busy"} \/ SenderAlive(q)'
    <3>1. /\ hpc[q] \in {"start", "busy"} =>
               ~SenderAlive(q) /\ result[q] = "none" /\ Fresh(q)
          /\ Queued(q) => result[q] = "none" /\ hpc[q] = "reading" /\ Fresh(q)
          /\ q = cur => result[q] = "none" /\ hpc[q] \in {"reading", "left"}
          /\ result[q] = "none" => hpc[q] \in {"start", "busy"} \/ SenderAlive(q)
      BY <1>1 DEF PlaceInv
    <3>2. (SenderAlive(q)' <=> SenderAlive(q) \/ q = r) /\ (Fresh(q)' <=> Fresh(q))
      BY <1>2, <1>5 DEF SenderAlive, Fresh
    <3>3. CASE q = r
      BY <1>2, <1>3, <1>4, <1>6, <3>2, <3>3
    <3>4. CASE q # r
      BY <1>2, <1>5, <1>6, <3>1, <3>2, <3>4
    <3> QED BY <3>3, <3>4
  <2> QED BY <1>5, <2>1, <2>2, <2>3 DEF PlaceInv, Distinct
<1>9. EventInv'
  <2>1. \A q \in Request : q = cur /\ hpc'[q] = "reading" => Sent(q) = generated[q]
    BY <1>1, <1>4, <1>6 DEF EventInv
  <2> QED BY <1>1, <1>2, <2>1, EventsKept
<1>10. WorkInv'
  <2>1. cur \in Request => hpc'[cur] = hpc[cur]
    BY <1>4, <1>6
  <2>2. CASE cur \in Request
    BY <1>1, <1>2, <2>1, <2>2, WorkKept
  <2>3. CASE cur \notin Request
    BY <1>2, <2>3 DEF WorkInv
  <2> QED BY <2>2, <2>3
<1> QED BY <1>7, <1>8, <1>9, <1>10 DEF OlmoInv

(* A handler moves on whose request is not in the channel of prompts.      *)
LEMMA PlacesOfHandler ==
  ASSUME TypeOK, PlaceInv, NEW r \in Request, ~Queued(r),
         UNCHANGED <<chan, cur, wpc, result, generated, overtaken>>,
         \A q \in Request : q # r => hpc'[q] = hpc[q] /\ got'[q] = got[q] /\ events'[q] = events[q],
         \/ hpc[r] = "start" /\ hpc'[r] = "busy" /\ got'[r] = got[r] /\ events'[r] = events[r]
         \/ hpc[r] = "reading" /\ hpc'[r] \in {"reading", "left"}
         \/ hpc[r] = "reading" /\ hpc'[r] = "ended" /\ result[r] # "none"
  PROVE  PlaceInv'
<1>1. \A q : (Queued(q)' <=> Queued(q)) /\ (SenderAlive(q)' <=> SenderAlive(q))
  BY DEF Queued, SenderAlive
<1>2. ASSUME NEW q \in Request
      PROVE  /\ hpc'[q] \in {"start", "busy"} =>
                  ~SenderAlive(q)' /\ result'[q] = "none" /\ Fresh(q)'
             /\ Queued(q)' => result'[q] = "none" /\ hpc'[q] = "reading" /\ Fresh(q)'
             /\ q = cur' => result'[q] = "none" /\ hpc'[q] \in {"reading", "left"}
             /\ result'[q] = "none" => hpc'[q] \in {"start", "busy"} \/ SenderAlive(q)'
  <2>1. /\ hpc[q] \in {"start", "busy"} =>
             ~SenderAlive(q) /\ result[q] = "none" /\ Fresh(q)
        /\ Queued(q) => result[q] = "none" /\ hpc[q] = "reading" /\ Fresh(q)
        /\ q = cur => result[q] = "none" /\ hpc[q] \in {"reading", "left"}
        /\ result[q] = "none" => hpc[q] \in {"start", "busy"} \/ SenderAlive(q)
    BY DEF PlaceInv
  <2>2. got'[q] = got[q] /\ events'[q] = events[q] => (Fresh(q)' <=> Fresh(q))
    BY DEF Fresh
  <2>3. CASE q # r
    BY <1>1, <2>1, <2>2, <2>3
  <2>4. CASE q = r
    BY <1>1, <2>1, <2>2, <2>4
  <2> QED BY <2>3, <2>4
<1>3. /\ \A i, j \in 1..Len(chan) : chan[i] = chan[j] => i = j
      /\ ~Queued(cur)
      /\ cur = NoRequest <=> wpc \in {"recv", "dead"}
      /\ wpc = "dead" => chan = <<>>
  BY DEF PlaceInv
<1> QED BY <1>1, <1>2, <1>3 DEF PlaceInv

LEMMA SubmitFailsInv ==
  ASSUME OlmoInv, NEW r \in Request, SubmitFails(r)
  PROVE  OlmoInv'
<1>1. TypeOK /\ PlaceInv /\ EventInv /\ WorkInv
  BY DEF OlmoInv
<1>2. /\ hpc[r] = "start" /\ hpc' = [hpc EXCEPT ![r] = "busy"]
      /\ queueFull' = queueFull + 1
      /\ got' = got /\ events' = events /\ chan' = chan /\ cur' = cur
      /\ wpc' = wpc /\ pos' = pos /\ next' = next /\ generated' = generated
      /\ result' = result /\ completed' = completed
      /\ kv' = kv /\ leftover' = leftover /\ overtaken' = overtaken
  BY DEF SubmitFails, workerVars, runnerVars
<1>3. ~Queued(r) /\ r # cur
  BY <1>1, <1>2 DEF PlaceInv, SenderAlive
<1>4. /\ hpc' \in [Request -> {"start", "reading", "busy", "ended", "left"}]
      /\ hpc'[r] = "busy" /\ \A q \in Request : q # r => hpc'[q] = hpc[q]
  BY <1>1, <1>2 DEF TypeOK
<1>5. TypeOK'
  BY <1>1, <1>2, <1>4 DEF TypeOK
<1>6. PlaceInv'
  BY <1>1, <1>2, <1>3, <1>4, PlacesOfHandler
<1>7. EventInv'
  <2>1. \A q \in Request : q = cur /\ hpc'[q] = "reading" => Sent(q) = generated[q]
    BY <1>1, <1>3, <1>4 DEF EventInv
  <2> QED BY <1>1, <1>2, <2>1, EventsKept
<1>8. WorkInv'
  <2>1. CASE cur \in Request
    BY <1>1, <1>2, <1>3, <1>4, <2>1, WorkKept
  <2>2. CASE cur \notin Request
    BY <1>2, <2>2 DEF WorkInv
  <2> QED BY <2>1, <2>2
<1> QED BY <1>5, <1>6, <1>7, <1>8 DEF OlmoInv

LEMMA ReadEndsInv ==
  ASSUME OlmoInv, NEW r \in Request, ReadEnds(r)
  PROVE  OlmoInv'
<1>1. TypeOK /\ PlaceInv /\ EventInv /\ WorkInv
  BY DEF OlmoInv
<1>2. /\ hpc[r] = "reading" /\ ~SenderAlive(r) /\ hpc' = [hpc EXCEPT ![r] = "ended"]
      /\ got' = got /\ events' = events /\ chan' = chan /\ cur' = cur
      /\ wpc' = wpc /\ pos' = pos /\ next' = next /\ generated' = generated
      /\ result' = result /\ completed' = completed /\ queueFull' = queueFull
      /\ kv' = kv /\ leftover' = leftover /\ overtaken' = overtaken
  BY DEF ReadEnds, workerVars, runnerVars
<1>3. ~Queued(r) /\ r # cur /\ result[r] # "none"
  BY <1>1, <1>2 DEF PlaceInv, SenderAlive
<1>4. /\ hpc' \in [Request -> {"start", "reading", "busy", "ended", "left"}]
      /\ hpc'[r] = "ended" /\ \A q \in Request : q # r => hpc'[q] = hpc[q]
  BY <1>1, <1>2 DEF TypeOK
<1>5. TypeOK'
  BY <1>1, <1>2, <1>4 DEF TypeOK
<1>6. PlaceInv'
  BY <1>1, <1>2, <1>3, <1>4, PlacesOfHandler
<1>7. EventInv'
  <2>1. \A q \in Request : q = cur /\ hpc'[q] = "reading" => Sent(q) = generated[q]
    BY <1>1, <1>3, <1>4 DEF EventInv
  <2> QED BY <1>1, <1>2, <2>1, EventsKept
<1>8. WorkInv'
  <2>1. CASE cur \in Request
    BY <1>1, <1>2, <1>3, <1>4, <2>1, WorkKept
  <2>2. CASE cur \notin Request
    BY <1>2, <2>2 DEF WorkInv
  <2> QED BY <2>1, <2>2
<1> QED BY <1>5, <1>6, <1>7, <1>8 DEF OlmoInv

(* Places are only lost from the end: what is left is still truthful.      *)
LEMMA EventsOfHandler ==
  ASSUME TypeOK, EventInv, NEW r \in Request,
         UNCHANGED <<cur, result, generated, overtaken>>,
         \A q \in Request : q # r => hpc'[q] = hpc[q] /\ got'[q] = got[q] /\ events'[q] = events[q],
         NEW n \in Nat, n = Sent(r), NEW m \in Nat, Sent(r)' = m, m <= n,
         \A k \in 1..m : SentAt(r, k)' = SentAt(r, k),
         r = cur /\ hpc'[r] = "reading" => m = n /\ hpc[r] = "reading"
  PROVE  EventInv'
<1> SUFFICES ASSUME NEW q \in Request
             PROVE  /\ result[q] = "none" => \A k \in 1..Sent(q)' : SentAt(q, k)'.kind = "token"
                    /\ q = cur /\ hpc'[q] = "reading" => Sent(q)' = generated[q]
                    /\ q \notin overtaken =>
                         \A k \in 1..Sent(q)' : Truthful(SentAt(q, k)', q, k, Sent(q)')
  BY DEF EventInv, Truthful, TokenEvent, DoneEvent, ErrorEvent, Tok, Garbage
<1>1. /\ result[q] = "none" => \A k \in 1..Sent(q) : SentAt(q, k).kind = "token"
      /\ q = cur /\ hpc[q] = "reading" => Sent(q) = generated[q]
      /\ q \notin overtaken => \A k \in 1..Sent(q) : Truthful(SentAt(q, k), q, k, Sent(q))
  BY DEF EventInv
<1>2. CASE q # r
  <2>1. Sent(q)' = Sent(q) /\ \A k : SentAt(q, k)' = SentAt(q, k)
    BY <1>2, SentSame
  <2> QED BY <1>1, <1>2, <2>1
<1>3. CASE q = r
  <2>1. ASSUME NEW k \in 1..m
        PROVE  /\ result[r] = "none" => SentAt(r, k)'.kind = "token"
               /\ r \notin overtaken => Truthful(SentAt(r, k)', r, k, m)
    <3>1. k \in 1..n /\ SentAt(r, k)' = SentAt(r, k) /\ (k = n => k = m)
      OBVIOUS
    <3>2. /\ result[r] = "none" => SentAt(r, k).kind = "token"
          /\ r \notin overtaken => Truthful(SentAt(r, k), r, k, n)
      BY <1>1, <1>3, <3>1
    <3> QED BY <3>1, <3>2 DEF Truthful
  <2>2. r = cur /\ hpc'[r] = "reading" => m = generated[r]
    BY <1>1, <1>3
  <2> QED BY <1>3, <2>1, <2>2
<1> QED BY <1>2, <1>3

LEMMA ReadInv ==
  ASSUME OlmoInv, NEW r \in Request, Read(r)
  PROVE  OlmoInv'
<1>1. TypeOK /\ PlaceInv /\ EventInv /\ WorkInv
  BY DEF OlmoInv
<1>2. PICK last : last = \/ Head(events[r]).kind = "error"
                         \/ Head(events[r]).kind = "done" /\ r \in Stream
  OBVIOUS
<1>3. /\ hpc[r] = "reading" /\ events[r] # <<>>
      /\ got' = [got EXCEPT ![r] = Append(@, Head(events[r]))]
      /\ events' = [events EXCEPT ![r] = IF last THEN <<>> ELSE Tail(@)]
      /\ hpc' = [hpc EXCEPT ![r] = IF last THEN "ended" ELSE @]
      /\ chan' = chan /\ cur' = cur
      /\ wpc' = wpc /\ pos' = pos /\ next' = next /\ generated' = generated
      /\ result' = result /\ completed' = completed /\ queueFull' = queueFull
      /\ kv' = kv /\ leftover' = leftover /\ overtaken' = overtaken
  BY <1>2 DEF Read, workerVars, runnerVars
<1>4. PICK g, v, h, w : /\ g = got[r] /\ v = events[r]
                        /\ h = Append(g, Head(v)) /\ w = IF last THEN <<>> ELSE Tail(v)
  OBVIOUS
<1>5. g \in Seq(Event) /\ v \in Seq(Event) /\ v # <<>>
  BY <1>1, <1>3, <1>4 DEF TypeOK
<1>6. PICK a, b : a = Len(g) /\ b = Len(v)
  OBVIOUS
<1>7. /\ h \in Seq(Event) /\ Len(h) = a + 1 /\ w \in Seq(Event)
      /\ b \in Nat \ {0} /\ At(g, v, a + 1) = Head(v)
      /\ w = Tail(v) => /\ Len(w) = b - 1
                        /\ \A k \in 1..(a + b) : At(h, w, k) = At(g, v, k)
      /\ w = <<>> => \A k \in 1..(a + 1) : At(h, w, k) = At(g, v, k)
  <2>1. w \in {Tail(v), <<>>}
    BY <1>4
  <2>2. h = Append(g, Head(v))
    BY <1>4
  <2>3. h \in Seq(Event) /\ w \in Seq(Event) /\ Receives(h, w, g, v)
    BY <1>5, <1>6, <2>1, <2>2, PlacesOfReceipt
  <2> QED BY <1>6, <2>3 DEF Receives
<1>8. /\ hpc' \in [Request -> {"start", "reading", "busy", "ended", "left"}]
      /\ got' \in [Request -> Seq(Event)] /\ events' \in [Request -> Seq(Event)]
      /\ hpc'[r] = IF last THEN "ended" ELSE "reading"
      /\ got'[r] = h /\ events'[r] = w
      /\ \A q \in Request : q # r =>
           hpc'[q] = hpc[q] /\ got'[q] = got[q] /\ events'[q] = events[q]
  BY <1>1, <1>3, <1>4, <1>7 DEF TypeOK
<1>9. a \in Nat /\ a + b \in Nat /\ Sent(r) = a + b
  <2>1. a \in Nat
    BY <1>5, <1>6, LenProperties
  <2>2. Sent(r) = a + b
    BY <1>4, <1>6 DEF Sent
  <2>3. a + b \in Nat
    BY <1>7, <2>1
  <2> QED BY <2>1, <2>2, <2>3
<1>10. last => result[r] # "none"
  <2> SUFFICES ASSUME last, result[r] = "none" PROVE FALSE
    OBVIOUS
  <2>1. a + 1 \in 1..(a + b)
    BY <1>7, <1>9
  <2>2. SentAt(r, a + 1) = Head(v)
    BY <1>4, <1>7 DEF SentAt
  <2>3. SentAt(r, a + 1).kind = "token"
    BY <1>1, <1>9, <2>1 DEF EventInv
  <2> QED BY <1>2, <1>4, <2>2, <2>3
<1>11. ~Queued(r) /\ (r = cur => ~last)
  BY <1>1, <1>3, <1>10 DEF PlaceInv, Fresh
<1>12. TypeOK'
  BY <1>1, <1>3, <1>8 DEF TypeOK
<1>13. PlaceInv'
  <2>1. last \/ ~last
    OBVIOUS
  <2> QED BY <1>1, <1>3, <1>8, <1>10, <1>11, <2>1, PlacesOfHandler
<1>14. EventInv'
  <2>1. PICK m : m = IF last THEN a + 1 ELSE a + b
    OBVIOUS
  <2>2. m \in Nat /\ m <= a + b
    BY <1>7, <1>9, <2>1
  <2>3. Sent(r)' = m
    <3>1. Sent(r)' = Len(h) + Len(w)
      BY <1>8 DEF Sent
    <3>2. CASE last
      <4>1. Len(w) = 0
        BY <1>4, <3>2
      <4> QED BY <1>7, <1>9, <2>1, <3>1, <3>2, <4>1
    <3>3. CASE ~last
      <4>1. Len(w) = b - 1
        BY <1>4, <1>7, <3>3
      <4> QED BY <1>7, <1>9, <2>1, <3>1, <3>3, <4>1
    <3> QED BY <3>2, <3>3
  <2>4. ASSUME NEW k \in 1..m PROVE SentAt(r, k)' = SentAt(r, k)
    <3>1. SentAt(r, k)' = At(h, w, k) /\ SentAt(r, k) = At(g, v, k)
      BY <1>4, <1>8 DEF SentAt, At
    <3>2. At(h, w, k) = At(g, v, k)
      BY <1>4, <1>7, <2>1
    <3> QED BY <3>1, <3>2
  <2>5. r = cur /\ hpc'[r] = "reading" => m = a + b /\ hpc[r] = "reading"
    BY <1>3, <1>11, <2>1
  <2>6. PICK n : n = a + b
    OBVIOUS
  <2>7. n \in Nat /\ n = Sent(r) /\ m <= n
    BY <1>9, <2>2, <2>6
  <2>8. r = cur /\ hpc'[r] = "reading" => m = n /\ hpc[r] = "reading"
    BY <2>5, <2>6
  <2>9. UNCHANGED <<cur, result, generated, overtaken>>
    BY <1>3
  <2>10. \A k \in 1..m : SentAt(r, k)' = SentAt(r, k)
    BY <2>4
  <2> QED BY <1>1, <1>8, <2>2, <2>3, <2>7, <2>8, <2>9, <2>10, EventsOfHandler
<1>15. WorkInv'
  <2>1. CASE cur \in Request
    BY <1>1, <1>3, <1>8, <1>11, <2>1, WorkKept
  <2>2. CASE cur \notin Request
    BY <1>3, <2>2 DEF WorkInv
  <2> QED BY <2>1, <2>2
<1> QED BY <1>12, <1>13, <1>14, <1>15 DEF OlmoInv

LEMMA LeaveInv ==
  ASSUME OlmoInv, NEW r \in Request, Leave(r)
  PROVE  OlmoInv'
<1>1. TypeOK /\ PlaceInv /\ EventInv /\ WorkInv
  BY DEF OlmoInv
<1>2. /\ hpc[r] = "reading" /\ events[r] # <<>>
      /\ hpc' = [hpc EXCEPT ![r] = "left"] /\ events' = [events EXCEPT ![r] = <<>>]
      /\ got' = got /\ chan' = chan /\ cur' = cur
      /\ wpc' = wpc /\ pos' = pos /\ next' = next /\ generated' = generated
      /\ result' = result /\ completed' = completed /\ queueFull' = queueFull
      /\ kv' = kv /\ leftover' = leftover /\ overtaken' = overtaken
  BY DEF Leave, workerVars, runnerVars
<1>3. ~Queued(r)
  BY <1>1, <1>2 DEF PlaceInv, Fresh
<1>4. /\ hpc' \in [Request -> {"start", "reading", "busy", "ended", "left"}]
      /\ events' \in [Request -> Seq(Event)]
      /\ hpc'[r] = "left" /\ got'[r] = got[r] /\ events'[r] = <<>>
      /\ \A q \in Request : q # r =>
           hpc'[q] = hpc[q] /\ got'[q] = got[q] /\ events'[q] = events[q]
  <2>1. <<>> \in Seq(Event)
    BY EmptySeq
  <2> QED BY <1>1, <1>2, <2>1 DEF TypeOK
<1>5. TypeOK'
  BY <1>1, <1>2, <1>4 DEF TypeOK
<1>6. PlaceInv'
  BY <1>1, <1>2, <1>3, <1>4, PlacesOfHandler
<1>7. EventInv'
  <2>1. PICK n, m : n = Sent(r) /\ m = Len(got[r])
    OBVIOUS
  <2>2. m \in Nat /\ n \in Nat /\ n = m + Len(events[r]) /\ Len(events[r]) \in Nat
    BY <1>1, <2>1, SentType DEF Sent
  <2>3. m <= n
    BY <2>2
  <2>4. Sent(r)' = m
    BY <1>4, <2>1, <2>2 DEF Sent
  <2>5. \A k \in 1..m : SentAt(r, k)' = SentAt(r, k)
    <3>1. \A k \in 1..m : k <= Len(got[r])
      BY <2>1, <2>2
    <3> QED BY <1>4, <3>1 DEF SentAt, At
  <2>6. UNCHANGED <<cur, result, generated, overtaken>>
    BY <1>2
  <2>7. r = cur /\ hpc'[r] = "reading" => m = n /\ hpc[r] = "reading"
    BY <1>4
  <2> QED BY <1>1, <1>4, <2>1, <2>2, <2>3, <2>4, <2>5, <2>6, <2>7, EventsOfHandler
<1>8. WorkInv'
  <2>1. CASE cur \in Request
    BY <1>1, <1>2, <1>4, <2>1, WorkKept
  <2>2. CASE cur \notin Request
    BY <1>2, <2>2 DEF WorkInv
  <2> QED BY <2>1, <2>2
<1> QED BY <1>5, <1>6, <1>7, <1>8 DEF OlmoInv

-----------------------------------------------------------------------------
LEMMA OlmoInvInit == Init => OlmoInv
<1> SUFFICES ASSUME Init PROVE OlmoInv
  OBVIOUS
<1> USE OlmoLaneAssumption
<1>1. Garbage \in (Request \cup {NoRequest}) \X Nat /\ <<>> \in Seq(Event) /\ <<>> \in Seq(Request)
  BY EmptySeq DEF Garbage
<1>2. TypeOK
  <2>1. Len(chan) = 0
    BY DEF Init
  <2>2. /\ hpc \in [Request -> {"start", "reading", "busy", "ended", "left"}]
        /\ got \in [Request -> Seq(Event)] /\ events \in [Request -> Seq(Event)]
        /\ chan \in Seq(Request) /\ Len(chan) <= QueueSlots
    BY <1>1, <2>1 DEF Init
  <2>3. /\ kv \in [0..(MaxSeq - 1) -> (Request \cup {NoRequest}) \X Nat]
        /\ next \in (Request \cup {NoRequest}) \X Nat
    BY <1>1 DEF Init
  <2>4. wpc = "recv" /\ cur \in Request \cup {NoRequest} /\ pos \in 0..MaxSeq
    BY DEF Init
  <2>5. /\ generated \in [Request -> Nat] /\ leftover \in Leftovers /\ overtaken \subseteq Request
        /\ result \in [Request -> Ends \cup {"none", "cut"}]
        /\ completed \in Nat /\ queueFull \in Nat
    BY DEF Init, Leftovers
  <2> QED BY <2>2, <2>3, <2>4, <2>5 DEF TypeOK
<1>3. \A r : ~Queued(r)
  BY DEF Init, Queued
<1>4. \A r \in Request : ~SenderAlive(r)
  BY <1>3 DEF Init, SenderAlive
<1>5. PlaceInv
  BY <1>3, <1>4 DEF Init, PlaceInv, Fresh
<1>6. EventInv
  <2>1. \A r \in Request : Sent(r) = 0
    BY DEF Init, Sent
  <2> QED BY <2>1 DEF Init, EventInv
<1>7. WorkInv
  BY DEF Init, WorkInv
<1> QED BY <1>2, <1>5, <1>6, <1>7 DEF OlmoInv

LEMMA OlmoInvStutters ==
  ASSUME OlmoInv, UNCHANGED vars
  PROVE  OlmoInv'
<1>1. TypeOK /\ PlaceInv /\ EventInv /\ WorkInv
  BY DEF OlmoInv
<1>2. /\ hpc' = hpc /\ got' = got /\ events' = events /\ chan' = chan /\ cur' = cur
      /\ wpc' = wpc /\ pos' = pos /\ next' = next /\ generated' = generated
      /\ result' = result /\ completed' = completed
      /\ kv' = kv /\ leftover' = leftover /\ overtaken' = overtaken
      /\ queueFull' = queueFull
  BY DEF vars, handlerVars, workerVars, runnerVars
<1>3. TypeOK'
  BY <1>1, <1>2 DEF TypeOK
<1>4. PlaceInv'
  BY <1>1, <1>2, PlacesKept
<1>5. EventInv'
  <2>1. \A r \in Request : r = cur /\ hpc[r] = "reading" => Sent(r) = generated[r]
    BY <1>1 DEF EventInv
  <2> QED BY <1>1, <1>2, <2>1, EventsKept
<1>6. WorkInv'
  BY <1>1, <1>2, WorkKept
<1> QED BY <1>3, <1>4, <1>5, <1>6 DEF OlmoInv

(* The lane's inductive invariant: every request is in one place, what is  *)
(* sent to it is its own answer and one end, and the cache holds the       *)
(* tokens of the request in service up to the position the worker is at.   *)
THEOREM OlmoInvariant == Spec => []OlmoInv
<1>1. ASSUME OlmoInv, [Next]_vars PROVE OlmoInv'
  <2>1. CASE WorkerStep
    BY <1>1, <2>1, ReceiveInv, EncodeFailsInv, EncodeInv, PrefillInv, GenerateStopsInv,
       GenerateInv, DecodeInv, CountInv, SendDoneInv DEF WorkerStep
  <2>2. CASE WorkerDies \/ LeftoverRetires
    BY <1>1, <2>2, WorkerDiesInv, LeftoverRetiresInv
  <2>3. ASSUME NEW r \in Request, Handle(r) \/ Leave(r) PROVE OlmoInv'
    BY <1>1, <2>3, SubmitInv, SubmitFailsInv, ReadInv, ReadEndsInv, LeaveInv DEF Handle
  <2>4. CASE UNCHANGED vars
    BY <1>1, <2>4, OlmoInvStutters
  <2> QED BY <1>1, <2>1, <2>2, <2>3, <2>4 DEF Next
<1> QED BY <1>1, OlmoInvInit, PTL DEF Spec

(* Every state of the lane is well typed: the line of prompts never longer *)
(* than its slots, the position never beyond the cache.                    *)
THEOREM TypeCorrect == Spec => []TypeOK
<1>1. OlmoInv => TypeOK
  BY DEF OlmoInv
<1> QED BY <1>1, OlmoInvariant, PTL

(* What a client has received and what is on its way are the model's       *)
(* continuation of its own prompt and one end that counts it, whatever the *)
(* other requests left in the cache.                                       *)
THEOREM OutputAlwaysExact == Spec => []OutputExact
<1>1. ASSUME OlmoInv PROVE OutputExact
  <2>1. TypeOK /\ EventInv
    BY <1>1 DEF OlmoInv
  <2>2. ASSUME NEW r \in Request \ overtaken, NEW all, all = got[r] \o events[r]
        PROVE  \A k \in 1..Len(all) :
                 CASE all[k].kind = "token" ->
                        all[k] = TokenEvent(k - 1, Tok(r, Ask[r].prompt + k - 1))
                   [] all[k].kind = "done" -> all[k] = DoneEvent(k - 1) /\ k = Len(all)
                   [] OTHER -> k = Len(all)
    <3>1. PICK g, v : g = got[r] /\ v = events[r]
      OBVIOUS
    <3>2. g \in Seq(Event) /\ v \in Seq(Event)
      BY <2>1, <3>1 DEF TypeOK
    <3>3. PICK m, n : m = Len(g) /\ n = Len(v)
      OBVIOUS
    <3>4. m \in Nat /\ n \in Nat
      BY <3>2, <3>3, LenProperties
    <3>5. /\ Len(all) = m + n
          /\ \A k \in 1..(m + n) : all[k] = IF k <= m THEN g[k] ELSE v[k - m]
      <4>1. all = g \o v
        BY <2>2, <3>1
      <4>2. Len(g \o v) = m + n
        BY <3>2, <3>3
      <4>3. \A k \in 1..(m + n) : (g \o v)[k] = IF k <= m THEN g[k] ELSE v[k - m]
        BY <3>2, <3>3, <3>4
      <4> QED BY <4>1, <4>2, <4>3
    <3>6. Sent(r) = m + n /\ \A k : SentAt(r, k) = IF k <= m THEN g[k] ELSE v[k - m]
      BY <3>1, <3>3 DEF Sent, SentAt, At
    <3>7. ASSUME NEW k \in 1..Len(all)
          PROVE  Truthful(all[k], r, k, Len(all))
      BY <2>1, <3>5, <3>6 DEF EventInv
    <3> QED BY <3>7 DEF Truthful, TokenEvent, DoneEvent, ErrorEvent
  <2> QED BY <2>2 DEF OutputExact
<1> QED BY <1>1, OlmoInvariant, PTL

-----------------------------------------------------------------------------
(* The lane implements the serial lane: every step is one of it or none.   *)
SerialStep == Serial!Next \/ UNCHANGED Serial!serialVars

(* Where the invariant puts each request.                                  *)
PhaseInv ==
  \A r \in Request :
    /\ r = cur => Phase(r) = "serving"
    /\ Phase(r) = "serving" => r = cur
    /\ Queued(r) => Phase(r) = "waiting"
    /\ Phase(r) = "waiting" => Queued(r)
    /\ hpc[r] = "start" => Phase(r) = "new"
    /\ hpc[r] = "busy" => Phase(r) = "refused"

LEMMA PhasesOfPlaces ==
  ASSUME OlmoInv
  PROVE  PhaseInv
<1> SUFFICES ASSUME NEW r \in Request
             PROVE  /\ r = cur => Phase(r) = "serving"
                    /\ Phase(r) = "serving" => r = cur
                    /\ Queued(r) => Phase(r) = "waiting"
                    /\ Phase(r) = "waiting" => Queued(r)
                    /\ hpc[r] = "start" => Phase(r) = "new"
                    /\ hpc[r] = "busy" => Phase(r) = "refused"
  BY DEF PhaseInv
<1>1. TypeOK /\ PlaceInv
  BY DEF OlmoInv
<1>2. /\ hpc[r] \in {"start", "busy"} => ~SenderAlive(r) /\ result[r] = "none"
      /\ Queued(r) => result[r] = "none" /\ hpc[r] = "reading"
      /\ r = cur => result[r] = "none" /\ hpc[r] \in {"reading", "left"}
      /\ ~Queued(cur)
  BY <1>1 DEF PlaceInv
<1>3. hpc[r] \in {"start", "busy"} => r # cur /\ ~Queued(r)
  BY <1>2 DEF SenderAlive
<1>4. result[r] \in Ends \cup {"none", "cut"}
  BY <1>1 DEF TypeOK
<1> QED BY <1>2, <1>3, <1>4 DEF Phase, Ends

LEMMA PhasesSame ==
  ASSUME \A r \in Request : Phase(r)' = Phase(r)
  PROVE  Phases' = Phases
  BY DEF Phases

LEMMA PhasesMove ==
  ASSUME NEW q \in Request, NEW to, Phase(q)' = to,
         \A r \in Request : r # q => Phase(r)' = Phase(r)
  PROVE  Phases' = [Phases EXCEPT ![q] = to]
  BY DEF Phases

LEMMA PhasesAt ==
  ASSUME NEW r \in Request
  PROVE  Phases[r] = Phase(r)
  BY DEF Phases

(* What the handlers and the worker do that no phase shows.                *)
LEMMA Unseen ==
  ASSUME UNCHANGED <<chan, cur, result, generated, overtaken>>,
         wpc' = "dead" <=> wpc = "dead",
         \A r \in Request : hpc'[r] = "busy" <=> hpc[r] = "busy"
  PROVE  UNCHANGED Serial!serialVars
<1>1. \A r \in Request : Phase(r)' = Phase(r)
  BY DEF Phase, Queued
<1>2. Phases' = Phases
  BY <1>1, PhasesSame
<1>3. (wpc = "dead")' = (wpc = "dead")
  OBVIOUS
<1> QED BY <1>2, <1>3 DEF Serial!serialVars

LEMMA SubmitAccepts ==
  ASSUME OlmoInv, PhaseInv, PhaseInv', NEW r \in Request, Submit(r)
  PROVE  Serial!Accept(r)
<1>1. TypeOK /\ PlaceInv
  BY DEF OlmoInv
<1>2. /\ hpc[r] = "start" /\ wpc # "dead" /\ Room /\ chan' = Append(chan, r)
      /\ hpc' = [hpc EXCEPT ![r] = "reading"]
      /\ cur' = cur /\ wpc' = wpc /\ generated' = generated
      /\ result' = result /\ overtaken' = overtaken
  BY DEF Submit, workerVars, runnerVars
<1>3. chan \in Seq(Request) /\ Distinct /\ ~Queued(r)
  BY <1>1, <1>2 DEF PlaceInv, TypeOK, Distinct, SenderAlive
<1>4. \A q : Queued(q)' <=> Queued(q) \/ q = r
  BY <1>2, <1>3, Enqueued
<1>5. Phase(r) = "new" /\ Phase(r)' = "waiting"
  BY <1>2, <1>4 DEF PhaseInv
<1>6. ASSUME NEW q \in Request, q # r PROVE Phase(q)' = Phase(q)
  <2>1. hpc'[q] = hpc[q] /\ (Queued(q)' <=> Queued(q))
    BY <1>1, <1>2, <1>4, <1>6 DEF TypeOK
  <2> QED BY <1>2, <2>1 DEF Phase
<1>7. Phases' = [Phases EXCEPT ![r] = "waiting"] /\ Phases[r] = "new"
  BY <1>5, <1>6, PhasesMove, PhasesAt
<1> QED BY <1>2, <1>7 DEF Serial!Accept, Serial!Move, Room

LEMMA SubmitFailsRefuses ==
  ASSUME OlmoInv, PhaseInv, PhaseInv', NEW r \in Request, SubmitFails(r)
  PROVE  Serial!Refuse(r)
<1>1. TypeOK
  BY DEF OlmoInv
<1>2. /\ hpc[r] = "start" /\ (wpc = "dead" \/ ~Room)
      /\ hpc' = [hpc EXCEPT ![r] = "busy"]
      /\ chan' = chan /\ cur' = cur /\ wpc' = wpc /\ generated' = generated
      /\ result' = result /\ overtaken' = overtaken
  BY DEF SubmitFails, workerVars, runnerVars
<1>3. hpc'[r] = "busy" /\ \A q \in Request : q # r => hpc'[q] = hpc[q]
  BY <1>1, <1>2 DEF TypeOK
<1>4. Phase(r) = "new" /\ Phase(r)' = "refused"
  BY <1>2, <1>3 DEF PhaseInv
<1>5. ASSUME NEW q \in Request, q # r PROVE Phase(q)' = Phase(q)
  BY <1>2, <1>3, <1>5 DEF Phase, Queued
<1>6. Phases' = [Phases EXCEPT ![r] = "refused"] /\ Phases[r] = "new"
  BY <1>4, <1>5, PhasesMove, PhasesAt
<1>7. ~Room => Len(chan) = QueueSlots
  BY <1>1, OlmoLaneAssumption DEF Room, TypeOK
<1> QED BY <1>2, <1>6, <1>7 DEF Serial!Refuse, Serial!Move

LEMMA ReceiveServes ==
  ASSUME OlmoInv, PhaseInv, PhaseInv', Receive
  PROVE  Serial!Serve
<1>1. TypeOK /\ PlaceInv
  BY DEF OlmoInv
<1>2. /\ wpc = "recv" /\ chan # <<>> /\ wpc' = "encode"
      /\ cur' = Head(chan) /\ chan' = Tail(chan)
      /\ hpc' = hpc /\ generated' = generated /\ result' = result /\ overtaken' = overtaken
  BY DEF Receive, handlerVars, runnerVars
<1>3. chan \in Seq(Request) /\ Distinct /\ cur = NoRequest
  BY <1>1, <1>2 DEF TypeOK, PlaceInv, Distinct
<1>4. /\ cur' \in Request /\ Queued(cur')
      /\ \A q : Queued(q)' <=> Queued(q) /\ q # cur'
  BY <1>2, <1>3, Dequeued
<1>5. PICK c : c = cur'
  OBVIOUS
<1>6. Phase(c) = "waiting" /\ Phase(c)' = "serving"
  BY <1>4, <1>5 DEF PhaseInv
<1>7. ASSUME NEW q \in Request, q # c PROVE Phase(q)' = Phase(q)
  <2>1. q # cur /\ q # cur' /\ (Queued(q)' <=> Queued(q))
    BY <1>3, <1>4, <1>5, <1>7, OlmoLaneAssumption
  <2> QED BY <1>2, <2>1 DEF Phase
<1>8. Phases' = [Phases EXCEPT ![c] = "serving"] /\ Phases[c] = "waiting"
  BY <1>4, <1>5, <1>6, <1>7, PhasesMove, PhasesAt
<1>9. \A r \in Request : Phases[r] # "serving"
  BY <1>3, PhasesAt, OlmoLaneAssumption DEF PhaseInv
<1> QED BY <1>2, <1>5, <1>8, <1>9 DEF Serial!Serve, Serial!Move

(* The request in service ends.                                            *)
LEMMA PhasesOfFinish ==
  ASSUME TypeOK, PhaseInv, cur \in Request, NEW how \in Ends, Finish(how),
         UNCHANGED <<hpc, chan>>
  PROVE  Phases' = [Phases EXCEPT ![cur] = how] /\ Phases[cur] = "serving"
<1>1. /\ result'[cur] = how /\ how # "none"
      /\ \A r \in Request : r # cur => result'[r] = result[r]
      /\ cur' = NoRequest
  BY DEF TypeOK, Finish, Ends
<1>2. PICK c : c = cur
  OBVIOUS
<1>3. c \in Request /\ Phase(c) = "serving"
  BY <1>2 DEF PhaseInv
<1>4. Phase(c)' = how
  BY <1>1, <1>2 DEF Phase
<1>5. ASSUME NEW q \in Request, q # c PROVE Phase(q)' = Phase(q)
  <2>1. q # cur /\ q # cur' /\ result'[q] = result[q] /\ (Queued(q)' <=> Queued(q))
    BY <1>1, <1>2, <1>5, OlmoLaneAssumption DEF Queued
  <2> QED BY <2>1 DEF Phase
<1>6. Phases' = [Phases EXCEPT ![c] = how] /\ Phases[c] = "serving"
  BY <1>3, <1>4, <1>5, PhasesMove, PhasesAt
<1> QED BY <1>2, <1>6

LEMMA FinishEnds ==
  ASSUME OlmoInv, PhaseInv, cur \in Request, NEW how \in Ends, Finish(how),
         UNCHANGED <<hpc, chan, generated, overtaken>>, wpc # "dead",
         how = "complete" /\ cur \notin overtaken => generated[cur] = Serial!Wanted(cur),
         how = "too long" => Ask[cur].prompt > MaxSeq
  PROVE  Serial!End(cur, how)
<1>1. Phases' = [Phases EXCEPT ![cur] = how] /\ Phases[cur] = "serving"
  BY PhasesOfFinish DEF OlmoInv
<1>2. (wpc = "dead")' = (wpc = "dead")
  BY DEF Finish
<1> QED BY <1>1, <1>2 DEF Serial!End, Serial!Move

LEMMA FailsEnds ==
  ASSUME OlmoInv, PhaseInv, wpc \notin {"recv", "dead"}, NEW how \in Ends \ {"complete"},
         Fails(how), overtaken' = overtaken, how = "too long" => Ask[cur].prompt > MaxSeq
  PROVE  Serial!End(cur, how) /\ cur \in Request
<1>1. cur \in Request
  BY Serving DEF OlmoInv
<1>2. Finish(how) /\ UNCHANGED <<hpc, chan, generated, overtaken>>
  BY DEF Fails, handlerVars
<1>3. how \in Ends /\ how # "complete"
  OBVIOUS
<1> QED BY <1>1, <1>2, <1>3, FinishEnds

LEMMA EndIsStep ==
  ASSUME NEW r \in Request, NEW how \in Ends, Serial!End(r, how)
  PROVE  SerialStep
  BY DEF SerialStep, Serial!Next, Serial!Progress, Serial!Ends, Ends

(* A step that writes the cache meets what another left, or shows nothing. *)
LEMMA StepSpoils ==
  ASSUME OlmoInv, PhaseInv, wpc \in {"prefill", "step"}, NEW t, NEW place,
         Step(t, place) \/ OvertakenStep(t, place), place \in {"prefill", "generate"}
  PROVE  SerialStep
<1>1. cur \in Request
  BY Serving DEF OlmoInv
<1>2. /\ overtaken' \in {overtaken, overtaken \cup {cur}}
      /\ wpc' = place /\ hpc' = hpc /\ chan' = chan /\ cur' = cur
      /\ generated' = generated /\ result' = result
  BY DEF Step, OvertakenStep, Advance, handlerVars
<1>3. \A r \in Request : Phase(r)' = Phase(r)
  BY <1>2 DEF Phase, Queued
<1>4. Phases' = Phases
  BY <1>3, PhasesSame
<1>5. (wpc = "dead")' = (wpc = "dead")
  BY <1>2
<1>6. CASE overtaken' = overtaken \cup {cur}
  <2>1. Phases[cur] = "serving"
    BY <1>1, PhasesAt DEF PhaseInv
  <2>2. Serial!Spoil(cur)
    BY <1>2, <1>4, <1>5, <1>6, <2>1 DEF Serial!Spoil
  <2> QED BY <1>1, <2>2 DEF SerialStep, Serial!Next
<1>7. CASE overtaken' = overtaken
  BY <1>2, <1>4, <1>5, <1>7 DEF SerialStep, Serial!serialVars
<1> QED BY <1>2, <1>6, <1>7

(* Only a prompt that does not fit meets the end of the cache.             *)
LEMMA TooFarOnlyLong ==
  ASSUME OlmoInv, wpc \in {"prefill", "step"}, pos >= MaxSeq
  PROVE  Ask[cur].prompt > MaxSeq
<1>1. /\ cur \in Request /\ pos \in Nat /\ MaxSeq \in Nat /\ Ask[cur].prompt \in Nat
      /\ Progressed(generated[cur], Ask[cur].prompt, Ask[cur].max_new)
  BY Serving, AskTypes DEF OlmoInv, WorkInv
<1>2. PICK p : p = Ask[cur].prompt
  OBVIOUS
<1>3. /\ wpc = "prefill" => pos < p
      /\ wpc = "step" => pos < MaxSeq
  BY <1>1, <1>2 DEF Progressed
<1> QED BY <1>1, <1>2, <1>3

LEMMA FailureEnds ==
  ASSUME OlmoInv, PhaseInv,
         \/ EncodeFails
         \/ wpc \in {"prefill", "step"} /\ (StepTooFar \/ StepFails)
  PROVE  SerialStep
<1>1. CASE EncodeFails
  <2>1. wpc = "encode" /\ Fails("not encoded") /\ overtaken' = overtaken
    BY <1>1 DEF EncodeFails, runnerVars
  <2>2. "not encoded" \in Ends \ {"complete"} /\ "not encoded" # "too long"
    BY DEF Ends
  <2>3. Serial!End(cur, "not encoded") /\ cur \in Request
    BY <2>1, <2>2, FailsEnds
  <2> QED BY <2>2, <2>3, EndIsStep
<1>2. CASE wpc \in {"prefill", "step"} /\ StepTooFar
  <2>1. pos >= MaxSeq /\ Fails("too long") /\ overtaken' = overtaken
    BY <1>2 DEF StepTooFar, runnerVars
  <2>2. "too long" \in Ends \ {"complete"}
    BY DEF Ends
  <2>3. Ask[cur].prompt > MaxSeq
    BY <1>2, <2>1, TooFarOnlyLong
  <2>4. Serial!End(cur, "too long") /\ cur \in Request
    BY <1>2, <2>1, <2>2, <2>3, FailsEnds
  <2> QED BY <2>2, <2>4, EndIsStep
<1>3. CASE wpc \in {"prefill", "step"} /\ StepFails
  <2>1. Fails("device") /\ overtaken' = overtaken
    BY <1>3 DEF StepFails
  <2>2. "device" \in Ends \ {"complete"} /\ "device" # "too long"
    BY DEF Ends
  <2>3. Serial!End(cur, "device") /\ cur \in Request
    BY <1>3, <2>1, <2>2, FailsEnds
  <2> QED BY <2>2, <2>3, EndIsStep
<1> QED BY <1>1, <1>2, <1>3

-----------------------------------------------------------------------------
(* The length of an answer.                                                *)
LEMMA MinOfPair ==
  ASSUME NEW a \in Int, NEW b \in Int
  PROVE  /\ Serial!Min({a, b}) \in Int
         /\ Serial!Min({a, b}) = IF a <= b THEN a ELSE b
<1>1. PICK m : m = IF a <= b THEN a ELSE b
  OBVIOUS
<1>2. m \in {a, b} /\ \A y \in {a, b} : m =< y
  BY <1>1
<1>3. \A x \in {a, b} : (\A y \in {a, b} : x =< y) => x = m
  BY <1>1
<1>4. Serial!Min({a, b}) = m
  BY <1>2, <1>3 DEF Serial!Min
<1> QED BY <1>1, <1>4

LEMMA WantedIs ==
  ASSUME NEW r \in Request, NEW p, NEW max, NEW eos,
         p = Ask[r].prompt, max = Ask[r].max_new, eos = Ask[r].eos
  PROVE  /\ Serial!Limit(r) = IF max <= MaxSeq - p + 1 THEN max ELSE MaxSeq - p + 1
         /\ Serial!Wanted(r) =
              IF Serial!Limit(r) <= eos THEN Serial!Limit(r) ELSE eos
<1>1. p \in Nat /\ max \in Nat /\ eos \in Nat /\ MaxSeq \in Nat
  BY AskTypes, OlmoLaneAssumption
<1>2. PICK fits : fits = MaxSeq - p + 1
  OBVIOUS
<1>3. fits \in Int /\ max \in Int /\ eos \in Int
  BY <1>1, <1>2
<1>4. Serial!Limit(r) = Serial!Min({max, fits})
  BY <1>2 DEF Serial!Limit
<1>5. Serial!Limit(r) = (IF max <= fits THEN max ELSE fits) /\ Serial!Limit(r) \in Int
  BY <1>3, <1>4, MinOfPair
<1>6. Serial!Wanted(r) = IF Serial!Limit(r) <= eos THEN Serial!Limit(r) ELSE eos
  BY <1>3, <1>5, MinOfPair DEF Serial!Wanted
<1> QED BY <1>2, <1>5, <1>6

LEMMA GenerateEmits ==
  ASSUME OlmoInv, PhaseInv, Generate
  PROVE  cur \in Request /\ Serial!Emit(cur)
<1>1. TypeOK /\ PlaceInv /\ WorkInv
  BY DEF OlmoInv
<1>2. /\ wpc = "generate" /\ ~AnswerEnds
      /\ generated' = [generated EXCEPT ![cur] = @ + 1]
      /\ wpc' = IF CacheFull THEN "count" ELSE "step"
      /\ hpc' = hpc /\ chan' = chan /\ cur' = cur
      /\ result' = result /\ overtaken' = overtaken
  BY DEF Generate, handlerVars, runnerVars
<1>3. /\ cur \in Request /\ generated[cur] \in Nat /\ MaxSeq \in Nat /\ pos \in 0..MaxSeq
      /\ Ask[cur].prompt \in Nat /\ Ask[cur].max_new \in Nat \ {0} /\ Ask[cur].eos \in Nat
  BY <1>1, <1>2, Serving, AskTypes
<1>4. PICK g, p, max, eos : /\ g = generated[cur] /\ p = Ask[cur].prompt
                            /\ max = Ask[cur].max_new /\ eos = Ask[cur].eos
  OBVIOUS
<1>5. Progressed(g, p, max) /\ (cur \notin overtaken => Undisturbed(g, p, max, eos))
  BY <1>1, <1>3, <1>4 DEF WorkInv
<1>6. pos = p + g /\ g <= max /\ g # max
  BY <1>2, <1>4, <1>5 DEF Progressed, AnswerEnds
<1>7. cur \notin overtaken => g <= eos /\ g # eos
  <2> SUFFICES ASSUME cur \notin overtaken PROVE g <= eos /\ g # eos
    OBVIOUS
  <2>1. g <= eos /\ next = Tok(cur, pos)
    BY <1>2, <1>5 DEF Undisturbed
  <2>2. next # Tok(cur, p + eos)
    BY <1>2, <1>4 DEF AnswerEnds, Eos
  <2> QED BY <1>6, <2>1, <2>2
<1>8. g < Serial!Most(cur)
  <2>1. PICK l, w : l = Serial!Limit(cur) /\ w = Serial!Wanted(cur)
    OBVIOUS
  <2>2. /\ l = IF max <= MaxSeq - p + 1 THEN max ELSE MaxSeq - p + 1
        /\ w = IF l <= eos THEN l ELSE eos
    BY <1>3, <1>4, <2>1, WantedIs
  <2>3. g < l /\ (cur \notin overtaken => g < w)
    BY <1>3, <1>4, <1>6, <1>7, <2>2
  <2> QED BY <2>1, <2>3 DEF Serial!Most
<1>9. \A r \in Request : Phase(r)' = Phase(r)
  BY <1>2 DEF Phase, Queued
<1>10. Phases' = Phases /\ Phases[cur] = "serving"
  BY <1>3, <1>9, PhasesSame, PhasesAt DEF PhaseInv
<1>11. (wpc = "dead")' = (wpc = "dead")
  BY <1>2
<1> QED BY <1>2, <1>3, <1>4, <1>8, <1>10, <1>11 DEF Serial!Emit

LEMMA SendDoneEnds ==
  ASSUME OlmoInv, PhaseInv, SendDone
  PROVE  SerialStep
<1>1. TypeOK /\ PlaceInv /\ WorkInv
  BY DEF OlmoInv
<1>2. PICK how : how = IF Listening(cur) THEN "complete" ELSE "hung up"
  OBVIOUS
<1>3. /\ wpc = "done" /\ Finish(how)
      /\ hpc' = hpc /\ chan' = chan /\ generated' = generated /\ overtaken' = overtaken
  BY <1>2 DEF SendDone, handlerVars, runnerVars
<1>4. /\ cur \in Request /\ generated[cur] \in Nat /\ MaxSeq \in Nat
      /\ Ask[cur].prompt \in Nat /\ Ask[cur].max_new \in Nat \ {0} /\ Ask[cur].eos \in Nat
      /\ hpc[cur] \in {"reading", "left"}
  BY <1>1, <1>3, Serving, AskTypes
<1>5. PICK g, p, max, eos : /\ g = generated[cur] /\ p = Ask[cur].prompt
                            /\ max = Ask[cur].max_new /\ eos = Ask[cur].eos
  OBVIOUS
<1>6. ASSUME how = "complete", cur \notin overtaken PROVE g = Serial!Wanted(cur)
  <2>1. hpc[cur] = "reading"
    BY <1>2, <1>4, <1>6 DEF Listening
  <2>2. Progressed(g, p, max) /\ Undisturbed(g, p, max, eos)
    BY <1>1, <1>4, <1>5, <1>6 DEF WorkInv
  <2>3. g <= max /\ p + g <= MaxSeq + 1 /\ g <= eos
    BY <1>3, <2>2 DEF Progressed, Undisturbed
  <2>4. g \in {max, eos, MaxSeq - p + 1}
    BY <1>3, <2>1, <2>2 DEF Undisturbed
  <2>5. PICK l, w : l = Serial!Limit(cur) /\ w = Serial!Wanted(cur)
    OBVIOUS
  <2>6. /\ l = IF max <= MaxSeq - p + 1 THEN max ELSE MaxSeq - p + 1
        /\ w = IF l <= eos THEN l ELSE eos
    BY <1>4, <1>5, <2>5, WantedIs
  <2>7. g = w
    BY <1>4, <1>5, <2>3, <2>4, <2>6
  <2> QED BY <2>5, <2>7
<1>7. how \in Ends /\ how # "too long"
  BY <1>2 DEF Ends
<1>8. Serial!End(cur, how)
  <2>1. how = "complete" /\ cur \notin overtaken => generated[cur] = Serial!Wanted(cur)
    BY <1>5, <1>6
  <2> QED BY <1>3, <1>4, <1>7, <2>1, FinishEnds
<1> QED BY <1>4, <1>7, <1>8, EndIsStep

LEMMA WorkerDiesBreaks ==
  ASSUME OlmoInv, PhaseInv, WorkerDies
  PROVE  Serial!Break
<1>1. TypeOK
  BY DEF OlmoInv
<1>2. /\ wpc' = "dead" /\ cur' = NoRequest /\ chan' = <<>>
      /\ result' = [r \in Request |-> IF Queued(r) \/ r = cur THEN "cut" ELSE result[r]]
      /\ hpc' = hpc /\ generated' = generated /\ overtaken' = overtaken
  BY DEF WorkerDies, handlerVars, runnerVars
<1>3. ASSUME NEW r \in Request
      PROVE  Phase(r)' = IF Phases[r] \in {"waiting", "serving"} THEN "cut" ELSE Phases[r]
  <2>1. ~Queued(r)' /\ r # cur'
    BY <1>2, OlmoLaneAssumption DEF Queued
  <2>2. Phases[r] = Phase(r)
    BY PhasesAt
  <2>3. CASE Queued(r) \/ r = cur
    <3>1. Phase(r) \in {"waiting", "serving"} /\ result'[r] = "cut"
      BY <1>2, <2>3 DEF PhaseInv
    <3> QED BY <2>2, <3>1 DEF Phase
  <2>4. CASE ~(Queued(r) \/ r = cur)
    <3>1. Phase(r) \notin {"waiting", "serving"} /\ result'[r] = result[r]
      BY <1>2, <2>4 DEF PhaseInv
    <3>2. Phase(r)' = Phase(r)
      BY <1>2, <2>1, <2>4, <3>1 DEF Phase
    <3> QED BY <2>2, <3>1, <3>2
  <2> QED BY <2>3, <2>4
<1>4. Phases' = [r \in Request |->
                   IF Phases[r] \in {"waiting", "serving"} THEN "cut" ELSE Phases[r]]
  BY <1>3 DEF Phases
<1>5. (wpc = "dead")' = TRUE
  BY <1>2
<1> QED BY <1>2, <1>4, <1>5 DEF Serial!Break

LEMMA WorkerRefines ==
  ASSUME OlmoInv, PhaseInv, PhaseInv', WorkerStep
  PROVE  SerialStep
<1>1. CASE Receive
  BY <1>1, ReceiveServes DEF SerialStep, Serial!Next
<1>2. CASE EncodeFails
  BY <1>2, FailureEnds
<1>3. CASE Encode
  <2>1. /\ UNCHANGED <<chan, cur, result, generated, overtaken, hpc>>
        /\ wpc = "encode" /\ wpc' = "prefill"
    BY <1>3 DEF Encode, handlerVars, runnerVars
  <2> QED BY <2>1, Unseen DEF SerialStep
<1>4. CASE Prefill
  <2>1. PICK t, place : /\ place \in {"prefill", "generate"} /\ wpc = "prefill"
                        /\ \/ Step(t, place) \/ OvertakenStep(t, place)
                           \/ StepTooFar \/ StepFails
    BY <1>4 DEF Prefill
  <2> QED BY <2>1, StepSpoils, FailureEnds
<1>5. CASE GenerateEnds \/ GenerateHungUp
  <2>1. /\ UNCHANGED <<chan, cur, result, generated, overtaken, hpc>>
        /\ wpc = "generate" /\ wpc' = "count"
    BY <1>5 DEF GenerateEnds, GenerateHungUp, handlerVars, runnerVars
  <2> QED BY <2>1, Unseen DEF SerialStep
<1>6. CASE Generate
  BY <1>6, GenerateEmits DEF SerialStep, Serial!Next, Serial!Progress
<1>7. CASE Decode
  <2>1. /\ wpc = "step"
        /\ \/ Step(next, "generate") \/ OvertakenStep(next, "generate")
           \/ StepTooFar \/ StepFails
    BY <1>7 DEF Decode
  <2> QED BY <2>1, StepSpoils, FailureEnds
<1>8. CASE Count
  <2>1. /\ UNCHANGED <<chan, cur, result, generated, overtaken, hpc>>
        /\ wpc = "count" /\ wpc' = "done"
    BY <1>8 DEF Count, handlerVars, runnerVars
  <2> QED BY <2>1, Unseen DEF SerialStep
<1>9. CASE SendDone
  BY <1>9, SendDoneEnds
<1> QED BY <1>1, <1>2, <1>3, <1>4, <1>5, <1>6, <1>7, <1>8, <1>9 DEF WorkerStep

LEMMA HandlerRefines ==
  ASSUME OlmoInv, PhaseInv, PhaseInv', NEW r \in Request, Handle(r) \/ Leave(r)
  PROVE  SerialStep
<1>1. CASE Submit(r)
  BY <1>1, SubmitAccepts DEF SerialStep, Serial!Next
<1>2. CASE SubmitFails(r)
  BY <1>2, SubmitFailsRefuses DEF SerialStep, Serial!Next
<1>3. CASE Read(r) \/ ReadEnds(r) \/ Leave(r)
  <2>1. /\ UNCHANGED <<chan, cur, result, generated, overtaken, wpc>>
        /\ hpc[r] = "reading"
        /\ \E to \in {"reading", "ended", "left"} : hpc' = [hpc EXCEPT ![r] = to]
    <3>1. CASE Read(r)
      BY <3>1 DEF Read, workerVars, runnerVars
    <3>2. CASE ReadEnds(r) \/ Leave(r)
      BY <3>2 DEF ReadEnds, Leave, workerVars, runnerVars
    <3> QED BY <1>3, <3>1, <3>2
  <2>2. hpc \in [Request -> {"start", "reading", "busy", "ended", "left"}]
    BY DEF OlmoInv, TypeOK
  <2>3. \A q \in Request : hpc'[q] = "busy" <=> hpc[q] = "busy"
    BY <2>1, <2>2
  <2> QED BY <2>1, <2>3, Unseen DEF SerialStep
<1> QED BY <1>1, <1>2, <1>3 DEF Handle

(* The lane, with its threads, channels and cache, serves its line in      *)
(* order, each request to an end that says why and a complete answer to    *)
(* its full length.                                                        *)
THEOREM LaneImplementsSerialLane == Spec => ImplementsSerialLane
<1>1. Init => Serial!Init
  <2> SUFFICES ASSUME Init PROVE Serial!Init
    OBVIOUS
  <2>1. \A r \in Request : Phase(r) = "new"
    BY OlmoLaneAssumption DEF Init, Phase, Queued
  <2>2. Phases = [r \in Request |-> "new"]
    BY <2>1 DEF Phases
  <2>3. (wpc = "dead") = FALSE
    BY DEF Init
  <2> QED BY <2>2, <2>3 DEF Init, Serial!Init
<1>2. OlmoInv => PhaseInv
  BY PhasesOfPlaces
<1>3. ASSUME OlmoInv, PhaseInv, PhaseInv', [Next]_vars PROVE [Serial!Next]_(Serial!serialVars)
  <2>1. CASE WorkerStep
    BY <1>3, <2>1, WorkerRefines DEF SerialStep
  <2>2. CASE WorkerDies
    BY <1>3, <2>2, WorkerDiesBreaks DEF Serial!Next
  <2>3. CASE LeftoverRetires
    <3>1. UNCHANGED <<chan, cur, result, generated, overtaken, hpc, wpc>>
      BY <2>3 DEF LeftoverRetires, handlerVars, workerVars
    <3> QED BY <3>1, Unseen
  <2>4. ASSUME NEW r \in Request, Handle(r) \/ Leave(r)
        PROVE  [Serial!Next]_(Serial!serialVars)
    BY <1>3, <2>4, HandlerRefines DEF SerialStep
  <2>5. CASE UNCHANGED vars
    <3>1. UNCHANGED <<chan, cur, result, generated, overtaken, hpc, wpc>>
      BY <2>5 DEF vars, handlerVars, workerVars, runnerVars
    <3> QED BY <3>1, Unseen
  <2> QED BY <1>3, <2>1, <2>2, <2>3, <2>4, <2>5 DEF Next
<1> QED BY <1>1, <1>2, <1>3, OlmoInvariant, PTL DEF Spec, ImplementsSerialLane, Serial!Spec

=============================================================================
