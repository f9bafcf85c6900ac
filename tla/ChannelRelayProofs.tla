-------------------------- MODULE ChannelRelayProofs --------------------------
(***************************************************************************)
(* What the text channels promise of the conversation they write to, for   *)
(* any number of adapters, deliveries, restarts and lost calls, and what   *)
(* the ordering gate (ConversationJournal) promises of the stream.         *)
(***************************************************************************)
EXTENDS ChannelRelay, TLAPS

Deliveries == UNION {world.adapters[a].deliveries : a \in Adapters}

Stages == {"partial", "final"}

Forwarded == {EventOf(d, stage, n) : d \in Deliveries, stage \in Stages, n \in Nat}

Events == world.offers \cup Forwarded

Jobs ==
  [step : {"read", "partial", "final", "check_partial", "check_final"}, d : Deliveries, seq : Nat,
   tries : Nat, flush : Seq(Deliveries), via : {"receive", "flush"}]

-----------------------------------------------------------------------------
(* Positions of a list, and of one list after another.                     *)
LEMMA Positions ==
  ASSUME NEW S, NEW s \in Seq(S)
  PROVE  Len(s) \in Nat /\ DOMAIN s = 1 .. Len(s)
OBVIOUS

(* What the concatenation of two sequences holds where.                     *)
LEMMA OneAfterTheOther ==
  ASSUME NEW S, NEW p \in Seq(S), NEW q \in Seq(S)
  PROVE  /\ p \o q \in Seq(S) /\ Len(p \o q) = Len(p) + Len(q)
         /\ \A i \in 1 .. Len(p) + Len(q) : (p \o q)[i] = IF i <= Len(p) THEN p[i] ELSE q[i - Len(p)]
OBVIOUS

-----------------------------------------------------------------------------
(* What an event must satisfy for the gate to accept it.                   *)
LEMMA AcceptedFacts ==
  ASSUME NEW j, NEW s, NEW e, Rejection(j, s, e) = NoRejection
  PROVE  /\ e.id \notin j.seen /\ e.seq = j.next
         /\ e.tag = "transcript_final" => j.open # NoTurn
         /\ e.tag \in Transcript /\ j.open # NoTurn => e.turn = j.open
         /\ e.tag = "resume" => j.cancelled # NoTurn /\ e.from = j.cancelled
<1>1. EnvelopeRejection(j, s, e) = NoRejection /\ PayloadRejection(j, e) = NoRejection
  BY Zenon DEF Rejection
<1>2. e.id \notin j.seen /\ e.seq = j.next
  BY <1>1, Zenon DEF EnvelopeRejection, NoRejection
<1>3. /\ e.tag = "transcript_final" => j.open # NoTurn
      /\ e.tag \in Transcript /\ j.open # NoTurn => e.turn = j.open
      /\ e.tag = "resume" => j.cancelled # NoTurn /\ e.from = j.cancelled
  BY <1>1, Zenon DEF PayloadRejection, NoRejection, Transcript
<1> QED
  BY <1>2, <1>3, Zenon

(* What it leaves in the journal.                                          *)
LEMMA AcceptEffect ==
  ASSUME NEW j, NEW s, NEW e, Rejection(j, s, e) = NoRejection
  PROVE  /\ Accept(j, s, e).next = j.next + 1
         /\ Accept(j, s, e).seen = j.seen \cup {e.id}
         /\ Accept(j, s, e).open = OpenAfter(j, e)
         /\ Accept(j, s, e).cancelled = CancelledAfter(j, e)
  BY Zenon DEF Accept

(* Which turn is open after an event.                                        *)
LEMMA OpenAfterFacts ==
  ASSUME NEW j, NEW e
  PROVE  /\ OpenAfter(j, e) = e.turn \/ OpenAfter(j, e) = NoTurn \/ OpenAfter(j, e) = j.open
         /\ e.tag \in {"transcript_partial", "resume"} => OpenAfter(j, e) = e.turn
         /\ e.tag \in {"transcript_final", "cancellation"} => OpenAfter(j, e) = NoTurn
         /\ e.tag \notin {"transcript_partial", "resume", "transcript_final", "cancellation"}
              => OpenAfter(j, e) = j.open
  BY Zenon DEF OpenAfter

(* Which turn counts as cancelled after an event.                            *)
LEMMA CancelledAfterFacts ==
  ASSUME NEW j, NEW e
  PROVE  /\ e.tag = "cancellation" => CancelledAfter(j, e) = e.turn
         /\ e.tag = "resume" => CancelledAfter(j, e) = NoTurn
         /\ e.tag \notin {"cancellation", "resume"} => CancelledAfter(j, e) = j.cancelled
  BY Zenon DEF CancelledAfter

(* An event of the stream is an adapter's or another device's.             *)
LEMMA EventFacts ==
  ASSUME world \in Worlds, NEW e \in Events
  PROVE  /\ e.device = "bridge" => \E d \in Deliveries, stage \in Stages, n \in Nat :
                                      e = EventOf(d, stage, n)
         /\ e.device # "bridge" => \A d \in Deliveries : e.turn # TurnOf(d)
         /\ \A d \in Deliveries : TurnOf(d) # NoTurn
<1>1. \A d \in Deliveries : TurnOf(d) # NoTurn /\ \A x \in world.offers : x.turn # TurnOf(d)
  BY WorldsAssumption, Zenon DEF Deliveries, Adapters
<1>2. \A x \in Forwarded : x.device = "bridge"
  BY DEF Forwarded, EventOf
<1>3. \A x \in world.offers : x.device # "bridge"
  BY WorldsAssumption, Zenon
<1>4. CASE e \in Forwarded
  BY <1>1, <1>2, <1>4 DEF Forwarded
<1>5. CASE e \in world.offers
  BY <1>1, <1>3, <1>5, Zenon
<1> QED
  BY <1>4, <1>5, Zenon DEF Events

-----------------------------------------------------------------------------
(* The stream and the gate.  Events are numbered and named once; a turn of *)
(* a channel is open only after its partial, and its final comes after the *)
(* partial and leaves it closed for good.                                  *)
UniqueIds(s) == \A i, k \in DOMAIN s : s[i].id = s[k].id => i = k

FinalCloses(s, open, d) ==
  \A k \in DOMAIN s : s[k].tag = "transcript_final" /\ s[k].turn = TurnOf(d) =>
    /\ open # TurnOf(d)
    /\ \E i \in DOMAIN s : i < k /\ s[i].id = EventId(d, "partial")

StreamInv ==
  /\ world \in Worlds
  /\ stream \in Seq(Events)
  /\ journal.next = Len(stream) + 1
  /\ journal.seen = {stream[i].id : i \in DOMAIN stream}
  /\ \A i \in DOMAIN stream : stream[i].seq = i
  /\ UniqueIds(stream)
  /\ \A d \in Deliveries : journal.open = TurnOf(d) => EventId(d, "partial") \in journal.seen
  /\ \A d \in Deliveries : FinalCloses(stream, journal.open, d)

(* Nothing that leaves the stream alone disturbs this.                     *)
LEMMA StreamKept ==
  ASSUME StreamInv, UNCHANGED <<world, journal, stream>>
  PROVE  StreamInv'
  BY DEF StreamInv, Events, Forwarded, Deliveries, Adapters

(* Deliveries of one turn give their events the same ids.                    *)
LEMMA SameTurn ==
  ASSUME NEW d, NEW f, TurnOf(d) = TurnOf(f), NEW stage
  PROVE  EventId(d, stage) = EventId(f, stage)
  BY Zenon DEF TurnOf, EventId

(* Offering an event keeps it, whether the gate accepts it or not.         *)
LEMMA OfferedKeeps ==
  ASSUME StreamInv, NEW e \in Events, Offered(e), UNCHANGED world
  PROVE  StreamInv'
<1>0. /\ Deliveries' = Deliveries /\ Events' = Events
  BY DEF Events, Forwarded, Deliveries, Adapters
<1>1. CASE Rejection(journal, state, e) # NoRejection
  BY <1>1, StreamKept, Zenon DEF Offered, Accept
<1>2. CASE Rejection(journal, state, e) = NoRejection
  <2> DEFINE n == Len(stream) + 1
  <2>1. /\ stream \in Seq(Events) /\ Len(stream) \in Nat /\ DOMAIN stream = 1..Len(stream)
        /\ journal.next = n
    BY DEF StreamInv
  <2>2. stream' = Append(stream, e) /\ journal' = Accept(journal, state, e)
    BY <1>2, Zenon DEF Offered
  <2>3. /\ stream' \in Seq(Events) /\ Len(stream') = n
        /\ DOMAIN stream' = DOMAIN stream \cup {n} /\ n \notin DOMAIN stream
        /\ stream'[n] = e /\ \A i \in DOMAIN stream : stream'[i] = stream[i] /\ i < n
    BY <2>1, <2>2
  <2>4. /\ e.id \notin journal.seen /\ e.seq = n
        /\ e.tag = "transcript_final" => journal.open # NoTurn
        /\ e.tag \in Transcript /\ journal.open # NoTurn => e.turn = journal.open
    BY <1>2, <2>1, AcceptedFacts, Zenon
  <2>5. /\ journal'.next = n + 1 /\ journal'.seen = journal.seen \cup {e.id}
        /\ journal'.open = OpenAfter(journal, e)
    BY <1>2, <2>1, <2>2, AcceptEffect
  <2>6. journal'.seen = {stream'[i].id : i \in DOMAIN stream'}
    BY <2>3, <2>5 DEF StreamInv
  <2>7. \A i \in DOMAIN stream' : stream'[i].seq = i
    BY <2>3, <2>4, Zenon DEF StreamInv
  <2>8. \A i, k \in DOMAIN stream' : stream'[i].id = stream'[k].id => i = k
    BY <2>3, <2>4 DEF StreamInv, UniqueIds
  <2>9. ASSUME NEW d \in Deliveries
        PROVE  TurnOf(d) # NoTurn /\ (e.turn = TurnOf(d) => e.device = "bridge")
    BY EventFacts, Zenon DEF StreamInv
  <2>10. ASSUME NEW d \in Deliveries, e.turn = TurnOf(d)
         PROVE  \/ e.tag = "transcript_partial" /\ e.id = EventId(d, "partial")
                \/ e.tag = "transcript_final" /\ e.id = EventId(d, "final")
    <3>1. PICK f \in Deliveries, stage \in Stages, m \in Nat : e = EventOf(f, stage, m)
      BY <2>9, <2>10, EventFacts, Zenon DEF StreamInv
    <3>2. e.tag = TranscriptKind(stage) /\ e.id = EventId(f, stage) /\ e.turn = TurnOf(f)
      BY <3>1, Zenon DEF EventOf
    <3> QED
      BY <2>10, <3>2, SameTurn, ZenonT(30) DEF Stages, TranscriptKind
  <2>11. ASSUME NEW d \in Deliveries, journal'.open = TurnOf(d)
         PROVE  EventId(d, "partial") \in journal'.seen
    <3>1. CASE journal.open = TurnOf(d)
      BY <2>5, <3>1, Zenon DEF StreamInv
    <3>2. CASE journal.open # TurnOf(d)
      <4>1. e.turn = TurnOf(d)
        BY <2>5, <2>9, <2>11, <3>2, OpenAfterFacts, Zenon
      <4>2. e.tag # "transcript_final"
        BY <2>5, <2>9, <2>11, OpenAfterFacts, Zenon
      <4> QED
        BY <2>5, <2>10, <4>1, <4>2, Zenon
    <3> QED
      BY <3>1, <3>2, Zenon
  <2>12. ASSUME NEW d \in Deliveries, NEW k \in DOMAIN stream',
                stream'[k].tag = "transcript_final", stream'[k].turn = TurnOf(d)
         PROVE  /\ journal'.open # TurnOf(d)
                /\ \E i \in DOMAIN stream' : i < k /\ stream'[i].id = EventId(d, "partial")
    <3>1. CASE k = n
      <4>1. e.tag = "transcript_final" /\ e.turn = TurnOf(d)
        BY <2>3, <2>12, <3>1, Zenon
      <4>2. journal'.open = NoTurn
        BY <2>5, <4>1, OpenAfterFacts, Zenon
      <4>3. journal.open = TurnOf(d)
        BY <2>4, <4>1, Zenon DEF Transcript
      <4>4. PICK i \in DOMAIN stream : stream[i].id = EventId(d, "partial")
        BY <4>3, Zenon DEF StreamInv
      <4> QED
        BY <2>3, <2>9, <3>1, <4>2, <4>4, Zenon
    <3>2. CASE k \in DOMAIN stream
      <4>1. stream[k].tag = "transcript_final" /\ stream[k].turn = TurnOf(d)
        BY <2>3, <2>12, <3>2, Zenon
      <4>2. PICK i \in DOMAIN stream : i < k /\ stream[i].id = EventId(d, "partial")
        BY <3>2, <4>1, Zenon DEF StreamInv, FinalCloses
      <4>3. journal.open # TurnOf(d)
        BY <3>2, <4>1, Zenon DEF StreamInv, FinalCloses
      <4>4. EventId(d, "partial") \in journal.seen
        BY <4>2 DEF StreamInv
      <4>5. journal'.open # TurnOf(d)
        <5>1. SUFFICES ASSUME journal'.open = TurnOf(d)
                       PROVE  FALSE
          BY Zenon
        <5>2. e.turn = TurnOf(d)
          BY <2>5, <2>9, <4>3, <5>1, OpenAfterFacts, Zenon
        <5>3. e.tag # "transcript_final"
          BY <2>5, <2>9, <5>1, OpenAfterFacts, Zenon
        <5> QED
          BY <2>4, <2>10, <4>4, <5>2, <5>3, Zenon
      <4> QED
        BY <2>3, <4>2, <4>5, Zenon
    <3> QED
      BY <2>3, <2>12, <3>1, <3>2, Zenon
  <2>13. journal'.next = Len(stream') + 1
    BY <2>3, <2>5, Zenon
  <2>14. world' \in Worlds
    BY Zenon DEF StreamInv
  <2> HIDE DEF n
  <2> QED
    BY <1>0, <2>3, <2>6, <2>7, <2>8, <2>11, <2>12, <2>13, <2>14, Zenon DEF StreamInv, UniqueIds,
       FinalCloses
<1> QED
  BY <1>1, <1>2, Zenon
-----------------------------------------------------------------------------
(* The adapters.  One that is about to append its final has its partial in *)
(* the stream.                                                             *)
StageIn(s, d, stage) == \E i \in DOMAIN s : s[i] = EventOf(d, stage, i)

HasStage(d, stage) == StageIn(stream, d, stage)

JobInv ==
  /\ job \in [Adapters -> Jobs \cup {NoJob}]
  /\ pending \in [Adapters -> Seq(Deliveries)]
  /\ \A a \in Adapters : job[a].step \in {"final", "check_final"} => HasStage(job[a].d, "partial")

(* The stream only grows.                                                  *)
Grows == \A i \in DOMAIN stream : i \in DOMAIN stream' /\ stream'[i] = stream[i]

(* An event that is offered is stored at the end, or leaves the stream as it *)
(* was.                                                                      *)
LEMMA OfferedGrows ==
  ASSUME StreamInv, NEW e \in Events, Offered(e)
  PROVE  /\ Grows
         /\ Rejection(journal, state, e) = NoRejection =>
              stream' = Append(stream, e) /\ stream'[Len(stream) + 1] = e
                /\ Len(stream) + 1 \in DOMAIN stream' /\ e.seq = Len(stream) + 1
<1>1. stream \in Seq(Events) /\ Len(stream) \in Nat /\ DOMAIN stream = 1..Len(stream) /\ journal.next = Len(stream) + 1
  BY DEF StreamInv
<1>2. CASE Rejection(journal, state, e) = NoRejection
  <2>1. stream' = Append(stream, e)
    BY <1>2, Zenon DEF Offered
  <2>2. e.seq = Len(stream) + 1
    BY <1>1, <1>2, AcceptedFacts, Zenon
  <2>3. /\ DOMAIN stream' = 1..(Len(stream) + 1) /\ stream'[Len(stream) + 1] = e
        /\ \A i \in DOMAIN stream : stream'[i] = stream[i]
    BY <1>1, <2>1
  <2> QED
    BY <1>1, <2>1, <2>2, <2>3 DEF Grows
<1>3. CASE Rejection(journal, state, e) # NoRejection
  BY <1>3, Zenon DEF Offered, Grows
<1> QED
  BY <1>2, <1>3, Zenon

(* A stream that only grows keeps every stage it holds, and so every         *)
(* delivery acknowledged.                                                    *)
LEMMA GrowsKeeps ==
  ASSUME Grows
  PROVE  /\ \A d, stage : HasStage(d, stage) => HasStage(d, stage)'
         /\ AcknowledgedIsStored /\ acked' = acked => AcknowledgedIsStored'
<1>1. ASSUME NEW d, NEW stage, HasStage(d, stage)
      PROVE  HasStage(d, stage)'
  BY <1>1, Zenon DEF Grows, HasStage, StageIn, EventOf, EventId, TurnOf
<1>2. ASSUME AcknowledgedIsStored, acked' = acked
      PROVE  AcknowledgedIsStored'
  BY <1>2 DEF Grows, AcknowledgedIsStored, EventOf, EventId, TurnOf
<1> QED
  BY <1>1, <1>2, Zenon

(* What a replay check that finds the event establishes (_verify_replay).  *)
LEMMA StoredFacts ==
  ASSUME StreamInv, NEW d, NEW stage, Stored(d, stage) # {}, VerifyReplay(d, stage)
  PROVE  HasStage(d, stage)
<1>1. PICK e \in Range(stream) : e.id = EventId(d, stage) /\ e = EventOf(d, stage, e.seq)
  BY Zenon DEF Stored, VerifyReplay
<1>2. PICK i \in DOMAIN stream : stream[i] = e
  BY <1>1, Zenon DEF Range
<1>3. e.seq = i
  BY <1>2, Zenon DEF StreamInv
<1> QED
  BY <1>1, <1>2, <1>3, Zenon DEF HasStage, StageIn

(* A delivery with both events in a stream may be acknowledged: the final  *)
(* lies behind the partial, and the turn is closed.                        *)
LEMMA BothStored ==
  ASSUME NEW s, NEW open, NEW d, UniqueIds(s), FinalCloses(s, open, d),
         StageIn(s, d, "partial"), StageIn(s, d, "final")
  PROVE  /\ \E i, k \in DOMAIN s :
              i < k /\ s[i] = EventOf(d, "partial", i) /\ s[k] = EventOf(d, "final", k)
         /\ open # TurnOf(d)
<1>1. PICK i \in DOMAIN s : s[i] = EventOf(d, "partial", i)
  BY Zenon DEF StageIn
<1>2. PICK k \in DOMAIN s : s[k] = EventOf(d, "final", k)
  BY Zenon DEF StageIn
<1>3. s[k].tag = "transcript_final" /\ s[k].turn = TurnOf(d)
  BY <1>2 DEF EventOf, TranscriptKind
<1>4. s[i].id = EventId(d, "partial")
  BY <1>1 DEF EventOf
<1>5. open # TurnOf(d) /\ \E m \in DOMAIN s : m < k /\ s[m].id = EventId(d, "partial")
  BY <1>3, Zenon DEF FinalCloses
<1>6. i < k
  BY <1>4, <1>5, Zenon DEF UniqueIds
<1> QED
  BY <1>1, <1>2, <1>5, <1>6, Zenon

(* Taking a delivery out of the queue loses no other.                      *)
LEMMA UnqueuedFacts ==
  ASSUME NEW S, NEW q \in Seq(S), NEW d
  PROVE  /\ Unqueued(q, d) \in Seq(S)
         /\ \A x \in Range(q) : x # d => x \in Range(Unqueued(q, d))
<1>1. CASE d \notin Range(q)
  BY <1>1, Zenon DEF Unqueued
<1>2. CASE d \in Range(q)
  <2> DEFINE i == CHOOSE i \in DOMAIN q : q[i] = d
             A == SubSeq(q, 1, i - 1)
             B == SubSeq(q, i + 1, Len(q))
             r == A \o B
  <2>1. i \in DOMAIN q /\ q[i] = d
    BY <1>2, Zenon DEF Range
  <2> HIDE DEF i
  <2>2. i \in 1..Len(q) /\ Len(q) \in Nat
    BY <2>1
  <2>3. A \in Seq(S) /\ Len(A) = i - 1 /\ \A m \in 1..(i - 1) : A[m] = q[m]
    BY <2>2
  <2>4. B \in Seq(S) /\ Len(B) = Len(q) - i /\ \A m \in 1..(Len(q) - i) : B[m] = q[m + i]
    BY <2>2
  <2>6. Unqueued(q, d) = r
    BY <1>2, Zenon DEF Unqueued, i
  <2> HIDE DEF A, B
  <2>5. /\ r \in Seq(S) /\ Len(r) = Len(q) - 1
        /\ \A m \in 1..(i - 1) : r[m] = q[m]
        /\ \A m \in i..(Len(q) - 1) : r[m] = q[m + 1]
    <3>1. /\ r \in Seq(S) /\ Len(r) = Len(A) + Len(B)
          /\ \A m \in 1..Len(r) : r[m] = IF m <= Len(A) THEN A[m] ELSE B[m - Len(A)]
      <4>1. /\ A \o B \in Seq(S) /\ Len(A \o B) = Len(A) + Len(B)
            /\ \A m \in 1 .. Len(A) + Len(B) : (A \o B)[m] = IF m <= Len(A) THEN A[m] ELSE B[m - Len(A)]
        BY <2>3, <2>4, OneAfterTheOther, Zenon
      <4> QED
        BY <4>1, Zenon
    <3>2. Len(r) = Len(q) - 1
      BY <2>2, <2>3, <2>4, <3>1
    <3>3. \A m \in 1..(i - 1) : r[m] = q[m]
      BY <2>2, <2>3, <3>1, <3>2
    <3>4. ASSUME NEW m \in i..(Len(q) - 1)
          PROVE  r[m] = q[m + 1]
      <4>1. r[m] = B[m - (i - 1)]
        BY <2>2, <2>3, <3>1, <3>2
      <4>2. m - (i - 1) \in 1..(Len(q) - i) /\ (m - (i - 1)) + i = m + 1
        BY <2>2
      <4> QED
        BY <2>4, <4>1, <4>2, Zenon
    <3> QED
      BY <3>1, <3>2, <3>3, <3>4, Zenon
  <2> HIDE DEF r
  <2>7. ASSUME NEW x \in Range(q), x # d
        PROVE  x \in Range(r)
    <3>1. PICK m \in 1..Len(q) : q[m] = x
      BY DEF Range
    <3>2. m # i
      BY <2>1, <2>7, <3>1, Zenon
    <3>3. \E k \in 1..(Len(q) - 1) : r[k] = x
      <4>1. CASE m < i
        BY <2>2, <2>5, <3>1, <4>1
      <4>2. CASE m > i
        <5>1. m - 1 \in i..(Len(q) - 1) /\ r[m - 1] = q[(m - 1) + 1]
          BY <2>2, <2>5, <4>2
        <5> QED
          BY <2>2, <3>1, <5>1
      <4> QED
        BY <2>2, <3>2, <4>1, <4>2
    <3> QED
      BY <2>5, <3>3 DEF Range
  <2> QED
    BY <2>5, <2>6, <2>7, Zenon
<1> QED
  BY <1>1, <1>2, Zenon
-----------------------------------------------------------------------------
(* A turn is explained when its delivery was given up or is still held.    *)
Explained(turn) == turn \in abandoned \/ \E a \in Adapters : Holds(a, turn)

ExplainInv == \A d \in Deliveries : journal.open = TurnOf(d) => Explained(TurnOf(d))

(* The deliveries an adapter holds.                                        *)
Held(a) == Range(pending[a]) \cup (IF job[a] = NoJob THEN {} ELSE {job[a].d})

(* An adapter holds a turn when it holds a delivery of that turn.            *)
LEMMA HoldsIsHeld ==
  ASSUME NEW a \in Adapters, NEW turn
  PROVE  Holds(a, turn) <=> \E d \in Held(a) : TurnOf(d) = turn
  BY Zenon DEF Holds, Held

(* The same after a step.                                                    *)
LEMMA HoldsIsHeldNext ==
  ASSUME NEW a \in Adapters', NEW turn
  PROVE  Holds(a, turn)' <=> \E d \in Held(a)' : TurnOf(d) = turn
  BY Zenon DEF Holds, Held, TurnOf

(* If adapter a lets go of nothing but deliveries of `gone`, and the others*)
(* of nothing, only the turns of `gone` need a new explanation.            *)
LEMMA HeldKeeps ==
  ASSUME UNCHANGED world, NEW gone,
         \A a \in Adapters : \A d \in Held(a) : d \in Held(a)' \/ TurnOf(d) \in gone,
         abandoned \subseteq abandoned'
  PROVE  \A turn : Explained(turn) => Explained(turn)' \/ turn \in gone
<1>0. Adapters' = Adapters
  BY Zenon DEF Adapters
<1>1. ASSUME NEW turn, Explained(turn), turn \notin gone
      PROVE  Explained(turn)'
  <2>1. CASE turn \in abandoned
    BY <2>1, Zenon DEF Explained
  <2>2. ASSUME NEW a \in Adapters, Holds(a, turn)
        PROVE  Explained(turn)'
    <3>1. PICK d \in Held(a) : TurnOf(d) = turn
      BY <2>2, HoldsIsHeld, Zenon
    <3>2. d \in Held(a)'
      BY <1>1, <3>1, Zenon
    <3>3. Holds(a, turn)'
      BY <1>0, <3>1, <3>2, HoldsIsHeldNext, Zenon
    <3> QED
      BY <1>0, <3>3, Zenon DEF Explained
  <2> QED
    BY <1>1, <2>1, <2>2, Zenon DEF Explained
<1> QED
  BY <1>1, Zenon

(* The journal's open turn is the old one, none, or the new event's.       *)
LEMMA ExplainKeeps ==
  ASSUME StreamInv, ExplainInv, UNCHANGED world, NEW gone,
         \A turn : Explained(turn) => Explained(turn)' \/ turn \in gone,
         \A turn \in gone : journal'.open = turn => Explained(turn)',
         \A d \in Deliveries : journal'.open = TurnOf(d) =>
            journal.open = TurnOf(d) \/ TurnOf(d) \in gone
  PROVE  ExplainInv'
<1>1. Deliveries' = Deliveries
  BY Zenon DEF Deliveries, Adapters
<1>2. \A d \in Deliveries : journal'.open = TurnOf(d) => Explained(TurnOf(d))'
  BY Zenon DEF ExplainInv
<1> QED
  BY <1>1, <1>2, Zenon DEF ExplainInv, TurnOf

(* The end of a delivery: adapter a holds everything it held but that one. *)
LEMMA SettleFacts ==
  ASSUME JobInv, NEW a \in Adapters, job[a] \in Jobs, NEW q \in Seq(Deliveries),
         Range(pending[a]) \subseteq Range(q), NEW queued, Settle(a, q, queued), UNCHANGED world
  PROVE  /\ job' \in [Adapters -> Jobs \cup {NoJob}] /\ pending' \in [Adapters -> Seq(Deliveries)]
         /\ job'[a] = NoJob \/ job'[a].step = "read"
         /\ \A b \in Adapters \ {a} : job'[b] = job[b] /\ pending'[b] = pending[b]
         /\ \A d \in Range(q) : d \in Held(a)'
<1> DEFINE j == job[a]
           more == j.flush # << >> /\ ~queued
           new == IF more THEN Started(Head(j.flush), Tail(j.flush), "flush") ELSE NoJob
           rest == IF more THEN Unqueued(q, Head(j.flush)) ELSE q
<1>1. job' = [job EXCEPT ![a] = new] /\ pending' = [pending EXCEPT ![a] = rest]
  BY Zenon DEF Settle
<1>2. j.flush \in Seq(Deliveries)
  BY Zenon DEF Jobs
<1>3. more => Head(j.flush) \in Deliveries /\ Tail(j.flush) \in Seq(Deliveries)
  BY <1>2
<1>4. new \in Jobs \cup {NoJob} /\ (new = NoJob \/ new.step = "read")
  BY <1>3, Zenon DEF Started, Jobs
<1>5. /\ rest \in Seq(Deliveries)
      /\ \A d \in Range(q) : d \in Range(rest) \/ (more /\ d = Head(j.flush))
  BY UnqueuedFacts, Zenon
<1>6. more => new # NoJob /\ new.d = Head(j.flush)
  BY Zenon DEF Started, NoJob
<1> HIDE DEF new, rest, more
<1>7. job'[a] = new /\ pending'[a] = rest
  BY <1>1, Zenon DEF JobInv
<1>8. \A d \in Range(q) : d \in Held(a)'
  BY <1>5, <1>6, <1>7, Zenon DEF Held
<1> QED
  BY <1>1, <1>4, <1>5, <1>7, <1>8, Zenon DEF JobInv

(* An adapter that settles a delivery with the queue gives up no other       *)
(* delivery.                                                                 *)
LEMMA SettleKeeps ==
  ASSUME JobInv, NEW a \in Adapters, job[a] \in Jobs, NEW q \in Seq(Deliveries),
         Range(pending[a]) \subseteq Range(q), NEW queued, Settle(a, q, queued), UNCHANGED world, Grows
  PROVE  /\ JobInv'
         /\ \A b \in Adapters : \A d \in Held(b) : d \in Held(b)' \/ TurnOf(d) \in {TurnOf(job[a].d)}
<1>1. /\ job' \in [Adapters -> Jobs \cup {NoJob}] /\ pending' \in [Adapters -> Seq(Deliveries)]
      /\ job'[a] = NoJob \/ job'[a].step = "read"
      /\ \A b \in Adapters \ {a} : job'[b] = job[b] /\ pending'[b] = pending[b]
      /\ \A d \in Range(q) : d \in Held(a)'
  BY SettleFacts, Zenon
<1>2. Adapters' = Adapters /\ Deliveries' = Deliveries /\ Jobs' = Jobs
  BY DEF Deliveries, Adapters, Jobs
<1>3. \A b \in Adapters : (job[b].step \in {"final", "check_final"} => HasStage(job[b].d, "partial"))'
  <2>1. NoJob.step = "idle"
    BY Zenon DEF NoJob
  <2>3. ASSUME NEW b \in Adapters, job'[b].step \in {"final", "check_final"}
        PROVE  HasStage(job[b].d, "partial")'
    <3>1. b # a /\ job'[b] = job[b]
      BY <1>1, <2>1, <2>3, Zenon
    <3>2. HasStage(job[b].d, "partial")
      BY <2>3, <3>1, Zenon DEF JobInv
    <3>3. PICK i \in DOMAIN stream : stream[i] = EventOf(job[b].d, "partial", i)
      BY <3>2, Zenon DEF HasStage, StageIn
    <3>4. i \in DOMAIN stream' /\ stream'[i] = EventOf(job'[b].d, "partial", i)
      BY <3>1, <3>3, Zenon DEF Grows
    <3> QED
      BY <3>4, Zenon DEF HasStage, StageIn, EventOf, EventId, TurnOf
  <2> QED
    BY <2>3, Zenon
<1>4. ASSUME NEW b \in Adapters, NEW d \in Held(b)
      PROVE  d \in Held(b)' \/ TurnOf(d) \in {TurnOf(job[a].d)}
  <2>1. CASE b = a
    BY <1>1, <1>4, <2>1, Zenon DEF Held
  <2>2. CASE b # a
    BY <1>1, <1>4, <2>2, Zenon DEF Held
  <2> QED
    BY <2>1, <2>2, Zenon
<1>5. JobInv'
  BY <1>1, <1>2, <1>3, Zenon DEF JobInv
<1> QED
  BY <1>4, <1>5, Zenon
-----------------------------------------------------------------------------
RelayInv == StreamInv /\ JobInv /\ AcknowledgedIsStored /\ ExplainInv

(* The next open turn is the old one, none, or the delivery's own.         *)
OpensOnly(turn) ==
  \A d \in Deliveries : journal'.open = TurnOf(d) => journal.open = TurnOf(d) \/ TurnOf(d) = turn

(* An answer is given only when both events are in the stream.             *)
LEMMA AcknowledgeKeeps ==
  ASSUME RelayInv, StreamInv', NEW a \in Adapters, job[a] \in Jobs, NEW d \in Deliveries, d = job[a].d,
         UNCHANGED world, Grows, Acknowledge(a), OpensOnly(TurnOf(d)),
         HasStage(d, "partial")', HasStage(d, "final")'
  PROVE  RelayInv'
<1>0. Deliveries' = Deliveries /\ pending[a] \in Seq(Deliveries)
  BY Zenon DEF Deliveries, Adapters, RelayInv, JobInv
<1>1. /\ JobInv'
      /\ \A b \in Adapters : \A x \in Held(b) : x \in Held(b)' \/ TurnOf(x) \in {TurnOf(job[a].d)}
  BY <1>0, SettleKeeps, Zenon DEF Acknowledge, RelayInv
<1>2. /\ \E i, k \in DOMAIN stream' :
            i < k /\ stream'[i] = EventOf(d, "partial", i) /\ stream'[k] = EventOf(d, "final", k)
      /\ journal'.open # TurnOf(d)
  <2>1. UniqueIds(stream') /\ FinalCloses(stream', journal'.open, d)
    BY <1>0, Zenon DEF StreamInv, UniqueIds, FinalCloses
  <2>2. StageIn(stream', d, "partial") /\ StageIn(stream', d, "final")
    BY Zenon DEF HasStage, StageIn, EventOf, EventId, TurnOf
  <2> QED
    BY <2>1, <2>2, BothStored
<1>3. AcknowledgedIsStored'
  <2>1. acked' = acked \cup {<<a, d>>}
    BY Zenon DEF Acknowledge
  <2>2. ASSUME NEW x \in acked'
        PROVE  \E i, k \in DOMAIN stream' :
                 i < k /\ stream'[i] = EventOf(x[2], "partial", i) /\ stream'[k] = EventOf(x[2], "final", k)
    <3>1. CASE x \in acked
      BY <3>1, Zenon DEF RelayInv, AcknowledgedIsStored, Grows
    <3>2. CASE x = <<a, d>>
      BY <1>2, <3>2, Zenon
    <3> QED
      BY <2>1, <2>2, <3>1, <3>2, Zenon
  <2> QED
    BY <2>2, ZenonT(30) DEF AcknowledgedIsStored, EventOf, EventId, TurnOf
<1>4. ExplainInv'
  <2>1. abandoned \subseteq abandoned'
    BY Zenon DEF Acknowledge
  <2>2. \A turn : Explained(turn) => Explained(turn)' \/ turn \in {TurnOf(d)}
    BY <1>1, <2>1, HeldKeeps, Zenon
  <2>3. \A turn \in {TurnOf(d)} : journal'.open = turn => Explained(turn)'
    BY <1>2, Zenon
  <2>4. \A x \in Deliveries : journal'.open = TurnOf(x) =>
           journal.open = TurnOf(x) \/ TurnOf(x) \in {TurnOf(d)}
    BY Zenon DEF OpensOnly
  <2> QED
    BY <2>2, <2>3, <2>4, ExplainKeeps, Zenon DEF RelayInv
<1> QED
  BY <1>1, <1>3, <1>4, Zenon DEF RelayInv

(* A delivery that is given up explains its turn.                          *)
LEMMA RejectKeeps ==
  ASSUME RelayInv, StreamInv', NEW a \in Adapters, job[a] \in Jobs,
         UNCHANGED world, Grows, Reject(a), OpensOnly(TurnOf(job[a].d))
  PROVE  RelayInv'
<1>0. pending[a] \in Seq(Deliveries)
  BY Zenon DEF RelayInv, JobInv
<1>1. /\ JobInv'
      /\ \A b \in Adapters : \A x \in Held(b) : x \in Held(b)' \/ TurnOf(x) \in {TurnOf(job[a].d)}
  BY <1>0, SettleKeeps, Zenon DEF Reject, RelayInv
<1>2. AcknowledgedIsStored'
  BY GrowsKeeps, Zenon DEF Reject, RelayInv
<1>3. abandoned \subseteq abandoned' /\ TurnOf(job[a].d) \in abandoned'
  BY Zenon DEF Reject
<1>4. \A turn : Explained(turn) => Explained(turn)' \/ turn \in {TurnOf(job[a].d)}
  BY <1>1, <1>3, HeldKeeps, Zenon
<1>5. \A turn \in {TurnOf(job[a].d)} : Explained(turn)'
  BY <1>3, Zenon DEF Explained
<1>6. ExplainInv'
  BY <1>4, <1>5, ExplainKeeps, Zenon DEF OpensOnly, RelayInv
<1> QED
  BY <1>1, <1>2, <1>6, Zenon DEF RelayInv

(* A delivery that met a broken connection is held in the queue.           *)
LEMMA QueueKeeps ==
  ASSUME RelayInv, StreamInv', NEW a \in Adapters, job[a] \in Jobs,
         UNCHANGED world, Grows, Queue(a), OpensOnly(TurnOf(job[a].d))
  PROVE  RelayInv'
<1> DEFINE q == Append(pending[a], job[a].d)
<1>0. pending[a] \in Seq(Deliveries) /\ job[a].d \in Deliveries
  BY Zenon DEF RelayInv, JobInv, Jobs
<1>1. q \in Seq(Deliveries) /\ Range(pending[a]) \subseteq Range(q) /\ job[a].d \in Range(q)
  <2>1. /\ q \in Seq(Deliveries) /\ DOMAIN q = DOMAIN pending[a] \cup {Len(pending[a]) + 1}
        /\ q[Len(pending[a]) + 1] = job[a].d /\ \A i \in DOMAIN pending[a] : q[i] = pending[a][i]
    BY <1>0
  <2> QED
    BY <2>1, Zenon DEF Range
<1>2. Settle(a, q, TRUE) /\ UNCHANGED <<acked, abandoned>>
  BY Zenon DEF Queue, Requeued
<1> HIDE DEF q
<1>3. /\ JobInv'
      /\ \A b \in Adapters : \A x \in Held(b) : x \in Held(b)' \/ TurnOf(x) \in {TurnOf(job[a].d)}
  BY <1>1, <1>2, SettleKeeps, Zenon DEF RelayInv
<1>4. AcknowledgedIsStored'
  BY <1>2, GrowsKeeps, Zenon DEF RelayInv
<1>5. \A turn : Explained(turn) => Explained(turn)' \/ turn \in {TurnOf(job[a].d)}
  BY <1>2, <1>3, HeldKeeps, Zenon
<1>6. job[a].d \in Held(a)'
  BY <1>1, <1>2, SettleFacts, Zenon DEF RelayInv
<1>7. \A turn \in {TurnOf(job[a].d)} : Explained(turn)'
  <2>1. a \in Adapters'
    BY Zenon DEF Adapters
  <2> QED
    BY <1>6, <2>1, HoldsIsHeldNext, Zenon DEF Explained
<1>8. ExplainInv'
  BY <1>5, <1>7, ExplainKeeps, Zenon DEF OpensOnly, RelayInv
<1> QED
  BY <1>3, <1>4, <1>8 DEF RelayInv

(* Any other exception leaves the call and gives the delivery up.            *)
LEMMA RaiseKeeps ==
  ASSUME RelayInv, NEW a \in Adapters, job[a] \in Jobs,
         UNCHANGED <<world, conversation>>, Raise(a)
  PROVE  RelayInv'
<1>0. /\ Deliveries' = Deliveries /\ Adapters' = Adapters /\ Jobs' = Jobs
      /\ UNCHANGED <<journal, stream, pending, acked>>
  BY Zenon DEF Deliveries, Adapters, Jobs, conversation, Raise
<1>1. StreamInv'
  BY <1>0, StreamKept, Zenon DEF RelayInv
<1>2. job' \in [Adapters -> Jobs \cup {NoJob}] /\ job'[a] = NoJob /\ \A b \in Adapters \ {a} : job'[b] = job[b]
  BY Zenon DEF Raise, RelayInv, JobInv
<1>3. NoJob.step = "idle"
  BY Zenon DEF NoJob
<1>4. JobInv'
  <2>1. ASSUME NEW b \in Adapters, job'[b].step \in {"final", "check_final"}
        PROVE  HasStage(job[b].d, "partial")'
    <3>1. job'[b] = job[b]
      BY <1>2, <1>3, <2>1, Zenon
    <3>2. PICK i \in DOMAIN stream : stream[i] = EventOf(job[b].d, "partial", i)
      BY <2>1, <3>1, Zenon DEF RelayInv, JobInv, HasStage, StageIn
    <3>3. i \in DOMAIN stream' /\ stream'[i] = EventOf(job'[b].d, "partial", i)
      BY <1>0, <3>1, <3>2, Zenon
    <3> QED
      BY <3>3, Zenon DEF HasStage, StageIn, EventOf, EventId, TurnOf
  <2> QED
    BY <1>0, <1>2, <2>1, Zenon DEF RelayInv, JobInv
<1>5. AcknowledgedIsStored'
  BY <1>0, Zenon DEF RelayInv, AcknowledgedIsStored
<1>6. abandoned \subseteq abandoned' /\ TurnOf(job[a].d) \in abandoned'
  BY Zenon DEF Raise
<1>7. \A b \in Adapters : \A d \in Held(b) : d \in Held(b)' \/ TurnOf(d) \in {TurnOf(job[a].d)}
  BY <1>0, <1>2, Zenon DEF Held
<1>8. \A turn : Explained(turn) => Explained(turn)' \/ turn \in {TurnOf(job[a].d)}
  BY <1>6, <1>7, HeldKeeps, Zenon
<1>9. \A turn \in {TurnOf(job[a].d)} : Explained(turn)'
  BY <1>6, Zenon DEF Explained
<1>10. \A x \in Deliveries : journal'.open = TurnOf(x) =>
           journal.open = TurnOf(x) \/ TurnOf(x) \in {TurnOf(job[a].d)}
  BY <1>0, Zenon
<1>11. ExplainInv'
  BY <1>8, <1>9, <1>10, ExplainKeeps, Zenon DEF RelayInv
<1> QED
  BY <1>1, <1>4, <1>5, <1>11, Zenon DEF RelayInv

(* A job that goes on keeps its delivery.                                  *)
LEMMA GoesOn ==
  ASSUME RelayInv, StreamInv', NEW a \in Adapters, job[a] \in Jobs, NEW d \in Deliveries, d = job[a].d,
         UNCHANGED <<world, pending, acked, abandoned>>, Grows, OpensOnly(TurnOf(d)),
         NEW j \in Jobs, j.d = d, job' = [job EXCEPT ![a] = j],
         j.step \in {"final", "check_final"} => HasStage(d, "partial")'
  PROVE  RelayInv'
<1>0. Deliveries' = Deliveries /\ Adapters' = Adapters /\ Jobs' = Jobs
  BY DEF Deliveries, Adapters, Jobs
<1>1. /\ job' \in [Adapters -> Jobs \cup {NoJob}] /\ job'[a] = j
      /\ \A b \in Adapters \ {a} : job'[b] = job[b]
  BY Zenon DEF RelayInv, JobInv
<1>2. ASSUME NEW b \in Adapters, job'[b].step \in {"final", "check_final"}
      PROVE  HasStage(job[b].d, "partial")'
  <2>1. CASE b = a
    BY <1>1, <1>2, <2>1, Zenon DEF HasStage, StageIn, EventOf, EventId, TurnOf
  <2>2. CASE b # a
    <3>1. PICK i \in DOMAIN stream : stream[i] = EventOf(job[b].d, "partial", i)
      BY <1>1, <1>2, <2>2, Zenon DEF RelayInv, JobInv, HasStage, StageIn
    <3>2. i \in DOMAIN stream' /\ stream'[i] = EventOf(job'[b].d, "partial", i)
      BY <1>1, <2>2, <3>1, Zenon DEF Grows
    <3> QED
      BY <3>2, Zenon DEF HasStage, StageIn, EventOf, EventId, TurnOf
  <2> QED
    BY <2>1, <2>2, Zenon
<1>3. JobInv'
  BY <1>0, <1>1, <1>2, Zenon DEF RelayInv, JobInv
<1>4. AcknowledgedIsStored'
  BY GrowsKeeps, Zenon DEF RelayInv
<1>5. j # NoJob /\ job[a] # NoJob
  BY DEF Jobs, NoJob
<1>6. \A b \in Adapters : \A x \in Held(b) : x \in Held(b)' \/ TurnOf(x) \in {}
  BY <1>1, <1>5, Zenon DEF Held
<1>7. \A turn : Explained(turn) => Explained(turn)' \/ turn \in {TurnOf(d)}
  BY <1>6, HeldKeeps, Zenon
<1>8. \A turn \in {TurnOf(d)} : Explained(turn)'
  <2>1. d \in Held(a)'
    BY <1>1, <1>5, Zenon DEF Held
  <2> QED
    BY <1>0, <2>1, HoldsIsHeldNext, Zenon DEF Explained
<1>9. \A x \in Deliveries : journal'.open = TurnOf(x) =>
           journal.open = TurnOf(x) \/ TurnOf(x) \in {TurnOf(d)}
  BY Zenon DEF OpensOnly
<1>10. ExplainInv'
  BY <1>7, <1>8, <1>9, ExplainKeeps, Zenon DEF RelayInv
<1> QED
  BY <1>3, <1>4, <1>10, Zenon DEF RelayInv

(* The adapter goes on to the next stage of its delivery.                    *)
LEMMA AdvanceKeeps ==
  ASSUME RelayInv, StreamInv', NEW a \in Adapters, job[a] \in Jobs, NEW d \in Deliveries, d = job[a].d,
         UNCHANGED <<world, pending, acked, abandoned>>, Grows, OpensOnly(TurnOf(d)),
         NEW step \in {"partial", "final", "check_partial", "check_final"}, NEW n \in Nat,
         Advance(a, step, n),
         step \in {"final", "check_final"} => HasStage(d, "partial")'
  PROVE  RelayInv'
<1> DEFINE j == [job[a] EXCEPT !.step = step, !.seq = n, !.tries = 0]
<1>1. j \in Jobs /\ j.d = d /\ j.step = step
  BY Zenon DEF Jobs
<1>2. job' = [job EXCEPT ![a] = j]
  BY Zenon DEF Advance
<1> HIDE DEF j
<1> QED
  BY <1>1, <1>2, GoesOn, Zenon

(* What an offered event can open.                                         *)
LEMMA OfferedOpens ==
  ASSUME StreamInv, NEW e \in Events, Offered(e)
  PROVE  OpensOnly(e.turn)
<1>1. CASE Rejection(journal, state, e) # NoRejection
  BY <1>1, Zenon DEF Offered, Accept, OpensOnly
<1>2. CASE Rejection(journal, state, e) = NoRejection
  <2>1. journal'.open = OpenAfter(journal, e)
    BY <1>2, AcceptEffect, SMTT(30) DEF Offered
  <2>2. \A d \in Deliveries : TurnOf(d) # NoTurn
    BY EventFacts, Zenon DEF StreamInv
  <2> QED
    BY <2>1, <2>2, OpenAfterFacts, Zenon DEF OpensOnly
<1> QED
  BY <1>1, <1>2, Zenon
(* A stage of the delivery is in the stream: on to the final, or answer.   *)
LEMMA StagedKeeps ==
  ASSUME RelayInv, StreamInv', NEW a \in Adapters, job[a] \in Jobs, NEW d \in Deliveries, d = job[a].d,
         UNCHANGED world, Grows, OpensOnly(TurnOf(d)),
         NEW stage \in Stages, NEW n \in Nat, Staged(a, stage, n),
         HasStage(d, "partial")', stage = "final" => HasStage(d, "final")'
  PROVE  RelayInv'
<1>1. CASE stage = "final"
  BY <1>1, AcknowledgeKeeps, Zenon DEF Staged
<1>2. CASE stage = "partial"
  BY <1>2, AdvanceKeeps, Zenon DEF Staged
<1> QED
  BY <1>1, <1>2, Zenon DEF Stages

(* The adapter takes the next number of the stream after a conflict.         *)
LEMMA RebaseKeeps ==
  ASSUME RelayInv, StreamInv', NEW a \in Adapters, job[a] \in Jobs, NEW d \in Deliveries, d = job[a].d,
         UNCHANGED world, Grows, OpensOnly(TurnOf(d)), Rebase(a)
  PROVE  RelayInv'
<1> DEFINE j == [job[a] EXCEPT !.seq = journal.next, !.tries = @ + 1]
<1>1. CASE job[a].tries + 1 = MaxSequenceRebaseAttempts
  BY <1>1, RejectKeeps, Zenon DEF Rebase
<1>2. CASE job[a].tries + 1 # MaxSequenceRebaseAttempts
  <2>1. journal.next \in Nat /\ job[a].tries + 1 \in Nat
    <3>1. journal.next = Len(stream) + 1 /\ stream \in Seq(Events)
      BY Zenon DEF RelayInv, StreamInv
    <3>2. job[a].tries \in Nat
      BY Zenon DEF Jobs
    <3>3. Len(stream) \in Nat
      BY <3>1, Positions, Zenon
    <3> QED
      BY <3>1, <3>2, <3>3
  <2>2. j \in Jobs /\ j.d = d /\ j.step = job[a].step
    BY <2>1, Zenon DEF Jobs
  <2>3. job' = [job EXCEPT ![a] = j] /\ UNCHANGED <<pending, acked, abandoned>>
    BY <1>2, Zenon DEF Rebase
  <2>4. j.step \in {"final", "check_final"} => HasStage(d, "partial")'
    BY <2>2, GrowsKeeps, Zenon DEF RelayInv, JobInv
  <2> HIDE DEF j
  <2> QED
    BY <2>2, <2>3, <2>4, GoesOn, Zenon
<1> QED
  BY <1>1, <1>2, Zenon

-----------------------------------------------------------------------------
(* One lemma per action.                                                   *)

(* The adapter reads what the stream holds of its delivery.                  *)
LEMMA ReadKeeps ==
  ASSUME RelayInv, NEW a \in Adapters, Read(a)
  PROVE  RelayInv'
<1> DEFINE d == job[a].d
<1>1. job[a] \in Jobs
  BY DEF Read, RelayInv, JobInv, NoJob
<1>2. d \in Deliveries
  BY <1>1, Zenon DEF Jobs
<1>3. UNCHANGED <<world, journal, state, stream>>
  BY Zenon DEF Read, conversation
<1>4. StreamInv' /\ Grows /\ OpensOnly(TurnOf(d))
  BY <1>3, StreamKept, Zenon DEF RelayInv, Grows, OpensOnly
<1>5. CASE Queue(a)
  BY <1>1, <1>3, <1>4, <1>5, QueueKeeps, Zenon
<1>6. CASE Raise(a)
  BY <1>1, <1>3, <1>6, RaiseKeeps, Zenon DEF conversation
<1>7. ASSUME Stored(d, "final") # {}, Stored(d, "partial") # {}, VerifyReplay(d, "partial"),
             VerifyReplay(d, "final"), Acknowledge(a)
      PROVE  RelayInv'
  <2>1. PICK x \in Deliveries : x = d
    BY <1>2, Zenon
  <2>2. HasStage(x, "partial") /\ HasStage(x, "final")
    BY <1>7, <2>1, StoredFacts, Zenon DEF RelayInv
  <2>3. HasStage(x, "partial")' /\ HasStage(x, "final")'
    BY <1>4, <2>2, GrowsKeeps, Zenon
  <2> HIDE DEF d
  <2>4. x = job[a].d
    BY <2>1, Zenon DEF d
  <2> QED
    BY <1>1, <1>3, <1>4, <1>7, <2>1, <2>3, <2>4, AcknowledgeKeeps, Zenon
<1>8. ASSUME NEW step \in {"partial", "final"}, step = "final" => Stored(d, "partial") # {},
             VerifyReplay(d, "partial"), Advance(a, step, Len(stream) + 1),
             UNCHANGED <<pending, acked, abandoned>>
      PROVE  RelayInv'
  <2>1. PICK x \in Deliveries : x = d
    BY <1>2, Zenon
  <2>2. step = "final" => HasStage(x, "partial")
    BY <1>8, <2>1, StoredFacts, Zenon DEF RelayInv
  <2>3. step = "final" => HasStage(x, "partial")'
    BY <1>4, <2>2, GrowsKeeps, Zenon
  <2>4. Len(stream) + 1 \in Nat
    BY DEF RelayInv, StreamInv
  <2> HIDE DEF d
  <2>5. x = job[a].d
    BY <2>1, Zenon DEF d
  <2> QED
    BY <1>1, <1>3, <1>4, <1>8, <2>1, <2>3, <2>4, <2>5, AdvanceKeeps, Zenon
<1> QED
  BY <1>5, <1>6, <1>7, <1>8, Zenon DEF Read

(* The adapter appends a stage of its delivery.                              *)
LEMMA AppendKeeps ==
  ASSUME RelayInv, NEW a \in Adapters, AppendStage(a)
  PROVE  RelayInv'
<1>1. job[a].step \in Stages /\ UNCHANGED world /\ job[a] \in Jobs
  BY DEF AppendStage, Stages, RelayInv, JobInv, NoJob
<1>2. PICK d \in Deliveries, stage \in Stages, n \in Nat :
         d = job[a].d /\ stage = job[a].step /\ n = job[a].seq
  BY <1>1, Zenon DEF Jobs
<1> DEFINE e == EventOf(d, stage, n)
           verdict == Rejection(journal, state, e)
<1>3. e \in Events /\ e.turn = TurnOf(d) /\ e.seq = n
  <2>1. e \in Forwarded
    BY DEF Forwarded
  <2> QED
    BY <2>1, Zenon DEF Events, EventOf
<1>4. stage = "final" => HasStage(d, "partial")
  BY <1>2, Zenon DEF RelayInv, JobInv
<1>5. ASSUME Offered(e)
      PROVE  /\ StreamInv' /\ Grows /\ OpensOnly(TurnOf(d))
             /\ verdict = NoRejection => StageIn(stream', d, stage)
             /\ stage = "final" => HasStage(d, "partial")'
             /\ journal'.next \in Nat
  <2>1. StreamInv'
    BY <1>1, <1>3, <1>5, OfferedKeeps, Zenon DEF RelayInv
  <2>2. /\ Grows
        /\ verdict = NoRejection => /\ stream'[Len(stream) + 1] = e /\ Len(stream) + 1 \in DOMAIN stream'
                                    /\ n = Len(stream) + 1
    BY <1>3, <1>5, OfferedGrows, Zenon DEF RelayInv
  <2>3. OpensOnly(TurnOf(d))
    BY <1>3, <1>5, OfferedOpens, Zenon DEF RelayInv
  <2>4. verdict = NoRejection => StageIn(stream', d, stage)
    BY <2>2, Zenon DEF StageIn
  <2>5. stage = "final" => HasStage(d, "partial")'
    BY <1>4, <2>2, GrowsKeeps, Zenon
  <2>6. journal'.next \in Nat
    BY <2>1 DEF StreamInv
  <2> QED
    BY <2>1, <2>2, <2>3, <2>4, <2>5, <2>6, Zenon
<1>6. \A s \in Stages : StageIn(stream', d, s) => (s = "final" => HasStage(d, "final")')
                                              /\ (s = "partial" => HasStage(d, "partial")')
  BY Zenon DEF HasStage, StageIn, EventOf, EventId, TurnOf
<1>7. \/ Queue(a) /\ UNCHANGED conversation
      \/ Queue(a) /\ Offered(e)
      \/ Raise(a) /\ UNCHANGED conversation
      \/ Offered(e) /\ verdict = NoRejection /\ Staged(a, stage, journal'.next)
      \/ Offered(e) /\ Rebase(a)
      \/ Offered(e) /\ Advance(a, CheckOf(stage), journal.next) /\ UNCHANGED <<pending, cursor, acked, abandoned>>
      \/ Offered(e) /\ Reject(a)
  BY <1>2, Zenon DEF AppendStage
<1> HIDE DEF e, verdict
<1>8. CASE Queue(a) /\ UNCHANGED conversation
  <2>1. StreamInv' /\ Grows /\ OpensOnly(TurnOf(d))
    BY <1>1, <1>8, StreamKept, Zenon DEF RelayInv, Grows, OpensOnly, conversation
  <2> QED
    BY <1>1, <1>2, <1>8, <2>1, QueueKeeps, Zenon
<1>9. CASE Queue(a) /\ Offered(e)
  BY <1>1, <1>2, <1>5, <1>9, QueueKeeps, Zenon
<1>10. CASE Raise(a) /\ UNCHANGED conversation
  BY <1>1, <1>10, RaiseKeeps, Zenon
<1>11. CASE Offered(e) /\ verdict = NoRejection /\ Staged(a, stage, journal'.next)
  <2>1. HasStage(d, "partial")' /\ (stage = "final" => HasStage(d, "final")')
    BY <1>5, <1>6, <1>11, Zenon DEF Stages
  <2>2. PICK m \in Nat : m = journal'.next
    BY <1>5, <1>11, Zenon
  <2>3. Staged(a, stage, m)
    BY <1>11, <2>2, Zenon DEF Staged, Advance
  <2> QED
    BY <1>1, <1>2, <1>5, <1>11, <2>1, <2>3, StagedKeeps, Zenon
<1>12. CASE Offered(e) /\ Rebase(a)
  BY <1>1, <1>2, <1>5, <1>12, RebaseKeeps, Zenon
<1>13. CASE Offered(e) /\ Advance(a, CheckOf(stage), journal.next) /\ UNCHANGED <<pending, cursor, acked, abandoned>>
  <2>1. PICK m \in Nat : m = journal.next
    BY DEF RelayInv, StreamInv
  <2>2. PICK step \in {"check_partial", "check_final"} :
           step = CheckOf(stage) /\ (step = "check_final" => stage = "final")
    BY Zenon DEF CheckOf, Stages
  <2>3. Advance(a, step, m)
    BY <1>13, <2>1, <2>2, Zenon DEF Advance
  <2> QED
    BY <1>1, <1>2, <1>5, <1>13, <2>2, <2>3, AdvanceKeeps, Zenon
<1>14. CASE Offered(e) /\ Reject(a)
  BY <1>1, <1>2, <1>5, <1>14, RejectKeeps, Zenon
<1> QED
  BY <1>7, <1>8, <1>9, <1>10, <1>11, <1>12, <1>13, <1>14, Zenon

(* The adapter looks up whether a stage it could not append is stored        *)
(* already.                                                                  *)
LEMMA CheckKeeps ==
  ASSUME RelayInv, NEW a \in Adapters, NEW stage \in Stages, Check(a, stage)
  PROVE  RelayInv'
<1>1. job[a] \in Jobs /\ UNCHANGED <<world, journal, state, stream>>
  BY DEF Check, CheckOf, Stages, RelayInv, JobInv, NoJob, conversation
<1>2. PICK d \in Deliveries : d = job[a].d
  BY <1>1, Zenon DEF Jobs
<1>3. StreamInv' /\ Grows /\ OpensOnly(TurnOf(d))
  BY <1>1, StreamKept, Zenon DEF RelayInv, Grows, OpensOnly
<1>4. CASE Queue(a)
  BY <1>1, <1>2, <1>3, <1>4, QueueKeeps, Zenon
<1>5. CASE Raise(a)
  BY <1>1, <1>5, RaiseKeeps, Zenon DEF conversation
<1>6. CASE Stored(d, stage) # {} /\ VerifyReplay(d, stage) /\ Staged(a, stage, job[a].seq)
  <2>1. HasStage(d, stage)
    BY <1>6, StoredFacts, Zenon DEF RelayInv
  <2>2. stage = "final" => HasStage(d, "partial")
    BY <1>2, Zenon DEF Check, CheckOf, RelayInv, JobInv
  <2>3. HasStage(d, "partial")' /\ (stage = "final" => HasStage(d, "final")')
    BY <1>3, <2>1, <2>2, GrowsKeeps, Zenon DEF Stages
  <2>4. PICK n \in Nat : n = job[a].seq
    BY <1>1, Zenon DEF Jobs
  <2> QED
    BY <1>1, <1>2, <1>3, <1>6, <2>3, <2>4, StagedKeeps, Zenon
<1> QED
  BY <1>2, <1>4, <1>5, <1>6, Zenon DEF Check

(* What happens outside the adapters leaves their deliveries where they    *)
(* are.                                                                    *)
LEMMA OutsideKeeps ==
  ASSUME RelayInv, StreamInv', Grows, UNCHANGED <<world, pending, job, acked, abandoned>>,
         NEW turn, OpensOnly(turn), \A d \in Deliveries : TurnOf(d) # turn
  PROVE  RelayInv'
<1>1. Deliveries' = Deliveries /\ Adapters' = Adapters /\ Jobs' = Jobs
  BY DEF Deliveries, Adapters, Jobs
<1>2. ASSUME NEW b \in Adapters, job'[b].step \in {"final", "check_final"}
      PROVE  HasStage(job[b].d, "partial")'
  <2>1. PICK i \in DOMAIN stream : stream[i] = EventOf(job[b].d, "partial", i)
    BY <1>2, Zenon DEF RelayInv, JobInv, HasStage, StageIn
  <2>2. i \in DOMAIN stream' /\ stream'[i] = EventOf(job'[b].d, "partial", i)
    BY <2>1, Zenon DEF Grows
  <2> QED
    BY <2>2, Zenon DEF HasStage, StageIn, EventOf, EventId, TurnOf
<1>3. JobInv'
  BY <1>1, <1>2, Zenon DEF RelayInv, JobInv
<1>4. AcknowledgedIsStored'
  BY GrowsKeeps, Zenon DEF RelayInv
<1> DEFINE none == {}
<1>5. \A t : t \notin none
  BY Zenon
<1> HIDE DEF none
<1>6. \A b \in Adapters : \A x \in Held(b) : x \in Held(b)' \/ TurnOf(x) \in none
  BY Zenon DEF Held
<1>7. \A t : Explained(t) => Explained(t)' \/ t \in none
  BY <1>6, HeldKeeps, Zenon
<1>8. \A d \in Deliveries : journal'.open = TurnOf(d) => journal.open = TurnOf(d) \/ TurnOf(d) \in none
  BY Zenon DEF OpensOnly
<1>9. \A t \in none : journal'.open = t => Explained(t)'
  BY <1>5, Zenon
<1>10. ExplainInv'
  BY <1>7, <1>8, <1>9, ExplainKeeps, Zenon DEF RelayInv
<1> QED
  BY <1>3, <1>4, <1>10, Zenon DEF RelayInv

(* Another client of the relay offers an event.                              *)
LEMMA OfferKeeps ==
  ASSUME RelayInv, NEW e \in world.offers, Offer(e)
  PROVE  RelayInv'
<1>1. e \in Events /\ Offered(e) /\ UNCHANGED <<world, pending, job, acked, abandoned>>
  BY Zenon DEF Offer, Events, adapters
<1>2. StreamInv' /\ Grows /\ OpensOnly(e.turn)
  BY <1>1, OfferedKeeps, OfferedGrows, OfferedOpens, Zenon DEF RelayInv
<1>3. \A d \in Deliveries : TurnOf(d) # e.turn
  BY WorldsAssumption DEF Deliveries, Adapters, RelayInv, StreamInv
<1> QED
  BY <1>1, <1>2, <1>3, OutsideKeeps, Zenon

(* Enrolling and revoking identities touch no stream and no delivery.        *)
LEMMA RegistryKeeps ==
  ASSUME RelayInv, UNCHANGED <<world, conversation, adapters>>
  PROVE  RelayInv'
<1>1. UNCHANGED <<world, journal, state, stream, pending, job, acked, abandoned>>
  BY Zenon DEF conversation, adapters
<1>2. StreamInv' /\ Grows /\ OpensOnly(NoTurn)
  BY <1>1, StreamKept, Zenon DEF RelayInv, Grows, OpensOnly
<1>3. \A d \in Deliveries : TurnOf(d) # NoTurn
  BY WorldsAssumption, Zenon DEF Deliveries, Adapters, RelayInv, StreamInv
<1> QED
  BY <1>1, <1>2, <1>3, OutsideKeeps, Zenon

(* A call into an adapter: nothing is let go of that is not given up.      *)
LEMMA AdapterKeeps ==
  ASSUME RelayInv, UNCHANGED <<world, conversation, acked>>, NEW a \in Adapters, NEW gone,
         NEW j \in Jobs \cup {NoJob}, NEW q \in Seq(Deliveries),
         job' = [job EXCEPT ![a] = j], pending' = [pending EXCEPT ![a] = q],
         j.step \notin {"final", "check_final"},
         abandoned' = abandoned \cup gone,
         \A d \in Held(a) : d \in Range(q) \cup (IF j = NoJob THEN {} ELSE {j.d}) \/ TurnOf(d) \in gone
  PROVE  RelayInv'
<1>0. /\ Deliveries' = Deliveries /\ Adapters' = Adapters /\ Jobs' = Jobs
      /\ UNCHANGED <<journal, stream>>
  BY Zenon DEF Deliveries, Adapters, Jobs, conversation
<1>1. StreamInv' /\ Grows
  BY <1>0, StreamKept, Zenon DEF RelayInv, Grows
<1>2. /\ job' \in [Adapters -> Jobs \cup {NoJob}] /\ job'[a] = j
      /\ pending' \in [Adapters -> Seq(Deliveries)] /\ pending'[a] = q
      /\ \A b \in Adapters \ {a} : job'[b] = job[b] /\ pending'[b] = pending[b]
  BY Zenon DEF RelayInv, JobInv
<1>3. ASSUME NEW b \in Adapters, job'[b].step \in {"final", "check_final"}
      PROVE  HasStage(job[b].d, "partial")'
  <2>1. job'[b] = job[b]
    BY <1>2, <1>3, Zenon
  <2>2. PICK i \in DOMAIN stream : stream[i] = EventOf(job[b].d, "partial", i)
    BY <1>3, <2>1, Zenon DEF RelayInv, JobInv, HasStage, StageIn
  <2>3. i \in DOMAIN stream' /\ stream'[i] = EventOf(job'[b].d, "partial", i)
    BY <2>1, <2>2, <1>1, Zenon DEF Grows
  <2> QED
    BY <2>3, Zenon DEF HasStage, StageIn, EventOf, EventId, TurnOf
<1>4. JobInv'
  BY <1>0, <1>2, <1>3, Zenon DEF RelayInv, JobInv
<1>5. AcknowledgedIsStored'
  BY <1>1, GrowsKeeps, Zenon DEF RelayInv
<1>6. \A b \in Adapters : \A d \in Held(b) : d \in Held(b)' \/ TurnOf(d) \in gone
  BY <1>2, Zenon DEF Held
<1>7. \A turn : Explained(turn) => Explained(turn)' \/ turn \in gone
  BY <1>6, HeldKeeps, Zenon
<1>8. \A turn \in gone : Explained(turn)'
  BY Zenon DEF Explained
<1>9. ExplainInv'
  BY <1>0, <1>7, <1>8, ExplainKeeps, Zenon DEF RelayInv
<1> QED
  BY <1>1, <1>4, <1>5, <1>9, Zenon DEF RelayInv

(* A delivery arrives from the channel.                                      *)
LEMMA ReceiveKeeps ==
  ASSUME RelayInv, NEW a \in Adapters, NEW d \in world.adapters[a].deliveries, Receive(a, d)
  PROVE  RelayInv'
<1>1. /\ job \in [Adapters -> Jobs \cup {NoJob}] /\ pending \in [Adapters -> Seq(Deliveries)]
      /\ d \in Deliveries /\ job[a] = NoJob /\ NoJob.step = "idle"
  BY ZenonT(30) DEF Receive, RelayInv, JobInv, Deliveries, NoJob
<1> DEFINE s == Started(d, << >>, "receive")
<1>2. s \in Jobs /\ s.step = "read"
  <2>1. s = [step |-> "read", d |-> d, seq |-> 0, tries |-> 0, flush |-> << >>, via |-> "receive"]
    BY Zenon DEF Started
  <2>2. d \in Deliveries /\ << >> \in Seq(Deliveries)
    BY <1>1
  <2> HIDE DEF s
  <2> QED
    BY <2>1, <2>2, Zenon DEF Jobs
<1> HIDE DEF s
<1>3. PICK j \in {NoJob, s} : job' = [job EXCEPT ![a] = j]
  BY <1>1, ZenonT(30) DEF Receive, s
<1>4. pending' = [pending EXCEPT ![a] = pending[a]] /\ pending[a] \in Seq(Deliveries)
  BY <1>1, Zenon DEF Receive
<1>5. abandoned' = abandoned \cup {} /\ UNCHANGED <<world, conversation, acked>>
  BY Zenon DEF Receive
<1>6. \A x \in Held(a) : x \in Range(pending[a])
  BY <1>1, Zenon DEF Held
<1>7. j \in Jobs \cup {NoJob} /\ j.step \notin {"final", "check_final"}
  BY <1>1, <1>2, Zenon
<1> QED
  BY <1>3, <1>4, <1>5, <1>6, <1>7, AdapterKeeps, Zenon

(* The adapter flushes its queue.                                            *)
LEMMA ReconnectKeeps ==
  ASSUME RelayInv, NEW a \in Adapters, Reconnect(a)
  PROVE  RelayInv'
<1> DEFINE q == pending[a]
           j == Started(Head(q), Tail(q), "flush")
<1>1. /\ pending \in [Adapters -> Seq(Deliveries)] /\ q \in Seq(Deliveries)
      /\ job[a] = NoJob /\ q # << >>
  BY Zenon DEF Reconnect, RelayInv, JobInv
<1>2. Head(q) \in Deliveries /\ Tail(q) \in Seq(Deliveries)
  BY <1>1, SMTT(30)
<1>3. j \in Jobs /\ j.step = "read" /\ j.d = Head(q) /\ j # NoJob
  BY <1>2, Zenon DEF Started, Jobs, NoJob
<1>4. ASSUME NEW x \in Range(q)
      PROVE  x \in Range(Tail(q)) \/ x = Head(q)
  <2>1. PICK i \in 1..Len(q) : q[i] = x
    BY <1>1 DEF Range
  <2>2. CASE i = 1
    BY <1>1, <2>1, <2>2
  <2>3. CASE i # 1
    <3>1. i - 1 \in DOMAIN Tail(q) /\ Tail(q)[i - 1] = q[i]
      BY <1>1, <2>1, <2>3
    <3> QED
      BY <2>1, <3>1, Zenon DEF Range
  <2> QED
    BY <2>2, <2>3, Zenon
<1>5. \A x \in Held(a) : x \in Range(q)
  BY <1>1, Zenon DEF Held
<1>6. /\ job' = [job EXCEPT ![a] = j] /\ pending' = [pending EXCEPT ![a] = Tail(q)]
      /\ abandoned' = abandoned \cup {} /\ UNCHANGED <<world, conversation, acked>>
  BY <1>1, Zenon DEF Reconnect
<1> HIDE DEF q, j
<1> QED
  BY <1>2, <1>3, <1>4, <1>5, <1>6, AdapterKeeps, Zenon

(* The adapter restarts without what it held in memory.                      *)
LEMMA RestartKeeps ==
  ASSUME RelayInv, NEW a \in Adapters, Restart(a)
  PROVE  RelayInv'
<1> DEFINE gone == {TurnOf(d) : d \in Range(pending[a])}
                     \cup (IF job[a] = NoJob THEN {} ELSE {TurnOf(job[a].d)})
<1>1. << >> \in Seq(Deliveries) /\ NoJob.step = "idle"
  BY DEF NoJob
<1>2. \A d \in Held(a) : TurnOf(d) \in gone
  BY Zenon DEF Held
<1>3. /\ job' = [job EXCEPT ![a] = NoJob] /\ pending' = [pending EXCEPT ![a] = << >>]
      /\ abandoned' = abandoned \cup gone /\ UNCHANGED <<world, conversation, acked>>
  BY Zenon DEF Restart
<1> HIDE DEF gone
<1> QED
  BY <1>1, <1>2, <1>3, AdapterKeeps, Zenon

-----------------------------------------------------------------------------

(* RelayInv holds at first.                                                  *)
LEMMA RelayInvInit ==
  ASSUME Init
  PROVE  RelayInv
<1>1. world \in Worlds /\ stream = << >> /\ journal = NewJournal /\ acked = {}
  BY Zenon DEF Init
<1>2. journal.next = 1 /\ journal.seen = {} /\ journal.open = NoTurn
  BY <1>1, Zenon DEF NewJournal
<1>3. \A d \in Deliveries : TurnOf(d) # NoTurn
  BY <1>1, WorldsAssumption, Zenon DEF Deliveries, Adapters
<1>4. stream \in Seq(Events) /\ Len(stream) = 0 /\ DOMAIN stream = {}
  BY <1>1
<1>5. StreamInv
  BY <1>1, <1>2, <1>3, <1>4 DEF StreamInv, UniqueIds, FinalCloses
<1>6. NoJob.step = "idle"
  BY Zenon DEF NoJob
<1>7. JobInv
  BY <1>6, SMTT(30) DEF Init, JobInv
<1>8. ExplainInv /\ AcknowledgedIsStored
  BY <1>1, <1>2, <1>3, Zenon DEF ExplainInv, AcknowledgedIsStored
<1> QED
  BY <1>5, <1>7, <1>8, Zenon DEF RelayInv

(* Every step of the relay and of its adapters keeps RelayInv.               *)
LEMMA RelayInvNext ==
  ASSUME RelayInv, [Next]_vars
  PROVE  RelayInv'
<1>1. ASSUME NEW b \in Bindings, NEW c, Enroll(b, c)
      PROVE  RelayInv'
  BY <1>1, RegistryKeeps, Zenon DEF Enroll
<1>2. ASSUME NEW b \in Bindings, Revoke(b)
      PROVE  RelayInv'
  BY <1>2, RegistryKeeps, Zenon DEF Revoke
<1>3. ASSUME NEW device, RevokeDevice(device)
      PROVE  RelayInv'
  BY <1>3, RegistryKeeps, Zenon DEF RevokeDevice
<1>4. CASE UNCHANGED vars
  BY <1>4, RegistryKeeps, Zenon DEF vars
<1> QED
  BY <1>1, <1>2, <1>3, <1>4, OfferKeeps, ReceiveKeeps, ReconnectKeeps, RestartKeeps, ReadKeeps,
     AppendKeeps, CheckKeeps, Zenon DEF Next, Stages

(* An answer "accepted" or "duplicate" (channels/relay.py, _deliver) means *)
(* what it says, through every restart, lost call and competing worker:    *)
(* the partial of the delivery and, behind it, its final are in the stream.*)
THEOREM AcknowledgedStaysStored == Spec => []AcknowledgedIsStored
<1>1. Init => RelayInv
  BY RelayInvInit, Zenon
<1>2. RelayInv /\ [Next]_vars => RelayInv'
  BY RelayInvNext, Zenon
<1>3. RelayInv => AcknowledgedIsStored
  BY Zenon DEF RelayInv
<1> QED
  BY <1>1, <1>2, <1>3, PTL DEF Spec

(* RelayInv explains every open turn.                                        *)
LEMMA ExplainIsEnough ==
  ASSUME RelayInv
  PROVE  OpenTurnExplained
<1>1. SUFFICES ASSUME NEW e \in Range(stream), e.device = "bridge", e.turn = journal.open
               PROVE  Explained(e.turn)
  BY Zenon DEF OpenTurnExplained, Explained
<1>2. e \in Events /\ world \in Worlds
  BY DEF RelayInv, StreamInv, Range
<1>3. PICK d \in Deliveries, stage \in Stages, n \in Nat : e = EventOf(d, stage, n)
  BY <1>1, <1>2, EventFacts, Zenon
<1>4. e.turn = TurnOf(d)
  BY <1>3, Zenon DEF EventOf
<1> QED
  BY <1>1, <1>4, Zenon DEF RelayInv, ExplainInv

(* A channel's turn that blocks the conversation is one some adapter still *)
(* holds, in its queue or under way, or one whose delivery was given up.   *)
THEOREM OpenTurnIsExplained == Spec => []OpenTurnExplained
<1>1. Init => RelayInv
  BY RelayInvInit
<1>2. RelayInv /\ [Next]_vars => RelayInv'
  BY RelayInvNext
<1>3. RelayInv => OpenTurnExplained
  BY ExplainIsEnough, Zenon
<1> QED
  BY <1>1, <1>2, <1>3, PTL DEF Spec

-----------------------------------------------------------------------------
(* The gate.  The open turn was opened by a partial or a resume, and       *)
(* nothing closed or resumed a turn since; the cancelled turn is that of   *)
(* the last cancellation, and no resume came after it.                     *)
OpenedAt(s, turn, n) ==
  \E k \in 1 .. n : /\ s[k].tag \in {"transcript_partial", "resume"} /\ s[k].turn = turn
                    /\ \A m \in k + 1 .. n : ~Closes(s[m]) /\ s[m].tag # "resume"

CancelledAt(s, turn, n) ==
  \E k \in 1 .. n : /\ s[k].tag = "cancellation" /\ s[k].turn = turn
                    /\ \A m \in k + 1 .. n : s[m].tag \notin {"cancellation", "resume"}

GateInv ==
  /\ journal.open # NoTurn => OpenedAt(stream, journal.open, Len(stream))
  /\ journal.cancelled # NoTurn => CancelledAt(stream, journal.cancelled, Len(stream))
  /\ \A i \in DOMAIN stream : stream[i].tag = "transcript_final" => OpenedAt(stream, stream[i].turn, i - 1)
  /\ \A i \in DOMAIN stream : stream[i].tag = "resume" => CancelledAt(stream, stream[i].from, i - 1)

(* Both look only at the events up to n.                                   *)
LEMMA EarlierEvents ==
  ASSUME NEW s, NEW r, NEW n \in Nat, \A i \in 1 .. n : s[i] = r[i]
  PROVE  \A turn : /\ OpenedAt(s, turn, n) => OpenedAt(r, turn, n)
                   /\ CancelledAt(s, turn, n) => CancelledAt(r, turn, n)
<1>1. \A k \in 1 .. n : \A m \in k + 1 .. n : m \in 1 .. n
  OBVIOUS
<1>2. \A turn : OpenedAt(s, turn, n) => OpenedAt(r, turn, n)
  BY <1>1 DEF OpenedAt, Closes
<1>3. \A turn : CancelledAt(s, turn, n) => CancelledAt(r, turn, n)
  BY <1>1 DEF CancelledAt
<1> QED
  BY <1>2, <1>3, Zenon

(* An event that is offered keeps GateInv, stored or refused.                *)
LEMMA OfferedKeepsGate ==
  ASSUME StreamInv, GateInv, NEW e \in Events, Offered(e)
  PROVE  GateInv'
<1>1. CASE Rejection(journal, state, e) # NoRejection
  <2>1. journal' = journal /\ stream' = stream
    BY <1>1, Zenon DEF Offered, Accept
  <2> QED
    BY <2>1 DEF GateInv, OpenedAt, CancelledAt, Closes
<1>2. CASE Rejection(journal, state, e) = NoRejection
  <2> DEFINE l == Len(stream)
             n == l + 1
  <2>1. stream \in Seq(Events) /\ l \in Nat /\ DOMAIN stream = 1 .. l
    <3>1. stream \in Seq(Events)
      BY Zenon DEF StreamInv
    <3> QED
      BY <3>1, Positions, Zenon
  <2>2. stream' = Append(stream, e) /\ journal' = Accept(journal, state, e)
    BY <1>2, Zenon DEF Offered
  <2>3. /\ Len(stream') = n /\ DOMAIN stream' = 1 .. n /\ stream'[n] = e
        /\ \A i \in 1 .. l : stream'[i] = stream[i]
    BY <2>1, <2>2
  <2>4. /\ e.tag = "transcript_final" => journal.open # NoTurn /\ e.turn = journal.open
        /\ e.tag = "resume" => journal.cancelled # NoTurn /\ e.from = journal.cancelled
    BY <1>2, AcceptedFacts, Zenon DEF Transcript
  <2>5. journal'.open = OpenAfter(journal, e) /\ journal'.cancelled = CancelledAfter(journal, e)
    BY <1>2, <2>2, AcceptEffect
  <2> HIDE DEF l
  <2>6. /\ journal.open # NoTurn => OpenedAt(stream', journal.open, l)
        /\ journal.cancelled # NoTurn => CancelledAt(stream', journal.cancelled, l)
    BY <2>1, <2>3, EarlierEvents, ZenonT(30) DEF GateInv, l
  <2>7. ASSUME NEW i \in 1 .. l
        PROVE  /\ stream'[i].tag = "transcript_final" => OpenedAt(stream', stream'[i].turn, i - 1)
               /\ stream'[i].tag = "resume" => CancelledAt(stream', stream'[i].from, i - 1)
    <3>1. i - 1 \in Nat /\ \A m \in 1 .. i - 1 : stream[m] = stream'[m]
      BY <2>1, <2>3, SMTT(30)
    <3>2. stream'[i] = stream[i] /\ i \in DOMAIN stream
      BY <2>1, <2>3, Zenon
    <3>3. stream[i].tag = "transcript_final" => OpenedAt(stream, stream[i].turn, i - 1)
      BY <3>2, Zenon DEF GateInv
    <3>4. stream[i].tag = "resume" => CancelledAt(stream, stream[i].from, i - 1)
      BY <3>2, Zenon DEF GateInv
    <3> QED
      BY <3>1, <3>2, <3>3, <3>4, EarlierEvents, Zenon
  <2>8. n - 1 = l
    BY <2>1
  <2>9. \A i \in 1 .. n : /\ stream'[i].tag = "transcript_final" => OpenedAt(stream', stream'[i].turn, i - 1)
                          /\ stream'[i].tag = "resume" => CancelledAt(stream', stream'[i].from, i - 1)
    <3>1. /\ stream'[n].tag = "transcript_final" => OpenedAt(stream', stream'[n].turn, n - 1)
          /\ stream'[n].tag = "resume" => CancelledAt(stream', stream'[n].from, n - 1)
      BY <2>3, <2>4, <2>6, <2>8, Zenon
    <3>2. \A i \in 1 .. n : i \in 1 .. l \/ i = n
      BY <2>1
    <3> QED
      BY <2>7, <3>1, <3>2, Zenon
  <2>10. journal'.open # NoTurn => OpenedAt(stream', journal'.open, n)
    <3>1. CASE e.tag \in {"transcript_partial", "resume"}
      <4>1. journal'.open = e.turn
        BY <2>5, <3>1, OpenAfterFacts, Zenon
      <4>2. n \in 1 .. n /\ \A m \in n + 1 .. n : FALSE
        BY <2>1, SMTT(30)
      <4> QED
        BY <2>3, <3>1, <4>1, <4>2, Zenon DEF OpenedAt
    <3>2. CASE Closes(e)
      BY <2>5, <3>2, OpenAfterFacts, Zenon DEF Closes
    <3>3. CASE e.tag \notin {"transcript_partial", "resume"} /\ ~Closes(e)
      <4>1. journal'.open = journal.open
        BY <2>5, <3>3, OpenAfterFacts, Zenon DEF Closes
      <4>2. \A k \in 1 .. l : k \in 1 .. n /\ \A m \in k + 1 .. n : m \in k + 1 .. l \/ m = n
        BY <2>1
      <4> QED
        BY <2>3, <2>6, <3>3, <4>1, <4>2, Zenon DEF OpenedAt
    <3> QED
      BY <3>1, <3>2, <3>3, Zenon
  <2>11. journal'.cancelled # NoTurn => CancelledAt(stream', journal'.cancelled, n)
    <3>1. CASE e.tag = "cancellation"
      <4>1. journal'.cancelled = e.turn
        BY <2>5, <3>1, CancelledAfterFacts, Zenon
      <4>2. n \in 1 .. n /\ \A m \in n + 1 .. n : FALSE
        BY <2>1
      <4> QED
        BY <2>3, <3>1, <4>1, <4>2, Zenon DEF CancelledAt
    <3>2. CASE e.tag = "resume"
      BY <2>5, <3>2, CancelledAfterFacts, Zenon
    <3>3. CASE e.tag \notin {"cancellation", "resume"}
      <4>1. journal'.cancelled = journal.cancelled
        BY <2>5, <3>3, CancelledAfterFacts, Zenon
      <4>2. \A k \in 1 .. l : k \in 1 .. n /\ \A m \in k + 1 .. n : m \in k + 1 .. l \/ m = n
        BY <2>1
      <4> QED
        BY <2>3, <2>6, <3>3, <4>1, <4>2, Zenon DEF CancelledAt
    <3> QED
      BY <3>1, <3>2, <3>3, Zenon
  <2> HIDE DEF n
  <2> QED
    BY <2>3, <2>9, <2>10, <2>11, Zenon DEF GateInv, OpenedAt, CancelledAt, Closes
<1> QED
  BY <1>1, <1>2, Zenon

(* A step leaves the conversation alone, or offers it one event: another   *)
(* device's, or an adapter's whose sender resolves at that moment.         *)
Offering(e) ==
  /\ e \in Events /\ Offered(e) /\ UNCHANGED world
  /\ e.device = "bridge" => \E b \in Bindings : bindings[b] = "active" /\ world.external[b] = e.id[1]

(* A step that changes the conversation offers one event to the gate.        *)
LEMMA StepOffers ==
  ASSUME RelayInv, [Next]_vars
  PROVE  UNCHANGED conversation \/ \E e \in Events : Offering(e)
<1>1. ASSUME NEW e \in world.offers, Offer(e)
      PROVE  e \in Events /\ Offering(e)
  BY <1>1, WorldsAssumption, Zenon DEF Offer, Offering, Events, RelayInv, StreamInv
<1>2. ASSUME NEW a \in Adapters, AppendStage(a)
      PROVE  UNCHANGED conversation \/ \E e \in Events : Offering(e)
  <2> DEFINE d == job[a].d
             e == EventOf(d, job[a].step, job[a].seq)
  <2>1. job[a].step \in Stages /\ job[a] \in Jobs /\ UNCHANGED world
    BY <1>2 DEF AppendStage, Stages, RelayInv, JobInv, NoJob
  <2>2. e \in Events
    <3>1. d \in Deliveries /\ job[a].seq \in Nat
      BY <2>1, Zenon DEF Jobs
    <3> QED
      BY <2>1, <3>1 DEF Events, Forwarded
  <2>3. UNCHANGED conversation \/ (Resolves(a, d) /\ Offered(e))
    BY <1>2, Zenon DEF AppendStage
  <2>4. ASSUME Resolves(a, d)
        PROVE  \E b \in Bindings : bindings[b] = "active" /\ world.external[b] = e.id[1]
    <3>1. world.adapters[a].binding \in Bindings
      BY WorldsAssumption, Zenon DEF Adapters, Bindings, RelayInv, StreamInv
    <3>2. e.id[1] = d.external
      BY Zenon DEF EventOf, EventId
    <3> QED
      BY <2>4, <3>1, <3>2, Zenon DEF Resolves
  <2> HIDE DEF e, d
  <2> QED
    BY <2>1, <2>2, <2>3, <2>4, Zenon DEF Offering
<1>3. ASSUME NEW b \in Bindings, NEW c, Enroll(b, c) \/ Revoke(b)
      PROVE  UNCHANGED conversation
  BY <1>3, Zenon DEF Enroll, Revoke
<1>4. ASSUME NEW device, RevokeDevice(device)
      PROVE  UNCHANGED conversation
  BY <1>4, Zenon DEF RevokeDevice
<1>5. ASSUME NEW a \in Adapters,
             \/ \E d \in world.adapters[a].deliveries : Receive(a, d)
             \/ Reconnect(a) \/ Restart(a) \/ Read(a)
             \/ \E stage \in {"partial", "final"} : Check(a, stage)
      PROVE  UNCHANGED conversation
  BY <1>5, Zenon DEF Receive, Reconnect, Restart, Read, Check
<1>6. CASE UNCHANGED vars
  BY <1>6, Zenon DEF vars
<1> QED
  BY <1>1, <1>2, <1>3, <1>4, <1>5, <1>6, ZenonT(30) DEF Next

(* GateInv holds at first.                                                   *)
LEMMA GateInvInit ==
  ASSUME Init
  PROVE  GateInv
<1>1. stream = << >> /\ journal.open = NoTurn /\ journal.cancelled = NoTurn
  BY Zenon DEF Init, NewJournal
<1> QED
  BY <1>1 DEF GateInv

(* Every step keeps GateInv.                                                 *)
LEMMA GateInvNext ==
  ASSUME RelayInv, GateInv, [Next]_vars
  PROVE  GateInv'
<1>1. CASE UNCHANGED conversation
  BY <1>1 DEF conversation, GateInv, OpenedAt, CancelledAt, Closes
<1>2. ASSUME NEW e \in Events, Offering(e)
      PROVE  GateInv'
  BY <1>2, OfferedKeepsGate, Zenon DEF RelayInv, Offering
<1> QED
  BY <1>1, <1>2, StepOffers, Zenon

(* Every accepted final ends a turn that a partial or a resume opened, and *)
(* nothing closed or replaced it in between (conversation_api.py, the gate *)
(* remembers one open turn only).                                          *)
THEOREM FinalEndsTheOpenTurn == Spec => []FinalEndsItsTurn
<1>1. Init => RelayInv /\ GateInv
  BY RelayInvInit, GateInvInit, Zenon
<1>2. RelayInv /\ GateInv /\ [Next]_vars => RelayInv' /\ GateInv'
  BY RelayInvNext, GateInvNext, Zenon
<1>3. GateInv => FinalEndsItsTurn
  BY Zenon DEF GateInv, OpenedAt, FinalEndsItsTurn
<1> QED
  BY <1>1, <1>2, <1>3, PTL DEF Spec

(* Every accepted resume names the last cancellation before it, and that   *)
(* cancellation was not resumed yet.                                       *)
THEOREM ResumesOnce == Spec => []ResumedOnce
<1>1. Init => RelayInv /\ GateInv
  BY RelayInvInit, GateInvInit
<1>2. RelayInv /\ GateInv /\ [Next]_vars => RelayInv' /\ GateInv'
  BY RelayInvNext, GateInvNext
<1>3. GateInv => ResumedOnce
  BY Zenon DEF GateInv, CancelledAt, ResumedOnce
<1> QED
  BY <1>1, <1>2, <1>3, PTL DEF Spec

-----------------------------------------------------------------------------
(* The registry.  An external identity was used by at most one binding,    *)
(* and a barred one by a binding that stays revoked.                       *)
RegistryInv ==
  /\ world \in Worlds
  /\ bindings \in [Bindings -> {"none", "active", "revoked"}]
  /\ \A b \in Bindings : bindings[b] # "none" => world.external[b] \in usedExternal
  /\ \A b, c \in Bindings : bindings[b] # "none" /\ bindings[c] # "none"
                              /\ world.external[b] = world.external[c] => b = c
  /\ \A x \in barred : \E b \in Bindings : bindings[b] = "revoked" /\ world.external[b] = x

(* Every step keeps RegistryInv.                                             *)
LEMMA RegistryInvNext ==
  ASSUME RegistryInv, [Next]_vars
  PROVE  RegistryInv'
<1>0. UNCHANGED world /\ Bindings' = Bindings
  BY Zenon DEF Next, Enroll, Revoke, RevokeDevice, Offer, Receive, Reconnect, Restart, Read,
     AppendStage, Check,
         vars, Bindings
<1>1. ASSUME NEW b \in Bindings, NEW c, Enroll(b, c)
      PROVE  RegistryInv'
  BY <1>0, <1>1, SMTT(30) DEF Enroll, Unused, RegistryInv
<1>2. ASSUME NEW b \in Bindings, Revoke(b)
      PROVE  RegistryInv'
  BY <1>0, <1>2 DEF Revoke, RegistryInv
<1>3. CASE UNCHANGED <<bindings, usedExternal, barred>>
  BY <1>0, <1>3, Zenon DEF RegistryInv
<1> QED
  BY <1>1, <1>2, <1>3, Zenon DEF Next, RevokeDevice, Offer, Receive, Reconnect, Restart, Read,
     AppendStage, Check,
         registry, vars

(* No step stores an event of an identity that was revoked.                  *)
LEMMA RevokedStep ==
  ASSUME RelayInv, RegistryInv, [Next]_vars
  PROVE  [\A i \in DOMAIN stream' \ DOMAIN stream :
            stream'[i].device = "bridge" => stream'[i].id[1] \notin barred]_vars
<1>1. CASE UNCHANGED conversation
  BY <1>1, Zenon DEF conversation
<1>2. ASSUME NEW e \in Events, Offering(e), NEW i \in DOMAIN stream' \ DOMAIN stream,
             stream'[i].device = "bridge"
      PROVE  stream'[i].id[1] \notin barred
  <2>1. stream'[i] = e
    <3>1. stream \in Seq(Events) /\ stream' \in {stream, Append(stream, e)}
      BY <1>2, Zenon DEF Offering, Offered, RelayInv, StreamInv
    <3> QED
      BY <1>2, <3>1
  <2>2. PICK b \in Bindings : bindings[b] = "active" /\ world.external[b] = e.id[1]
    BY <1>2, <2>1, Zenon DEF Offering
  <2> QED
    BY <2>1, <2>2 DEF RegistryInv
<1> QED
  BY <1>1, <1>2, StepOffers, Zenon

(* Once the owner revoked an external identity nothing from it enters the  *)
(* conversation again: no delivery under way or queued, and none under a   *)
(* new binding (openclaw/bindings.py, enroll and resolve).                 *)
THEOREM RevokedIdentityStaysOut == Spec => RevokedStaysOut
<1>1. Init => RelayInv /\ RegistryInv
  <2>1. Init => RegistryInv
    BY Zenon DEF Init, RegistryInv
  <2> QED
    BY <2>1, RelayInvInit, Zenon
<1>2. RelayInv /\ RegistryInv /\ [Next]_vars => RelayInv' /\ RegistryInv'
  BY RelayInvNext, RegistryInvNext, Zenon
<1>3. RelayInv /\ RegistryInv /\ [Next]_vars =>
        [\A i \in DOMAIN stream' \ DOMAIN stream :
            stream'[i].device = "bridge" => stream'[i].id[1] \notin barred]_vars
  BY RevokedStep, Zenon
<1> QED
  BY <1>1, <1>2, <1>3, PTL DEF Spec, RevokedStaysOut
=============================================================================
