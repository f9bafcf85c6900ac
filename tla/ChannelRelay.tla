---------------------------- MODULE ChannelRelay ----------------------------
(***************************************************************************)
(* Text channels (channels/): Telegram and web chat adapters forward       *)
(* messages through the OpenClaw boundary (openclaw/) into one             *)
(* conversation's journal, beside other devices that write to it.          *)
(*                                                                         *)
(* An adapter object handles one call at a time; every call it makes       *)
(* across the boundary is a step of its own, so the other adapters and     *)
(* devices come in between.  A call may be lost before or after it took    *)
(* effect.  A restarted adapter loses its queue and keeps the cursor its   *)
(* caller stored.                                                          *)
(*                                                                         *)
(* A delivery is its id, the external identity it came from (channel,      *)
(* chat and user in one value) and its text.                               *)
(***************************************************************************)
EXTENDS ConversationJournal, Sequences, FiniteSets, Functions

CONSTANTS
  Worlds        \* the adapters, bindings, messages, events and bounds to explore

VARIABLES
  world,        \* never changes
  journal,      \* the conversation's gate
  state,        \* conversation.state
  stream,       \* the accepted events, in order
  active,       \* enrolled devices that are not revoked
  bindings,     \* binding id -> "none", "active" or "revoked"
  usedExternal, \* _used_external_identities
  pending,      \* adapter -> deliveries waiting for the connection, in order
  cursor,       \* adapter -> last_update_id, 0 for none
  job,          \* adapter -> the delivery being forwarded, or NoJob
  faults,       \* number of lost calls and restarts
  acked,        \* history: <<adapter, delivery>> answered accepted or duplicate
  abandoned,    \* history: turns whose delivery an adapter gave up or lost
  barred        \* history: external identities whose binding was revoked

conversation == <<journal, state, stream>>
registry == <<active, bindings, usedExternal, barred>>
adapters == <<pending, cursor, job, acked, abandoned>>
vars == <<world, conversation, registry, adapters, faults>>

Adapters == DOMAIN world.adapters
Bindings == DOMAIN world.external

MaxSequenceRebaseAttempts == 3

NoJob == [step |-> "idle"]

Init ==
  /\ world \in Worlds
  /\ journal = NewJournal /\ stream = << >> /\ state \in world.states
  /\ active = {"owner", "service"}
  /\ bindings = [b \in Bindings |-> "none"]
  /\ usedExternal = {} /\ barred = {}
  /\ pending = [a \in Adapters |-> << >>]
  /\ cursor = [a \in Adapters |-> 0]
  /\ job = [a \in Adapters |-> NoJob]
  /\ faults = 0 /\ acked = {} /\ abandoned = {}

-----------------------------------------------------------------------------
\* Identity bindings and devices.

\* enforce_consent: the owner agreed to exactly this binding.
Consents(b, consent) == consent.granted /\ consent.binding = b

\* enroll: a binding id and an external identity are used once, ever.
Unused(b) == bindings[b] = "none" /\ world.external[b] \notin usedExternal

\* ChannelBindingCoordinator.enroll, IdentityBindingRegistry.enroll.
Enroll(b, consent) ==
  /\ Consents(b, consent)
  /\ {"owner", "service"} \subseteq active
  /\ Unused(b)
  /\ bindings' = [bindings EXCEPT ![b] = "active"]
  /\ usedExternal' = usedExternal \cup {world.external[b]}
  /\ UNCHANGED <<world, conversation, active, barred, adapters, faults>>

\* IdentityBindingRegistry.revoke
Revoke(b) ==
  /\ b \in world.revocable /\ "owner" \in active /\ bindings[b] # "none"
  /\ bindings' = [bindings EXCEPT ![b] = "revoked"]
  /\ barred' = barred \cup {world.external[b]}
  /\ UNCHANGED <<world, conversation, active, usedExternal, adapters, faults>>

\* DeviceRegistry.revoke
RevokeDevice(device) ==
  /\ device \in world.revocable \cap active
  /\ active' = active \ {device}
  /\ UNCHANGED <<world, conversation, bindings, usedExternal, barred, adapters, faults>>

\* _authenticate and resolve, which every call across the boundary repeats.
Resolves(a, d) ==
  LET b == world.adapters[a].binding
  IN  /\ "service" \in active
      /\ bindings[b] = "active"
      /\ world.external[b] = d.external

-----------------------------------------------------------------------------
\* ChannelTextDelivery
Delivery(id, external, text) == [id |-> id, external |-> external, text |-> text]

\* The two events of a delivery.  Their ids derive from the external identity
\* and the delivery id alone, so a repeated delivery meets its own events.
EventId(d, stage) == <<d.external, d.id, stage>>
TurnOf(d) == <<d.external, d.id>>

\* The ids are uuids: no delivery has the turn id None, and no other device
\* writes as the bridge or under the turn id of a delivery.  An adapter is
\* built with a binding of its own.
ASSUME WorldsAssumption ==
  \A w \in Worlds :
    /\ \A e \in w.offers : e.device # "bridge"
    /\ \A a \in DOMAIN w.adapters :
         /\ w.adapters[a].binding \in DOMAIN w.external
         /\ \A d \in w.adapters[a].deliveries : TurnOf(d) # NoTurn /\ \A e \in w.offers : e.turn # TurnOf(d)

TranscriptKind(stage) == IF stage = "partial" THEN "transcript_partial" ELSE "transcript_final"

EventOf(d, stage, n) ==
  [id |-> EventId(d, stage), conversation |-> Home, participant |-> "p", device |-> "bridge",
   seq |-> n, kind |-> TranscriptKind(stage), tag |-> TranscriptKind(stage),
   turn |-> TurnOf(d), from |-> NoTurn, text |-> d.text]

\* append_event of the conversation API.
Offered(e) ==
  /\ journal' = Accept(journal, state, e)
  /\ stream' = IF Rejection(journal, state, e) = NoRejection THEN Append(stream, e) ELSE stream
  /\ UNCHANGED state

\* Another device of the conversation writes to it.
Offer(e) ==
  /\ Len(stream) < world.maxEvents
  /\ Offered(e)
  /\ UNCHANGED <<world, registry, adapters, faults>>

Stored(d, stage) == {e \in Range(stream) : e.id = EventId(d, stage)}

\* mutant: the stored event is not compared with the delivery
AnyReplay(d, stage) == TRUE

\* _verify_replay
VerifyReplay(d, stage) == \A e \in Stored(d, stage) : e = EventOf(d, stage, e.seq)

-----------------------------------------------------------------------------
\* The end of one delivery.

Started(d, flush, via) == [step |-> "read", d |-> d, seq |-> 0, tries |-> 0, flush |-> flush, via |-> via]

\* The cursor moves with every answer to a Telegram update, whatever it says.
Answered(a, d, via) ==
  IF world.adapters[a].kind = "telegram" /\ via = "receive" /\ d.id > cursor[a]
  THEN [cursor EXCEPT ![a] = d.id] ELSE cursor

\* _pending.pop: a delivery waits at most once.
Unqueued(q, d) ==
  LET i == CHOOSE i \in DOMAIN q : q[i] = d
  IN  IF d \in Range(q) THEN SubSeq(q, 1, i - 1) \o SubSeq(q, i + 1, Len(q)) ELSE q

\* receive_delivery returns; reconnect takes the next delivery of its snapshot
\* unless this one was queued again.
Settle(a, q, queued) ==
  LET j == job[a]
      more == j.flush # << >> /\ ~queued
  IN  /\ cursor' = Answered(a, j.d, j.via)
      /\ job' = [job EXCEPT ![a] = IF more THEN Started(Head(j.flush), Tail(j.flush), "flush") ELSE NoJob]
      /\ pending' = [pending EXCEPT ![a] = IF more THEN Unqueued(q, Head(j.flush)) ELSE q]

Acknowledge(a) ==
  /\ Settle(a, pending[a], FALSE)
  /\ acked' = acked \cup {<<a, job[a].d>>}
  /\ UNCHANGED abandoned

Reject(a) ==
  /\ Settle(a, pending[a], FALSE)
  /\ abandoned' = abandoned \cup {TurnOf(job[a].d)}
  /\ UNCHANGED acked

\* mutant: a delivery that met a broken connection is not kept
Forgotten(q, d) == q

Requeued(q, d) == Append(q, d)

\* ConnectionError: the raw delivery waits, behind those already waiting.
Queue(a) ==
  /\ faults < world.maxFaults /\ faults' = faults + 1
  /\ Settle(a, Requeued(pending[a], job[a].d), TRUE)
  /\ UNCHANGED <<acked, abandoned>>

\* Any other exception leaves the call; the delivery is in no queue.
Raise(a) ==
  /\ job' = [job EXCEPT ![a] = NoJob]
  /\ abandoned' = abandoned \cup {TurnOf(job[a].d)}
  /\ UNCHANGED <<pending, cursor, acked>>

-----------------------------------------------------------------------------
\* Calls into an adapter.

\* TelegramAdapter.receive, WebChatAdapter.receive and receive_delivery up to
\* the first call across the boundary.
Receive(a, d) ==
  /\ job[a] = NoJob /\ d \in world.adapters[a].deliveries
  /\ world.adapters[a].kind = "telegram" => d.id >= cursor[a]
  /\ \/ /\ d \in Range(pending[a])
        /\ cursor' = Answered(a, d, "receive")
        /\ UNCHANGED job
     \/ /\ \A x \in Range(pending[a]) : x.id # d.id
        /\ job' = [job EXCEPT ![a] = Started(d, << >>, "receive")]
        /\ UNCHANGED cursor
  /\ UNCHANGED <<world, conversation, registry, pending, acked, abandoned, faults>>

\* reconnect
Reconnect(a) ==
  /\ job[a] = NoJob /\ pending[a] # << >>
  /\ job' = [job EXCEPT ![a] = Started(Head(pending[a]), Tail(pending[a]), "flush")]
  /\ pending' = [pending EXCEPT ![a] = Tail(@)]
  /\ UNCHANGED <<world, conversation, registry, cursor, acked, abandoned, faults>>

Restart(a) ==
  /\ faults < world.maxFaults /\ faults' = faults + 1
  /\ abandoned' = abandoned \cup {TurnOf(d) : d \in Range(pending[a])}
                            \cup (IF job[a] = NoJob THEN {} ELSE {TurnOf(job[a].d)})
  /\ job' = [job EXCEPT ![a] = NoJob]
  /\ pending' = [pending EXCEPT ![a] = << >>]
  /\ UNCHANGED <<world, conversation, registry, cursor, acked>>

-----------------------------------------------------------------------------
\* Calls across the boundary.

Advance(a, step, n) ==
  job' = [job EXCEPT ![a] = [job[a] EXCEPT !.step = step, !.seq = n, !.tries = 0]]

\* _deliver: what the stream holds of the delivery already.
Read(a) ==
  LET d == job[a].d IN
  /\ job[a].step = "read"
  /\ UNCHANGED <<world, conversation, registry>>
  /\ \/ Queue(a)
     \/ /\ UNCHANGED faults
        /\ IF ~Resolves(a, d) \/ (Stored(d, "final") # {} /\ Stored(d, "partial") = {})
                \/ ~VerifyReplay(d, "partial") \/ ~VerifyReplay(d, "final")
           THEN Raise(a)
           ELSE IF Stored(d, "final") # {} THEN Acknowledge(a)
           ELSE /\ Advance(a, IF Stored(d, "partial") = {} THEN "partial" ELSE "final", Len(stream) + 1)
                /\ UNCHANGED <<pending, cursor, acked, abandoned>>

\* A stage is in the stream: go on to the final, or answer.
Staged(a, stage, n) ==
  IF stage = "final" THEN Acknowledge(a)
  ELSE Advance(a, "final", n) /\ UNCHANGED <<pending, cursor, acked, abandoned>>

\* _append_stage: a number taken meanwhile is replaced, at most so many times.
Rebase(a) ==
  IF job[a].tries + 1 = MaxSequenceRebaseAttempts THEN Reject(a)
  ELSE /\ job' = [job EXCEPT ![a] = [job[a] EXCEPT !.seq = journal.next, !.tries = @ + 1]]
       /\ UNCHANGED <<pending, cursor, acked, abandoned>>

CheckOf(stage) == IF stage = "partial" THEN "check_partial" ELSE "check_final"

\* append_text
AppendStage(a) ==
  LET d == job[a].d
      stage == job[a].step
      e == EventOf(d, stage, job[a].seq)
      verdict == Rejection(journal, state, e)
  IN  /\ stage \in {"partial", "final"}
      /\ UNCHANGED <<world, registry>>
      /\ \/ Queue(a) /\ UNCHANGED conversation
         \/ Queue(a) /\ Resolves(a, d) /\ Offered(e)
         \/ /\ ~Resolves(a, d) /\ Raise(a) /\ UNCHANGED <<conversation, faults>>
         \/ /\ Resolves(a, d) /\ Offered(e) /\ UNCHANGED faults
            /\ CASE verdict = NoRejection -> Staged(a, stage, journal'.next)
                 [] verdict = "out_of_order" -> Rebase(a)
                 [] verdict = "duplicate_event" ->
                      Advance(a, CheckOf(stage), journal.next) /\ UNCHANGED <<pending, cursor, acked, abandoned>>
                 [] OTHER -> Reject(a)

\* _canonical_event: the stage was stored by someone else since it was read.
Check(a, stage) ==
  LET d == job[a].d IN
  /\ job[a].step = CheckOf(stage)
  /\ UNCHANGED <<world, conversation, registry>>
  /\ \/ Queue(a)
     \/ /\ UNCHANGED faults
        /\ IF Resolves(a, d) /\ Stored(d, stage) # {} /\ VerifyReplay(d, stage)
           THEN Staged(a, stage, job[a].seq) ELSE Raise(a)

Next ==
  \/ \E b \in Bindings :
       \/ \E c \in [binding : Bindings, granted : BOOLEAN] : Enroll(b, c)
       \/ Revoke(b)
  \/ \E device \in world.revocable : RevokeDevice(device)
  \/ \E e \in world.offers : Offer(e)
  \/ \E a \in Adapters :
       \/ \E d \in world.adapters[a].deliveries : Receive(a, d)
       \/ Reconnect(a) \/ Restart(a) \/ Read(a) \/ AppendStage(a)
       \/ \E stage \in {"partial", "final"} : Check(a, stage)

Spec == Init /\ [][Next]_vars

-----------------------------------------------------------------------------
\* An answer "accepted" or "duplicate" (_deliver) means what it says: the
\* delivery's text is in the stream as a partial followed by its final, also
\* when the connection broke, the adapter was restarted, another worker
\* forwarded the same update, or the id came back with another text.
AcknowledgedIsStored ==
  \A x \in acked : \E i, k \in DOMAIN stream :
    /\ i < k
    /\ stream[i] = EventOf(x[2], "partial", i)
    /\ stream[k] = EventOf(x[2], "final", k)

\* "one-shot channel identity bindings" (openclaw/bindings.py): once the owner
\* revoked an external identity nothing from it enters the conversation again,
\* neither a delivery already under way or queued, nor one under a new binding.
RevokedStaysOut ==
  [][\A i \in DOMAIN stream' \ DOMAIN stream :
        stream'[i].device = "bridge" => stream'[i].id[1] \notin barred]_vars

Holds(a, turn) ==
  \/ \E d \in Range(pending[a]) : TurnOf(d) = turn
  \/ job[a] # NoJob /\ TurnOf(job[a].d) = turn

\* A channel's turn that stays open blocks every other turn of the
\* conversation.  It is open only while some adapter still holds the delivery
\* and will send its final, or when the delivery was given up after its
\* partial: a restart, an exception, or three lost races for a number.
OpenTurnExplained ==
  \A e \in Range(stream) :
    e.device = "bridge" /\ e.turn = journal.open =>
      e.turn \in abandoned \/ \E a \in Adapters : Holds(a, e.turn)

Closes(e) == e.tag \in {"transcript_final", "cancellation"}

\* Every accepted final ends a turn that a partial or a resume opened and
\* that nothing closed or replaced in between (conversation_api.py); the
\* journal never remembers more than the one open turn, so this is a claim
\* about the whole stream.
FinalEndsItsTurn ==
  \A i \in DOMAIN stream : stream[i].tag = "transcript_final" =>
    \E k \in 1 .. i - 1 :
      /\ stream[k].tag \in {"transcript_partial", "resume"}
      /\ stream[k].turn = stream[i].turn
      /\ \A m \in k + 1 .. i - 1 :
           ~Closes(stream[m]) /\ stream[m].tag # "resume"

\* A cancellation is resumed at most once, and by the next resume: each
\* accepted resume names the turn of the last cancellation before it, and no
\* other resume came between the two.
ResumedOnce ==
  \A i \in DOMAIN stream : stream[i].tag = "resume" =>
    \E k \in 1 .. i - 1 :
      /\ stream[k].tag = "cancellation" /\ stream[k].turn = stream[i].from
      /\ \A m \in k + 1 .. i - 1 : stream[m].tag \notin {"cancellation", "resume"}

\* "The cancelled turn is closed to further events" until it is resumed: no
\* transcript of a turn follows its cancellation unless a resume from that
\* turn lies in between.
CancelledTurnIsClosed ==
  \A k, i \in DOMAIN stream :
    /\ k < i /\ stream[k].tag = "cancellation"
    /\ stream[i].tag \in Transcript /\ stream[i].turn = stream[k].turn
    => \E m \in k + 1 .. i - 1 :
         stream[m].tag = "resume" /\ stream[m].from = stream[k].turn

\* "Flush pending deliveries in arrival order after transport recovery"
\* (channels/relay.py:94): updates are received in the order of their ids, so
\* the queue that is flushed must stay in that order.
FlushesInArrivalOrder ==
  \A a \in Adapters : \A i, k \in DOMAIN pending[a] : i < k => pending[a][i].id < pending[a][k].id
=============================================================================
