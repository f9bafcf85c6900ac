-------------------------- MODULE ConversationRelay --------------------------
(***************************************************************************)
(* One conversation between the relay and the phones that share it:        *)
(* relay_store.py (ConversationRelayStore), conversation_turn.py (turn)    *)
(* and their routes in relay_api.py; the `relay.py prune` process; on the  *)
(* phone ConversationSession.swift (sendText, startVoiceSession,           *)
(* endVoiceSession, synchronize, deleteConversation, sendAgentTurn),       *)
(* SignedConversationRelay.swift and EncryptedOutbox.swift.                *)
(*                                                                         *)
(* A store method is one SQLite transaction, hence one action.  A phone    *)
(* has two lanes: `main`, which isBusy keeps to one operation at a time,   *)
(* and `agent`, the assistant turn, which isBusy does not cover.  Each     *)
(* await of a lane ends a step.  A request the phone stopped waiting for   *)
(* may still reach the relay later.                                        *)
(*                                                                         *)
(* The outbox and the cursor are files and survive a crash of the app; the *)
(* rest of a phone is memory.  Texts, titles other than the two the app    *)
(* uses, paging of the history (a page holds every event within the        *)
(* bounds) and request authentication are left out.                        *)
(***************************************************************************)
EXTENDS ConversationJournal, Sequences, SequencesExt, FiniteSets

CONSTANTS
    Devices,      \* the phones bound to the conversation's participant
    Participant,
    MaxEvents,    \* MAX_CONVERSATION_EVENTS
    BatchLimit,   \* events one delivery may carry
    MaxLives,     \* bound: times the conversation is created
    MaxLate,      \* bound: requests on their way that nobody waits for
    Scenarios     \* how the system is used, and how much: see Scenario

(* What one behaviour may contain: the phones in use; the features in use  *)
(* ("voice", the assistant's "agent" turns, "deletion" and expiry); bounds *)
(* on the events made on a phone, on the assistant turns and on crashes.   *)
Scenario ==
    [phones : SUBSET Devices, features : SUBSET {"voice", "agent", "deletion"},
     made : Nat, turns : Nat, crashes : Nat]

ASSUME RelayAssumption ==
    /\ MaxEvents \in Nat /\ BatchLimit \in Nat \ {0}
    /\ {MaxLives, MaxLate} \subseteq Nat
    /\ Scenarios \subseteq Scenario
    /\ Devices = DOMAIN Owner /\ Members = {Participant}
    /\ \A d \in Devices : Owner[d] = Participant

VARIABLES
    (* the relay's database *)
    title,      \* the stored title, or Absent
    stream,     \* relay_events, in sequence order
    turns,      \* the agent.turn events: the life each was inferred in
    due,        \* the retention deadline has passed
    audit,      \* the ledger: entries per action class, and the event counts
                \* the deletion entries name
    (* the relay and its environment *)
    net,        \* requests on their way
    inference,  \* assistant turns the relay is waiting for
    pruner,     \* `relay.py prune`: "idle", or "selected" the conversation
    (* each phone *)
    outbox, cursor,        \* the two encrypted files
    nextSeq, conflict,     \* nextSequence, hasDeliveryConflict
    session, ending,       \* the active voice turn; the end marker being saved
    main,                  \* where the main lane stands
    waiting, answer,       \* per lane: the request in flight and its reply
    agent,                 \* where the agent lane stands
    remote,                \* the cursor of the history just read
    (* history *)
    life,       \* how often the conversation was created
    erased,     \* events a deletion or an expiry purged
    made, asked, crashes,
    scenario    \* one of Scenarios, fixed

store == <<title, stream, turns, due, audit, life, erased>>
phone == <<outbox, cursor, nextSeq, conflict, session, ending, main, agent, remote>>
wires == <<net, waiting, answer>>
counts == <<made, asked, crashes>>
vars == <<store, phone, wires, inference, pruner, counts, scenario>>

Absent == "absent"
Lanes == {"main", "agent"}
None == [status |-> 0]
NoRequest == [op |-> "none"]
NotEnding == [seq |-> 0, turn |-> NoTurn]

Init ==
    /\ title = Absent /\ stream = << >> /\ turns = << >> /\ due = FALSE
    /\ audit = [created |-> 0, accepted |-> 0, deleted |-> 0, purged |-> 0]
    /\ net = {} /\ inference = {} /\ pruner = "idle"
    /\ outbox = [d \in Devices |-> << >>]
    /\ cursor = [d \in Devices |-> 0]
    /\ nextSeq = [d \in Devices |-> 1]
    /\ conflict = [d \in Devices |-> FALSE]
    /\ session = [d \in Devices |-> NoTurn]
    /\ ending = [d \in Devices |-> NotEnding]
    /\ main = [d \in Devices |-> "idle"]
    /\ agent = [d \in Devices |-> "idle"]
    /\ remote = [d \in Devices |-> 0]
    /\ waiting = [d \in Devices |-> [l \in Lanes |-> NoRequest]]
    /\ answer = [d \in Devices |-> [l \in Lanes |-> None]]
    /\ life = 0 /\ erased = {}
    /\ made = [d \in Devices |-> 0] /\ asked = 0 /\ crashes = 0
    /\ scenario \in Scenarios

------------------------------------------------------------------------------
(* The relay: one transaction per request *)

Ids(events) == {events[i].id : i \in DOMAIN events}

(* The answer reaches whoever still waits for this very request.           *)
Reply(r, result) ==
    /\ net' = net \ {r}
    /\ answer' = IF waiting[r.device][r.lane] = r
                   THEN [answer EXCEPT ![r.device][r.lane] = result] ELSE answer
    /\ UNCHANGED waiting

Status(code) == [status |-> code]

Audited(class, n) == audit' = [audit EXCEPT ![class] = @ + n]

(* create: an identical retry is acknowledged, another title is a conflict *)
ServeCreate(r) ==
    /\ r.op = "create"
    /\ IF title = Absent
         THEN /\ life < MaxLives
              /\ title' = r.title /\ stream' = << >> /\ turns' = << >> /\ due' = FALSE
              /\ life' = life + 1
              /\ Audited("created", 1)
              /\ Reply(r, Status(200))
              /\ UNCHANGED erased
         ELSE /\ Reply(r, Status(IF title = r.title THEN 200 ELSE 409))
              /\ UNCHANGED store
    /\ UNCHANGED <<phone, inference, pruner, counts>>

(* The journal after replaying a stored stream; a stream that no longer    *)
(* replays makes append refuse everything.                                 *)
Replayed(events) == FoldLeft(LAMBDA j, e : Accept(j, "active", e), NewJournal, events)

Replays(events) == Replayed(events).next = Len(events) + 1

(* append's loop over the batch: an event that is already stored must be   *)
(* the very same; the others go through the gate after the stored ones.    *)
Fresh(events, batch) == SelectSeq(batch, LAMBDA e : e.id \notin Ids(events))

Appended(events, batch) == events \o Fresh(events, batch)

(* mutant: an exact retry is a duplicate like any other                    *)
RetryRefused(events, batch) ==
    Fresh(events, batch) = batch /\ Replays(Appended(events, batch))

Acceptable(events, batch) ==
    /\ \A e \in Range(batch) : e.id \in Ids(events) => e \in Range(events)
    /\ Fresh(events, batch) # << >> => Len(Appended(events, batch)) <= MaxEvents
    /\ Replays(Appended(events, batch))

(* append: the whole batch or nothing                                      *)
ServeAppend(r) ==
    /\ r.op = "append"
    /\ IF title # Absent /\ Acceptable(stream, r.events)
         THEN /\ stream' = Appended(stream, r.events)
              /\ Audited("accepted", Len(Fresh(stream, r.events)))
              /\ Reply(r, [status |-> 200, next |-> Len(stream') + 1])
              /\ UNCHANGED <<title, turns, due, life, erased>>
         ELSE /\ Reply(r, Status(IF title = Absent THEN 403 ELSE 409))
              /\ UNCHANGED store
    /\ UNCHANGED <<phone, inference, pruner, counts>>

(* events                                                                  *)
ServeRead(r) ==
    /\ r.op = "read"
    /\ IF title = Absent THEN Reply(r, Status(403))
       ELSE Reply(r, [status |-> 200, cursor |-> Len(stream)])
    /\ UNCHANGED <<store, phone, inference, pruner, counts>>

(* _delete: content, ordering index, retention row and conversation; the   *)
(* entry it leaves names how many events went.                             *)
Purge ==
    /\ title' = Absent /\ stream' = << >> /\ turns' = << >> /\ due' = FALSE
    /\ erased' = erased \cup Ids(stream)
    /\ audit' = [audit EXCEPT !.deleted = @ + 1, !.purged = @ + Len(stream) + Len(turns)]
    /\ UNCHANGED life

(* delete                                                                  *)
ServeDelete(r) ==
    /\ r.op = "delete"
    /\ IF title = Absent THEN Reply(r, Status(403)) /\ UNCHANGED store
       ELSE Reply(r, Status(200)) /\ Purge
    /\ UNCHANGED <<phone, inference, pruner, counts>>

(* turn, up to its await: agent_history and the revision it returns        *)
ServeTurn(r) ==
    /\ r.op = "turn"
    /\ IF title = Absent
         THEN Reply(r, Status(500)) /\ UNCHANGED inference
         ELSE /\ inference' = inference \cup
                     {[request |-> r, revision |-> Len(turns), life |-> life]}
              /\ net' = net \ {r}
              /\ UNCHANGED <<waiting, answer>>
    /\ UNCHANGED <<store, phone, pruner, counts>>

(* save_agent_turn's compare-and-swap                                      *)
CanSave(i) ==
    /\ title # Absent
    /\ Len(turns) = i.revision
    /\ Len(turns) < MaxEvents

(* turn, after its await: the provider answered, or failed (502)           *)
InferenceEnds(i) ==
    /\ inference' = inference \ {i}
    /\ \/ /\ CanSave(i)
          /\ turns' = Append(turns, i.life)
          /\ Audited("accepted", 1)
          /\ Reply(i.request, Status(200))
          /\ UNCHANGED <<title, stream, due, life, erased>>
       \/ ~CanSave(i) /\ Reply(i.request, Status(500)) /\ UNCHANGED store
       \/ Reply(i.request, Status(502)) /\ UNCHANGED store
    /\ UNCHANGED <<phone, pruner, counts>>

Serve(r) ==
    \/ ServeCreate(r) \/ ServeAppend(r) \/ ServeRead(r)
    \/ ServeDelete(r) \/ ServeTurn(r)

(* The process stops: what it was working on is gone, the database stays.  *)
RelayRestarts ==
    /\ crashes < scenario.crashes /\ (net # {} \/ inference # {})
    /\ crashes' = crashes + 1
    /\ net' = {} /\ inference' = {}
    /\ UNCHANGED <<store, phone, waiting, answer, pruner, made, asked>>

(* 180 days after its creation                                             *)
DeadlinePasses ==
    /\ "deletion" \in scenario.features /\ title # Absent /\ ~due
    /\ due' = TRUE
    /\ UNCHANGED <<title, stream, turns, audit, life, erased,
                   phone, wires, inference, pruner, counts>>

(* expire, in a process of its own: the SELECT is outside the transaction  *)
PruneSelects ==
    /\ pruner = "idle" /\ due
    /\ pruner' = "selected"
    /\ UNCHANGED <<store, phone, wires, inference, counts>>

PruneDeletes ==
    /\ pruner = "selected"
    /\ pruner' = "idle"
    /\ Purge
    /\ UNCHANGED <<phone, wires, inference, counts>>

------------------------------------------------------------------------------
(* The phone *)

Largest(S) == CHOOSE n \in S : \A m \in S : m <= n

Larger(a, b) == IF a >= b THEN a ELSE b

Seqs(events) == {events[i].seq : i \in DOMAIN events}

(* EncryptedOutbox.nextSequence                                            *)
NextInFiles(d) == Larger(cursor[d], Largest({0} \cup Seqs(outbox[d]))) + 1

(* refreshSequence                                                         *)
Refreshed(d) == Larger(nextSeq[d], NextInFiles(d))

Event(d, n, k, tag, turn) ==
    [id |-> <<d, k>>, conversation |-> Home, participant |-> Participant, device |-> d,
     seq |-> n, kind |-> tag, tag |-> tag, turn |-> turn, from |-> NoTurn]

Send(d, l, r) ==
    LET request == r @@ [device |-> d, lane |-> l] IN
    /\ net' = net \cup {request}
    /\ waiting' = [waiting EXCEPT ![d][l] = request]
    /\ answer' = [answer EXCEPT ![d][l] = None]

(* The lane has its answer, or stops waiting: its request is then lost, or *)
(* still on the way.                                                       *)
Late(requests) == {r \in requests : waiting'[r.device][r.lane] # r}

Abandon(requests) ==
    /\ net' \in {net, net \ requests}
    /\ Cardinality(Late(net')) <= MaxLate

Hush(d, l) ==
    /\ waiting' = [waiting EXCEPT ![d][l] = NoRequest]
    /\ answer' = [answer EXCEPT ![d][l] = None]
    /\ Abandon({waiting[d][l]})

server == <<store, inference, pruner>>

(* EncryptedOutbox.acknowledge and purge each write both files without a   *)
(* suspension: no other outbox call runs between their two writes.         *)
OutboxFree(d) == main[d] \notin {"cleaning", "purging"}

(* sendText: the partial and the final of a new turn                       *)
SendText(d) ==
    /\ main[d] = "idle" /\ ~conflict[d] /\ session[d] = NoTurn
    /\ made[d] + 2 <= scenario.made
    /\ LET n == Refreshed(d)
           k == made[d] + 1
       IN  /\ outbox' = [outbox EXCEPT ![d] = @ \o
                  << Event(d, n, k, "transcript_partial", <<d, k>>),
                     Event(d, n + 1, k + 1, "transcript_final", <<d, k>>) >>]
           /\ nextSeq' = [nextSeq EXCEPT ![d] = n + 2]
           /\ made' = [made EXCEPT ![d] = k + 1]
    /\ UNCHANGED <<server, cursor, conflict, session, ending, main, agent, remote,
                   wires, asked, crashes>>

(* startVoiceSession and beginNativeVoice: the start marker is queued      *)
(* before the recogniser starts, which may fail.                           *)
StartVoice(d) ==
    /\ "voice" \in scenario.features /\ main[d] = "idle" /\ ~conflict[d] /\ session[d] = NoTurn
    /\ made[d] < scenario.made
    /\ LET n == Refreshed(d)
           k == made[d] + 1
       IN  /\ outbox' = [outbox EXCEPT ![d] =
                  Append(@, Event(d, n, k, "transcript_partial", <<d, k>>))]
           /\ nextSeq' = [nextSeq EXCEPT ![d] = n + 1]
           /\ made' = [made EXCEPT ![d] = k]
           /\ \E s \in {<<d, k>>, NoTurn} : session' = [session EXCEPT ![d] = s]
    /\ UNCHANGED <<server, cursor, conflict, ending, main, agent, remote,
                   wires, asked, crashes>>

(* cancelAgentTurn                                                         *)
CancelAgent(d) == agent' = [agent EXCEPT ![d] = "idle"] /\ Hush(d, "agent")

(* endVoiceSession: not guarded by isBusy.  The sequence is taken now, the *)
(* end marker is written by EndVoiceSaved.                                 *)
EndVoice(d) ==
    /\ session[d] # NoTurn
    /\ CancelAgent(d)
    /\ session' = [session EXCEPT ![d] = NoTurn]
    /\ IF conflict[d] THEN UNCHANGED <<nextSeq, ending>>
       ELSE /\ OutboxFree(d)
            /\ nextSeq' = [nextSeq EXCEPT ![d] = Refreshed(d)]
            /\ ending' = [ending EXCEPT ![d] = [seq |-> Refreshed(d), turn |-> session[d]]]
    /\ UNCHANGED <<server, outbox, cursor, conflict, main, remote, counts>>

EndVoiceSaved(d) ==
    /\ ending[d] # NotEnding /\ OutboxFree(d) /\ made[d] < scenario.made
    /\ LET k == made[d] + 1
       IN  /\ outbox' = [outbox EXCEPT ![d] = Append(@,
                  Event(d, ending[d].seq, k, "cancellation", ending[d].turn))]
           /\ made' = [made EXCEPT ![d] = k]
    /\ nextSeq' = [nextSeq EXCEPT ![d] = ending[d].seq + 1]
    /\ ending' = [ending EXCEPT ![d] = NotEnding]
    /\ UNCHANGED <<server, cursor, conflict, session, main, agent, remote,
                   wires, asked, crashes>>

Got(d, l, code) == answer[d][l].status = code

(* synchronize: create the conversation, read its history, then flush      *)
Synchronize(d) ==
    /\ main[d] = "idle"
    /\ nextSeq' = [nextSeq EXCEPT ![d] = Refreshed(d)]
    /\ Send(d, "main", [op |-> "create", title |-> "Secretary"])
    /\ main' = [main EXCEPT ![d] = "creating"]
    /\ UNCHANGED <<server, outbox, cursor, conflict, session, ending, agent, remote, counts>>

SyncCreated(d) ==
    /\ main[d] = "creating" /\ Got(d, "main", 200)
    /\ Send(d, "main", [op |-> "read"])
    /\ main' = [main EXCEPT ![d] = "reading"]
    /\ UNCHANGED <<server, outbox, cursor, nextSeq, conflict, session, ending, agent,
                   remote, counts>>

SyncFetched(d) ==
    /\ main[d] = "reading" /\ Got(d, "main", 200)
    /\ remote' = [remote EXCEPT ![d] = answer[d]["main"].cursor]
    /\ main' = [main EXCEPT ![d] = "flushing"]
    /\ Hush(d, "main")
    /\ UNCHANGED <<server, outbox, cursor, nextSeq, conflict, session, ending, agent, counts>>

(* flush: one bounded batch from the front of the queue                    *)
Batch(events) == SubSeq(events, 1, IF Len(events) < BatchLimit THEN Len(events) ELSE BatchLimit)

Flush(d) ==
    /\ main[d] = "flushing" /\ outbox[d] # << >>
    /\ Send(d, "main", [op |-> "append", events |-> Batch(outbox[d])])
    /\ main' = [main EXCEPT ![d] = "delivering"]
    /\ UNCHANGED <<server, outbox, cursor, nextSeq, conflict, session, ending, agent,
                   remote, counts>>

Delivered(d) == Ids(waiting[d]["main"].events)

(* acknowledge: the high-water mark is written before the ciphertext goes. *)
Acknowledged(d) ==
    /\ main[d] = "delivering" /\ Got(d, "main", 200)
    /\ cursor' = [cursor EXCEPT ![d] =
          Larger(@, Largest({e.seq : e \in {x \in Range(outbox[d]) : x.id \in Delivered(d)}}))]
    /\ main' = [main EXCEPT ![d] = "cleaning"]
    /\ UNCHANGED <<server, outbox, nextSeq, conflict, session, ending, agent, remote,
                   wires, counts>>

(* mutant: the file is removed whatever remains in it                      *)
CleanAll(d) ==
    /\ main[d] = "cleaning"
    /\ outbox' = [outbox EXCEPT ![d] = << >>]
    /\ nextSeq' = [nextSeq EXCEPT ![d] = Larger(@, answer[d]["main"].next)]
    /\ main' = [main EXCEPT ![d] = "flushing"]
    /\ Hush(d, "main")
    /\ UNCHANGED <<server, cursor, conflict, session, ending, agent, remote, counts>>

(* mutant: the file is only ever removed, never rewritten                  *)
CleanWhole(d) ==
    /\ main[d] = "cleaning"
    /\ outbox' = [outbox EXCEPT ![d] = IF Ids(@) = Delivered(d) THEN << >> ELSE @]
    /\ nextSeq' = [nextSeq EXCEPT ![d] = Larger(@, answer[d]["main"].next)]
    /\ main' = [main EXCEPT ![d] = "flushing"]
    /\ Hush(d, "main")
    /\ UNCHANGED <<server, cursor, conflict, session, ending, agent, remote, counts>>

Cleaned(d) ==
    /\ main[d] = "cleaning"
    /\ outbox' = [outbox EXCEPT ![d] = SelectSeq(@, LAMBDA e : e.id \notin Delivered(d))]
    /\ nextSeq' = [nextSeq EXCEPT ![d] = Larger(@, answer[d]["main"].next)]
    /\ main' = [main EXCEPT ![d] = "flushing"]
    /\ Hush(d, "main")
    /\ UNCHANGED <<server, cursor, conflict, session, ending, agent, remote, counts>>

SyncFinished(d) ==
    /\ main[d] = "flushing" /\ outbox[d] = << >>
    /\ nextSeq' = [nextSeq EXCEPT ![d] = Larger(@, remote[d] + 1)]
    /\ conflict' = [conflict EXCEPT ![d] = FALSE]
    /\ main' = [main EXCEPT ![d] = "idle"]
    /\ remote' = [remote EXCEPT ![d] = 0]
    /\ UNCHANGED <<server, outbox, cursor, session, ending, agent, wires, counts>>

Syncing == {"creating", "reading", "delivering"}

(* synchronize's catch clauses: 409 is a delivery conflict, anything else  *)
(* leaves the queue for the next attempt.                                  *)
SyncRefused(d) ==
    /\ main[d] \in Syncing /\ answer[d]["main"].status \in {403, 409}
    /\ conflict' = [conflict EXCEPT ![d] = @ \/ Got(d, "main", 409)]
    /\ main' = [main EXCEPT ![d] = "idle"]
    /\ Hush(d, "main")
    /\ remote' = [remote EXCEPT ![d] = 0]
    /\ UNCHANGED <<server, outbox, cursor, nextSeq, session, ending, agent, counts>>

(* No answer arrives: timeout, or the request or its answer was lost.      *)
GiveUp(d) ==
    /\ main[d] \in Syncing \cup {"deleting"} /\ waiting[d]["main"] # NoRequest
    /\ main' = [main EXCEPT ![d] = "idle"]
    /\ Hush(d, "main")
    /\ remote' = [remote EXCEPT ![d] = 0]
    /\ UNCHANGED <<server, outbox, cursor, nextSeq, conflict, session, ending, agent,
                   counts>>

(* deleteConversation; CancelAgent and Send both speak of the wires.       *)
DeleteConversation(d) ==
    LET request == [op |-> "delete", device |-> d, lane |-> "main"] IN
    /\ "deletion" \in scenario.features /\ main[d] = "idle"
    /\ agent' = [agent EXCEPT ![d] = "idle"]
    /\ session' = [session EXCEPT ![d] = NoTurn]
    /\ waiting' = [waiting EXCEPT ![d] = [main |-> request, agent |-> NoRequest]]
    /\ answer' = [answer EXCEPT ![d] = [l \in Lanes |-> None]]
    /\ net' \in {net \cup {request}, (net \ {waiting[d]["agent"]}) \cup {request}}
    /\ Cardinality(Late(net')) <= MaxLate
    /\ main' = [main EXCEPT ![d] = "deleting"]
    /\ UNCHANGED <<server, outbox, cursor, nextSeq, conflict, ending, remote, counts>>

DeleteRefused(d) ==
    /\ main[d] = "deleting" /\ Got(d, "main", 403)
    /\ main' = [main EXCEPT ![d] = "idle"]
    /\ Hush(d, "main")
    /\ UNCHANGED <<server, outbox, cursor, nextSeq, conflict, session, ending, agent,
                   remote, counts>>

(* purge: the queue's file goes first, the cursor's second                 *)
DeleteConfirmed(d) ==
    /\ main[d] = "deleting" /\ Got(d, "main", 200)
    /\ outbox' = [outbox EXCEPT ![d] = << >>]
    /\ erased' = erased \cup Ids(outbox[d])
    /\ main' = [main EXCEPT ![d] = "purging"]
    /\ Hush(d, "main")
    /\ UNCHANGED <<title, stream, turns, due, audit, life, inference, pruner, cursor,
                   nextSeq, conflict, session, ending, agent, remote, counts>>

Purged(d) ==
    /\ main[d] = "purging"
    /\ cursor' = [cursor EXCEPT ![d] = 0]
    /\ nextSeq' = [nextSeq EXCEPT ![d] = 1]
    /\ conflict' = [conflict EXCEPT ![d] = FALSE]
    /\ main' = [main EXCEPT ![d] = "idle"]
    /\ CancelAgent(d)
    /\ UNCHANGED <<server, outbox, session, ending, remote, counts>>

(* sendAgentTurn: create under its own title, then the turn                *)
AskAgent(d) ==
    /\ "agent" \in scenario.features /\ agent[d] = "idle" /\ asked < scenario.turns
    /\ asked' = asked + 1
    /\ agent' = [agent EXCEPT ![d] = "creating"]
    /\ Send(d, "agent", [op |-> "create", title |-> "LifeOS"])
    /\ UNCHANGED <<server, outbox, cursor, nextSeq, conflict, session, ending, main,
                   remote, made, crashes>>

(* A title conflict is ignored: the conversation exists.                   *)
AgentCreated(d) ==
    /\ agent[d] = "creating" /\ answer[d]["agent"].status \in {200, 409}
    /\ agent' = [agent EXCEPT ![d] = "asking"]
    /\ Send(d, "agent", [op |-> "turn"])
    /\ UNCHANGED <<server, outbox, cursor, nextSeq, conflict, session, ending, main,
                   remote, counts>>

(* The reply is shown, the call fails, or the user cancels it.             *)
AgentEnds(d) == agent[d] # "idle" /\ CancelAgent(d) /\ UNCHANGED
    <<server, outbox, cursor, nextSeq, conflict, session, ending, main, remote, counts>>

(* The app is killed and starts again: loadPendingEvents                   *)
PhoneRestarts(d) ==
    /\ crashes < scenario.crashes
    /\ crashes' = crashes + 1
    /\ nextSeq' = [nextSeq EXCEPT ![d] = NextInFiles(d)]
    /\ conflict' = [conflict EXCEPT ![d] = FALSE]
    /\ session' = [session EXCEPT ![d] = NoTurn]
    /\ ending' = [ending EXCEPT ![d] = NotEnding]
    /\ main' = [main EXCEPT ![d] = "idle"]
    /\ agent' = [agent EXCEPT ![d] = "idle"]
    /\ remote' = [remote EXCEPT ![d] = 0]
    /\ waiting' = [waiting EXCEPT ![d] = [l \in Lanes |-> NoRequest]]
    /\ answer' = [answer EXCEPT ![d] = [l \in Lanes |-> None]]
    /\ Abandon(Range(waiting[d]))
    /\ UNCHANGED <<server, outbox, cursor, made, asked>>

MainLane(d) ==
    \/ SendText(d) \/ StartVoice(d) \/ EndVoice(d) \/ EndVoiceSaved(d)
    \/ Synchronize(d) \/ SyncCreated(d) \/ SyncFetched(d) \/ Flush(d)
    \/ Acknowledged(d) \/ Cleaned(d) \/ SyncFinished(d) \/ SyncRefused(d)
    \/ GiveUp(d)
    \/ DeleteConversation(d) \/ DeleteRefused(d) \/ DeleteConfirmed(d) \/ Purged(d)

AgentLane(d) == AskAgent(d) \/ AgentCreated(d) \/ AgentEnds(d)

Next ==
    /\ \/ \E r \in net : Serve(r)
       \/ \E i \in inference : InferenceEnds(i)
       \/ RelayRestarts
       \/ DeadlinePasses \/ PruneSelects \/ PruneDeletes
       \/ \E d \in scenario.phones : MainLane(d) \/ AgentLane(d) \/ PhoneRestarts(d)
    /\ UNCHANGED scenario

Spec == Init /\ [][Next]_vars

------------------------------------------------------------------------------
(* Properties *)

(* Every file, row and lane holds what its type says; a phone waits for an *)
(* answer in exactly the steps that await one.                             *)
TypeOK ==
    /\ title \in {Absent, "Secretary", "LifeOS"} /\ due \in BOOLEAN
    /\ title = Absent => stream = << >> /\ turns = << >> /\ ~due
    /\ life \in 0 .. MaxLives /\ pruner \in {"idle", "selected"}
    /\ \A i \in DOMAIN turns : turns[i] \in 1 .. life
    /\ \A d \in Devices :
         /\ cursor[d] \in Nat /\ nextSeq[d] \in Nat \ {0} /\ conflict[d] \in BOOLEAN
         /\ made[d] \in 0 .. scenario.made
         /\ Range(outbox[d]) \subseteq
              {e \in [id : {d} \X (1 .. made[d]), conversation : {Home},
                      participant : {Participant}, device : {d}, seq : 1 .. nextSeq[d],
                      kind : Kinds, tag : Kinds, turn : {d} \X (1 .. made[d]),
                      from : {NoTurn}] : e.kind = e.tag}
         /\ (waiting[d]["main"] # NoRequest) <=>
              main[d] \in Syncing \cup {"deleting", "cleaning"}
         /\ (waiting[d]["agent"] # NoRequest) <=> agent[d] # "idle"

(* No message is ever lost: each event a phone queued is still in its      *)
(* queue, stored by the relay, or gone because someone deleted the         *)
(* conversation or its retention ran out.  Lost answers, late requests and *)
(* a crash between the two writes of acknowledge are all in the model.     *)
NothingLost ==
    \A d \in Devices : \A k \in 1 .. made[d] :
        <<d, k>> \in Ids(stream) \cup erased \cup Ids(outbox[d])

(* "A crash between writes leaves retryable duplicate events, never a      *)
(* forgotten sequence": what a phone would number next after a restart is  *)
(* beyond every event of its own the relay holds.                          *)
SequenceRemembered ==
    \A d \in Devices : \A i \in DOMAIN stream :
        stream[i].device = d /\ stream[i].id \notin erased
            => stream[i].seq < NextInFiles(d)

Stale(d) ==
    life > 1 \/ title = Absent \/ \E i \in DOMAIN stream : stream[i].device # d

Own(d) == Range(outbox[d]) \cup {e \in Range(stream) : e.device = d}

(* A voice turn that was begun and has neither an end marker nor a session *)
(* that will write one.                                                    *)
Unended(d) ==
    \E e \in Own(d) :
        /\ e.tag = "transcript_partial" /\ e.turn # session[d]
        /\ \A x \in Own(d) : x.turn = e.turn => x = e

(* A voice session was begun between endVoiceSession's reading of the next *)
(* sequence number and its writing of the end marker.                      *)
NumberedTwice(d) == \E x, y \in Own(d) : x # y /\ x.seq = y.seq

(* The relay keeps no more events than MaxEvents, and what is queued would *)
(* exceed them.                                                            *)
Full(d) == Len(stream) + Cardinality(Ids(outbox[d]) \ Ids(stream)) > MaxEvents

(* Why a phone that cannot deliver shows a conflict: another phone wrote   *)
(* to the conversation, it was deleted or begun anew, it is full, the      *)
(* assistant's turn created it under its own title, a voice session was    *)
(* left without its end marker, or the next one began before that marker   *)
(* was written.  Lost answers, retries, late requests and crashes alone    *)
(* never cause one.                                                        *)
ConflictExplained ==
    \A d \in Devices : conflict[d] =>
        Stale(d) \/ Full(d) \/ title = "LifeOS" \/ Unended(d) \/ NumberedTwice(d)

(* "Stale cross-device sequences preserve the pending queue and show a     *)
(* conflict": a conflict means that this phone's numbering is stale.       *)
ConflictMeansStale == \A d \in Devices : conflict[d] => Stale(d)

(* "Reject concurrent stale inference": an assistant turn is stored only   *)
(* in the conversation whose history it was inferred from.                 *)
StaleInferenceRejected == \A i \in DOMAIN turns : turns[i] = life

(* "Purge every conversation past its fixed retention deadline": pruning   *)
(* never removes a conversation whose deadline has not passed.             *)
PrunesOnlyDue == [][PruneDeletes => title = Absent \/ due]_vars

(* What a phone queued is eventually delivered, or its user is told of a   *)
(* conflict, once the network answers in time and the user presses Sync,   *)
(* while the conversation is only written to (no deletion, no expiry).     *)
QueueDrains ==
    \A d \in Devices : scenario.features = {} /\ outbox[d] # << >> ~> (outbox[d] = << >> \/ conflict[d])

Lost(d) == waiting[d]["main"] \notin net /\ answer[d]["main"] = None

(* The steps of a synchronisation that always get their turn: the lane     *)
(* goes on with the answer, and the user presses Sync while something is   *)
(* queued.                                                                 *)
SyncProgress(d) ==
    /\ \/ outbox[d] # << >> /\ Synchronize(d)
       \/ SyncCreated(d) \/ SyncFetched(d) \/ Flush(d) \/ Acknowledged(d)
       \/ Cleaned(d) \/ SyncFinished(d) \/ SyncRefused(d)
       \/ Lost(d) /\ GiveUp(d)
    /\ UNCHANGED scenario

(* The relay serves what a phone waits for, and from some moment on only a *)
(* request that was lost times out.                                        *)
Fairness ==
    \A d \in Devices :
        /\ WF_vars(SyncProgress(d))
        /\ []<>(waiting[d]["main"] \notin net)
        /\ <>[][GiveUp(d) => Lost(d)]_vars

FairSpec == Spec /\ Fairness
==============================================================================
