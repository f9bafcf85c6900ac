------------------------ MODULE PostgresConversations ------------------------
(***************************************************************************)
(* Relay conversations in a PostgreSQL cell (postgres_conversations.py):   *)
(* binding enrolled devices to participants, creating a conversation,      *)
(* appending a batch, deleting and expiring.  One action per unit of work  *)
(* that changes the cell; a refused call, an exact retry and a read change *)
(* nothing.                                                                *)
(*                                                                         *)
(* A conversation replays its stored events through a ConversationJournal  *)
(* that knows every device bound to one of its participants, then admits   *)
(* the new ones.  Event ids are unique in the cell, not in a conversation. *)
(* Encryption envelopes, the size of an event and its time zone are left   *)
(* out.                                                                    *)
(***************************************************************************)
EXTENDS PostgresCell, Sequences, Functions

CONSTANTS
    Identities,     \* canonical identities an operator provisions
    Conversations, Titles,
    Batches,        \* the event batches clients send
    NoTurnYet,
    BatchLimit,     \* MAX_BATCH_EVENTS
    MaxEvents,      \* MAX_CONVERSATION_EVENTS
    ConversationRetention   \* CONVERSATION_RETENTION

Ids(events) == {e.id : e \in Range(events)}

Without(events, ids) == SelectSeq(events, LAMBDA e : e.id \notin ids)

(* What is left of a batch is a sequence of its events.                    *)
ASSUME BatchesAssumption ==
    \A batch \in Batches : \A ids \in SUBSET UNION {Ids(b) : b \in Batches} :
        Without(batch, ids) \in Seq(Range(batch))

VARIABLES
    identities,     \* lifeos_relay_identities
    bindings,       \* lifeos_relay_devices: device -> participant
    rooms,          \* lifeos_conversations
    streams,        \* lifeos_conversation_events, by sequence
    deletions       \* lifeos_conversation_deletions

talkVars == <<identities, bindings, rooms, streams, deletions>>

Gate(c, members, owner) ==
    INSTANCE ConversationJournal WITH Home <- c, Members <- members, Owner <- owner, NoTurn <- NoTurnYet

(* The events only the relay itself writes are not accepted from a device. *)
ClientKinds == {"transcript_partial", "transcript_final", "cancellation", "resume"}

TalkInit ==
    /\ identities = {}
    /\ bindings = << >>
    /\ rooms = << >>
    /\ streams = [c \in Conversations |-> << >>]
    /\ deletions = {}

(* provision: the identity row and the binding commit together; another    *)
(* identity or another binding is a conflict.                              *)
Provision(identity, d) ==
    /\ d \in active \ DOMAIN bindings
    /\ \A i \in identities : i.participant = identity.participant => i = identity
    /\ identities' = identities \cup {identity}
    /\ bindings' = [e \in DOMAIN bindings \cup {d} |-> IF e = d THEN identity.participant ELSE bindings[e]]
    /\ Audited("bound", 1)
    /\ UNCHANGED <<rooms, streams, deletions>>

(* device: enrolled now, and bound.                                        *)
Bound(d) == d \in active /\ d \in DOMAIN bindings

(* conversation: the check before anything is read or written.             *)
MayUse(c, d) == Bound(d) /\ c \in DOMAIN rooms /\ bindings[d] \in rooms[c].members

(* mutant: the deletion marker is not consulted                            *)
NotStored(c) == c \notin DOMAIN rooms

Creatable(c) == c \notin deletions /\ c \notin DOMAIN rooms

Room(title, d) == [title |-> title, members |-> {bindings[d]}, expires |-> now + ConversationRetention]

(* create                                                                  *)
Open(c, title, d) ==
    /\ Bound(d) /\ Creatable(c)
    /\ rooms' = [r \in DOMAIN rooms \cup {c} |-> IF r = c THEN Room(title, d) ELSE rooms[r]]
    /\ Audited("created", 1)
    /\ UNCHANGED <<identities, bindings, streams, deletions>>

(* _devices_for: every device ever bound to a participant.                 *)
DevicesFor(c) == {d \in DOMAIN bindings : bindings[d] \in rooms[c].members}

JournalOf(c, events) ==
    LET owner == [d \in DevicesFor(c) |-> bindings[d]]
        after[n \in 0 .. Len(events)] ==
            IF n = 0 THEN Gate(c, rooms[c].members, owner)!NewJournal
            ELSE Gate(c, rooms[c].members, owner)!Accept(after[n - 1], "active", events[n])
    IN  after[Len(events)]

Replays(c, events) == JournalOf(c, events).next = Len(events) + 1

StoredElsewhere(c) == UNION {Ids(streams[other]) : other \in Conversations \ {c}}

(* _append: what is not an exact retry.                                    *)
Fresh(c, batch) == Without(batch, Ids(streams[c]))

(* mutant: a retry is audited again                                        *)
EveryEvent(c, batch) == Len(batch)

Inserted(c, batch) == Len(Fresh(c, batch))

Acceptable(c, d, batch) ==
    /\ Len(batch) \in 1 .. BatchLimit /\ Cardinality(Ids(batch)) = Len(batch)
    /\ \A e \in Range(batch) : e.device = d /\ e.kind \in ClientKinds
    /\ \A e \in Range(batch) : e.id \in Ids(streams[c]) => e \in Range(streams[c])
    /\ Inserted(c, batch) > 0 => Len(streams[c]) + Inserted(c, batch) <= MaxEvents
    /\ Replays(c, streams[c]) /\ Replays(c, streams[c] \o Fresh(c, batch))
    /\ Ids(Fresh(c, batch)) \cap StoredElsewhere(c) = {}

(* append: the whole batch or nothing.                                     *)
AppendBatch(c, d, batch) ==
    /\ MayUse(c, d) /\ Acceptable(c, d, batch)
    /\ streams' = [streams EXCEPT ![c] = @ \o Fresh(c, batch)]
    /\ Audited("accepted", Inserted(c, batch))
    /\ UNCHANGED <<identities, bindings, rooms, deletions>>

(* The rows of lifeos_conversation_events that belong to conversations.    *)
Rows(cs) == UNION {{c} \X DOMAIN streams[c] : c \in cs}

(* _delete: the rows go, a marker and an entry naming their number stay.   *)
Purge(cs) ==
    /\ rooms' = [c \in DOMAIN rooms \ cs |-> rooms[c]]
    /\ streams' = [c \in Conversations |-> IF c \in cs THEN << >> ELSE streams[c]]
    /\ deletions' = deletions \cup cs
    /\ audit' = [audit EXCEPT !.deleted = @ + Cardinality(cs),
                              !.purged = @ + Cardinality(Rows(cs))]
    /\ UNCHANGED <<identities, bindings>>

(* delete                                                                  *)
DeleteConversation(c, d) == MayUse(c, d) /\ Purge({c})

(* expire: all that are due, in one unit of work.                          *)
Due == {c \in DOMAIN rooms : rooms[c].expires <= now}

Expire == Due # {} /\ Purge(Due)

------------------------------------------------------------------------------
(* Properties *)

(* _append replays the stored events before it admits new ones and refuses *)
(* everything when one of them is rejected.  However devices were bound    *)
(* and revoked since, a stored history always replays: no conversation can *)
(* become one that accepts nothing any more.                               *)
StreamsReplay == \A c \in DOMAIN rooms : Replays(c, streams[c])

(* _insert_event and _delete: every event the audit chain says was         *)
(* accepted is stored, or counted by the entry of the deletion that purged *)
(* it; exact retries, conflicts and reused event ids add nothing.          *)
AcceptedAreAccountedFor ==
    /\ audit.accepted = audit.purged + Cardinality(Rows(Conversations))
    /\ audit.created = Cardinality(DOMAIN rooms) + audit.deleted
    /\ audit.bound = Cardinality(DOMAIN bindings)

Phase ==
    [c \in Conversations |->
        IF c \in DOMAIN rooms THEN "open" ELSE IF c \in deletions THEN "purged" ELSE "absent"]

Promise == INSTANCE ConversationHistory WITH phase <- Phase, history <- streams

(* create says that deleted conversation ids stay unavailable and append   *)
(* that a batch is committed completely or not at all: the cell implements *)
(* ConversationHistory.                                                    *)
KeepsConversationHistory == Promise!Spec
==============================================================================
