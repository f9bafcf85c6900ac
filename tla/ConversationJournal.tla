------------------------- MODULE ConversationJournal -------------------------
(***************************************************************************)
(* The ordering gate of one conversation's event stream                    *)
(* (conversation_api.py, class ConversationJournal).  The gate is a pure   *)
(* object: Accept(j, s, e) is the journal after `accept(event)`, and       *)
(* Rejection(j, s, e) the typed reason the call returns, or NoRejection.   *)
(*                                                                         *)
(* The relay builds a fresh journal inside every append transaction and    *)
(* replays the stored stream through it (ConversationRelay); the channels  *)
(* and the voice session write to one that lives on (ChannelRelay).        *)
(*                                                                         *)
(* A timestamp and a text never decide anything here and are left out.     *)
(***************************************************************************)
EXTENDS Naturals

CONSTANTS
  Home,         \* the conversation the journal is bound to
  Members,      \* conversation.participant_ids
  Owner,        \* device -> participant, for the devices the journal knows
  NoTurn        \* Python's None for a turn id

Transcript == {"transcript_partial", "transcript_final"}

Kinds == Transcript \cup {"cancellation", "resume", "error"}

NoRejection == "accepted"

\* __init__
NewJournal == [next |-> 1, seen |-> {}, open |-> NoTurn, cancelled |-> NoTurn]

\* _envelope_rejection; `state` is conversation.state.  The payload's own kind
\* tag is the event's field `tag`.
EnvelopeRejection(j, state, e) ==
  IF e.conversation # Home THEN "unknown_conversation"
  ELSE IF state # "active" THEN "conversation_closed"
  ELSE IF e.id \in j.seen THEN "duplicate_event"
  ELSE IF e.participant \notin Members THEN "foreign_participant"
  ELSE IF e.device \notin DOMAIN Owner THEN "foreign_device"
  ELSE IF Owner[e.device] # e.participant THEN "device_participant_mismatch"
  ELSE IF e.kind # e.tag THEN "kind_mismatch"
  ELSE IF e.seq # j.next THEN "out_of_order"
  ELSE NoRejection

\* _payload_rejection
PayloadRejection(j, e) ==
  IF e.tag \in Transcript
    THEN IF j.cancelled # NoTurn /\ e.turn = j.cancelled
           THEN "event_after_cancellation"
         ELSE IF j.open = NoTurn /\ e.tag = "transcript_final"
           THEN "final_without_partial"
         ELSE IF j.open # NoTurn /\ e.turn # j.open THEN "turn_closed"
         ELSE NoRejection
  ELSE IF e.tag = "resume" /\ (j.cancelled = NoTurn \/ e.from # j.cancelled)
    THEN "resume_without_cancellation"
  ELSE NoRejection

Rejection(j, state, e) ==
  LET envelope == EnvelopeRejection(j, state, e)
  IN  IF envelope # NoRejection THEN envelope ELSE PayloadRejection(j, e)

\* _apply_payload_state: the open turn and the cancelled turn after an event.
OpenAfter(j, e) ==
  CASE e.tag \in {"transcript_partial", "resume"} -> e.turn
    [] e.tag \in {"transcript_final", "cancellation"} -> NoTurn
    [] OTHER -> j.open

CancelledAfter(j, e) ==
  CASE e.tag = "cancellation" -> e.turn
    [] e.tag = "resume" -> NoTurn
    [] OTHER -> j.cancelled

\* accept: a rejected event leaves the journal as it was.
Accept(j, state, e) ==
  IF Rejection(j, state, e) # NoRejection THEN j
  ELSE [next      |-> j.next + 1,
        seen      |-> j.seen \cup {e.id},
        open      |-> OpenAfter(j, e),
        cancelled |-> CancelledAfter(j, e)]

=============================================================================
