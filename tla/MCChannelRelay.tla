--------------------------- MODULE MCChannelRelay ---------------------------
(***************************************************************************)
(* Small worlds for ChannelRelay.                                          *)
(***************************************************************************)
EXTENDS ChannelRelay

CONSTANTS
  Turns,        \* turn ids of the other devices
  MaxSequence   \* bound: the largest sequence number they offer

MCOwner == [d \in {"phone", "tablet", "bridge"} |-> IF d = "tablet" THEN "q" ELSE "p"]

Sound(n, k, t, f) ==
  [id |-> <<k, n, t>>, conversation |-> Home, participant |-> "p", device |-> "phone",
   seq |-> n, kind |-> k, tag |-> k, turn |-> t, from |-> f]

Transcripts ==
  {Sound(n, k, t, NoTurn) : n \in 1 .. MaxSequence,
                            k \in Transcript \cup {"cancellation"}, t \in Turns}

Resumes ==
  {Sound(n, "resume", t, f) : n \in 1 .. MaxSequence, t \in Turns, f \in Turns}

\* One unsound event per envelope check, each otherwise acceptable, and one
\* that reuses the id of another event.
Unsound ==
  LET e(n) == Sound(n, "transcript_partial", CHOOSE t \in Turns : TRUE, NoTurn)
  IN  UNION {{[e(n) EXCEPT !.conversation = "elsewhere"],
              [e(n) EXCEPT !.participant = "stranger"],
              [e(n) EXCEPT !.device = "unbound"],
              [e(n) EXCEPT !.device = "tablet"],
              [e(n) EXCEPT !.tag = "cancellation"],
              [e(n) EXCEPT !.id = e(1).id]} : n \in 1 .. MaxSequence}

Adapter(kind, binding, deliveries) == [kind |-> kind, binding |-> binding, deliveries |-> deliveries]

\* The gate alone: any event of any device, in any order.
GateWorld ==
  [adapters |-> << >>, external |-> << >>, states |-> {"active", "completed"}, revocable |-> {},
   offers |-> Transcripts \cup Resumes \cup Unsound, maxEvents |-> MaxSequence, maxFaults |-> 0]

\* Two workers serve one Telegram webhook; an update comes back with another text.
ReplicaWorld ==
  [adapters |-> [a \in {"t1", "t2"} |->
                   Adapter("telegram", "b1", {Delivery(1, "chat", "x"), Delivery(1, "chat", "y"), Delivery(2, "chat", "x")})],
   external |-> [b \in {"b1"} |-> "chat"], states |-> {"active"}, revocable |-> {},
   offers |-> {}, maxEvents |-> 0, maxFaults |-> 1]

\* One worker whose connection breaks again while it flushes its queue.
FlushWorld ==
  [adapters |-> [a \in {"t1"} |->
                   Adapter("telegram", "b1", {Delivery(1, "chat", "x"), Delivery(2, "chat", "x"), Delivery(3, "chat", "x")})],
   external |-> [b \in {"b1"} |-> "chat"], states |-> {"active"}, revocable |-> {},
   offers |-> {}, maxEvents |-> 0, maxFaults |-> 3]

\* The identity of a revoked binding is enrolled again under a new one; a
\* stranger writes to the bot; the service account is revoked.
BindingWorld ==
  [adapters |-> [a \in {"t1", "t2"} |->
                   Adapter("telegram", IF a = "t1" THEN "b1" ELSE "b2", {Delivery(1, "chat", "x"), Delivery(2, "other", "x")})],
   external |-> [b \in {"b1", "b2"} |-> "chat"], states |-> {"active"}, revocable |-> {"b1", "b2", "service", "owner"},
   offers |-> {}, maxEvents |-> 0, maxFaults |-> 1]

\* Telegram and web chat share a conversation with a phone that reports
\* errors and cancels.
SharedWorld ==
  [adapters |-> [a \in {"t1", "w1"} |->
                   IF a = "t1" THEN Adapter("telegram", "b1", {Delivery(1, "chat", "x")})
                   ELSE Adapter("webchat", "b3", {Delivery(1, "web", "x")})],
   external |-> [b \in {"b1", "b3"} |-> IF b = "b1" THEN "chat" ELSE "web"],
   states |-> {"active"}, revocable |-> {},
   offers |-> {Sound(n, k, CHOOSE t \in Turns : TRUE, NoTurn) : n \in 2 .. 4, k \in {"error", "cancellation"}},
   maxEvents |-> 4, maxFaults |-> 1]

AllWorlds == {GateWorld, FlushWorld, ReplicaWorld, BindingWorld, SharedWorld}
=============================================================================
