------------------------- MODULE MCConversationRelay -------------------------
(***************************************************************************)
(* Small instances of ConversationRelay: one or two phones of one user.    *)
(***************************************************************************)
EXTENDS ConversationRelay

CONSTANTS a, b

MCOwner == [d \in {a, b} |-> Participant]

Uses(phones, features, events, asks, stops) ==
    [phones |-> phones, features |-> features, made |-> events, turns |-> asks,
     crashes |-> stops]

(* Voice with deletion and expiry, and with a crash; text with deletion    *)
(* and a crash; the assistant with deletion; one phone's two messages with *)
(* a crash; a third message that the full conversation refuses; two phones *)
(* with a crash where each writes one.                                     *)
Everyday ==
    { Uses({a}, {"voice", "deletion"}, 2, 0, 0), Uses({a}, {"voice"}, 4, 0, 1),
      Uses({a}, {"deletion"}, 2, 0, 1), Uses({a}, {"agent", "deletion"}, 1, 1, 0),
      Uses({a}, {}, 4, 0, 1), Uses({a}, {}, 6, 0, 0), Uses({a, b}, {}, 2, 0, 1) }

(* The same, with more of the assistant and of two phones.                 *)
Busy ==
    Everyday \cup
    { Uses({a}, {"agent", "deletion"}, 2, 1, 0), Uses({a, b}, {}, 4, 0, 0) }

(* One phone alone, with voice or with the assistant.                     *)
VoiceOnly == { Uses({a}, {"voice"}, 3, 0, 0) }
AgentOnly == { Uses({a}, {"agent"}, 2, 1, 0) }
==============================================================================
