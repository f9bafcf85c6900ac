------------------------- MODULE ConversationHistory -------------------------
(***************************************************************************)
(* What a conversation service promises its clients, whatever it runs on:  *)
(* a conversation is opened at most once in its life, its history only     *)
(* grows at the end, and a purge takes the whole history and the identity  *)
(* with it.                                                                *)
(***************************************************************************)
EXTENDS Naturals, Sequences

CONSTANT Conversations

VARIABLES
    phase,      \* "absent", "open" or "purged"
    history

Init ==
    /\ phase = [c \in Conversations |-> "absent"]
    /\ history = [c \in Conversations |-> << >>]

Open(c) ==
    /\ phase[c] = "absent"
    /\ phase' = [phase EXCEPT ![c] = "open"]
    /\ UNCHANGED history

Extend(c) ==
    /\ phase[c] = "open"
    /\ Len(history'[c]) > Len(history[c])
    /\ SubSeq(history'[c], 1, Len(history[c])) = history[c]
    /\ \A other \in Conversations \ {c} : history'[other] = history[other]
    /\ UNCHANGED phase

Purge(cs) ==
    /\ \A c \in cs : phase[c] = "open"
    /\ phase' = [c \in Conversations |-> IF c \in cs THEN "purged" ELSE phase[c]]
    /\ history' = [c \in Conversations |-> IF c \in cs THEN << >> ELSE history[c]]

Next ==
    \/ \E c \in Conversations : Open(c) \/ Extend(c)
    \/ \E cs \in SUBSET Conversations : Purge(cs)

Spec == Init /\ [][Next]_<<phase, history>>
=============================================================================
