------------------------- MODULE MCVoiceConversation --------------------------
(* Instances of VoiceConversation for TLC.                                 *)
EXTENDS VoiceConversation, TLC

CONSTANTS d1, d2, t1, t2, a, b, p1, user

OneOwner == [d \in Devices |-> user]

(* Two approvals of one replan, the second valid a little later.           *)
TwoApprovals ==
    { [id |-> i, kind |-> "approval", source |-> "device_signed", proposal |-> p1,
       payload |-> p1, device |-> d1, key |-> i, issued |-> 0, expires |-> 9] : i \in 1..2 }

Everyday ==
    { (* one device, two texts for the same turn, reconnects and ends       *)
      Scenario({d1}, {t1}, {a, b}, 2, 2, 4, 4, {"stream", "reconnect", "end"}),
      (* transcripts that reach their deadline                              *)
      Scenario({d1}, {t1}, {a, b}, 3, 2, 2, 4, {"stream", "purge", "end"}),
      (* two devices share the journal                                      *)
      Scenario({d1, d2}, {t1, t2}, {a}, 0, 2, 2, 4, {"stream", "speech"}),
      (* turns, confirmations and reconnects                                *)
      Scenario({d1}, {t1, t2}, {a}, 2, 1, 3, 7, {"turn", "reconnect"}),
      (* consent, revocation, outages and audio                             *)
      Scenario({d1}, {t1}, {a}, 2, 3, 5, 0, {"audio", "outage", "consent", "revoke", "reconnect", "end"}) }
==============================================================================
