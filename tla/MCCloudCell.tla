----------------------------- MODULE MCCloudCell -----------------------------
(* Instances of CloudCell for TLC.                                         *)
EXTENDS CloudCell, TLC

CONSTANTS p1, p2, d1, d2, d3, alice, bob, c1, c2

Approval(i, p, d, from, until) ==
    [id |-> i, kind |-> "approval", source |-> "device_signed", proposal |-> p, payload |-> p,
     device |-> d, key |-> i, issued |-> from, expires |-> until]

(* Two approvals of p1 compete; the one of p2 comes from another device    *)
(* and lies between them in operation_id order.                            *)
CompetingApprovals ==
    { Approval(1, p1, d1, 0, 3), Approval(2, p2, d2, 0, 2), Approval(3, p1, d2, 0, 2) }

(* d3 presents the key of d2.                                              *)
Keys == (d1 :> "k1") @@ (d2 :> "k2") @@ (d3 :> "k2")

People == {[participant |-> alice, name |-> "a"], [participant |-> alice, name |-> "b"],
           [participant |-> bob, name |-> "c"]}

Said(id, c, d, n, tag, turn, from) ==
    [id |-> id, conversation |-> c, participant |-> alice, device |-> d, seq |-> n,
     kind |-> tag, tag |-> tag, turn |-> turn, from |-> from]

Question == <<Said(1, c1, d1, 1, "transcript_partial", 1, NoTurnYet),
              Said(2, c1, d1, 2, "transcript_final", 1, NoTurnYet)>>

(* The question, grown by a second turn that races the one of d2; a turn   *)
(* that is cancelled and resumed; an id of the first conversation used     *)
(* again in the second; another event under a stored id.                   *)
Conversing ==
    { Question,
      Append(Question, Said(3, c1, d1, 3, "transcript_partial", 2, NoTurnYet)),
      <<Said(4, c1, d2, 3, "transcript_partial", 3, NoTurnYet)>>,
      <<Said(5, c1, d2, 4, "cancellation", 3, NoTurnYet)>>,
      <<Said(6, c1, d2, 5, "resume", 4, 3)>>,
      <<Said(1, c2, d1, 1, "transcript_partial", 1, NoTurnYet)>>,
      <<Said(2, c1, d1, 1, "transcript_partial", 1, NoTurnYet)>> }
==============================================================================
