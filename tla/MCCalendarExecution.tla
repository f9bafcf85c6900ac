------------------------- MODULE MCCalendarExecution -------------------------
(* Instances of CalendarExecution for TLC.                                 *)
EXTENDS CalendarExecution, TLC

CONSTANTS p1, p2, d1, d2

Proof(i, k, p, d, from, until) ==
    [id |-> i, kind |-> k, source |-> "device_signed", proposal |-> p, payload |-> p,
     device |-> d, key |-> i, issued |-> from, expires |-> until]

TwoProposals == {p1, p2}

(* A two-event proposal and an empty one: two approvals and a reset proof  *)
(* of p1, and an approval that names p2 over the payload of p1.           *)
RecoveryEvents == (p1 :> 2) @@ (p2 :> 0)
RecoveryProofs ==
    { Proof(1, "approval", p1, d1, 0, 1), Proof(2, "approval", p1, d1, 0, 2),
      Proof(3, "reset", p1, d1, 0, 1),
      [Proof(4, "approval", p2, d1, 0, 2) EXCEPT !.payload = p1] }
==============================================================================
