--------------------------- MODULE MCWeekPlanClient ---------------------------
(* Instances of WeekPlanClient for TLC.                                    *)
EXTENDS WeekPlanClient, TLC

CONSTANTS p1, p2

Signed(i, k, p) ==
    [id |-> i, kind |-> k, source |-> "device_signed", proposal |-> p, payload |-> p,
     device |-> Phone, key |-> i, issued |-> 0, expires |-> 1]

OneEventEach == [p \in {p1, p2} |-> 1]

OnePlan == [p \in {p1} |-> 1]
OnePlanProofs == { Signed(1, "approval", p1), Signed(2, "approval", p1), Signed(3, "reset", p1) }

(* A plan that may be approved, recovered and approved again, and one that *)
(* may follow it.                                                          *)
NextPlanProofs == OnePlanProofs \cup {Signed(4, "approval", p2)}

(* Behind a plan asked for with the file unknown, one request at a time is *)
(* under way, and the relay's handler is followed up to the lease; two     *)
(* processes and what they do to the calendar are explored without it.     *)
HastyBound ==
    hasty => /\ \A w \in Workers : pc[w] \in {"idle", "lease", "reply"}
             /\ Cardinality((wire \cup {proof[w] : w \in Workers}) \ {NoJob}) <= 1

(* The relay's processes are interchangeable.                              *)
AlikeWorkers == Permutations(Workers)
==============================================================================
