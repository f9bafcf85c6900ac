-------------------------- MODULE ProposalAuthority --------------------------
(***************************************************************************)
(* What ProposalLifecycle promises about one calendar.apply proposal,      *)
(* whoever executes it: proposed -> approved -> applied, with a reset back *)
(* to proposed that opens a new approval round, and execution begun only   *)
(* while the proposal is approved.  CalendarExecution implements it.       *)
(***************************************************************************)
EXTENDS Naturals

CONSTANT Proposals

VARIABLES
    state,     \* the stored state of each proposal
    round,     \* how often each proposal was reset
    started    \* proposals whose execution ever began

vars == <<state, round, started>>

Init ==
    /\ state = [p \in Proposals |-> "absent"]
    /\ round = [p \in Proposals |-> 0]
    /\ started = {}

Move(p, from, to) ==
    /\ state[p] = from
    /\ state' = [state EXCEPT ![p] = to]

Propose(p) == Move(p, "absent", "proposed") /\ UNCHANGED <<round, started>>

Approve(p) == Move(p, "proposed", "approved") /\ UNCHANGED <<round, started>>

Execute(p) ==
    /\ state[p] = "approved"
    /\ started' = started \cup {p}
    /\ UNCHANGED <<state, round>>

Apply(p) == Move(p, "approved", "applied") /\ UNCHANGED <<round, started>>

Reset(p) ==
    /\ Move(p, "approved", "proposed")
    /\ round' = [round EXCEPT ![p] = @ + 1]
    /\ UNCHANGED started

Next ==
    \E p \in Proposals : Propose(p) \/ Approve(p) \/ Execute(p) \/ Apply(p) \/ Reset(p)

Spec == Init /\ [][Next]_vars
==============================================================================
