-------------------------- MODULE CapabilityLeases --------------------------
(***************************************************************************)
(* One-shot capability leases (leases.py) and the transitions of a         *)
(* proposal they and the undo facts allow (ProposalLifecycle.apply and     *)
(* revert of authority.py), as operators.  A lease is signed by the key of *)
(* one generation of the key ring and bound to a proposal and its payload. *)
(* TomorrowSlice and AgentWork use it, and share the clock, the enrolled   *)
(* devices and the consumed facts declared here.                           *)
(***************************************************************************)
EXTENDS Authority

CONSTANTS
  LeaseTTL,   \* how long a lease lives
  Rollbacks   \* the undo facts that clients may present

VARIABLES
  deployment, \* what runs in this behaviour, with its bounds, chosen at the start
  now,        \* the clock
  active,     \* the enrolled devices that are not revoked
  consumed,   \* the durable authority_consumption rows
  faults      \* failures so far

authorityVars == <<deployment, now, active, consumed>>

RollbackType == [id : Nat, proposal : Proposals, payload : Proposals, expires : Nat]

ASSUME RollbacksAssumption == Rollbacks \subseteq RollbackType /\ LeaseTTL \in Nat

\* LeaseIssuer.issue, for an approved proposal; the signature is the
\* generation of the key that made it.
Lease(id, p, capability, worker, generation) ==
  [id |-> id, proposal |-> p, payload |-> p, capability |-> capability, worker |-> worker,
   expires |-> now + LeaseTTL, signed |-> generation]

Issues(state) == state = "approved"

\* LeaseIssuer.verify, before it adds the lease to the spent ones.
Verified(lease, p, generation, spent) ==
  /\ lease.signed = generation
  /\ lease.proposal = p
  /\ lease.payload = p
  /\ lease.expires > now
  /\ lease.id \notin spent

ApplyMarker(lease) == <<"apply", lease.id>>
RevertMarker(undo) == <<"revert", undo.id>>

\* ProposalLifecycle.apply
Applies(state, lease, p) ==
  /\ state = "approved"
  /\ lease.proposal = p
  /\ lease.payload = p
  /\ lease.expires > now
  /\ Unused(consumed, {ApplyMarker(lease)})

\* An undo fact is bound to the proposal and its payload, and not expired.
Bound(undo, p) == undo.proposal = p /\ undo.payload = p /\ undo.expires > now

\* ProposalLifecycle.revert
Reverts(state, undo, p) ==
  /\ state = "applied"
  /\ Bound(undo, p)
  /\ Unused(consumed, {RevertMarker(undo)})

AuthorityInit == now = 0 /\ active = Devices /\ consumed = {} /\ faults = 0

Tick == now < deployment.maxTime /\ now' = now + 1 /\ UNCHANGED <<deployment, active, consumed, faults>>

RevokeDevice(d) ==
  /\ d \in active \cap deployment.revocable
  /\ active' = active \ {d}
  /\ UNCHANGED <<deployment, now, consumed, faults>>
=============================================================================
