------------------------------ MODULE Authority ------------------------------
(***************************************************************************)
(* Signed proofs and one-shot consumption: authority.py (ProposalLifecycle,*)
(* ApprovalMatrix), authority_consumption.py and the enrolment check of    *)
(* enrollment.py, as pure operators over the durable set of consumed       *)
(* markers.  The components that authorize an effect EXTEND this module.   *)
(*                                                                         *)
(* A proof is what one device signed for one proposal.  Its kind is the    *)
(* signing domain ("approval", or "reset" for the lifeos.reset.v1 domain), *)
(* payload names the proposal whose bytes the device saw (the hash), and   *)
(* source is the proof method, of which the approval matrix accepts only   *)
(* "device_signed" for calendar.apply.  Proofs is every proof the          *)
(* environment may present, at any time and any number of times.           *)
(***************************************************************************)
EXTENDS Naturals, FiniteSets

CONSTANTS
    Proposals,  \* record ids of calendar.apply proposals
    Devices,    \* device ids
    Proofs      \* the signed proofs that clients may present

ProofSources == {"device_signed", "voice"}

ProofType ==
    [ id : Nat, kind : {"approval", "reset"}, source : ProofSources,
      proposal : Proposals, payload : Proposals, device : Devices,
      key : Nat, issued : Nat, expires : Nat ]

ASSUME ProofsAssumption == Proofs \subseteq ProofType

(* A marker is the (namespace, identifier) row of authority_consumption.   *)
ApproveMarker(f)     == <<"approve", f.id>>
RoundMarker(p, g)    == <<"approve-proposal", <<p, g>>>>
ApproveKeyMarker(f)  == <<"approve-idempotency", <<f.device, f.key>>>>
RecoverMarker(f)     == <<"recover", f.id>>
ResetRoundMarker(p, f) == <<"reset-round", <<p, f.id>>>>
RecoverKeyMarker(f)  == <<"recover-idempotency", <<f.device, f.key>>>>

Markers ==
    ({"approve", "recover"} \X Nat)
    \cup ({"approve-proposal", "reset-round"} \X (Proposals \X Nat))
    \cup ({"approve-idempotency", "recover-idempotency"} \X (Devices \X Nat))

(* The reset facts of one proposal; their number is its approval round.    *)
ResetRounds(consumed, p) ==
    {m \in consumed : m[1] = "reset-round" /\ m[2][1] = p}

(* mutant: the round is not part of the approval marker                    *)
FirstGeneration(consumed, p) == 0

Generation(consumed, p) == Cardinality(ResetRounds(consumed, p))

(* consume() is all or nothing: it succeeds only if no key was used before.*)
Unused(consumed, keys) == keys \cap consumed = {}

(* ApprovalMatrix.can_approve for the action class calendar.apply.         *)
CanApprove(f) == f.source = "device_signed"

(* require_active_device plus the signature over the exact fields: the     *)
(* proof must have been signed in the domain the endpoint expects.         *)
DeviceSigned(f, kind, active) == f.device \in active /\ f.kind = kind

(* mutant: the proof is not bound to the proposal it was signed for        *)
UnboundProof(f, kind, p, now, active) ==
    CanApprove(f) /\ f.issued <= now /\ f.expires > now /\ DeviceSigned(f, kind, active)

ValidProof(f, kind, p, now, active) ==
    /\ CanApprove(f)
    /\ f.proposal = p
    /\ f.payload = p
    /\ f.expires > now
    /\ f.issued <= now
    /\ f.issued < f.expires
    /\ DeviceSigned(f, kind, active)

ApproveKeys(consumed, p, f) ==
    {ApproveMarker(f), RoundMarker(p, Generation(consumed, p)), ApproveKeyMarker(f)}

(* mutant: resuming a partial plan consumes nothing                        *)
NoKeys(f) == {}

ResumeKeys(f) == {RecoverMarker(f), RecoverKeyMarker(f)}

(* mutant: a reset opens no new approval round                             *)
ResetKeysNoRound(p, f) == {RecoverMarker(f), RecoverKeyMarker(f)}

ResetKeys(p, f) == {RecoverMarker(f), ResetRoundMarker(p, f), RecoverKeyMarker(f)}
==============================================================================
