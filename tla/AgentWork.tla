----------------------------- MODULE AgentWork -----------------------------
(***************************************************************************)
(* Work done under a lease by others than the slice: the Commander and its *)
(* sandbox worker (commander/, workers/), the authority profiles of        *)
(* workers/policy.py, and the staged rollout of rollout.py.  They share    *)
(* one lease issuer.                                                       *)
(*                                                                         *)
(* A proposal is an immutable object in the caller's hands: copies holds   *)
(* every one a caller was given, and any of them can be passed again.  The *)
(* lease issuer's spent leases, the broker's used handles, the             *)
(* cancellations and the sandbox's effects live in memory and are lost in  *)
(* a restart; the consumed facts and the rollout's stage are durable.  A   *)
(* request's canonical payload is the request itself, and RequestOf tells  *)
(* which one a proposal's payload is.                                      *)
(***************************************************************************)
EXTENDS CapabilityLeases, Sequences

CONSTANTS
  RequestOf,    \* the request that is the payload of a proposal, or NoRequest
  ClassOf,      \* the action class of a proposal
  SafePreview,  \* the rollout proposals whose payload is an inert sandbox stage
  NoRequest, NoHandle

VARIABLES
  copies,       \* <<proposal, state>>: the proposal objects callers hold
  leases,       \* every lease issued
  generation,   \* rotations of the signing key
  spent,        \* the issuer's consumed lease ids
  cancelled,    \* the cancelled request ids
  handles,      \* the credential handles the broker's issuer has seen used
  jobs,         \* attempts under way in the sandbox worker
  effects,      \* its effects
  stage,        \* the stored state of a rollout's capability record
  boot,         \* restarts so far
  uses,         \* history: what each verified lease was used for
  applications  \* history: how often a rollout stage was applied

agentVars == <<copies, leases, generation, spent, cancelled, handles, jobs, effects,
               stage, boot, uses, applications>>

Capabilities == {"code.execute", "browser.execute", "computer.execute", "document.execute", "message.send"}
ProtectedCapabilities == Capabilities \ {"code.execute"}
LiveControl == ProtectedCapabilities \ {"message.send"}

\* Unprotected work has no lease.
NoLease == [id |-> 0]

WorkerRequest(id, capability, worker, credentials, withinLimits, timeout) ==
  [id |-> id, capability |-> capability, worker |-> worker, credentials |-> credentials,
   withinLimits |-> withinLimits, timeout |-> timeout]

Effect(n, job) ==
  [n |-> n, request |-> job.request, lease |-> job.lease, handle |-> job.handle,
   status |-> "applied", reconciliation |-> "none"]

AgentInit ==
  /\ copies = {p \in DOMAIN ClassOf : ClassOf[p] # "rollout.apply"} \X {"proposed"}
  /\ leases = {} /\ generation = 0 /\ spent = {}
  /\ cancelled = {} /\ handles = {} /\ jobs = {} /\ effects = {}
  /\ stage = [p \in DOMAIN ClassOf |-> "none"]
  /\ boot = 0 /\ uses = << >>
  /\ applications = [p \in DOMAIN ClassOf |-> 0]

-----------------------------------------------------------------------------
\* Approval, leases and keys.

\* lifecycle.approve: a copy in the state approved is returned to the caller.
ApproveCopy(p, f) ==
  /\ ClassOf[p] # "rollout.apply" /\ p \in deployment.proposals
  /\ <<p, "proposed">> \in copies
  /\ ValidProof(f, "approval", p, now, active)
  /\ Unused(consumed, ApproveKeys(consumed, p, f))
  /\ consumed' = consumed \cup ApproveKeys(consumed, p, f)
  /\ copies' = copies \cup {<<p, "approved">>}
  /\ UNCHANGED <<deployment, now, active, faults, leases, generation, spent, cancelled, handles,
                 jobs, effects, stage, boot, uses, applications>>

Issue(p, state, scope) ==
  /\ <<p, state>> \in copies /\ Issues(state)
  /\ p \in deployment.proposals /\ scope \in deployment.scopes
  /\ Cardinality(leases) < deployment.maxLeases
  /\ leases' = leases \cup
       {Lease(Cardinality(leases) + 1, p, scope.capability, scope.worker, generation)}
  /\ UNCHANGED <<authorityVars, faults, copies, generation, spent, cancelled, handles, jobs, effects,
                 stage, boot, uses, applications>>

Rotate ==
  /\ leases # {} /\ generation < deployment.maxRotations
  /\ generation' = generation + 1
  /\ UNCHANGED <<authorityVars, faults, copies, leases, spent, cancelled, handles, jobs, effects,
                 stage, boot, uses, applications>>

\* verify() passed: the lease is spent.
Spend(lease, by) ==
  /\ spent' = spent \cup {lease.id}
  /\ uses' = Append(uses, [lease |-> lease, by |-> by, boot |-> boot])

\* A new process on the same store and signing key.
Restart ==
  /\ faults < deployment.maxFaults /\ deployment.proposals # {}
  /\ faults' = faults + 1 /\ boot' = boot + 1
  /\ spent' = {} /\ cancelled' = {} /\ handles' = {} /\ jobs' = {} /\ effects' = {}
  /\ UNCHANGED <<authorityVars, copies, leases, generation, stage, uses, applications>>

-----------------------------------------------------------------------------
\* Commander.dispatch

ActionClass(r) == IF r.capability = "message.send" THEN "message.send" ELSE "worker.execute"

Live == deployment.runtime = "live"

\* A capability that needs no lease; live code execution is denied outright.
Unprotected(r) == r.capability \notin ProtectedCapabilities /\ ~Live

\* The checks of _authorization_denial before the lease is verified.
ScopeMatches(r, p, state, lease) ==
  /\ state = "approved"
  /\ ClassOf[p] = ActionClass(r)
  /\ RequestOf[p] = r
  /\ lease.capability = r.capability
  /\ lease.worker = r.worker

Handle(r) == IF r.credentials THEN <<r.id, now>> ELSE NoHandle

\* The broker issues, or refuses a request that names a credential.
Brokered(r) == deployment.broker \/ ~r.credentials

Job(r, lease) == [request |-> r, lease |-> lease, handle |-> Handle(r), started |-> now, admitted |-> FALSE]

\* Past the authorization: the runtime is called, if there is one and the
\* broker issues what the request names.  The lease is spent either way.
Launch(r, lease) ==
  jobs' = IF deployment.runtime # "none" /\ Brokered(r) THEN jobs \cup {Job(r, lease)} ELSE jobs

DispatchProtected(r, p, state, lease) ==
  /\ r \in deployment.requests /\ r.capability \in ProtectedCapabilities
  /\ ~(Live /\ r.capability \in LiveControl /\ r.capability \notin deployment.promoted)
  /\ deployment.issuer /\ <<p, state>> \in copies /\ lease \in leases
  /\ ScopeMatches(r, p, state, lease)
  /\ Verified(lease, p, generation, spent)
  /\ Spend(lease, "dispatch")
  /\ Launch(r, lease)
  /\ UNCHANGED <<authorityVars, faults, copies, leases, generation, cancelled, handles, effects,
                 stage, boot, applications>>

DispatchUnprotected(r) ==
  /\ r \in deployment.requests /\ Unprotected(r)
  /\ Job(r, NoLease) \notin jobs
  /\ Launch(r, NoLease) /\ jobs' # jobs
  /\ UNCHANGED <<authorityVars, faults, copies, leases, generation, spent, cancelled, handles, effects,
                 stage, boot, uses, applications>>

-----------------------------------------------------------------------------
\* SandboxWorker.execute, in two steps: other threads cancel, and time
\* passes, between the admission and the commit.

Allowed(r) ==
  /\ r.withinLimits
  /\ r.capability \in {"browser.execute", "document.execute"}

CredentialAccepted(job) == job.handle = NoHandle \/ job.handle \notin handles

EndAttempt(job) == jobs' = jobs \ {job}

Admit(job) ==
  /\ ~job.admitted
  /\ IF deployment.runtime = "sandbox" /\ Allowed(job.request)
           /\ job.request.id \notin cancelled /\ CredentialAccepted(job)
     THEN /\ jobs' = (jobs \ {job}) \cup {[job EXCEPT !.admitted = TRUE]}
          /\ handles' = handles \cup ({job.handle} \ {NoHandle})
     ELSE EndAttempt(job) /\ UNCHANGED handles
  /\ UNCHANGED <<authorityVars, faults, copies, leases, generation, spent, cancelled, effects,
                 stage, boot, uses, applications>>

Commit(job) ==
  /\ job.admitted
  /\ EndAttempt(job)
  /\ effects' = IF now < job.started + job.request.timeout /\ job.request.id \notin cancelled
                THEN effects \cup {Effect(Cardinality(effects), job)} ELSE effects
  /\ UNCHANGED <<authorityVars, faults, copies, leases, generation, spent, cancelled, handles,
                 stage, boot, uses, applications>>

Cancel(r) ==
  /\ r \in deployment.requests /\ r.id \notin cancelled
  /\ cancelled' = cancelled \cup {r.id}
  /\ UNCHANGED <<authorityVars, faults, copies, leases, generation, spent, handles, jobs, effects,
                 stage, boot, uses, applications>>

Settled(e, status, reconciliation) ==
  /\ effects' = (effects \ {e}) \cup {[e EXCEPT !.status = status, !.reconciliation = reconciliation]}
  /\ UNCHANGED <<authorityVars, faults, copies, leases, generation, spent, cancelled, handles, jobs,
                 stage, boot, uses, applications>>

Compensate(e) == e.status # "compensated" /\ Settled(e, "compensated", e.reconciliation)

\* Its artifact is always found: nothing removes one.
ReconcileEffect(e) == e.status # "reconciled" /\ Settled(e, "reconciled", "matched")

-----------------------------------------------------------------------------
\* AuthorityProfilePolicy.authorize; only autopilot ever allows, and only a
\* calendar rule with everything needed to undo and reconcile it.

LearningRules ==
  [status : {"proposed", "approved", "corrected", "deleted"}, kind : {"calendar_rule", "another"},
   source : {"lifeos.calendar", "another"}]

CalendarRule(rule, p, state, lease, undo, reconciliation) ==
  /\ rule.status = "approved" /\ rule.kind = "calendar_rule" /\ rule.source = "lifeos.calendar"
  /\ state = "approved" /\ ClassOf[p] = "calendar.apply"
  /\ lease.capability = "calendar.apply" /\ lease.worker = "lifeos-calendar"
  /\ Bound(undo, p) /\ Bound(reconciliation, p)

Authorize(p, state, lease, undo, reconciliation) ==
  /\ deployment.issuer /\ p \in deployment.proposals
  /\ <<p, state>> \in copies /\ lease \in leases
  /\ \E rule \in LearningRules : CalendarRule(rule, p, state, lease, undo, reconciliation)
  /\ Verified(lease, p, generation, spent)
  /\ Spend(lease, "autopilot")
  /\ UNCHANGED <<authorityVars, faults, copies, leases, generation, cancelled, handles, jobs, effects,
                 stage, boot, applications>>

-----------------------------------------------------------------------------
\* RolloutCoordinator

Transition(p, state) == stage' = [stage EXCEPT ![p] = state]

ProposeRollout(p) ==
  /\ ClassOf[p] = "rollout.apply" /\ p \in deployment.proposals
  /\ p \in SafePreview /\ stage[p] = "none"
  /\ Transition(p, "proposed")
  /\ copies' = copies \cup {<<p, "proposed">>}
  /\ UNCHANGED <<authorityVars, faults, leases, generation, spent, cancelled, handles, jobs, effects,
                 boot, uses, applications>>

\* The rest of a rollout step after its fact was consumed: the stage moves
\* and the caller gets the new object, or the process fails before that.
Finish(p, state) ==
  \/ Transition(p, state) /\ copies' = copies \cup {<<p, state>>} /\ UNCHANGED faults
  \/ faults < deployment.maxFaults /\ faults' = faults + 1 /\ UNCHANGED <<stage, copies>>

\* The device that signed must also be the one of the mTLS identity, active.
ApproveRollout(p, f) ==
  /\ ClassOf[p] = "rollout.apply" /\ <<p, "proposed">> \in copies
  /\ f.device \in active
  /\ ValidProof(f, "approval", p, now, active)
  /\ Unused(consumed, ApproveKeys(consumed, p, f))
  /\ consumed' = consumed \cup ApproveKeys(consumed, p, f)
  /\ Finish(p, "approved")
  /\ UNCHANGED <<deployment, now, active, leases, generation, spent, cancelled, handles, jobs, effects,
                 boot, uses, applications>>

\* mutant: the lease is only checked in memory
AppliesUnrecorded(state, lease, p) == state = "approved" /\ lease.expires > now

RolloutApplies(state, lease, p) == Applies(state, lease, p)

ApplyRollout(p, state, lease) ==
  /\ ClassOf[p] = "rollout.apply" /\ <<p, state>> \in copies /\ lease \in leases
  /\ p \in SafePreview
  /\ lease.capability = "rollout.stage" /\ lease.worker = "lifeos-rollout"
  /\ Verified(lease, p, generation, spent)
  /\ RolloutApplies(state, lease, p)
  /\ Spend(lease, "rollout")
  /\ consumed' = consumed \cup {ApplyMarker(lease)}
  /\ Finish(p, "applied")
  /\ applications' = [applications EXCEPT ![p] = IF faults' = faults THEN @ + 1 ELSE @]
  /\ UNCHANGED <<deployment, now, active, leases, generation, cancelled, handles, jobs, effects, boot>>

RollbackRollout(p, state, undo) ==
  /\ ClassOf[p] = "rollout.apply" /\ <<p, state>> \in copies
  /\ Reverts(state, undo, p)
  /\ consumed' = consumed \cup {RevertMarker(undo)}
  /\ Finish(p, "reverted")
  /\ UNCHANGED <<deployment, now, active, leases, generation, spent, cancelled, handles, jobs, effects,
                 boot, uses, applications>>
=============================================================================
