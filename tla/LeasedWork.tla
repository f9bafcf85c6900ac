----------------------------- MODULE LeasedWork -----------------------------
(***************************************************************************)
(* Everything that acts under a lease: the tomorrow-planning slice, the    *)
(* Commander and its sandbox worker, the autopilot profile and the staged  *)
(* rollout.  A behaviour has one deployment, which says what of it runs.   *)
(***************************************************************************)
EXTENDS TomorrowSlice, AgentWork

CONSTANT Deployments

vars == <<authorityVars, faults, sliceVars, agentVars>>

Init == deployment \in Deployments /\ AuthorityInit /\ SliceInit /\ AgentInit

Next ==
  \/ Tick /\ UNCHANGED <<sliceVars, agentVars>>
  \/ \E d \in Devices : RevokeDevice(d) /\ UNCHANGED <<sliceVars, agentVars>>
  \/ \E c \in deployment.captures : Preview(c) /\ UNCHANGED agentVars
  \/ \E c \in deployment.captures, p \in DOMAIN PlanOf : Replan(c, p) /\ UNCHANGED agentVars
  \/ \E p \in DOMAIN PlanOf, f \in Proofs : ApproveAndApply(p, f) /\ UNCHANGED agentVars
  \/ \E p \in DOMAIN PlanOf, f \in Proofs : ApproveRefused(p, f) /\ UNCHANGED agentVars
  \/ \E p \in DOMAIN PlanOf, f \in Proofs : ApproveFailed(p, f) /\ UNCHANGED agentVars
  \/ \E p \in DOMAIN PlanOf, r \in Rollbacks : Rollback(p, r) /\ UNCHANGED agentVars
  \/ \E p \in DOMAIN PlanOf, r \in Rollbacks : RollbackFailed(p, r) /\ UNCHANGED agentVars
  \/ \E k \in Keys : ExternalEdit(k) /\ UNCHANGED agentVars
  \/ ExpireSyncTokens /\ UNCHANGED agentVars
  \/ RevokeToken /\ UNCHANGED agentVars
  \/ Reconcile /\ UNCHANGED agentVars
  \/ \E p \in deployment.proposals, f \in Proofs : ApproveCopy(p, f) /\ UNCHANGED sliceVars
  \/ \E c \in copies, s \in deployment.scopes : Issue(c[1], c[2], s) /\ UNCHANGED sliceVars
  \/ Rotate /\ UNCHANGED sliceVars
  \/ Restart /\ UNCHANGED sliceVars
  \/ \E r \in deployment.requests, c \in copies, l \in leases :
       DispatchProtected(r, c[1], c[2], l) /\ UNCHANGED sliceVars
  \/ \E r \in deployment.requests : DispatchUnprotected(r) /\ UNCHANGED sliceVars
  \/ \E j \in jobs : Admit(j) /\ UNCHANGED sliceVars
  \/ \E j \in jobs : Commit(j) /\ UNCHANGED sliceVars
  \/ \E r \in deployment.requests : Cancel(r) /\ UNCHANGED sliceVars
  \/ \E e \in effects : Compensate(e) /\ UNCHANGED sliceVars
  \/ \E e \in effects : ReconcileEffect(e) /\ UNCHANGED sliceVars
  \/ \E c \in copies, l \in leases, u \in Rollbacks, v \in Rollbacks :
       Authorize(c[1], c[2], l, u, v) /\ UNCHANGED sliceVars
  \/ \E p \in deployment.proposals : ProposeRollout(p) /\ UNCHANGED sliceVars
  \/ \E p \in deployment.proposals, f \in Proofs : ApproveRollout(p, f) /\ UNCHANGED sliceVars
  \/ \E c \in copies, l \in leases : ApplyRollout(c[1], c[2], l) /\ UNCHANGED sliceVars
  \/ \E c \in copies, u \in Rollbacks : RollbackRollout(c[1], c[2], u) /\ UNCHANGED sliceVars

Spec == Init /\ [][Next]_vars

-----------------------------------------------------------------------------
ChangesOf(k) == SelectSeq(changes, LAMBDA c : c.key = k)
ApprovedOnce(p) == RoundMarker(p, 0) \in consumed

\* An applied proposal has written each of its events itself, and what has
\* happened to it since is a user's edit, the write or the rollback of
\* another approved proposal, or its own rollback cut short by a failure
\* (slice/service.py:238-241, google_calendar.py:85-103).
AppliedWasWritten ==
  \A p \in DOMAIN PlanOf : record[p] = "applied" =>
    \A i \in DOMAIN PlanOf[p] :
      LET log == ChangesOf(PlanOf[p][i].key)
          last == log[Len(log)]
      IN  /\ \E j \in DOMAIN log : log[j].event = Desired(p, i) /\ ~log[j].deleted
          /\ last.event.proposal # p => ApprovedOnce(last.event.proposal)
          /\ last.event.proposal = p /\ last.deleted => faults > 0

\* Only an approved proposal has events on the calendar, and one recorded as
\* reverted has none left, whatever failed or was previewed again on the way
\* (slice/service.py:273-283).
RevertedLeavesNothing ==
  \A k \in Keys : events[k] # NoEvent =>
    ApprovedOnce(events[k].proposal) /\ record[events[k].proposal] # "reverted"

\* A mirror at the provider's generation is the calendar: incremental
\* synchronization loses no edit and no deletion, through expired tokens
\* (google_calendar.py:110-136, google_calendar_sandbox.py:136-161).
MirrorIsExact == mirror.token = Len(changes) => mirror.events = events

\* Within one life of the process a lease is used once, by the Commander, the
\* autopilot or the rollout, under a consumed device approval; an effect of
\* the sandbox worker has a lease and a credential handle of its own, for the
\* very request that was approved (leases.py:139-157, dispatch.py:134-148).
UsesAreBacked ==
  /\ \A i, j \in DOMAIN uses :
       uses[i].lease = uses[j].lease /\ uses[i].boot = uses[j].boot => i = j
  /\ \A i \in DOMAIN uses : ApprovedOnce(uses[i].lease.proposal)
  /\ \A e \in effects :
       /\ e.lease # NoLease /\ RequestOf[e.lease.proposal] = e.request
       /\ \E i \in DOMAIN uses : uses[i] = [lease |-> e.lease, by |-> "dispatch", boot |-> boot]
       /\ \A x \in effects \ {e} : x.lease # e.lease /\ (x.handle # e.handle \/ e.handle = NoHandle)

\* Each application of a rollout stage has used up a lease of its own,
\* durably: a restart forgets the issuer's spent leases but not these
\* (rollout.py:141-143).
ApplicationsSpendLeases ==
  \A p \in DOMAIN ClassOf :
    applications[p] <= Cardinality({l \in leases : l.proposal = p /\ ApplyMarker(l) \in consumed})
=============================================================================
