---------------------------- MODULE PostgresOutbox ----------------------------
(***************************************************************************)
(* The cloud path from a signed approval to a worker: durable_calendar.py  *)
(* (approve_and_enqueue_calendar, claim_verified_calendar) over            *)
(* postgres_outbox.py in a PostgresCell.  Processes interleave between     *)
(* units of work and die anywhere.                                         *)
(*                                                                         *)
(* A job is identified by its approval (operation_id is fact_id).  A claim *)
(* token is the number of the claim that drew it.  The caller of complete  *)
(* and recover reads its clock before it waits for the lock, so the time   *)
(* of a request (stamp) may be past when its transaction runs.             *)
(***************************************************************************)
EXTENDS PostgresCell

CONSTANTS
    Workers,        \* dispatch processes
    ClaimDuration   \* CLAIM_DURATION

ASSUME OutboxAssumption == ClaimDuration \in Nat \ {0}

VARIABLES
    state,      \* stored proposal state
    consumed,   \* rows of lifeos_consumption
    status,     \* status of each approval's job ("none": no row)
    claims,     \* how often each job was claimed; the last one is its claim_token
    deadline,   \* claim_deadline
    result,     \* whose evidence result_reference is
    hold,       \* the claims each worker believes it has: {} or {<<job, token>>}
    stamp,      \* the clock value of each worker's next request
    sweep       \* and of the recovery sweep, if one is waiting for the lock

proposalVars == <<state, consumed>>
jobVars == <<status, claims, deadline, result>>
workerVars == <<hold, stamp>>
workVars == <<proposalVars, jobVars, workerVars, sweep>>

Jobs == {f \in Proofs : f.kind = "approval"}

(* The CHECK constraint of lifeos_outbox.status: it lists no               *)
(* needs_reconciliation.                                                   *)
Storable == {"queued", "running", "uncertain", "succeeded", "cancelled", "expired"}

Queued == {f \in Jobs : status[f] = "queued"}

WorkInit ==
    /\ state = [p \in Proposals |-> "absent"]
    /\ consumed = {}
    /\ status = [f \in Jobs |-> "none"]
    /\ claims = [f \in Jobs |-> 0]
    /\ deadline = [f \in Jobs |-> 0]
    /\ result = [f \in Jobs |-> "none"]
    /\ hold = [w \in Workers |-> {}]
    /\ stamp = [w \in Workers |-> 0]
    /\ sweep = {}

(* records.create of a calendar.apply proposal; a deleted id is refused.   *)
Create(p) ==
    /\ state[p] = "absent"
    /\ state' = [state EXCEPT ![p] = "proposed"]
    /\ UNCHANGED <<now, consumed, jobVars, workerVars, sweep>>

(* records.delete: every version goes, a tombstone stays.                  *)
Delete(p) ==
    /\ state[p] \in {"proposed", "approved"}
    /\ state' = [state EXCEPT ![p] = "deleted"]
    /\ UNCHANGED <<now, consumed, jobVars, workerVars, sweep>>

Enqueue(f) == status' = [status EXCEPT ![f] = "queued"]

(* approve_and_enqueue_calendar: proof, markers, transition and job commit *)
(* together.  A rejected approval changes nothing.                         *)
Approve(p, f) ==
    /\ state[p] = "proposed"
    /\ ValidProof(f, "approval", p, now, active)
    /\ Unused(consumed, ApproveKeys(consumed, p, f))
    /\ consumed' = consumed \cup ApproveKeys(consumed, p, f)
    /\ state' = [state EXCEPT ![p] = "approved"]
    /\ Enqueue(f)
    /\ UNCHANGED <<now, claims, deadline, result, workerVars, sweep>>

(* mutant: only the stored proposal is checked again                       *)
StillApproved(f, time) == state[f.proposal] = "approved"

(* The recheck of claim_verified_calendar.                                 *)
Revalidated(f, time) ==
    /\ state[f.proposal] = "approved"
    /\ ValidProof(f, "approval", f.proposal, time, active)

ClaimDeadline(f) == IF now + ClaimDuration < f.expires THEN now + ClaimDuration ELSE f.expires

(* claim_verified_calendar, one transaction: queued jobs are taken in      *)
(* operation_id order; the ones past their authorization expire, the ones  *)
(* that fail the recheck are claimed and cancelled (skipped), and the      *)
(* first that passes is returned (taken).  The recheck reads the clock     *)
(* again, later.                                                           *)
Dispatchable(f, later) == f.expires > now /\ Revalidated(f, later)

Dispatch(skipped, taken) ==
    LET claimed == taken \cup {f \in skipped : f.expires > now}
    IN  /\ status' = [f \in Jobs |->
                        IF f \in taken THEN "running"
                        ELSE IF f \notin skipped THEN status[f]
                        ELSE IF f \in claimed THEN "cancelled" ELSE "expired"]
        /\ claims' = [f \in Jobs |-> claims[f] + IF f \in claimed THEN 1 ELSE 0]
        /\ deadline' = [f \in Jobs |-> IF f \in claimed THEN ClaimDeadline(f) ELSE deadline[f]]

ClaimNothing(w, later) ==
    /\ hold[w] = {}
    /\ Queued # {} /\ \A f \in Queued : ~Dispatchable(f, later)
    /\ Dispatch(Queued, {})
    /\ now' = later
    /\ UNCHANGED <<proposalVars, result, workerVars, sweep>>

Claim(w, f, later) ==
    /\ hold[w] = {}
    /\ f \in Queued /\ Dispatchable(f, later)
    /\ \A g \in Queued : g.id < f.id => ~Dispatchable(g, later)
    /\ Dispatch({g \in Queued : g.id < f.id}, {f})
    /\ hold' = [hold EXCEPT ![w] = {<<f, claims[f] + 1>>}]
    /\ stamp' = [stamp EXCEPT ![w] = later]
    /\ now' = later
    /\ UNCHANGED <<proposalVars, result, sweep>>

(* The worker reads its clock for the request it is about to send.         *)
ReadClock(w) ==
    /\ hold[w] # {} /\ stamp[w] < now
    /\ stamp' = [stamp EXCEPT ![w] = now]
    /\ UNCHANGED <<now, proposalVars, jobVars, hold, sweep>>

CurrentClaim(f, token, time) ==
    status[f] = "running" /\ claims[f] = token /\ deadline[f] > time

(* complete: accepted only from the current claim, unexpired at the time   *)
(* of the request; the worker is done with the job either way.             *)
Complete(w) ==
    /\ \E claim \in hold[w] :
        /\ CurrentClaim(claim[1], claim[2], stamp[w])
        /\ status' = [status EXCEPT ![claim[1]] = "succeeded"]
        /\ result' = [result EXCEPT ![claim[1]] = "worker"]
    /\ hold' = [hold EXCEPT ![w] = {}]
    /\ UNCHANGED <<now, proposalVars, claims, deadline, stamp, sweep>>

(* A refused result, or a process that ends: the claim stays in the table. *)
Abandon(w) ==
    /\ hold[w] # {}
    /\ hold' = [hold EXCEPT ![w] = {}]
    /\ UNCHANGED <<now, proposalVars, jobVars, stamp, sweep>>

StartSweep ==
    /\ sweep = {} /\ \E f \in Jobs : status[f] = "running"
    /\ sweep' = {now}
    /\ UNCHANGED <<now, proposalVars, jobVars, workerVars>>

(* mutant: timed-out work is queued again                                  *)
Requeue(f, time) == IF status[f] = "running" /\ deadline[f] <= time THEN "queued" ELSE status[f]

AfterSweep(f, time) ==
    IF status[f] = "running" /\ deadline[f] <= time THEN "needs_reconciliation" ELSE status[f]

(* recover: every running job past its deadline, at the sweep's time.  The *)
(* table refuses the new status, and the error rolls the sweep back.       *)
Recover ==
    /\ \E time \in sweep :
        LET swept == [f \in Jobs |-> AfterSweep(f, time)] IN
        status' = IF \A f \in Jobs : swept[f] \in Storable \cup {"none"} THEN swept ELSE status
    /\ sweep' = {}
    /\ UNCHANGED <<now, proposalVars, claims, deadline, result, workerVars>>

(* reconcile: a trusted reconciler records what the provider shows; a job  *)
(* in any other status is refused.                                         *)
Reconcile(f, outcome) ==
    /\ IF status[f] \in {"uncertain", "needs_reconciliation"}
         THEN /\ status' = [status EXCEPT ![f] = outcome]
              /\ result' = [result EXCEPT ![f] = "reconciler"]
         ELSE UNCHANGED <<status, result>>
    /\ UNCHANGED <<now, proposalVars, claims, deadline, workerVars, sweep>>

------------------------------------------------------------------------------
(* Properties *)

JobsOf(p) == {f \in Jobs : f.proposal = p /\ status[f] # "none"}

(* Approval and job commit together: an approved proposal has exactly one  *)
(* job and a proposal nobody approved has none, whatever is replayed.      *)
ApprovedHasItsJob ==
    \A p \in Proposals :
        /\ state[p] = "approved" => Cardinality(JobsOf(p)) = 1
        /\ state[p] \in {"absent", "proposed"} => JobsOf(p) = {}

(* A job is handed to a worker at most once, however workers and sweeps    *)
(* race or die: its provider effect may already exist.                     *)
HandedOutOnce == \A f \in Jobs : claims[f] <= 1

(* A worker is handed a job only while the proposal is still approved and  *)
(* the signing device still enrolled, and the claim never outlives the     *)
(* approval.                                                               *)
HandOutAuthorized ==
    [][\A w \in Workers : \A claim \in hold'[w] \ hold[w] :
        /\ claim[1].device \in active
        /\ state[claim[1].proposal] = "approved"
        /\ deadline'[claim[1]] <= claim[1].expires]_<<now, deviceVars, workVars>>

(* recover "Mark[s] timed-out running work as needing reconciliation":     *)
(* after a sweep no job is running whose deadline the sweep's time has     *)
(* reached.                                                                *)
SweepMarksTimedOut ==
    [][\A time \in sweep :
        sweep' = {} => \A f \in Jobs : status'[f] = "running" => deadline'[f] > time
      ]_<<now, deviceVars, workVars>>
==============================================================================
