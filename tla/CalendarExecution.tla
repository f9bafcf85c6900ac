-------------------------- MODULE CalendarExecution --------------------------
(***************************************************************************)
(* Approval, execution and crash recovery of week plans: week_planning.py, *)
(* durable_calendar.py, google_calendar.py, google_calendar_operations.py  *)
(* and google_calendar_live.py, run by several relay processes (Workers)   *)
(* against one encrypted database, one Keychain and one Google calendar.   *)
(*                                                                         *)
(* A worker's pc names the next call of its request handler.  Everything   *)
(* from the first database transaction to the last is done under the       *)
(* calendar flock; a crash drops the lock and the handler's locals and     *)
(* keeps what was committed.  The user may edit or delete events, and the  *)
(* calendar itself, between any two calls.                                 *)
(*                                                                         *)
(* An event is identified by its proposal and its index: event keys are    *)
(* week_<proposal>_<index> and the provider id is a hash of the key.  In   *)
(* remote, "ours" has exactly the planned content and ownership, "edited"  *)
(* is any other live event under that id, "gone" one that was deleted      *)
(* (Google keeps its id: an insert answers 409 and a read "cancelled").    *)
(***************************************************************************)
EXTENDS Authority

CONSTANTS
    Workers,      \* relay processes
    EventCount,   \* events in each proposal's payload
    MaxAttempts,  \* CalendarAdapterConfig.max_attempts
    MaxTime,      \* bound on the clock
    NoJob         \* the job of an idle worker

ASSUME CalendarAssumption ==
    /\ EventCount \in [Proposals -> Nat]
    /\ MaxAttempts \in Nat \ {0}
    /\ MaxTime \in Nat

VARIABLES
    now,        \* clock.now()
    active,     \* devices enrolled and not revoked
    state,      \* stored proposal state ("absent": not created yet)
    consumed,   \* rows of authority_consumption
    leases,     \* leases consumed under each proof (lease.idempotency_key is its id)
    evidence,   \* outcomes of the Execution records of each proposal
    lock,       \* holder of the calendar flock: a set of at most one worker
    calendarId, \* Keychain: "kept" once a created calendar's id is stored
    guard,      \* Keychain: "pending" from before a creation until its id is stored
    calendar,   \* whether that calendar is "live" at Google
    remote,     \* the events at Google
    inflight,   \* inserts given up on that Google has not processed yet
    pc,         \* next call of each worker
    serving,    \* the proposal each worker serves
    proof,      \* and the proof it was sent
    plan,       \* the diff each worker computed from its last sync
    next,       \* index of the next event to write
    tries,      \* attempts made for that event
    reply       \* the answer of the request

proposalVars == <<state, consumed, leases, evidence>>
calendarVars == <<calendarId, guard, calendar>>
googleVars == <<calendarVars, remote, inflight>>
jobVars == <<serving, proof>>
localVars == <<plan, next, tries>>
vars == <<now, active, proposalVars, lock, googleVars, pc, jobVars, localVars, reply>>

Events(p) == 1 .. EventCount[p]

States == {"absent", "proposed", "approved", "applied"}
Contents == {"none", "ours", "edited", "gone"}
Operations == {"INSERT", "NOOP", "EXTERNAL_EDIT"}
Outcomes == {"applied", "reset", "partial", "conflict"}
Replies == Outcomes \cup {"none", "unknown", "stale", "policy", "contract", "unavailable"}

(* Calls that reach Google while an approved plan executes.                *)
ExecuteCalls == {"find", "create", "sync", "write"}
Calls == {"idle", "reconcile", "decide", "resume", "lease", "mark", "reply"} \cup ExecuteCalls

(* A recovery holds BEGIN IMMEDIATE from its first read to its commit.     *)
DatabaseFree == \A w \in Workers : pc[w] \notin {"reconcile", "decide"}

(***************************************************************************)
(* google_calendar_operations.py, _operation: what one event needs, given  *)
(* what the sync found.  A deleted event was popped by sync, so it reads   *)
(* as missing.  UPDATE needs an owned event with another payload hash,     *)
(* which proposal-specific event keys exclude here.                        *)
(***************************************************************************)
Operation(content) ==
    IF content \in {"none", "gone"} THEN "INSERT"
    ELSE IF content = "ours" THEN "NOOP" ELSE "EXTERNAL_EDIT"

Diff(p) == [e \in Events(p) |-> Operation(remote[p][e])]

(* find_calendar: a 404 for the retained id clears it.                     *)
Found == calendarId = "kept" /\ calendar = "live"
FindSteps ==
    /\ calendarId' = IF Found THEN "kept" ELSE "none"
    /\ UNCHANGED <<guard, calendar>>

(* mutant: requests do not wait for the flock                              *)
LockIgnored == TRUE

(* calendar_execution_lock: a request enters only when nobody holds it.    *)
LockFree == lock = {}

DropLocals(w) ==
    /\ plan' = [plan EXCEPT ![w] = << >>]
    /\ next' = [next EXCEPT ![w] = 1]
    /\ tries' = [tries EXCEPT ![w] = 0]

(* The handler answers; leaving the with-block releases the flock, and the *)
(* locals of the handler die with it.                                      *)
Finish(w, answer) ==
    /\ pc' = [pc EXCEPT ![w] = "reply"]
    /\ reply' = [reply EXCEPT ![w] = answer]
    /\ lock' = lock \ {w}
    /\ DropLocals(w)

Serve(w, p, f) ==
    /\ serving' = [serving EXCEPT ![w] = p]
    /\ proof' = [proof EXCEPT ![w] = f]

Goto(w, call) ==
    /\ pc' = [pc EXCEPT ![w] = call]
    /\ UNCHANGED <<reply, lock>>

Init ==
    /\ now = 0
    /\ active = Devices
    /\ state = [p \in Proposals |-> "absent"]
    /\ consumed = {}
    /\ leases = [f \in Proofs |-> 0]
    /\ evidence = [p \in Proposals |-> {}]
    /\ lock = {}
    /\ calendarId = "none" /\ guard = "clear" /\ calendar = "absent"
    /\ remote = [p \in Proposals |-> [e \in Events(p) |-> "none"]]
    /\ inflight = [p \in Proposals |-> {}]
    /\ pc = [w \in Workers |-> "idle"]
    /\ serving = [w \in Workers |-> NoJob]
    /\ proof = [w \in Workers |-> NoJob]
    /\ plan = [w \in Workers |-> << >>]
    /\ next = [w \in Workers |-> 1]
    /\ tries = [w \in Workers |-> 0]
    /\ reply = [w \in Workers |-> "none"]

------------------------------------------------------------------------------
(* Requests *)

(* preview: the proposal is stored before the dry run, whose sync may find *)
(* the retained calendar gone, or fail before it learns anything.          *)
Preview(p) ==
    /\ state[p] = "absent"
    /\ DatabaseFree
    /\ state' = [state EXCEPT ![p] = "proposed"]
    /\ FindSteps \/ UNCHANGED calendarVars
    /\ UNCHANGED <<now, active, consumed, leases, evidence, lock, remote, inflight,
                   pc, jobVars, localVars, reply>>

(* approve_and_apply, first transaction: state, device and proof checks,   *)
(* the three markers and the transition commit together.                   *)
ApproveAllowed(d, p, f) ==
    /\ state[p] = "proposed"
    /\ f.device = d
    /\ ValidProof(f, "approval", p, now, active)
    /\ Unused(consumed, ApproveKeys(consumed, p, f))

Approve(w, d, p, f) ==
    /\ pc[w] = "idle" /\ LockFree
    /\ ApproveAllowed(d, p, f)
    /\ consumed' = consumed \cup ApproveKeys(consumed, p, f)
    /\ state' = [state EXCEPT ![p] = "approved"]
    /\ Serve(w, p, f)
    /\ pc' = [pc EXCEPT ![w] = "lease"]
    /\ lock' = {w}
    /\ UNCHANGED <<now, active, leases, evidence, googleVars, localVars, reply>>

RejectApproval(w, d, p, f) ==
    /\ pc[w] = "idle" /\ LockFree
    /\ ~ApproveAllowed(d, p, f)
    /\ Serve(w, p, f)
    /\ Finish(w, IF state[p] = "absent" THEN "unknown"
                 ELSE IF state[p] # "proposed" THEN "stale" ELSE "policy")
    /\ UNCHANGED <<now, active, proposalVars, googleVars>>

(* recover_interrupted_apply: the checks before the provider is read.      *)
RecoverAllowed(d, p, f) ==
    /\ f.device = d
    /\ state[p] = "approved"
    /\ ValidProof(f, "reset", p, now, active)

Recover(w, d, p, f) ==
    /\ pc[w] = "idle" /\ LockFree
    /\ RecoverAllowed(d, p, f)
    /\ Serve(w, p, f)
    /\ pc' = [pc EXCEPT ![w] = "reconcile"]
    /\ lock' = {w}
    /\ UNCHANGED <<now, active, proposalVars, googleVars, localVars, reply>>

RejectRecovery(w, d, p, f) ==
    /\ pc[w] = "idle" /\ LockFree
    /\ ~RecoverAllowed(d, p, f)
    /\ Serve(w, p, f)
    /\ Finish(w, IF f.device = d /\ state[p] # "approved" THEN "stale" ELSE "policy")
    /\ UNCHANGED <<now, active, proposalVars, googleVars>>

(* The response leaves the relay.                                          *)
Respond(w) ==
    /\ pc[w] = "reply"
    /\ pc' = [pc EXCEPT ![w] = "idle"]
    /\ reply' = [reply EXCEPT ![w] = "none"]
    /\ Serve(w, NoJob, NoJob)
    /\ UNCHANGED <<now, active, proposalVars, lock, googleVars, localVars>>

------------------------------------------------------------------------------
(* Recovery: reconcile_interrupted_apply and the resumption of a partial   *)
(* plan                                                                    *)

(* adapter.reconcile reads the calendar inside the open transaction.       *)
Reconcile(w) ==
    /\ pc[w] = "reconcile"
    /\ FindSteps
    /\ plan' = [plan EXCEPT ![w] = Diff(serving[w])]
    /\ Goto(w, "decide")
    /\ UNCHANGED <<now, active, proposalVars, remote, inflight, jobVars, next, tries>>

Some(w, op) == \E e \in DOMAIN plan[w] : plan[w][e] = op

(* lifecycle.reset validates the proof again, at the current time.         *)
ResetAllowed(w) ==
    /\ ValidProof(proof[w], "reset", serving[w], now, active)
    /\ Unused(consumed, ResetKeys(serving[w], proof[w]))

Record(p, outcome) == evidence' = [evidence EXCEPT ![p] = @ \cup {outcome}]

DecideConflict(w) ==
    /\ pc[w] = "decide" /\ Some(w, "EXTERNAL_EDIT")
    /\ Record(serving[w], "conflict")
    /\ Finish(w, "conflict")
    /\ UNCHANGED <<now, active, state, consumed, leases, googleVars, jobVars>>

(* Nothing is missing (an empty payload included).                         *)
DecideApplied(w) ==
    /\ pc[w] = "decide" /\ ~Some(w, "EXTERNAL_EDIT") /\ ~Some(w, "INSERT")
    /\ Record(serving[w], "applied")
    /\ state' = [state EXCEPT ![serving[w]] = "applied"]
    /\ Finish(w, "applied")
    /\ UNCHANGED <<now, active, consumed, leases, googleVars, jobVars>>

ZeroEffects(w) ==
    ~Some(w, "EXTERNAL_EDIT") /\ Some(w, "INSERT") /\ ~Some(w, "NOOP")

DecideReset(w) ==
    /\ pc[w] = "decide" /\ ZeroEffects(w) /\ ResetAllowed(w)
    /\ consumed' = consumed \cup ResetKeys(serving[w], proof[w])
    /\ Record(serving[w], "reset")
    /\ state' = [state EXCEPT ![serving[w]] = "proposed"]
    /\ Finish(w, "reset")
    /\ UNCHANGED <<now, active, leases, googleVars, jobVars>>

RejectReset(w) ==
    /\ pc[w] = "decide" /\ ZeroEffects(w) /\ ~ResetAllowed(w)
    /\ Finish(w, "policy")
    /\ UNCHANGED <<now, active, proposalVars, googleVars, jobVars>>

DecidePartial(w) ==
    /\ pc[w] = "decide"
    /\ ~Some(w, "EXTERNAL_EDIT") /\ Some(w, "INSERT") /\ Some(w, "NOOP")
    /\ Record(serving[w], "partial")
    /\ Goto(w, "resume")
    /\ UNCHANGED <<now, active, state, consumed, leases, googleVars, jobVars, localVars>>

(* The signed recovery pays for one more execution of the same payload;    *)
(* its consumption commits before any provider effect.                     *)
Resume(w) ==
    /\ pc[w] = "resume" /\ Unused(consumed, ResumeKeys(proof[w]))
    /\ consumed' = consumed \cup ResumeKeys(proof[w])
    /\ Goto(w, "lease")
    /\ UNCHANGED <<now, active, state, leases, evidence, googleVars, jobVars, localVars>>

RejectResume(w) ==
    /\ pc[w] = "resume" /\ ~Unused(consumed, ResumeKeys(proof[w]))
    /\ Finish(w, "policy")
    /\ UNCHANGED <<now, active, proposalVars, googleVars, jobVars>>

------------------------------------------------------------------------------
(* Execution: _execute_approved and GoogleCalendarAdapter.apply            *)

(* One transaction issues, verifies and consumes a fresh lease.            *)
Lease(w) ==
    /\ pc[w] = "lease"
    /\ leases' = [leases EXCEPT ![proof[w]] = @ + 1]
    /\ Goto(w, "find")
    /\ UNCHANGED <<now, active, state, consumed, evidence, googleVars, jobVars, localVars>>

FindCalendar(w) ==
    /\ pc[w] = "find"
    /\ FindSteps
    /\ Goto(w, IF Found THEN "sync" ELSE "create")
    /\ UNCHANGED <<now, active, proposalVars, remote, inflight, jobVars, localVars>>

(* create_calendar: the guard is persisted before the insert is sent, so   *)
(* that a guard left by an earlier attempt refuses another one.  Only a    *)
(* response whose id was saved clears it; an attempt may fail before its   *)
(* id is saved or right after.  CalendarIdentity has the steps.            *)
RefuseCreate(w) ==
    /\ pc[w] = "create" /\ guard = "pending"
    /\ Finish(w, "contract")
    /\ UNCHANGED <<now, active, proposalVars, googleVars, jobVars>>

CreateCalendar(w) ==
    /\ pc[w] = "create" /\ guard = "clear"
    /\ calendarId' = "kept" /\ guard' = "clear" /\ calendar' = "live"
    /\ Goto(w, "sync")
    /\ UNCHANGED <<now, active, proposalVars, remote, inflight, jobVars, localVars>>

LoseCreate(w) ==
    /\ pc[w] = "create" /\ guard = "clear"
    /\ guard' = "pending"
    /\ \/ UNCHANGED <<calendarId, calendar>>
       \/ calendarId' = "kept" /\ calendar' = "live"
    /\ \E answer \in {"contract", "unavailable"} : Finish(w, answer)
    /\ UNCHANGED <<now, active, proposalVars, remote, inflight, jobVars>>

(* sync(None), then the diff the write loop follows.                       *)
Sync(w) ==
    /\ pc[w] = "sync"
    /\ FindSteps
    /\ plan' = [plan EXCEPT ![w] = Diff(serving[w])]
    /\ Goto(w, "write")
    /\ UNCHANGED <<now, active, proposalVars, remote, inflight, jobVars, next, tries>>

(* mutant: the loop stops one event early                                  *)
LoopDoneEarly(w) == pc[w] = "write" /\ next[w] + 1 \notin DOMAIN plan[w]

LoopDone(w) == pc[w] = "write" /\ next[w] \notin DOMAIN plan[w]

(* A request to Google fails: no effect.                                   *)
ProviderFails(w) ==
    /\ pc[w] \in {"reconcile", "find", "sync"} \/ LoopDone(w)
    /\ IF pc[w] = "reconcile" THEN Finish(w, "unavailable")
       ELSE \E answer \in {"contract", "unavailable"} : Finish(w, answer)
    /\ UNCHANGED <<now, active, proposalVars, googleVars, jobVars>>

Current(w) == remote[serving[w]][next[w]]
Writing(w) == pc[w] = "write" /\ next[w] \in DOMAIN plan[w]
Inserting(w) == Writing(w) /\ plan[w][next[w]] = "INSERT"

Advance(w) ==
    /\ next' = [next EXCEPT ![w] = @ + 1]
    /\ tries' = [tries EXCEPT ![w] = 0]
    /\ UNCHANGED <<plan, pc, reply, lock>>

SkipEvent(w) ==
    /\ Writing(w) /\ plan[w][next[w]] = "NOOP"
    /\ Advance(w)
    /\ UNCHANGED <<now, active, proposalVars, googleVars, jobVars>>

(* The diff said EXTERNAL_EDIT: the loop stops where it is.                *)
RefuseOverwrite(w) ==
    /\ Writing(w) /\ plan[w][next[w]] = "EXTERNAL_EDIT"
    /\ Finish(w, "contract")
    /\ UNCHANGED <<now, active, proposalVars, googleVars, jobVars>>

(* What an insert leaves at Google: ids are deterministic, so it creates   *)
(* the event only where the id was never used.                             *)
(* mutant: an insert overwrites whatever the id holds                      *)
AfterOverwrite(p, e) == [remote EXCEPT ![p][e] = "ours"]

AfterInsert(p, e) ==
    [remote EXCEPT ![p][e] = IF @ = "none" THEN "ours" ELSE @]

(* The insert answers, or a 409 is resolved by reading the existing event; *)
(* what comes back is compared with what was asked for.                    *)
WriteEvent(w) ==
    /\ Inserting(w) /\ Found /\ Current(w) \in {"none", "ours"}
    /\ remote' = AfterInsert(serving[w], next[w])
    /\ Advance(w)
    /\ UNCHANGED <<now, active, proposalVars, calendarVars, inflight, jobVars>>

RejectWrite(w) ==
    /\ Inserting(w) /\ (~Found \/ Current(w) \in {"edited", "gone"})
    /\ Finish(w, "contract")
    /\ UNCHANGED <<now, active, proposalVars, googleVars, jobVars>>

(* mutant: behind the last attempt the counting starts again               *)
RetryForever(w) ==
    /\ Inserting(w) /\ Found
    /\ remote' \in {remote, AfterInsert(serving[w], next[w])}
    /\ tries' = [tries EXCEPT ![w] = (@ + 1) % MaxAttempts]
    /\ UNCHANGED <<plan, next, pc, reply, lock>>
    /\ UNCHANGED <<now, active, proposalVars, calendarVars, inflight, jobVars>>

(* A transient status, before or after the event was stored, is retried.   *)
RetryWrite(w) ==
    /\ Inserting(w) /\ Found
    /\ remote' \in {remote, AfterInsert(serving[w], next[w])}
    /\ IF tries[w] + 1 = MaxAttempts
       THEN Finish(w, "unavailable")
       ELSE /\ tries' = [tries EXCEPT ![w] = @ + 1]
            /\ UNCHANGED <<plan, next, pc, reply, lock>>
    /\ UNCHANGED <<now, active, proposalVars, calendarVars, inflight, jobVars>>

(* The connection is lost: the insert was stored, or never arrives, or is  *)
(* still on its way when the handler gives up.                             *)
LoseWrite(w) ==
    /\ Inserting(w) /\ Found
    /\ \/ remote' \in {remote, AfterInsert(serving[w], next[w])} /\ UNCHANGED inflight
       \/ /\ inflight' = [inflight EXCEPT ![serving[w]] = @ \cup {next[w]}]
          /\ UNCHANGED remote
    /\ Finish(w, "unavailable")
    /\ UNCHANGED <<now, active, proposalVars, calendarVars, jobVars>>

(* The loop is over; the sync for the result must succeed as well.         *)
FinalSync(w) ==
    /\ LoopDone(w)
    /\ FindSteps
    /\ Goto(w, "mark")
    /\ UNCHANGED <<now, active, proposalVars, remote, inflight, jobVars, localVars>>

MarkApplied(w) ==
    /\ pc[w] = "mark"
    /\ state' = [state EXCEPT ![serving[w]] = "applied"]
    /\ Finish(w, "applied")
    /\ UNCHANGED <<now, active, consumed, leases, evidence, googleVars, jobVars>>

------------------------------------------------------------------------------
(* The environment *)

(* The process dies at any point; the OS releases its flock and an open    *)
(* transaction is rolled back.                                             *)
Crash(w) ==
    /\ pc[w] # "idle"
    /\ pc' = [pc EXCEPT ![w] = "idle"]
    /\ reply' = [reply EXCEPT ![w] = "none"]
    /\ Serve(w, NoJob, NoJob)
    /\ lock' = lock \ {w}
    /\ DropLocals(w)
    /\ UNCHANGED <<now, active, proposalVars, googleVars>>

Land(p, e) ==
    /\ e \in inflight[p]
    /\ inflight' = [inflight EXCEPT ![p] = @ \ {e}]
    /\ remote' = AfterInsert(p, e)
    /\ UNCHANGED <<now, active, proposalVars, lock, calendarVars, pc, jobVars, localVars, reply>>

UserChanges(p, e) ==
    /\ remote[p][e] \in {"ours", "edited"}
    /\ \E content \in {"edited", "gone"} : remote' = [remote EXCEPT ![p][e] = content]
    /\ UNCHANGED <<now, active, proposalVars, lock, calendarVars, inflight, pc, jobVars, localVars,
                   reply>>

UserDeletesCalendar ==
    /\ calendar = "live"
    /\ calendar' = "absent"
    /\ remote' = [p \in Proposals |-> [e \in Events(p) |-> "none"]]
    /\ inflight' = [p \in Proposals |-> {}]
    /\ UNCHANGED <<now, active, proposalVars, lock, calendarId, guard, pc, jobVars, localVars,
                   reply>>

(* google_calendar_status.py --clear-pending-creation                      *)
OperatorClearsGuard ==
    /\ guard = "pending"
    /\ guard' = "clear"
    /\ UNCHANGED <<now, active, proposalVars, lock, calendarId, calendar, remote, inflight, pc,
                   jobVars, localVars, reply>>

Revoke(d) ==
    /\ d \in active /\ DatabaseFree
    /\ active' = active \ {d}
    /\ UNCHANGED <<now, proposalVars, lock, googleVars, pc, jobVars, localVars, reply>>

Tick ==
    /\ now < MaxTime
    /\ now' = now + 1
    /\ UNCHANGED <<active, proposalVars, lock, googleVars, pc, jobVars, localVars, reply>>

Request(w) ==
    \E d \in Devices, p \in Proposals, f \in Proofs :
        \/ Approve(w, d, p, f) \/ RejectApproval(w, d, p, f)
        \/ Recover(w, d, p, f) \/ RejectRecovery(w, d, p, f)

Recovery(w) ==
    \/ Reconcile(w) \/ DecideConflict(w) \/ DecideApplied(w) \/ DecideReset(w)
    \/ RejectReset(w) \/ DecidePartial(w) \/ Resume(w) \/ RejectResume(w)

Execution(w) ==
    \/ Lease(w) \/ FindCalendar(w) \/ RefuseCreate(w) \/ CreateCalendar(w) \/ LoseCreate(w)
    \/ Sync(w) \/ ProviderFails(w) \/ SkipEvent(w) \/ RefuseOverwrite(w) \/ WriteEvent(w)
    \/ RejectWrite(w) \/ RetryWrite(w) \/ LoseWrite(w) \/ FinalSync(w) \/ MarkApplied(w)

User ==
    \/ \E p \in Proposals : Preview(p) \/ \E e \in Events(p) : Land(p, e) \/ UserChanges(p, e)
    \/ UserDeletesCalendar \/ OperatorClearsGuard
    \/ \E d \in Devices : Revoke(d)

Next ==
    \/ \E w \in Workers : Request(w) \/ Recovery(w) \/ Execution(w) \/ Respond(w) \/ Crash(w)
    \/ User
    \/ Tick

Spec == Init /\ [][Next]_vars

(* A relay process goes on with the request it serves, unless it crashes;  *)
(* nothing is assumed of the callers, of Google or of the user.            *)
FairSpec == Spec /\ \A w \in Workers : WF_vars(Recovery(w) \/ Execution(w) \/ Respond(w))

------------------------------------------------------------------------------
(* Properties *)

(* Every variable has the shape the code gives it.                         *)
TypeOK ==
    /\ now \in 0 .. MaxTime
    /\ active \subseteq Devices
    /\ state \in [Proposals -> States]
    /\ consumed \subseteq Markers
    /\ leases \in [Proofs -> Nat]
    /\ evidence \in [Proposals -> SUBSET Outcomes]
    /\ lock \subseteq Workers
    /\ calendarId \in {"none", "kept"}
    /\ guard \in {"clear", "pending"}
    /\ calendar \in {"absent", "live"}
    /\ DOMAIN remote = Proposals
    /\ \A p \in Proposals : remote[p] \in [Events(p) -> Contents]
    /\ DOMAIN inflight = Proposals
    /\ \A p \in Proposals : inflight[p] \subseteq Events(p)
    /\ pc \in [Workers -> Calls]
    /\ serving \in [Workers -> Proposals \cup {NoJob}]
    /\ proof \in [Workers -> Proofs \cup {NoJob}]
    /\ DOMAIN plan = Workers
    /\ next \in [Workers -> Nat \ {0}]
    /\ tries \in [Workers -> Nat]
    /\ reply \in [Workers -> Replies]

Executing(w) == pc[w] \in {"resume", "lease", "mark"} \cup ExecuteCalls

(* A worker that executes or resumes a plan is the only one, and no other  *)
(* process moved its proposal out of "approved" behind it: the unchecked   *)
(* transition to "applied" at the end of _execute_approved is safe.        *)
ExecutionHoldsApproval ==
    \A w \in Workers : Executing(w) => lock = {w} /\ state[serving[w]] = "approved"

(* One signed proof pays for at most one execution lease, whatever is      *)
(* retried, replayed or interrupted.                                       *)
OneExecutionPerProof == \A f \in Proofs : leases[f] <= 1

(* No event of a proposal exists at Google, or is on its way there, unless *)
(* a lease was consumed under a proof signed for that very proposal.       *)
EffectsAuthorized ==
    \A p \in Proposals : \A e \in Events(p) :
        remote[p][e] # "none" \/ e \in inflight[p]
            => \E f \in Proofs : f.proposal = p /\ leases[f] > 0

(* The approval round a proposal waits in is unused exactly while it is    *)
(* "proposed": a reset always makes it approvable again, and no round is   *)
(* approved twice.                                                         *)
RoundUsedOnce ==
    \A p \in Proposals :
        RoundMarker(p, Generation(consumed, p)) \in consumed
            <=> state[p] \in {"approved", "applied"}

(* A proposal becomes "applied" only when each of its events has been at   *)
(* Google since the diff, or the user deleted the calendar meanwhile.      *)
AppliesWritten ==
    \A p \in Proposals :
        state[p] # "applied" /\ state'[p] = "applied" /\ calendar = "live"
            => \A e \in Events(p) : remote[p][e] # "none"

AppliedMeansWritten == [][AppliesWritten]_vars

(* The service never overwrites an event the user changed and never brings *)
(* back one the user deleted, while the calendar lives.                    *)
KeepsUserChanges ==
    \A p \in Proposals : \A e \in Events(p) :
        remote[p][e] \in {"edited", "gone"} /\ calendar' = "live"
            => remote'[p][e] \in {"edited", "gone"}

UserChangesKept == [][KeepsUserChanges]_vars

(* The inductive invariant behind the invariants above.  A worker inside a *)
(* handler holds the flock, serves an approved proposal with a proof       *)
(* signed for it, and follows a diff of exactly its events.                *)
HandlerInv ==
    \A w \in Workers : pc[w] \notin {"idle", "reply"} =>
        /\ lock = {w}
        /\ serving[w] \in Proposals /\ proof[w] \in Proofs
        /\ state[serving[w]] = "approved"
        /\ proof[w].proposal = serving[w]
        /\ pc[w] \in {"reconcile", "decide", "resume"} => proof[w].kind = "reset"
        /\ pc[w] \in {"decide", "write"} => DOMAIN plan[w] = Events(serving[w])

Paid(f) ==
    IF f.kind = "approval" THEN ApproveMarker(f) \in consumed ELSE RecoverMarker(f) \in consumed

(* A lease was paid for by a marker that can never be consumed again.      *)
LeaseInv ==
    /\ \A f \in Proofs : leases[f] \in {0, 1} /\ (leases[f] = 1 => Paid(f))
    /\ \A w \in Workers :
        /\ pc[w] = "lease" => leases[proof[w]] = 0 /\ Paid(proof[w])
        /\ pc[w] \in ExecuteCalls \cup {"mark"} => leases[proof[w]] = 1

(* No round after the current one was ever approved.                       *)
RoundInv ==
    /\ IsFiniteSet(consumed)
    /\ RoundUsedOnce
    /\ \A p \in Proposals : \A g \in Nat :
        g > Generation(consumed, p) => RoundMarker(p, g) \notin consumed

(* An event that the diff found, or that the loop has passed, is at Google *)
(* for as long as the calendar lives.                                      *)
Settled(w, e) ==
    \/ pc[w] = "mark"
    \/ pc[w] \in {"decide", "write"} /\ plan[w][e] # "INSERT"
    \/ pc[w] = "write" /\ e < next[w]

WrittenInv ==
    \A w \in Workers :
        /\ pc[w] \notin {"write", "mark"} => next[w] = 1
        /\ calendar = "live" /\ pc[w] \in {"decide", "write", "mark"} =>
            \A e \in Events(serving[w]) : Settled(w, e) => remote[serving[w]][e] # "none"

IndInv == TypeOK /\ HandlerInv /\ LeaseInv /\ EffectsAuthorized /\ RoundInv /\ WrittenInv

(* Every request ends, and with it the hold on the flock: the write loop   *)
(* retries a transient failure at most max_attempts times and goes on to   *)
(* the next event, and nothing is waited for inside the lock.              *)
RequestsEnd == \A w \in Workers : pc[w] # "idle" ~> pc[w] = "idle"

(* The round of a proposal is the number of its consumed reset facts; its  *)
(* execution has started once a lease was consumed under a proof for it.   *)
Rounds == [p \in Proposals |-> Generation(consumed, p)]

Started == {f.proposal : f \in {g \in Proofs : leases[g] > 0}}

Lifecycle == INSTANCE ProposalAuthority WITH round <- Rounds, started <- Started

(* The stored proposals follow the lifecycle of ProposalAuthority: every   *)
(* step of the processes is one of its transitions or changes nothing.     *)
FollowsLifecycle == Lifecycle!Spec

(* docs/authority.md: a proposal is reset to "proposed" only when no event *)
(* it owns exists in the calendar.                                         *)
ProposedHasNoEvents ==
    \A p \in Proposals : state[p] = "proposed" =>
        \A e \in Events(p) : remote[p][e] \notin {"ours", "edited"}
==============================================================================
