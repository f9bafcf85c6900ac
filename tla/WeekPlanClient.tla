---------------------------- MODULE WeekPlanClient ----------------------------
(***************************************************************************)
(* The phone and the relay around one week plan: ConversationSession.swift *)
(* (previewWeekPlan, approveWeekPlan, recoverWeekPlan, loadPendingEvents), *)
(* EncryptedPendingWeekPlan.swift and SignedConversationRelay.swift on top *)
(* of CalendarExecution.  Requests and answers may be lost, the phone may  *)
(* stop waiting while the relay still works, and the app may be killed.    *)
(*                                                                         *)
(* view is weekPlanState, shown weekPlanProposal and held                  *)
(* weekPlanNeedsRecovery, all in memory; saved is the encrypted file.      *)
(* Every await is a step of its own: asking, confirming and waiting are    *)
(* the calls suspended at the relay's preview, at the owner's              *)
(* authentication and at the relay's answer, loading is how far            *)
(* loadPendingEvents came.  A guard is not evaluated again behind an await *)
(* because the code does not.  Writing or removing the file does not fail. *)
(*                                                                         *)
(* The phone signs a new fact for every request, which is known by its     *)
(* proof: a proof is fresh while nobody consumed or holds it.              *)
(***************************************************************************)
EXTENDS CalendarExecution

CONSTANT Phone   \* the enrolled device

ASSUME PhoneAssumption ==
    /\ Phone \in Devices
    /\ NoJob \notin Proposals \cup Proofs
    /\ {"due", "read", "unread"} \cap Proposals = {}

VARIABLES
    view,       \* what the plan screen shows
    shown,      \* the proposal it shows
    held,       \* whether a plan needs recovery
    saved,      \* the proposal retained on disk
    loading,    \* the file since the app started: due, being shown, read or unread
    asking,     \* previews under way
    confirming, \* requests the owner is asked to authenticate
    wire,       \* requests on their way to the relay
    waiting,    \* requests the phone waits for
    refused,    \* proposals whose approval was answered with a contract error
    hasty       \* whether a plan was ever asked for with the file unknown

memoryVars == <<view, shown, held, loading, asking, confirming, waiting>>
phoneVars == <<memoryVars, saved, refused, hasty>>
clientVars == <<vars, phoneVars, wire>>

Views == {"idle", "planning", "proposed", "applying", "applied", "error"}

ClientInit ==
    /\ Init
    /\ view = "idle" /\ shown = NoJob /\ held = FALSE
    /\ loading = "due"
    /\ asking = 0 /\ confirming = {} /\ waiting = {}
    /\ saved = NoJob
    /\ wire = {}
    /\ refused = {} /\ hasty = FALSE

Fresh(f) ==
    /\ {ApproveMarker(f), RecoverMarker(f)} \cap consumed = {}
    /\ f \notin confirming \cup waiting \cup wire \cup {proof[w] : w \in Workers}

------------------------------------------------------------------------------
(* The phone *)

(* mutant: the hold does not keep another plan from being made             *)
CanAlwaysPreview == view \notin {"planning", "applying"}

(* previewWeekPlan: refused while busy or while a plan needs recovery.     *)
CanPreview == view \notin {"planning", "applying"} /\ ~held

(* loadPendingEvents has not come to its end, or ended without the file.   *)
FileUnknown == loading # "read" /\ ~(loading = "unread" /\ saved = NoJob)

AskPreview ==
    /\ CanPreview
    /\ view' = "planning"
    /\ asking' = asking + 1
    /\ hasty' = (hasty \/ FileUnknown)
    /\ UNCHANGED <<vars, shown, held, loading, confirming, waiting, saved, refused, wire>>

(* The answer may be lost after the relay stored the proposal.             *)
PreviewAnswered(p) ==
    /\ asking > 0
    /\ asking' = asking - 1
    /\ Preview(p)
    /\ \/ view' = "proposed" /\ shown' = p
       \/ view' = "error" /\ UNCHANGED shown
    /\ UNCHANGED <<held, loading, confirming, waiting, saved, refused, hasty, wire>>

PreviewFails ==
    /\ asking > 0
    /\ asking' = asking - 1
    /\ view' = "error"
    /\ UNCHANGED <<vars, shown, held, loading, confirming, waiting, saved, refused, hasty, wire>>

(* The call begins: the screen is busy and the owner is asked.             *)
Confirm(kind, f) ==
    /\ f.kind = kind /\ f.proposal = shown /\ f.device = Phone /\ Fresh(f)
    /\ view' = "applying"
    /\ confirming' = confirming \cup {f}
    /\ UNCHANGED <<vars, shown, held, loading, asking, waiting, saved, refused, hasty, wire>>

(* approveWeekPlan: canApproveWeekPlan looks at the screen alone.          *)
ApprovePlan(f) ==
    /\ view = "proposed" /\ shown # NoJob
    /\ Events(shown) # {}
    /\ Confirm("approval", f)

(* recoverWeekPlan: the button is there on the error screen.               *)
RecoverPlan(f) ==
    /\ view = "error" /\ shown # NoJob
    /\ Confirm("reset", f)

(* mutant: the request leaves before the proposal is on disk               *)
HoldInMemory(p) == held' = TRUE /\ UNCHANGED saved

(* The proposal is on disk before the request leaves the phone.            *)
Hold(p) == held' = TRUE /\ saved' = p

Release == held' = FALSE /\ saved' = NoJob

(* The owner authenticated: an approval is retained, and then sent.        *)
Send(f) ==
    /\ f \in confirming
    /\ confirming' = confirming \ {f}
    /\ IF f.kind = "approval" THEN Hold(f.proposal) ELSE UNCHANGED <<held, saved>>
    /\ wire' = wire \cup {f}
    /\ waiting' = waiting \cup {f}
    /\ UNCHANGED <<vars, view, shown, loading, asking, refused, hasty>>

(* The owner did not, or the proposal could not be signed or retained.     *)
Abandon(f) ==
    /\ f \in confirming
    /\ confirming' = confirming \ {f}
    /\ view' = "error"
    /\ UNCHANGED <<vars, shown, held, loading, asking, waiting, saved, refused, hasty, wire>>

(* mutant: a provider failure counts as one                                *)
AnyFailure(answer) == answer # "applied"

(* The relay's answers before a handler runs: 401, 422 and 501.            *)
DoorAnswers == {"unauthenticated", "malformed", "unconfigured"}

(* approvalFailureCannotHaveApplied: these, 403, 404, and 409, which is a  *)
(* stale proposal as well as a calendar contract error.                    *)
CannotHaveApplied(answer) == answer \in DoorAnswers \cup {"policy", "unknown", "stale", "contract"}

ApprovalAnswered(p, answer) ==
    /\ view' = IF answer = "applied" THEN "applied" ELSE "error"
    /\ IF answer = "applied" \/ CannotHaveApplied(answer) THEN Release ELSE UNCHANGED <<held, saved>>
    /\ refused' = IF answer = "contract" THEN refused \cup {p} ELSE refused

RecoveryAnswered(answer) ==
    /\ view' = CASE answer = "applied" -> "applied"
                 [] answer = "reset" -> "proposed"
                 [] OTHER -> "error"
    /\ IF answer \in {"applied", "reset"} THEN Release ELSE UNCHANGED <<held, saved>>
    /\ UNCHANGED refused

Answer(f, answer) ==
    /\ waiting' = waiting \ {f}
    /\ IF f.kind = "approval"
       THEN ApprovalAnswered(f.proposal, answer) ELSE RecoveryAnswered(answer)
    /\ UNCHANGED <<shown, loading, asking, confirming, hasty>>

(* The await ends without an answer.                                       *)
GiveUp(f) ==
    /\ f \in waiting
    /\ waiting' = waiting \ {f}
    /\ view' = "error"
    /\ UNCHANGED <<vars, shown, held, loading, asking, confirming, saved, refused, hasty, wire>>

(* The app is killed and started again: what was in memory is gone.        *)
Restart ==
    /\ view' = "idle" /\ shown' = NoJob /\ held' = FALSE
    /\ loading' = "due"
    /\ asking' = 0 /\ confirming' = {} /\ waiting' = {}
    /\ UNCHANGED <<vars, saved, refused, hasty, wire>>

(* loadPendingEvents: outbox, cache and file are read; a plan that was     *)
(* found is shown for recovery, whatever the screen shows by then.         *)
LoadFile ==
    /\ loading = "due"
    /\ loading' = IF saved = NoJob THEN "read" ELSE saved
    /\ UNCHANGED <<vars, view, shown, held, asking, confirming, waiting, saved, refused, hasty, wire>>

ShowInterrupted ==
    /\ loading \in Proposals
    /\ view' = "error" /\ shown' = loading /\ held' = TRUE
    /\ loading' = "read"
    /\ UNCHANGED <<vars, asking, confirming, waiting, saved, refused, hasty, wire>>

(* It returns at once while the session is busy, and one failing read ends *)
(* it; it is not called again.                                             *)
MissFile ==
    /\ loading = "due"
    /\ loading' = "unread"
    /\ UNCHANGED <<vars, view, shown, held, asking, confirming, waiting, saved, refused, hasty, wire>>

------------------------------------------------------------------------------
(* The network and the relay *)

Lost(f) ==
    /\ f \in wire
    /\ wire' = wire \ {f}
    /\ UNCHANGED <<vars, phoneVars>>

(* authenticate, the body or the configuration refuses the request.        *)
TurnedAway(f) ==
    /\ f \in wire \cap waiting
    /\ wire' = wire \ {f}
    /\ \E answer \in DoorAnswers : Answer(f, answer)
    /\ UNCHANGED vars

Serving(w, f) ==
    /\ f \in wire
    /\ wire' = wire \ {f}
    /\ IF f.kind = "approval"
       THEN Approve(w, Phone, f.proposal, f) \/ RejectApproval(w, Phone, f.proposal, f)
       ELSE Recover(w, Phone, f.proposal, f) \/ RejectRecovery(w, Phone, f.proposal, f)
    /\ UNCHANGED phoneVars

Answered(w) ==
    /\ proof[w] \in waiting
    /\ Answer(proof[w], reply[w])
    /\ Respond(w)
    /\ UNCHANGED wire

AnswerLost(w) == Respond(w) /\ UNCHANGED <<phoneVars, wire>>

PhoneNext ==
    \/ AskPreview \/ PreviewFails \/ \E p \in Proposals : PreviewAnswered(p)
    \/ \E f \in Proofs : ApprovePlan(f) \/ RecoverPlan(f)
    \/ \E f \in confirming : Send(f) \/ Abandon(f)
    \/ \E f \in waiting : GiveUp(f)
    \/ Restart \/ LoadFile \/ ShowInterrupted \/ MissFile

RelayNext(w) ==
    /\ Recovery(w) \/ Execution(w)
    /\ UNCHANGED <<phoneVars, wire>>

Delivery(w) == Answered(w) \/ \E f \in wire : Serving(w, f)

(* Whatever else happens to the calendar and to the relay's processes.     *)
Disturbance ==
    /\ \/ \E w \in Workers : Crash(w)
       \/ \E p \in Proposals : \E e \in Events(p) : Land(p, e) \/ UserChanges(p, e)
       \/ UserDeletesCalendar \/ OperatorClearsGuard
       \/ \E d \in Devices : Revoke(d)
    /\ UNCHANGED <<phoneVars, wire>>

Loss == (\E f \in wire : Lost(f) \/ TurnedAway(f)) \/ \E w \in Workers : AnswerLost(w)

ClientNext ==
    \/ PhoneNext \/ Loss \/ Disturbance
    \/ \E w \in Workers : RelayNext(w) \/ Delivery(w)

ClientSpec == ClientInit /\ [][ClientNext]_clientVars

(***************************************************************************)
(* A calm day: no process crashes, nobody touches the calendar and Google  *)
(* answers; only messages between phone and relay are lost, and not for    *)
(* ever.  A request without an answer times out, and the user answers the  *)
(* error screen by asking for recovery and authenticates.                  *)
(***************************************************************************)
CalmRelay(w) ==
    /\ \/ Recovery(w) \/ Lease(w) \/ FindCalendar(w) \/ CreateCalendar(w) \/ Sync(w)
       \/ SkipEvent(w) \/ WriteEvent(w) \/ FinalSync(w) \/ MarkApplied(w)
    /\ UNCHANGED <<phoneVars, wire>>

(* The file is read, and before a plan is asked for.                       *)
CalmPhone == PhoneNext /\ loading' # "unread" /\ ~hasty'

CalmNext == CalmPhone \/ Loss \/ \E w \in Workers : CalmRelay(w) \/ Delivery(w)

CalmFairness ==
    /\ \A w \in Workers :
        /\ WF_clientVars(CalmRelay(w) \/ Answered(w) \/ AnswerLost(w))
        /\ SF_clientVars(Answered(w))
        /\ SF_clientVars(\E f \in wire : Serving(w, f))
    /\ SF_clientVars(LoadFile) /\ SF_clientVars(ShowInterrupted)
    /\ SF_clientVars(\E f \in confirming : Send(f))
    /\ WF_clientVars(\E f \in waiting : GiveUp(f))
    /\ SF_clientVars(\E f \in Proofs : RecoverPlan(f))

CalmSpec == ClientInit /\ [][CalmNext]_clientVars /\ CalmFairness

------------------------------------------------------------------------------
(* Properties *)

(* The phone's variables and the wire have the shape the app gives them.   *)
ClientTypeOK ==
    /\ view \in Views
    /\ shown \in Proposals \cup {NoJob}
    /\ saved \in Proposals \cup {NoJob}
    /\ loading \in {"due", "read", "unread"} \cup Proposals
    /\ asking \in Nat
    /\ held \in BOOLEAN /\ hasty \in BOOLEAN
    /\ confirming \cup waiting \cup wire \subseteq Proofs
    /\ refused \subseteq Proposals

(* approveWeekPlan, recoverWeekPlan and loadPendingEvents: whatever is     *)
(* lost, late or killed, a plan that the relay holds as approved is on the *)
(* phone's disk for recovery, unless the relay itself answered that its    *)
(* calendar contract was rejected.  One thing alone can take the file      *)
(* away: a plan asked for after a start of the app that has not read the   *)
(* file yet or failed to, because the hold is not checked again when that  *)
(* plan arrives or is approved.                                            *)
InterruptedIsHeld ==
    ~hasty => \A p \in Proposals : state[p] = "approved" => saved = p \/ p \in refused

(* ConversationSession.swift: "Recover this same plan before creating      *)
(* another", for every plan that was interrupted.                          *)
HoldSurvives == \A p \in Proposals : state[p] = "approved" => saved = p \/ p \in refused

(* docs/agent-handoff-current.md: the errors that clear the recovery hold  *)
(* occur before Calendar execution, so a plan with events at Google that   *)
(* is still "approved" is held for recovery.                               *)
PartialPlanIsHeld ==
    ~hasty => \A p \in Proposals :
        state[p] = "approved" /\ (\E e \in Events(p) : remote[p][e] = "ours") => saved = p

(* ConversationSession.swift: an interrupted plan can be recovered, after  *)
(* which another can be created.                                           *)
RecoveryResolves == saved # NoJob ~> saved = NoJob
==============================================================================
