----------------------- MODULE CalendarAroundProofs -----------------------
(***************************************************************************)
(* What surrounds the calendar handlers: the phone that sends them a plan  *)
(* (WeekPlanClient), and the processes that keep the id of the calendar    *)
(* they write to (CalendarIdentity).                                       *)
(***************************************************************************)
EXTENDS WeekPlanClient, CalendarIdentity, CalendarExecutionProofs

(***************************************************************************)
(* A plan the relay holds as approved can always be recovered by the       *)
(* phone, for any number of plans, proofs, devices and workers, whatever   *)
(* is lost, late or killed, as long as no plan was asked for with the file *)
(* unknown.                                                                *)
(*                                                                         *)
(* The invariant is about what is outstanding.  Until the file is read the *)
(* screen is as the start of the app left it.  At most one approval is on  *)
(* its way, for the saved plan, which the relay still holds as proposed;   *)
(* and an answer that will clear the saved plan is given only once the     *)
(* relay no longer holds it as approved and no approval of it can arrive   *)
(* any more.                                                               *)
(***************************************************************************)

Approvals == {f \in wire : f.kind = "approval"}

(* A request is served once.                                               *)
WireInv ==
    /\ \A f \in confirming : f \notin wire
    /\ \A w \in Workers : proof[w] \notin wire /\ proof[w] \notin confirming

(* The screen of an app that was just started.                             *)
Untouched ==
    /\ view = "idle" /\ shown = NoJob /\ held = FALSE
    /\ asking = 0 /\ confirming = {} /\ waiting = {}

(* Either memory agrees with the file, or nothing was done since the start.*)
Agrees == held = (saved # NoJob) /\ saved \in {NoJob, shown}

LoadInv ==
    /\ Agrees \/ (Untouched /\ loading # "read")
    /\ loading = "due" => Untouched
    /\ loading \in Proposals => Untouched /\ loading = saved

(* One call at a time is suspended.                                        *)
PhoneInv ==
    /\ asking # 0 => asking = 1 /\ view = "planning" /\ saved = NoJob
    /\ confirming = {} \/ waiting = {}
    /\ \A f, g \in confirming : f = g
    /\ \A f, g \in waiting : f = g
    /\ \A f \in confirming : view = "applying" /\ f.proposal = shown
    /\ \A f \in waiting : view = "applying" /\ f.proposal = shown
    /\ \A f \in waiting : f.kind = "approval" => saved = shown

ApprovalInv ==
    /\ view = "proposed" => shown \in Proposals /\ saved = NoJob /\ state[shown] = "proposed"
    /\ \A f \in confirming : f.kind = "approval" => saved = NoJob /\ state[shown] = "proposed"
    /\ \A f \in Approvals : f.proposal = saved /\ state[saved] = "proposed"
    /\ \A f, g \in Approvals : f = g
    /\ \A f \in Approvals, g \in waiting : g.kind = "approval" => f = g

(* The answers that clear the saved plan.                                  *)
Clears(w) ==
    /\ proof[w].kind = "approval" /\ reply[w] \notin {"contract", "unavailable"} =>
        state[shown] # "approved"
    /\ proof[w].kind = "reset" /\ reply[w] \in {"applied", "reset"} =>
        /\ state[shown] # "approved" /\ Approvals = {}
        /\ reply[w] = "reset" => state[shown] = "proposed"

AnswerInv ==
    \A w \in Workers : pc[w] = "reply" /\ proof[w] \in waiting => Clears(w)

Careful == LoadInv /\ PhoneInv /\ ApprovalInv /\ AnswerInv /\ HoldSurvives

(* The shapes, and what the relay's handlers keep.                         *)
ClientInv == TypeOK /\ HandlerInv /\ ClientTypeOK /\ WireInv

HoldInv == ClientTypeOK /\ WireInv /\ (hasty \/ Careful)

-----------------------------------------------------------------------------
(* Proofs are for proposals, and NoJob is neither.                         *)
LEMMA ProofFacts ==
  /\ \A f \in Proofs : f.proposal \in Proposals /\ f.kind \in {"approval", "reset"} /\ f # NoJob
  /\ \A p \in Proposals : p # NoJob
  BY ProofsAssumption, PhoneAssumption, Zenon DEF ProofType

(* The relay's side of a step is a step of CalendarExecution.              *)
LEMMA StepIsNext ==
  ASSUME ClientTypeOK, [ClientNext]_clientVars
  PROVE  [Next]_vars
<1>2. ASSUME NEW w \in Workers, NEW f \in wire, Serving(w, f)
      PROVE  Next
  <2>1. f \in Proofs /\ f.proposal \in Proposals /\ Phone \in Devices
    BY ProofFacts, PhoneAssumption, Zenon DEF ClientTypeOK
  <2>2. Request(w)
    BY <1>2, <2>1, Zenon DEF Serving, Request
  <2> QED
    BY <2>2, Zenon DEF Next
<1>3. CASE PhoneNext
  BY <1>3, Zenon DEF PhoneNext, AskPreview, PreviewAnswered, PreviewFails, ApprovePlan, RecoverPlan,
     Confirm, Send, Abandon, GiveUp, Restart, LoadFile, ShowInterrupted, MissFile, Next, User
<1>4. CASE Loss
  BY <1>4, Zenon DEF Loss, Lost, TurnedAway, AnswerLost, Next
<1>5. CASE Disturbance
  BY <1>5, Zenon DEF Disturbance, Next, User
<1>6. ASSUME NEW w \in Workers, RelayNext(w) \/ Answered(w)
      PROVE  Next
  BY <1>6, Zenon DEF RelayNext, Answered, Next
<1>7. CASE UNCHANGED clientVars
  BY <1>7, Zenon DEF clientVars
<1> QED
  BY <1>2, <1>3, <1>4, <1>5, <1>6, <1>7, Zenon DEF ClientNext, Delivery

(* What a handler that goes on may do to the stored proposals: a plan      *)
(* leaves "approved" only together with the answer that says so.           *)
Effect(w) ==
    \/ /\ UNCHANGED state
       /\ pc'[w] = "reply" =>
            /\ reply'[w] \notin {"applied", "reset"}
            /\ proof[w].kind = "approval" => reply'[w] \in {"contract", "unavailable"}
    \/ /\ state' = [state EXCEPT ![serving[w]] = "applied"]
       /\ pc'[w] = "reply" /\ reply'[w] = "applied"
    \/ /\ state' = [state EXCEPT ![serving[w]] = "proposed"]
       /\ pc'[w] = "reply" /\ reply'[w] = "reset" /\ proof[w].kind = "reset"

Others(w) == \A v \in Workers \ {w} : pc'[v] = pc[v] /\ reply'[v] = reply[v]

(* What ending a handler changes.                                            *)
LEMMA FinishEffect ==
  ASSUME TypeOK, NEW w \in Workers, NEW answer, Finish(w, answer)
  PROVE  pc'[w] = "reply" /\ reply'[w] = answer /\ Others(w)
  BY Zenon DEF TypeOK, Finish, Others

(* What going on to the next call of a handler changes.                      *)
LEMMA GotoEffect ==
  ASSUME TypeOK, NEW w \in Workers, NEW call, Goto(w, call)
  PROVE  pc'[w] = call /\ Others(w)
  BY Zenon DEF TypeOK, Goto, Others

(* What a call of the recovery handlers can do to a proposal and its worker. *)
LEMMA RecoveryEffect ==
  ASSUME TypeOK, HandlerInv, NEW w \in Workers, Recovery(w)
  PROVE  Effect(w) /\ Others(w) /\ pc[w] \notin {"idle", "reply"} /\ UNCHANGED jobVars
<1>0. pc[w] \in {"reconcile", "decide", "resume"} /\ UNCHANGED jobVars
  BY Zenon DEF Recovery, Reconcile, DecideConflict, DecideApplied, DecideReset, RejectReset,
     DecidePartial,
         Resume, RejectResume
<1>1. proof[w].kind = "reset"
  BY <1>0, Zenon DEF HandlerInv
<1>2. CASE Reconcile(w) \/ DecidePartial(w) \/ Resume(w)
  BY <1>0, <1>2, GotoEffect DEF Reconcile, DecidePartial, Resume, Effect, proposalVars
<1>3. CASE DecideConflict(w) \/ RejectReset(w) \/ RejectResume(w)
  BY <1>0, <1>1, <1>3, FinishEffect DEF DecideConflict, RejectReset, RejectResume, Effect, proposalVars
<1>4. CASE DecideApplied(w)
  BY <1>0, <1>4, FinishEffect, Zenon DEF DecideApplied, Effect
<1>5. CASE DecideReset(w)
  BY <1>0, <1>1, <1>5, FinishEffect, Zenon DEF DecideReset, Effect
<1> QED
  BY <1>0, <1>2, <1>3, <1>4, <1>5, Zenon DEF Recovery

(* What a call of the execution handler can do to a proposal and its worker. *)
LEMMA ExecutionEffect ==
  ASSUME TypeOK, HandlerInv, NEW w \in Workers, Execution(w)
  PROVE  Effect(w) /\ Others(w) /\ pc[w] \notin {"idle", "reply"} /\ UNCHANGED jobVars
<1>0. pc[w] \notin {"idle", "reply"} /\ UNCHANGED jobVars
  BY Zenon DEF Execution, Lease, FindCalendar, RefuseCreate, CreateCalendar, LoseCreate, Sync,
     ProviderFails,
         SkipEvent, RefuseOverwrite, WriteEvent, RejectWrite, RetryWrite, LoseWrite, FinalSync, MarkApplied,
         Inserting, Writing, LoopDone
<1>1. CASE Lease(w) \/ FindCalendar(w) \/ CreateCalendar(w) \/ Sync(w) \/ FinalSync(w)
  BY <1>0, <1>1, GotoEffect DEF Lease, FindCalendar, CreateCalendar, Sync, FinalSync, Effect,
     proposalVars
<1>2. CASE RefuseCreate(w) \/ RefuseOverwrite(w) \/ RejectWrite(w) \/ LoseWrite(w) \/ LoseCreate(w) \/ ProviderFails(w)
  <2>1. UNCHANGED state /\ \E answer \in {"contract", "unavailable"} : Finish(w, answer)
    BY <1>2, Zenon DEF RefuseCreate, RefuseOverwrite, RejectWrite, LoseWrite, LoseCreate,
       ProviderFails, proposalVars
  <2> QED
    BY <1>0, <2>1, FinishEffect, Zenon DEF Effect
<1>3. CASE SkipEvent(w) \/ WriteEvent(w)
  BY <1>0, <1>3, Zenon DEF SkipEvent, WriteEvent, Advance, Effect, Others, proposalVars
<1>4. CASE RetryWrite(w)
  <2>1. UNCHANGED state /\ (Finish(w, "unavailable") \/ UNCHANGED <<pc, reply>>)
    BY <1>4, Zenon DEF RetryWrite, proposalVars
  <2> QED
    BY <1>0, <2>1, FinishEffect DEF Effect, Others
<1>5. CASE MarkApplied(w)
  BY <1>0, <1>5, FinishEffect, Zenon DEF MarkApplied, Effect
<1> QED
  BY <1>0, <1>1, <1>2, <1>3, <1>4, <1>5, Zenon DEF Execution

-----------------------------------------------------------------------------
(* What every step keeps: the shapes, that a request is served once, and   *)
(* that the history is not forgotten.                                      *)

(* What a step of the phone alone leaves to the relay.                     *)
LEMMA PhoneLeaves ==
  ASSUME PhoneNext
  PROVE  UNCHANGED <<pc, proof, reply>>
  BY Zenon DEF PhoneNext, AskPreview, PreviewAnswered, PreviewFails, ApprovePlan, RecoverPlan, Confirm,
     Send, Abandon, GiveUp, Restart, LoadFile, ShowInterrupted, MissFile, Preview, vars, jobVars

(* What an answer does to the phone.                                       *)
LEMMA AnswerFacts ==
  ASSUME NEW f \in Proofs, NEW answer, Answer(f, answer)
  PROVE  /\ UNCHANGED <<shown, loading, asking, confirming, hasty>> /\ waiting' = waiting \ {f}
         /\ view' \in {"applied", "error", "proposed"}
         /\ view' = "proposed" => f.kind = "reset" /\ answer = "reset" /\ saved' = NoJob
         /\ \/ /\ held' = FALSE /\ saved' = NoJob /\ f.kind = "approval" /\ answer # "unavailable"
               /\ answer = "contract" => f.proposal \in refused'
            \/ held' = FALSE /\ saved' = NoJob /\ f.kind = "reset" /\ answer \in {"applied", "reset"}
            \/ UNCHANGED <<held, saved>>
         /\ refused \subseteq refused' /\ refused' \subseteq refused \cup {f.proposal}
<1>1. f.kind = "approval" \/ (f.kind = "reset" /\ f.kind # "approval")
  BY ProofFacts
<1>2. answer \in DoorAnswers \/ answer \in {"applied", "policy", "unknown", "stale", "contract"}
        => answer # "unavailable"
  BY DEF DoorAnswers
<1> QED
  BY <1>1, <1>2, Zenon DEF Answer, ApprovalAnswered, RecoveryAnswered, Release, CannotHaveApplied

(* What the relay's requests do to the workers.                            *)
LEMMA ServingWorkers ==
  ASSUME TypeOK, NEW w \in Workers, NEW f, Serving(w, f)
  PROVE  /\ \A v \in Workers \ {w} : pc'[v] = pc[v] /\ proof'[v] = proof[v] /\ reply'[v] = reply[v]
         /\ proof'[w] = f
  BY ZenonT(30) DEF Serving, Approve, RejectApproval, Recover, RejectRecovery, Serve, Finish, TypeOK

(* Answering a request, and crashing, change no proposal and no other      *)
(* worker.                                                                 *)
LEMMA RespondQuiet ==
  ASSUME TypeOK, NEW w \in Workers, Respond(w) \/ Crash(w)
  PROVE  /\ UNCHANGED state
         /\ \A v \in Workers : \/ pc'[v] = pc[v] /\ proof'[v] = proof[v] /\ reply'[v] = reply[v]
                               \/ pc'[v] = "idle" /\ proof'[v] = NoJob
  BY Zenon DEF TypeOK, Respond, Crash, Serve, proposalVars

(* A step that starts no handler.                                          *)
Settles == \A v \in Workers : proof'[v] \in {proof[v], NoJob}

(* Steps that send and serve nothing keep WireInv.                         *)
LEMMA WireKeeps ==
  ASSUME ClientTypeOK, WireInv, Settles, wire' \subseteq wire, confirming' \subseteq confirming
  PROVE  WireInv'
<1>1. NoJob \notin wire /\ NoJob \notin confirming
  BY ProofFacts, Zenon DEF ClientTypeOK
<1> QED
  BY <1>1, Zenon DEF WireInv, Settles

(* The steps that leave the phone as it is.                                *)
LEMMA DisturbanceSettles ==
  ASSUME TypeOK, HandlerInv,
         Disturbance \/ (\E w \in Workers : RelayNext(w)) \/ UNCHANGED clientVars
  PROVE  Settles /\ UNCHANGED <<phoneVars, wire>>
<1>1. ASSUME NEW w \in Workers, Crash(w)
      PROVE  Settles
  BY <1>1, RespondQuiet, Zenon DEF Settles
<1>2. ASSUME NEW w \in Workers, RelayNext(w)
      PROVE  Settles
  BY <1>2, RecoveryEffect, ExecutionEffect, Zenon DEF RelayNext, Settles, jobVars
<1>3. ASSUME UNCHANGED jobVars
      PROVE  Settles
  BY <1>3, Zenon DEF Settles, jobVars
<1>4. CASE UNCHANGED clientVars
  BY <1>3, <1>4, Zenon DEF clientVars, vars
<1>5. CASE Disturbance
  BY <1>1, <1>3, <1>5, Zenon DEF Disturbance, Land, UserChanges, UserDeletesCalendar, OperatorClearsGuard, Revoke
<1>6. UNCHANGED <<phoneVars, wire>>
  BY Zenon DEF Disturbance, RelayNext, clientVars
<1> QED
  BY <1>2, <1>4, <1>5, <1>6, Zenon

(* Losing a request or an answer.                                          *)
LEMMA LossBase ==
  ASSUME ClientInv, Loss
  PROVE  ClientTypeOK' /\ WireInv' /\ UNCHANGED hasty
<1>1. ASSUME NEW f \in wire, Lost(f)
      PROVE  ClientTypeOK' /\ WireInv' /\ UNCHANGED hasty
  BY <1>1, WireKeeps, Zenon DEF Lost, ClientInv, ClientTypeOK, Settles, phoneVars, memoryVars, vars, jobVars
<1>2. ASSUME NEW f \in wire, TurnedAway(f)
      PROVE  ClientTypeOK' /\ WireInv' /\ UNCHANGED hasty
  <2>1. PICK answer \in DoorAnswers : Answer(f, answer)
    BY <1>2, Zenon DEF TurnedAway
  <2>2. f \in Proofs /\ f.proposal \in Proposals
    BY ProofFacts, Zenon DEF ClientInv, ClientTypeOK
  <2>3. wire' = wire \ {f} /\ UNCHANGED <<vars, hasty, confirming, shown, loading, asking>>
    BY <1>2, <2>1, Zenon DEF TurnedAway, Answer
  <2>4. WireInv'
    BY <2>3, WireKeeps, Zenon DEF ClientInv, Settles, vars, jobVars
  <2>5. /\ waiting' \subseteq waiting /\ view' \in {"applied", "error", "proposed"}
        /\ UNCHANGED <<held, saved>> \/ (held' = FALSE /\ saved' = NoJob)
        /\ refused' \subseteq refused \cup {f.proposal}
    BY <2>1, <2>2, AnswerFacts, Zenon
  <2>6. ClientTypeOK'
    BY <2>2, <2>3, <2>5, ZenonT(30) DEF ClientInv, ClientTypeOK, Views
  <2> QED
    BY <2>3, <2>4, <2>6, Zenon
<1>3. ASSUME NEW w \in Workers, AnswerLost(w)
      PROVE  ClientTypeOK' /\ WireInv' /\ UNCHANGED hasty
  <2>1. Settles
    BY <1>3, RespondQuiet, Zenon DEF AnswerLost, Settles, ClientInv
  <2> QED
    BY <1>3, <2>1, WireKeeps, Zenon DEF AnswerLost, ClientInv, ClientTypeOK, phoneVars, memoryVars
<1> QED
  BY <1>1, <1>2, <1>3, Zenon DEF Loss

(* A request or an answer arrives.                                         *)
LEMMA DeliveryBase ==
  ASSUME ClientInv, NEW w \in Workers, Delivery(w)
  PROVE  ClientTypeOK' /\ WireInv' /\ UNCHANGED hasty
<1>1. ASSUME NEW f \in wire, Serving(w, f)
      PROVE  ClientTypeOK' /\ WireInv' /\ UNCHANGED hasty
  <2>1. wire' = wire \ {f} /\ UNCHANGED phoneVars
    BY <1>1, Zenon DEF Serving
  <2>2. ClientTypeOK' /\ UNCHANGED <<hasty, confirming>>
    BY <2>1, Zenon DEF ClientInv, ClientTypeOK, phoneVars, memoryVars
  <2>3. f \notin confirming
    BY Zenon DEF ClientInv, WireInv
  <2>4. WireInv'
    BY <1>1, <2>1, <2>2, <2>3, ServingWorkers, ZenonT(30) DEF ClientInv, WireInv
  <2> QED
    BY <2>2, <2>4, Zenon
<1>2. CASE Answered(w)
  <2>1. Answer(proof[w], reply[w]) /\ Respond(w) /\ UNCHANGED wire /\ proof[w] \in waiting
    BY <1>2, Zenon DEF Answered
  <2>2. proof[w] \in Proofs /\ proof[w].proposal \in Proposals
    BY <2>1, ProofFacts, Zenon DEF ClientInv, ClientTypeOK
  <2>3. Settles
    BY <2>1, RespondQuiet, Zenon DEF Settles, ClientInv
  <2>4. /\ UNCHANGED <<shown, loading, asking, confirming, hasty>> /\ waiting' \subseteq waiting
        /\ view' \in {"applied", "error", "proposed"}
        /\ UNCHANGED <<held, saved>> \/ (held' = FALSE /\ saved' = NoJob)
        /\ refused' \subseteq refused \cup {proof[w].proposal}
    BY <2>1, <2>2, AnswerFacts, Zenon
  <2>5. WireInv'
    BY <2>1, <2>3, <2>4, WireKeeps, Zenon DEF ClientInv
  <2>6. ClientTypeOK'
    BY <2>1, <2>2, <2>4, ZenonT(30) DEF ClientInv, ClientTypeOK, Views
  <2> QED
    BY <2>4, <2>5, <2>6, Zenon
<1> QED
  BY <1>1, <1>2, Zenon DEF Delivery

(* Calls that begin, go on or end on the phone.                            *)
LEMMA PhoneBase ==
  ASSUME ClientInv, PhoneNext
  PROVE  ClientTypeOK' /\ WireInv' /\ (hasty => hasty')
<1>0. UNCHANGED <<pc, proof, reply>> /\ Settles
  BY PhoneLeaves, Zenon DEF Settles
<1>1. CASE AskPreview
  BY <1>0, <1>1, WireKeeps DEF AskPreview, FileUnknown, ClientInv, ClientTypeOK, Views
<1>2. CASE PreviewFails \/ \E p \in Proposals : PreviewAnswered(p)
  <2>1. asking' \in Nat
    BY <1>2 DEF PreviewFails, PreviewAnswered, ClientInv, ClientTypeOK
  <2> QED
    BY <1>0, <1>2, <2>1, WireKeeps, Zenon DEF PreviewFails, PreviewAnswered, ClientInv, ClientTypeOK, Views
<1>3. ASSUME NEW f \in Proofs, ApprovePlan(f) \/ RecoverPlan(f)
      PROVE  ClientTypeOK' /\ WireInv' /\ (hasty => hasty')
  <2>1. /\ UNCHANGED <<shown, held, loading, asking, waiting, saved, refused, hasty, wire>>
        /\ view' = "applying" /\ confirming' = confirming \cup {f}
        /\ f \notin wire /\ \A w \in Workers : proof[w] # f
    BY <1>3, Zenon DEF ApprovePlan, RecoverPlan, Confirm, Fresh
  <2> QED
    BY <1>0, <2>1, Zenon DEF ClientInv, ClientTypeOK, WireInv, Views
<1>4. ASSUME NEW f \in confirming, Send(f) \/ Abandon(f)
      PROVE  ClientTypeOK' /\ WireInv' /\ (hasty => hasty')
  <2>1. f \in Proofs /\ f.proposal \in Proposals
    BY ProofFacts, Zenon DEF ClientInv, ClientTypeOK
  <2> QED
    BY <1>0, <1>4, <2>1, Zenon DEF Send, Abandon, Hold, ClientInv, ClientTypeOK, WireInv, Views
<1>5. ASSUME NEW f \in waiting, GiveUp(f)
      PROVE  ClientTypeOK' /\ WireInv' /\ (hasty => hasty')
  BY <1>0, <1>5, WireKeeps, Zenon DEF GiveUp, ClientInv, ClientTypeOK, Views
<1>6. CASE Restart
  <2>1. asking' \in Nat
    BY <1>6, Zenon DEF Restart
  <2> QED
    BY <1>0, <1>6, <2>1, WireKeeps, Zenon DEF Restart, ClientInv, ClientTypeOK, Views
<1>7. CASE LoadFile \/ ShowInterrupted \/ MissFile
  BY <1>0, <1>7, WireKeeps, Zenon DEF LoadFile, ShowInterrupted, MissFile, ClientInv, ClientTypeOK, Views
<1> QED
  BY <1>1, <1>2, <1>3, <1>4, <1>5, <1>6, <1>7, Zenon DEF PhoneNext

(* Every step.                                                             *)
LEMMA ClientBase ==
  ASSUME ClientInv, [ClientNext]_clientVars
  PROVE  ClientTypeOK' /\ WireInv' /\ (hasty => hasty')
<1>1. CASE Disturbance \/ (\E w \in Workers : RelayNext(w)) \/ UNCHANGED clientVars
  <2>1. Settles /\ UNCHANGED <<phoneVars, wire>>
    BY <1>1, DisturbanceSettles, Zenon DEF ClientInv
  <2> QED
    BY <2>1, WireKeeps, Zenon DEF ClientInv, ClientTypeOK, phoneVars, memoryVars
<1>2. CASE Loss \/ \E w \in Workers : Delivery(w)
  <2>1. ClientTypeOK' /\ WireInv' /\ UNCHANGED hasty
    BY <1>2, LossBase, DeliveryBase, Zenon
  <2> QED
    BY <2>1, Zenon
<1> QED
  BY <1>1, <1>2, PhoneBase, Zenon DEF ClientNext

-----------------------------------------------------------------------------
(* What a phone that never asks in haste keeps.                            *)

(* Behind the first screen, memory and file agree.                         *)
LEMMA CarefulFacts ==
  ASSUME ClientInv, Careful
  PROVE  /\ saved = NoJob => Approvals = {}
         /\ view # "idle" => Agrees /\ loading \in {"read", "unread"}
         /\ waiting # {} => Agrees /\ loading \in {"read", "unread"} /\ confirming = {} /\ asking = 0
         /\ confirming # {} => Agrees /\ loading \in {"read", "unread"} /\ waiting = {} /\ asking = 0
         /\ \A f \in Approvals : f \in wire /\ f \in Proofs /\ f.proposal = saved /\ saved # NoJob
<1>1. \A f \in Approvals : f \in wire /\ f \in Proofs /\ f.proposal = saved /\ saved # NoJob
  BY ProofFacts, Zenon DEF Approvals, ClientInv, ClientTypeOK, Careful, ApprovalInv
<1>2. view # "idle" => Agrees /\ loading \in {"read", "unread"}
  BY Zenon DEF ClientInv, ClientTypeOK, Careful, LoadInv, Untouched
<1>3. view = "applying" => view # "idle" /\ asking = 0
  BY DEF Careful, PhoneInv
<1> QED
  BY <1>1, <1>2, <1>3, Zenon DEF Careful, PhoneInv

(* Nothing happens to the proposals and the phone; requests may be lost,   *)
(* and handlers end.                                                       *)
LEMMA QuietKeeps ==
  ASSUME ClientInv, Careful, UNCHANGED <<state, phoneVars>>, wire' \subseteq wire,
         \A v \in Workers : \/ pc'[v] = pc[v] /\ proof'[v] = proof[v] /\ reply'[v] = reply[v]
                            \/ pc'[v] = "idle" /\ proof'[v] = NoJob
  PROVE  Careful'
<1>0. UNCHANGED <<view, shown, held, loading, asking, confirming, waiting, saved, refused>>
  BY Zenon DEF phoneVars, memoryVars
<1>1. Approvals' \subseteq Approvals
  BY Zenon DEF Approvals
<1>2. LoadInv' /\ PhoneInv' /\ HoldSurvives'
  BY <1>0, Zenon DEF Careful, LoadInv, Agrees, Untouched, PhoneInv, HoldSurvives
<1>3. ApprovalInv'
  BY <1>0, <1>1, Zenon DEF Careful, ApprovalInv
<1>4. ASSUME NEW v \in Workers, pc'[v] = "reply", proof'[v] \in waiting'
      PROVE  Clears(v)'
  <2>1. pc[v] = "reply" /\ proof[v] \in waiting /\ proof'[v] = proof[v] /\ reply'[v] = reply[v]
    BY <1>0, <1>4, ProofFacts, Zenon DEF ClientInv, ClientTypeOK
  <2>2. Clears(v)
    BY <2>1, Zenon DEF Careful, AnswerInv
  <2> QED
    BY <1>0, <1>1, <2>1, <2>2, Zenon DEF Clears
<1> QED
  BY <1>2, <1>3, <1>4, Zenon DEF Careful, AnswerInv

(* Crashes, late inserts, the person's own changes to the calendar and     *)
(* revoked devices.                                                        *)
LEMMA DisturbanceKeeps ==
  ASSUME ClientInv, Careful, Disturbance \/ UNCHANGED clientVars
  PROVE  Careful'
<1>1. UNCHANGED <<phoneVars, wire>>
  BY Zenon DEF Disturbance, clientVars
<1>2. ASSUME NEW w \in Workers, Crash(w)
      PROVE  Careful'
  BY <1>1, <1>2, RespondQuiet, QuietKeeps, Zenon DEF ClientInv
<1>3. ASSUME UNCHANGED <<state, pc, proof, reply>>
      PROVE  Careful'
  BY <1>1, <1>3, QuietKeeps, Zenon
<1>4. (\E w \in Workers : Crash(w)) \/ UNCHANGED <<state, pc, proof, reply>>
  BY Zenon DEF Disturbance, Land, UserChanges, UserDeletesCalendar, OperatorClearsGuard, Revoke,
     clientVars, vars, proposalVars, jobVars
<1> QED
  BY <1>2, <1>3, <1>4, Zenon

(* A handler goes on or ends.                                              *)
LEMMA RelayKeeps ==
  ASSUME ClientInv, Careful, NEW w \in Workers, RelayNext(w)
  PROVE  Careful'
<1>0. UNCHANGED <<view, shown, held, loading, asking, confirming, waiting, saved, refused, wire>>
  BY Zenon DEF RelayNext, phoneVars, memoryVars
<1>1. Effect(w) /\ Others(w) /\ pc[w] \notin {"idle", "reply"} /\ proof' = proof
  BY RecoveryEffect, ExecutionEffect, Zenon DEF RelayNext, ClientInv, jobVars
<1>2. /\ serving[w] \in Proposals /\ state[serving[w]] = "approved" /\ proof[w].proposal = serving[w]
      /\ state \in [Proposals -> States]
  BY <1>1, Zenon DEF ClientInv, HandlerInv, TypeOK
<1>3. /\ \A p \in Proposals : state'[p] = state[p] \/ (p = serving[w] /\ state'[p] # "approved")
      /\ \A p \in Proposals : state[p] # "approved" => state'[p] = state[p]
  BY <1>1, <1>2, Zenon DEF Effect
<1>4. LoadInv' /\ PhoneInv' /\ HoldSurvives'
  BY <1>0, <1>3, Zenon DEF Careful, LoadInv, Agrees, Untouched, PhoneInv, HoldSurvives
<1>5. Approvals' = Approvals
  BY <1>0, Zenon DEF Approvals
<1>6. shown \in Proposals /\ state[shown] = "proposed" => state'[shown] = "proposed"
  BY <1>3
<1>7. saved \in Proposals /\ state[saved] = "proposed" => state'[saved] = "proposed"
  BY <1>3
<1>8. ApprovalInv'
  <2>1. \A f \in confirming : shown \in Proposals
    BY ProofFacts, Zenon DEF Careful, PhoneInv, ClientInv, ClientTypeOK
  <2>2. \A f \in Approvals : saved \in Proposals
    BY CarefulFacts, Zenon DEF ClientInv, ClientTypeOK
  <2> QED
    BY <1>0, <1>5, <1>6, <1>7, <2>1, <2>2, Zenon DEF Careful, ApprovalInv
<1>9. ASSUME NEW v \in Workers, pc'[v] = "reply", proof'[v] \in waiting'
      PROVE  Clears(v)'
  <2>1. proof[v] \in waiting /\ proof'[v] = proof[v] /\ proof[v].proposal = shown /\ shown \in Proposals
    BY <1>0, <1>1, <1>9, ProofFacts, Zenon DEF ClientInv, Careful, PhoneInv, ClientTypeOK
  <2>2. CASE v # w
    <3>1. pc[v] = "reply" /\ reply'[v] = reply[v]
      BY <1>1, <1>9, <2>2, Zenon DEF Others
    <3>2. Clears(v)
      BY <2>1, <3>1, Zenon DEF Careful, AnswerInv
    <3> QED
      BY <1>0, <1>3, <1>5, <2>1, <3>1, <3>2, Zenon DEF Clears
  <2>3. CASE v = w
    <3>1. shown = serving[w]
      BY <1>2, <2>1, <2>3, Zenon
    <3>2. Approvals = {}
      <4>1. saved \in {NoJob, shown}
        BY <2>1, CarefulFacts, Zenon DEF Agrees
      <4>2. state[shown] # "proposed"
        BY <1>2, <3>1
      <4> QED
        BY <4>1, <4>2, CarefulFacts, Zenon DEF Careful, ApprovalInv
    <3>3. CASE UNCHANGED state
      BY <1>1, <1>2, <1>9, <2>1, <2>3, <3>1, <3>3 DEF Effect, Clears
    <3>4. CASE state' = [state EXCEPT ![serving[w]] = "applied"] /\ reply'[w] = "applied"
      BY <1>0, <1>2, <1>5, <2>3, <3>1, <3>2, <3>4, Zenon DEF Clears
    <3>5. CASE state' = [state EXCEPT ![serving[w]] = "proposed"] /\ reply'[w] = "reset" /\ proof[w].kind = "reset"
      BY <1>0, <1>2, <1>5, <2>3, <3>1, <3>2, <3>5, Zenon DEF Clears
    <3> QED
      BY <1>1, <3>3, <3>4, <3>5, Zenon DEF Effect
  <2> QED
    BY <2>2, <2>3, Zenon
<1> QED
  BY <1>4, <1>8, <1>9, Zenon DEF Careful, AnswerInv

(* A request arrives: an approval finds its plan saved, and one that is    *)
(* rejected finds it proposed.                                             *)
LEMMA ServingKeeps ==
  ASSUME ClientInv, Careful, NEW w \in Workers, NEW f \in wire, Serving(w, f)
  PROVE  Careful'
<1> DEFINE p == f.proposal
<1>0. /\ UNCHANGED <<view, shown, held, loading, asking, confirming, waiting, saved, refused>>
      /\ wire' = wire \ {f}
  BY Zenon DEF Serving, phoneVars, memoryVars
<1>1. f \in Proofs /\ p \in Proposals /\ f # NoJob /\ f.kind \in {"approval", "reset"}
  BY ProofFacts, Zenon DEF ClientInv, ClientTypeOK
<1>2. /\ \A v \in Workers \ {w} : pc'[v] = pc[v] /\ proof'[v] = proof[v] /\ reply'[v] = reply[v]
      /\ proof'[w] = f
  BY ServingWorkers, Zenon DEF ClientInv
<1>3. \/ /\ f.kind = "approval" /\ pc'[w] = "lease" /\ state' = [state EXCEPT ![p] = "approved"]
      \/ /\ f.kind = "approval" /\ pc'[w] = "reply" /\ UNCHANGED state
      \/ /\ f.kind = "reset" /\ UNCHANGED state
         /\ pc'[w] = "reconcile" \/ (pc'[w] = "reply" /\ reply'[w] \in {"stale", "policy"})
  BY <1>1, Zenon
     DEF Serving, Approve, RejectApproval, Recover, RejectRecovery, Finish, ClientInv, TypeOK, proposalVars
<1>4. Approvals' = Approvals \ {f}
  BY <1>0, Zenon DEF Approvals
<1>5. f.kind = "approval" => f \in Approvals /\ p = saved /\ saved # NoJob /\ state[p] = "proposed"
  BY CarefulFacts, Zenon DEF Approvals, Careful, ApprovalInv
<1>6. LoadInv' /\ PhoneInv'
  BY <1>0, Zenon DEF Careful, LoadInv, Agrees, Untouched, PhoneInv
<1>7. HoldSurvives'
  BY <1>0, <1>1, <1>3, <1>5, Zenon DEF Careful, HoldSurvives, ClientInv, TypeOK
<1>8. f.kind = "approval" => Approvals' = {}
  BY <1>4, <1>5, Zenon DEF Careful, ApprovalInv
<1>9. ApprovalInv'
  <2>1. CASE f.kind = "approval"
    <3>1. view # "proposed" /\ \A g \in confirming : g.kind # "approval"
      BY <1>5, <2>1, Zenon DEF Careful, ApprovalInv
    <3> QED
      BY <1>0, <1>8, <2>1, <3>1, Zenon DEF ApprovalInv
  <2>2. CASE f.kind # "approval"
    BY <1>0, <1>3, <1>4, <2>2, Zenon DEF Careful, ApprovalInv
  <2> QED
    BY <2>1, <2>2, Zenon
<1>10. ASSUME NEW v \in Workers, pc'[v] = "reply", proof'[v] \in waiting'
       PROVE  Clears(v)'
  <2>1. CASE v = w
    <3>1. CASE f.kind = "approval"
      <4>1. pc'[w] # "lease" /\ f.kind # "reset" /\ f \in waiting
        BY <1>0, <1>2, <1>10, <2>1, <3>1
      <4>2. UNCHANGED state
        BY <1>3, <3>1, <4>1, Zenon
      <4>3. state[shown] = "proposed"
        BY <1>5, <3>1, <4>1, Zenon DEF Careful, PhoneInv
      <4> QED
        BY <1>0, <1>2, <2>1, <4>1, <4>2, <4>3, Zenon DEF Clears
    <3>2. CASE f.kind = "reset"
      BY <1>0, <1>2, <1>3, <1>10, <2>1, <3>2 DEF Clears
    <3> QED
      BY <1>1, <3>1, <3>2, Zenon
  <2>2. CASE v # w
    <3>1. pc[v] = "reply" /\ reply'[v] = reply[v] /\ proof'[v] = proof[v] /\ proof[v] \in waiting
      BY <1>0, <1>2, <1>10, <2>2, Zenon
    <3>2. Clears(v)
      BY <3>1, Zenon DEF Careful, AnswerInv
    <3>3. CASE UNCHANGED state
      BY <1>0, <1>4, <3>1, <3>2, <3>3, Zenon DEF Clears
    <3>4. CASE f.kind = "approval" /\ state' = [state EXCEPT ![p] = "approved"]
      <4>1. proof[v].kind # "approval"
        BY <1>5, <3>1, <3>4, Zenon DEF ClientInv, Careful, ApprovalInv, WireInv
      <4>2. reply[v] \notin {"applied", "reset"} \/ proof[v].kind # "reset"
        BY <1>5, <3>2, <3>4, Zenon DEF Clears
      <4> QED
        BY <1>0, <3>1, <4>1, <4>2, Zenon DEF Clears
    <3> QED
      BY <1>3, <3>3, <3>4, Zenon
  <2> QED
    BY <2>1, <2>2, Zenon
<1> QED
  BY <1>6, <1>7, <1>9, <1>10, Zenon DEF Careful, AnswerInv

(* The phone takes an answer, from a handler or from the door.             *)
LEMMA AnswerKeeps ==
  ASSUME ClientInv, Careful, UNCHANGED state, NEW f \in waiting, NEW answer, Answer(f, answer),
         Approvals' \subseteq Approvals,
         f.kind = "approval" => Approvals' = {},
         f.kind = "approval" /\ answer \notin {"contract", "unavailable"} => state[shown] # "approved",
         f.kind = "reset" /\ answer \in {"applied", "reset"} =>
            /\ state[shown] # "approved" /\ Approvals = {}
            /\ answer = "reset" => state[shown] = "proposed"
  PROVE  Careful'
<1>1. f \in Proofs /\ f.proposal = shown /\ shown \in Proposals /\ shown # NoJob
  BY ProofFacts, Zenon DEF ClientInv, ClientTypeOK, Careful, PhoneInv
<1>2. Agrees /\ loading \in {"read", "unread"} /\ loading # "due" /\ loading \notin Proposals /\ confirming = {} /\ asking = 0
  <2>1. loading \in {"read", "unread"} => loading # "due" /\ loading \notin Proposals
    BY PhoneAssumption
  <2> QED
    BY <2>1, CarefulFacts, Zenon
<1>3. /\ UNCHANGED <<shown, loading, asking, confirming>> /\ waiting' = {}
      /\ view' \in {"applied", "error", "proposed"}
      /\ view' = "proposed" => f.kind = "reset" /\ answer = "reset" /\ saved' = NoJob
      /\ \/ /\ held' = FALSE /\ saved' = NoJob /\ f.kind = "approval" /\ answer # "unavailable"
            /\ answer = "contract" => f.proposal \in refused'
         \/ held' = FALSE /\ saved' = NoJob /\ f.kind = "reset" /\ answer \in {"applied", "reset"}
         \/ UNCHANGED <<held, saved>>
      /\ refused \subseteq refused'
  <2>1. waiting \ {f} = {}
    BY Zenon DEF Careful, PhoneInv
  <2> QED
    BY <1>1, <2>1, AnswerFacts, Zenon
<1>4. LoadInv'
  BY <1>2, <1>3, Zenon DEF LoadInv, Agrees
<1>5. PhoneInv'
  BY <1>2, <1>3, Zenon DEF PhoneInv
<1>6. HoldSurvives'
  <2>1. CASE UNCHANGED <<held, saved>>
    BY <1>3, <2>1, Zenon DEF Careful, HoldSurvives
  <2>2. CASE saved' = NoJob /\ (state[shown] # "approved" \/ shown \in refused')
    BY <1>2, <1>3, <2>2, ProofFacts, Zenon DEF Careful, HoldSurvives, Agrees
  <2> QED
    BY <1>1, <1>3, <2>1, <2>2, Zenon
<1>7. Approvals' = {} \/ UNCHANGED saved
  BY <1>3, Zenon
<1>8. view' = "proposed" => shown \in Proposals /\ saved' = NoJob /\ state[shown] = "proposed"
  BY <1>1, <1>3, Zenon
<1>9. ApprovalInv'
  BY <1>2, <1>3, <1>7, <1>8, Zenon DEF Careful, ApprovalInv
<1> QED
  BY <1>3, <1>4, <1>5, <1>6, <1>9, Zenon DEF Careful, AnswerInv

(* A handler's answer arrives.                                             *)
LEMMA AnsweredKeeps ==
  ASSUME ClientInv, Careful, NEW w \in Workers, Answered(w)
  PROVE  Careful'
<1>1. /\ UNCHANGED <<state, wire>> /\ proof[w] \in waiting /\ pc[w] = "reply"
      /\ Answer(proof[w], reply[w])
  BY Zenon DEF Answered, Respond, proposalVars
<1>2. Approvals' = Approvals /\ Clears(w)
  BY <1>1, Zenon DEF Approvals, Careful, AnswerInv
<1>3. proof[w].kind = "approval" => Approvals = {}
  BY <1>1, Zenon DEF ClientInv, WireInv, Careful, ApprovalInv, Approvals
<1> QED
  BY <1>1, <1>2, <1>3, AnswerKeeps, Zenon DEF Clears

(* A lost request or answer, and a request turned away at the door.        *)
LEMMA LossKeeps ==
  ASSUME ClientInv, Careful, Loss
  PROVE  Careful'
<1>1. ASSUME NEW f \in wire, Lost(f)
      PROVE  Careful'
  BY <1>1, QuietKeeps, Zenon DEF Lost, vars, proposalVars, jobVars
<1>2. ASSUME NEW w \in Workers, AnswerLost(w)
      PROVE  Careful'
  BY <1>2, RespondQuiet, QuietKeeps, Zenon DEF AnswerLost, ClientInv
<1>3. ASSUME NEW f \in wire, TurnedAway(f)
      PROVE  Careful'
  <2>1. PICK answer \in DoorAnswers : Answer(f, answer)
    BY <1>3, Zenon DEF TurnedAway
  <2>2. f \in waiting /\ UNCHANGED state /\ wire' = wire \ {f}
    BY <1>3, Zenon DEF TurnedAway, vars, proposalVars
  <2>3. answer \notin {"applied", "reset"}
    BY <2>1 DEF DoorAnswers
  <2>4. Approvals' \subseteq Approvals
    BY <2>2, Zenon DEF Approvals
  <2>5. f.kind = "approval" => Approvals' = {} /\ state[shown] = "proposed"
    <3>1. SUFFICES ASSUME f.kind = "approval" PROVE Approvals' = {} /\ state[shown] = "proposed"
      BY Zenon
    <3>2. f \in Approvals /\ saved = shown
      BY <2>2, <3>1, Zenon DEF Approvals, Careful, PhoneInv
    <3> QED
      BY <2>2, <3>1, <3>2, Zenon DEF Approvals, Careful, ApprovalInv
  <2>6. "proposed" # "approved"
    OBVIOUS
  <2> QED
    BY <2>1, <2>2, <2>3, <2>4, <2>5, <2>6, AnswerKeeps, Zenon
<1> QED
  BY <1>1, <1>2, <1>3, Zenon DEF Loss

-----------------------------------------------------------------------------
(* The phone's own steps: they leave the workers, and mostly the proposals,*)
(* as they are.                                                            *)

(* A plan is asked for only when none is saved.                            *)
LEMMA AskKeeps ==
  ASSUME ClientInv, Careful, AskPreview, ~hasty'
  PROVE  Careful'
<1>0. /\ UNCHANGED <<state, pc, proof, reply, shown, held, loading, confirming, waiting, saved, refused, wire>>
      /\ view' = "planning" /\ asking' = asking + 1 /\ ~held /\ view \notin {"planning", "applying"}
      /\ ~FileUnknown
  BY Zenon DEF AskPreview, CanPreview, vars, proposalVars, jobVars
<1>1. loading \in {"read", "unread"} /\ loading # "due" /\ loading \notin Proposals
  BY <1>0, PhoneAssumption DEF FileUnknown
<1>2. saved = NoJob
  BY <1>0, Zenon DEF FileUnknown, Careful, LoadInv, Agrees
<1>3. held = FALSE
  BY <1>0, Zenon DEF ClientInv, ClientTypeOK
<1>4. confirming = {} /\ waiting = {} /\ asking' = 1
  BY <1>0 DEF Careful, PhoneInv
<1>5. Approvals' = {}
  BY <1>0, <1>2, CarefulFacts, Zenon DEF Approvals
<1>6. LoadInv'
  BY <1>0, <1>1, <1>2, <1>3, Zenon DEF LoadInv, Agrees
<1>7. PhoneInv'
  BY <1>0, <1>2, <1>4, Zenon DEF PhoneInv
<1>8. ApprovalInv' /\ AnswerInv'
  BY <1>0, <1>4, <1>5, Zenon DEF ApprovalInv, AnswerInv
<1>9. HoldSurvives'
  BY <1>0, Zenon DEF Careful, HoldSurvives
<1> QED
  BY <1>6, <1>7, <1>8, <1>9, Zenon DEF Careful

(* The plan arrives, or the call fails.                                    *)
LEMMA PreviewKeeps ==
  ASSUME ClientInv, Careful, PreviewFails \/ \E p \in Proposals : PreviewAnswered(p)
  PROVE  Careful'
<1>0. /\ UNCHANGED <<held, loading, confirming, waiting, saved, refused, wire>>
      /\ asking > 0 /\ asking' = asking - 1
  BY Zenon DEF PreviewFails, PreviewAnswered
<1>1. asking' = 0 /\ view = "planning" /\ saved = NoJob
  BY <1>0 DEF ClientInv, ClientTypeOK, Careful, PhoneInv
<1>2. confirming = {} /\ waiting = {}
  BY <1>1, Zenon DEF Careful, PhoneInv
<1>3. Agrees /\ loading # "due" /\ loading \notin Proposals
  BY <1>1, Zenon DEF Careful, LoadInv, Untouched
<1>4. Approvals' = {}
  BY <1>0, <1>1, CarefulFacts, Zenon DEF Approvals
<1>5. \/ UNCHANGED <<state, shown>> /\ view' = "error"
      \/ \E p \in Proposals : /\ state' = [state EXCEPT ![p] = "proposed"]
                              /\ (view' = "proposed" /\ shown' = p) \/ (view' = "error" /\ UNCHANGED shown)
  BY Zenon DEF PreviewFails, PreviewAnswered, Preview, vars, proposalVars
<1>6. LoadInv'
  BY <1>0, <1>1, <1>3, Zenon DEF LoadInv, Agrees
<1>7. PhoneInv' /\ AnswerInv'
  BY <1>0, <1>1, <1>2, Zenon DEF PhoneInv, AnswerInv
<1>8. ApprovalInv'
  BY <1>0, <1>1, <1>2, <1>4, <1>5, Zenon DEF ClientInv, ApprovalInv, TypeOK
<1>9. HoldSurvives'
  BY <1>0, <1>5, Zenon DEF ClientInv, Careful, HoldSurvives, TypeOK
<1> QED
  BY <1>6, <1>7, <1>8, <1>9, Zenon DEF Careful

(* The owner is asked.                                                     *)
LEMMA ConfirmKeeps ==
  ASSUME ClientInv, Careful, NEW f \in Proofs, ApprovePlan(f) \/ RecoverPlan(f)
  PROVE  Careful'
<1>0. /\ UNCHANGED <<state, pc, proof, reply, shown, held, loading, asking, waiting, saved, refused, wire>>
      /\ view' = "applying" /\ confirming' = confirming \cup {f} /\ f.proposal = shown
      /\ (view = "proposed" /\ f.kind = "approval") \/ (view = "error" /\ f.kind = "reset")
  BY Zenon DEF ApprovePlan, RecoverPlan, Confirm, vars, proposalVars, jobVars
<1>1. view \notin {"idle", "applying", "planning"}
  BY <1>0
<1>2. confirming = {} /\ waiting = {} /\ asking = 0 /\ confirming' = {f}
  BY <1>0, <1>1, Zenon DEF Careful, PhoneInv
<1>3. Agrees /\ loading # "due" /\ loading \notin Proposals
  BY <1>1, Zenon DEF Careful, LoadInv, Untouched
<1>4. Approvals' = Approvals
  BY <1>0, Zenon DEF Approvals
<1>5. LoadInv'
  BY <1>0, <1>3, Zenon DEF LoadInv, Agrees
<1>6. PhoneInv' /\ AnswerInv'
  BY <1>0, <1>2, Zenon DEF PhoneInv, AnswerInv
<1>7. f.kind = "approval" => saved = NoJob /\ state[shown] = "proposed"
  BY <1>0 DEF Careful, ApprovalInv
<1>8. ApprovalInv'
  BY <1>0, <1>2, <1>4, <1>7, Zenon DEF Careful, ApprovalInv
<1>9. HoldSurvives'
  BY <1>0, Zenon DEF Careful, HoldSurvives
<1> QED
  BY <1>5, <1>6, <1>8, <1>9, Zenon DEF Careful

(* The owner authenticated: an approval finds nothing saved and no other   *)
(* approval on its way.                                                    *)
LEMMA SendKeeps ==
  ASSUME ClientInv, Careful, NEW f \in confirming, Send(f)
  PROVE  Careful'
<1>0. /\ UNCHANGED <<state, pc, proof, reply, view, shown, loading, asking, refused>>
      /\ confirming' = confirming \ {f} /\ wire' = wire \cup {f} /\ waiting' = waiting \cup {f}
      /\ \/ f.kind = "approval" /\ held' = TRUE /\ saved' = f.proposal
         \/ f.kind # "approval" /\ UNCHANGED <<held, saved>>
  BY Zenon DEF Send, Hold, vars, proposalVars, jobVars
<1>1. f \in Proofs /\ f.proposal = shown /\ shown \in Proposals /\ shown # NoJob /\ view = "applying"
  BY ProofFacts, Zenon DEF ClientInv, ClientTypeOK, Careful, PhoneInv
<1>2. waiting = {} /\ asking = 0 /\ Agrees /\ loading # "due" /\ loading \notin Proposals
  <2>1. loading \in {"read", "unread"} => loading # "due" /\ loading \notin Proposals
    BY PhoneAssumption
  <2> QED
    BY <2>1, CarefulFacts, Zenon
<1>3. confirming' = {} /\ waiting' = {f}
  BY <1>0, <1>2, Zenon DEF Careful, PhoneInv
<1>4. LoadInv'
  BY <1>0, <1>1, <1>2, Zenon DEF LoadInv, Agrees
<1>5. PhoneInv'
  BY <1>0, <1>1, <1>2, <1>3, Zenon DEF PhoneInv
<1>6. AnswerInv'
  BY <1>0, <1>3, Zenon DEF ClientInv, WireInv, AnswerInv
<1>7. f.kind = "approval" => saved = NoJob /\ state[shown] = "proposed" /\ Approvals = {}
  BY CarefulFacts, Zenon DEF Careful, ApprovalInv
<1>8. HoldSurvives'
  BY <1>0, <1>7, ProofFacts, Zenon DEF Careful, HoldSurvives
<1>9. ApprovalInv'
  <2>0. view # "proposed"
    BY <1>1
  <2>1. CASE f.kind = "approval"
    <3>1. Approvals' = {f}
      BY <1>0, <1>7, <2>1, Zenon DEF Approvals
    <3> QED
      BY <1>0, <1>1, <1>3, <1>7, <2>0, <2>1, <3>1, Zenon DEF ApprovalInv
  <2>2. CASE f.kind # "approval"
    <3>1. Approvals' = Approvals
      BY <1>0, <2>2, Zenon DEF Approvals
    <3> QED
      BY <1>0, <1>3, <2>0, <2>2, <3>1, Zenon DEF Careful, ApprovalInv
  <2> QED
    BY <2>1, <2>2, Zenon
<1> QED
  BY <1>4, <1>5, <1>6, <1>8, <1>9, Zenon DEF Careful

(* A call ends without an answer.                                          *)
LEMMA EndKeeps ==
  ASSUME ClientInv, Careful,
         (\E f \in confirming : Abandon(f)) \/ (\E f \in waiting : GiveUp(f))
  PROVE  Careful'
<1>0. /\ UNCHANGED <<state, pc, proof, reply, shown, held, loading, asking, saved, refused, wire>>
      /\ view' = "error" /\ confirming' \subseteq confirming /\ waiting' \subseteq waiting
      /\ confirming # {} \/ waiting # {}
  BY Zenon DEF Abandon, GiveUp, vars, proposalVars, jobVars
<1>1. confirming' = {} /\ waiting' = {}
  BY <1>0, Zenon DEF Careful, PhoneInv, Abandon, GiveUp
<1>2. asking = 0 /\ Agrees /\ loading # "due" /\ loading \notin Proposals
  <2>1. loading \in {"read", "unread"} => loading # "due" /\ loading \notin Proposals
    BY PhoneAssumption
  <2> QED
    BY <1>0, <2>1, CarefulFacts, Zenon
<1>3. Approvals' = Approvals
  BY <1>0, Zenon DEF Approvals
<1>4. LoadInv'
  BY <1>0, <1>2, Zenon DEF LoadInv, Agrees
<1>5. PhoneInv' /\ AnswerInv'
  BY <1>0, <1>1, <1>2, Zenon DEF PhoneInv, AnswerInv
<1>6. ApprovalInv' /\ HoldSurvives'
  BY <1>0, <1>1, <1>3, Zenon DEF Careful, ApprovalInv, HoldSurvives
<1> QED
  BY <1>4, <1>5, <1>6, Zenon DEF Careful

(* The app starts again, and reads the file or does not.                   *)
LEMMA StartKeeps ==
  ASSUME ClientInv, Careful, Restart \/ LoadFile \/ ShowInterrupted \/ MissFile
  PROVE  Careful'
<1>0. /\ UNCHANGED <<state, pc, proof, reply, saved, refused, wire>>
      /\ waiting' = {} /\ confirming' = {} /\ asking' = 0
      /\ view' \in {"idle", "error"}
  BY Zenon DEF Restart, LoadFile, ShowInterrupted, MissFile, Careful, LoadInv, Untouched, vars,
     proposalVars, jobVars
<1>1. Approvals' = Approvals
  BY <1>0, Zenon DEF Approvals
<1>2. PhoneInv' /\ AnswerInv'
  BY <1>0, Zenon DEF PhoneInv, AnswerInv
<1>3. ApprovalInv' /\ HoldSurvives'
  BY <1>0, <1>1, Zenon DEF Careful, ApprovalInv, HoldSurvives
<1>4. \A p \in Proposals : p # "due" /\ p # "read" /\ p # "unread" /\ p # NoJob
  BY PhoneAssumption
<1>5. CASE Restart
  <2>1. Untouched' /\ loading' = "due"
    BY <1>5, Zenon DEF Restart, Untouched
  <2>2. loading' # "read"
    BY <2>1
  <2>3. LoadInv'
    BY <1>4, <2>1, <2>2, Zenon DEF LoadInv
  <2> QED
    BY <1>2, <1>3, <2>3, Zenon DEF Careful
<1>6. CASE LoadFile \/ MissFile
  <2>1. Untouched /\ Untouched'
    BY <1>6, Zenon DEF LoadFile, MissFile, Careful, LoadInv, Untouched
  <2>2. loading' = "unread" \/ (loading' = "read" /\ saved = NoJob) \/ (loading' = saved /\ saved \in Proposals)
    BY <1>6, Zenon DEF LoadFile, MissFile, ClientInv, ClientTypeOK
  <2>3. loading' = "read" => Agrees'
    <3>1. loading' = "read" => saved = NoJob
      BY <1>4, <2>2
    <3> QED
      BY <1>0, <2>1, <3>1, Zenon DEF Agrees, Untouched
  <2>4. loading' \in Proposals => loading' = saved'
    BY <1>0, <1>4, <2>2
  <2>5. LoadInv'
    BY <2>1, <2>3, <2>4, Zenon DEF LoadInv
  <2> QED
    BY <1>2, <1>3, <2>5, Zenon DEF Careful
<1>7. CASE ShowInterrupted
  <2>1. saved \in Proposals /\ shown' = saved /\ held' = TRUE /\ loading' = "read"
    BY <1>7, Zenon DEF ShowInterrupted, Careful, LoadInv
  <2>2. Agrees' /\ loading' # "due" /\ loading' \notin Proposals
    <3>1. loading' # "due" /\ loading' \notin Proposals /\ saved # NoJob
      BY <1>4, <2>1
    <3> QED
      BY <1>0, <2>1, <3>1, Zenon DEF Agrees
  <2>3. LoadInv'
    BY <2>2, Zenon DEF LoadInv
  <2> QED
    BY <1>2, <1>3, <2>3, Zenon DEF Careful
<1> QED
  BY <1>5, <1>6, <1>7, Zenon

-----------------------------------------------------------------------------

(* The invariants hold at first.                                           *)
LEMMA ClientInitInv ==
  ASSUME ClientInit
  PROVE  IndInv /\ HoldInv
<1>1. IndInv
  BY InitInv, Zenon DEF ClientInit
<1>2. \A p \in Proposals : state[p] # "approved"
  BY Zenon DEF ClientInit, Init
<1>3. Approvals = {}
  BY Zenon DEF ClientInit, Approvals
<1>4. ClientTypeOK /\ WireInv
  BY Zenon DEF ClientInit, ClientTypeOK, WireInv, Views
<1>5. LoadInv
  BY PhoneAssumption DEF ClientInit, LoadInv, Agrees, Untouched
<1>6. PhoneInv /\ AnswerInv
  BY Zenon DEF ClientInit, PhoneInv, AnswerInv
<1>7. ApprovalInv /\ HoldSurvives
  BY <1>2, <1>3, Zenon DEF ClientInit, ApprovalInv, HoldSurvives
<1> QED
  BY <1>1, <1>4, <1>5, <1>6, <1>7, Zenon DEF HoldInv, Careful

(* Every step of the phone, the network and the relay keeps the invariants.*)
LEMMA ClientStep ==
  ASSUME IndInv, HoldInv, [ClientNext]_clientVars
  PROVE  IndInv' /\ HoldInv'
<1>1. [Next]_vars
  BY StepIsNext, Zenon DEF HoldInv
<1>2. IndInv'
  BY <1>1, TypeStep, HandlerStep, LeaseStep, EffectStep, RoundStep, WrittenStep, Zenon DEF IndInv
<1>3. ClientInv
  BY Zenon DEF IndInv, ClientInv, HoldInv
<1>4. ClientTypeOK' /\ WireInv' /\ (hasty => hasty')
  BY <1>3, ClientBase, Zenon
<1>5. ASSUME ~hasty', Careful
      PROVE  Careful'
  <2>1. CASE Disturbance \/ UNCHANGED clientVars
    BY <1>3, <1>5, <2>1, DisturbanceKeeps, Zenon
  <2>2. CASE PhoneNext
    BY <1>3, <1>5, <2>2, AskKeeps, PreviewKeeps, ConfirmKeeps, SendKeeps, EndKeeps, StartKeeps, Zenon
       DEF PhoneNext
  <2>3. CASE Loss
    BY <1>3, <1>5, <2>3, LossKeeps, Zenon
  <2>4. ASSUME NEW w \in Workers, RelayNext(w) \/ Delivery(w)
        PROVE  Careful'
    BY <1>3, <1>5, <2>4, RelayKeeps, ServingKeeps, AnsweredKeeps, Zenon DEF Delivery
  <2> QED
    BY <2>1, <2>2, <2>3, <2>4, Zenon DEF ClientNext
<1> QED
  BY <1>2, <1>4, <1>5, Zenon DEF HoldInv

(* Whatever is lost, late or killed, a plan that the relay holds as        *)
(* approved is saved on the phone for recovery, unless the relay answered  *)
(* that its calendar contract was rejected, or a plan was ever asked for   *)
(* with the file unknown (approveWeekPlan, recoverWeekPlan and             *)
(* loadPendingEvents of ConversationSession.swift).                        *)
THEOREM InterruptedPlanIsHeld == ClientSpec => []InterruptedIsHeld
<1>1. ClientInit => IndInv /\ HoldInv
  BY ClientInitInv, Zenon
<1>2. IndInv /\ HoldInv /\ [ClientNext]_clientVars => IndInv' /\ HoldInv'
  BY ClientStep, Zenon
<1>3. HoldInv => InterruptedIsHeld
  BY Zenon DEF HoldInv, Careful, HoldSurvives, InterruptedIsHeld
<1> QED
  BY <1>1, <1>2, <1>3, PTL DEF ClientSpec

(* The phone, the network and its losses lead the relay nowhere that       *)
(* CalendarExecution does not, haste or not: one executor at a time, on an *)
(* approved plan.                                                          *)
THEOREM ClientKeepsOneExecutor == ClientSpec => []ExecutionHoldsApproval
<1>1. ClientInit => IndInv /\ HoldInv
  BY ClientInitInv
<1>2. IndInv /\ HoldInv /\ [ClientNext]_clientVars => IndInv' /\ HoldInv'
  BY ClientStep
<1>3. IndInv => ExecutionHoldsApproval
  BY Zenon DEF IndInv, HandlerInv, ExecutionHoldsApproval, Executing, ExecuteCalls
<1> QED
  BY <1>1, <1>2, <1>3, PTL DEF ClientSpec

-----------------------------------------------------------------------------
(***************************************************************************)
(* The custody of the calendar id, for any number of processes that run at *)
(* once and any number of calendars, until a process undoes or ignores     *)
(* what another did since it looked.  The guard then serves as a lock      *)
(* from Mark to Unguard: whoever passed Check while another held it will   *)
(* find it set when it comes to Mark.                                      *)
(***************************************************************************)

Creating(q) == at[q] \in {"post", "save", "unguard"}

(* Calendars are numbered in the order of their creation.                  *)
NumberInv ==
    /\ kept <= created
    /\ \A q \in Processes : seen[q] <= created
    /\ \A c \in live : 0 < c /\ c <= created

(* One process creates at a time, under the guard, and what an id that is  *)
(* about to be cleared names is gone.                                      *)
CreatingInv ==
    /\ \A q, r \in Processes : Creating(q) /\ Creating(r) => q = r
    /\ \A q \in Processes :
        /\ Creating(q) => guarded
        /\ at[q] = "post" => live = {}
        /\ at[q] = "save" => live \subseteq {seen[q]}
        /\ at[q] = "unguard" => live \subseteq {kept}
        /\ at[q] = "clear" => seen[q] \notin live

Orderly ==
    /\ CreatingInv
    /\ live \ {kept} # {} => guarded
    /\ \A a, b \in live : a = b

IdentityInv == IdentityTypeOK /\ NumberInv /\ (raced \/ Orderly)

(* The initial state: an empty Keychain and no calendar.                   *)
LEMMA IdentityInvInit == IdentityInit => IdentityInv
<1> SUFFICES ASSUME IdentityInit PROVE IdentityInv
    BY Zenon
<1> USE DEF IdentityInit, NoCalendar
<1>1. IdentityTypeOK
    <2>1. 0 \in 0 .. MaxCalendars
        BY IdentityAssumption
    <2>2. QED
        BY <2>1, Zenon DEF IdentityTypeOK, Steps
<1>2. NumberInv
    BY DEF NumberInv
<1>3. CreatingInv
    BY Zenon DEF CreatingInv, Creating
<1>4. QED
    BY <1>1, <1>2, <1>3, Zenon DEF IdentityInv, Orderly

(* The types are kept by every step.                                       *)
LEMMA IdentityTypes == IdentityTypeOK /\ [IdentityNext]_identityVars => IdentityTypeOK'
<1> SUFFICES ASSUME IdentityTypeOK, [IdentityNext]_identityVars PROVE IdentityTypeOK'
    BY Zenon
<1> USE IdentityAssumption DEF IdentityTypeOK, NoCalendar, Steps
<1>1. ASSUME NEW q \in Processes,
             Load(q) \/ Get(q) \/ Clear(q) \/ Check(q) \/ Mark(q) \/ Save(q) \/ Unguard(q) \/ Fail(q)
      PROVE IdentityTypeOK'
    <2>1. live' = live /\ created' = created
        BY <1>1, Zenon DEF Load, Get, Clear, Check, Mark, Save, Unguard, Fail
    <2>2. at' \in [Processes -> Steps]
        BY <1>1, Zenon DEF Load, Get, Clear, Check, Mark, Save, Unguard, Fail, Step, Missing
    <2>3. seen' \in [Processes -> 0 .. MaxCalendars]
        BY <1>1, Zenon DEF Load, Get, Clear, Check, Mark, Save, Unguard, Fail
    <2>4. kept' \in 0 .. MaxCalendars
        BY <1>1 DEF Load, Get, Clear, Check, Mark, Save, Unguard, Fail
    <2>5. guarded' \in BOOLEAN
        BY <1>1, Zenon DEF Load, Get, Clear, Check, Mark, Save, Unguard, Fail
    <2>6. raced' \in BOOLEAN
        BY <1>1, Zenon DEF Load, Get, Clear, Check, Mark, Save, Unguard, Fail
    <2>7. QED
        BY <2>1, <2>2, <2>3, <2>4, <2>5, <2>6, Zenon
<1>2. ASSUME NEW q \in Processes, Post(q) \/ PostLost(q) PROVE IdentityTypeOK'
    <2>1. created + 1 \in 1 .. MaxCalendars /\ created' = created + 1 /\ live' = live \cup {created + 1}
        BY <1>2 DEF Post, PostLost, Insert
    <2>2. at' \in [Processes -> Steps] /\ UNCHANGED <<kept, guarded, raced>>
        BY <1>2, Zenon DEF Post, PostLost, Step
    <2>3. seen' \in [Processes -> 0 .. MaxCalendars]
        BY <1>2, <2>1 DEF Post, PostLost
    <2>4. QED
        BY <2>1, <2>2, <2>3
<1>3. ASSUME NEW c \in live, UserDeletes(c) PROVE IdentityTypeOK'
    BY <1>3, Zenon DEF UserDeletes
<1>4. CASE OwnerClearsGuard
    BY <1>4, Zenon DEF OwnerClearsGuard
<1>5. CASE UNCHANGED identityVars
    BY <1>5, Zenon DEF identityVars
<1>6. QED
    BY <1>1, <1>2, <1>3, <1>4, <1>5, Zenon DEF IdentityNext

(* Numbers only grow.                                                      *)
LEMMA IdentityNumbers ==
    ASSUME IdentityTypeOK, NumberInv, [IdentityNext]_identityVars
    PROVE  NumberInv' /\ (raced => raced')
<1> USE IdentityAssumption DEF IdentityTypeOK, NumberInv, NoCalendar
<1>1. ASSUME NEW q \in Processes,
             Load(q) \/ Get(q) \/ Clear(q) \/ Check(q) \/ Mark(q) \/ Save(q) \/ Unguard(q) \/ Fail(q)
      PROVE  NumberInv' /\ (raced => raced')
    <2>1. live' = live /\ created' = created /\ (raced => raced')
        BY <1>1, Zenon DEF Load, Get, Clear, Check, Mark, Save, Unguard, Fail
    <2>2. \A r \in Processes : seen'[r] \in {seen[r], kept}
        BY <1>1, Zenon DEF Load, Get, Clear, Check, Mark, Save, Unguard, Fail
    <2>3. kept' \in {kept, 0, seen[q]}
        BY <1>1, Zenon DEF Load, Get, Clear, Check, Mark, Save, Unguard, Fail
    <2>4. QED
        BY <2>1, <2>2, <2>3
<1>2. ASSUME NEW q \in Processes, Post(q) \/ PostLost(q)
      PROVE  NumberInv' /\ (raced => raced')
    <2>1. created' = created + 1 /\ live' = live \cup {created + 1} /\ UNCHANGED <<kept, raced>>
        BY <1>2, Zenon DEF Post, PostLost, Insert
    <2>2. \A r \in Processes : seen'[r] \in {seen[r], created + 1}
        BY <1>2, Zenon DEF Post, PostLost
    <2>3. QED
        BY <2>1, <2>2
<1>3. ASSUME NEW c \in live, UserDeletes(c)
      PROVE  NumberInv' /\ (raced => raced')
    BY <1>3, Zenon DEF UserDeletes
<1>4. CASE OwnerClearsGuard
    BY <1>4, Zenon DEF OwnerClearsGuard
<1>5. CASE UNCHANGED identityVars
    BY <1>5, Zenon DEF identityVars
<1>6. QED
    BY <1>1, <1>2, <1>3, <1>4, <1>5, Zenon DEF IdentityNext

(* Every step that is not a race keeps order.                              *)
LEMMA IdentityOrder ==
    ASSUME IdentityTypeOK, NumberInv, Orderly, [IdentityNext]_identityVars, ~raced'
    PROVE  Orderly'
<1> USE DEF IdentityTypeOK, Orderly, CreatingInv, Creating, NoCalendar
<1>1. ASSUME NEW q \in Processes, Load(q) \/ Check(q) \/ Fail(q)
      PROVE  Orderly'
    BY <1>1, ZenonT(30) DEF Load, Check, Fail, Step, Missing
<1>2. ASSUME NEW q \in Processes, Get(q)
      PROVE  Orderly'
    BY <1>2, Zenon DEF Get, Step
<1>3. ASSUME NEW q \in Processes, Clear(q)
      PROVE  Orderly'
    <2>0. 0 \notin live
        BY DEF NumberInv
    <2>1. kept \notin live /\ kept' = 0
        BY <1>3, <2>0, Zenon DEF Clear, Step
    <2>2. QED
        BY <1>3, <2>0, <2>1, Zenon DEF Clear, Step, Missing
<1>4. ASSUME NEW q \in Processes, Mark(q)
      PROVE  Orderly'
    <2>0. 0 \notin live
        BY DEF NumberInv
    <2>1. ~guarded /\ kept = 0
        BY <1>4, Zenon DEF Mark
    <2>2. live = {}
        BY <2>0, <2>1, Zenon
    <2>3. QED
        BY <1>4, <2>1, <2>2, Zenon DEF Mark, Step
<1>5. ASSUME NEW q \in Processes, Post(q) \/ PostLost(q)
      PROVE  Orderly'
    <2>1. live' = {created + 1} /\ guarded /\ UNCHANGED <<kept, guarded>>
        BY <1>5, Zenon DEF Post, PostLost, Insert, Step
    <2>2. \A r \in Processes : seen[r] # created + 1
        BY DEF NumberInv
    <2>3. QED
        BY <1>5, <2>1, <2>2, ZenonT(30) DEF Post, PostLost, Step
<1>6. ASSUME NEW q \in Processes, Save(q) \/ Unguard(q)
      PROVE  Orderly'
    BY <1>6, ZenonT(30) DEF Save, Unguard, Step
<1>7. ASSUME NEW c \in live, UserDeletes(c)
      PROVE  Orderly'
    BY <1>7, Zenon DEF UserDeletes
<1>8. CASE OwnerClearsGuard
    BY <1>8, Zenon DEF OwnerClearsGuard
<1>9. CASE UNCHANGED identityVars
    BY <1>9, Zenon DEF identityVars
<1>10. QED
    BY <1>1, <1>2, <1>3, <1>4, <1>5, <1>6, <1>7, <1>8, <1>9, Zenon DEF IdentityNext

(* The strengthened invariant holds in every behaviour.                    *)
LEMMA IdentityInvariant == IdentitySpec => []IdentityInv
<1>1. IdentityInv /\ [IdentityNext]_identityVars => IdentityInv'
    BY IdentityTypes, IdentityNumbers, IdentityOrder, Zenon DEF IdentityInv
<1>2. QED
    BY <1>1, IdentityInvInit, PTL DEF IdentitySpec

(* A set whose members are all equal has at most one.                      *)
LEMMA AtMostOne == ASSUME \A a, b \in live : a = b PROVE Cardinality(live) <= 1
<1>1. CASE live = {}
    BY <1>1, FS_EmptySet
<1>2. CASE live # {}
    <2>1. PICK c \in live : TRUE
        BY <1>2, Zenon
    <2>2. live = {c}
        BY <2>1, Zenon
    <2>3. Cardinality(live) = 1
        BY <2>2, FS_Singleton, Zenon
    <2>4. QED
        BY <2>3
<1>3. QED
    BY <1>1, <1>2, Zenon

(* Whichever processes interleave, and wherever one fails or dies between  *)
(* the insert, saving the id and clearing the guard: as long as none raced,*)
(* a calendar that the Keychain does not name is guarded.                  *)
THEOREM GuardedOrphans == IdentitySpec => []OrphansAreGuarded
<1>1. IdentityInv => OrphansAreGuarded
    BY Zenon DEF IdentityInv, Orderly, OrphansAreGuarded
<1>2. QED
    BY <1>1, IdentityInvariant, PTL

(* create_calendar leaves two calendars behind only after a race.          *)
THEOREM SingleCalendar == IdentitySpec => []OneCalendar
<1>1. IdentityInv => OneCalendar
    BY AtMostOne, Zenon DEF IdentityInv, Orderly, OneCalendar
<1>2. QED
    BY <1>1, IdentityInvariant, PTL
=============================================================================
