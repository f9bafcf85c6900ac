-------------------------- MODULE VoiceConversation ---------------------------
(***************************************************************************)
(* Continuous voice turns and the replan they may lead to: the coordinator *)
(* (voice/conversation.py) on top of VoiceSession, the planning tools that *)
(* turn an approval into an applied replan (voice/planning_bridge.py, with *)
(* the approval rules of Authority), and the phone that talks to the       *)
(* coordinator (ios, VoiceConversationClient.swift).                       *)
(*                                                                         *)
(* `turn` makes five calls; the clock may move between them, nothing else  *)
(* does.  A confirmation is named by its proposal, as in the code.         *)
(***************************************************************************)
EXTENDS VoiceSession

CONSTANT NoProposal

VARIABLES
    stage,      \* the turn the coordinator is executing, by its next call
    offered,    \* tools._proposals
    pending,    \* coordinator._pending: proposal -> the turn and its token
    approved,   \* coordinator._approved
    log,        \* coordinator._events, by event id
    spent,      \* the one-shot markers of the tools' ProposalLifecycle
    applied,    \* how often the backend applied each replan
    cursor,     \* phone: the last of eventIDs
    asked       \* phone: pendingConfirmationID

coordinatorVars == <<stage, offered, pending, approved, log, spent, applied, cursor, asked>>

conversationVars == <<voiceVars, coordinatorVars>>

Idle == [call |-> "none"]

ConversationInit ==
    /\ VoiceInit
    /\ stage = Idle
    /\ offered = {}
    /\ pending = <<>>
    /\ approved = {}
    /\ log = <<>>
    /\ spent = {}
    /\ applied = [p \in Proposals |-> 0]
    /\ cursor = 0
    /\ asked = NoProposal

At(call) == stage.call = call

Advance(call, id) == stage' = [stage EXCEPT !.call = call, !.ids = Append(@, id)]

(* turn: accept_partial, finalize, queue_action_progress, the tool, and    *)
(* queue_tts.  A call that raises ends the turn and undoes nothing.        *)
TurnPartial(k, t, x, tool) ==
    /\ At("none")
    /\ AcceptPartial(k, t)
    /\ nextEvent' > nextEvent
    /\ stage' = [call |-> "final", token |-> k, turn |-> t, text |-> x, tool |-> tool,
                 ids |-> <<nextEvent>>, proposal |-> NoProposal]
    /\ UNCHANGED <<offered, pending, approved, log, spent, applied, cursor, asked>>

TurnFinal ==
    /\ At("final")
    /\ IF Active(stage.token)
       THEN /\ Finalize(stage.token, stage.turn, stage.text)
            /\ IF sessions'[tokens[stage.token].session].finals[stage.turn] # NoText
               THEN Advance("progress", nextEvent)
               ELSE stage' = Idle
       ELSE stage' = Idle /\ UNCHANGED voiceVars
    /\ UNCHANGED <<offered, pending, approved, log, spent, applied, cursor, asked>>

TurnProgress ==
    /\ At("progress")
    /\ IF Active(stage.token)
       THEN QueueActionProgress(stage.token, stage.turn) /\ Advance("invoke", nextEvent)
       ELSE stage' = Idle /\ UNCHANGED voiceVars
    /\ UNCHANGED <<offered, pending, approved, log, spent, applied, cursor, asked>>

(* invoke: a summary of the day, a proposal of the planner, or its error.  *)
TurnInvoke ==
    /\ At("invoke")
    /\ \/ stage.tool = "rest_of_day" /\ stage' = [stage EXCEPT !.call = "speak"] /\ UNCHANGED offered
       \/ /\ stage.tool = "replan"
          /\ \E p \in Proposals \ offered :
                /\ offered' = offered \cup {p}
                /\ stage' = [stage EXCEPT !.call = "speak", !.proposal = p]
       \/ stage' = Idle /\ UNCHANGED offered
    /\ UNCHANGED <<voiceVars, pending, approved, log, spent, applied, cursor, asked>>

(* requireContinuous                                                       *)
Continuous(ids) == \A i \in DOMAIN ids : ids[i] = cursor + i

(* send, after the answer; an answer that does not arrive changes nothing. *)
Shown(ids, p) ==
    \/ /\ Continuous(ids)
       /\ cursor' = ids[Len(ids)]
       /\ asked' = p
    \/ UNCHANGED <<cursor, asked>>

Pended ==
    IF stage.proposal = NoProposal THEN pending
    ELSE [p \in DOMAIN pending \cup {stage.proposal} |->
            IF p = stage.proposal THEN [turn |-> stage.turn, token |-> stage.token]
            ELSE pending[p]]

TurnSpeak ==
    /\ At("speak")
    /\ stage' = Idle
    /\ IF Active(stage.token)
       THEN /\ QueueTts(stage.token, stage.turn)
            /\ log' = log \o stage.ids
            /\ pending' = Pended
            /\ Shown(stage.ids, stage.proposal)
       ELSE UNCHANGED <<voiceVars, pending, log, cursor, asked>>
    /\ UNCHANGED <<offered, approved, spent, applied>>

(* interruptConfirmation and interrupt_spoken_approval: the confirmation   *)
(* stays pending at the relay; the phone does not see the event's number.  *)
Interrupt(k, p) ==
    /\ At("none")
    /\ asked = p
    /\ p \in DOMAIN pending
    /\ BargeIn(k, pending[p].turn)
    /\ log' = Append(log, nextEvent)
    /\ asked' \in {asked, NoProposal}
    /\ UNCHANGED <<stage, offered, pending, approved, spent, applied, cursor>>

(* mutant: nothing marks the proposal as approved                          *)
ProofKeys(p, f) == {ApproveMarker(f), ApproveKeyMarker(f)}

ApprovalKeys(p, f) == ApproveKeys(spent, p, f)

(* approve_on_device: the tools approve, apply and settle the replan; the  *)
(* result is remembered only after it was queued for speech.               *)
ApproveOnDevice(p, f) ==
    /\ At("none")
    /\ asked = p
    /\ IF p \in approved
       THEN /\ asked' = NoProposal
            /\ UNCHANGED <<voiceVars, approved, spent, applied>>
       ELSE /\ p \in DOMAIN pending
            /\ ValidProof(f, "approval", p, clock, enrolled)
            /\ Unused(spent, ApprovalKeys(p, f))
            /\ spent' = spent \cup ApprovalKeys(p, f)
            /\ \/ UNCHANGED <<voiceVars, approved, applied, asked>>
               \/ /\ applied' = [applied EXCEPT ![p] = @ + 1]
                  /\ IF Active(pending[p].token)
                     THEN /\ QueueTts(pending[p].token, pending[p].turn)
                          /\ approved' = approved \cup {p}
                          /\ asked' \in {asked, NoProposal}
                     ELSE UNCHANGED <<voiceVars, approved, asked>>
    /\ UNCHANGED <<stage, offered, pending, log, cursor>>

(* A device may also drive the session itself, one call at a time.         *)
Calls(kind) == kind \in scenario.calls

StreamCall(k, t) ==
    \/ AcceptPartial(k, t)
    \/ \E x \in scenario.texts : Finalize(k, t, x)

SpeechCall(k, t) == QueueTts(k, t) \/ QueueActionProgress(k, t) \/ BargeIn(k, t)

DeviceCall ==
    \/ \E d \in scenario.devices : Start(d)
    \/ \E k \in 1..issued :
        \/ Calls("stream") /\ \E t \in scenario.turns : StreamCall(k, t)
        \/ Calls("speech") /\ \E t \in scenario.turns : SpeechCall(k, t)
        \/ Calls("audio") /\ AppendAudio(k, 1)
        \/ Calls("reconnect") /\ (Disconnect(k) \/ Resume(k))
        \/ Calls("end") /\ End(k)

OwnerCall ==
    \/ Calls("purge") /\ PurgeExpired
    \/ Calls("consent") /\ (Withdraw \/ Grant)
    \/ Calls("revoke") /\ \E d \in scenario.devices : RevokeDevice(d)

Turn ==
    \/ \E k \in 1..issued, t \in scenario.turns, x \in scenario.texts,
          tool \in {"rest_of_day", "replan"} : TurnPartial(k, t, x, tool)
    \/ TurnFinal
    \/ TurnProgress
    \/ TurnInvoke
    \/ TurnSpeak
    \/ \E k \in 1..issued, p \in Proposals : Interrupt(k, p)
    \/ \E p \in Proposals, f \in Proofs : ApproveOnDevice(p, f)

ConversationNext ==
    \/ At("none") /\ (DeviceCall \/ OwnerCall) /\ UNCHANGED coordinatorVars
    \/ ClockTicks /\ UNCHANGED coordinatorVars
    \/ Calls("turn") /\ Turn

ConversationSpec == ConversationInit /\ [][ConversationNext]_conversationVars

-----------------------------------------------------------------------------
(* Every variable of the coordinator, the tools and the phone keeps its    *)
(* type; what is pending or asked was offered by the tools.                *)
TypeOK ==
    /\ VoiceTypeOK
    /\ offered \subseteq Proposals
    /\ DOMAIN pending \subseteq offered
    /\ approved \subseteq DOMAIN pending
    /\ asked \in DOMAIN pending \cup {NoProposal}
    /\ spent \subseteq Markers
    /\ applied \in [Proposals -> Nat]
    /\ cursor \in 0..(nextEvent - 1)

(* However often and with however many proofs a replan is confirmed, and   *)
(* whatever fails in between, the backend applies it at most once, and     *)
(* never without a valid approval of it.                                   *)
ReplanAppliedOnce ==
    \A p \in Proposals :
        /\ applied[p] <= 1
        /\ applied[p] = 1 => \E f \in Proofs : f.proposal = p /\ ApproveMarker(f) \in spent

(* An applied replan is recorded as approved, so that a repeated approval  *)
(* returns the same result (approve_on_device's docstring).                *)
AppliedIsRecorded == \A p \in Proposals : applied[p] = 1 => p \in approved

(* An answer the coordinator gave is never refused by the phone's check    *)
(* for continuous event numbers.                                           *)
AnswersAreContinuous == At("speak") /\ Active(stage.token) => Continuous(stage.ids)
==============================================================================
