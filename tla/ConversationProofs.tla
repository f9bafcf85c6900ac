------------------------- MODULE ConversationProofs -------------------------
(***************************************************************************)
(* A tenant's cell in the cloud, and the voice relay of a Mac with its     *)
(* coordinator, for any numbers and sets of what they deal with.           *)
(*                                                                         *)
(* CloudCell: a job is handed out at most once and only under authority    *)
(* valid at that moment, the conversations implement ConversationHistory,  *)
(* and the audit chain accounts for every event accepted.                  *)
(*                                                                         *)
(* VoiceConversation: a cancelled turn is silent, an ended session is      *)
(* closed at the provider, and a replan is applied at most once.           *)
(***************************************************************************)
EXTENDS CloudCell, VoiceConversation, TLAPS
-----------------------------------------------------------------------------
(* The voice relay.                                                        *)

(* What a session holds, as far as the proofs look into it.                *)
SessionShape ==
    [ device : Devices, handle : BOOLEAN, away : SUBSET Nat, ended : BOOLEAN, frame : Nat,
      tts : SUBSET Turns, progress : SUBSET Turns,
      events : Seq([id : Nat, kind : VoiceKinds, turn : Turns, text : Texts \cup {NoText}]),
      partial : SUBSET Turns, cancelled : SUBSET Turns, finals : [Turns -> Texts \cup {NoText}] ]

(* Nothing of a cancelled turn is queued in one session.                   *)
Quiet(S) == (S.tts \cup S.progress) \cap S.cancelled = {}

(* The state of the service: every token names a session, and every number *)
(* is one.                                                                 *)
ServiceShape ==
    /\ scenario \in Scenarios
    /\ clock \in Nat
    /\ enrolled \subseteq Devices
    /\ sessions \in Seq(SessionShape)
    /\ issued \in Nat
    /\ nextEvent \in Nat
    /\ \A k \in DOMAIN tokens : tokens[k].session \in SessionIds

ServiceInv == ServiceShape /\ CancelledIsSilent /\ ProviderFollowsSession

(* One session's record may be replaced by a quiet one that is as open as  *)
(* it was.                                                                 *)
LEMMA ReplacedSession ==
  ASSUME ServiceInv, NEW s \in SessionIds, NEW R \in SessionShape, Quiet(R),
         sessions' = [sessions EXCEPT ![s] = R]
  PROVE  /\ sessions' \in Seq(SessionShape) /\ SessionIds' = SessionIds
         /\ CancelledIsSilent'
         /\ R.handle = sessions[s].handle /\ R.ended = sessions[s].ended /\ provider' = provider
              => ProviderFollowsSession'
<1>1. sessions' \in Seq(SessionShape) /\ Len(sessions') = Len(sessions) /\ SessionIds' = SessionIds
  BY DEF ServiceInv, ServiceShape, SessionIds
<1>2. \A i \in SessionIds : sessions'[i] = IF i = s THEN R ELSE sessions[i]
  BY DEF ServiceInv, ServiceShape, SessionIds
<1>3. CancelledIsSilent'
  BY <1>1, <1>2, Zenon DEF ServiceInv, CancelledIsSilent, Quiet
<1>4. R.handle = sessions[s].handle /\ R.ended = sessions[s].ended /\ provider' = provider
        => ProviderFollowsSession'
  BY <1>1, <1>2, Zenon DEF ServiceInv, ProviderFollowsSession
<1> QED
  BY <1>1, <1>3, <1>4, Zenon

(* A session of the service is a record of the shape, and a quiet one.     *)
LEMMA SessionFacts ==
  ASSUME ServiceInv, NEW s \in SessionIds
  PROVE  sessions[s] \in SessionShape /\ Quiet(sessions[s])
  BY DEF ServiceInv, ServiceShape, CancelledIsSilent, Quiet, SessionIds

(* The emitter replaces a session by `before`, or by `after` with one more *)
(* numbered event.                                                         *)
LEMMA EmitKeeps ==
  ASSUME ServiceInv, NEW s \in SessionIds, NEW kind \in VoiceKinds, NEW t \in Turns,
         NEW x \in Texts \cup {NoText},
         NEW before \in SessionShape, Quiet(before), NEW after \in SessionShape, Quiet(after),
         before.handle = sessions[s].handle, before.ended = sessions[s].ended,
         after.handle = sessions[s].handle, after.ended = sessions[s].ended,
         Emit(s, kind, t, x, before, after),
         UNCHANGED <<scenario, clock, enrolled, tokens, issued, provider>>
  PROVE  ServiceInv'
<1>1. nextEvent \in Nat
  BY Zenon DEF ServiceInv, ServiceShape
<1>2. CASE Accepted(s, kind, t)
  <2> DEFINE R == [after EXCEPT !.events = Append(@, Numbered(kind, t, x))]
  <2>1. Numbered(kind, t, x) \in [id : Nat, kind : VoiceKinds, turn : Turns, text : Texts \cup {NoText}]
    BY <1>1, Zenon DEF Numbered
  <2>2. after.events \in Seq([id : Nat, kind : VoiceKinds, turn : Turns, text : Texts \cup {NoText}])
    BY Zenon DEF SessionShape
  <2>3. Append(after.events, Numbered(kind, t, x))
          \in Seq([id : Nat, kind : VoiceKinds, turn : Turns, text : Texts \cup {NoText}])
    BY <2>1, <2>2
  <2>4. R \in SessionShape /\ Quiet(R) /\ R.handle = after.handle /\ R.ended = after.ended
    BY <2>3, Zenon DEF SessionShape, Quiet
  <2>5. sessions' = [sessions EXCEPT ![s] = R] /\ nextEvent' = nextEvent + 1
    BY <1>2, Zenon DEF Emit
  <2> HIDE DEF R
  <2>6. sessions' \in Seq(SessionShape) /\ SessionIds' = SessionIds /\ CancelledIsSilent' /\ ProviderFollowsSession'
    BY <2>4, <2>5, ReplacedSession, Zenon
  <2> QED
    BY <1>1, <2>5, <2>6 DEF ServiceInv, ServiceShape
<1>3. CASE ~Accepted(s, kind, t)
  <2>1. sessions' = [sessions EXCEPT ![s] = before] /\ nextEvent' = nextEvent
    BY <1>3, Zenon DEF Emit, NumberAfterRefusal
  <2>2. sessions' \in Seq(SessionShape) /\ SessionIds' = SessionIds /\ CancelledIsSilent' /\ ProviderFollowsSession'
    BY <2>1, ReplacedSession, Zenon
  <2> QED
    BY <1>1, <2>1, <2>2, Zenon DEF ServiceInv, ServiceShape
<1> QED
  BY <1>2, <1>3, Zenon

(* The initial service has no session at all.                              *)
LEMMA ServiceInit == VoiceInit => ServiceInv
  BY ScenariosAssumption DEF VoiceInit, ServiceInv, ServiceShape, CancelledIsSilent,
     ProviderFollowsSession, SessionIds

(* The sessions after _expire_disconnected_sessions.                       *)
LEMMA ExpiryKeeps ==
  ASSUME ServiceInv
  PROVE  /\ AfterExpiry \in Seq(SessionShape) /\ Len(AfterExpiry) = Len(sessions)
         /\ \A s \in SessionIds : /\ AfterExpiry[s] \in SessionShape /\ Quiet(AfterExpiry[s])
                                  /\ AfterExpiry[s].handle = sessions[s].handle
                                  /\ AfterExpiry[s].ended <=> WindowOver(s) \/ sessions[s].ended
<1>1. ASSUME NEW s \in SessionIds
      PROVE  /\ AfterExpiry[s] \in SessionShape /\ Quiet(AfterExpiry[s])
             /\ AfterExpiry[s].handle = sessions[s].handle
             /\ AfterExpiry[s].ended <=> WindowOver(s) \/ sessions[s].ended
  <2>1. sessions[s] \in SessionShape /\ Quiet(sessions[s])
    BY SessionFacts, Zenon
  <2>2. AfterExpiry[s] = IF WindowOver(s) THEN ExpiredSession(s) ELSE sessions[s]
    BY Zenon DEF AfterExpiry
  <2>3. /\ ExpiredSession(s) \in SessionShape /\ Quiet(ExpiredSession(s))
        /\ ExpiredSession(s).handle = sessions[s].handle /\ ExpiredSession(s).ended = TRUE
    BY <2>1, Zenon DEF ExpiredSession, Hushed, SessionShape, Quiet
  <2> QED
    BY <2>1, <2>2, <2>3, Zenon
<1>2. Len(sessions) \in Nat
  BY DEF ServiceInv, ServiceShape
<1>3. AfterExpiry \in [1..Len(sessions) -> SessionShape]
  BY <1>1, Zenon DEF AfterExpiry, SessionIds
<1> QED
  BY <1>1, <1>2, <1>3

(* A start ends what has expired and adds at most one session, which is    *)
(* new.                                                                    *)
LEMMA StartKeeps ==
  ASSUME ServiceInv, NEW d \in Devices, Start(d)
  PROVE  ServiceInv'
<1> DEFINE over == {s \in SessionIds : WindowOver(s)}
           new == Len(sessions) + 1
<1>1. /\ sessions \in Seq(SessionShape) /\ Len(sessions) \in Nat /\ SessionIds = 1..Len(sessions)
      /\ provider = {s \in SessionIds : sessions[s].handle /\ ~sessions[s].ended}
      /\ issued \in Nat /\ \A k \in DOMAIN tokens : tokens[k].session \in SessionIds
  BY DEF ServiceInv, ServiceShape, SessionIds, ProviderFollowsSession
<1>2. /\ AfterExpiry \in Seq(SessionShape) /\ Len(AfterExpiry) = Len(sessions)
      /\ \A s \in SessionIds : /\ AfterExpiry[s] \in SessionShape /\ Quiet(AfterExpiry[s])
                               /\ AfterExpiry[s].handle = sessions[s].handle
                               /\ AfterExpiry[s].ended <=> WindowOver(s) \/ sessions[s].ended
  BY ExpiryKeeps, Zenon
<1>3. ClosedExpired(over) = {s \in SessionIds : AfterExpiry[s].handle /\ ~AfterExpiry[s].ended}
  <2>1. provider = {s \in SessionIds : sessions[s].handle /\ ~sessions[s].ended}
    BY <1>1, Zenon
  <2>2. \A s \in SessionIds : /\ AfterExpiry[s].handle = sessions[s].handle
                              /\ AfterExpiry[s].ended <=> WindowOver(s) \/ sessions[s].ended
    BY <1>2, Zenon
  <2> QED
    BY <2>1, <2>2, Zenon DEF ClosedExpired
<1>4. UNCHANGED <<scenario, clock, enrolled, nextEvent>>
  BY Zenon DEF Start
<1>5. CASE Occupied(d)
  <2>1. sessions' = AfterExpiry /\ provider' = ClosedExpired(over) /\ UNCHANGED <<tokens, issued>>
    BY <1>5, Zenon DEF Start
  <2>2. SessionIds' = SessionIds
    BY <1>2, <2>1, Zenon DEF SessionIds
  <2>3. CancelledIsSilent'
    <3>1. \A s \in SessionIds' : Quiet(sessions'[s])
      BY <1>2, <2>1, <2>2, Zenon
    <3> QED
      BY <3>1, Zenon DEF CancelledIsSilent, Quiet
  <2>4. ProviderFollowsSession'
    BY <1>3, <2>1, <2>2, Zenon DEF ProviderFollowsSession
  <2> QED
    BY <1>1, <1>2, <1>4, <2>1, <2>2, <2>3, <2>4, Zenon DEF ServiceInv, ServiceShape
<1>6. CASE ~Occupied(d)
  <2>1. PICK handle \in Handles :
            /\ sessions' = Append(AfterExpiry, NewSession(d, handle))
            /\ provider' = IF handle THEN ClosedExpired(over) \cup {new} ELSE ClosedExpired(over)
            /\ Issue(DOMAIN tokens, new)
    BY <1>6, Zenon DEF Start
  <2>2. handle \in BOOLEAN
    BY Zenon DEF Handles
  <2>3. NewSession(d, handle) \in SessionShape
    BY <2>2 DEF NewSession, SessionShape
  <2>4. /\ Quiet(NewSession(d, handle))
        /\ NewSession(d, handle).handle = handle /\ ~NewSession(d, handle).ended
    BY Zenon DEF NewSession, Quiet
  <2>5. /\ sessions' \in Seq(SessionShape) /\ Len(sessions') = new /\ SessionIds' = SessionIds \cup {new}
        /\ sessions'[new] = NewSession(d, handle) /\ new \notin SessionIds
        /\ \A s \in SessionIds : sessions'[s] = AfterExpiry[s]
    BY <1>1, <1>2, <2>1, <2>3 DEF SessionIds
  <2>6. CancelledIsSilent'
    <3>1. \A s \in SessionIds' : Quiet(sessions'[s])
      BY <1>2, <2>4, <2>5, Zenon
    <3> QED
      BY <3>1, Zenon DEF CancelledIsSilent, Quiet
  <2>7. ProviderFollowsSession'
    <3>1. CASE handle = TRUE
      BY <3>1, <1>3, <2>1, <2>4, <2>5, ZenonT(30) DEF ProviderFollowsSession
    <3>2. CASE handle = FALSE
      BY <3>2, <1>3, <2>1, <2>4, <2>5, Zenon DEF ProviderFollowsSession
    <3> QED
      BY <2>2, <3>1, <3>2, Zenon
  <2>8. \A k \in DOMAIN tokens' : tokens'[k].session \in SessionIds'
    BY <1>1, <2>1, <2>5, Zenon DEF Issue
  <2>9. issued' \in Nat
    BY <1>1, <2>1 DEF Issue
  <2> QED
    BY <1>1, <1>4, <2>5, <2>6, <2>7, <2>8, <2>9, Zenon DEF ServiceInv, ServiceShape
<1> QED
  BY <1>5, <1>6, Zenon

(* An operation of a live session reaches a session of the service.        *)
LEMMA ActiveSession ==
  ASSUME ServiceInv, NEW k, Known(k)
  PROVE  /\ tokens[k].session \in SessionIds
         /\ sessions[tokens[k].session] \in SessionShape /\ Quiet(sessions[tokens[k].session])
  BY SessionFacts, Zenon DEF Known, ServiceInv, ServiceShape

(* append_audio keeps ServiceInv.                                            *)
LEMMA AudioKeeps ==
  ASSUME ServiceInv, NEW k, NEW n \in Nat, AppendAudio(k, n)
  PROVE  ServiceInv'
<1> DEFINE s == tokens[k].session
           R == [sessions[s] EXCEPT !.frame = n]
<1>1. s \in SessionIds /\ sessions[s] \in SessionShape /\ Quiet(sessions[s])
  BY ActiveSession, Zenon DEF AppendAudio, Active, Live
<1>2. R \in SessionShape /\ Quiet(R) /\ R.handle = sessions[s].handle /\ R.ended = sessions[s].ended
  BY <1>1, Zenon DEF SessionShape, Quiet
<1>3. sessions' = [sessions EXCEPT ![s] = R]
  BY Zenon DEF AppendAudio
<1> HIDE DEF R, s
<1> QED
  BY <1>1, <1>2, <1>3, ReplacedSession, Zenon DEF ServiceInv, ServiceShape, AppendAudio

(* accept_partial keeps ServiceInv.                                          *)
LEMMA PartialKeeps ==
  ASSUME ServiceInv, NEW k, NEW t \in Turns, AcceptPartial(k, t)
  PROVE  ServiceInv'
<1> DEFINE s == tokens[k].session
           S == sessions[s]
           R == [S EXCEPT !.partial = @ \cup {t}]
<1>1. s \in SessionIds /\ S \in SessionShape /\ Quiet(S)
  BY ActiveSession, Zenon DEF AcceptPartial, Active, Live
<1>2. R \in SessionShape /\ Quiet(R) /\ R.handle = S.handle /\ R.ended = S.ended
  BY <1>1, Zenon DEF SessionShape, Quiet
<1>3. Emit(s, "transcript_partial", t, NoText, S, R)
  BY Zenon DEF AcceptPartial
<1>4. "transcript_partial" \in VoiceKinds
  BY Zenon DEF VoiceKinds, Transcript
<1> HIDE DEF R, s
<1>5. UNCHANGED <<scenario, clock, enrolled, tokens, issued, provider>>
  BY Zenon DEF AcceptPartial
<1> QED
  BY <1>1, <1>2, <1>3, <1>4, <1>5, EmitKeeps, Zenon

(* finalize keeps ServiceInv, whether the transcript is new, repeated or     *)
(* another one.                                                              *)
LEMMA FinalizeKeeps ==
  ASSUME ServiceInv, NEW k, NEW t \in Turns, NEW x \in Texts, Finalize(k, t, x)
  PROVE  ServiceInv'
<1> DEFINE s == tokens[k].session
           S == sessions[s]
           R == IF FinalStorable(t, x)
                THEN [S EXCEPT !.finals[t] = x, !.partial = @ \ {t}, !.tts = {}]
                ELSE S
<1>1. s \in SessionIds /\ S \in SessionShape /\ Quiet(S)
  BY ActiveSession, Zenon DEF Finalize, Active, Live
<1>2. R \in SessionShape /\ Quiet(R) /\ R.handle = S.handle /\ R.ended = S.ended
  BY <1>1, Zenon DEF SessionShape, Quiet
<1>3. Emit(s, "transcript_final", t, x, S, R)
  BY Zenon DEF Finalize
<1>4. "transcript_final" \in VoiceKinds
  BY Zenon DEF VoiceKinds, Transcript
<1> HIDE DEF R, s
<1>5. UNCHANGED <<scenario, clock, enrolled, tokens, issued, provider>>
  BY Zenon DEF Finalize
<1> QED
  BY <1>1, <1>2, <1>3, <1>4, <1>5, EmitKeeps, Zenon

(* Speech is queued only for a turn that was not cancelled.                *)
LEMMA TtsKeeps ==
  ASSUME ServiceInv, NEW k, NEW t \in Turns, QueueTts(k, t)
  PROVE  ServiceInv'
<1> DEFINE s == tokens[k].session
           R == [sessions[s] EXCEPT !.tts = IF Uncancelled(sessions[s], t) THEN @ \cup {t} ELSE @]
<1>1. s \in SessionIds /\ sessions[s] \in SessionShape /\ Quiet(sessions[s])
  BY ActiveSession, Zenon DEF QueueTts, Active, Live, CanResume
<1>2. R \in SessionShape /\ Quiet(R) /\ R.handle = sessions[s].handle /\ R.ended = sessions[s].ended
  BY <1>1, Zenon DEF SessionShape, Quiet, Uncancelled, ServiceInv, ServiceShape, QueueTts
<1>3. sessions' = [sessions EXCEPT ![s] = R]
  BY <1>1, Zenon DEF QueueTts, ServiceInv, ServiceShape, SessionIds
<1> HIDE DEF R, s
<1> QED
  BY <1>1, <1>2, <1>3, ReplacedSession, Zenon DEF ServiceInv, ServiceShape, QueueTts

(* So is progress, and it is numbered.                                     *)
LEMMA ProgressKeeps ==
  ASSUME ServiceInv, NEW k, NEW t \in Turns, QueueActionProgress(k, t)
  PROVE  ServiceInv'
<1> DEFINE s == tokens[k].session
           S == sessions[s]
           e == Numbered("action_progress", t, NoText)
           R == [S EXCEPT !.progress = @ \cup {t}, !.events = Append(@, e)]
           Event == [id : Nat, kind : VoiceKinds, turn : Turns, text : Texts \cup {NoText}]
<1>1. s \in SessionIds /\ S \in SessionShape /\ Quiet(S)
  BY ActiveSession, Zenon DEF QueueActionProgress, Active, Live
<1>2. e \in Event /\ nextEvent \in Nat
  BY Zenon DEF Numbered, VoiceKinds, ServiceInv, ServiceShape
<1>3. Append(S.events, e) \in Seq(Event)
  BY <1>1, <1>2 DEF SessionShape
<1>4. t \notin S.cancelled
  BY Zenon DEF QueueActionProgress, Uncancelled
<1>5. R \in SessionShape /\ Quiet(R) /\ R.handle = S.handle /\ R.ended = S.ended
  BY <1>1, <1>3, <1>4, Zenon DEF SessionShape, Quiet
<1>6. sessions' = [sessions EXCEPT ![s] = R]
  BY Zenon DEF QueueActionProgress
<1>7. /\ UNCHANGED <<scenario, clock, enrolled, tokens, issued, provider>>
      /\ nextEvent' = nextEvent + 1
  BY Zenon DEF QueueActionProgress
<1> HIDE DEF R, s
<1>8. sessions' \in Seq(SessionShape) /\ SessionIds' = SessionIds /\ CancelledIsSilent' /\ ProviderFollowsSession'
  BY <1>1, <1>5, <1>6, <1>7, ReplacedSession, Zenon
<1> QED
  BY <1>2, <1>7, <1>8 DEF ServiceInv, ServiceShape

(* A barge-in clears both queues in the step that cancels the turn.        *)
LEMMA BargeInKeeps ==
  ASSUME ServiceInv, NEW k, NEW t \in Turns, BargeIn(k, t)
  PROVE  ServiceInv'
<1> DEFINE s == tokens[k].session
           S == sessions[s]
           R == [Hushed(S) EXCEPT !.cancelled = @ \cup {t}, !.partial = @ \ {t}]
<1>1. s \in SessionIds /\ S \in SessionShape /\ Quiet(S)
  BY ActiveSession, Zenon DEF BargeIn, Active, Live
<1>2. R \in SessionShape /\ Quiet(R) /\ R.handle = S.handle /\ R.ended = S.ended
  BY <1>1, Zenon DEF SessionShape, Quiet, Hushed
<1>3. Emit(s, "cancellation", t, NoText, R, R)
  BY Zenon DEF BargeIn
<1>4. "cancellation" \in VoiceKinds
  BY Zenon DEF VoiceKinds
<1> HIDE DEF R, s
<1>5. UNCHANGED <<scenario, clock, enrolled, tokens, issued, provider>>
  BY Zenon DEF BargeIn
<1> QED
  BY <1>1, <1>2, <1>3, <1>4, <1>5, EmitKeeps, Zenon

(* disconnect keeps ServiceInv.                                              *)
LEMMA DisconnectKeeps ==
  ASSUME ServiceInv, NEW k, Disconnect(k)
  PROVE  ServiceInv'
<1> DEFINE s == tokens[k].session
           R == [sessions[s] EXCEPT !.away = {clock}]
<1>1. s \in SessionIds /\ sessions[s] \in SessionShape /\ Quiet(sessions[s])
  BY ActiveSession, Zenon DEF Disconnect, Active, Live, CanResume
<1>2. R \in SessionShape /\ Quiet(R) /\ R.handle = sessions[s].handle /\ R.ended = sessions[s].ended
  BY <1>1, Zenon DEF SessionShape, Quiet, Uncancelled, ServiceInv, ServiceShape, Disconnect
<1>3. sessions' = [sessions EXCEPT ![s] = R]
  BY <1>1, Zenon DEF Disconnect, ServiceInv, ServiceShape, SessionIds
<1> HIDE DEF R, s
<1> QED
  BY <1>1, <1>2, <1>3, ReplacedSession, Zenon DEF ServiceInv, ServiceShape, Disconnect

(* resume keeps ServiceInv: the new token takes over the session.            *)
LEMMA ResumeKeeps ==
  ASSUME ServiceInv, NEW k, Resume(k)
  PROVE  ServiceInv'
<1> DEFINE s == tokens[k].session
           R == [sessions[s] EXCEPT !.away = {}]
<1>1. s \in SessionIds /\ sessions[s] \in SessionShape /\ Quiet(sessions[s])
  BY ActiveSession, Zenon DEF Resume, CanResume
<1>2. R \in SessionShape /\ Quiet(R) /\ R.handle = sessions[s].handle /\ R.ended = sessions[s].ended
  BY <1>1, Zenon DEF SessionShape, Quiet
<1>3. sessions' = [sessions EXCEPT ![s] = R] /\ Issue(DOMAIN tokens \ {k}, s)
  BY Zenon DEF Resume
<1> HIDE DEF R, s
<1>4. sessions' \in Seq(SessionShape) /\ SessionIds' = SessionIds /\ CancelledIsSilent' /\ ProviderFollowsSession'
  BY <1>1, <1>2, <1>3, ReplacedSession, Zenon DEF Resume
<1>5. issued' \in Nat /\ \A j \in DOMAIN tokens' : tokens'[j].session \in SessionIds'
  BY <1>1, <1>3, <1>4 DEF Issue, ServiceInv, ServiceShape
<1> QED
  BY <1>4, <1>5, Zenon DEF ServiceInv, ServiceShape, Resume

(* An end hushes the session and closes it at the provider in one step.    *)
LEMMA EndKeeps ==
  ASSUME ServiceInv, NEW k, End(k)
  PROVE  ServiceInv'
<1> DEFINE s == tokens[k].session
           R == [Hushed(sessions[s]) EXCEPT !.ended = TRUE]
<1>1. s \in SessionIds /\ sessions[s] \in SessionShape /\ Quiet(sessions[s])
  BY ActiveSession, Zenon DEF End, Live
<1>2. R \in SessionShape /\ Quiet(R) /\ R.ended
  BY <1>1, Zenon DEF SessionShape, Quiet, Hushed
<1>3. sessions' = [sessions EXCEPT ![s] = R] /\ provider' = provider \ {s}
  BY Zenon DEF End
<1> HIDE DEF R, s
<1>4. sessions' \in Seq(SessionShape) /\ SessionIds' = SessionIds /\ CancelledIsSilent'
  BY <1>1, <1>2, <1>3, ReplacedSession, Zenon
<1>5. \A i \in SessionIds : sessions'[i] = IF i = s THEN R ELSE sessions[i]
  BY <1>3 DEF ServiceInv, ServiceShape, SessionIds
<1>6. ProviderFollowsSession'
  BY <1>2, <1>3, <1>4, <1>5 DEF ServiceInv, ProviderFollowsSession
<1>7. \A j \in DOMAIN tokens' : tokens'[j].session \in SessionIds'
  BY <1>4, Zenon DEF End, Invalidated, ServiceInv, ServiceShape
<1> QED
  BY <1>4, <1>6, <1>7, Zenon DEF ServiceInv, ServiceShape, End

(* The owner's calls and the clock change no session.                      *)
LEMMA OthersKeep ==
  ASSUME ServiceInv,
         \/ PurgeExpired \/ Withdraw \/ Grant \/ ClockTicks \/ UNCHANGED voiceVars
         \/ \E d \in Devices : RevokeDevice(d)
  PROVE  ServiceInv'
<1>1. /\ UNCHANGED <<scenario, sessions, tokens, issued, nextEvent, provider>>
      /\ enrolled' \subseteq enrolled /\ clock' \in {clock, clock + 1}
  BY Zenon DEF PurgeExpired, Withdraw, Grant, ClockTicks, RevokeDevice, voiceVars
<1> QED
  BY <1>1 DEF ServiceInv, ServiceShape, CancelledIsSilent, ProviderFollowsSession, SessionIds

-----------------------------------------------------------------------------
(* The coordinator calls the service with turns it got from a device.      *)

TurnStage ==
    [ call : {"final", "progress", "invoke", "speak"}, token : Nat, turn : Turns, text : Texts,
      tool : {"rest_of_day", "replan"}, ids : Seq(Nat), proposal : Proposals \cup {NoProposal} ]

CoordinatorInv ==
    /\ At("none") \/ stage \in TurnStage
    /\ \A p \in DOMAIN pending : pending[p].turn \in Turns

(* A turn that goes on to its next call keeps its shape.                     *)
LEMMA AdvanceKeeps ==
  ASSUME stage \in TurnStage, NEW call \in {"progress", "invoke"}, NEW id \in Nat, Advance(call, id)
  PROVE  stage' \in TurnStage
<1>1. stage.ids \in Seq(Nat)
  BY Zenon DEF TurnStage
<1>2. Append(stage.ids, id) \in Seq(Nat)
  BY <1>1
<1>3. stage' = [stage EXCEPT !.call = call, !.ids = Append(stage.ids, id)]
  BY Zenon DEF Advance
<1> QED
  BY <1>2, <1>3, Zenon DEF TurnStage

(* Every call on the service keeps ServiceInv.                             *)
LEMMA DeviceCallKeeps ==
  ASSUME ServiceInv, DeviceCall
  PROVE  ServiceInv'
<1>0. /\ scenario.devices \subseteq Devices /\ scenario.turns \subseteq Turns
      /\ scenario.texts \subseteq Texts
  BY ScenariosAssumption, Zenon DEF ServiceInv, ServiceShape
<1>1. ASSUME NEW d \in scenario.devices, Start(d)
      PROVE  ServiceInv'
  BY <1>0, <1>1, StartKeeps, Zenon
<1>2. ASSUME NEW k \in 1..issued, NEW t \in scenario.turns, StreamCall(k, t)
      PROVE  ServiceInv'
  BY <1>0, <1>2, PartialKeeps, FinalizeKeeps, Zenon DEF StreamCall
<1>3. ASSUME NEW k \in 1..issued, NEW t \in scenario.turns, SpeechCall(k, t)
      PROVE  ServiceInv'
  BY <1>0, <1>3, TtsKeeps, ProgressKeeps, BargeInKeeps, Zenon DEF SpeechCall
<1>4. ASSUME NEW k \in 1..issued, AppendAudio(k, 1) \/ Disconnect(k) \/ Resume(k) \/ End(k)
      PROVE  ServiceInv'
  BY <1>4, AudioKeeps, DisconnectKeeps, ResumeKeeps, EndKeeps, Zenon
<1> QED
  BY <1>1, <1>2, <1>3, <1>4, Zenon DEF DeviceCall

(* Purging, withdrawing and granting consent, and revoking a device keep     *)
(* ServiceInv.                                                               *)
LEMMA OwnerCallKeeps ==
  ASSUME ServiceInv, OwnerCall
  PROVE  ServiceInv'
<1>0. scenario.devices \subseteq Devices
  BY ScenariosAssumption, Zenon DEF ServiceInv, ServiceShape
<1>1. PurgeExpired \/ Withdraw \/ Grant \/ \E d \in Devices : RevokeDevice(d)
  BY <1>0, Zenon DEF OwnerCall
<1> QED
  BY <1>1, OthersKeep, Zenon

(* Every step of a turn keeps ServiceInv and CoordinatorInv.               *)
LEMMA TurnKeeps ==
  ASSUME ServiceInv, CoordinatorInv, Turn
  PROVE  ServiceInv' /\ CoordinatorInv'
<1>0. /\ scenario.turns \subseteq Turns /\ scenario.texts \subseteq Texts
      /\ nextEvent \in Nat /\ issued \in Nat
  BY ScenariosAssumption, Zenon DEF ServiceInv, ServiceShape
<1>1. ASSUME NEW k \in 1..issued, NEW t \in scenario.turns, NEW x \in scenario.texts,
             NEW tool \in {"rest_of_day", "replan"}, TurnPartial(k, t, x, tool)
      PROVE  ServiceInv' /\ CoordinatorInv'
  <2>1. ServiceInv'
    BY <1>0, <1>1, PartialKeeps, Zenon DEF TurnPartial
  <2>2. stage' \in TurnStage /\ pending' = pending
    BY <1>0, <1>1 DEF TurnPartial, TurnStage
  <2> QED
    BY <2>1, <2>2, Zenon DEF CoordinatorInv
<1>2. CASE TurnFinal
  <2>1. stage \in TurnStage
    BY <1>2, Zenon DEF TurnFinal, At, CoordinatorInv
  <2>2. ServiceInv'
    BY <1>2, <2>1, FinalizeKeeps, OthersKeep, Zenon DEF TurnFinal, TurnStage
  <2>3. (stage' = Idle \/ Advance("progress", nextEvent)) /\ pending' = pending
    BY <1>2, Zenon DEF TurnFinal
  <2>4. stage' = Idle \/ stage' \in TurnStage
    BY <1>0, <2>1, <2>3, AdvanceKeeps, Zenon
  <2> QED
    BY <2>2, <2>3, <2>4 DEF CoordinatorInv, At, Idle
<1>3. CASE TurnProgress
  <2>1. stage \in TurnStage
    BY <1>3, Zenon DEF TurnProgress, At, CoordinatorInv
  <2>2. ServiceInv'
    BY <1>3, <2>1, ProgressKeeps, OthersKeep, Zenon DEF TurnProgress, TurnStage
  <2>3. (stage' = Idle \/ Advance("invoke", nextEvent)) /\ pending' = pending
    BY <1>3, Zenon DEF TurnProgress
  <2>4. stage' = Idle \/ stage' \in TurnStage
    BY <1>0, <2>1, <2>3, AdvanceKeeps, Zenon
  <2> QED
    BY <2>2, <2>3, <2>4 DEF CoordinatorInv, At, Idle
<1>4. CASE TurnInvoke
  <2>1. stage \in TurnStage
    BY <1>4, Zenon DEF TurnInvoke, At, CoordinatorInv
  <2>2. ServiceInv' /\ pending' = pending
    BY <1>4, OthersKeep, Zenon DEF TurnInvoke
  <2>3. stage' = Idle \/ stage' \in TurnStage
    BY <1>4, <2>1, Zenon DEF TurnInvoke, TurnStage
  <2> QED
    BY <2>2, <2>3 DEF CoordinatorInv, At, Idle
<1>5. CASE TurnSpeak
  <2>1. stage \in TurnStage
    BY <1>5, Zenon DEF TurnSpeak, At, CoordinatorInv
  <2>2. ServiceInv'
    BY <1>5, <2>1, TtsKeeps, OthersKeep, Zenon DEF TurnSpeak, TurnStage
  <2>3. \A p \in DOMAIN Pended : Pended[p].turn \in Turns
    BY <2>1, Zenon DEF Pended, TurnStage, CoordinatorInv
  <2>4. stage' = Idle /\ pending' \in {pending, Pended}
    BY <1>5, Zenon DEF TurnSpeak
  <2> QED
    BY <2>2, <2>3, <2>4, Zenon DEF CoordinatorInv, At, Idle
<1>6. ASSUME NEW k \in 1..issued, NEW p \in Proposals, Interrupt(k, p)
      PROVE  ServiceInv' /\ CoordinatorInv'
  <2>1. pending[p].turn \in Turns /\ BargeIn(k, pending[p].turn)
    BY <1>6, Zenon DEF Interrupt, CoordinatorInv
  <2>2. ServiceInv'
    BY <2>1, BargeInKeeps, Zenon
  <2> QED
    BY <1>6, <2>2, Zenon DEF Interrupt, CoordinatorInv, At
<1>7. ASSUME NEW p \in Proposals, NEW f \in Proofs, ApproveOnDevice(p, f)
      PROVE  ServiceInv' /\ CoordinatorInv'
  <2>1. \/ UNCHANGED voiceVars
        \/ p \in DOMAIN pending /\ QueueTts(pending[p].token, pending[p].turn)
    BY <1>7, Zenon DEF ApproveOnDevice
  <2>2. ServiceInv'
    BY <2>1, TtsKeeps, OthersKeep, Zenon DEF CoordinatorInv
  <2> QED
    BY <1>7, <2>2, Zenon DEF ApproveOnDevice, CoordinatorInv, At
<1> QED
  BY <1>1, <1>2, <1>3, <1>4, <1>5, <1>6, <1>7, Zenon DEF Turn

(* The service and the coordinator together.                               *)
LEMMA ServiceStep ==
  ASSUME ServiceInv, CoordinatorInv, [ConversationNext]_conversationVars
  PROVE  ServiceInv' /\ CoordinatorInv'
<1>1. CASE (DeviceCall \/ OwnerCall) /\ UNCHANGED coordinatorVars
  BY <1>1, DeviceCallKeeps, OwnerCallKeeps, Zenon DEF CoordinatorInv, coordinatorVars, At
<1>2. CASE (ClockTicks \/ UNCHANGED voiceVars) /\ UNCHANGED coordinatorVars
  BY <1>2, OthersKeep, Zenon DEF CoordinatorInv, coordinatorVars, At
<1>3. CASE Turn
  BY <1>3, TurnKeeps, Zenon
<1> QED
  BY <1>1, <1>2, <1>3, Zenon DEF ConversationNext, conversationVars

(* The voice service (voice/session.py) and its coordinator                *)
(* (voice/conversation.py) keep their shape, cancelled turns stay silent   *)
(* and the provider follows the sessions, in every behaviour.              *)
THEOREM ServiceHolds == ConversationSpec => [](ServiceInv /\ CoordinatorInv)
<1>1. ConversationInit => ServiceInv /\ CoordinatorInv
  BY ServiceInit DEF ConversationInit, CoordinatorInv, At, Idle
<1>2. ServiceInv /\ CoordinatorInv /\ [ConversationNext]_conversationVars => (ServiceInv /\ CoordinatorInv)'
  BY ServiceStep, Zenon
<1> QED
  BY <1>1, <1>2, PTL DEF ConversationSpec

(* After a barge-in nothing of the cancelled turn is queued again, however *)
(* many sessions, reconnects and late calls there are (barge_in, queue_tts *)
(* and queue_action_progress of voice/session.py).                         *)
THEOREM CancelledStaysSilent == ConversationSpec => []CancelledIsSilent
<1>1. ServiceInv /\ CoordinatorInv => CancelledIsSilent
  BY Zenon DEF ServiceInv
<1> QED
  BY <1>1, ServiceHolds, PTL

(* No ended or expired session stays open at the realtime provider, and no *)
(* running one that was opened there is forgotten.                         *)
THEOREM ProviderIsFollowed == ConversationSpec => []ProviderFollowsSession
<1>1. ServiceInv /\ CoordinatorInv => ProviderFollowsSession
  BY Zenon DEF ServiceInv
<1> QED
  BY <1>1, ServiceHolds, PTL

-----------------------------------------------------------------------------
(* The jobs of a cell.                                                     *)

Statuses == Storable \cup {"none", "needs_reconciliation"}

OutboxType ==
    /\ now \in Nat
    /\ status \in [Jobs -> Statuses]
    /\ claims \in [Jobs -> Nat]
    /\ deadline \in [Jobs -> Nat]
    /\ hold \in [Workers -> SUBSET (Jobs \X Nat)]

(* A job exists once its approval was consumed, so no approval enqueues it *)
(* again, and it waits to be claimed only before its first claim.          *)
JobInv ==
    \A f \in Jobs :
        /\ status[f] # "none" => ApproveMarker(f) \in consumed
        /\ status[f] \in {"none", "queued"} => claims[f] = 0
        /\ claims[f] <= 1

OutboxInv == OutboxType /\ JobInv

(* The initial cell has no job.                                            *)
LEMMA OutboxInit == Init => OutboxInv
BY DEF Init, CellInit, WorkInit, OutboxInv, OutboxType, JobInv, Statuses, Storable

(* approve_and_enqueue_calendar consumes the approval it enqueues.         *)
LEMMA ApproveKeepsJobs ==
    ASSUME OutboxInv, NEW p \in Proposals, NEW f \in Jobs, Approve(p, f) PROVE OutboxInv'
<1>1. status[f] = "none" /\ claims[f] = 0
    BY Zenon DEF Approve, Unused, ApproveKeys, OutboxInv, JobInv
<1>2. status' = [status EXCEPT ![f] = "queued"] /\ ApproveMarker(f) \in consumed' /\ consumed \subseteq consumed'
    BY Zenon DEF Approve, Enqueue, ApproveKeys
<1>3. UNCHANGED <<now, claims, deadline, hold>>
    BY Zenon DEF Approve, workerVars
<1>4. OutboxType'
    BY <1>2, <1>3, Zenon DEF OutboxInv, OutboxType, Statuses, Storable
<1>5. JobInv'
    BY <1>1, <1>2, <1>3, Zenon DEF OutboxInv, OutboxType, JobInv
<1>6. QED
    BY <1>4, <1>5, Zenon DEF OutboxInv

(* A claim never outlives its approval.                                    *)
LEMMA DeadlineBounded ==
    ASSUME now \in Nat, NEW f \in Jobs PROVE ClaimDeadline(f) \in Nat /\ ClaimDeadline(f) <= f.expires
<1>1. f.expires \in Nat
    BY ProofsAssumption, Zenon DEF Jobs, ProofType
<1>2. QED
    BY <1>1, OutboxAssumption DEF ClaimDeadline

(* A dispatch claims queued jobs only, each for the first time.            *)
LEMMA DispatchKeepsJobs ==
    ASSUME OutboxInv, NEW skipped, NEW taken, skipped \subseteq Queued, taken \subseteq Queued,
           Dispatch(skipped, taken), consumed' = consumed, now' \in Nat,
           hold' \in [Workers -> SUBSET (Jobs \X Nat)]
    PROVE  OutboxInv'
<1> DEFINE claimed == taken \cup {f \in skipped : f.expires > now}
<1>1. \A f \in claimed : f \in Jobs /\ status[f] = "queued" /\ claims[f] = 0
    BY Zenon DEF Queued, OutboxInv, JobInv
<1>2. \A f \in Jobs :
        /\ status'[f] \in Statuses
        /\ f \in claimed => status'[f] \in {"running", "cancelled"}
        /\ f \notin claimed => status'[f] \in {status[f], "expired"}
        /\ status'[f] # status[f] => status[f] = "queued"
    BY Zenon DEF Dispatch, Queued, OutboxInv, OutboxType, Statuses, Storable
<1>3. \A f \in Jobs : claims'[f] = IF f \in claimed THEN claims[f] + 1 ELSE claims[f]
    BY DEF Dispatch, OutboxInv, OutboxType
<1>4. OutboxType'
    <2>1. deadline' \in [Jobs -> Nat]
        BY DeadlineBounded, Zenon DEF Dispatch, OutboxInv, OutboxType
    <2>2. claims' \in [Jobs -> Nat]
        BY DEF Dispatch, OutboxInv, OutboxType
    <2>3. status' \in [Jobs -> Statuses]
        BY <1>2, Zenon DEF Dispatch
    <2>4. QED
        BY <2>1, <2>2, <2>3, Zenon DEF OutboxType
<1>5. JobInv'
    <2> SUFFICES ASSUME NEW f \in Jobs
                 PROVE /\ status'[f] # "none" => ApproveMarker(f) \in consumed'
                       /\ status'[f] \in {"none", "queued"} => claims'[f] = 0
                       /\ claims'[f] <= 1
        BY Zenon DEF JobInv
    <2> HIDE DEF claimed
    <2>1. CASE f \in claimed
        BY <2>1, <1>1, <1>2, <1>3 DEF OutboxInv, OutboxType, JobInv
    <2>2. CASE f \notin claimed
        BY <2>2, <1>2, <1>3, Zenon DEF OutboxInv, OutboxType, JobInv
    <2>3. QED
        BY <2>1, <2>2, Zenon
<1>6. QED
    BY <1>4, <1>5, Zenon DEF OutboxInv

(* What a worker, the sweep and the reconciler do to a claimed job.        *)
LEMMA WorkersKeepJobs == OutboxInv /\ WorkerStep => OutboxInv'
<1> SUFFICES ASSUME OutboxInv, NEW w \in Workers,
                    \/ \E later \in now .. MaxTime :
                        ClaimNothing(w, later) \/ \E f \in Jobs : Claim(w, f, later)
                    \/ ReadClock(w) \/ Complete(w) \/ Abandon(w)
             PROVE  OutboxInv'
    BY Zenon DEF WorkerStep
<1>1. ASSUME NEW later \in now .. MaxTime, ClaimNothing(w, later) PROVE OutboxInv'
    <2>1. later \in Nat
        BY CellAssumption DEF OutboxInv, OutboxType
    <2>2. Dispatch(Queued, {}) /\ consumed' = consumed /\ now' = later /\ hold' = hold
        BY <1>1, Zenon DEF ClaimNothing, proposalVars, workerVars
    <2>3. hold' \in [Workers -> SUBSET (Jobs \X Nat)] /\ Queued \subseteq Queued /\ {} \subseteq Queued
        BY <2>2, Zenon DEF OutboxInv, OutboxType
    <2>4. QED
        BY <2>1, <2>2, <2>3, DispatchKeepsJobs, Zenon
<1>2. ASSUME NEW later \in now .. MaxTime, NEW f \in Jobs, Claim(w, f, later) PROVE OutboxInv'
    <2>1. later \in Nat
        BY CellAssumption DEF OutboxInv, OutboxType
    <2>2. Dispatch({g \in Queued : g.id < f.id}, {f}) /\ consumed' = consumed /\ now' = later /\ f \in Queued
        BY <1>2, Zenon DEF Claim, proposalVars
    <2>3. hold' \in [Workers -> SUBSET (Jobs \X Nat)]
        BY <1>2 DEF Claim, OutboxInv, OutboxType
    <2>4. PICK skipped : skipped = {g \in Queued : g.id < f.id}
        BY Zenon
    <2>5. skipped \subseteq Queued /\ {f} \subseteq Queued /\ Dispatch(skipped, {f})
        BY <2>2, <2>4, Zenon
    <2>6. QED
        BY <2>1, <2>2, <2>3, <2>5, DispatchKeepsJobs, Zenon
<1>3. CASE ReadClock(w)
    BY <1>3, Zenon DEF ReadClock, proposalVars, jobVars, OutboxInv, OutboxType, JobInv
<1>4. CASE Complete(w)
    <2>1. PICK claim \in hold[w] :
            status[claim[1]] = "running" /\ status' = [status EXCEPT ![claim[1]] = "succeeded"]
        BY <1>4, Zenon DEF Complete, CurrentClaim
    <2>2. UNCHANGED <<now, consumed, claims, deadline>> /\ hold' = [hold EXCEPT ![w] = {}]
        BY <1>4, Zenon DEF Complete, proposalVars
    <2>3. claim[1] \in Jobs
        BY DEF OutboxInv, OutboxType
    <2>4. OutboxType'
        BY <2>1, <2>2, Zenon DEF OutboxInv, OutboxType, Statuses, Storable
    <2>5. JobInv'
        BY <2>1, <2>2, <2>3, Zenon DEF OutboxInv, OutboxType, JobInv
    <2>6. QED
        BY <2>4, <2>5, Zenon DEF OutboxInv
<1>5. CASE Abandon(w)
    BY <1>5, Zenon DEF Abandon, proposalVars, jobVars, OutboxInv, OutboxType, JobInv
<1>6. QED
    BY <1>1, <1>2, <1>3, <1>4, <1>5, Zenon

(* The sweep over overdue jobs and their reconciliation keep the outbox      *)
(* invariant.                                                                *)
LEMMA RecoveryKeepsJobs == OutboxInv /\ RecoveryStep => OutboxInv'
<1> SUFFICES ASSUME OutboxInv, RecoveryStep PROVE OutboxInv'
    BY Zenon
<1>1. CASE StartSweep
    BY <1>1, Zenon DEF StartSweep, proposalVars, jobVars, workerVars, OutboxInv, OutboxType, JobInv
<1>2. CASE Recover
    <2>1. PICK time \in sweep :
            LET swept == [f \in Jobs |-> AfterSweep(f, time)] IN
            status' = IF \A f \in Jobs : swept[f] \in Storable \cup {"none"} THEN swept ELSE status
        BY <1>2, Zenon DEF Recover
    <2>2. status' \in [Jobs -> Statuses]
        BY <2>1, Zenon DEF AfterSweep, OutboxInv, OutboxType, Statuses, Storable
    <2>3. \A f \in Jobs : status'[f] = status[f] \/ (status[f] = "running" /\ status'[f] = "needs_reconciliation")
        BY <2>1, Zenon DEF AfterSweep
    <2>4. UNCHANGED <<now, consumed, claims, deadline, hold>>
        BY <1>2, Zenon DEF Recover, proposalVars, workerVars
    <2>5. QED
        BY <2>2, <2>3, <2>4, Zenon DEF OutboxInv, OutboxType, JobInv
<1>3. ASSUME NEW f \in Jobs, NEW outcome \in {"succeeded", "cancelled"}, Reconcile(f, outcome)
      PROVE  OutboxInv'
    <2>1. \/ status' = status
          \/ /\ status[f] \in {"uncertain", "needs_reconciliation"}
             /\ status' = [status EXCEPT ![f] = outcome]
        BY <1>3, Zenon DEF Reconcile
    <2>2. UNCHANGED <<now, consumed, claims, deadline, hold>>
        BY <1>3, Zenon DEF Reconcile, proposalVars, workerVars
    <2>3. OutboxType'
        BY <2>1, <2>2, Zenon DEF OutboxInv, OutboxType, Statuses, Storable
    <2>4. JobInv'
        BY <2>1, <2>2, Zenon DEF OutboxInv, OutboxType, JobInv
    <2>5. QED
        BY <2>3, <2>4, Zenon DEF OutboxInv
<1>4. QED
    BY <1>1, <1>2, <1>3, Zenon DEF RecoveryStep

(* Every step of the cell keeps the outbox invariant.                        *)
LEMMA OutboxStep == OutboxInv /\ [Next]_vars => OutboxInv'
<1> SUFFICES ASSUME OutboxInv, [Next]_vars PROVE OutboxInv'
    BY Zenon
<1>1. ASSUME NEW p \in Proposals, Create(p) \/ Delete(p) PROVE OutboxInv'
    BY <1>1, Zenon DEF Create, Delete, jobVars, workerVars, OutboxInv, OutboxType, JobInv
<1>2. CASE ProposalWork
    BY <1>1, <1>2, ApproveKeepsJobs, Zenon DEF ProposalWork
<1>3. CASE Talk \/ Membership \/ UNCHANGED vars
    BY <1>3, Zenon DEF Talk, Membership, vars, workVars, proposalVars, jobVars, workerVars, OutboxInv,
       OutboxType, JobInv
<1>4. CASE TimePasses
    BY <1>4 DEF TimePasses, Tick, workVars, proposalVars, jobVars, workerVars, OutboxInv, OutboxType,
       JobInv
<1>5. QED
    BY <1>2, <1>3, <1>4, WorkersKeepJobs, RecoveryKeepsJobs, Zenon DEF Next

(* The outbox invariant holds in every behaviour.                            *)
LEMMA OutboxInvariant == Spec => []OutboxInv
BY OutboxInit, OutboxStep, PTL DEF Spec

(* However approvals are replayed and workers, sweeps and reconcilers race *)
(* or die, no job is handed out twice.                                     *)
THEOREM NeverHandedOutTwice == Spec => []HandedOutOnce
<1>1. OutboxInv => HandedOutOnce
    BY DEF OutboxInv, JobInv, HandedOutOnce
<1>2. QED
    BY <1>1, OutboxInvariant, PTL

(* claim_verified_calendar checks device, proposal and time again in the   *)
(* transaction that hands the job out.                                     *)
THEOREM HandOutsAuthorized == Spec => HandOutAuthorized
<1> DEFINE handed(w) == hold'[w] \ hold[w]
           A == \A w \in Workers : \A claim \in handed(w) :
                    /\ claim[1].device \in active
                    /\ state[claim[1].proposal] = "approved"
                    /\ deadline'[claim[1]] <= claim[1].expires
<1>1. ASSUME OutboxInv, Next PROVE A
    <2>1. ASSUME NEW w \in Workers, NEW f \in Jobs, NEW later \in now .. MaxTime, Claim(w, f, later) PROVE A
        <3>1. f.device \in active /\ state[f.proposal] = "approved"
            BY <2>1, Zenon DEF Claim, Dispatchable, Revalidated, ValidProof, DeviceSigned
        <3>2. deadline'[f] = ClaimDeadline(f)
            BY <2>1 DEF Claim, Dispatch
        <3>3. \A v \in Workers : handed(v) \subseteq {<<f, claims[f] + 1>>}
            BY <1>1, <2>1 DEF Claim, OutboxInv, OutboxType
        <3>4. QED
            <4>1. ClaimDeadline(f) <= f.expires
                BY <1>1, DeadlineBounded, Zenon DEF OutboxInv, OutboxType
            <4>2. <<f, claims[f] + 1>>[1] = f
                BY Zenon
            <4>3. \A v \in Workers : \A claim \in handed(v) : claim[1] = f
                BY <3>3, <4>2, Zenon
            <4>4. QED
                BY <3>1, <3>2, <4>1, <4>3, Zenon
    <2>2. CASE \A w \in Workers : hold'[w] \subseteq hold[w]
        BY <2>2
    <2>3. ASSUME NEW p \in Proposals, Create(p) \/ Delete(p) \/ \E f \in Jobs : Approve(p, f) PROVE hold' = hold
        BY <2>3, Zenon DEF Create, Delete, Approve, workerVars
    <2>4. ASSUME NEW w \in Workers,
                 (\E later \in now .. MaxTime : ClaimNothing(w, later)) \/ ReadClock(w) \/ Complete(w) \/ Abandon(w)
          PROVE \A v \in Workers : hold'[v] \subseteq hold[v]
        BY <1>1, <2>4, Zenon DEF ClaimNothing, ReadClock, Complete, Abandon, workerVars, OutboxInv,
           OutboxType
    <2>5. CASE RecoveryStep
        BY <2>2, <2>5 DEF RecoveryStep, StartSweep, Recover, Reconcile, workerVars
    <2>6. CASE Talk \/ Membership \/ TimePasses
        BY <2>2, <2>6, Zenon DEF Talk, Membership, TimePasses, workVars, workerVars
    <2>7. CASE ProposalWork
        BY <2>2, <2>3, <2>7, Zenon DEF ProposalWork
    <2>8. CASE WorkerStep
        BY <2>1, <2>2, <2>4, <2>8, ZenonT(30) DEF WorkerStep
    <2>9. QED
        BY <1>1, <2>5, <2>6, <2>7, <2>8, Zenon DEF Next
<1>2. OutboxInv /\ [Next]_vars => [A]_<<now, deviceVars, workVars>>
    BY <1>1 DEF vars
<1>3. QED
    BY <1>2, OutboxInvariant, PTL DEF Spec, HandOutAuthorized

-----------------------------------------------------------------------------
(* The conversations of a cell.                                            *)

Events == UNION {Range(batch) : batch \in Batches}

(* A conversation is stored or deleted, never both: its id cannot be used  *)
(* again.                                                                  *)
TalkInv ==
    /\ streams \in [Conversations -> Seq(Events)]
    /\ DOMAIN rooms \subseteq Conversations
    /\ deletions \subseteq Conversations
    /\ DOMAIN rooms \cap deletions = {}

(* The conversation invariant holds at first.                                *)
LEMMA TalkStart == Init => TalkInv
BY DEF Init, TalkInit, TalkInv

(* What a batch adds is a sequence of its events.                          *)
LEMMA FreshIsSequence ==
    ASSUME TalkInv, NEW c \in Conversations, NEW batch \in Batches PROVE Fresh(c, batch) \in Seq(Events)
<1>1. Range(streams[c]) \subseteq Events
    BY DEF TalkInv, Range
<1>2. Ids(streams[c]) \in SUBSET UNION {Ids(b) : b \in Batches}
    BY <1>1 DEF Ids, Events
<1>3. Fresh(c, batch) \in Seq(Range(batch))
    BY <1>2, BatchesAssumption, Zenon DEF Fresh
<1>4. Range(batch) \subseteq Events
    BY Zenon DEF Events
<1>5. QED
    BY <1>3, <1>4

(* create: the id was never used before.                                   *)
LEMMA OpenRefines ==
    ASSUME TalkInv, NEW c \in Conversations, NEW title, NEW d, Open(c, title, d)
    PROVE  TalkInv' /\ Promise!Open(c)
<1>1. c \notin DOMAIN rooms /\ c \notin deletions /\ streams' = streams /\ deletions' = deletions
    BY Zenon DEF Open, Creatable
<1>2. DOMAIN rooms' = DOMAIN rooms \cup {c}
    BY Zenon DEF Open
<1>3. TalkInv'
    BY <1>1, <1>2, Zenon DEF TalkInv
<1>4. Phase[c] = "absent" /\ Phase' = [Phase EXCEPT ![c] = "open"]
    BY <1>1, <1>2, Zenon DEF Phase
<1>5. QED
    BY <1>1, <1>3, <1>4, Zenon DEF Promise!Open

(* append: the stored events stay, the new ones follow them.               *)
LEMMA AppendRefines ==
    ASSUME TalkInv, NEW c \in Conversations, NEW d, NEW batch \in Batches, AppendBatch(c, d, batch)
    PROVE  TalkInv' /\ (Promise!Extend(c) \/ UNCHANGED <<Phase, streams>>)
<1> DEFINE new == Fresh(c, batch)
<1>1. new \in Seq(Events)
    BY FreshIsSequence, Zenon
<1>2. streams' = [streams EXCEPT ![c] = @ \o new] /\ rooms' = rooms /\ deletions' = deletions
    BY Zenon DEF AppendBatch
<1>3. c \in DOMAIN rooms
    BY Zenon DEF AppendBatch, MayUse
<1> HIDE DEF new
<1>4. TalkInv'
    BY <1>1, <1>2 DEF TalkInv
<1>5. Phase' = Phase /\ Phase[c] = "open"
    BY <1>2, <1>3, Zenon DEF Phase
<1>6. CASE new = << >>
    <2>1. streams' = streams
        BY <1>2, <1>6 DEF TalkInv
    <2>2. QED
        BY <1>4, <1>5, <2>1, Zenon
<1>7. CASE new # << >>
    <2>1. streams[c] \in Seq(Events) /\ streams'[c] = streams[c] \o new
        BY <1>2, Zenon DEF TalkInv
    <2>2. Len(streams'[c]) > Len(streams[c]) /\ SubSeq(streams'[c], 1, Len(streams[c])) = streams[c]
        BY <1>1, <1>7, <2>1
    <2>3. \A other \in Conversations \ {c} : streams'[other] = streams[other]
        BY <1>2, Zenon DEF TalkInv
    <2>4. QED
        BY <1>4, <1>5, <2>2, <2>3, Zenon DEF Promise!Extend
<1>8. QED
    BY <1>6, <1>7, Zenon

(* delete and expire: history and identity go together.                    *)
LEMMA PurgeRefines ==
    ASSUME TalkInv, NEW cs \in SUBSET DOMAIN rooms, Purge(cs)
    PROVE  TalkInv' /\ cs \in SUBSET Conversations /\ Promise!Purge(cs)
<1>1. DOMAIN rooms' = DOMAIN rooms \ cs /\ deletions' = deletions \cup cs
    BY Zenon DEF Purge
<1>2. streams' = [c \in Conversations |-> IF c \in cs THEN << >> ELSE streams[c]]
    BY Zenon DEF Purge
<1>3. cs \in SUBSET Conversations
    BY Zenon DEF TalkInv
<1>4. TalkInv'
    BY <1>1, <1>2, <1>3 DEF TalkInv
<1>5. \A c \in cs : Phase[c] = "open"
    BY <1>3, Zenon DEF Phase
<1>6. Phase' = [c \in Conversations |-> IF c \in cs THEN "purged" ELSE Phase[c]]
    BY <1>1, <1>3, Zenon DEF Phase, TalkInv
<1>7. QED
    BY <1>2, <1>3, <1>4, <1>5, <1>6, Zenon DEF Promise!Purge

(* Every step keeps the conversation invariant and is a step, or a stutter,  *)
(* of the history that was promised.                                         *)
LEMMA TalkStep == TalkInv /\ [Next]_vars => TalkInv' /\ [Promise!Next]_<<Phase, streams>>
<1> SUFFICES ASSUME TalkInv, [Next]_vars PROVE TalkInv' /\ [Promise!Next]_<<Phase, streams>>
    BY Zenon
<1>1. CASE UNCHANGED <<rooms, streams, deletions>>
    BY <1>1, Zenon DEF TalkInv, Phase
<1>2. CASE ProposalWork \/ WorkerStep \/ RecoveryStep \/ Membership \/ TimePasses \/ UNCHANGED vars
    BY <1>1, <1>2, Zenon DEF ProposalWork, WorkerStep, RecoveryStep, Membership, TimePasses, vars,
       talkVars
<1>3. ASSUME NEW identity \in Identities, NEW d \in Devices, Provision(identity, d)
      PROVE  UNCHANGED <<rooms, streams, deletions>>
    BY <1>3, Zenon DEF Provision
<1>4. ASSUME NEW c \in Conversations, NEW d \in Devices,
             \/ \E title \in Titles : Open(c, title, d)
             \/ \E batch \in Batches : AppendBatch(c, d, batch)
      PROVE  TalkInv' /\ [Promise!Next]_<<Phase, streams>>
    BY <1>4, OpenRefines, AppendRefines, Zenon DEF Promise!Next
<1>5. ASSUME NEW c \in Conversations, NEW d \in Devices, DeleteConversation(c, d)
      PROVE  TalkInv' /\ [Promise!Next]_<<Phase, streams>>
    <2>1. {c} \in SUBSET DOMAIN rooms /\ Purge({c})
        BY <1>5, Zenon DEF DeleteConversation, MayUse
    <2>2. QED
        BY <2>1, PurgeRefines, Zenon DEF Promise!Next
<1>6. CASE Expire
    <2>1. Due \in SUBSET DOMAIN rooms /\ Purge(Due)
        BY <1>6, Zenon DEF Expire, Due
    <2>2. QED
        BY <2>1, PurgeRefines, Zenon DEF Promise!Next
<1>7. CASE Talk
    BY <1>1, <1>3, <1>4, <1>5, <1>6, <1>7, Zenon DEF Talk
<1>8. QED
    BY <1>2, <1>7, Zenon DEF Next

(* The cell's conversations implement ConversationHistory, whatever else   *)
(* the cell does.                                                          *)
THEOREM HistoryKept == Spec => KeepsConversationHistory
<1>1. Init => Promise!Init
    BY DEF Init, TalkInit, Promise!Init, Phase
<1>2. QED
    BY <1>1, TalkStart, TalkStep, PTL DEF Spec, KeepsConversationHistory, Promise!Spec

-----------------------------------------------------------------------------
(* The cell's audit chain, which counts.                                   *)

(* IsFiniteSet and Cardinality, spelled out: the theorems on finite sets,  *)
(* which are only brought in near the end, speak of copies of their own.   *)
Finite(S) == \E seq \in Seq(S) : \A s \in S : \E n \in 1 .. Len(seq) : seq[n] = s

Count(S) == LET CS[T \in SUBSET S] == IF T = {} THEN 0 ELSE 1 + CS[T \ {CHOOSE x : x \in T}] IN CS[S]

(* Finite and Count are IsFiniteSet and Cardinality.                        *)
LEMMA SpelledOut == \A S : (Finite(S) <=> IsFiniteSet(S)) /\ Count(S) = Cardinality(S)
BY Zenon DEF Finite, Count, IsFiniteSet, Cardinality

(* What the proofs use of finite sets; SetsCount, near the end,            *)
(* establishes it.                                                         *)
Countable ==
    /\ Finite({}) /\ Count({}) = 0
    /\ \A S : Finite(S) => Count(S) \in Nat
    /\ \A S, x : Finite(S) /\ x \notin S => Finite(S \cup {x}) /\ Count(S \cup {x}) = Count(S) + 1
    /\ \A S, T : Finite(S) /\ Finite(T) /\ S \cap T = {} =>
        Finite(S \cup T) /\ Count(S \cup T) = Count(S) + Count(T)
    /\ \A S : \A T \in SUBSET S : Finite(S) =>
        Finite(T) /\ Finite(S \ T) /\ Count(S \ T) = Count(S) - Count(T)
    /\ \A c \in Conversations : \A a, b \in Nat :
        Finite({c} \X ((a + 1) .. (a + b))) /\ Count({c} \X ((a + 1) .. (a + b))) = b

(* The empty set has no member.                                             *)
LEMMA NoneCount ==
    ASSUME Countable PROVE IsFiniteSet({}) /\ Cardinality({}) = 0
BY SpelledOut, Zenon DEF Countable

(* A new member makes a finite set larger by one.                           *)
LEMMA OneMore ==
    ASSUME Countable, NEW S, IsFiniteSet(S), NEW x, x \notin S
    PROVE  /\ IsFiniteSet(S \cup {x}) /\ Cardinality(S) \in Nat
           /\ Cardinality(S \cup {x}) = Cardinality(S) + 1
<1>1. Finite(S) /\ Count(S) = Cardinality(S) /\ Count(S \cup {x}) = Cardinality(S \cup {x})
    BY SpelledOut, Zenon
<1>2. Finite(S \cup {x}) /\ Count(S) \in Nat /\ Count(S \cup {x}) = Count(S) + 1
    BY <1>1, Zenon DEF Countable
<1>3. QED
    BY <1>1, <1>2, SpelledOut, Zenon

(* Rows that are added to others.                                          *)
LEMMA AddedRows ==
    ASSUME Countable, NEW S, NEW T, IsFiniteSet(S), IsFiniteSet(T), S \cap T = {}
    PROVE  /\ IsFiniteSet(S \cup T) /\ Cardinality(S) \in Nat /\ Cardinality(T) \in Nat
           /\ Cardinality(S \cup T) = Cardinality(S) + Cardinality(T)
<1>1. /\ Finite(S) /\ Finite(T) /\ Count(S) = Cardinality(S) /\ Count(T) = Cardinality(T)
      /\ Count(S \cup T) = Cardinality(S \cup T)
    BY SpelledOut, Zenon
<1>2. /\ Finite(S \cup T) /\ Count(S) \in Nat /\ Count(T) \in Nat
      /\ Count(S \cup T) = Count(S) + Count(T)
    BY <1>1, ZenonT(30) DEF Countable
<1>3. QED
    BY <1>1, <1>2, SpelledOut, Zenon

(* Rows that are taken away.                                               *)
LEMMA RemovedRows ==
    ASSUME Countable, NEW S, NEW T, T \in SUBSET S, IsFiniteSet(S)
    PROVE  /\ IsFiniteSet(S \ T) /\ Cardinality(S) \in Nat /\ Cardinality(T) \in Nat
           /\ Cardinality(S \ T) \in Nat /\ Cardinality(S \ T) = Cardinality(S) - Cardinality(T)
<1>1. /\ Finite(S) /\ Count(S) = Cardinality(S) /\ Count(T) = Cardinality(T)
      /\ Count(S \ T) = Cardinality(S \ T)
    BY SpelledOut, Zenon
<1>2. Finite(T) /\ Finite(S \ T) /\ Count(S \ T) = Count(S) - Count(T)
    BY <1>1, Zenon DEF Countable
<1>3. Count(S) \in Nat /\ Count(T) \in Nat /\ Count(S \ T) \in Nat
    BY <1>1, <1>2, Zenon DEF Countable
<1>4. QED
    BY <1>1, <1>2, <1>3, SpelledOut, Zenon

(* As many rows as the stream grows by.                                    *)
LEMMA RowsOfStream ==
    ASSUME Countable, NEW c \in Conversations, NEW a \in Nat, NEW b \in Nat
    PROVE  IsFiniteSet({c} \X ((a + 1) .. (a + b))) /\ Cardinality({c} \X ((a + 1) .. (a + b))) = b
<1>1. Finite({c} \X ((a + 1) .. (a + b))) /\ Count({c} \X ((a + 1) .. (a + b))) = b
    BY Zenon DEF Countable
<1>2. QED
    BY <1>1, SpelledOut, Zenon

AuditShape == [bound : Nat, created : Nat, accepted : Nat, deleted : Nat, purged : Nat]

(* What is counted is finite.                                              *)
AccountInv ==
    /\ audit \in AuditShape
    /\ IsFiniteSet(DOMAIN rooms) /\ IsFiniteSet(DOMAIN bindings) /\ IsFiniteSet(Rows(Conversations))
    /\ AcceptedAreAccountedFor

(* What the account says, field by field.                                  *)
LEMMA Account ==
    ASSUME AccountInv
    PROVE  /\ audit.bound \in Nat /\ audit.created \in Nat /\ audit.accepted \in Nat
           /\ audit.deleted \in Nat /\ audit.purged \in Nat
           /\ audit.accepted = audit.purged + Cardinality(Rows(Conversations))
           /\ audit.created = Cardinality(DOMAIN rooms) + audit.deleted
           /\ audit.bound = Cardinality(DOMAIN bindings)
<1>1. audit \in AuditShape
    BY Zenon DEF AccountInv
<1>2. /\ audit.bound \in Nat /\ audit.created \in Nat /\ audit.accepted \in Nat
      /\ audit.deleted \in Nat /\ audit.purged \in Nat
    BY <1>1, Zenon DEF AuditShape
<1>3. QED
    BY <1>2, Zenon DEF AccountInv, AcceptedAreAccountedFor

(* An empty cell has an empty chain.                                       *)
LEMMA AccountStart == Countable /\ Init => AccountInv
<1> SUFFICES ASSUME Countable, Init PROVE AccountInv
    BY Zenon
<1>1. DOMAIN rooms = {} /\ DOMAIN bindings = {} /\ \A c \in Conversations : streams[c] = << >>
    <2>1. \A c \in Conversations : streams[c] = << >>
        BY Zenon DEF Init, TalkInit
    <2>2. QED
        BY <2>1 DEF Init, TalkInit
<1>2. audit = [bound |-> 0, created |-> 0, accepted |-> 0, deleted |-> 0, purged |-> 0]
    BY Zenon DEF Init, CellInit
<1>3. Rows(Conversations) = {}
    <2>1. DOMAIN << >> = {}
        OBVIOUS
    <2>2. \A c \in Conversations : {c} \X DOMAIN streams[c] = {}
        BY <1>1, <2>1, Zenon
    <2>3. QED
        BY <2>2, Zenon DEF Rows
<1>4. /\ audit \in AuditShape /\ audit.bound = 0 /\ audit.created = 0 /\ audit.accepted = 0
      /\ audit.deleted = 0 /\ audit.purged = 0
    BY <1>2, Zenon DEF AuditShape
<1>5. IsFiniteSet({}) /\ Cardinality({}) = 0 /\ 0 = 0 + 0
    BY NoneCount
<1>6. QED
    BY <1>1, <1>3, <1>4, <1>5, Zenon DEF AccountInv, AcceptedAreAccountedFor

(* A step that touches nothing that is counted.                            *)
LEMMA NothingToAccount ==
    ASSUME AccountInv, UNCHANGED <<audit, rooms, bindings, streams>> PROVE AccountInv'
BY Zenon DEF AccountInv, AcceptedAreAccountedFor, Rows

(* provision: one entry, one binding.                                      *)
LEMMA ProvisionAccounts ==
    ASSUME Countable, AccountInv, NEW identity, NEW d, Provision(identity, d) PROVE AccountInv'
<1>1. /\ d \notin DOMAIN bindings /\ DOMAIN bindings' = DOMAIN bindings \cup {d}
      /\ audit' = [audit EXCEPT !["bound"] = @ + 1] /\ rooms' = rooms /\ streams' = streams
    BY Zenon DEF Provision, Audited
<1>2. /\ IsFiniteSet(DOMAIN bindings') /\ Cardinality(DOMAIN bindings') = Cardinality(DOMAIN bindings) + 1
    BY <1>1, OneMore, Zenon DEF AccountInv
<1>3. Rows(Conversations)' = Rows(Conversations)
    BY <1>1, Zenon DEF Rows
<1>4. audit \in AuditShape
    BY Zenon DEF AccountInv
<1>5. /\ audit' \in AuditShape /\ audit'.bound = audit.bound + 1 /\ audit'.created = audit.created
      /\ audit'.accepted = audit.accepted /\ audit'.deleted = audit.deleted /\ audit'.purged = audit.purged
    BY <1>1, <1>4 DEF AuditShape
<1>6. audit'.bound = Cardinality(DOMAIN bindings')
    BY <1>2, <1>5, Account, Zenon
<1>7. QED
    BY <1>1, <1>2, <1>3, <1>5, <1>6, Account, Zenon DEF AccountInv, AcceptedAreAccountedFor

(* create: one entry, one conversation.                                    *)
LEMMA OpenAccounts ==
    ASSUME Countable, AccountInv, NEW c, NEW title, NEW d, Open(c, title, d) PROVE AccountInv'
<1>1. /\ c \notin DOMAIN rooms /\ DOMAIN rooms' = DOMAIN rooms \cup {c}
      /\ audit' = [audit EXCEPT !["created"] = @ + 1] /\ bindings' = bindings /\ streams' = streams
    BY Zenon DEF Open, Creatable, Audited
<1>2. /\ IsFiniteSet(DOMAIN rooms') /\ Cardinality(DOMAIN rooms) \in Nat
      /\ Cardinality(DOMAIN rooms') = Cardinality(DOMAIN rooms) + 1
    BY <1>1, OneMore, Zenon DEF AccountInv
<1>3. Rows(Conversations)' = Rows(Conversations)
    BY <1>1, Zenon DEF Rows
<1>4. audit \in AuditShape
    BY Zenon DEF AccountInv
<1>5. /\ audit' \in AuditShape /\ audit'.bound = audit.bound /\ audit'.created = audit.created + 1
      /\ audit'.accepted = audit.accepted /\ audit'.deleted = audit.deleted /\ audit'.purged = audit.purged
    BY <1>1, <1>4 DEF AuditShape
<1>6. audit'.created = Cardinality(DOMAIN rooms') + audit'.deleted
    <2>1. \A x, y \in Nat : (x + y) + 1 = (x + 1) + y
        OBVIOUS
    <2>2. QED
        BY <1>2, <1>5, <2>1, Account, Zenon
<1>7. QED
    BY <1>1, <1>2, <1>3, <1>5, <1>6, Account, Zenon DEF AccountInv, AcceptedAreAccountedFor

(* append: an entry and a row for each event that is not a retry.          *)
LEMMA AppendAccounts ==
    ASSUME Countable, TalkInv, AccountInv, NEW c \in Conversations, NEW d, NEW batch \in Batches,
           AppendBatch(c, d, batch)
    PROVE  AccountInv'
<1> DEFINE new == Fresh(c, batch)
           old == Len(streams[c])
           added == (old + 1) .. (old + Len(new))
<1>1. new \in Seq(Events) /\ streams[c] \in Seq(Events)
    BY FreshIsSequence, Zenon DEF TalkInv
<1>2. /\ streams' = [streams EXCEPT ![c] = @ \o new] /\ rooms' = rooms /\ bindings' = bindings
      /\ audit' = [audit EXCEPT !["accepted"] = @ + Len(new)]
    BY Zenon DEF AppendBatch, Audited, Inserted
<1> HIDE DEF new
<1>3. Len(new) \in Nat /\ Len(streams[c]) \in Nat
    BY <1>1
<1>4. DOMAIN streams'[c] = DOMAIN streams[c] \cup added /\ DOMAIN streams[c] \cap added = {}
    BY <1>1, <1>2, <1>3 DEF TalkInv
<1>5. \A other \in Conversations \ {c} : streams'[other] = streams[other]
    BY <1>2, Zenon DEF TalkInv
<1>6. IsFiniteSet({c} \X added) /\ Cardinality({c} \X added) = Len(new)
    <2>1. PICK a \in Nat, b \in Nat : a = old /\ b = Len(new)
        BY <1>3, Zenon
    <2>2. IsFiniteSet({c} \X ((a + 1) .. (a + b))) /\ Cardinality({c} \X ((a + 1) .. (a + b))) = b
        BY RowsOfStream, Zenon
    <2>3. added = (a + 1) .. (a + b)
        BY <2>1, Zenon
    <2> HIDE DEF added, old
    <2>4. QED
        BY <2>1, <2>2, <2>3, Zenon
<1> HIDE DEF added
<1>7. /\ Rows(Conversations)' = Rows(Conversations) \cup ({c} \X added)
      /\ Rows(Conversations) \cap ({c} \X added) = {}
    BY <1>4, <1>5 DEF Rows
<1>8. /\ IsFiniteSet(Rows(Conversations)') /\ Cardinality(Rows(Conversations)) \in Nat
      /\ Cardinality(Rows(Conversations)') = Cardinality(Rows(Conversations)) + Len(new)
    <2>1. PICK S, T : S = Rows(Conversations) /\ T = {c} \X added
        BY Zenon
    <2>2. IsFiniteSet(S) /\ IsFiniteSet(T) /\ S \cap T = {} /\ Cardinality(T) = Len(new)
        BY <1>6, <1>7, <2>1, Zenon DEF AccountInv
    <2>3. IsFiniteSet(S \cup T) /\ Cardinality(S) \in Nat /\ Cardinality(S \cup T) = Cardinality(S) + Cardinality(T)
        BY <2>2, AddedRows, Zenon
    <2>4. Rows(Conversations)' = S \cup T
        BY <1>7, <2>1, Zenon
    <2>5. QED
        BY <2>1, <2>2, <2>3, <2>4, Zenon
<1>9. audit \in AuditShape
    BY Zenon DEF AccountInv
<1>10. /\ audit' \in AuditShape /\ audit'.bound = audit.bound /\ audit'.created = audit.created
       /\ audit'.accepted = audit.accepted + Len(new) /\ audit'.deleted = audit.deleted /\ audit'.purged = audit.purged
    <2>1. PICK n \in Nat : n = Len(new)
        BY <1>3, Zenon
    <2>2. audit' = [audit EXCEPT !["accepted"] = @ + n]
        BY <1>2, <2>1, Zenon
    <2>3. /\ audit' \in AuditShape /\ audit'.bound = audit.bound /\ audit'.created = audit.created
          /\ audit'.accepted = audit.accepted + n /\ audit'.deleted = audit.deleted
          /\ audit'.purged = audit.purged
        BY <1>9, <2>2 DEF AuditShape
    <2>4. QED
        BY <2>1, <2>3, Zenon
<1>11. audit'.accepted = audit'.purged + Cardinality(Rows(Conversations)')
    <2>1. PICK x \in Nat, y \in Nat, n \in Nat :
            x = audit.purged /\ y = Cardinality(Rows(Conversations)) /\ n = Len(new)
        BY <1>3, <1>8, Account, Zenon
    <2>2. audit'.accepted = (x + y) + n /\ audit'.purged = x /\ Cardinality(Rows(Conversations)') = y + n
        BY <1>8, <1>10, <2>1, Account, Zenon
    <2>3. (x + y) + n = x + (y + n)
        OBVIOUS
    <2>4. QED
        BY <2>2, <2>3, Zenon
<1>12. QED
    BY <1>2, <1>8, <1>10, <1>11, Account, Zenon DEF AccountInv, AcceptedAreAccountedFor

(* delete and expire: the entries name as many conversations and rows as   *)
(* go.                                                                     *)
LEMMA PurgeAccounts ==
    ASSUME Countable, TalkInv, AccountInv, NEW cs \in SUBSET DOMAIN rooms, Purge(cs) PROVE AccountInv'
<1>1. /\ DOMAIN rooms' = DOMAIN rooms \ cs /\ bindings' = bindings
      /\ streams' = [c \in Conversations |-> IF c \in cs THEN << >> ELSE streams[c]]
      /\ audit' = [audit EXCEPT !.deleted = @ + Cardinality(cs), !.purged = @ + Cardinality(Rows(cs))]
    BY Zenon DEF Purge
<1>2. cs \subseteq Conversations
    BY Zenon DEF TalkInv
<1>3. Rows(Conversations)' = Rows(Conversations) \ Rows(cs) /\ Rows(cs) \subseteq Rows(Conversations)
    BY <1>1, <1>2 DEF Rows
<1>4. /\ IsFiniteSet(Rows(Conversations)') /\ Cardinality(Rows(Conversations)) \in Nat
      /\ Cardinality(Rows(Conversations)') \in Nat /\ Cardinality(Rows(cs)) \in Nat
      /\ Cardinality(Rows(Conversations)') = Cardinality(Rows(Conversations)) - Cardinality(Rows(cs))
    <2>1. PICK S, T : S = Rows(Conversations) /\ T = Rows(cs)
        BY Zenon
    <2>2. IsFiniteSet(S) /\ T \in SUBSET S /\ Rows(Conversations)' = S \ T
        BY <1>3, <2>1, Zenon DEF AccountInv
    <2>3. /\ IsFiniteSet(S \ T) /\ Cardinality(S) \in Nat /\ Cardinality(T) \in Nat
          /\ Cardinality(S \ T) \in Nat /\ Cardinality(S \ T) = Cardinality(S) - Cardinality(T)
        BY <2>2, RemovedRows, Zenon
    <2>4. QED
        BY <2>1, <2>2, <2>3, Zenon
<1>5. /\ IsFiniteSet(DOMAIN rooms') /\ Cardinality(DOMAIN rooms) \in Nat
      /\ Cardinality(DOMAIN rooms') \in Nat /\ Cardinality(cs) \in Nat
      /\ Cardinality(DOMAIN rooms') = Cardinality(DOMAIN rooms) - Cardinality(cs)
    <2>1. PICK S : S = DOMAIN rooms
        BY Zenon
    <2>2. IsFiniteSet(S) /\ cs \in SUBSET S /\ DOMAIN rooms' = S \ cs
        BY <1>1, <2>1, Zenon DEF AccountInv
    <2>3. /\ IsFiniteSet(S \ cs) /\ Cardinality(S) \in Nat /\ Cardinality(cs) \in Nat
          /\ Cardinality(S \ cs) \in Nat /\ Cardinality(S \ cs) = Cardinality(S) - Cardinality(cs)
        BY <2>2, RemovedRows, Zenon
    <2>4. QED
        BY <2>1, <2>2, <2>3, Zenon
<1>6. PICK m \in Nat, n \in Nat : m = Cardinality(cs) /\ n = Cardinality(Rows(cs))
    BY <1>4, <1>5, Zenon
<1>7. /\ audit'.deleted = audit.deleted + m /\ audit'.purged = audit.purged + n
      /\ audit'.accepted = audit.accepted /\ audit'.created = audit.created /\ audit'.bound = audit.bound
      /\ audit' \in AuditShape
    <2>1. audit \in AuditShape
        BY Zenon DEF AccountInv
    <2>2. audit' = [audit EXCEPT !.deleted = @ + m, !.purged = @ + n]
        BY <1>1, <1>6, Zenon
    <2>3. PICK one : one = [audit EXCEPT !.deleted = @ + m]
        BY Zenon
    <2>4. /\ one \in AuditShape /\ one.deleted = audit.deleted + m /\ one.purged = audit.purged
          /\ one.accepted = audit.accepted /\ one.created = audit.created /\ one.bound = audit.bound
        BY <2>1, <2>3 DEF AuditShape
    <2>5. audit' = [one EXCEPT !.purged = @ + n]
        BY <2>1, <2>2, <2>3, <2>4, Zenon DEF AuditShape
    <2>6. QED
        BY <2>4, <2>5 DEF AuditShape
<1>8. audit'.accepted = audit'.purged + Cardinality(Rows(Conversations)')
    <2>1. PICK x \in Nat, y \in Nat : x = audit.purged /\ y = Cardinality(Rows(Conversations))
        BY <1>4, Account, Zenon
    <2>2. audit'.accepted = x + y /\ audit'.purged = x + n /\ Cardinality(Rows(Conversations)') = y - n
        BY <1>4, <1>6, <1>7, <2>1, Account, Zenon
    <2>3. x + y = (x + n) + (y - n)
        OBVIOUS
    <2>4. QED
        BY <2>2, <2>3, Zenon
<1>9. audit'.created = Cardinality(DOMAIN rooms') + audit'.deleted
    <2>1. PICK x \in Nat, y \in Nat : x = Cardinality(DOMAIN rooms) /\ y = audit.deleted
        BY <1>5, Account, Zenon
    <2>2. audit'.created = x + y /\ Cardinality(DOMAIN rooms') = x - m /\ audit'.deleted = y + m
        BY <1>5, <1>6, <1>7, <2>1, Account, Zenon
    <2>3. x + y = (x - m) + (y + m)
        OBVIOUS
    <2>4. QED
        BY <2>2, <2>3, Zenon
<1>10. QED
    BY <1>1, <1>4, <1>5, <1>7, <1>8, <1>9, Account, Zenon DEF AccountInv, AcceptedAreAccountedFor

(* Every step of the cell keeps the account.                               *)
LEMMA AccountStep == Countable /\ TalkInv /\ AccountInv /\ [Next]_vars => AccountInv'
<1> SUFFICES ASSUME Countable, TalkInv, AccountInv, [Next]_vars PROVE AccountInv'
    BY Zenon
<1>1. CASE ProposalWork \/ WorkerStep \/ RecoveryStep \/ Membership \/ TimePasses \/ UNCHANGED vars
    BY <1>1, NothingToAccount, Zenon DEF ProposalWork, WorkerStep, RecoveryStep, Membership,
       TimePasses, vars, talkVars
<1>2. ASSUME NEW d \in Devices,
             \/ \E identity \in Identities : Provision(identity, d)
             \/ \E c \in Conversations :
                 \/ \E title \in Titles : Open(c, title, d)
                 \/ \E batch \in Batches : AppendBatch(c, d, batch)
      PROVE  AccountInv'
    BY <1>2, ProvisionAccounts, OpenAccounts, AppendAccounts, Zenon
<1>3. ASSUME NEW d \in Devices, NEW c \in Conversations, DeleteConversation(c, d) PROVE AccountInv'
    <2>1. {c} \in SUBSET DOMAIN rooms /\ Purge({c})
        BY <1>3, Zenon DEF DeleteConversation, MayUse
    <2>2. QED
        BY <2>1, PurgeAccounts, Zenon
<1>4. CASE Expire
    <2>1. Due \in SUBSET DOMAIN rooms /\ Purge(Due)
        BY <1>4, Zenon DEF Expire, Due
    <2>2. QED
        BY <2>1, PurgeAccounts, Zenon
<1>5. CASE Talk
    BY <1>2, <1>3, <1>4, <1>5, Zenon DEF Talk
<1>6. QED
    BY <1>1, <1>5, Zenon DEF Next

-----------------------------------------------------------------------------
(* A replan was applied only by an approval that spent the marker of its   *)
(* one round: the tools' lifecycle never resets a proposal.                *)
ReplanInv ==
    /\ \A m \in spent : m[1] # "reset-round"
    /\ applied \in [Proposals -> Nat]
    /\ \A p \in Proposals :
        /\ applied[p] <= 1
        /\ applied[p] = 1 =>
            /\ RoundMarker(p, 0) \in spent
            /\ \E f \in Proofs : f.proposal = p /\ ApproveMarker(f) \in spent

(* Every step keeps ReplanInv.                                               *)
LEMMA ReplanStep ==
  ASSUME Countable, ReplanInv, [ConversationNext]_conversationVars
  PROVE  ReplanInv'
<1>1. CASE UNCHANGED <<spent, applied>>
  BY <1>1, Zenon DEF ReplanInv
<1>2. ASSUME NEW p \in Proposals, NEW f \in Proofs, ApproveOnDevice(p, f)
      PROVE  ReplanInv'
  <2>1. CASE p \in approved
    BY <1>2, <2>1, <1>1, Zenon DEF ApproveOnDevice
  <2>2. CASE p \notin approved
    <3>1. ResetRounds(spent, p) = {}
      BY Zenon DEF ResetRounds, ReplanInv
    <3>2. Generation(spent, p) = 0
      BY <3>1, NoneCount, Zenon DEF Generation
    <3>3. /\ RoundMarker(p, 0) \notin spent /\ f.proposal = p
          /\ spent' = spent \cup {ApproveMarker(f), RoundMarker(p, 0), ApproveKeyMarker(f)}
          /\ applied' = applied \/ applied' = [applied EXCEPT ![p] = @ + 1]
      BY <1>2, <2>2, <3>2, Zenon DEF ApproveOnDevice, Unused, ApprovalKeys, ApproveKeys, ValidProof
    <3>4. \A m \in spent' : m[1] # "reset-round"
      BY <3>3 DEF ReplanInv, ApproveMarker, RoundMarker, ApproveKeyMarker
    <3>5. applied[p] = 0
      BY <3>3 DEF ReplanInv
    <3>6. applied' \in [Proposals -> Nat] /\ \A q \in Proposals : q # p => applied'[q] = applied[q]
      BY <3>3 DEF ReplanInv
    <3>7. applied'[p] \in {0, 1}
      BY <3>3, <3>5 DEF ReplanInv
    <3>8. /\ RoundMarker(p, 0) \in spent'
          /\ f.proposal = p /\ ApproveMarker(f) \in spent'
      BY <3>3, Zenon
    <3>9. \A q \in Proposals : applied'[q] <= 1
      BY <3>6, <3>7 DEF ReplanInv
    <3>10. ASSUME NEW q \in Proposals, applied'[q] = 1
           PROVE  /\ RoundMarker(q, 0) \in spent'
                  /\ \E g \in Proofs : g.proposal = q /\ ApproveMarker(g) \in spent'
      <4>1. CASE q = p
        BY <3>8, <4>1, Zenon
      <4>2. CASE q # p
        BY <3>3, <3>6, <3>10, <4>2, Zenon DEF ReplanInv
      <4> QED
        BY <4>1, <4>2, Zenon
    <3> QED
      BY <3>4, <3>6, <3>9, <3>10, Zenon DEF ReplanInv
  <2> QED
    BY <2>1, <2>2, Zenon
<1>3. ASSUME ~(\E p \in Proposals, f \in Proofs : ApproveOnDevice(p, f))
      PROVE  UNCHANGED <<spent, applied>>
  BY <1>3, Zenon DEF ConversationNext, Turn, TurnPartial, TurnFinal, TurnProgress, TurnInvoke,
     TurnSpeak, Interrupt,
     conversationVars, coordinatorVars
<1> QED
  BY <1>1, <1>2, <1>3, Zenon

-----------------------------------------------------------------------------
(* The facts on finite sets, and the results that rest on them.            *)

LOCAL INSTANCE FiniteSetTheorems

(* Rows that are added to others.                                          *)
LEMMA FiniteUnion ==
    ASSUME NEW S, NEW T, IsFiniteSet(S), IsFiniteSet(T), S \cap T = {}
    PROVE  /\ IsFiniteSet(S \cup T) /\ Cardinality(S) \in Nat /\ Cardinality(T) \in Nat
           /\ Cardinality(S \cup T) = Cardinality(S) + Cardinality(T)
<1>1. Cardinality(S \cap T) = 0
    BY FS_EmptySet, Zenon
<1>2. Cardinality(S) \in Nat /\ Cardinality(T) \in Nat
    BY FS_CardinalityType, Zenon
<1>3. IsFiniteSet(S \cup T) /\ Cardinality(S \cup T) = Cardinality(S) + Cardinality(T) - Cardinality(S \cap T)
    BY FS_Union, Zenon
<1>4. QED
    BY <1>1, <1>2, <1>3

(* Rows that are taken away.                                               *)
LEMMA FiniteDifference ==
    ASSUME NEW S, NEW T, T \in SUBSET S, IsFiniteSet(S)
    PROVE  /\ IsFiniteSet(T) /\ IsFiniteSet(S \ T) /\ Cardinality(S) \in Nat /\ Cardinality(T) \in Nat
           /\ Cardinality(S \ T) \in Nat /\ Cardinality(S \ T) = Cardinality(S) - Cardinality(T)
<1>1. S \cap T = T
    BY Zenon
<1>2. IsFiniteSet(T)
    BY FS_Subset, Zenon
<1>3. IsFiniteSet(S \ T) /\ Cardinality(S \ T) = Cardinality(S) - Cardinality(S \cap T)
    BY FS_Difference, Zenon
<1>4. QED
    BY <1>1, <1>2, <1>3, FS_CardinalityType, Zenon

(* As many rows as the stream grows by.                                    *)
LEMMA FiniteProduct ==
    \A c \in Conversations : \A a, b \in Nat :
        IsFiniteSet({c} \X ((a + 1) .. (a + b))) /\ Cardinality({c} \X ((a + 1) .. (a + b))) = b
<1> SUFFICES ASSUME NEW c \in Conversations, NEW a \in Nat, NEW b \in Nat
             PROVE  IsFiniteSet({c} \X ((a + 1) .. (a + b))) /\ Cardinality({c} \X ((a + 1) .. (a + b))) = b
    BY Zenon
<1>1. PICK lo \in Int, hi \in Int : lo = a + 1 /\ hi = a + b
    OBVIOUS
<1>2. PICK S : S = lo .. hi
    BY Zenon
<1>3. IsFiniteSet(S) /\ Cardinality(S) = IF lo > hi THEN 0 ELSE hi - lo + 1
    BY <1>2, FS_Interval, Zenon
<1>4. Cardinality(S) = b
    BY <1>1, <1>3
<1>5. IsFiniteSet({c}) /\ Cardinality({c}) = 1
    BY FS_Singleton, Zenon
<1>6. IsFiniteSet({c} \X S) /\ Cardinality({c} \X S) = Cardinality({c}) * Cardinality(S)
    BY <1>3, <1>5, FS_Product, Zenon
<1>7. QED
    BY <1>1, <1>2, <1>4, <1>5, <1>6, SMTT(30)

(* Finite and Count are also what FiniteSetTheorems speaks of.              *)
LEMMA InstancesSpelledOut == \A S : (Finite(S) <=> IsFiniteSet(S)) /\ Count(S) = Cardinality(S)
BY Zenon DEF Finite, Count, IsFiniteSet, Cardinality

(* What was assumed of finite sets is true of them.                         *)
LEMMA SetsCount == Countable
<1>1. Finite({}) /\ Count({}) = 0
    BY FS_EmptySet, InstancesSpelledOut, Zenon
<1>2. ASSUME NEW S, Finite(S) PROVE IsFiniteSet(S) /\ Count(S) \in Nat
    BY <1>2, FS_CardinalityType, InstancesSpelledOut, Zenon
<1>3. ASSUME NEW S, NEW x, Finite(S), x \notin S
      PROVE  Finite(S \cup {x}) /\ Count(S \cup {x}) = Count(S) + 1
    <2>1. IsFiniteSet(S)
        BY <1>2, <1>3, Zenon
    <2>2. IsFiniteSet(S \cup {x}) /\ Cardinality(S \cup {x}) = Cardinality(S) + 1
        BY <1>3, <2>1, FS_AddElement, Zenon
    <2>3. QED
        BY <2>2, InstancesSpelledOut, Zenon
<1>4. ASSUME NEW S, NEW T, Finite(S), Finite(T), S \cap T = {}
      PROVE  Finite(S \cup T) /\ Count(S \cup T) = Count(S) + Count(T)
    <2>1. IsFiniteSet(S) /\ IsFiniteSet(T)
        BY <1>2, <1>4, Zenon
    <2>2. IsFiniteSet(S \cup T) /\ Cardinality(S \cup T) = Cardinality(S) + Cardinality(T)
        BY <1>4, <2>1, FiniteUnion, Zenon
    <2>3. QED
        BY <2>2, InstancesSpelledOut, Zenon
<1>5. ASSUME NEW S, NEW T, T \in SUBSET S, Finite(S)
      PROVE  Finite(T) /\ Finite(S \ T) /\ Count(S \ T) = Count(S) - Count(T)
    <2>1. IsFiniteSet(S)
        BY <1>2, <1>5, Zenon
    <2>2. IsFiniteSet(T) /\ IsFiniteSet(S \ T) /\ Cardinality(S \ T) = Cardinality(S) - Cardinality(T)
        BY <1>5, <2>1, FiniteDifference, Zenon
    <2>3. QED
        BY <2>2, InstancesSpelledOut, Zenon
<1>6. ASSUME NEW c \in Conversations, NEW a \in Nat, NEW b \in Nat
      PROVE  Finite({c} \X ((a + 1) .. (a + b))) /\ Count({c} \X ((a + 1) .. (a + b))) = b
    BY FiniteProduct, InstancesSpelledOut, Zenon
<1>7. QED
    BY <1>1, <1>2, <1>3, <1>4, <1>5, <1>6, Zenon DEF Countable

(* However batches are retried, conversations deleted and devices bound,   *)
(* every event the chain says was accepted is stored or was counted when   *)
(* it was purged.                                                          *)
THEOREM AuditAccountsForEvents == Spec => []AcceptedAreAccountedFor
<1>1. AccountInv => AcceptedAreAccountedFor
    BY Zenon DEF AccountInv
<1>2. QED
    BY <1>1, TalkStart, TalkStep, AccountStart, AccountStep, SetsCount, PTL DEF Spec

(* However often and with however many proofs a replan is confirmed, and   *)
(* whatever fails in between, the backend applies it at most once, and     *)
(* never without a valid approval of it (approve_on_device, and the        *)
(* one-shot markers of authority_consumption.py).                          *)
THEOREM ReplanIsAppliedOnce == ConversationSpec => []ReplanAppliedOnce
<1>1. ConversationInit => ReplanInv
  BY DEF ConversationInit, ReplanInv
<1>2. ReplanInv /\ [ConversationNext]_conversationVars => ReplanInv'
  BY ReplanStep, SetsCount, Zenon
<1>3. ReplanInv => ReplanAppliedOnce
  BY Zenon DEF ReplanInv, ReplanAppliedOnce
<1> QED
  BY <1>1, <1>2, <1>3, PTL DEF ConversationSpec
=============================================================================
