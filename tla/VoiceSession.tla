---------------------------- MODULE VoiceSession -----------------------------
(***************************************************************************)
(* The realtime voice relay of one conversation: VoiceSessionService       *)
(* (voice/session.py), its emitter and per-session state (state.py), the   *)
(* session tokens (tokens.py), the final-transcript journal (journal.py)   *)
(* and the privacy gate in front of the provider (provider.py, privacy.py).*)
(* Every call is one action; a call that raises without having changed     *)
(* anything is a stuttering step and is not written down.                  *)
(*                                                                         *)
(* All sessions of the service feed the one ConversationJournal of the     *)
(* conversation.  A clock unit is one reconnect window; audio and queued   *)
(* speech are abstracted to the turn they belong to.                       *)
(***************************************************************************)
EXTENDS ConversationJournal, Authority, Sequences

CONSTANTS
    Turns,          \* turn ids the devices may choose
    Texts,          \* final texts a recogniser may produce
    NoText,
    Ttl,            \* SESSION_TOKEN_TTL
    Window,         \* RECONNECT_WINDOW
    Retention,      \* TRANSCRIPT_RETENTION
    VerifiedUntil,  \* RetentionVerification.valid_until
    Scenarios       \* bounds and the calls that happen; one is chosen initially

(* A scenario names the devices, turns and texts in use, the largest       *)
(* clock value, the numbers of sessions, of issued tokens and of events,   *)
(* and the optional kinds of calls.                                        *)
Scenario(devices, turns, texts, time, starts, issues, events, calls) ==
    [ devices |-> devices, turns |-> turns, texts |-> texts, time |-> time,
      starts |-> starts, issues |-> issues, events |-> events, calls |-> calls ]

(* A scenario stays within the constants, and time and spans are numbers.  *)
ASSUME ScenariosAssumption ==
    /\ {Ttl, Window, Retention, VerifiedUntil} \subseteq Nat
    /\ \A s \in Scenarios :
        /\ s.devices \subseteq Devices /\ s.turns \subseteq Turns /\ s.texts \subseteq Texts
        /\ {s.time, s.starts, s.issues, s.events} \subseteq Nat

VARIABLES
    scenario,
    clock,
    enrolled,       \* devices that verify_mtls_identity accepts
    consent,        \* the surface's ConsentRecord
    sessions,       \* _sessions, in the order of their start
    tokens,         \* SessionTokenManager._records
    issued,         \* the number of tokens handed out
    journal,        \* the canonical Conversation journal
    nextEvent,      \* ConversationVoiceEmitter._next_event_id
    nextSequence,   \* ConversationVoiceEmitter._next_conversation_sequence
    transcripts,    \* voice_transcripts, by turn id
    purged,         \* turns whose transcript reached its retention deadline
    provider        \* sessions that are open at the realtime provider

voiceVars == << scenario, clock, enrolled, consent, sessions, tokens, issued, journal, nextEvent,
                nextSequence, transcripts, purged, provider >>

SessionIds == 1..Len(sessions)

VoiceKinds == Transcript \cup {"cancellation", "action_progress"}

NoTranscript == [session |-> 0, text |-> NoText, until |-> 0]

NewSession(d, handle) ==
    [ device |-> d, handle |-> handle, away |-> {}, ended |-> FALSE, frame |-> 0,
      tts |-> {}, progress |-> {}, events |-> <<>>, partial |-> {}, cancelled |-> {},
      finals |-> [t \in Turns |-> NoText] ]

VoiceInit ==
    /\ scenario \in Scenarios
    /\ clock = 0
    /\ enrolled = scenario.devices
    /\ consent = "granted"
    /\ sessions = <<>>
    /\ tokens = <<>>
    /\ issued = 0
    /\ journal = NewJournal
    /\ nextEvent = 1
    /\ nextSequence = 1
    /\ transcripts = [t \in Turns |-> NoTranscript]
    /\ purged = {}
    /\ provider = {}

-----------------------------------------------------------------------------
(* Tokens.  verify_for_resume ignores the expiry, verify does not, and     *)
(* _active_session also wants a connected session.                         *)

Known(k) == k \in DOMAIN tokens

Live(k) == Known(k) /\ tokens[k].expires > clock

Active(k) ==
    /\ Live(k)
    /\ ~sessions[tokens[k].session].ended
    /\ sessions[tokens[k].session].away = {}

Issue(others, s) ==
    /\ tokens' = [k \in others \cup {issued + 1} |->
                    IF k \in others THEN tokens[k]
                    ELSE [session |-> s, expires |-> clock + Ttl]]
    /\ issued' = issued + 1

(* The reconnect window of a disconnected session has passed.              *)
WindowOver(s) == \E t \in sessions[s].away : t + Window < clock

WindowOpen(s) == \E t \in sessions[s].away : t + Window >= clock

-----------------------------------------------------------------------------
(* The emitter.                                                            *)

Numbered(kind, t, x) == [id |-> nextEvent, kind |-> kind, turn |-> t, text |-> x]

Canonical(s, kind, t) ==
    [ id |-> nextEvent, conversation |-> Home, participant |-> Owner[sessions[s].device],
      device |-> sessions[s].device, seq |-> nextSequence, kind |-> kind, tag |-> kind,
      turn |-> t, from |-> NoTurn ]

Accepted(s, kind, t) == Rejection(journal, "active", Canonical(s, kind, t)) = NoRejection

(* A refused event is popped and its number is taken back.                 *)
NumberAfterRefusal(n) == n

(* _voice and _canonical: the event is numbered, kept for replay and       *)
(* offered to the journal.  `before` is the session the caller leaves when *)
(* the journal refuses, `after` the one it leaves when the event is taken. *)
Emit(s, kind, t, x, before, after) ==
    IF Accepted(s, kind, t)
    THEN /\ sessions' = [sessions EXCEPT ![s] =
                            [after EXCEPT !.events = Append(@, Numbered(kind, t, x))]]
         /\ journal' = Accept(journal, "active", Canonical(s, kind, t))
         /\ nextEvent' = nextEvent + 1
         /\ nextSequence' = nextSequence + 1
    ELSE /\ sessions' = [sessions EXCEPT ![s] = before]
         /\ nextEvent' = NumberAfterRefusal(nextEvent)
         /\ UNCHANGED <<journal, nextSequence>>

Hushed(S) == [S EXCEPT !.tts = {}, !.progress = {}]

-----------------------------------------------------------------------------
(* The session's operations.                                               *)

(* _expire_disconnected_sessions                                           *)
ClosedExpired(over) == provider \ over

ExpiredSession(s) == [Hushed(sessions[s]) EXCEPT !.ended = TRUE]

AfterExpiry ==
    [s \in SessionIds |-> IF WindowOver(s) THEN ExpiredSession(s) ELSE sessions[s]]

Occupied(d) == \E s \in SessionIds : AfterExpiry[s].device = d /\ ~AfterExpiry[s].ended

(* consent.is_granted and retention.authorizes                             *)
ProviderAuthorized == consent = "granted" /\ clock < VerifiedUntil

(* start_provider_session: an authorized start may find the provider down. *)
Handles ==
    IF ~ProviderAuthorized THEN {FALSE}
    ELSE IF "outage" \in scenario.calls THEN BOOLEAN ELSE {TRUE}

(* start: what has expired is ended first, also when the start is refused. *)
Start(d) ==
    /\ d \in enrolled
    /\ Len(sessions) < scenario.starts
    /\ LET closed == ClosedExpired({s \in SessionIds : WindowOver(s)})
           new    == Len(sessions) + 1
       IN  IF Occupied(d)
           THEN /\ sessions' = AfterExpiry
                /\ provider' = closed
                /\ UNCHANGED <<tokens, issued>>
           ELSE \E handle \in Handles :
                    /\ sessions' = Append(AfterExpiry, NewSession(d, handle))
                    /\ provider' = IF handle THEN closed \cup {new} ELSE closed
                    /\ Issue(DOMAIN tokens, new)
    /\ UNCHANGED <<scenario, clock, enrolled, consent, journal, nextEvent, nextSequence, transcripts, purged>>

(* append_audio: frame numbers rise; a frame is forwarded, never kept.     *)
AppendAudio(k, n) ==
    /\ Active(k)
    /\ n > sessions[tokens[k].session].frame
    /\ sessions' = [sessions EXCEPT ![tokens[k].session].frame = n]
    /\ UNCHANGED << scenario, clock, enrolled, consent, tokens, issued, journal, nextEvent, nextSequence,
                    transcripts, purged, provider >>

AcceptPartial(k, t) ==
    /\ Active(k)
    /\ nextEvent <= scenario.events
    /\ LET s == tokens[k].session
           S == sessions[s]
       IN  /\ t \notin S.cancelled
           /\ S.finals[t] = NoText
           /\ Emit(s, "transcript_partial", t, NoText, S, [S EXCEPT !.partial = @ \cup {t}])
    /\ UNCHANGED <<scenario, clock, enrolled, consent, tokens, issued, transcripts, purged, provider>>

(* append_final: one transcript per turn, and a different one is refused.  *)
FinalStorable(t, x) == transcripts[t] = NoTranscript \/ transcripts[t].text = x

(* The canonical final is emitted before the transcript is stored: a       *)
(* conflict raises in between.  A final of a finished turn changes nothing.*)
Finalize(k, t, x) ==
    /\ Active(k)
    /\ nextEvent <= scenario.events
    /\ LET s     == tokens[k].session
           S     == sessions[s]
           taken == Accepted(s, "transcript_final", t)
           after == IF FinalStorable(t, x)
                    THEN [S EXCEPT !.finals[t] = x, !.partial = @ \ {t}, !.tts = {}]
                    ELSE S
       IN  /\ S.finals[t] = NoText
           /\ t \in S.partial
           /\ Emit(s, "transcript_final", t, x, S, after)
           /\ transcripts' =
                IF taken /\ transcripts[t] = NoTranscript
                THEN [transcripts EXCEPT ![t] =
                        [session |-> s, text |-> x, until |-> clock + Retention]]
                ELSE transcripts
    /\ UNCHANGED <<scenario, clock, enrolled, consent, tokens, issued, purged, provider>>

(* mutant: queued speech is not held back by a cancellation                *)
Speakable(S, t) == TRUE

Uncancelled(S, t) == t \notin S.cancelled

QueueTts(k, t) ==
    /\ Active(k)
    /\ LET s == tokens[k].session
       IN  sessions' = [sessions EXCEPT ![s].tts =
                            IF Uncancelled(sessions[s], t) THEN @ \cup {t} ELSE @]
    /\ UNCHANGED << scenario, clock, enrolled, consent, tokens, issued, journal, nextEvent, nextSequence,
                    transcripts, purged, provider >>

(* queue_action_progress: numbered for replay, not part of the journal.    *)
QueueActionProgress(k, t) ==
    /\ Active(k)
    /\ nextEvent <= scenario.events
    /\ LET s == tokens[k].session
           S == sessions[s]
       IN  /\ Uncancelled(S, t)
           /\ sessions' = [sessions EXCEPT ![s] =
                [S EXCEPT !.progress = @ \cup {t},
                          !.events = Append(@, Numbered("action_progress", t, NoText))]]
    /\ nextEvent' = nextEvent + 1
    /\ UNCHANGED << scenario, clock, enrolled, consent, tokens, issued, journal, nextSequence,
                    transcripts, purged, provider >>

(* barge_in: the queues are cleared before the cancellation is emitted.    *)
BargeIn(k, t) ==
    /\ Active(k)
    /\ nextEvent <= scenario.events
    /\ LET s == tokens[k].session
           S == [Hushed(sessions[s]) EXCEPT !.cancelled = @ \cup {t}, !.partial = @ \ {t}]
       IN  Emit(s, "cancellation", t, NoText, S, S)
    /\ UNCHANGED <<scenario, clock, enrolled, consent, tokens, issued, transcripts, purged, provider>>

Disconnect(k) ==
    /\ Active(k)
    /\ sessions' = [sessions EXCEPT ![tokens[k].session].away = {clock}]
    /\ UNCHANGED << scenario, clock, enrolled, consent, tokens, issued, journal, nextEvent, nextSequence,
                    transcripts, purged, provider >>

(* resume: the expiry of the old token does not matter, the window does.   *)
CanResume(k) ==
    /\ Known(k)
    /\ sessions[tokens[k].session].device \in enrolled
    /\ WindowOpen(tokens[k].session)

Resume(k) ==
    /\ CanResume(k)
    /\ issued < scenario.issues
    /\ Issue(DOMAIN tokens \ {k}, tokens[k].session)
    /\ sessions' = [sessions EXCEPT ![tokens[k].session].away = {}]
    /\ UNCHANGED << scenario, clock, enrolled, consent, journal, nextEvent, nextSequence, transcripts,
                    purged, provider >>

Invalidated(k) == [j \in DOMAIN tokens \ {k} |-> tokens[j]]

(* end: also possible for a disconnected session.                          *)
End(k) ==
    /\ Live(k)
    /\ LET s == tokens[k].session
       IN  /\ sessions' = [sessions EXCEPT ![s] = [Hushed(@) EXCEPT !.ended = TRUE]]
           /\ provider' = provider \ {s}
    /\ tokens' = Invalidated(k)
    /\ UNCHANGED << scenario, clock, enrolled, consent, issued, journal, nextEvent, nextSequence,
                    transcripts, purged >>

(* purge_expired                                                           *)
PurgeExpired ==
    LET due == {t \in Turns : transcripts[t] # NoTranscript /\ transcripts[t].until <= clock}
    IN  /\ due # {}
        /\ transcripts' = [t \in Turns |-> IF t \in due THEN NoTranscript ELSE transcripts[t]]
        /\ purged' = purged \cup due
        /\ UNCHANGED << scenario, clock, enrolled, consent, sessions, tokens, issued, journal, nextEvent,
                        nextSequence, provider >>

Withdraw ==
    /\ consent = "granted"
    /\ consent' = "withdrawn"
    /\ UNCHANGED << scenario, clock, enrolled, sessions, tokens, issued, journal, nextEvent, nextSequence,
                    transcripts, purged, provider >>

Grant ==
    /\ consent = "withdrawn"
    /\ consent' = "granted"
    /\ UNCHANGED << scenario, clock, enrolled, sessions, tokens, issued, journal, nextEvent, nextSequence,
                    transcripts, purged, provider >>

RevokeDevice(d) ==
    /\ d \in enrolled
    /\ enrolled' = enrolled \ {d}
    /\ UNCHANGED << scenario, clock, consent, sessions, tokens, issued, journal, nextEvent, nextSequence,
                    transcripts, purged, provider >>

ClockTicks ==
    /\ clock < scenario.time
    /\ clock' = clock + 1
    /\ UNCHANGED << scenario, enrolled, consent, sessions, tokens, issued, journal, nextEvent,
                    nextSequence, transcripts, purged, provider >>

-----------------------------------------------------------------------------
(* What the service promises.                                              *)

SessionType ==
    [ device : Devices, handle : BOOLEAN, away : SUBSET (0..scenario.time), ended : BOOLEAN,
      frame : 0..1, tts : SUBSET Turns, progress : SUBSET Turns,
      events : Seq([id : Nat, kind : VoiceKinds, turn : Turns, text : Texts \cup {NoText}]),
      partial : SUBSET Turns, cancelled : SUBSET Turns, finals : [Turns -> Texts \cup {NoText}] ]

(* Every variable of the voice service keeps its type: at most one moment  *)
(* of disconnection per session, and every token names a session.          *)
VoiceTypeOK ==
    /\ scenario \in Scenarios
    /\ clock \in 0..scenario.time
    /\ enrolled \subseteq Devices
    /\ consent \in {"granted", "withdrawn"}
    /\ \A s \in SessionIds : sessions[s] \in SessionType /\ Cardinality(sessions[s].away) <= 1
    /\ DOMAIN tokens \subseteq 1..issued
    /\ \A k \in DOMAIN tokens : tokens[k].session \in SessionIds /\ tokens[k].expires <= clock + Ttl
    /\ purged \subseteq Turns
    /\ \A t \in Turns : transcripts[t].session \in 0..Len(sessions)

EventsOf(s) == {sessions[s].events[i] : i \in DOMAIN sessions[s].events}

AllEvents == UNION {EventsOf(s) : s \in SessionIds}

(* The replay lists of all sessions together hold every number below the   *)
(* next one exactly once, and the canonical events among them are exactly  *)
(* what the conversation's journal accepted: a reconnecting device misses  *)
(* nothing and is replayed nothing the journal refused.                    *)
EventsMatchJournal ==
    /\ {e.id : e \in AllEvents} = 1..(nextEvent - 1)
    /\ Cardinality(AllEvents) = nextEvent - 1
    /\ \A s \in SessionIds : Cardinality(EventsOf(s)) = Len(sessions[s].events)
    /\ {e.id : e \in {f \in AllEvents : f.kind # "action_progress"}} = journal.seen
    /\ nextSequence = journal.next

(* Once a turn was cancelled by a barge-in, nothing of it is queued for    *)
(* speech or progress again.                                               *)
CancelledIsSilent ==
    \A s \in SessionIds : (sessions[s].tts \cup sessions[s].progress) \cap sessions[s].cancelled = {}

(* A session is open at the provider exactly while it has not ended: no    *)
(* ended or expired session keeps listening.                               *)
ProviderFollowsSession == provider = {s \in SessionIds : sessions[s].handle /\ ~sessions[s].ended}

(* A session that blocks its device's next start can be used or resumed,   *)
(* or the next start ends it; the one exception is a session that was      *)
(* connected when its token expired, which nothing can end or resume.      *)
LockOutExplained ==
    \A s \in SessionIds :
        ~sessions[s].ended /\ sessions[s].device \in enrolled =>
            \/ WindowOver(s)
            \/ \E k \in DOMAIN tokens :
                /\ tokens[k].session = s
                /\ Active(k) \/ CanResume(k) \/ (sessions[s].away = {} /\ ~Live(k))

==============================================================================
