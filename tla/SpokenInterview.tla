--------------------------- MODULE SpokenInterview ---------------------------
(* The two surfaces that use the phone's voice (NativeVoice): the interview  *)
(* screen (LifeInterviewView.swift over ConversationSession.loadInterview and*)
(* advanceInterview), one of the devices of LifeInterview, and the voice     *)
(* conversation of ConversationSession.swift.  A Task is a job of the main   *)
(* actor that runs later; at most one waits at a time (a bound), and at most *)
(* world.maxPosted callbacks and timers and world.maxStarts suspended starts.*)
EXTENDS LifeInterview, NativeVoice

VARIABLES
    phone,      \* the device that runs the interview screen, or None
    voice,      \* the NativeInterviewVoice of the surface
    job,        \* the Task that waits to run, or NoJob
    request,    \* what isBusy waits for, or NoJob
    noticed,    \* the revision onChange last saw
    active,     \* isSessionActive
    turns       \* agent turns in flight: TRUE the current one, FALSE those cancelled

spoken == <<phone, voice, job, request, noticed, active, turns>>

Job(action, about) == [action |-> action, about |-> about]
NoJob == Job(None, Nothing)

SpokenInit ==
    /\ Init
    /\ phone \in IF world.surface = "interview" THEN Devices ELSE {None}
    /\ voice = FreshVoice /\ job = NoJob /\ request = NoJob /\ noticed = 0
    /\ active = FALSE /\ turns = {}

OnScreen == world.surface = "interview"
InTalk == world.surface = "conversation"
Idle == request = NoJob
Asking == IF OnScreen THEN shown[phone].question.key ELSE None
Held == shown[phone].revision # 0

(* The voice takes one of the outcomes; an answer it hands over becomes a    *)
(* job, everything else leaves the jobs alone.                               *)
VoiceTakes(outcomes) ==
    \E w \in outcomes :
        /\ voice' = [w EXCEPT !.handed = Silence]
        /\ IF w.handed = Silence THEN UNCHANGED job
           ELSE job = NoJob /\ job' = Job(IF OnScreen THEN "answer" ELSE "send", w.handed[1])

-----------------------------------------------------------------------------
(* Callbacks and suspended starts, the same for both surfaces.               *)

Room == Cardinality(voice.calls) + Cardinality(voice.late) < world.maxPosted

Post ==
    /\ Room
    /\ \/ \E what \in Outcomes(voice) : voice' = CallPosted(voice, what)
       \/ \E p \in Posts(voice) : voice' = LatePosted(voice, p)
    /\ UNCHANGED <<phone, job, request, noticed, active, turns>>

RunPosted ==
    /\ \/ \E c \in voice.calls : VoiceTakes(RunCall(voice, c))
       \/ \E p \in voice.late : VoiceTakes(RunLate(voice, p))
    /\ UNCHANGED <<phone, request, noticed, active, turns>>

(* beginNativeVoice goes on when start returns.                              *)
StartReturned(w) ==
    IF InTalk /\ w.starts = {} THEN request' = NoJob /\ active' = (active /\ w.enabled)
    ELSE UNCHANGED <<request, active>>

ResumeStart ==
    /\ \E s \in voice.starts :
        \/ /\ s.at = "permission"
           /\ \E w \in Permitted(voice, s, world.studio, Asking) : voice' = w /\ StartReturned(w)
        \/ /\ s.at = "health"
           /\ \E reachable \in BOOLEAN : \E w \in HealthChecked(voice, s, reachable, Asking) :
                voice' = w /\ StartReturned(w)
    /\ UNCHANGED <<phone, job, noticed, turns>>

-----------------------------------------------------------------------------
(* The interview screen.                                                     *)

Load ==
    /\ OnScreen /\ Idle /\ request' = Job("load", Nothing)
    /\ UNCHANGED <<phone, voice, job, noticed, active, turns>>

Talk ==
    /\ OnScreen /\ Idle /\ Held
    /\ CASE voice.state = "listening" -> VoiceTakes(FinishAnswer(voice))
         [] voice.state = "speaking" -> VoiceTakes(InterruptAndListen(voice))
         [] OTHER -> /\ job = NoJob /\ Cardinality(voice.starts) < world.maxStarts
                     /\ job' = Job("talk", Nothing) /\ UNCHANGED voice
    /\ UNCHANGED <<phone, request, noticed, active, turns>>

(* Pause and Done, Skip, and Send: all but Send pause the voice first.       *)
Button(action) ==
    /\ OnScreen /\ job = NoJob /\ job' = Job(action, Nothing)
    /\ action \in {"skip", "answer"} => Idle /\ Asking # None
    /\ voice' = IF action = "answer" THEN voice ELSE PauseVoice(voice)
    /\ UNCHANGED <<phone, request, noticed, active, turns>>

(* The text field is tapped, the app leaves the foreground, the audio        *)
(* session is interrupted or the screen disappears.                          *)
Hush ==
    /\ OnScreen /\ voice' = PauseVoice(voice)
    /\ UNCHANGED <<phone, job, request, noticed, active, turns>>

(* onChange of the revision, at some later update of the view.               *)
Notice ==
    /\ OnScreen /\ noticed # shown[phone].revision /\ noticed' = shown[phone].revision
    /\ IF Asking = None THEN voice' = PauseVoice(voice) ELSE voice' \in Speak(voice, Asking)
    /\ UNCHANGED <<phone, job, request, active, turns>>

(* A turn that is not made, fails or is refused: only sendDraft reacts.      *)
TurnFailed(j) == voice' = IF j.action = "answer" THEN PauseVoice(voice) ELSE voice

RunJob ==
    /\ OnScreen /\ job # NoJob /\ job' = NoJob
    /\ IF job.action = "talk" /\ shown[phone].phase # "paused"
       THEN /\ voice' = IF Asking = None THEN voice ELSE Start(voice, Asking)
            /\ UNCHANGED request
       ELSE IF Idle /\ Held THEN request' = job /\ UNCHANGED voice
       ELSE TurnFailed(job) /\ UNCHANGED request
    /\ UNCHANGED <<phone, noticed, active, turns>>

(* The relay's answer to load.  A reply that is lost changes nothing here.   *)
Loaded ==
    /\ OnScreen /\ ~Idle /\ request.action = "load" /\ request' = NoJob
    /\ Begin(phone, None)
    /\ voice' = [voice EXCEPT !.outdated = @ \/ /\ shown'[phone].revision = shown[phone].revision
                                                /\ shown'[phone].question.key # Asking]
    /\ UNCHANGED <<phone, job, noticed, active, turns>>

Turned(action) ==
    CASE action = "answer" -> \E answer \in world.answers : Answer(phone, answer)
      [] action = "skip" -> SkipQuestion(phone)
      [] action = "pause" -> Pause(phone, "paused")
      [] action = "talk" -> Pause(phone, "active")

(* The turn is made; the reply arrives, or is lost and counts as a failure.  *)
TurnMade ==
    /\ OnScreen /\ ~Idle /\ request.action # "load" /\ request' = NoJob
    /\ Turned(request.action)
    /\ IF shown' = shown THEN TurnFailed(request)
       ELSE voice' = IF request.action = "talk" /\ shown'[phone].question # NoQuestion
                     THEN Start(voice, shown'[phone].question.key) ELSE voice
    /\ UNCHANGED <<phone, job, noticed, active, turns>>

RequestFailed ==
    /\ OnScreen /\ ~Idle /\ request' = NoJob /\ TurnFailed(request)
    /\ UNCHANGED <<phone, job, noticed, active, turns>>

-----------------------------------------------------------------------------
(* The voice conversation.                                                   *)

Thinking == TRUE \in turns
Cancelled == {FALSE : t \in turns}

StartTalk ==
    /\ InTalk /\ Idle /\ ~active /\ active' = TRUE
    /\ request' = Job("start", Nothing) /\ voice' = Start(voice, "")
    /\ UNCHANGED <<phone, job, noticed, turns>>

(* endVoiceSession, and deleteConversation, which waits for its turn.        *)
EndTalk ==
    /\ InTalk /\ active' = FALSE /\ turns' = Cancelled /\ voice' = PauseVoice(voice)
    /\ UNCHANGED <<phone, job, request, noticed>>

Interrupt ==
    /\ InTalk /\ active /\ turns' = Cancelled /\ voice' \in InterruptAndListen(voice)
    /\ UNCHANGED <<phone, job, request, noticed, active>>

TypeMessage ==
    /\ InTalk /\ ~active /\ Idle /\ ~Thinking /\ turns' = turns \cup {TRUE}
    /\ UNCHANGED <<phone, voice, job, request, noticed, active>>

(* sendAgentTurn of a spoken answer: dropped while another turn is underway. *)
SendSpoken ==
    /\ InTalk /\ job # NoJob /\ job' = NoJob /\ turns' = turns \cup {TRUE}
    /\ UNCHANGED <<phone, voice, request, noticed, active>>

Published(t, refused) == t \/ refused

(* publishAssistant speaks a reply of the current turn, and the relay's      *)
(* refusals (401, 403, 502, 503) whichever turn they answer.                 *)
TurnReturns ==
    /\ InTalk
    /\ \E t \in turns, refused \in BOOLEAN :
        /\ turns' = turns \ {t}
        /\ voice' \in IF Published(t, refused) /\ active THEN Speak(voice, "reply") ELSE {voice}
    /\ UNCHANGED <<phone, job, request, noticed, active>>

-----------------------------------------------------------------------------
VoiceStep ==
    \/ Post \/ RunPosted \/ ResumeStart
    \/ Load \/ Talk \/ Hush \/ Notice \/ RunJob \/ RequestFailed
    \/ \E action \in {"pause", "skip", "answer"} : Button(action)
    \/ StartTalk \/ EndTalk \/ Interrupt \/ TypeMessage \/ SendSpoken \/ TurnReturns

SpokenNext ==
    \/ VoiceStep /\ UNCHANGED vars
    \/ Loaded \/ TurnMade
    \/ ((\E d \in Devices \ {phone} : DeviceStep(d)) \/ Outside) /\ UNCHANGED spoken

SpokenSpec == SpokenInit /\ [][SpokenNext]_<<vars, spoken>>

-----------------------------------------------------------------------------
(* "An intentional stop therefore never restarts a follow-up action": while  *)
(* the conversation is off, the microphone is closed and no transport        *)
(* speaks, whatever callbacks, timers and requests were under way; and while *)
(* a transport speaks the microphone is closed, so that the phone never takes*)
(* its own words for the person's.  The exception is a start with nothing to *)
(* say that was paused, or overtaken by a reply, while it waited for the     *)
(* health check: it opens the microphone when it goes on.                    *)
PausedIsQuiet ==
    \/ /\ voice.mic => voice.enabled /\ voice.utter = Nothing
       /\ voice.utter # Nothing => voice.enabled
    \/ voice.resumed

(* The words handed to the interview answer the question on the screen: a    *)
(* result of an earlier capture is dropped when the question changes.  The   *)
(* screen may not have noticed the change yet, a start may have gone on with *)
(* a question that was replaced meanwhile, and a reload may have brought     *)
(* another question under the revision the screen had already noticed.       *)
AnswersItsQuestion ==
    [][/\ job = NoJob /\ job' # NoJob /\ job'.action = "answer" /\ job'.about # Nothing
       => job'.about = Asking \/ noticed # shown[phone].revision \/ voice.outdated]_<<vars, spoken>>

(* A voice that waits for the outcome of an answer has one coming: a job, a  *)
(* request, a turn or a change of the question still to be noticed.          *)
WaitsForSomething ==
    voice.state = "processing" =>
        job # NoJob \/ ~Idle \/ Thinking \/ (OnScreen /\ noticed # shown[phone].revision)

(* "Stop microphone and pending replies immediately, including during a      *)
(* network call": a conversation that was ended does not listen.             *)
EndedIsSilent == InTalk /\ ~active => ~voice.mic /\ voice.utter = Nothing

=============================================================================
