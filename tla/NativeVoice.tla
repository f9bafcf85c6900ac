----------------------------- MODULE NativeVoice -----------------------------
(* The phone's voice: NativeInterviewVoice.swift and the two transports it   *)
(* speaks through, NativeSpeechProvider (VoiceProvider.swift) and            *)
(* VoiceStudioProvider.swift.  Everything runs on the main actor, one job at *)
(* a time; the recogniser, the synthesizer, the audio player, the requests   *)
(* and the timers post jobs to it that may run late.  The generation, the    *)
(* utterance identity and the permission generation only ever serve to tell  *)
(* whether a job belongs to what is going on now: a job carries that as      *)
(* "live" (a start as "fresh"), and what advances a counter in the code makes*)
(* the posted jobs stale.  A call that can fail yields the set of outcomes.  *)
EXTENDS Integers, FiniteSets

Nothing == "nothing"
Silence == << >>          \* no words

FreshVoice ==
    [state |-> "idle",          \* idle, speaking, listening, processing, error
     enabled |-> FALSE,         \* conversationEnabled
     mic |-> FALSE,             \* the engine runs with its tap
     heard |-> Silence,         \* partial
     pending |-> Nothing,       \* pendingText
     resolved |-> FALSE,        \* providerResolved
     kind |-> "native",         \* the provider
     utter |-> Nothing,         \* what the provider is speaking (isSpeaking)
     playing |-> FALSE,         \* its audio has begun
     calls |-> {},              \* provider callbacks posted
     late |-> {},               \* recogniser results and timers posted
     starts |-> {},             \* suspended calls of start
     handed |-> Silence,        \* the answer a step hands to onAnswer
     about |-> Nothing,         \* ghost: the text last spoken
     outdated |-> FALSE,        \* ghost: a start spoke it after the question had changed,
                                \* or a reload changed the question and not the revision
     resumed |-> FALSE]         \* ghost: a start went on after a pause or over a reply

(* mutant: the jobs already posted still count as current.                   *)
StillCurrent(jobs) == jobs

Stale(jobs) == {[j EXCEPT !.live = FALSE] : j \in jobs}
Overtaken(starts) == {[s EXCEPT !.fresh = FALSE] : s \in starts}

(* stop: the identity is cleared before the audio is stopped.                *)
ProviderStop(v) ==
    [v EXCEPT !.utter = Nothing, !.playing = FALSE, !.calls = Stale(@), !.resumed = FALSE]

StopCapture(v) == [v EXCEPT !.mic = FALSE, !.late = Stale(@)]

(* mutant: the transport is not told to stop.                                *)
PauseKeepsSpeaking(v) ==
    LET off == [v EXCEPT !.enabled = FALSE, !.pending = Nothing, !.starts = Overtaken(@)]
    IN  [StopCapture(off) EXCEPT !.state = "idle"]

PauseVoice(v) ==
    LET off == [v EXCEPT !.enabled = FALSE, !.pending = Nothing, !.starts = Overtaken(@)]
    IN  [StopCapture(ProviderStop(off)) EXCEPT !.state = "idle"]

Fail(v) == [PauseVoice(v) EXCEPT !.state = "error"]

(* The recogniser, the audio session or the microphone may be unavailable.   *)
Listen(v) ==
    LET w == StopCapture(v)
    IN  {Fail(w), [w EXCEPT !.mic = TRUE, !.heard = Silence, !.state = "listening"]}

(* The transport's speak stops first, and fails without an audio session.    *)
ProviderSpeak(v, text) ==
    LET w == ProviderStop(v)
    IN  {Fail(w), [w EXCEPT !.utter = text, !.about = text, !.outdated = FALSE]}

Speak(v, text) ==
    IF v.enabled THEN ProviderSpeak([StopCapture(v) EXCEPT !.state = "speaking", !.pending = text], text)
    ELSE {v}

InterruptAndListen(v) ==
    IF v.enabled THEN Listen(ProviderStop([v EXCEPT !.pending = Nothing])) ELSE {v}

FinishAnswer(v) ==
    LET w == StopCapture(v)
    IN  IF v.heard # Silence THEN {[w EXCEPT !.state = "processing", !.handed = v.heard]}
        ELSE IF v.enabled THEN Listen(w) ELSE {[w EXCEPT !.state = "idle"]}

-----------------------------------------------------------------------------
(* start, which suspends for the permissions and, once, for the health check.*)

Start(v, question) ==
    [v EXCEPT !.starts = Overtaken(@) \cup {[at |-> "permission", question |-> question, fresh |-> TRUE]}]

(* The end of start; current is the question on the screen by now.           *)
GoOn(v, question, current) ==
    IF question = ""
    THEN {[w EXCEPT !.resumed = w.mic /\ (~v.enabled \/ v.utter # Nothing)] : w \in Listen(v)}
    ELSE {[w EXCEPT !.outdated = question # current] : w \in Speak(v, question)}

Permitted(v, s, configured, current) ==
    LET w == [v EXCEPT !.starts = @ \ {s}]
        on == [w EXCEPT !.enabled = TRUE, !.resolved = TRUE]
    IN  IF ~s.fresh THEN {w}
        ELSE {Fail(w)} \cup
             (IF ~v.resolved /\ configured
              THEN {[on EXCEPT !.starts = @ \cup {[s EXCEPT !.at = "health"]}]}
              ELSE GoOn(on, s.question, current))

(* The old provider loses its delegate and is released.                      *)
Swapped(v, kind) == [v EXCEPT !.kind = kind, !.utter = Nothing, !.playing = FALSE, !.calls = Stale(@)]

HealthChecked(v, s, reachable, current) ==
    LET w == [v EXCEPT !.starts = @ \ {s}]
    IN  GoOn(IF reachable THEN Swapped(w, "studio") ELSE w, s.question, current)

-----------------------------------------------------------------------------
(* Jobs posted by the transports.                                            *)

Ends == {"finished", "cancelled", "fetched", "unavailable", "unplayable"}
EndPosted(v) == \E c \in v.calls : c.live /\ c.what \in Ends

Outcomes(v) ==
    IF v.utter = Nothing \/ EndPosted(v) THEN {}
    ELSE IF v.kind = "native" THEN {"finished", "cancelled"} \cup (IF v.playing THEN {} ELSE {"started"})
    ELSE IF v.playing THEN {"finished"}
    ELSE {"fetched", "unavailable", "unplayable"}

CallPosted(v, what) == [v EXCEPT !.calls = @ \cup {[what |-> what, live |-> TRUE]}]

Silent(v) == [v EXCEPT !.utter = Nothing, !.playing = FALSE, !.calls = Stale(@), !.pending = Nothing]

(* fallbackToNative speaks the text again.                                   *)
FallbackToNative(v) ==
    LET w == [Swapped(v, "native") EXCEPT !.pending = Nothing]
    IN  IF ~v.enabled THEN {w}
        ELSE IF v.pending = Nothing THEN {Fail(w)}
        ELSE {[x EXCEPT !.outdated = v.outdated] : x \in Speak(w, v.pending)}

Called(v, what) ==
    CASE what \in {"started", "fetched"} -> {[v EXCEPT !.state = "speaking", !.playing = TRUE]}
      [] what = "finished" -> IF v.enabled THEN Listen(Silent(v)) ELSE {Silent(v)}
      [] what = "cancelled" -> {Silent(v)}
      [] what = "unavailable" -> FallbackToNative(v)
      [] what = "unplayable" -> {Fail(v)}

RunCall(v, c) ==
    LET w == [v EXCEPT !.calls = @ \ {c}]
    IN  IF c.live THEN Called(w, c.what) ELSE {w}

(* Jobs posted by the recogniser and the two timers: the words answer what   *)
(* was last spoken.                                                          *)
Posts(v) ==
    LET Post(what, text) == [what |-> what, text |-> text, live |-> TRUE]
        words == <<v.about>>
    IN  IF ~v.mic THEN {}
        ELSE {Post("partial", words), Post("final", words), Post("final", Silence),
              Post("failed", Silence), Post("rollover", Silence)}
             \cup (IF v.heard # Silence THEN {Post("endpoint", Silence)} ELSE {})

LatePosted(v, p) == [v EXCEPT !.late = @ \cup {p}]

RunLate(v, p) ==
    LET w == [v EXCEPT !.late = @ \ {p}]
        acts == p.live /\ IF p.what = "endpoint" THEN v.state = "listening" ELSE v.enabled
    IN  CASE ~acts -> {w}
          [] acts /\ p.what = "partial" -> {[w EXCEPT !.heard = p.text]}
          [] acts /\ p.what = "final" -> FinishAnswer([w EXCEPT !.heard = p.text])
          [] acts /\ p.what = "failed" -> {Fail(w)}
          [] acts /\ p.what \in {"rollover", "endpoint"} -> FinishAnswer(w)

=============================================================================
