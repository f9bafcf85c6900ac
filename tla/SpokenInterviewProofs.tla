------------------------ MODULE SpokenInterviewProofs ------------------------
(* Proofs about the life interview and the phone's voice, for any devices,   *)
(* worlds and bounds.                                                        *)
EXTENDS SpokenInterview, WellFoundedInduction, TLAPS

-----------------------------------------------------------------------------
(* The voice by itself.                                                      *)

VoiceFields ==
    {"state", "enabled", "mic", "heard", "pending", "resolved", "kind", "utter", "playing", "calls",
     "late", "starts", "handed", "about", "outdated", "resumed"}

(* The fields of a voice, of its posted jobs and of its suspended starts.    *)
Voice(v) ==
    /\ DOMAIN v = VoiceFields
    /\ v.enabled \in BOOLEAN /\ v.mic \in BOOLEAN /\ v.outdated \in BOOLEAN /\ v.resumed \in BOOLEAN
    /\ \A c \in v.calls : DOMAIN c = {"what", "live"} /\ c.what \in Ends \cup {"started"}
    /\ \A p \in v.late : /\ DOMAIN p = {"what", "text", "live"}
                         /\ p.what \in {"partial", "final", "failed", "rollover", "endpoint"}
    /\ \A s \in v.starts : DOMAIN s = {"at", "question", "fresh"}

Quiet(v) ==
    \/ /\ v.mic => v.enabled /\ v.utter = Nothing
       /\ v.utter # Nothing => v.enabled
    \/ v.resumed

(* A callback still counts only while its utterance is being spoken, and     *)
(* the text that would be spoken again is the one last spoken.               *)
Posted(v) ==
    /\ v.pending \in {Nothing, v.about}
    /\ \A c \in v.calls : c.live => v.utter # Nothing

(* Results and timers still count only while the microphone is open, and     *)
(* what it hears then are answers to what was last spoken.                   *)
VoiceInv(v) ==
    /\ Voice(v) /\ Posted(v)
    /\ v.state = "listening" => v.mic
    /\ \A p \in v.late : p.live => v.mic /\ p.text \in {Silence, <<v.about>>}
    /\ v.mic => v.heard \in {Silence, <<v.about>>}
    /\ Quiet(v)

(* After a step: the answer it hands over, if any, is to what was spoken.    *)
Hands(v, w) == w.handed = v.handed \/ (v.mic /\ w.handed = <<v.about>>)

(* The interview screen never listens without a question, and what it says   *)
(* or listens for is question a, unless that was replaced unnoticed.         *)
Screened(v) ==
    /\ ~v.resumed /\ (v.state = "speaking" => v.enabled)
    /\ \A s \in v.starts : s.question # ""

Engaged(v) == v.mic \/ v.utter # Nothing \/ v.state = "speaking"

Faces(v, a) == Engaged(v) => v.about = a \/ v.outdated

Follows(v, w) == Screened(v) => Screened(w) /\ \A a : Faces(v, a) => Faces(w, a)

(* A stale job is not live, and stays a job.                                 *)
LEMMA StaleJobs ==
  ASSUME NEW v, Voice(v)
  PROVE  /\ \A p \in Stale(v.late) :
               /\ DOMAIN p = {"what", "text", "live"} /\ ~p.live
               /\ p.what \in {"partial", "final", "failed", "rollover", "endpoint"}
         /\ \A c \in Stale(v.calls) :
               /\ DOMAIN c = {"what", "live"} /\ ~c.live
               /\ c.what \in Ends \cup {"started"}
  BY DEF Voice, Stale

(* An overtaken start keeps its question.                                    *)
LEMMA OvertakenStarts ==
  ASSUME NEW v, Voice(v)
  PROVE  \A s \in Overtaken(v.starts) : /\ DOMAIN s = {"at", "question", "fresh"}
                                        /\ \E t \in v.starts : s.question = t.question
  BY Zenon DEF Voice, Overtaken

(* stopCapture closes the microphone and makes its callbacks stale.          *)
LEMMA StopCaptureStops ==
  ASSUME NEW v, Voice(v)
  PROVE  /\ Voice(StopCapture(v)) /\ ~StopCapture(v).mic
         /\ \A p \in StopCapture(v).late : ~p.live
         /\ Quiet(v) => Quiet(StopCapture(v))
  BY StaleJobs, Zenon DEF Voice, StopCapture, VoiceFields, Quiet

(* Stopping the transport ends the utterance and makes its callbacks stale.  *)
LEMMA ProviderStopStops ==
  ASSUME NEW v, Voice(v)
  PROVE  /\ Voice(ProviderStop(v)) /\ ProviderStop(v).utter = Nothing
  BY StaleJobs, Zenon DEF Voice, ProviderStop, VoiceFields

(* What a pause and a failure leave.                                         *)
Off(v, w) ==
    /\ Voice(w) /\ ~w.mic /\ w.utter = Nothing /\ w.state \in {"idle", "error"} /\ ~w.resumed
    /\ w.pending = Nothing
    /\ \A p \in w.late : ~p.live
    /\ \A c \in w.calls : ~c.live
    /\ \A s \in w.starts : \E t \in v.starts : s.question = t.question
    /\ w.handed = v.handed /\ w.about = v.about

(* pause turns the voice off.                                                *)
LEMMA PauseKeeps ==
  ASSUME NEW v, Voice(v)
  PROVE  Off(v, PauseVoice(v)) /\ Off(v, Fail(v))
<1> DEFINE off == [v EXCEPT !.enabled = FALSE, !.pending = Nothing, !.starts = Overtaken(@)]
           stop == ProviderStop(off)
           end == StopCapture(stop)
<1>1. /\ Voice(off) /\ off.handed = v.handed /\ off.about = v.about /\ off.starts = Overtaken(v.starts)
      /\ off.pending = Nothing
  BY OvertakenStarts, Zenon DEF Voice, VoiceFields
<1> HIDE DEF off
<1>2. /\ Voice(stop) /\ stop.utter = Nothing /\ ~stop.resumed /\ stop.pending = Nothing
      /\ \A c \in stop.calls : ~c.live
      /\ stop.handed = v.handed /\ stop.about = v.about /\ stop.starts = Overtaken(v.starts)
  BY <1>1, ProviderStopStops, StaleJobs DEF Voice, ProviderStop, VoiceFields
<1> HIDE DEF stop
<1>3. /\ Voice(end) /\ ~end.mic /\ end.utter = Nothing /\ ~end.resumed /\ end.pending = Nothing
      /\ \A c \in end.calls : ~c.live
      /\ end.handed = v.handed /\ end.about = v.about /\ end.starts = Overtaken(v.starts)
      /\ \A p \in end.late : ~p.live
  BY <1>2, StopCaptureStops, Zenon DEF Voice, StopCapture, VoiceFields
<1>4. PauseVoice(v) = [end EXCEPT !.state = "idle"]
  BY Zenon DEF PauseVoice, end, stop, off
<1>5. Fail(v) = [PauseVoice(v) EXCEPT !.state = "error"]
  BY Zenon DEF Fail
<1> HIDE DEF end
<1>6. Off(v, PauseVoice(v))
  BY <1>3, <1>4, OvertakenStarts DEF Off, Voice, VoiceFields
<1>7. Off(v, Fail(v))
  BY <1>5, <1>6 DEF Off, Voice, VoiceFields
<1> QED
  BY <1>6, <1>7, Zenon

(* A voice that was turned off is as VoiceInv describes it, and engaged in   *)
(* nothing.                                                                  *)
LEMMA OffKeeps ==
  ASSUME NEW v, NEW w, Off(v, w)
  PROVE  VoiceInv(w) /\ Follows(v, w)
<1>1. VoiceInv(w)
  BY Zenon DEF Off, VoiceInv, Posted, Quiet
<1>2. Follows(v, w)
  BY Zenon DEF Off, Follows, Screened, Faces, Engaged
<1> QED
  BY <1>1, <1>2, Zenon

(* What opening the microphone leaves.                                       *)
Open(v, w) ==
    /\ Voice(w) /\ w.mic /\ w.state = "listening" /\ w.heard = Silence
    /\ \A p \in w.late : ~p.live
    /\ w.handed = v.handed /\ w.about = v.about /\ w.starts = v.starts
    /\ w.enabled = v.enabled /\ w.utter = v.utter /\ w.resumed = v.resumed /\ w.outdated = v.outdated
    /\ w.calls = v.calls /\ w.pending = v.pending

(* listen opens the microphone, or fails and turns the voice off.            *)
LEMMA ListenIs ==
  ASSUME NEW v, Voice(v)
  PROVE  \A w \in Listen(v) : Off(v, w) \/ Open(v, w)
<1> DEFINE c == StopCapture(v)
           o == [c EXCEPT !.mic = TRUE, !.heard = Silence, !.state = "listening"]
<1>1. /\ Voice(c) /\ \A p \in c.late : ~p.live
      /\ c.handed = v.handed /\ c.about = v.about /\ c.starts = v.starts
      /\ c.enabled = v.enabled /\ c.utter = v.utter /\ c.resumed = v.resumed /\ c.outdated = v.outdated
      /\ c.calls = v.calls /\ c.pending = v.pending
  BY StopCaptureStops, Zenon DEF Voice, StopCapture, VoiceFields
<1>2. Listen(v) = {Fail(c), o}
  BY Zenon DEF Listen
<1> HIDE DEF c
<1>3. Open(v, o)
  BY <1>1, Zenon DEF Open, Voice, VoiceFields
<1>4. Off(c, Fail(c))
  BY <1>1, PauseKeeps, Zenon
<1>5. Off(v, Fail(c))
  BY <1>1, <1>4, Zenon DEF Off
<1> QED
  BY <1>2, <1>3, <1>5, Zenon

(* A voice that listens is as VoiceInv describes it.                         *)
LEMMA OpenKeeps ==
  ASSUME NEW v, NEW w, Open(v, w), Posted(v), (v.enabled /\ v.utter = Nothing) \/ v.resumed
  PROVE  VoiceInv(w)
  BY Zenon DEF Open, VoiceInv, Posted, Quiet

(* It listens for the answer to what was said, if it said it or heard one.   *)
LEMMA OpenFollows ==
  ASSUME NEW v, NEW w, Open(v, w), Engaged(v)
  PROVE  Follows(v, w)
  BY Zenon DEF Open, Follows, Screened, Faces, Engaged

(* What a transport that speaks the text leaves.                             *)
Speaking(v, text, w) ==
    /\ Voice(w) /\ ~w.mic /\ w.state = "speaking" /\ w.enabled /\ ~w.resumed
    /\ \A p \in w.late : ~p.live
    /\ \A c \in w.calls : ~c.live
    /\ w.handed = v.handed /\ w.about = text /\ w.pending = text /\ w.starts = v.starts

(* speak starts an utterance, or does nothing in a voice that is off, or     *)
(* fails.                                                                    *)
LEMMA SpeakIs ==
  ASSUME NEW v, Voice(v), NEW text
  PROVE  \A w \in Speak(v, text) :
            \/ ~v.enabled /\ w = v
            \/ v.enabled /\ (Off(v, w) \/ Speaking(v, text, w))
<1> DEFINE c == StopCapture(v)
           b == [c EXCEPT !.state = "speaking", !.pending = text]
           p == ProviderStop(b)
           o == [p EXCEPT !.utter = text, !.about = text, !.outdated = FALSE]
<1> SUFFICES ASSUME v.enabled
             PROVE  \A w \in {Fail(p), o} : Off(v, w) \/ Speaking(v, text, w)
  BY Zenon DEF Speak, ProviderSpeak
<1>1. /\ Voice(c) /\ ~c.mic /\ c.enabled /\ \A q \in c.late : ~q.live
      /\ c.handed = v.handed /\ c.about = v.about /\ c.starts = v.starts
  BY StopCaptureStops, Zenon DEF Voice, StopCapture, VoiceFields
<1> HIDE DEF c
<1>2. /\ Voice(b) /\ ~b.mic /\ b.enabled /\ b.state = "speaking" /\ \A q \in b.late : ~q.live
      /\ b.handed = v.handed /\ b.about = v.about /\ b.starts = v.starts /\ b.pending = text
  BY <1>1, Zenon DEF Voice, VoiceFields
<1> HIDE DEF b
<1>3. /\ Voice(p) /\ ~p.mic /\ p.enabled /\ p.state = "speaking" /\ \A q \in p.late : ~q.live
      /\ p.handed = v.handed /\ p.about = v.about /\ p.starts = v.starts /\ ~p.resumed
      /\ p.pending = text /\ \A c1 \in p.calls : ~c1.live
  BY <1>2, ProviderStopStops, StaleJobs, Zenon DEF Voice, VoiceFields, ProviderStop
<1> HIDE DEF p
<1>4. Speaking(v, text, o)
  BY <1>3, Zenon DEF Speaking, Voice, VoiceFields
<1>5. Off(p, Fail(p))
  BY <1>3, PauseKeeps, Zenon
<1>6. Off(v, Fail(p))
  BY <1>3, <1>5, Zenon DEF Off
<1> QED
  BY <1>4, <1>6, Zenon

(* A voice that speaks is as VoiceInv describes it.                          *)
LEMMA SpeakingKeeps ==
  ASSUME NEW v, NEW text, NEW w, Speaking(v, text, w)
  PROVE  VoiceInv(w)
  BY Zenon DEF Speaking, VoiceInv, Posted, Quiet

(* speak keeps VoiceInv, and what the voice is engaged in afterwards is the  *)
(* text it was given.                                                        *)
LEMMA SpeakKeeps ==
  ASSUME NEW v, VoiceInv(v), NEW text, NEW w \in Speak(v, text)
  PROVE  /\ VoiceInv(w) /\ w.handed = v.handed
         /\ Screened(v) => Screened(w) /\ (Engaged(w) => w.about = text)
<1>1. Voice(v)
  BY Zenon DEF VoiceInv
<1>2. (~v.enabled /\ w = v) \/ Off(v, w) \/ Speaking(v, text, w)
  BY <1>1, SpeakIs, Zenon
<1>3. VoiceInv(w) /\ w.handed = v.handed
  BY <1>2, OffKeeps, SpeakingKeeps, Zenon DEF Off, Speaking
<1>4. CASE ~v.enabled /\ w = v
  <2>1. Screened(v) => ~v.mic /\ v.utter = Nothing /\ v.state # "speaking"
    BY <1>4, Zenon DEF VoiceInv, Quiet, Screened
  <2> QED
    BY <1>4, <2>1, Zenon DEF Engaged
<1>5. CASE Off(v, w)
  <2>1. ~Engaged(w)
    BY <1>5, Zenon DEF Off, Engaged
  <2> QED
    BY <1>3, <1>5, <2>1, OffKeeps, Zenon DEF Follows
<1>6. CASE Speaking(v, text, w)
  BY <1>3, <1>6, Zenon DEF Speaking, Screened, Faces, Engaged
<1> QED
  BY <1>2, <1>3, <1>4, <1>5, <1>6, Zenon

(* interruptAndListen stops the utterance and listens, in a voice that is on.*)
LEMMA InterruptIs ==
  ASSUME NEW v, Voice(v)
  PROVE  \A w \in InterruptAndListen(v) :
            \/ ~v.enabled /\ w = v
            \/ v.enabled /\ (Off(v, w) \/ (VoiceInv(w) /\ w.enabled /\ ~w.resumed /\ w.state = "listening"
                                          /\ w.handed = v.handed /\ w.about = v.about
                                          /\ w.starts = v.starts /\ w.outdated = v.outdated
                                          /\ (v.state = "speaking" => Follows(v, w))))
<1> DEFINE b == [v EXCEPT !.pending = Nothing]
           p == ProviderStop(b)
<1>1. InterruptAndListen(v) = IF v.enabled THEN Listen(p) ELSE {v}
  BY Zenon DEF InterruptAndListen
<1>2. /\ Voice(b) /\ b.enabled = v.enabled /\ b.pending = Nothing
      /\ b.handed = v.handed /\ b.about = v.about /\ b.starts = v.starts /\ b.outdated = v.outdated
  BY Zenon DEF Voice, VoiceFields
<1> HIDE DEF b
<1>3. /\ Voice(p) /\ p.enabled = v.enabled /\ p.utter = Nothing /\ ~p.resumed
      /\ p.handed = v.handed /\ p.about = v.about /\ p.starts = v.starts /\ p.outdated = v.outdated
      /\ p.pending = Nothing /\ \A c \in p.calls : ~c.live
  BY <1>2, ProviderStopStops, StaleJobs DEF Voice, VoiceFields, ProviderStop
<1> HIDE DEF p
<1>4. \A w \in Listen(p) : Off(p, w) \/ Open(p, w)
  BY <1>3, ListenIs, Zenon
<1>5. ASSUME NEW w, Off(p, w) PROVE Off(v, w)
  BY <1>3, <1>5, Zenon DEF Off
<1>6. ASSUME NEW w, Open(p, w), v.enabled
      PROVE  /\ VoiceInv(w) /\ w.enabled /\ ~w.resumed /\ w.state = "listening" /\ w.handed = v.handed
             /\ w.about = v.about /\ w.starts = v.starts /\ w.outdated = v.outdated
  <2>1. Posted(p)
    BY <1>3, Zenon DEF Posted
  <2> QED
    BY <1>3, <1>6, <2>1, OpenKeeps, Zenon DEF Open
<1>7. ASSUME NEW w, Open(p, w), v.enabled, v.state = "speaking"
      PROVE  Follows(v, w)
  BY <1>3, <1>7, Zenon DEF Open, Follows, Screened, Faces, Engaged
<1> QED
  BY <1>1, <1>4, <1>5, <1>6, <1>7, Zenon

(* interruptAndListen keeps VoiceInv, and listens for what was being spoken. *)
LEMMA InterruptKeeps ==
  ASSUME NEW v, VoiceInv(v), NEW w \in InterruptAndListen(v)
  PROVE  /\ VoiceInv(w) /\ w.handed = v.handed
         /\ v.state = "speaking" => Follows(v, w)
<1>1. Voice(v)
  BY Zenon DEF VoiceInv
<1>2. Follows(v, v)
  BY Zenon DEF Follows
<1> QED
  BY <1>1, <1>2, InterruptIs, OffKeeps, Zenon DEF Off

(* What a finished answer leaves when the microphone stays closed.           *)
Closed(v, w) ==
    /\ Voice(w) /\ ~w.mic /\ w.state \in {"processing", "idle"}
    /\ \A p \in w.late : ~p.live
    /\ w.about = v.about /\ w.starts = v.starts
    /\ w.enabled = v.enabled /\ w.utter = v.utter /\ w.resumed = v.resumed /\ w.outdated = v.outdated
    /\ w.calls = v.calls /\ w.pending = v.pending

(* finishAnswer closes the capture and hands over what was heard; with nothing*)
(* heard it listens again.                                                   *)
LEMMA FinishIs ==
  ASSUME NEW v, Voice(v)
  PROVE  \A w \in FinishAnswer(v) :
            \/ v.enabled /\ v.heard = Silence /\ (Off(v, w) \/ Open(v, w))
            \/ Closed(v, w) /\ w.handed = IF v.heard = Silence THEN v.handed ELSE v.heard
<1> DEFINE c == StopCapture(v)
           o == [c EXCEPT !.state = "processing", !.handed = v.heard]
           n == [c EXCEPT !.state = "idle"]
<1>1. /\ Voice(c) /\ ~c.mic /\ \A p \in c.late : ~p.live
      /\ c.handed = v.handed /\ c.about = v.about /\ c.starts = v.starts
      /\ c.enabled = v.enabled /\ c.utter = v.utter /\ c.resumed = v.resumed /\ c.outdated = v.outdated
      /\ c.calls = v.calls /\ c.pending = v.pending
  BY StopCaptureStops, Zenon DEF Voice, StopCapture, VoiceFields
<1>2. FinishAnswer(v) = IF v.heard # Silence THEN {o} ELSE IF v.enabled THEN Listen(c) ELSE {n}
  BY Zenon DEF FinishAnswer
<1> HIDE DEF c
<1>3. Closed(v, o) /\ o.handed = v.heard
  BY <1>1, Zenon DEF Closed, Voice, VoiceFields
<1>4. Closed(v, n) /\ n.handed = v.handed
  BY <1>1, Zenon DEF Closed, Voice, VoiceFields
<1>5. \A w \in Listen(c) : Off(c, w) \/ Open(c, w)
  BY <1>1, ListenIs, Zenon
<1>6. ASSUME NEW w, Off(c, w) PROVE Off(v, w)
  BY <1>1, <1>6, Zenon DEF Off
<1>7. ASSUME NEW w, Open(c, w) PROVE Open(v, w)
  BY <1>1, <1>7, Zenon DEF Open
<1> HIDE DEF o, n
<1> QED
  BY <1>2, <1>3, <1>4, <1>5, <1>6, <1>7, Zenon

(* An answer is finished only while the microphone is open; the words it     *)
(* hands over answer what was last spoken.                                   *)
LEMMA FinishKeeps ==
  ASSUME NEW v, VoiceInv(v), v.mic, NEW w \in FinishAnswer(v)
  PROVE  VoiceInv(w) /\ Hands(v, w) /\ Follows(v, w)
<1>1. Voice(v) /\ Posted(v) /\ ((v.enabled /\ v.utter = Nothing) \/ v.resumed)
  BY Zenon DEF VoiceInv, Quiet
<1>2. \/ Off(v, w) \/ Open(v, w)
      \/ Closed(v, w) /\ w.handed = IF v.heard = Silence THEN v.handed ELSE v.heard
  BY <1>1, FinishIs, Zenon
<1>3. CASE Off(v, w)
  BY <1>3, OffKeeps, Zenon DEF Off, Hands
<1>4. CASE Open(v, w)
  BY <1>1, <1>4, OpenKeeps, OpenFollows, Zenon DEF Open, Hands, Engaged
<1>5. CASE Closed(v, w) /\ w.handed = IF v.heard = Silence THEN v.handed ELSE v.heard
  <2>1. VoiceInv(w) /\ Hands(v, w)
    BY <1>5, Zenon DEF Closed, VoiceInv, Posted, Quiet, Hands
  <2>2. Follows(v, w)
    BY <1>5, Zenon DEF Closed, Follows, Screened, Faces, Engaged
  <2> QED
    BY <2>1, <2>2, Zenon
<1> QED
  BY <1>2, <1>3, <1>4, <1>5, Zenon

(* A start that goes on speaks the current question, or listens when it has  *)
(* nothing to say.                                                           *)
LEMMA GoOnKeeps ==
  ASSUME NEW v, VoiceInv(v), NEW question, NEW current, NEW w \in GoOn(v, question, current)
  PROVE  /\ VoiceInv(w) /\ w.handed = v.handed
         /\ question # "" /\ Screened(v) => Screened(w) /\ Faces(w, current)
<1>1. Voice(v) /\ Posted(v)
  BY Zenon DEF VoiceInv
<1>2. CASE question = ""
  <2>1. PICK x \in Listen(v) : w = [x EXCEPT !.resumed = x.mic /\ (~v.enabled \/ v.utter # Nothing)]
    BY <1>2, Zenon DEF GoOn
  <2>2. Off(v, x) \/ Open(v, x)
    BY <1>1, ListenIs, Zenon
  <2>3. /\ Voice(w) /\ w.resumed = (x.mic /\ (~v.enabled \/ v.utter # Nothing))
        /\ w.mic = x.mic /\ w.state = x.state /\ w.late = x.late /\ w.heard = x.heard
        /\ w.enabled = x.enabled /\ w.utter = x.utter /\ w.about = x.about /\ w.handed = x.handed
        /\ w.calls = x.calls /\ w.pending = x.pending
    BY <2>1, <2>2, Zenon DEF Off, Open, Voice, VoiceFields
  <2> QED
    BY <1>1, <1>2, <2>2, <2>3, Zenon DEF Off, Open, VoiceInv, Posted, Quiet
<1>3. CASE question # ""
  <2>1. PICK x \in Speak(v, question) : w = [x EXCEPT !.outdated = question # current]
    BY <1>3, Zenon DEF GoOn
  <2>2. /\ VoiceInv(x) /\ x.handed = v.handed
        /\ Screened(v) => Screened(x) /\ (Engaged(x) => x.about = question)
    BY SpeakKeeps
  <2>3. /\ Voice(w) /\ w.resumed = x.resumed /\ w.outdated = (question # current)
        /\ w.mic = x.mic /\ w.state = x.state /\ w.late = x.late /\ w.heard = x.heard
        /\ w.enabled = x.enabled /\ w.utter = x.utter /\ w.about = x.about /\ w.handed = x.handed
        /\ w.calls = x.calls /\ w.pending = x.pending /\ w.starts = x.starts
    BY <2>1, <2>2, Zenon DEF VoiceInv, Voice, VoiceFields
  <2>4. VoiceInv(w) /\ w.handed = v.handed
    BY <2>2, <2>3, Zenon DEF VoiceInv, Posted, Quiet
  <2>5. ASSUME Screened(v) PROVE Screened(w) /\ Faces(w, current)
    <3>1. Screened(w)
      BY <2>2, <2>3, <2>5, Zenon DEF Screened
    <3>2. Engaged(w) => w.about = question
      BY <2>2, <2>3, <2>5, Zenon DEF Engaged
    <3> QED
      BY <2>3, <3>1, <3>2, Zenon DEF Faces
  <2> QED
    BY <2>4, <2>5, Zenon
<1> QED
  BY <1>2, <1>3, Zenon

(* What a voice keeps when only other fields of it change.                   *)
Alike(v, w) ==
    /\ Voice(w) /\ w.state = v.state /\ w.mic = v.mic /\ w.late = v.late /\ w.heard = v.heard
    /\ w.enabled = v.enabled /\ w.utter = v.utter /\ w.about = v.about /\ w.handed = v.handed
    /\ w.outdated = v.outdated /\ w.resumed = v.resumed /\ w.pending = v.pending
    /\ w.calls \subseteq v.calls \/ w.utter # Nothing

(* A voice that differs only in its suspended starts is as VoiceInv          *)
(* describes it.                                                             *)
LEMMA AlikeKeeps ==
  ASSUME NEW v, VoiceInv(v), NEW w, Alike(v, w)
  PROVE  /\ VoiceInv(w) /\ w.handed = v.handed
         /\ (\A s \in w.starts : s.question = "" => \E t \in v.starts : t.question = "") => Follows(v, w)
<1>1. VoiceInv(w) /\ w.handed = v.handed
  BY Zenon DEF VoiceInv, Posted, Alike, Quiet
<1>2. ASSUME \A s \in w.starts : s.question = "" => \E t \in v.starts : t.question = ""
      PROVE  Follows(v, w)
  BY <1>2, Zenon DEF Alike, Follows, Screened, Faces, Engaged
<1> QED
  BY <1>1, <1>2, Zenon

(* start suspends for the permissions: nothing is heard or said by it.       *)
LEMMA StartKeeps ==
  ASSUME NEW v, VoiceInv(v), NEW question
  PROVE  /\ Alike(v, Start(v, question))
         /\ question # "" => Follows(v, Start(v, question))
<1>1. Voice(v)
  BY Zenon DEF VoiceInv
<1> DEFINE n == [at |-> "permission", question |-> question, fresh |-> TRUE]
<1>2. \A s \in Overtaken(v.starts) \cup {n} : DOMAIN s = {"at", "question", "fresh"}
  BY <1>1, OvertakenStarts, Zenon
<1>3. Start(v, question) = [v EXCEPT !.starts = Overtaken(v.starts) \cup {n}]
  BY Zenon DEF Start
<1>4. ASSUME question # "", NEW s \in Overtaken(v.starts) \cup {n}
      PROVE  s.question # "" \/ \E t \in v.starts : t.question = s.question
  <2>1. CASE s = n
    BY <1>4, <2>1, Zenon
  <2>2. CASE s \in Overtaken(v.starts)
    BY <1>1, <2>2, OvertakenStarts, Zenon
  <2> QED
    BY <2>1, <2>2, Zenon
<1> HIDE DEF n
<1>5. Alike(v, Start(v, question))
  BY <1>1, <1>2, <1>3 DEF Alike, Voice, VoiceFields
<1>6. Start(v, question).starts = Overtaken(v.starts) \cup {n}
  BY <1>1, <1>3, Zenon DEF Voice, VoiceFields
<1>7. ASSUME question # ""
      PROVE  Follows(v, Start(v, question))
  <2>1. \A s \in Start(v, question).starts : s.question = "" => \E t \in v.starts : t.question = ""
    BY <1>4, <1>6, <1>7, Zenon
  <2> QED
    BY <1>5, <2>1, AlikeKeeps, Zenon
<1> QED
  BY <1>5, <1>7, Zenon

(* The permissions are there, or not: start goes on, suspends again, fails   *)
(* or finds that it was overtaken.                                           *)
LEMMA PermittedKeeps ==
  ASSUME NEW v, VoiceInv(v), NEW s \in v.starts, NEW configured, NEW current,
         NEW w \in Permitted(v, s, configured, current)
  PROVE  /\ VoiceInv(w) /\ w.handed = v.handed
         /\ Screened(v) => Screened(w) /\ (Faces(v, current) => Faces(w, current))
<1> DEFINE u == [v EXCEPT !.starts = @ \ {s}]
           on == [u EXCEPT !.enabled = TRUE, !.resolved = TRUE]
           n == [s EXCEPT !.at = "health"]
           h == [on EXCEPT !.starts = @ \cup {n}]
<1>1. Voice(v)
  BY Zenon DEF VoiceInv
<1>2. Alike(v, u) /\ u.starts = v.starts \ {s}
  BY <1>1, Zenon DEF Alike, Voice, VoiceFields
<1>3. VoiceInv(u) /\ u.handed = v.handed /\ Follows(v, u)
  BY <1>2, AlikeKeeps, Zenon
<1>4. w = u \/ w = Fail(u) \/ w = h \/ w \in GoOn(on, s.question, current)
  BY Zenon DEF Permitted
<1> HIDE DEF u
<1>5. VoiceInv(on) /\ on.handed = v.handed /\ on.starts = u.starts
  BY <1>3, Zenon DEF VoiceInv, Posted, Voice, VoiceFields, Quiet
<1>6. Follows(u, on)
  BY <1>3, Zenon DEF Follows, Screened, Faces, Engaged, VoiceInv, Voice, VoiceFields
<1>7. DOMAIN n = {"at", "question", "fresh"} /\ n.question = s.question
  BY <1>1, Zenon DEF Voice
<1> HIDE DEF on, n
<1>8. Alike(on, h) /\ h.starts = u.starts \cup {n}
  BY <1>5, <1>7, Zenon DEF Alike, VoiceInv, Voice, VoiceFields
<1> HIDE DEF h
<1>9. CASE w = u
  BY <1>3, <1>9, Zenon DEF Follows
<1>10. CASE w = Fail(u)
  <2>1. Off(u, w)
    BY <1>3, <1>10, PauseKeeps, Zenon DEF VoiceInv
  <2> QED
    BY <1>3, <2>1, OffKeeps, Zenon DEF Off, Follows
<1>11. CASE w = h
  <2>1. VoiceInv(w) /\ w.handed = v.handed
    BY <1>5, <1>8, <1>11, AlikeKeeps, Zenon
  <2>2. Screened(v) => s.question # "" /\ Screened(on)
    BY <1>3, <1>6, Zenon DEF Screened, Follows
  <2>3. Screened(v) => \A t \in h.starts : t.question # ""
    BY <1>5, <1>7, <1>8, <2>2, Zenon DEF Screened
  <2>4. Screened(v) => Follows(on, w)
    BY <1>5, <1>8, <1>11, <2>3, AlikeKeeps, Zenon
  <2> QED
    BY <1>3, <1>6, <2>1, <2>4, Zenon DEF Follows
<1>12. CASE w \in GoOn(on, s.question, current)
  <2>1. Screened(v) => s.question # "" /\ Screened(on)
    BY <1>3, <1>6, Zenon DEF Screened, Follows
  <2>2. /\ VoiceInv(w) /\ w.handed = on.handed
        /\ s.question # "" /\ Screened(on) => Screened(w) /\ Faces(w, current)
    BY <1>5, <1>12, GoOnKeeps, Zenon
  <2> QED
    BY <1>5, <2>1, <2>2, Zenon
<1> QED
  BY <1>4, <1>9, <1>10, <1>11, <1>12, Zenon

(* What replacing the provider, or the end of what it says, leaves.          *)
Quieted(v, w) ==
    /\ Voice(w) /\ w.utter = Nothing /\ w.state = v.state /\ w.mic = v.mic /\ w.late = v.late
    /\ w.heard = v.heard /\ w.enabled = v.enabled /\ w.about = v.about /\ w.handed = v.handed
    /\ w.starts = v.starts /\ w.outdated = v.outdated /\ w.resumed = v.resumed
    /\ w.pending \in {v.pending, Nothing} /\ \A c \in w.calls : ~c.live

(* A voice whose transport was stopped is as VoiceInv describes it.          *)
LEMMA QuietedKeeps ==
  ASSUME NEW v, VoiceInv(v), NEW w, Quieted(v, w)
  PROVE  VoiceInv(w) /\ Follows(v, w)
<1>1. VoiceInv(w)
  BY Zenon DEF VoiceInv, Posted, Quieted, Quiet
<1>2. Follows(v, w)
  BY Zenon DEF Quieted, Follows, Screened, Faces, Engaged
<1> QED
  BY <1>1, <1>2, Zenon

(* Swapping or silencing the transport stops it and leaves the rest alone.   *)
LEMMA SwappedIs ==
  ASSUME NEW v, Voice(v), NEW kind
  PROVE  Quieted(v, Swapped(v, kind)) /\ Quieted(v, Silent(v))
  BY StaleJobs, Zenon DEF Quieted, Voice, VoiceFields, Swapped, Silent

(* The health check answers, and start goes on with the provider it chose.   *)
LEMMA HealthKeeps ==
  ASSUME NEW v, VoiceInv(v), NEW s \in v.starts, NEW reachable \in BOOLEAN, NEW current,
         NEW w \in HealthChecked(v, s, reachable, current)
  PROVE  /\ VoiceInv(w) /\ w.handed = v.handed
         /\ Screened(v) => Screened(w) /\ Faces(w, current)
<1> DEFINE u == [v EXCEPT !.starts = @ \ {s}]
           x == Swapped(u, "studio")
<1>1. Voice(v)
  BY Zenon DEF VoiceInv
<1>2. Alike(v, u) /\ u.starts = v.starts \ {s}
  BY <1>1, Zenon DEF Alike, Voice, VoiceFields
<1>3. VoiceInv(u) /\ u.handed = v.handed /\ Follows(v, u)
  BY <1>2, AlikeKeeps, Zenon
<1>4. w \in GoOn(u, s.question, current) \/ w \in GoOn(x, s.question, current)
  BY Zenon DEF HealthChecked
<1> HIDE DEF u
<1>5. Quieted(u, x)
  BY <1>3, SwappedIs, Zenon DEF VoiceInv
<1>6. VoiceInv(x) /\ x.handed = v.handed /\ Follows(u, x)
  BY <1>3, <1>5, QuietedKeeps, Zenon DEF Quieted
<1> HIDE DEF x
<1>7. Screened(v) => s.question # "" /\ Screened(u) /\ Screened(x)
  BY <1>3, <1>6, Zenon DEF Screened, Follows
<1>8. CASE w \in GoOn(u, s.question, current)
  <2>1. /\ VoiceInv(w) /\ w.handed = u.handed
        /\ s.question # "" /\ Screened(u) => Screened(w) /\ Faces(w, current)
    BY <1>3, <1>8, GoOnKeeps, Zenon
  <2> QED
    BY <1>3, <1>7, <2>1, Zenon
<1>9. CASE w \in GoOn(x, s.question, current)
  <2>1. /\ VoiceInv(w) /\ w.handed = x.handed
        /\ s.question # "" /\ Screened(x) => Screened(w) /\ Faces(w, current)
    BY <1>6, <1>9, GoOnKeeps, Zenon
  <2> QED
    BY <1>6, <1>7, <2>1, Zenon
<1> QED
  BY <1>4, <1>8, <1>9, Zenon

(* fallbackToNative speaks the text again, unless it was paused meanwhile.   *)
LEMMA FallbackKeeps ==
  ASSUME NEW v, VoiceInv(v), v.utter # Nothing, NEW w \in FallbackToNative(v)
  PROVE  VoiceInv(w) /\ w.handed = v.handed /\ Follows(v, w)
<1> DEFINE u == Swapped(v, "native")
           n == [u EXCEPT !.pending = Nothing]
<1>1. Quieted(v, u)
  BY SwappedIs, Zenon DEF VoiceInv
<1>2. \/ w = n \/ w = Fail(n)
      \/ /\ v.pending # Nothing
         /\ \E x \in Speak(n, v.pending) : w = [x EXCEPT !.outdated = v.outdated]
  BY Zenon DEF FallbackToNative
<1> HIDE DEF u
<1>3. Quieted(v, n)
  BY <1>1, Zenon DEF Quieted, Voice, VoiceFields
<1> HIDE DEF n
<1>4. VoiceInv(n) /\ n.handed = v.handed /\ Follows(v, n)
  BY <1>3, QuietedKeeps, Zenon DEF Quieted
<1>5. CASE w = n
  BY <1>4, <1>5, Zenon
<1>6. CASE w = Fail(n)
  <2>1. Off(n, w)
    BY <1>4, <1>6, PauseKeeps, Zenon DEF VoiceInv
  <2> QED
    BY <1>4, <2>1, OffKeeps, Zenon DEF Off, Follows
<1>7. ASSUME v.pending # Nothing, NEW x \in Speak(n, v.pending), w = [x EXCEPT !.outdated = v.outdated]
      PROVE  VoiceInv(w) /\ w.handed = v.handed /\ Follows(v, w)
  <2>1. /\ VoiceInv(x) /\ x.handed = n.handed
        /\ Screened(n) => Screened(x) /\ (Engaged(x) => x.about = v.pending)
    BY <1>4, SpeakKeeps, Zenon
  <2>2. v.outdated \in BOOLEAN /\ v.pending = v.about
    BY <1>7, Zenon DEF VoiceInv, Voice, Posted
  <2>3. /\ Voice(w) /\ w.resumed = x.resumed /\ w.outdated = v.outdated
        /\ w.mic = x.mic /\ w.state = x.state /\ w.late = x.late /\ w.heard = x.heard
        /\ w.enabled = x.enabled /\ w.utter = x.utter /\ w.about = x.about /\ w.handed = x.handed
        /\ w.calls = x.calls /\ w.pending = x.pending /\ w.starts = x.starts
    BY <1>7, <2>1, <2>2, Zenon DEF VoiceInv, Voice, VoiceFields
  <2>4. VoiceInv(w) /\ w.handed = v.handed
    BY <1>4, <2>1, <2>3, Zenon DEF VoiceInv, Posted, Quiet
  <2>5. ASSUME Screened(v)
        PROVE  Screened(w) /\ \A a : Faces(v, a) => Faces(w, a)
    <3>1. Screened(x) /\ (Engaged(x) => x.about = v.about)
      BY <1>4, <2>1, <2>2, <2>5, Zenon DEF Follows
    <3>2. Screened(w) /\ (Engaged(w) => w.about = v.about)
      BY <2>3, <3>1, Zenon DEF Screened, Engaged
    <3>3. Engaged(v)
      BY Zenon DEF Engaged
    <3> QED
      BY <2>3, <3>2, <3>3, Zenon DEF Faces
  <2> QED
    BY <2>4, <2>5, Zenon DEF Follows
<1> QED
  BY <1>2, <1>5, <1>6, <1>7, Zenon

(* A live callback of the transport.                                         *)
LEMMA CalledKeeps ==
  ASSUME NEW v, VoiceInv(v), v.utter # Nothing, NEW what \in Ends \cup {"started"},
         NEW w \in Called(v, what)
  PROVE  VoiceInv(w) /\ w.handed = v.handed /\ Follows(v, w)
<1>1. Voice(v) /\ Engaged(v)
  BY Zenon DEF VoiceInv, Engaged
<1>2. CASE what \in {"started", "fetched"}
  <2>1. w = [v EXCEPT !.state = "speaking", !.playing = TRUE]
    BY <1>2, Zenon DEF Called
  <2>2. VoiceInv(w) /\ w.handed = v.handed
    BY <2>1, Zenon DEF VoiceInv, Voice, VoiceFields, Posted, Quiet
  <2>3. /\ w.about = v.about /\ w.outdated = v.outdated /\ w.enabled = v.enabled
        /\ w.resumed = v.resumed /\ w.starts = v.starts
    BY <1>1, <2>1, Zenon DEF Voice, VoiceFields
  <2>4. v.enabled \/ v.resumed
    BY Zenon DEF VoiceInv, Quiet
  <2>5. Follows(v, w)
    BY <1>1, <2>3, <2>4, Zenon DEF Follows, Screened, Faces
  <2> QED
    BY <2>2, <2>5, Zenon
<1>3. CASE what \in {"finished", "cancelled"}
  <2> DEFINE x == Silent(v)
  <2>1. w = x \/ (v.enabled /\ w \in Listen(x))
    BY <1>3, Zenon DEF Called
  <2>2. Quieted(v, x)
    BY <1>1, SwappedIs, Zenon
  <2>3. /\ VoiceInv(x) /\ Voice(x) /\ Posted(x) /\ x.handed = v.handed /\ x.enabled = v.enabled
        /\ x.utter = Nothing /\ Follows(v, x)
    BY <2>2, QuietedKeeps, Zenon DEF Quieted, VoiceInv
  <2>4. x.about = v.about /\ x.outdated = v.outdated /\ x.resumed = v.resumed /\ x.starts = v.starts
    BY <2>2, Zenon DEF Quieted
  <2> HIDE DEF x
  <2>5. w \in Listen(x) => Off(x, w) \/ Open(x, w)
    BY <2>3, ListenIs, Zenon
  <2>6. CASE Off(x, w)
    BY <2>3, <2>6, OffKeeps, Zenon DEF Off, Follows
  <2>7. CASE Open(x, w) /\ v.enabled
    <3>1. VoiceInv(w) /\ w.handed = v.handed
      BY <2>3, <2>7, OpenKeeps, Zenon DEF Open
    <3>2. Follows(v, w)
      BY <1>1, <2>4, <2>7, Zenon DEF Open, Follows, Screened, Faces
    <3> QED
      BY <3>1, <3>2
  <2> QED
    BY <2>1, <2>3, <2>5, <2>6, <2>7, Zenon
<1>4. CASE what = "unavailable"
  BY <1>4, FallbackKeeps, Zenon DEF Called
<1>5. CASE what = "unplayable"
  <2>1. w = Fail(v)
    BY <1>5, Zenon DEF Called
  <2> QED
    BY <1>1, <2>1, PauseKeeps, OffKeeps, Zenon DEF Off
<1> QED
  BY <1>2, <1>3, <1>4, <1>5, Zenon DEF Ends

(* A callback of the transport runs; a stale one does nothing.               *)
LEMMA RunCallKeeps ==
  ASSUME NEW v, VoiceInv(v), NEW c \in v.calls, NEW w \in RunCall(v, c)
  PROVE  VoiceInv(w) /\ w.handed = v.handed /\ Follows(v, w)
<1> DEFINE u == [v EXCEPT !.calls = @ \ {c}]
<1>1. w = u \/ (c.live /\ w \in Called(u, c.what))
  BY Zenon DEF RunCall
<1>2. Alike(v, u) /\ u.starts = v.starts
  BY Zenon DEF Alike, VoiceInv, Voice, VoiceFields
<1> HIDE DEF u
<1>3. VoiceInv(u) /\ u.handed = v.handed /\ Follows(v, u)
  BY <1>2, AlikeKeeps, Zenon
<1>4. c.what \in Ends \cup {"started"} /\ (c.live => u.utter # Nothing)
  BY <1>2, Zenon DEF VoiceInv, Voice, Posted, Alike
<1>5. CASE w = u
  BY <1>3, <1>5, Zenon
<1>6. CASE c.live /\ w \in Called(u, c.what)
  <2>1. VoiceInv(w) /\ w.handed = u.handed /\ Follows(u, w)
    BY <1>3, <1>4, <1>6, CalledKeeps, Zenon
  <2> QED
    BY <1>3, <2>1, Zenon DEF Follows
<1> QED
  BY <1>1, <1>5, <1>6, Zenon

(* A callback is posted for what the transport speaks.                       *)
LEMMA CallPostedKeeps ==
  ASSUME NEW v, VoiceInv(v), NEW what \in Outcomes(v)
  PROVE  /\ VoiceInv(CallPosted(v, what)) /\ CallPosted(v, what).handed = v.handed
         /\ Follows(v, CallPosted(v, what))
<1>1. what \in Ends \cup {"started"} /\ v.utter # Nothing
  BY Zenon DEF Outcomes, Ends
<1> DEFINE n == [what |-> what, live |-> TRUE]
<1>2. DOMAIN n = {"what", "live"} /\ n.what \in Ends \cup {"started"}
  BY <1>1, Zenon
<1>3. CallPosted(v, what) = [v EXCEPT !.calls = @ \cup {n}]
  BY Zenon DEF CallPosted
<1> HIDE DEF n
<1>4. Alike(v, CallPosted(v, what)) /\ CallPosted(v, what).starts = v.starts
  BY <1>1, <1>2, <1>3 DEF Alike, VoiceInv, Voice, VoiceFields
<1> QED
  BY <1>4, AlikeKeeps, Zenon

(* A result of the recogniser or a timer is posted while the microphone is   *)
(* open; its words answer what was last spoken.                              *)
LEMMA LatePostedKeeps ==
  ASSUME NEW v, VoiceInv(v), NEW p \in Posts(v)
  PROVE  /\ VoiceInv(LatePosted(v, p)) /\ LatePosted(v, p).handed = v.handed
         /\ Follows(v, LatePosted(v, p))
<1>1. /\ v.mic /\ DOMAIN p = {"what", "text", "live"} /\ p.text \in {Silence, <<v.about>>}
      /\ p.what \in {"partial", "final", "failed", "rollover", "endpoint"}
  BY DEF Posts
<1> DEFINE w == LatePosted(v, p)
<1>2. /\ DOMAIN w = VoiceFields /\ w.late = v.late \cup {p} /\ w.calls = v.calls
      /\ w.starts = v.starts /\ w.state = v.state /\ w.mic = v.mic /\ w.heard = v.heard
      /\ w.enabled = v.enabled /\ w.utter = v.utter /\ w.about = v.about /\ w.handed = v.handed
      /\ w.outdated = v.outdated /\ w.resumed = v.resumed /\ w.pending = v.pending
  BY Zenon DEF LatePosted, VoiceInv, Voice, VoiceFields
<1> HIDE DEF w
<1>3. Voice(w)
  BY <1>1, <1>2, Zenon DEF VoiceInv, Voice
<1>4. VoiceInv(w)
  BY <1>1, <1>2, <1>3, Zenon DEF VoiceInv, Posted, Quiet
<1>5. Follows(v, w)
  BY <1>2, Zenon DEF Follows, Screened, Faces, Engaged
<1> QED
  BY <1>2, <1>4, <1>5, Zenon DEF w

(* A result or a timer runs: only while the microphone is open does it end   *)
(* the answer.                                                               *)
LEMMA RunLateKeeps ==
  ASSUME NEW v, VoiceInv(v), NEW p \in v.late, NEW w \in RunLate(v, p)
  PROVE  VoiceInv(w) /\ Hands(v, w) /\ Follows(v, w)
<1> DEFINE u == [v EXCEPT !.late = @ \ {p}]
           x == [u EXCEPT !.heard = p.text]
<1>1. /\ p.what \in {"partial", "final", "failed", "rollover", "endpoint"}
      /\ p.live => v.mic /\ p.text \in {Silence, <<v.about>>}
  BY Zenon DEF VoiceInv, Voice
<1>2. /\ VoiceInv(u) /\ u.handed = v.handed /\ u.mic = v.mic /\ u.about = v.about
  BY Zenon DEF VoiceInv, Voice, VoiceFields, Posted, Quiet
<1>3. Follows(v, u)
  BY Zenon DEF VoiceInv, Voice, VoiceFields, Follows, Screened, Faces, Engaged
<1>4. \/ w = u
      \/ p.live /\ (w = x \/ w \in FinishAnswer(x) \/ w = Fail(u) \/ w \in FinishAnswer(u))
  BY <1>1, Zenon DEF RunLate
<1> HIDE DEF u
<1>5. ASSUME p.live
      PROVE  VoiceInv(x) /\ x.handed = v.handed /\ x.mic /\ x.about = v.about
  BY <1>1, <1>2, <1>5, Zenon DEF VoiceInv, Voice, VoiceFields, Posted, Quiet
<1>6. Follows(u, x)
  BY <1>2, Zenon DEF VoiceInv, Voice, VoiceFields, Follows, Screened, Faces, Engaged
<1>7. Follows(v, x)
  BY <1>3, <1>6, Zenon DEF Follows
<1> HIDE DEF x
<1>8. CASE w = u
  BY <1>2, <1>3, <1>8, Zenon DEF Hands
<1>9. CASE p.live /\ w = x
  BY <1>5, <1>7, <1>9, Zenon DEF Hands
<1>10. CASE p.live /\ w \in FinishAnswer(x)
  <2>1. VoiceInv(w) /\ Hands(x, w) /\ Follows(x, w)
    BY <1>5, <1>10, FinishKeeps, Zenon
  <2>2. VoiceInv(w) /\ Hands(v, w)
    BY <1>1, <1>5, <1>10, <2>1, Zenon DEF Hands
  <2>3. Follows(v, w)
    BY <1>7, <2>1, Zenon DEF Follows
  <2> QED
    BY <2>2, <2>3, Zenon
<1>11. CASE w = Fail(u)
  <2>1. Off(u, w)
    BY <1>2, <1>11, PauseKeeps, Zenon DEF VoiceInv
  <2>2. VoiceInv(w) /\ Hands(v, w)
    BY <1>2, <2>1, OffKeeps, Zenon DEF Off, Hands
  <2>3. Follows(v, w)
    BY <1>3, <2>1, OffKeeps, Zenon DEF Follows
  <2> QED
    BY <2>2, <2>3
<1>12. CASE p.live /\ w \in FinishAnswer(u)
  <2>1. VoiceInv(w) /\ Hands(u, w) /\ Follows(u, w)
    BY <1>1, <1>2, <1>12, FinishKeeps, Zenon
  <2>2. VoiceInv(w) /\ Hands(v, w)
    BY <1>2, <2>1, Zenon DEF Hands
  <2>3. Follows(v, w)
    BY <1>3, <2>1 DEF Follows
  <2> QED
    BY <2>2, <2>3
<1> QED
  BY <1>4, <1>8, <1>9, <1>10, <1>11, <1>12, Zenon

-----------------------------------------------------------------------------
(* The voice in its surfaces.                                                *)

(* The surface takes one of the outcomes; the words handed over leave the    *)
(* voice.                                                                    *)
LEMMA TakesKeeps ==
  ASSUME NEW outcomes, \A w \in outcomes : VoiceInv(w), VoiceTakes(outcomes)
  PROVE  /\ VoiceInv(voice') /\ voice'.handed = Silence
         /\ (\A w \in outcomes : Follows(voice, w)) => Follows(voice, voice')
<1>1. PICK w \in outcomes : voice' = [w EXCEPT !.handed = Silence]
  BY Zenon DEF VoiceTakes
<1>2. VoiceInv(w)
  BY Zenon
<1>3. VoiceInv(voice') /\ voice'.handed = Silence
  BY <1>1, <1>2, Zenon DEF VoiceInv, Voice, VoiceFields, Posted, Quiet
<1>4. Follows(w, voice')
  BY <1>1, <1>2, Zenon DEF VoiceInv, Voice, VoiceFields, Follows, Screened, Faces, Engaged
<1>5. Follows(voice, w) => Follows(voice, voice')
  BY <1>4, Zenon DEF Follows
<1> QED
  BY <1>3, <1>5, Zenon

(* A new voice is as VoiceInv describes it.                                  *)
LEMMA FreshKeeps == VoiceInv(FreshVoice) /\ FreshVoice.handed = Silence /\ Screened(FreshVoice)
  BY Zenon DEF VoiceInv, Voice, VoiceFields, Posted, Quiet, FreshVoice, Screened

(* A pause leaves a voice that is quiet.                                     *)
LEMMA PausedKeeps ==
  ASSUME NEW v, VoiceInv(v)
  PROVE  /\ VoiceInv(PauseVoice(v)) /\ PauseVoice(v).handed = v.handed
         /\ Follows(v, PauseVoice(v))
<1>1. Off(v, PauseVoice(v))
  BY PauseKeeps, Zenon DEF VoiceInv
<1> QED
  BY <1>1, OffKeeps, Zenon DEF Off

(* A turn that fails pauses the voice, or leaves it.                         *)
LEMMA FailedKeeps ==
  ASSUME VoiceInv(voice), NEW j, TurnFailed(j)
  PROVE  VoiceInv(voice') /\ voice'.handed = voice.handed /\ Follows(voice, voice')
<1>1. Follows(voice, voice)
  BY Zenon DEF Follows
<1> QED
  BY <1>1, PausedKeeps, Zenon DEF TurnFailed

(* Every step of either surface, of the relay and of another device leaves   *)
(* the voice as VoiceInv describes it.                                       *)
LEMMA VoiceInvStep ==
  ASSUME VoiceInv(voice), voice.handed = Silence, [SpokenNext]_<<vars, spoken>>
  PROVE  VoiceInv(voice') /\ voice'.handed = Silence
<1>1. CASE voice' = voice
  BY <1>1, Zenon
<1>2. CASE Post
  BY <1>2, CallPostedKeeps, LatePostedKeeps, Zenon DEF Post
<1>3. CASE RunPosted
  <2>1. ASSUME NEW c \in voice.calls, VoiceTakes(RunCall(voice, c))
        PROVE  VoiceInv(voice') /\ voice'.handed = Silence
    BY <2>1, RunCallKeeps, TakesKeeps, Zenon
  <2>2. ASSUME NEW p \in voice.late, VoiceTakes(RunLate(voice, p))
        PROVE  VoiceInv(voice') /\ voice'.handed = Silence
    BY <2>2, RunLateKeeps, TakesKeeps, Zenon
  <2> QED
    BY <1>3, <2>1, <2>2, Zenon DEF RunPosted
<1>4. CASE ResumeStart
  BY <1>4, PermittedKeeps, HealthKeeps DEF ResumeStart
<1>5. CASE Talk
  <2>1. CASE voice.state = "listening"
    <3>1. voice.mic /\ VoiceTakes(FinishAnswer(voice))
      BY <1>5, <2>1, Zenon DEF Talk, VoiceInv
    <3> QED
      BY <3>1, FinishKeeps, TakesKeeps, Zenon
  <2>2. CASE voice.state = "speaking"
    <3>1. VoiceTakes(InterruptAndListen(voice))
      BY <1>5, <2>2, Zenon DEF Talk
    <3> QED
      BY <3>1, InterruptKeeps, TakesKeeps, Zenon
  <2>3. CASE voice.state \notin {"listening", "speaking"}
    BY <1>1, <1>5, <2>3, Zenon DEF Talk
  <2> QED
    BY <2>1, <2>2, <2>3, Zenon
<1>6. CASE Hush
  BY <1>6, PausedKeeps, Zenon DEF Hush
<1>7. CASE Notice
  BY <1>7, PausedKeeps, SpeakKeeps, Zenon DEF Notice
<1>8. ASSUME NEW action, Button(action)
      PROVE  VoiceInv(voice') /\ voice'.handed = Silence
  BY <1>8, PausedKeeps, Zenon DEF Button
<1>9. CASE RunJob
  <2>1. \A q : VoiceInv(Start(voice, q)) /\ Start(voice, q).handed = Silence
    BY StartKeeps, AlikeKeeps, Zenon
  <2> QED
    BY <1>9, <2>1, FailedKeeps, Zenon DEF RunJob
<1>10. CASE RequestFailed
  BY <1>10, FailedKeeps, Zenon DEF RequestFailed
<1>11. CASE Loaded
  <2>1. PICK o \in BOOLEAN : voice' = [voice EXCEPT !.outdated = o]
    BY <1>11, Zenon DEF Loaded, VoiceInv, Voice
  <2> QED
    BY <2>1, Zenon DEF VoiceInv, Voice, VoiceFields, Posted, Quiet
<1>12. CASE TurnMade
  <2>1. \A q : VoiceInv(Start(voice, q)) /\ Start(voice, q).handed = Silence
    BY StartKeeps, AlikeKeeps, Zenon
  <2> QED
    BY <1>12, <2>1, FailedKeeps, Zenon DEF TurnMade
<1>13. CASE StartTalk
  BY <1>13, StartKeeps, AlikeKeeps, Zenon DEF StartTalk
<1>14. CASE EndTalk
  BY <1>14, PausedKeeps, Zenon DEF EndTalk
<1>15. CASE Interrupt
  BY <1>15, InterruptKeeps, Zenon DEF Interrupt
<1>16. CASE TurnReturns
  BY <1>16, SpeakKeeps, Zenon DEF TurnReturns
<1>17. CASE UNCHANGED <<vars, spoken>> \/ Load \/ TypeMessage \/ SendSpoken \/ UNCHANGED spoken
  BY <1>1, <1>17, Zenon DEF spoken, Load, TypeMessage, SendSpoken
<1> QED
  BY <1>2, <1>3, <1>4, <1>5, <1>6, <1>7, <1>8, <1>9, <1>10, <1>11, <1>12, <1>13, <1>14, <1>15, <1>16,
     <1>17, Zenon DEF SpokenNext, VoiceStep

(* What VoiceInv describes, and that the words handed over are taken at once.*)
SpokenInv == VoiceInv(voice) /\ voice.handed = Silence

(* The voice is as SpokenInv describes it in every behaviour.                *)
THEOREM VoiceHolds == SpokenSpec => []SpokenInv
<1>1. SpokenInit => SpokenInv
  BY FreshKeeps, Zenon DEF SpokenInit, SpokenInv
<1>2. SpokenInv /\ [SpokenNext]_<<vars, spoken>> => SpokenInv'
  BY VoiceInvStep, Zenon DEF SpokenInv
<1> QED
  BY <1>1, <1>2, PTL DEF SpokenSpec

(* NativeInterviewVoice.pause and failure, the generation guards of its      *)
(* callbacks and the stop of its transports together keep a paused           *)
(* conversation quiet and the microphone closed while a transport speaks:    *)
(* PausedIsQuiet in every behaviour, for any number of posted callbacks,     *)
(* timers and suspended starts.                                              *)
THEOREM PauseSilences == SpokenSpec => []PausedIsQuiet
<1>1. SpokenInv => PausedIsQuiet
  BY Zenon DEF SpokenInv, VoiceInv, Quiet, PausedIsQuiet
<1> QED
  BY <1>1, VoiceHolds, PTL

-----------------------------------------------------------------------------
(* The interview's own record.                                               *)

(* A key that is not the empty text.                                         *)
Named(key) == key # ""

(* The key that stands for no question is not empty.                         *)
LEMMA NoneIsNamed == Named(None)
  BY Zenon DEF Named, None

SessionFields ==
    {"revision", "objective", "phase", "skipped", "permitted", "skippedDomains", "last", "pending", "sweep"}

Stored(s) == DOMAIN s = SessionFields /\ s.revision \in Nat \ {0} /\ Named(s.pending)

(* Every device was shown a position the interview has reached, and a        *)
(* question with a key.                                                      *)
InterviewInv ==
    /\ world \in Worlds
    /\ session = NoSession \/ Stored(session)
    /\ DOMAIN shown = Devices
    /\ \A d \in Devices : /\ shown[d].revision \in Nat /\ shown[d].revision <= session.revision
                          /\ Named(shown[d].question.key)

(* A non-empty set of natural numbers has its minimum.                       *)
LEMMA LeastNatural ==
  ASSUME NEW T, T \subseteq Nat, T # {}
  PROVE  Min(T) \in T
<1> DEFINE R == OpToRel(<, Nat)
<1>1. IsWellFoundedOn(R, Nat)
  BY NatLessThanWellFounded, Zenon
<1>2. R = {ss \in Nat \X Nat : ss[1] < ss[2]}
  BY Zenon DEF OpToRel
<1> HIDE DEF R
<1>3. PICK x \in T : \A y \in T : <<y, x>> \notin R
  BY <1>1, WFMin, Zenon
<1>4. ASSUME NEW y \in T PROVE x <= y
  <2>1. <<y, x>> \in Nat \X Nat /\ <<y, x>>[1] = y /\ <<y, x>>[2] = x
    BY Zenon
  <2>2. ~(y < x)
    BY <1>2, <1>3, <2>1, Zenon
  <2> QED
    BY <2>2
<1> QED
  BY <1>3, <1>4, Zenon DEF Min

(* What is asked next is a topic of the catalogue.                           *)
LEMMA QuestionHasKey ==
  ASSUME world \in Worlds, NEW m, NEW s, s = NoSession \/ Stored(s)
  PROVE  Named(Question(m, s).key)
<1> DEFINE topics == Topics(s)
           open == Unpassed(m, s)
           topic == topics[Min(open)]
<1>1. /\ DOMAIN topics \subseteq Nat
      /\ \A i \in DOMAIN topics : Named(topics[i].key) /\ Named(PermissionKey(topics[i].domain))
  <2> DEFINE T == [key : STRING, domain : STRING, kind : STRING, days : Nat]
  <2>1. topics \in Seq(T)
    BY WorldsAssumption, Zenon DEF Topics
  <2>2. \A i \in DOMAIN topics : Named(topics[i].key) /\ Named(PermissionKey(topics[i].domain))
    BY WorldsAssumption, Zenon DEF Topics, Named
  <2> HIDE DEF T, topics
  <2>3. DOMAIN topics = 1..Len(topics) /\ Len(topics) \in Nat
    BY <2>1
  <2>4. DOMAIN topics \subseteq Nat
    BY <2>3
  <2> QED
    BY <2>2, <2>4, Zenon
<1>2. open \subseteq DOMAIN topics
  BY Zenon DEF Unpassed
<1>3. \/ Question(m, s) = NoQuestion
      \/ s # NoSession /\ Question(m, s).key = s.pending
      \/ open # {} /\ Question(m, s) = Asked(m, s, topic)
  BY Zenon DEF Question
<1> HIDE DEF topics, open
<1>4. CASE open # {} /\ Question(m, s) = Asked(m, s, topic)
  <2>1. Min(open) \in DOMAIN topics
    BY <1>1, <1>2, <1>4, LeastNatural, Zenon
  <2>2. Named(topic.key) /\ Named(PermissionKey(topic.domain))
    BY <1>1, <2>1, Zenon
  <2> HIDE DEF topic
  <2>3. Asked(m, s, topic).key \in {topic.key, PermissionKey(topic.domain)}
    BY Zenon DEF Asked, NoQuestion
  <2> QED
    BY <1>4, <2>2, <2>3, Zenon
<1>5. CASE s # NoSession /\ Question(m, s).key = s.pending
  BY <1>5, Zenon DEF Stored
<1>6. CASE Question(m, s) = NoQuestion
  BY <1>6, NoneIsNamed DEF NoQuestion
<1> QED
  BY <1>3, <1>4, <1>5, <1>6, Zenon

(* A position of the interview with the same revision.                       *)
Same(s, t) == Stored(t) /\ t.revision = s.revision

(* Setting any other part of the position leaves its revision.               *)
LEMMA UpdateSame ==
  ASSUME NEW s, NEW t, Same(s, t), NEW x
  PROVE  /\ Same(s, [t EXCEPT !.phase = x]) /\ Same(s, [t EXCEPT !.last = x])
         /\ Same(s, [t EXCEPT !.skipped = x]) /\ Same(s, [t EXCEPT !.permitted = x])
         /\ Same(s, [t EXCEPT !.skippedDomains = x]) /\ Same(s, [t EXCEPT !.sweep = x])
         /\ Named(x) => Same(s, [t EXCEPT !.pending = x])
  BY Zenon DEF Same, Stored, SessionFields

(* What a step of device d does to the interview's record and to what the    *)
(* devices were shown.                                                       *)
Proceeds(d) ==
    /\ world' = world
    /\ session' = NoSession \/ Stored(session')
    /\ session'.revision >= session.revision
    /\ \/ shown' = shown
       \/ \E r : r.revision = session'.revision /\ Named(r.question.key) /\ shown' = [shown EXCEPT ![d] = r]

(* A step that proceeds keeps InterviewInv.                                  *)
LEMMA ProceedsKeeps ==
  ASSUME InterviewInv, NEW d \in Devices, Proceeds(d)
  PROVE  InterviewInv'
<1>1. session.revision \in Nat /\ session'.revision \in Nat
  BY DEF InterviewInv, Proceeds, NoSession, Stored, SessionFields
<1>2. /\ (world \in Worlds)' /\ (session = NoSession \/ Stored(session))'
      /\ session.revision <= session'.revision
  BY Zenon DEF InterviewInv, Proceeds, NoSession, Stored, SessionFields
<1>3. /\ DOMAIN shown = Devices
      /\ \A e \in Devices : /\ shown[e].revision \in Nat /\ shown[e].revision <= session.revision
                            /\ Named(shown[e].question.key)
  BY Zenon DEF InterviewInv
<1>4. /\ DOMAIN shown' = Devices
      /\ \A e \in Devices : \/ shown'[e] = shown[e]
                            \/ shown'[e].revision = session'.revision /\ Named(shown'[e].question.key)
  BY <1>3, Zenon DEF Proceeds
<1>5. ASSUME NEW e \in Devices
      PROVE  /\ shown'[e].revision \in Nat /\ shown'[e].revision <= session'.revision
             /\ Named(shown'[e].question.key)
  BY <1>1, <1>2, <1>3, <1>4, <1>5
<1> QED
  BY <1>2, <1>4, <1>5, Zenon DEF InterviewInv, Named

(* The reply shows the position that was stored, or is lost.                 *)
LEMMA ReplyShows ==
  ASSUME InterviewInv, NEW d \in Devices, NEW m, NEW s, Stored(s), s.revision >= session.revision,
         session' = s, Reply(d, m, s), world' = world
  PROVE  Proceeds(d)
<1> DEFINE r == [revision |-> s.revision, phase |-> s.phase, question |-> Question(m, s)]
<1>1. Named(Question(m, s).key)
  BY QuestionHasKey, Zenon DEF InterviewInv
<1>2. r.revision = s.revision /\ Named(r.question.key)
  BY <1>1, Zenon
<1>3. shown' = shown \/ shown' = [shown EXCEPT ![d] = r]
  BY Zenon DEF Reply
<1> HIDE DEF r
<1>4. shown' = shown \/ \E x : x.revision = s.revision /\ Named(x.question.key) /\ shown' = [shown EXCEPT ![d] = x]
  BY <1>2, <1>3, Zenon
<1> QED
  BY <1>4, Zenon DEF Proceeds, Stored, SessionFields, NoSession

(* advance stores the position under the next revision.                      *)
LEMMA FinishProceeds ==
  ASSUME InterviewInv, NEW d \in Devices, NEW m, NEW s, Same(session, s), Finish(d, m, s), world' = world
  PROVE  Proceeds(d) /\ session'.revision = session.revision + 1
<1> DEFINE ph == IF s.phase # "paused" /\ Question(m, s) = NoQuestion THEN "continuous" ELSE s.phase
           t == [s EXCEPT !.revision = @ + 1, !.phase = ph]
<1>1. session' = t /\ Reply(d, m, t)
  BY Zenon DEF Finish
<1> HIDE DEF ph
<1>2. s.revision + 1 \in Nat \ {0} /\ s.revision + 1 >= session.revision
  BY DEF Same, Stored, SessionFields
<1>3. Stored(t) /\ t.revision = s.revision + 1
  BY <1>2, Zenon DEF Same, Stored, SessionFields
<1> HIDE DEF t
<1> QED
  BY <1>1, <1>2, <1>3, ReplyShows, Zenon DEF Same

(* start_interview stores the first position, or another objective, and      *)
(* replies.                                                                  *)
LEMMA BeginProceeds ==
  ASSUME InterviewInv, NEW d \in Devices, NEW objective, Begin(d, objective)
  PROVE  Proceeds(d)
<1> DEFINE new == NewSession(IF objective = None THEN "understanding" ELSE objective)
           other == [session EXCEPT !.objective = objective, !.phase = "active", !.revision = @ + 1]
           s == IF session = NoSession THEN new
                ELSE IF objective \in {None, session.objective} THEN session ELSE other
<1>1. session' = s /\ Reply(d, memory, s) /\ world' = world
  BY Zenon DEF Begin
<1>2. Stored(s) /\ s.revision >= session.revision
  <2>1. session = NoSession => Stored(new) /\ new.revision >= session.revision
    BY NoneIsNamed DEF NewSession, NoSession, Stored, SessionFields
  <2>2. session # NoSession => Stored(session) /\ session.revision + 1 \in Nat \ {0}
    BY DEF InterviewInv, Stored
  <2>3. session # NoSession => Stored(other) /\ other.revision = session.revision + 1
    BY <2>2, Zenon DEF Stored, SessionFields
  <2>4. session # NoSession => session.revision >= session.revision /\ session.revision + 1 >= session.revision
    BY <2>2 DEF Stored
  <2> HIDE DEF new, other
  <2> QED
    BY <2>1, <2>2, <2>3, <2>4, Zenon
<1> HIDE DEF s
<1> QED
  BY <1>1, <1>2, ReplyShows, Zenon

(* Every turn that is accepted stores the position it leads to: the record   *)
(* moves to the next revision, and the device is shown that or nothing new.  *)
Advances(d) == Proceeds(d) /\ session'.revision = session.revision + 1

(* Each kind of turn that advance accepts.                                   *)
LEMMA TurnProceeds ==
  ASSUME InterviewInv, NEW d \in Devices
  PROVE  /\ \A phase : Pause(d, phase) => Advances(d)
         /\ SkipQuestion(d) => Advances(d)
         /\ FinishSweep(d) => Advances(d)
         /\ SkipDraft(d) => Advances(d)
         /\ ConfirmDraft(d) => Advances(d)
         /\ \A answer : AnswerPermission(d, answer) => Advances(d)
         /\ \A answer : Answer(d, answer) => Advances(d)
         /\ \A answer : AmendDraft(d, answer) => Advances(d)
<1> DEFINE q == Question(memory, session)
<1>0. Named(q.key)
  BY QuestionHasKey, Zenon DEF InterviewInv
<1>1. ASSUME NEW m, NEW s, Same(session, s), Finish(d, m, s), world' = world
      PROVE  Advances(d)
  BY <1>1, FinishProceeds, Zenon DEF Advances
<1>2. Fresh(d) => Same(session, session)
  BY Zenon DEF Fresh, InterviewInv, Same
<1>3. \A k : Fresh(d) => Same(session, [session EXCEPT !.last = k])
  BY <1>2, UpdateSame, Zenon
<1>4. Fresh(d) => Same(session, Stepped(q))
  BY <1>3, Zenon DEF Stepped
<1>5. Fresh(d) => Same(session, SkipKey(Stepped(q), q.key))
  BY <1>4, UpdateSame, Zenon DEF SkipKey
<1> HIDE DEF q
<1>6. ASSUME NEW phase, Pause(d, phase)
      PROVE  Advances(d)
  <2>1. Fresh(d) /\ Finish(d, memory, [session EXCEPT !.phase = phase]) /\ world' = world
    BY <1>6, Zenon DEF Pause
  <2> QED
    BY <1>1, <1>2, <2>1, UpdateSame, Zenon
<1>7. ASSUME SkipQuestion(d)
      PROVE  Advances(d)
  <2> DEFINE s == SkipKey(Stepped(q), q.key)
             t == [s EXCEPT !.skippedDomains = @ \cup {q.domain}]
  <2>1. Fresh(d) /\ (Finish(d, memory, s) \/ Finish(d, memory, t)) /\ world' = world
    BY <1>7, Zenon DEF SkipQuestion, Turn, q
  <2>2. Same(session, s) /\ Same(session, t)
    BY <1>5, <2>1, UpdateSame, Zenon
  <2> QED
    BY <1>1, <2>1, <2>2, Zenon
<1>8. ASSUME FinishSweep(d)
      PROVE  Advances(d)
  <2> DEFINE s == SkipKey(Stepped(q), q.key)
             t == [s EXCEPT !.sweep = TRUE]
  <2>1. Fresh(d) /\ Finish(d, memory, t) /\ world' = world
    BY <1>8, Zenon DEF FinishSweep, Turn, q
  <2>2. Same(session, t)
    BY <1>5, <2>1, UpdateSame, Zenon
  <2> QED
    BY <1>1, <2>1, <2>2, Zenon
<1>9. ASSUME SkipDraft(d)
      PROVE  Advances(d)
  <2> DEFINE s == SkipKey(Stepped(q), q.key)
             t == [s EXCEPT !.pending = None]
  <2>1. Fresh(d) /\ (\E m : Finish(d, m, t)) /\ world' = world
    BY <1>9, Zenon DEF SkipDraft, Turn, q
  <2>2. Same(session, t)
    BY <1>5, <2>1, NoneIsNamed, UpdateSame, Zenon
  <2> QED
    BY <1>1, <2>1, <2>2, Zenon
<1>10. ASSUME ConfirmDraft(d)
       PROVE  Advances(d)
  <2> DEFINE t == [Stepped(q) EXCEPT !.pending = None]
  <2>1. Fresh(d) /\ (\E m : Finish(d, m, Stepped(q)) \/ Finish(d, m, t)) /\ world' = world
    BY <1>10, Zenon DEF ConfirmDraft, Turn, q
  <2>2. Same(session, t)
    BY <1>4, <2>1, NoneIsNamed, UpdateSame, Zenon
  <2> QED
    BY <1>1, <1>4, <2>1, <2>2, Zenon
<1>11. ASSUME NEW answer, AnswerPermission(d, answer)
       PROVE  Advances(d)
  <2> DEFINE s == [Stepped(q) EXCEPT !.permitted = @ \cup {q.domain}]
             t == [Stepped(q) EXCEPT !.skippedDomains = @ \cup {q.domain}]
  <2>1. Fresh(d) /\ (Finish(d, memory, s) \/ Finish(d, memory, t)) /\ world' = world
    BY <1>11, Zenon DEF AnswerPermission, Turn, q
  <2>2. Same(session, s) /\ Same(session, t)
    BY <1>4, <2>1, UpdateSame, Zenon
  <2> QED
    BY <1>1, <2>1, <2>2, Zenon
<1>12. ASSUME NEW answer, Answer(d, answer)
       PROVE  Advances(d)
  <2>1. Fresh(d) /\ (\E m : Finish(d, m, Positioned(q, answer))) /\ world' = world
    BY <1>12, Zenon DEF Answer, Turn, q
  <2>2. Same(session, Positioned(q, answer))
    BY <1>0, <1>4, <1>5, <2>1, UpdateSame, Zenon DEF Positioned
  <2> QED
    BY <1>1, <2>1, <2>2, Zenon
<1>13. ASSUME NEW answer, AmendDraft(d, answer)
       PROVE  Advances(d)
  <2>1. Fresh(d) /\ (\E m : Finish(d, m, Stepped(q))) /\ world' = world
    BY <1>13, Zenon DEF AmendDraft, Turn, q
  <2> QED
    BY <1>1, <1>4, <2>1, Zenon
<1> QED
  BY <1>6, <1>7, <1>8, <1>9, <1>10, <1>11, <1>12, <1>13, Zenon

-----------------------------------------------------------------------------
(* What the interview screen says and listens for.                           *)

ScreenJobs == {"talk", "pause", "skip", "answer"}

(* The Tasks and requests of the screen are its own; its voice follows it;   *)
(* and once it has noticed the revision it was shown last, what the voice    *)
(* says or listens for is the question on the screen.                        *)
ScreenInv ==
    OnScreen =>
        /\ phone \in Devices /\ Screened(voice)
        /\ job = NoJob \/ job.action \in ScreenJobs
        /\ request = NoJob \/ request.action \in ScreenJobs \cup {"load"}
        /\ noticed \in Nat /\ noticed <= shown[phone].revision
        /\ noticed = shown[phone].revision => Faces(voice, Asking)

(* What a step of the screen itself does to it.                              *)
Attends ==
    /\ phone' = phone /\ Screened(voice')
    /\ job' = NoJob \/ job'.action \in ScreenJobs
    /\ request' = NoJob \/ request'.action \in ScreenJobs \cup {"load"}
    /\ \/ noticed' = noticed /\ (Faces(voice, Asking) => Faces(voice', Asking))
       \/ noticed' = shown[phone].revision /\ Faces(voice', Asking)

(* The voice goes on from what it said or listened for.                      *)
LEMMA FollowsAttends ==
  ASSUME ScreenInv, OnScreen, Follows(voice, voice'), UNCHANGED <<phone, noticed>>,
         job' \in {job, NoJob} \/ job'.action \in ScreenJobs,
         request' \in {request, NoJob, job} \/ request'.action \in ScreenJobs \cup {"load"}
  PROVE  Attends
<1>1. Screened(voice') /\ (Faces(voice, Asking) => Faces(voice', Asking))
  BY Zenon DEF ScreenInv, Follows
<1> QED
  BY <1>1, Zenon DEF ScreenInv, Attends

(* The voice takes an outcome that goes on from what it said or listened     *)
(* for.                                                                      *)
LEMMA TakesAttends ==
  ASSUME ScreenInv, OnScreen, NEW outcomes, \A w \in outcomes : VoiceInv(w) /\ Follows(voice, w),
         VoiceTakes(outcomes), UNCHANGED <<phone, request, noticed>>
  PROVE  Attends
<1>1. Follows(voice, voice')
  BY TakesKeeps, Zenon
<1>2. job' = job \/ job'.action = "answer"
  BY DEF VoiceTakes, Job
<1> QED
  BY <1>1, <1>2, FollowsAttends, Zenon DEF ScreenJobs

(* Every step of the screen and of its voice keeps what it says and listens  *)
(* for, or stops it, or is the update of the view that notices a question.   *)
LEMMA VoiceStepAttends ==
  ASSUME InterviewInv, ScreenInv, OnScreen, VoiceInv(voice), VoiceStep
  PROVE  Attends
<1>0. ~InTalk /\ Named(Asking) /\ Screened(voice)
  BY Zenon DEF OnScreen, InTalk, Asking, InterviewInv, ScreenInv
<1>s. Follows(voice, voice)
  BY Zenon DEF Follows
<1>1. \A q : Named(q) => Follows(voice, Start(voice, q))
  BY StartKeeps, Zenon DEF Named
<1>2. CASE Post
  BY <1>2, CallPostedKeeps, LatePostedKeeps, FollowsAttends, Zenon DEF Post
<1>3. CASE RunPosted
  <2>1. ASSUME NEW c \in voice.calls, VoiceTakes(RunCall(voice, c)), UNCHANGED <<phone, request, noticed>>
        PROVE  Attends
    BY <2>1, RunCallKeeps, TakesAttends, Zenon
  <2>2. ASSUME NEW p \in voice.late, VoiceTakes(RunLate(voice, p)), UNCHANGED <<phone, request, noticed>>
        PROVE  Attends
    BY <2>2, RunLateKeeps, TakesAttends, Zenon
  <2> QED
    BY <1>3, <2>1, <2>2, Zenon DEF RunPosted
<1>4. CASE ResumeStart
  <2>1. ASSUME NEW st \in voice.starts, NEW w \in Permitted(voice, st, world.studio, Asking), voice' = w
        PROVE  Screened(voice') /\ (Faces(voice, Asking) => Faces(voice', Asking))
    BY <1>0, <2>1, PermittedKeeps, Zenon
  <2>2. ASSUME NEW st \in voice.starts, NEW reachable \in BOOLEAN,
               NEW w \in HealthChecked(voice, st, reachable, Asking), voice' = w
        PROVE  Screened(voice') /\ (Faces(voice, Asking) => Faces(voice', Asking))
    BY <1>0, <2>2, HealthKeeps, Zenon
  <2>3. Screened(voice') /\ (Faces(voice, Asking) => Faces(voice', Asking))
    BY <1>4, <2>1, <2>2, Zenon DEF ResumeStart
  <2>4. request' = request \/ request' = NoJob
    BY <1>4, Zenon DEF ResumeStart, StartReturned
  <2>5. UNCHANGED <<phone, job, noticed>>
    BY <1>4, Zenon DEF ResumeStart
  <2> QED
    BY <2>3, <2>4, <2>5, Zenon DEF Attends, ScreenInv
<1>5. CASE Load
  BY <1>5, <1>s, FollowsAttends, Zenon DEF Load, Job
<1>6. CASE Talk
  <2>0. UNCHANGED <<phone, request, noticed>>
    BY <1>6, Zenon DEF Talk
  <2>1. CASE voice.state = "listening"
    <3>1. voice.mic /\ VoiceTakes(FinishAnswer(voice))
      BY <1>6, <2>1, Zenon DEF Talk, VoiceInv
    <3> QED
      BY <2>0, <3>1, FinishKeeps, TakesAttends, Zenon
  <2>2. CASE voice.state = "speaking"
    <3>1. VoiceTakes(InterruptAndListen(voice))
      BY <1>6, <2>2, Zenon DEF Talk
    <3> QED
      BY <2>0, <2>2, <3>1, InterruptKeeps, TakesAttends, Zenon
  <2>3. CASE voice.state \notin {"listening", "speaking"}
    <3>1. voice' = voice /\ job' = Job("talk", Nothing)
      BY <1>6, <2>3, Zenon DEF Talk
    <3> QED
      BY <1>s, <2>0, <3>1, FollowsAttends, Zenon DEF Job, ScreenJobs
  <2> QED
    BY <2>1, <2>2, <2>3, Zenon
<1>7. CASE Hush
  BY <1>7, PausedKeeps, FollowsAttends, Zenon DEF Hush
<1>8. CASE Notice
  <2>1. noticed' = shown[phone].revision /\ UNCHANGED <<phone, job, request>>
    BY <1>8, Zenon DEF Notice
  <2>2. CASE voice' = PauseVoice(voice)
    <3>1. Off(voice, voice')
      BY <2>2, PauseKeeps, Zenon DEF VoiceInv
    <3>2. Screened(voice')
      BY <1>0, <2>2, PausedKeeps, Zenon DEF Follows
    <3>3. Faces(voice', Asking)
      BY <3>1, Zenon DEF Off, Faces, Engaged
    <3> QED
      BY <2>1, <3>2, <3>3, Zenon DEF Attends, ScreenInv
  <2>3. CASE voice' \in Speak(voice, Asking)
    <3>1. Screened(voice') /\ Faces(voice', Asking)
      BY <1>0, <2>3, SpeakKeeps DEF Faces
    <3> QED
      BY <2>1, <3>1, Zenon DEF Attends, ScreenInv
  <2> QED
    BY <1>8, <2>2, <2>3, Zenon DEF Notice
<1>9. CASE RunJob
  <2>1. Follows(voice, voice')
    BY <1>0, <1>1, <1>9, <1>s, FailedKeeps, Zenon DEF RunJob
  <2> QED
    BY <1>9, <2>1, FollowsAttends, Zenon DEF RunJob
<1>10. CASE RequestFailed
  BY <1>10, FailedKeeps, FollowsAttends, Zenon DEF RequestFailed
<1>11. ASSUME NEW action \in {"pause", "skip", "answer"}, Button(action)
       PROVE  Attends
  <2>1. Follows(voice, voice')
    BY <1>11, <1>s, PausedKeeps, Zenon DEF Button
  <2>2. job'.action \in ScreenJobs
    BY <1>11, Zenon DEF Button, Job, ScreenJobs
  <2> QED
    BY <1>11, <2>1, <2>2, FollowsAttends, Zenon DEF Button
<1>12. ~(StartTalk \/ EndTalk \/ Interrupt \/ TypeMessage \/ SendSpoken \/ TurnReturns)
  BY <1>0, Zenon DEF StartTalk, EndTalk, Interrupt, TypeMessage, SendSpoken, TurnReturns
<1> QED
  BY <1>2, <1>3, <1>4, <1>5, <1>6, <1>7, <1>8, <1>9, <1>10, <1>11, <1>12, Zenon DEF VoiceStep

(* Every turn of a device keeps the interview's record.                      *)
LEMMA DeviceStepProceeds ==
  ASSUME InterviewInv, NEW d \in Devices, DeviceStep(d)
  PROVE  Proceeds(d)
  BY BeginProceeds, TurnProceeds, Zenon DEF DeviceStep, Advances

(* Commands, imports and the clock leave the interview's record alone.       *)
LEMMA OutsideKeeps ==
  ASSUME Outside
  PROVE  UNCHANGED <<world, session, shown>>
  BY Zenon DEF Outside, Command, Forget, Import, Tick

(* The relay's answer to a reload.                                           *)
LEMMA LoadedKeeps ==
  ASSUME InterviewInv, ScreenInv, VoiceInv(voice), Loaded
  PROVE  InterviewInv' /\ ScreenInv'
<1>1. OnScreen /\ phone \in Devices /\ Proceeds(phone) /\ UNCHANGED <<phone, job, noticed>> /\ request' = NoJob
  BY BeginProceeds, Zenon DEF Loaded, ScreenInv
<1>2. InterviewInv' /\ OnScreen'
  BY <1>1, ProceedsKeeps, Zenon DEF Proceeds, OnScreen
<1>3. /\ DOMAIN shown = Devices /\ shown[phone].revision \in Nat /\ shown[phone].revision <= session.revision
      /\ noticed \in Nat /\ noticed <= shown[phone].revision
      /\ Screened(voice) /\ (job = NoJob \/ job.action \in ScreenJobs)
      /\ noticed = shown[phone].revision => Faces(voice, Asking)
  BY <1>1, Zenon DEF InterviewInv, ScreenInv
<1>4. session.revision \in Nat /\ session'.revision \in Nat /\ session'.revision >= session.revision
  BY <1>1, <1>2 DEF InterviewInv, Stored, NoSession, Proceeds
<1>5. shown'[phone] = shown[phone] \/ shown'[phone].revision = session'.revision
  BY <1>1, <1>3, Zenon DEF Proceeds
<1>6. shown'[phone].revision \in Nat /\ shown[phone].revision <= shown'[phone].revision
  BY <1>3, <1>4, <1>5
<1>7. Asking = shown[phone].question.key /\ Asking' = shown'[phone].question.key
  BY <1>1, <1>2, Zenon DEF Asking
<1>8. /\ Screened(voice') /\ (Engaged(voice') => Engaged(voice)) /\ voice'.about = voice.about
      /\ voice.outdated => voice'.outdated
      /\ shown'[phone].revision = shown[phone].revision /\ Asking' # Asking => voice'.outdated
  BY <1>3, <1>7, Zenon DEF Loaded, Screened, Engaged, VoiceInv, Voice, VoiceFields
<1>9. noticed' = shown'[phone].revision => Faces(voice', Asking')
  BY <1>1, <1>3, <1>6, <1>8 DEF Faces
<1>10. noticed' \in Nat /\ noticed' <= shown'[phone].revision
  BY <1>1, <1>3, <1>6
<1> QED
  BY <1>1, <1>2, <1>3, <1>8, <1>9, <1>10, Zenon DEF ScreenInv

(* The relay's answer to a turn: it brings a later revision, or is lost.     *)
LEMMA TurnMadeKeeps ==
  ASSUME InterviewInv, ScreenInv, VoiceInv(voice), TurnMade
  PROVE  InterviewInv' /\ ScreenInv'
<1>1. OnScreen /\ phone \in Devices /\ UNCHANGED <<phone, job, noticed>> /\ request' = NoJob
  BY Zenon DEF TurnMade, ScreenInv
<1>2. request.action \in ScreenJobs
  BY <1>1, Zenon DEF TurnMade, ScreenInv, Idle
<1>3. Advances(phone)
  BY <1>1, <1>2, TurnProceeds, Zenon DEF TurnMade, Turned, ScreenJobs
<1>4. InterviewInv' /\ OnScreen'
  BY <1>1, <1>3, ProceedsKeeps, Zenon DEF Advances, Proceeds, OnScreen
<1>5. /\ DOMAIN shown = Devices /\ shown[phone].revision \in Nat /\ shown[phone].revision <= session.revision
      /\ noticed \in Nat /\ noticed <= shown[phone].revision
      /\ Screened(voice) /\ (job = NoJob \/ job.action \in ScreenJobs)
      /\ noticed = shown[phone].revision => Faces(voice, Asking)
  BY <1>1, Zenon DEF InterviewInv, ScreenInv
<1>6. session.revision \in Nat /\ session'.revision = session.revision + 1
  BY <1>3 DEF InterviewInv, Stored, NoSession, Advances
<1>7. CASE shown' = shown
  <2>1. Follows(voice, voice')
    BY <1>7, FailedKeeps, Zenon DEF TurnMade
  <2>2. Asking' = Asking
    BY <1>1, <1>4, <1>7, Zenon DEF Asking
  <2>3. Screened(voice') /\ (Faces(voice, Asking) => Faces(voice', Asking'))
    BY <1>5, <2>1, <2>2, Zenon DEF Follows
  <2> QED
    BY <1>1, <1>4, <1>5, <1>7, <2>3, Zenon DEF ScreenInv
<1>8. CASE shown' # shown
  <2>1. shown'[phone].revision = session.revision + 1 /\ Named(shown'[phone].question.key)
    BY <1>1, <1>3, <1>5, <1>6, <1>8, Zenon DEF Advances, Proceeds
  <2>2. noticed' # shown'[phone].revision /\ noticed' <= shown'[phone].revision
    BY <1>1, <1>5, <1>6, <2>1
  <2>3. \A q : Named(q) => Follows(voice, Start(voice, q))
    BY StartKeeps, Zenon DEF Named
  <2>4. Screened(voice')
    BY <1>5, <1>8, <2>1, <2>3, Zenon DEF TurnMade, Follows
  <2> QED
    BY <1>1, <1>4, <1>5, <2>2, <2>4, Zenon DEF ScreenInv
<1> QED
  BY <1>7, <1>8, Zenon

(* Every step keeps the interview's record and what its screen says and      *)
(* listens for.                                                              *)
LEMMA ScreenStep ==
  ASSUME InterviewInv, ScreenInv, VoiceInv(voice), [SpokenNext]_<<vars, spoken>>
  PROVE  InterviewInv' /\ ScreenInv'
<1>1. CASE UNCHANGED <<world, session, shown>> /\ UNCHANGED spoken
  BY <1>1, Zenon DEF InterviewInv, ScreenInv, spoken, Stored, OnScreen, Asking, Screened, Faces,
     Engaged, NoSession
<1>2. CASE VoiceStep /\ UNCHANGED vars
  <2>1. UNCHANGED <<world, session, shown>>
    BY <1>2, Zenon DEF vars
  <2>2. InterviewInv' /\ (OnScreen' <=> OnScreen)
    BY <2>1, Zenon DEF InterviewInv, Stored, OnScreen
  <2>3. CASE OnScreen
    <3>1. Attends
      BY <1>2, <2>3, VoiceStepAttends, Zenon
    <3>2. Asking' = Asking
      BY <2>1, <2>2, <3>1, Zenon DEF Attends, Asking
    <3>3. /\ phone \in Devices /\ noticed \in Nat /\ noticed <= shown[phone].revision
          /\ noticed = shown[phone].revision => Faces(voice, Asking)
      BY <2>3, Zenon DEF ScreenInv
    <3>4. shown[phone].revision \in Nat
      BY <3>3, Zenon DEF InterviewInv
    <3>5. /\ noticed' \in Nat /\ noticed' <= shown[phone].revision
          /\ noticed' = shown[phone].revision => Faces(voice', Asking)
      BY <3>1, <3>3, <3>4 DEF Attends
    <3> QED
      BY <2>1, <2>2, <3>1, <3>2, <3>3, <3>5, Zenon DEF ScreenInv, Attends
  <2>4. CASE ~OnScreen
    BY <2>2, <2>4, Zenon DEF ScreenInv
  <2> QED
    BY <2>3, <2>4, Zenon
<1>3. ASSUME NEW d \in Devices \ {phone}, DeviceStep(d), UNCHANGED spoken
      PROVE  InterviewInv' /\ ScreenInv'
  <2>1. Proceeds(d) /\ InterviewInv'
    BY <1>3, DeviceStepProceeds, ProceedsKeeps, Zenon
  <2>2. OnScreen => phone \in Devices /\ shown'[phone] = shown[phone]
    BY <1>3, <2>1, Zenon DEF Proceeds, InterviewInv, ScreenInv
  <2>3. OnScreen' <=> OnScreen
    BY <2>1, Zenon DEF Proceeds, OnScreen
  <2>4. UNCHANGED <<phone, voice, job, request, noticed>>
    BY <1>3, Zenon DEF spoken
  <2>5. OnScreen => Asking' = Asking
    BY <2>2, <2>3, <2>4, Zenon DEF Asking
  <2> QED
    BY <2>1, <2>2, <2>3, <2>4, <2>5, Zenon DEF ScreenInv
<1>4. CASE Outside /\ UNCHANGED spoken
  BY <1>1, <1>4, OutsideKeeps, Zenon
<1>5. CASE UNCHANGED <<vars, spoken>>
  BY <1>1, <1>5, Zenon DEF vars, spoken
<1> QED
  BY <1>2, <1>3, <1>4, <1>5, LoadedKeeps, TurnMadeKeeps, Zenon DEF SpokenNext

(* An answer handed over was heard while the microphone was open for what    *)
(* the voice had said last.                                                  *)
LEMMA TakesAnswer ==
  ASSUME NEW outcomes, \A w \in outcomes : Hands(voice, w), VoiceTakes(outcomes),
         voice.handed = Silence, job = NoJob, job' # NoJob
  PROVE  voice.mic /\ job'.about = voice.about /\ (job'.action = "answer" => OnScreen)
<1>1. PICK w \in outcomes : w.handed # Silence /\ job' = Job(IF OnScreen THEN "answer" ELSE "send", w.handed[1])
  BY Zenon DEF VoiceTakes
<1>2. voice.mic /\ w.handed = <<voice.about>>
  BY <1>1, Zenon DEF Hands
<1> QED
  BY <1>1, <1>2 DEF Job

(* Only the voice makes an answer out of what was said.                      *)
LEMMA AnswerStep ==
  ASSUME SpokenInv, [SpokenNext]_<<vars, spoken>>,
         job = NoJob, job' # NoJob, job'.action = "answer", job'.about # Nothing
  PROVE  voice.mic /\ job'.about = voice.about /\ OnScreen
<1>0. VoiceInv(voice) /\ voice.handed = Silence
  BY Zenon DEF SpokenInv
<1>1. job' # job
  BY Zenon
<1>2. RunPosted \/ Talk \/ \E action \in {"pause", "skip", "answer"} : Button(action)
  <2>1. ~(Post \/ ResumeStart \/ Load \/ Hush \/ Notice \/ RunJob \/ RequestFailed)
    BY <1>1, Zenon DEF Post, ResumeStart, Load, Hush, Notice, RunJob, RequestFailed
  <2>2. ~(StartTalk \/ EndTalk \/ Interrupt \/ TypeMessage \/ SendSpoken \/ TurnReturns)
    BY <1>1, Zenon DEF StartTalk, EndTalk, Interrupt, TypeMessage, SendSpoken, TurnReturns
  <2>3. ~(Loaded \/ TurnMade \/ UNCHANGED spoken \/ UNCHANGED <<vars, spoken>>)
    BY <1>1, Zenon DEF Loaded, TurnMade, spoken
  <2> QED
    BY <2>1, <2>2, <2>3, Zenon DEF SpokenNext, VoiceStep
<1>3. CASE RunPosted
  <2>1. ASSUME NEW c \in voice.calls, VoiceTakes(RunCall(voice, c))
        PROVE  voice.mic /\ job'.about = voice.about /\ OnScreen
    <3>1. \A w \in RunCall(voice, c) : Hands(voice, w)
      BY <1>0, RunCallKeeps, Zenon DEF Hands
    <3> QED
      BY <1>0, <2>1, <3>1, TakesAnswer, Zenon
  <2>2. ASSUME NEW p \in voice.late, VoiceTakes(RunLate(voice, p))
        PROVE  voice.mic /\ job'.about = voice.about /\ OnScreen
    <3>1. \A w \in RunLate(voice, p) : Hands(voice, w)
      BY <1>0, RunLateKeeps, Zenon
    <3> QED
      BY <1>0, <2>2, <3>1, TakesAnswer, Zenon
  <2> QED
    BY <1>3, <2>1, <2>2, Zenon DEF RunPosted
<1>4. CASE Talk
  <2>1. CASE voice.state = "listening"
    <3>1. voice.mic /\ VoiceTakes(FinishAnswer(voice))
      BY <1>0, <1>4, <2>1, Zenon DEF Talk, VoiceInv
    <3>2. \A w \in FinishAnswer(voice) : Hands(voice, w)
      BY <1>0, <3>1, FinishKeeps, Zenon
    <3> QED
      BY <1>0, <3>1, <3>2, TakesAnswer, Zenon
  <2>2. CASE voice.state = "speaking"
    <3>1. VoiceTakes(InterruptAndListen(voice))
      BY <1>4, <2>2, Zenon DEF Talk
    <3>2. \A w \in InterruptAndListen(voice) : Hands(voice, w)
      BY <1>0, InterruptKeeps, Zenon DEF Hands
    <3> QED
      BY <1>0, <3>1, <3>2, TakesAnswer, Zenon
  <2>3. CASE voice.state \notin {"listening", "speaking"}
    BY <1>4, <2>3 DEF Talk, Job
  <2> QED
    BY <2>1, <2>2, <2>3, Zenon
<1>5. ASSUME NEW action, Button(action)
      PROVE  FALSE
  BY <1>5, Zenon DEF Button, Job
<1> QED
  BY <1>2, <1>3, <1>4, <1>5, Zenon

(* sendDraft sends what the person said as the answer to the question on the *)
(* screen: an answer that comes from the voice was heard while the voice     *)
(* asked that question, unless the screen has yet to notice the position it  *)
(* was shown (onChange of the revision), a start went on with a question     *)
(* replaced meanwhile, or a reload brought another question under the same   *)
(* revision.  It holds for any catalogue, any number of devices and any      *)
(* number of callbacks, timers and suspended starts under way.               *)
THEOREM AnswersTheQuestion == SpokenSpec => AnswersItsQuestion
<1> DEFINE Inv == SpokenInv /\ InterviewInv /\ ScreenInv
<1>1. SpokenInit => Inv
  <2> SUFFICES ASSUME SpokenInit PROVE Inv
    BY Zenon
  <2>1. SpokenInv /\ Screened(voice) /\ ~Engaged(voice)
    BY FreshKeeps, Zenon DEF SpokenInit, SpokenInv, Engaged, FreshVoice
  <2>2. InterviewInv
    BY NoneIsNamed DEF SpokenInit, Init, InterviewInv, NoReply, NoQuestion, NoSession
  <2>3. OnScreen => phone \in Devices /\ shown[phone].revision = 0 /\ noticed = 0
    BY Zenon DEF SpokenInit, Init, OnScreen, NoReply
  <2>4. job = NoJob /\ request = NoJob
    BY Zenon DEF SpokenInit
  <2> QED
    BY <2>1, <2>2, <2>3, <2>4 DEF ScreenInv, Faces
<1>2. Inv /\ [SpokenNext]_<<vars, spoken>> => Inv'
  BY VoiceInvStep, ScreenStep, Zenon DEF SpokenInv
<1>3. ASSUME Inv, [SpokenNext]_<<vars, spoken>>,
             job = NoJob, job' # NoJob, job'.action = "answer", job'.about # Nothing
      PROVE  job'.about = Asking \/ noticed # shown[phone].revision \/ voice.outdated
  <2>1. voice.mic /\ job'.about = voice.about /\ OnScreen
    BY <1>3, AnswerStep, Zenon
  <2> QED
    BY <1>3, <2>1, Zenon DEF ScreenInv, Faces, Engaged
<1>4. Inv /\ [SpokenNext]_<<vars, spoken>> =>
        [/\ job = NoJob /\ job' # NoJob /\ job'.action = "answer" /\ job'.about # Nothing
         => job'.about = Asking \/ noticed # shown[phone].revision \/ voice.outdated]_<<vars, spoken>>
  BY <1>3, Zenon
<1> HIDE DEF Inv
<1> QED
  BY <1>1, <1>2, <1>4, PTL DEF SpokenSpec, AnswersItsQuestion

=============================================================================
