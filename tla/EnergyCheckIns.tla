--------------------------- MODULE EnergyCheckIns ---------------------------
(***************************************************************************)
(* Energy check-ins and what is learned from them (energy/checkins.py,     *)
(* energy/learning.py).  A prompt is scheduled under consent and the       *)
(* user's timing preferences, snoozed, answered or missed; the answers of  *)
(* one time of day become a pattern.  The functions are pure: their caller *)
(* keeps the value they return, and may handle a tap later than it was     *)
(* made.  Time is in hours of one local zone.                              *)
(***************************************************************************)
EXTENDS Integers, Sequences, FiniteSets, FiniteSetsExt

CONSTANTS
  CheckIns,          \* check-in ids
  Preferences,       \* the preferences the user may set
  NoPrompt           \* a check-in that was not evaluated yet

VARIABLES
  now,               \* the current hour
  consent,           \* the EnergyConsent in force
  decisions,         \* every consent decision, in order
  preferences,       \* the EnergyPreferences in force
  prompt,            \* the state of each check-in
  observations       \* the EnergyObservations

energyVars == <<now, consent, decisions, preferences, prompt, observations>>

-----------------------------------------------------------------------------
\* Types.

DailyWindow(from, to) == [from |-> from, to |-> to]
PreferencesOf(awake, quiet, enabled, response, snooze) ==
  [awake |-> awake, quiet |-> quiet, enabled |-> enabled, response |-> response, snooze |-> snooze]
Consent(granted, decided) == [granted |-> granted, decided |-> decided]

Active(status, scheduled, respondBy, snoozes) ==
  [status |-> status, scheduled |-> scheduled, respondBy |-> respondBy, snoozes |-> snoozes]
Ended(status, snoozes) == [status |-> status, snoozes |-> snoozes]
Suppressed(reason) == [status |-> "suppressed", reason |-> reason]
Observation(id, rating, when) == [id |-> id, rating |-> rating, when |-> when]

IsActive(p) == p # NoPrompt /\ p.status \in {"scheduled", "snoozed"}

-----------------------------------------------------------------------------
\* The timing policy.

Hour(t) == t % 24

\* A window may cross midnight.
WindowContains(w, hour) ==
  IF w.from < w.to THEN w.from <= hour /\ hour < w.to ELSE hour >= w.from \/ hour < w.to

SuppressionReason(prefs, given, t) ==
  IF ~given.granted \/ given.decided > t THEN "consent_required"
  ELSE IF ~prefs.enabled THEN "notifications_disabled"
  ELSE IF ~WindowContains(prefs.awake, Hour(t)) THEN "outside_awake_window"
  ELSE IF prefs.quiet # NoPrompt /\ WindowContains(prefs.quiet, Hour(t)) THEN "quiet_hours"
  ELSE "none"

ScheduleCheckIn(prefs, given, t) ==
  LET reason == SuppressionReason(prefs, given, t) IN
  IF reason # "none" THEN Suppressed(reason) ELSE Active("scheduled", t, t + prefs.response, 0)

MarkMissed(p, t) == IF t <= p.respondBy THEN p ELSE Ended("missed", p.snoozes)

\* mutant: whoever consents by now has consented then
ConsentedNow(given, t) == given.granted

\* The decision in force was made by the time of the tap.
Consented(given, t) == given.granted /\ given.decided <= t

RespondTo(p, t, given) ==
  IF ~Consented(given, t) THEN Suppressed("consent_required")
  ELSE IF t > p.respondBy THEN MarkMissed(p, t) ELSE Ended("responded", p.snoozes)

SnoozeCheckIn(p, prefs, given, t) ==
  LET reason == SuppressionReason(prefs, given, t)
      scheduled == t + prefs.snooze
  IN  IF reason # "none" THEN Suppressed(reason)
      ELSE IF t > p.respondBy THEN MarkMissed(p, t)
      ELSE IF SuppressionReason(prefs, given, scheduled) # "none" THEN Ended("missed", p.snoozes + 1)
      ELSE Active("snoozed", scheduled, scheduled + prefs.response, p.snoozes + 1)

-----------------------------------------------------------------------------
\* Learning.

Buckets == {"morning", "afternoon", "evening", "night"}

Bucket(t) ==
  LET h == Hour(t) IN
  CASE h \in 5..11 -> "morning" [] h \in 12..16 -> "afternoon" [] h \in 17..21 -> "evening" [] OTHER -> "night"

Samples(all, b) == {o \in all : Bucket(o.when) = b}
RatingSum(samples) == MapThenSumSet(LAMBDA o : o.rating, samples)

\* n times the sum of the distances of the ratings from their mean.
Spread(samples) ==
  LET n == Cardinality(samples)
      off(o) == n * o.rating - RatingSum(samples)
  IN  MapThenSumSet(LAMBDA o : IF off(o) < 0 THEN 0 - off(o) ELSE off(o), samples)

\* Whether agreement times sample factor is the planner's minimum, 0.6, in
\* integers: agreement is 1 - Spread / (4 n^2), the factor min(1, n / 5).
Confident(samples) ==
  LET n == Cardinality(samples)
  IN  10 * (4 * n * n - Spread(samples)) * Min({n, 5}) >= 6 * 5 * 4 * n * n

PatternOf(b, samples) ==
  LET n == Cardinality(samples) IN
  [bucket |-> b, level |-> (2 * RatingSum(samples) + n) \div (2 * n), confident |-> Confident(samples),
   sources |-> {o.id : o \in samples}]

LearnEnergyPatterns(all) ==
  {PatternOf(b, Samples(all, b)) : b \in {c \in Buckets : Cardinality(Samples(all, c)) >= 3}}

-----------------------------------------------------------------------------
\* The caller.

EnergyInit(history) ==
  /\ now = 0
  /\ consent = Consent(FALSE, 0) /\ decisions = <<Consent(FALSE, 0)>>
  /\ preferences \in Preferences
  /\ prompt = [c \in CheckIns |-> NoPrompt]
  /\ observations = history

Decide(granted) ==
  /\ granted # consent.granted
  /\ consent' = Consent(granted, now)
  /\ decisions' = Append(decisions, consent')
  /\ UNCHANGED <<now, preferences, prompt, observations>>

SetPreferences(prefs) ==
  /\ prefs # preferences
  /\ preferences' = prefs
  /\ UNCHANGED <<now, consent, decisions, prompt, observations>>

Evaluate(c) ==
  /\ prompt[c] = NoPrompt
  /\ prompt' = [prompt EXCEPT ![c] = ScheduleCheckIn(preferences, consent, now)]
  /\ UNCHANGED <<now, consent, decisions, preferences, observations>>

\* A tap at t, on a prompt that is shown by then, is handled now.
Snooze(c, t) ==
  /\ IsActive(prompt[c]) /\ t \in prompt[c].scheduled..now
  /\ prompt' = [prompt EXCEPT ![c] = SnoozeCheckIn(prompt[c], preferences, consent, t)]
  /\ UNCHANGED <<now, consent, decisions, preferences, observations>>

Respond(c, t, rating) ==
  /\ IsActive(prompt[c]) /\ t \in prompt[c].scheduled..now
  /\ prompt' = [prompt EXCEPT ![c] = RespondTo(prompt[c], t, consent)]
  /\ observations' = IF prompt'[c].status = "responded"
                     THEN observations \cup {Observation(c, rating, t)} ELSE observations
  /\ UNCHANGED <<now, consent, decisions, preferences>>

Sweep(c) ==
  /\ IsActive(prompt[c]) /\ now > prompt[c].respondBy
  /\ prompt' = [prompt EXCEPT ![c] = MarkMissed(prompt[c], now)]
  /\ UNCHANGED <<now, consent, decisions, preferences, observations>>

PassHour ==
  /\ now' = now + 1
  /\ UNCHANGED <<consent, decisions, preferences, prompt, observations>>
=============================================================================
