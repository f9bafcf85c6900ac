----------------------------- MODULE PlannedDay -----------------------------
(***************************************************************************)
(* A day or a week that is planned and then replanned with an energy       *)
(* pattern (energy/planner_feedback.py): the planner of DayPlanner, the    *)
(* patterns of EnergyCheckIns, and how week planning turns the confirmed   *)
(* knowledge into a planner request (week_planning.py).                    *)
(*                                                                         *)
(* A day has DayLength minutes.  The window starts at midnight of the      *)
(* planning zone, time 0; a routine's zone is its offset from that zone,   *)
(* or None when it is unknown.                                             *)
(***************************************************************************)
EXTENDS DayPlanner, EnergyCheckIns

CONSTANTS
  Worlds,            \* what each environment offers: requests, earlier reports, bounds
  DayLength,         \* minutes of a day
  FirstWeekday       \* the weekday the week starts on, Monday = 0

VARIABLES
  world,             \* the name of the environment this behaviour is in
  previous,          \* the proposal that is being replanned, or None
  feedback           \* the outcome of apply_energy_pattern, or None

vars == <<world, previous, feedback, plannerVars, energyVars>>

ASSUME RequestsAreValid == \A w \in DOMAIN Worlds : \A r \in Worlds[w].requests : ValidRequest(r)

-----------------------------------------------------------------------------
\* map_knowledge: every routine becomes an activity for each of its days,
\* everything else an explicit gap.

RoutineFlexibilities == {"fixed", "preferred", "flexible", "optional"}

\* RoutineDetails and its validator.
ValidRoutine(p) ==
  /\ p.days # {} /\ p.days \subseteq 0..6
  /\ p.duration \in 1..DayLength /\ p.flexibility \in RoutineFlexibilities
  /\ p.start \in (0..(DayLength - 1)) \cup {None}
  /\ p.minimum \in 0..Cardinality(p.days)
  /\ p.flexibility = "fixed" => p.start # None
  /\ {p.travel, p.preparation, p.transition} \subseteq 0..DayLength
  /\ p.priority \in 0..10

Timed(v) == v.routine # None /\ v.routine.zone # None

\* The permitted days of the week from the window's first date in the routine's zone.
Dates(p) ==
  LET first == p.zone \div DayLength
  IN  {d \in first..(first + 6) : (FirstWeekday + d) % 7 \in p.days}

\* With a minimum frequency, that many of the first ones.
Selected(p) ==
  IF p.minimum = 0 THEN Dates(p)
  ELSE {d \in Dates(p) : Cardinality({e \in Dates(p) : e <= d}) <= p.minimum}

\* The order of the ids is that of the memory ids, then of the dates.
OccurrenceId(v, d) == 16 * v.id + d + 2
OccurrenceIds(v) == {OccurrenceId(v, d) : d \in Selected(v.routine)}

\* A routine whose dependencies are not all timed routines becomes a gap.
Resolved(views, v) ==
  \A d \in v.routine.dependencies : \E w \in views : w.id = d /\ Timed(w)

MappedViews(views) == {v \in views : Timed(v) /\ Resolved(views, v)}
Gaps(views) == {v.id : v \in views} \ {v.id : v \in MappedViews(views)}

\* Every occurrence waits for all occurrences of the routines it depends on.
DependencyIds(views, v) ==
  UNION {OccurrenceIds(w) : w \in {x \in views : x.id \in v.routine.dependencies /\ Timed(x)}}

\* Preparation and travel come before a fixed start and the transition after
\* its end, inside the reserved interval; otherwise they are travel.
ActivityOf(views, v, d) ==
  LET p == v.routine
      nominal == d * DayLength + p.start - p.zone
      fixed == p.flexibility = "fixed"
      lead == p.preparation + p.travel
  IN  [flexibility |-> IF fixed THEN "fixed" ELSE "flexible",
       duration |-> IF fixed THEN lead + p.duration + p.transition ELSE p.duration,
       fixedStart |-> IF fixed THEN nominal - lead ELSE None,
       earliest |-> IF fixed \/ p.start = None THEN None ELSE nominal,
       latest |-> None, deadline |-> None, recover |-> FALSE,
       dependencies |-> DependencyIds(views, v),
       before |-> IF fixed THEN 0 ELSE lead, after |-> IF fixed THEN 0 ELSE p.transition,
       energy |-> 1, goal |-> IF fixed \/ p.flexibility = "optional" THEN 0 ELSE p.priority,
       importance |-> 0, group |-> v.id, title |-> v.id, eligible |-> ~fixed, micro |-> FALSE]

\* The WeekPlanRequest of a preview.
WeekRequest(views) ==
  LET occurrence == [i \in UNION {OccurrenceIds(v) : v \in MappedViews(views)} |->
        CHOOSE o \in {<<v, d>> : v \in MappedViews(views), d \in (0 - 7)..14} :
          o[2] \in Selected(o[1].routine) /\ OccurrenceId(o[1], o[2]) = i]
  IN  [ids |-> DOMAIN occurrence,
       act |-> [i \in DOMAIN occurrence |-> ActivityOf(views, occurrence[i][1], occurrence[i][2])],
       window |-> 7 * DayLength, midnight |-> 0, energy |-> {}, baseline |-> << >>,
       revision |-> 1, expected |-> 1, fold |-> 0, shift |-> 0, views |-> views]

-----------------------------------------------------------------------------
\* apply_energy_pattern.

\* The hours of a bucket, from midnight.
BucketHours(b) ==
  CASE b = "morning" -> {<<5, 12>>} [] b = "afternoon" -> {<<12, 17>>}
    [] b = "evening" -> {<<17, 22>>} [] OTHER -> {<<0, 5>>, <<22, 24>>}

\* A wall-clock time as an instant; one that comes twice is the first of the two.
Instant(r, wall) == IF wall < r.fold THEN wall ELSE wall + r.shift
HourOfDay(r, h) == Instant(r, Wall(r, r.midnight) + h)

\* Clipped to the window, as energy windows of the pattern's level.
PatternWindows(r, pattern) ==
  LET clip(h) == [from |-> Max({HourOfDay(r, h[1]), 0}), to |-> Min({HourOfDay(r, h[2]), r.window}),
                  level |-> pattern.level]
  IN  {w \in {clip(h) : h \in BucketHours(pattern.bucket)} : w.from < w.to}

\* The activities' own blocks; travel is not part of the baseline.
Baseline(blocks) == ById({b \in ToSet(blocks) : b.part = "activity"})

ProtectedIntervals(r, p) ==
  {<<b.id, Wall(r, b.from), Wall(r, b.to)>> : b \in {c \in ToSet(p.blocks) : c.kind \in {"fixed", "protected"}}}

Outcome(result, affected, sources) == [result |-> result, affected |-> affected, sources |-> sources]

\* Too little confidence, or no hour of the window: the proposal stays.
KeepPlan(pattern) ==
  /\ phase = "planned" /\ previous = None /\ feedback = None
  /\ ~pattern.confident \/ PatternWindows(request, pattern) = {}
  /\ feedback' = Outcome("kept", {}, pattern.sources)
  /\ UNCHANGED <<world, previous, plannerVars, energyVars>>

\* The request is planned again with the pattern's windows and a baseline.
Replan(pattern) ==
  /\ phase = "planned" /\ previous = None /\ feedback = None
  /\ pattern.confident /\ PatternWindows(request, pattern) # {}
  /\ previous' = proposal
  /\ request' = [request EXCEPT !.baseline = Baseline(proposal.blocks), !.energy = PatternWindows(request, pattern)]
  /\ phase' = "asked" /\ placed' = {}
  /\ UNCHANGED <<world, feedback, at, pending, unscheduled, proposal, energyVars>>

Changed(d) == {i[2] : i \in d.added \cup d.removed \cup d.moved}

\* UnsafeEnergyReplanError, or the new proposal with what it changed.
Judge ==
  /\ phase = "planned" /\ previous # None /\ feedback = None
  /\ feedback' =
       IF \/ ProtectedIntervals(request, previous) # ProtectedIntervals(request, proposal)
          \/ ~(Changed(proposal.diff) \subseteq Flexible(request))
       THEN Outcome("refused", {}, {})
       ELSE Outcome("replanned", Changed(proposal.diff), {})
  /\ UNCHANGED <<world, previous, plannerVars, energyVars>>

-----------------------------------------------------------------------------
Init ==
  /\ world \in DOMAIN Worlds
  /\ PlannerInit(Worlds[world].requests)
  /\ EnergyInit(Worlds[world].reports)
  /\ previous = None /\ feedback = None

\* Planning runs to its end; check-ins are handled before or after.
Between == phase = "planned" /\ previous = None /\ feedback = None
AsIs == UNCHANGED <<world, previous, feedback>>

Next ==
  \/ RejectStale /\ AsIs /\ UNCHANGED energyVars
  \/ RejectFixed /\ AsIs /\ UNCHANGED energyVars
  \/ PlaceFixed /\ AsIs /\ UNCHANGED energyVars
  \/ PlaceBest /\ AsIs /\ UNCHANGED energyVars
  \/ NoCapacity /\ AsIs /\ UNCHANGED energyVars
  \/ NoDependency /\ AsIs /\ UNCHANGED energyVars
  \/ Render /\ AsIs /\ UNCHANGED energyVars
  \/ Between /\ now < Worlds[world].hours /\ PassHour /\ AsIs /\ UNCHANGED plannerVars
  \/ \E granted \in BOOLEAN :
       Between /\ Len(decisions) <= Worlds[world].decisions /\ Decide(granted) /\ AsIs /\ UNCHANGED plannerVars
  \/ \E prefs \in Preferences :
       Between /\ Worlds[world].hours > 0 /\ SetPreferences(prefs) /\ AsIs /\ UNCHANGED plannerVars
  \/ \E c \in Worlds[world].checkIns : Between /\ Evaluate(c) /\ AsIs /\ UNCHANGED plannerVars
  \/ \E c \in Worlds[world].checkIns : Between /\ Sweep(c) /\ AsIs /\ UNCHANGED plannerVars
  \/ \E c \in Worlds[world].checkIns, t \in 0..now : Between /\ Snooze(c, t) /\ AsIs /\ UNCHANGED plannerVars
  \/ \E c \in Worlds[world].checkIns, t \in 0..now, rating \in Worlds[world].ratings :
       Between /\ Respond(c, t, rating) /\ AsIs /\ UNCHANGED plannerVars
  \/ \E pattern \in LearnEnergyPatterns(observations) : KeepPlan(pattern)
  \/ \E pattern \in LearnEnergyPatterns(observations) : Replan(pattern)
  \/ Judge

Spec == Init /\ [][Next]_vars

-----------------------------------------------------------------------------
\* Properties.

\* Every report was made while the user consented, whatever was decided
\* between the tap and its handling (respond_to_check_in).
ReportsHadConsent ==
  \A o \in observations \ Worlds[world].reports : \E i \in DOMAIN decisions :
    /\ decisions[i].granted /\ decisions[i].decided <= o.when
    /\ i = Len(decisions) \/ o.when <= decisions[i + 1].decided

\* The energy windows of a replan rest on three reports of those hours of the
\* day: what learning groups and what planning prefers are the same hours.
EnergyRestsOnReports ==
  previous # None =>
    \A w \in request.energy : \A t \in w.from..(w.to - 1) :
      Cardinality({o \in observations : \E b \in Buckets :
        /\ \E h \in BucketHours(b) : h[1] <= Hour(o.when) /\ Hour(o.when) < h[2]
        /\ \E h \in BucketHours(b) : HourOfDay(request, h[1]) <= t /\ t < HourOfDay(request, h[2])}) >= 3

HasTravel(a) == request.act[a].before + request.act[a].after > 0

\* A replan never shows a reserved block elsewhere, and is refused only
\* because one of the two plans was rejected for its dependencies, or, since
\* travel is missing in the baseline, because a reserved activity has travel.
RefusalExplained ==
  feedback # None /\ feedback.result = "refused" =>
    \/ (previous.blocks = << >>) # (proposal.blocks = << >>)
    \/ \E a \in Reserved(request) : HasTravel(a)

Same(p, q) == {b \in ToSet(p.blocks) : b.kind # "available"} = {b \in ToSet(q.blocks) : b.kind # "available"}

\* A replan that reports no effect has none: unless the clocks went back, for
\* moves are told by the wall clock (build_diff).
SilentReplanChangesNothing ==
  feedback # None /\ feedback.result = "replanned" /\ feedback.affected = {} =>
    Same(previous, proposal) \/ FoldedIn(0, request.window)
=============================================================================
