----------------------------- MODULE DayPlanner -----------------------------
(***************************************************************************)
(* The deterministic planner (planner.py and planner_*.py): fixed and      *)
(* protected activities are reserved first, the flexible ones are placed   *)
(* greedily one by one at their best free minute, and the placements are   *)
(* rendered as a gapless plan, a calendar projection and a diff.           *)
(*                                                                         *)
(* Time is real elapsed time in minutes from the window's start.  Activity *)
(* ids are integers, so that their order breaks ties as the string order   *)
(* does.  The lists of the code whose order nothing reads are sets and     *)
(* functions.  Titles, guidance, the wording of explanations and the input *)
(* fingerprint are left out.                                               *)
(***************************************************************************)
EXTENDS Integers, Sequences, FiniteSets, FiniteSetsExt, SequencesExt

CONSTANT None        \* an optional field that is not set

VARIABLES
  request,           \* the DayPlanRequest being planned
  phase,             \* "asked", "placing", "stale" or "planned"
  placed,            \* the activities that have a placement
  at,                \* their starts
  pending,           \* place_flexible's dictionary of flexible activities
  unscheduled,       \* the reason of each activity that was given up
  proposal           \* the ProposedDay

plannerVars == <<request, phase, placed, at, pending, unscheduled, proposal>>

-----------------------------------------------------------------------------
\* The request.

Flexibilities == {"fixed", "flexible", "protected"}
OptionalTime == Int \cup {None}

PlanActivity ==
  [flexibility : Flexibilities, duration : Nat \ {0}, fixedStart : OptionalTime, earliest : OptionalTime,
   latest : OptionalTime, deadline : OptionalTime, recover : BOOLEAN, dependencies : SUBSET Int,
   before : Nat, after : Nat, energy : 1..5, goal : 0..10, importance : 0..10,
   group : OptionalTime, title : Int, eligible : BOOLEAN, micro : BOOLEAN]

EnergyWindows == [from : Int, to : Int, level : 1..5]

\* A fixed interval exactly for what is fixed or protected.
ValidPlacement(p) == (p.fixedStart # None) <=> (p.flexibility # "flexible")

\* The validators of PlanActivity: a deadline to recover from, bounds in
\* order, no dependency on itself.
ValidActivity(a, p) ==
  /\ p \in PlanActivity
  /\ ValidPlacement(p)
  /\ p.recover => p.deadline # None
  /\ (p.latest # None /\ p.earliest # None) => p.latest > p.earliest
  /\ a \notin p.dependencies

\* The validators of DayPlanRequest.  The clocks go back at the instant fold
\* by shift minutes; midnight is the start of the day, before the window's.
ValidRequest(r) ==
  /\ r.ids \subseteq Int /\ r.act \in [r.ids -> PlanActivity]
  /\ \A a \in r.ids : ValidActivity(a, r.act[a])
  /\ r.window \in Nat \ {0} /\ r.midnight \in Int /\ r.midnight <= 0
  /\ \A w \in r.energy : w \in EnergyWindows /\ w.from < w.to
  /\ r.revision \in Nat \ {0} /\ r.expected \in Nat \ {0}
  /\ r.fold \in Int /\ r.shift \in Nat

Flexible(r) == {a \in r.ids : r.act[a].flexibility = "flexible"}
Reserved(r) == r.ids \ Flexible(r)

\* The wall clock of an instant: what two local datetimes of one zone are
\* compared by.
Wall(r, t) == IF t < r.fold THEN t ELSE t - r.shift

-----------------------------------------------------------------------------
\* Scores.

Dependents(r, a) == Cardinality({b \in r.ids : a \in r.act[b].dependencies})

DeadlineScore(r, a) ==
  LET d == r.act[a].deadline IN
  CASE d = None -> 0
    [] d # None /\ d < 0 -> 10000 + Min({0 - d, 30 * 24 * 60})
    [] d # None /\ d >= 0 /\ d <= r.window -> 5000 - d
    [] OTHER -> Max({0, 1000 - d \div 60})

Distance(x, y) == IF x > y THEN x - y ELSE y - x

EnergyScore(r, a, s) ==
  LET p == r.act[a]
      levels == {w.level : w \in {v \in r.energy : v.from <= s /\ s + p.duration <= v.to}}
  IN  IF levels = {} THEN 0
      ELSE Max({0, 300 - 100 * Min({Distance(l, p.energy) : l \in levels})})

Score(r, a, s) ==
  LET p == r.act[a] IN
  DeadlineScore(r, a) + 400 * Dependents(r, a) - 5 * (p.before + p.after)
    + EnergyScore(r, a, s) + 100 * p.goal + 100 * p.importance

-----------------------------------------------------------------------------
\* Reservations and bounds.

End(r, a, s) == s + r.act[a].duration
ReservedFrom(r, a, s) == s - r.act[a].before
ReservedTo(r, a, s) == End(r, a, s) + r.act[a].after

\* mutant: travel is not part of the reservation
OverlapsWithoutTravel(r, a, s, b, t) == s < End(r, b, t) /\ t < End(r, a, s)

Overlaps(r, a, s, b, t) ==
  ReservedFrom(r, a, s) < ReservedTo(r, b, t) /\ ReservedFrom(r, b, t) < ReservedTo(r, a, s)

\* Only a deadline missed before the window is relaxed, and only on request.
HardDeadline(r, a) ==
  LET d == r.act[a].deadline IN
  IF d # None /\ r.act[a].recover /\ d < 0 THEN None ELSE d

InWindow(r, a, s) == ReservedFrom(r, a, s) >= 0 /\ ReservedTo(r, a, s) <= r.window

SatisfiesTimeBounds(r, a, s) ==
  /\ r.act[a].earliest = None \/ s >= r.act[a].earliest
  /\ r.act[a].latest = None \/ End(r, a, s) <= r.act[a].latest
  /\ HardDeadline(r, a) = None \/ End(r, a, s) <= HardDeadline(r, a)

FixedConflicts(r) ==
  {a \in Reserved(r) :
     LET s == r.act[a].fixedStart IN
     \/ ~InWindow(r, a, s)
     \/ ~SatisfiesTimeBounds(r, a, s)
     \/ \E b \in Reserved(r) \ {a} : Overlaps(r, a, s, b, r.act[b].fixedStart)}

\* mutant: an activity may start before what it depends on ends
DependenciesPlaced(r, a, s, set, start) ==
  /\ InWindow(r, a, s) /\ SatisfiesTimeBounds(r, a, s)
  /\ \A d \in r.act[a].dependencies : d \in set
  /\ \A b \in set : a \in r.act[b].dependencies => End(r, a, s) <= start[b]

\* placement_bounds: start no earlier than lower and no later than upper.
InBounds(r, a, s, set, start) ==
  /\ InWindow(r, a, s) /\ SatisfiesTimeBounds(r, a, s)
  /\ \A d \in r.act[a].dependencies : d \in set /\ End(r, d, start[d]) <= s
  /\ \A b \in set : a \in r.act[b].dependencies => End(r, a, s) <= start[b]

\* The minutes best_placement considers.
FreeStarts(r, a, set, start) ==
  {s \in 0..r.window : InBounds(r, a, s, set, start) /\ \A b \in set : ~Overlaps(r, a, s, b, start[b])}

\* The highest score, the earliest of those.
BestStart(r, a, s, starts) ==
  \A t \in starts : Score(r, a, t) < Score(r, a, s) \/ (Score(r, a, t) = Score(r, a, s) /\ s <= t)

Candidates(r, eligible, set, start) ==
  UNION {LET starts == FreeStarts(r, a, set, start) IN
         {[id |-> a, start |-> s, score |-> Score(r, a, s)] : s \in {t \in starts : BestStart(r, a, t, starts)}}
         : a \in eligible}

\* The order of the candidates: by score, then start, then id.
Precedes(p, q) ==
  \/ p.score > q.score
  \/ p.score = q.score /\ p.start < q.start
  \/ p.score = q.score /\ p.start = q.start /\ p.id <= q.id

-----------------------------------------------------------------------------
\* The internal plan.

Block(part, kind, a, from, to) == [part |-> part, kind |-> kind, id |-> a, from |-> from, to |-> to]

\* The blocks of one placement: its travel and the activity itself.
BlocksOf(r, a, s) ==
  LET p == r.act[a] IN
  {Block("activity", p.flexibility, a, s, End(r, a, s))}
  \cup (IF p.before = 0 THEN {} ELSE {Block("before", "travel", a, ReservedFrom(r, a, s), s)})
  \cup (IF p.after = 0 THEN {} ELSE {Block("after", "travel", a, End(r, a, s), ReservedTo(r, a, s))})

Available(from, to) == IF from < to THEN <<Block("free", "available", None, from, to)>> ELSE << >>

\* By start; no two blocks of a plan start together.
InOrder(blocks) ==
  [i \in 1..Cardinality(blocks) |-> CHOOSE b \in blocks : Cardinality({c \in blocks : c.from < b.from}) = i - 1]
WithFreeTime(acc, b) == [cursor |-> b.to, out |-> acc.out \o Available(acc.cursor, b.from) \o <<b>>]

\* The blocks in order, with the free time between them.
InternalPlan(r, set, start) ==
  LET blocks == InOrder(UNION {BlocksOf(r, a, start[a]) : a \in set})
      all == FoldLeft(WithFreeTime, [cursor |-> 0, out |-> << >>], blocks)
  IN  all.out \o Available(all.cursor, r.window)

-----------------------------------------------------------------------------
\* The calendar projection.

Shown(r, b) == b.kind # "available" /\ r.act[b.id].eligible /\ ~r.act[b.id].micro
GroupOf(r, a) == IF r.act[a].group = None THEN <<"activity", a>> ELSE <<"group", r.act[a].group>>
TitleOf(r, a) == r.act[a].title

\* mutant: blocks of one group are merged over whatever lies between them
MergesOverGaps(r, previous, b) ==
  previous.title = TitleOf(r, b.id) /\ previous.group = GroupOf(r, b.id)

\* _can_merge compares local datetimes of one zone, by their wall clock.
CanMerge(r, previous, b) ==
  /\ Wall(r, previous.to) = Wall(r, b.from)
  /\ previous.title = TitleOf(r, b.id)
  /\ previous.group = GroupOf(r, b.id)

CalendarBlock(r, b) ==
  [group |-> GroupOf(r, b.id), title |-> TitleOf(r, b.id), from |-> b.from, to |-> b.to, sources |-> {b.id}]

ProjectCalendar(r, blocks) ==
  LET add(out, b) ==
        IF ~Shown(r, b) THEN out
        ELSE IF out # << >> /\ CanMerge(r, Last(out), b)
        THEN Front(out) \o <<[Last(out) EXCEPT !.to = b.to, !.sources = @ \cup {b.id}]>>
        ELSE Append(out, CalendarBlock(r, b))
  IN  FoldLeft(add, << >>, blocks)

-----------------------------------------------------------------------------
\* The diff against a baseline of blocks.

BlockId(b) == <<b.part, b.id>>
ById(blocks) == [i \in {BlockId(b) : b \in blocks} |-> CHOOSE b \in blocks : BlockId(b) = i]

\* mutant: a block that is in both is unchanged
DiffWithoutMoves(r, blocks) ==
  LET proposed == ById({b \in ToSet(blocks) : b.kind # "available"}) IN
  [added |-> DOMAIN proposed \ DOMAIN r.baseline, removed |-> DOMAIN r.baseline \ DOMAIN proposed, moved |-> {}]

BuildDiff(r, blocks) ==
  LET proposed == ById({b \in ToSet(blocks) : b.kind # "available"})
      both == DOMAIN proposed \cap DOMAIN r.baseline
  IN  [added |-> DOMAIN proposed \ DOMAIN r.baseline,
       removed |-> DOMAIN r.baseline \ DOMAIN proposed,
       moved |-> {i \in both : \/ Wall(r, proposed[i].from) # Wall(r, r.baseline[i].from)
                               \/ Wall(r, proposed[i].to) # Wall(r, r.baseline[i].to)}]

-----------------------------------------------------------------------------
\* Explanations.

ExplanationCode(r, a) ==
  LET p == r.act[a] IN
  IF p.deadline # None /\ p.deadline < 0 THEN "overdue"
  ELSE IF p.flexibility = "flexible" THEN "scheduled" ELSE p.flexibility

ExplainActivity(r, a, set) == IF a \in set THEN ExplanationCode(r, a) ELSE "infeasible"
InfeasibleExplanations(given) == [a \in given |-> "infeasible"]

-----------------------------------------------------------------------------
\* The result.

ProposedDay(status, blocks, calendar, explanations, reasons, diff) ==
  [status |-> status, blocks |-> blocks, calendar |-> calendar, explanations |-> explanations,
   unscheduled |-> reasons, diff |-> diff]

\* A proposal without blocks, for the activities it gives up.
Rejection(r, given, reason) ==
  ProposedDay("infeasible", << >>, << >>, InfeasibleExplanations(given), [a \in given |-> reason],
              BuildDiff(r, << >>))

StatusOf(given, set) == IF given = {} THEN "feasible" ELSE IF set # {} THEN "partial" ELSE "infeasible"

-----------------------------------------------------------------------------
\* propose_day, one step per iteration of place_flexible's loop.

PlannerInit(requests) ==
  /\ request \in requests
  /\ phase = "asked"
  /\ placed = {} /\ pending = {}
  /\ at = [a \in request.ids |-> 0]
  /\ unscheduled = [a \in request.ids |-> None]
  /\ proposal = None

RejectStale ==
  /\ phase = "asked" /\ request.expected # request.revision
  /\ phase' = "stale"
  /\ UNCHANGED <<request, placed, at, pending, unscheduled, proposal>>

RejectFixed ==
  LET conflicts == FixedConflicts(request) IN
  /\ phase = "asked" /\ request.expected = request.revision /\ conflicts # {}
  /\ phase' = "planned"
  /\ proposal' = Rejection(request, conflicts, "fixed-conflict")
  /\ UNCHANGED <<request, placed, at, pending, unscheduled>>

PlaceFixed ==
  /\ phase = "asked" /\ request.expected = request.revision /\ FixedConflicts(request) = {}
  /\ phase' = "placing"
  /\ placed' = Reserved(request)
  /\ at' = [a \in request.ids |-> IF a \in Reserved(request) THEN request.act[a].fixedStart ELSE 0]
  /\ pending' = Flexible(request)
  /\ unscheduled' = [a \in request.ids |-> None]
  /\ UNCHANGED <<request, proposal>>

Missing == {a \in pending : ~(request.act[a].dependencies \subseteq request.ids)}
Eligible == {a \in pending \ Missing : request.act[a].dependencies \subseteq placed}

\* mutant: what misses a dependency is taken out and forgotten
GiveUpSilently(set, reason) == [a \in request.ids |-> IF a \in set THEN reason ELSE unscheduled[a]]

GiveUp(set, reason) ==
  [a \in request.ids |-> IF a \in Missing THEN "missing-dependency"
                         ELSE IF a \in set THEN reason ELSE unscheduled[a]]

\* The best candidate is placed.
PlaceBest ==
  /\ phase = "placing" /\ pending # {}
  /\ \E p \in Candidates(request, Eligible, placed, at) :
       /\ \A q \in Candidates(request, Eligible, placed, at) : Precedes(p, q)
       /\ placed' = placed \cup {p.id}
       /\ at' = [at EXCEPT ![p.id] = p.start]
       /\ pending' = pending \ (Missing \cup {p.id})
  /\ unscheduled' = GiveUp({}, None)
  /\ UNCHANGED <<request, phase, proposal>>

\* No eligible activity fits any more.
NoCapacity ==
  /\ phase = "placing" /\ pending # {} /\ Eligible # {}
  /\ Candidates(request, Eligible, placed, at) = {}
  /\ pending' = pending \ (Missing \cup Eligible)
  /\ unscheduled' = GiveUp(Eligible, "no-capacity")
  /\ UNCHANGED <<request, phase, placed, at, proposal>>

\* What is left waits for something that was not scheduled.
NoDependency ==
  /\ phase = "placing" /\ pending # {} /\ Eligible = {}
  /\ pending' = {}
  /\ unscheduled' = GiveUp(pending, "dependency-unscheduled")
  /\ UNCHANGED <<request, phase, placed, at, proposal>>

\* Incomplete or reversed dependencies, of fixed activities too.
InvalidDependencies ==
  {a \in placed : \E d \in request.act[a].dependencies : d \notin placed \/ End(request, d, at[d]) > at[a]}

GivenUp == {a \in request.ids : unscheduled[a] # None}

Render ==
  /\ phase = "placing" /\ pending = {}
  /\ phase' = "planned"
  /\ proposal' =
       IF InvalidDependencies # {} THEN Rejection(request, request.ids, "dependency-unscheduled")
       ELSE LET blocks == InternalPlan(request, placed, at) IN
            ProposedDay(StatusOf(GivenUp, placed), blocks, ProjectCalendar(request, blocks),
                        [a \in request.ids |-> ExplainActivity(request, a, placed)],
                        [a \in GivenUp |-> unscheduled[a]], BuildDiff(request, blocks))
  /\ UNCHANGED <<request, placed, at, pending, unscheduled>>

-----------------------------------------------------------------------------
\* Properties.

\* The minutes a placement takes, travel included.
Busy(a) == ReservedFrom(request, a, at[a])..(ReservedTo(request, a, at[a]) - 1)

\* No minute of the window is given to two activities and none outside it to
\* any, whatever is placed in which order (overlaps, placement_bounds): and
\* what is fixed keeps its time, what has a hard bound meets it.
PlacementsAreSound ==
  \A a \in placed :
    /\ Busy(a) \subseteq 0..(request.window - 1)
    /\ \A b \in placed \ {a} : Busy(a) \cap Busy(b) = {}
    /\ request.act[a].fixedStart # None => at[a] = request.act[a].fixedStart
    /\ request.act[a].earliest # None => at[a] >= request.act[a].earliest
    /\ request.act[a].latest # None => at[a] + request.act[a].duration <= request.act[a].latest
    /\ (request.act[a].deadline # None /\ ~(request.act[a].recover /\ request.act[a].deadline < 0))
         => at[a] + request.act[a].duration <= request.act[a].deadline

Emitted == phase = "planned" /\ proposal.blocks # << >>
ActivityBlock(a) == CHOOSE b \in ToSet(proposal.blocks) : b.part = "activity" /\ b.id = a
Rendered == {b.id : b \in {c \in ToSet(proposal.blocks) : c.part = "activity"}}

Unmet(a) ==
  \E d \in request.act[a].dependencies : d \notin placed \/ at[d] + request.act[d].duration > at[a]

\* A plan is only shown when everything in it comes after all it depends on,
\* fixed activities included (invalid_dependencies); and it is only withheld
\* on account of what the user fixed: the greedy choices of place_flexible
\* never lead to a flexible activity before what it depends on.
ShownInOrder ==
  /\ Emitted => \A a \in Rendered : \A d \in request.act[a].dependencies :
                  d \in Rendered /\ ActivityBlock(d).to <= ActivityBlock(a).from
  /\ phase = "planned" /\ ~Emitted =>
       FixedConflicts(request) # {} \/ \E a \in Reserved(request) : Unmet(a)

\* The blocks of a plan tile the window (build_internal_plan: "gapless").
PlanIsGapless ==
  Emitted => LET blocks == proposal.blocks IN
             /\ Head(blocks).from = 0 /\ Last(blocks).to = request.window
             /\ \A i \in 1..Len(blocks) : blocks[i].from < blocks[i].to
             /\ \A i \in 1..(Len(blocks) - 1) : blocks[i].to = blocks[i + 1].from

\* Every activity is in the plan or given up with a reason that is still
\* true of the finished plan: no free start is left for what had no
\* capacity, and a dependency of what waits is missing.  The exception is a
\* fixed conflict, where only the conflicting activities are named.
GivenUpForAReason ==
  phase = "planned" =>
    LET reason == proposal.unscheduled IN
        /\ DOMAIN reason \cap Rendered = {}
        /\ \/ DOMAIN reason \cup Rendered = request.ids
           \/ proposal.blocks = << >> /\ FixedConflicts(request) # {}
        /\ Emitted => \A a \in DOMAIN reason :
             CASE reason[a] = "no-capacity" -> FreeStarts(request, a, placed, at) = {}
               [] reason[a] = "missing-dependency" -> ~(request.act[a].dependencies \subseteq request.ids)
               [] reason[a] = "dependency-unscheduled" -> ~(request.act[a].dependencies \subseteq Rendered)
               [] OTHER -> FALSE

\* The clocks go back within a stretch of time.
FoldedIn(from, to) == request.shift > 0 /\ from < request.fold /\ request.fold <= to

\* A calendar block covers nothing but shown blocks of its own activities, in
\* real time: unless the clocks went back inside it, for adjacency is
\* decided by the wall clock (_can_merge).
ProjectionExplained ==
  phase = "planned" =>
    \A i \in DOMAIN proposal.calendar :
      LET c == proposal.calendar[i] IN
      \/ FoldedIn(c.from, c.to)
      \/ \A m \in c.from..(c.to - 1) :
           \E b \in ToSet(proposal.blocks) :
             b.id \in c.sources /\ b.from <= m /\ m < b.to /\ ~request.act[b.id].micro
=============================================================================
