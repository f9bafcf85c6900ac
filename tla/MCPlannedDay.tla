---------------------------- MODULE MCPlannedDay ----------------------------
(***************************************************************************)
(* Small days and weeks for PlannedDay.                                    *)
(***************************************************************************)
EXTENDS PlannedDay

\* An activity with nothing asked of it.
Task(minutes) ==
  [flexibility |-> "flexible", duration |-> minutes, fixedStart |-> None, earliest |-> None, latest |-> None,
   deadline |-> None, recover |-> FALSE, dependencies |-> {}, before |-> 0, after |-> 0, energy |-> 3,
   goal |-> 0, importance |-> 0, group |-> None, title |-> 1, eligible |-> TRUE, micro |-> FALSE]
Fixed(kind, start, minutes) == [Task(minutes) EXCEPT !.flexibility = kind, !.fixedStart = start]

Day(activities, window) ==
  [ids |-> DOMAIN activities, act |-> activities, window |-> window, midnight |-> 0, energy |-> {},
   baseline |-> << >>, revision |-> 1, expected |-> 1, fold |-> 0, shift |-> 0, views |-> {}]

World(requests, reports) ==
  [requests |-> requests, reports |-> reports, checkIns |-> {}, ratings |-> {}, hours |-> 0, decisions |-> 0]

\* A fixed activity and two flexible ones, with every combination of
\* dependencies, bounds, deadlines and travel.
Ordered ==
  {Day(<<[Fixed("fixed", s, 2) EXCEPT !.dependencies = deps1, !.before = t],
         [Task(2) EXCEPT !.dependencies = deps2, !.deadline = d, !.recover = rec, !.after = t],
         [Task(1) EXCEPT !.dependencies = deps3, !.latest = l, !.goal = g]>>, 6)
    : s \in {1, 3}, t \in {0, 1}, deps1 \in {{}, {2}, {3}}, deps2 \in {{}, {1}, {3}, {9}}, deps3 \in {{}, {1}, {2}},
      d \in {0 - 1, 4}, rec \in BOOLEAN, l \in {None, 2, 5}, g \in {0, 5}}

\* Reservations that clash, leave the window or come before what they depend
\* on, and a stale snapshot.
Clashing ==
  {Day(<<Fixed("fixed", s, 2), [Fixed("protected", t, 2) EXCEPT !.before = b, !.dependencies = deps], Task(1)>>, 5)
    : s \in {0, 1, 2, 4}, t \in 0..3, b \in {0, 1}, deps \in {{}, {1}}}
  \cup {[Day(<<Task(1)>>, 3) EXCEPT !.expected = 2]}

\* Groups and micro events, on a day whose clocks go back by two minutes.
Grouped ==
  {[Day(<<[Fixed("fixed", 0, 1) EXCEPT !.group = 1],
          [Fixed("protected", s, 1) EXCEPT !.group = g, !.micro = m],
          [Task(1) EXCEPT !.group = 1, !.eligible = e, !.before = b, !.earliest = k]>>, 6)
     EXCEPT !.fold = f, !.shift = h]
    : s \in {1, 3}, g \in {None, 1}, m \in BOOLEAN, e \in BOOLEAN, b \in {0, 1}, k \in {None, 3, 4},
      f \in {2, 3}, h \in {0, 2}}

\* Days of 24 hours from eight in the morning, to be replanned.
Preferred ==
  {[Day(<<[Fixed("fixed", 1, 1) EXCEPT !.dependencies = deps, !.after = t],
          [Task(2) EXCEPT !.energy = n, !.goal = g, !.before = b], [Task(n) EXCEPT !.energy = 5, !.latest = l]>>, 8)
     EXCEPT !.midnight = 0 - 8, !.fold = 5, !.shift = h]
    : deps \in {{}, {3}}, t \in {0, 1}, n \in 1..2, g \in {0, 2}, b \in {0, 1}, l \in {None, 5}, h \in {0, 1}}

Evening == {[r EXCEPT !.midnight = 0 - 16] : r \in Preferred}

Report(i, rating, when) == Observation(i, rating, when)
Afternoons(ratings) == {Report(0 - i, ratings[i], 13 - 24 * i) : i \in DOMAIN ratings}

\* Routines of a week with four minutes a day.
Routine(days, kind, start) ==
  [days |-> days, duration |-> 1, flexibility |-> kind, start |-> start, minimum |-> 0, zone |-> 0, travel |-> 0,
   preparation |-> 0, transition |-> 0, priority |-> 5, dependencies |-> {}]
View(i, routine) == [id |-> i, routine |-> routine]

Weeks ==
  {WeekRequest({View(1, [Routine({0, 3}, "fixed", s) EXCEPT !.zone = z, !.travel = t]),
                View(2, [Routine({0, 2, 6}, kind, 2) EXCEPT !.minimum = n, !.dependencies = deps, !.transition = t]),
                View(3, [Routine({1}, "flexible", None) EXCEPT !.dependencies = more])} \cup gap)
    : s \in {0, 3}, z \in {0, 0 - 2, None}, t \in {0, 1}, kind \in {"preferred", "optional", "fixed"}, n \in {0, 2},
      deps \in {{}, {1}, {4}}, more \in {{}, {2}}, gap \in {{}, {View(4, None)}}}

Planning == World(Ordered \cup Clashing \cup Grouped, {})
Weekly == World(Weeks, {})
Replanning == World(Preferred, Afternoons(<<5, 5, 5>>) \cup {Report(9, 4, 8 - 24 * 9)})
Doubtful == World(Preferred, Afternoons(<<1, 5, 5>>))

Late == World(Evening, {Report(0 - i, 5, 19 + i - 24 * i) : i \in 1..3})

Answering ==
  [World({Day(<<Fixed("protected", 1, 1), [Task(2) EXCEPT !.energy = 4]>>, 8)}, {Report(0 - 1, 4, 2 - 24), Report(0 - 2, 4, 3 - 24)})
    EXCEPT !.checkIns = CheckIns, !.ratings = {4, 5}, !.hours = 4, !.decisions = 3]

MCPreferences ==
  {PreferencesOf(DailyWindow(22, 6), NoPrompt, TRUE, 1, 1),
   PreferencesOf(DailyWindow(0, 12), DailyWindow(2, 3), TRUE, 2, 1),
   PreferencesOf(DailyWindow(0, 12), NoPrompt, FALSE, 1, 1)}

AllWorlds ==
  [w \in {"planning", "weekly", "replanning", "doubtful", "late", "answering"} |->
     CASE w = "planning" -> Planning [] w = "weekly" -> Weekly [] w = "replanning" -> Replanning
       [] w = "doubtful" -> Doubtful [] w = "late" -> Late [] OTHER -> Answering]
=============================================================================
