--------------------------- MODULE MCLifeInterview ---------------------------
(* Small worlds for LifeInterview: a day of the model stands for the 90 days *)
(* after which an answer is stale.                                           *)
EXTENDS SpokenInterview, TLC

CONSTANTS a, b

MCExtracted(text) ==
    CASE text = "weekdays" -> {"days"}
      [] text = "at seven" -> {"time"}
      [] text = "daily at six" -> {"days", "time"}
      [] OTHER -> {}

Topic(key, domain, kind) == [key |-> key, domain |-> domain, kind |-> kind, days |-> 1]

Atom(source, n, key, domain, kind, declared, confidence, marked) ==
    [id |-> <<source, n>>, key |-> key, domain |-> domain, kind |-> kind, declared |-> declared,
     confidence |-> confidence, marked |-> marked, text |-> "imported"]

Document(digest, atoms) == [digest |-> digest, atoms |-> atoms]

RoutineWorld ==
    [surface |-> None, studio |-> FALSE, maxPosted |-> 0, maxStarts |-> 0, maxRevision |-> 6, maxCommands |-> 1, maxDay |-> 1,
     topics |-> <<Topic("routines.sleep", "routines", "routine")>>,
     week |-> <<Topic("routines.sleep", "routines", "routine")>>,
     documents |-> {},
     answers |-> {"weekdays", "daily at six", "yes"},
     objectives |-> {None}, corrections |-> {"at seven"},
     commands |-> {"correct", "exclude_planning", "allow_planning", "private", "forget"}]

ScheduleWorld ==
    [surface |-> None, studio |-> FALSE, maxPosted |-> 0, maxStarts |-> 0, maxRevision |-> 3, maxCommands |-> 2, maxDay |-> 1,
     topics |-> <<Topic("work.role", "work", "fact")>>,
     week |-> <<Topic("work.schedule", "work", "fact")>>,
     documents |-> {},
     answers |-> {"mornings", "not sure"},
     objectives |-> {None, "week_planning"}, corrections |-> {None},
     commands |-> {"exclude_planning", "allow_planning", "no_longer_true", "temporary", "private"}]

ImportWorld ==
    [surface |-> None, studio |-> FALSE, maxPosted |-> 0, maxStarts |-> 0, maxRevision |-> 3, maxCommands |-> 1, maxDay |-> 0,
     topics |-> <<Topic("work.role", "work", "fact"), Topic("values.commitments", "values", "commitment")>>,
     week |-> << >>,
     documents |-> {Document("v1", <<Atom("export", 1, "work.role", "work", "fact", None, 9, None),
                                     Atom("export", 2, "work.role", "work", "fact", "observed", 9, "restricted")>>),
                    Document("v2", <<Atom("export", 1, "work.role", "work", "fact", "confirmed", 9, None)>>)},
     answers |-> {"engineer", "not sure", "yes", "no"},
     objectives |-> {None}, corrections |-> {None},
     commands |-> {"confirm", "private", "allow_planning", "forget"}]

InboxWorld ==
    [surface |-> None, studio |-> FALSE, maxPosted |-> 0, maxStarts |-> 0, maxRevision |-> 4, maxCommands |-> 1, maxDay |-> 0,
     topics |-> <<Topic("open_loops.head", "open_loops", "open_loop")>>,
     week |-> <<Topic("open_loops.known", "open_loops", "open_loop"),
                Topic("open_loops.head", "open_loops", "open_loop"),
                Topic("open_loops.else", "open_loops", "open_loop")>>,
     documents |-> {Document("v1", <<Atom("export", 1, "import.loops", "open_loops", "open_loop", None, 0, None)>>)},
     answers |-> {"call home", "nothing else"},
     objectives |-> {None, "week_planning"}, corrections |-> {None},
     commands |-> {"confirm", "forget"}]

(* Two questions to change between, of which an answer may be forgotten, or *)
(* one question that is paused and resumed.                                 *)
ScreenWorld(topics, maxRevision, known) ==
    [surface |-> "interview", studio |-> TRUE, maxPosted |-> 1, maxStarts |-> 1, maxRevision |-> maxRevision,
     maxCommands |-> Cardinality(known), maxDay |-> 0, topics |-> topics,
     week |-> << >>, documents |-> {}, answers |-> {"engineer"},
     objectives |-> {}, corrections |-> {}, commands |-> known]

TalkWorld(studio) ==
    [surface |-> "conversation", studio |-> studio, maxPosted |-> 2, maxStarts |-> 1, maxRevision |-> 0, maxCommands |-> 0, maxDay |-> 0,
     topics |-> << >>, week |-> << >>, documents |-> {}, answers |-> {},
     objectives |-> {None}, corrections |-> {}, commands |-> {}]

AllWorlds == {RoutineWorld, ScheduleWorld, ImportWorld, InboxWorld,
              ScreenWorld(<<Topic("work.role", "work", "fact"), Topic("home.place", "home", "fact")>>,
                          2, {"forget"}),
              ScreenWorld(<<Topic("work.role", "work", "fact")>>, 3, {}), TalkWorld(TRUE), TalkWorld(FALSE)}
Alike == Permutations(Devices)
=============================================================================
