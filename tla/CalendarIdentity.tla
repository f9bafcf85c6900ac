--------------------------- MODULE CalendarIdentity ---------------------------
(***************************************************************************)
(* Custody of the one app-created calendar: find_calendar and              *)
(* create_calendar of google_calendar_live.py over the two Keychain items  *)
(* of KeychainCalendarIdStore, step by step, for the processes that call   *)
(* them: the relay while it executes a plan, a preview or a reconciliation *)
(* that only looks, and scripts/google_calendar_status.py, which the owner *)
(* runs and which does not take the relay's calendar flock.                *)
(*                                                                         *)
(* Calendars are numbered as Google creates them.  A process may die, or   *)
(* fail with a Keychain or provider error, before each of its steps, and   *)
(* nothing keeps two of them from running at once.                         *)
(***************************************************************************)
EXTENDS Naturals, FiniteSets

CONSTANTS
    Creators,      \* processes that create the calendar when it is missing
    Finders,       \* processes that only look for it
    MaxCalendars   \* bound on the calendars ever created

ASSUME IdentityAssumption == MaxCalendars \in Nat

Processes == Creators \cup Finders
NoCalendar == 0

VARIABLES
    kept,     \* Keychain: the calendar id, or NoCalendar
    guarded,  \* Keychain: creation pending
    live,     \* the app's calendars that exist at Google
    created,  \* how many it ever created
    at,       \* next step of each process
    seen,     \* the id each process works with
    raced     \* whether a step ever undid or ignored what another process did
              \* since it looked (history)

identityVars == <<kept, guarded, live, created, at, seen, raced>>

Steps == {"idle", "get", "clear", "check", "mark", "post", "save", "unguard"}

IdentityInit ==
    /\ kept = NoCalendar
    /\ guarded = FALSE
    /\ live = {}
    /\ created = 0
    /\ at = [q \in Processes |-> "idle"]
    /\ seen = [q \in Processes |-> NoCalendar]
    /\ raced = FALSE

Step(q, from, to) ==
    /\ at[q] = from
    /\ at' = [at EXCEPT ![q] = to]

(* What a process does once no calendar was found.                         *)
Missing(q) == IF q \in Creators THEN "check" ELSE "idle"

(* find_calendar: load the id, ask Google for it, clear it after a 404.    *)
Load(q) ==
    /\ Step(q, "idle", IF kept = NoCalendar THEN Missing(q) ELSE "get")
    /\ seen' = [seen EXCEPT ![q] = kept]
    /\ UNCHANGED <<kept, guarded, live, created, raced>>

Get(q) ==
    /\ Step(q, "get", IF seen[q] \in live THEN "idle" ELSE "clear")
    /\ UNCHANGED <<kept, guarded, live, created, seen, raced>>

Clear(q) ==
    /\ Step(q, "clear", Missing(q))
    /\ kept' = NoCalendar
    /\ raced' = (raced \/ kept \notin {NoCalendar, seen[q]})
    /\ UNCHANGED <<guarded, live, created, seen>>

(* create_calendar: refuse under a pending guard, else set it, insert,     *)
(* save the id and only then clear the guard.                              *)
Check(q) ==
    /\ Step(q, "check", IF guarded THEN "idle" ELSE "mark")
    /\ UNCHANGED <<kept, guarded, live, created, seen, raced>>

(* mutant: the guard is not persisted before the insert                    *)
MarkNothing(q) ==
    /\ Step(q, "mark", "post")
    /\ raced' = (raced \/ guarded \/ kept # NoCalendar)
    /\ UNCHANGED <<kept, guarded, live, created, seen>>

Mark(q) ==
    /\ Step(q, "mark", "post")
    /\ guarded' = TRUE
    /\ raced' = (raced \/ guarded \/ kept # NoCalendar)
    /\ UNCHANGED <<kept, live, created, seen>>

Insert ==
    /\ created < MaxCalendars
    /\ created' = created + 1
    /\ live' = live \cup {created + 1}

Post(q) ==
    /\ Step(q, "post", "save")
    /\ Insert
    /\ seen' = [seen EXCEPT ![q] = created + 1]
    /\ UNCHANGED <<kept, guarded, raced>>

(* mutant: the guard is cleared whatever became of the insert              *)
PostForgotten(q) ==
    /\ Step(q, "post", "idle")
    /\ Insert
    /\ guarded' = FALSE
    /\ UNCHANGED <<kept, seen, raced>>

(* The calendar was created and the response is lost, or names something   *)
(* unexpected: the guard stays.                                            *)
PostLost(q) ==
    /\ Step(q, "post", "idle")
    /\ Insert
    /\ UNCHANGED <<kept, guarded, seen, raced>>

Save(q) ==
    /\ Step(q, "save", "unguard")
    /\ kept' = seen[q]
    /\ UNCHANGED <<guarded, live, created, seen, raced>>

Unguard(q) ==
    /\ Step(q, "unguard", "idle")
    /\ guarded' = FALSE
    /\ UNCHANGED <<kept, live, created, seen, raced>>

(* The process dies, or the call before this step raised.                  *)
Fail(q) ==
    /\ at[q] # "idle"
    /\ at' = [at EXCEPT ![q] = "idle"]
    /\ UNCHANGED <<kept, guarded, live, created, seen, raced>>

(* The user deletes a calendar in Google Calendar.                         *)
UserDeletes(c) ==
    /\ c \in live
    /\ live' = live \ {c}
    /\ UNCHANGED <<kept, guarded, created, at, seen, raced>>

(* google_calendar_status.py --clear-pending-creation, run as documented:  *)
(* after the owner inspected Google Calendar and removed any orphan.       *)
OwnerClearsGuard ==
    /\ guarded /\ live \ {kept} = {}
    /\ guarded' = FALSE
    /\ raced' = (raced \/ \E q \in Processes : at[q] \in {"post", "save", "unguard"})
    /\ UNCHANGED <<kept, live, created, at, seen>>

IdentityNext ==
    \/ \E q \in Processes :
        \/ Load(q) \/ Get(q) \/ Clear(q) \/ Check(q) \/ Mark(q) \/ Post(q) \/ PostLost(q)
        \/ Save(q) \/ Unguard(q) \/ Fail(q)
    \/ \E c \in live : UserDeletes(c)
    \/ OwnerClearsGuard

IdentitySpec == IdentityInit /\ [][IdentityNext]_identityVars

------------------------------------------------------------------------------
(* Properties *)

(* The Keychain items and locals have the shape the code gives them.       *)
IdentityTypeOK ==
    /\ kept \in 0 .. MaxCalendars
    /\ guarded \in BOOLEAN
    /\ live \subseteq 1 .. MaxCalendars
    /\ created \in 0 .. MaxCalendars
    /\ at \in [Processes -> Steps]
    /\ seen \in [Processes -> 0 .. MaxCalendars]
    /\ raced \in BOOLEAN

(* find_calendar and create_calendar: whichever processes interleave, fail *)
(* or die, a calendar that the Keychain does not name exists only under    *)
(* the guard, which keeps anyone from creating another.  The exceptions    *)
(* are the steps nothing serialises: clearing an id that another process   *)
(* saved after this one looked, setting the guard after another process    *)
(* set it or saved an id, and the owner clearing it under a creation.      *)
OrphansAreGuarded == ~raced /\ live \ {kept} # {} => guarded

(* create_calendar: with the same exceptions there are never two calendars.*)
OneCalendar == ~raced => Cardinality(live) <= 1

(* docs/google-calendar-live.md: the transport creates one secondary       *)
(* calendar, for any two processes.                                        *)
NeverTwoCalendars == Cardinality(live) <= 1
==============================================================================
