---------------------------- MODULE LifeInterview ----------------------------
(* The life interview (life_interview.py), the knowledge commands            *)
(* (knowledge_commands.py), the import of a knowledge document               *)
(* (knowledge_import.py) and what the planner may use of it (life_model.py). *)
(* One person answers on several devices; each device holds the reply it     *)
(* last received and answers that one.  Every operation is one transaction   *)
(* of the governed memory.                                                   *)
EXTENDS Integers, Sequences, FiniteSets, FiniteSetsExt

CONSTANTS
    Devices,        \* the person's devices
    Worlds,         \* the catalogues, documents and commands to explore, with their bounds
    Extracted(_),   \* the scheduling fields a text states
    Fields,         \* the fields a routine needs before it can be placed
    MaxAnswers      \* bound: assertions created by answers

PermissionKey(domain) == "permission." \o domain

(* Every topic of a catalogue has a key, and so has asking permission for    *)
(* its domain.                                                               *)
ASSUME WorldsAssumption ==
    \A w \in Worlds : \A topics \in {w.topics, w.week} :
        /\ topics \in Seq([key : STRING, domain : STRING, kind : STRING, days : Nat])
        /\ \A i \in DOMAIN topics : topics[i].key # "" /\ PermissionKey(topics[i].domain) # ""

VARIABLES
    world,          \* the catalogue and documents of this behaviour; never changes
    memory,         \* live knowledge records, in order of creation
    forgotten,      \* ids with a tombstone that are not live
    session,        \* the interview's own record, or NoSession
    shown,          \* per device: the reply it answers to
    disturbed,      \* per device: something besides the interview happened since
    said,           \* number of assertions created by answers
    commands,       \* number of knowledge commands
    day,            \* the clock
    agreed,         \* ghost: <<id, draft>> the person saw and said yes to
    private,        \* ghost: ids the person made private, and answers reviewing them
    excluded        \* ghost: ids the person excluded from planning since last allowing it

vars == <<world, memory, forgotten, session, shown, disturbed, said, commands, day, agreed, private, excluded>>

None == "none"
Never == world.maxDay + 1
MinConfidence == 8                       \* tenths

(* life_knowledge.py RoutineDraft: a field not stated stays missing.         *)
NoDraft == [f \in Fields |-> "no draft"]
Missing(draft) == {f \in Fields : draft[f] = None}
EmptyDraft == [f \in Fields |-> None]

(* _extract_routine_fields over an earlier draft: what the text states       *)
(* replaces what was there.                                                  *)
Amended(draft, text) == [f \in Fields |-> IF f \in Extracted(text) THEN text ELSE draft[f]]

SensitiveDomains == {"finances", "relationships", "values", "wellness"}
NotedTopics == {"work.schedule", "planning.fixed_commitments"}

-----------------------------------------------------------------------------
(* Derived knowledge: life_model.py over a memory m.                         *)

CurrentAt(r) == day < r.until
Current(r) == CurrentAt(r) /\ ~r.superseded

EffectiveState(r) ==
    IF r.state \in {"conflicted", "unknown", "stale"} THEN r.state
    ELSE IF r.days > 0 /\ day >= r.at + r.days THEN "stale"
    ELSE r.state

Contradicts(r, o) ==
    /\ o.id # r.id /\ o.key = r.key /\ ~o.many
    /\ Current(o) /\ o.state # "unknown" /\ r.state # "unknown"
    /\ o.text # r.text

ViewState(m, r) ==
    IF Current(r) /\ ~r.many /\ \E i \in DOMAIN m : Contradicts(r, m[i])
    THEN "conflicted" ELSE EffectiveState(r)

Known(m, r) == Current(r) /\ ViewState(m, r) = "confirmed" /\ r.confidence >= MinConfidence

(* What the planner may use.                                                 *)
PlanningKnowledge(m) ==
    {r \in Range(m) :
        /\ "planning" \in r.scopes /\ r.allowed /\ r.sensitivity # "restricted"
        /\ Current(r) /\ ViewState(m, r) \in {"confirmed", "observed"}
        /\ r.confidence >= MinConfidence
        /\ r.kind \notin {"open_loop", "question", "trust_preference"}}

-----------------------------------------------------------------------------
(* The pending question.                                                     *)

NoSession == [revision |-> 0]
NoQuestion == [key |-> None, mode |-> None, domain |-> None, evidence |-> << >>, draft |-> NoDraft]

Ids(rs) == [i \in DOMAIN rs |-> rs[i].id]
FirstThree(rs) == SubSeq(rs, 1, IF Len(rs) < 3 THEN Len(rs) ELSE 3)

Drafted(m, s) == SelectSeq(m, LAMBDA r : r.key = s.pending /\ r.draft # NoDraft)

Mentioned(m, topic) ==
    IF topic.key = "open_loops.known"
    THEN SelectSeq(m, LAMBDA r : r.kind = "open_loop" /\ ~r.superseded)
    ELSE SelectSeq(m, LAMBDA r : /\ r.key = topic.key /\ ~r.superseded
                                 /\ Current(r) \/ r.document # None)

Authoritative(m, topic) ==
    LET Own(r) == /\ Current(r) /\ r.source \in {"user_statement", "user_correction", "connected_system"}
                  /\ ViewState(m, r) \in {"confirmed", "observed"}
    IN  SelectSeq(Mentioned(m, topic), Own)

(* Own and connected evidence outranks imported summaries.                   *)
Relevant(m, topic) ==
    LET own == Authoritative(m, topic) IN IF own # << >> THEN own ELSE Mentioned(m, topic)

NeedsPermission(s, topic, relevant) ==
    /\ topic.domain \notin s.permitted
    /\ \/ topic.domain \in SensitiveDomains
       \/ \E r \in Range(relevant) : r.sensitivity # "personal"

Passed(m, s, topic) ==
    \/ topic.key \in s.skipped \/ topic.domain \in s.skippedDomains
    \/ topic.key = "open_loops.known" /\ (s.last = topic.key \/ Mentioned(m, topic) = << >>)
    \/ LET relevant == Relevant(m, topic) IN
        /\ relevant # << >>
        /\ ~NeedsPermission(s, topic, relevant)
        /\ \A r \in Range(relevant) : Known(m, r)
        /\ topic.key = "open_loops.else" => s.sweep

Topics(s) == IF s.objective = "week_planning" THEN world.week ELSE world.topics
Unpassed(m, s) == {i \in DOMAIN Topics(s) : ~Passed(m, s, Topics(s)[i])}

Asked(m, s, topic) ==
    LET relevant == Relevant(m, topic) IN
    IF NeedsPermission(s, topic, relevant)
    THEN [NoQuestion EXCEPT !.key = PermissionKey(topic.domain), !.mode = "permission",
                            !.domain = topic.domain]
    ELSE IF relevant # << >> /\ topic.key # "open_loops.else"
    THEN [NoQuestion EXCEPT !.key = topic.key, !.mode = "review", !.domain = topic.domain,
                            !.evidence = Ids(FirstThree(relevant))]
    ELSE [NoQuestion EXCEPT !.key = topic.key, !.mode = "ask", !.domain = topic.domain]

TopicOf(key) ==
    LET all == world.week \o world.topics
    IN  all[CHOOSE i \in DOMAIN all : all[i].key = key /\ \A j \in 1..(i - 1) : all[j].key # key]

Question(m, s) ==
    IF s = NoSession \/ s.phase = "paused" THEN NoQuestion
    ELSE IF s.pending # None /\ Drafted(m, s) # << >>
    THEN [key |-> s.pending, mode |-> "confirm", domain |-> TopicOf(s.pending).domain,
          evidence |-> <<Drafted(m, s)[1].id>>, draft |-> Drafted(m, s)[1].draft]
    ELSE LET open == Unpassed(m, s)
         IN  IF open # {} THEN Asked(m, s, Topics(s)[Min(open)]) ELSE NoQuestion

-----------------------------------------------------------------------------
(* Records.                                                                  *)

NoReply == [revision |-> 0, phase |-> None, question |-> NoQuestion]

Record(m, id) == m[CHOOSE i \in DOMAIN m : m[i].id = id]
Live(m) == {m[i].id : i \in DOMAIN m}
Replace(m, r) == [i \in DOMAIN m |-> IF m[i].id = r.id THEN r ELSE m[i]]
Without(m, ids) == SelectSeq(m, LAMBDA r : r.id \notin ids)

Unknown(answer) == answer = "not sure"
Blank(answer) == answer = ""
Declines(answer) == answer = "no"
EndsSweep(answer) == answer = "nothing else"

(* _save_answer up to the evidence: the assertion an answer makes by itself. *)
Assertion(id, topic, answer) ==
    LET routine == topic.kind = "routine" /\ ~Unknown(answer)
        noted == topic.key \in NotedTopics /\ ~Unknown(answer)
    IN  [id |-> id, key |-> topic.key, many |-> topic.kind = "open_loop",
         domain |-> topic.domain, kind |-> topic.kind,
         state |-> IF Unknown(answer) THEN "unknown" ELSE "confirmed",
         at |-> day, until |-> Never,
         days |-> IF topic.domain = "now" THEN 7 ELSE topic.days,
         sensitivity |-> IF topic.domain \in SensitiveDomains THEN "sensitive" ELSE "personal",
         allowed |-> noted /\ ~routine, document |-> None, superseded |-> FALSE,
         routine |-> NoDraft, draft |-> IF routine THEN Amended(EmptyDraft, answer) ELSE NoDraft,
         text |-> answer, source |-> "user_statement",
         confidence |-> IF Unknown(answer) THEN 0 ELSE IF routine THEN 5 ELSE 10,
         scopes |-> {"private", "conversation"} \cup (IF routine \/ noted THEN {"planning"} ELSE {})]

(* Reviewing may not widen the scopes of the evidence, except for planning   *)
(* where conversation was allowed, nor lower its classification.             *)
ReviewScopes(scopes, evidence) ==
    {x \in scopes : \A r \in evidence : x \in r.scopes \/ (x = "planning" /\ "conversation" \in r.scopes)}

Classified(r, evidence) ==
    LET classes == {e.sensitivity : e \in evidence}
    IN  IF "restricted" \in classes
        THEN [r EXCEPT !.sensitivity = "restricted", !.scopes = {"private"}]
        ELSE IF "sensitive" \in classes
        THEN [r EXCEPT !.sensitivity = "sensitive", !.scopes = {"private"}]
        ELSE r

(* mutant: the answer keeps its own scopes and classification.               *)
ReviewedAnew(r, evidence) == [r EXCEPT !.source = "user_correction"]

Reviewed(r, evidence) ==
    Classified([r EXCEPT !.scopes = ReviewScopes(@, evidence), !.source = "user_correction"], evidence)

(* _save_reconciliation: imported evidence is kept, superseded by the answer *)
(* unless the answer settles nothing.                                        *)
Reconciled(m, r, ids) ==
    LET supersedes == r.state = "confirmed" /\ r.kind # "open_loop"
        Old(o) == IF o.id \in ids /\ supersedes THEN [o EXCEPT !.superseded = TRUE] ELSE o
    IN  Append([i \in DOMAIN m |-> Old(m[i])], r)

(* The memory after the answer to question q has been saved.                 *)
Saved(m, q, answer, fresh) ==
    LET evidence == {Record(m, q.evidence[i]) : i \in DOMAIN q.evidence}
        ids == Range(q.evidence)
        own == Assertion(fresh, TopicOf(q.key), answer)
    IN  IF evidence = {} THEN Append(m, own)
        ELSE IF \E r \in evidence : r.document # None
        THEN Reconciled(m, Reviewed(own, evidence), ids)
        ELSE Without(Replace(m, [Reviewed(own, evidence) EXCEPT !.id = q.evidence[1]]),
                     ids \ {q.evidence[1]})

-----------------------------------------------------------------------------
(* The session.                                                              *)

Init ==
    /\ world \in Worlds
    /\ memory = << >> /\ forgotten = {} /\ session = NoSession
    /\ shown = [d \in Devices |-> NoReply] /\ disturbed = [d \in Devices |-> FALSE]
    /\ said = 0 /\ commands = 0 /\ day = 0
    /\ agreed = {} /\ private = {} /\ excluded = {}

(* The reply reaches the device, or is lost and the device keeps the old one.*)
Reply(d, m, s) ==
    \/ /\ shown' = [shown EXCEPT ![d] = [revision |-> s.revision, phase |-> s.phase,
                                          question |-> Question(m, s)]]
       /\ disturbed' = [disturbed EXCEPT ![d] = FALSE]
    \/ UNCHANGED <<shown, disturbed>>

NewSession(objective) ==
    [revision |-> 1, objective |-> objective, phase |-> "active", skipped |-> {}, permitted |-> {},
     skippedDomains |-> {}, last |-> None, pending |-> None, sweep |-> FALSE]

Begin(d, objective) ==
    LET s == IF session = NoSession
             THEN NewSession(IF objective = None THEN "understanding" ELSE objective)
             ELSE IF objective \in {None, session.objective} THEN session
             ELSE [session EXCEPT !.objective = objective, !.phase = "active", !.revision = @ + 1]
    IN  /\ s.revision <= world.maxRevision
        /\ session' = s /\ Reply(d, memory, s)
        /\ UNCHANGED <<world, memory, forgotten, said, commands, day, agreed, private, excluded>>

(* mutant: the revision the turn was made for is not compared.               *)
AnyRevision(d) == session # NoSession /\ session.revision < world.maxRevision

(* advance: the turn is for the revision the device last saw.                *)
Fresh(d) == session # NoSession /\ session.revision = shown[d].revision /\ session.revision < world.maxRevision

(* mutant: the position is stored under the revision it had.                 *)
FinishUncounted(d, m, s) ==
    LET t == [s EXCEPT !.phase = IF @ # "paused" /\ Question(m, s) = NoQuestion THEN "continuous" ELSE @]
    IN  session' = t /\ memory' = m /\ Reply(d, m, t)

(* advance stores the position: nothing left to ask makes it continuous.     *)
Finish(d, m, s) ==
    LET t == [s EXCEPT !.revision = @ + 1,
                       !.phase = IF @ # "paused" /\ Question(m, s) = NoQuestion THEN "continuous" ELSE @]
    IN  session' = t /\ memory' = m /\ Reply(d, m, t)

Pause(d, phase) ==
    /\ Fresh(d) /\ phase \in {"paused", "active"}
    /\ Finish(d, memory, [session EXCEPT !.phase = phase])
    /\ UNCHANGED <<world, forgotten, said, commands, day, agreed, private, excluded>>

(* The turn answers question q, which must have the key the device was shown.*)
Turn(d, q) ==
    /\ Fresh(d) /\ session.phase # "paused"
    /\ q # NoQuestion /\ q.key = shown[d].question.key

Stepped(q) == [session EXCEPT !.last = q.key]
SkipKey(s, key) == [s EXCEPT !.skipped = @ \cup {key}]

SkipQuestion(d) ==
    LET q == Question(memory, session) IN
        /\ Turn(d, q) /\ q.mode # "confirm"
        /\ LET s == SkipKey(Stepped(q), q.key)
           IN  Finish(d, memory, IF q.mode = "permission"
                                 THEN [s EXCEPT !.skippedDomains = @ \cup {q.domain}] ELSE s)
        /\ UNCHANGED <<world, forgotten, said, commands, day, agreed, private, excluded>>

AnswerPermission(d, answer) ==
    LET q == Question(memory, session) IN
        /\ Turn(d, q) /\ q.mode = "permission"
        /\ \/ /\ answer = "yes"
              /\ Finish(d, memory, [Stepped(q) EXCEPT !.permitted = @ \cup {q.domain}])
           \/ /\ Declines(answer)
              /\ Finish(d, memory, [Stepped(q) EXCEPT !.skippedDomains = @ \cup {q.domain}])
        /\ UNCHANGED <<world, forgotten, said, commands, day, agreed, private, excluded>>

FinishSweep(d) ==
    LET q == Question(memory, session) IN
        /\ Turn(d, q) /\ q.key = "open_loops.else"
        /\ Finish(d, memory, [SkipKey(Stepped(q), q.key) EXCEPT !.sweep = TRUE])
        /\ UNCHANGED <<world, forgotten, said, commands, day, agreed, private, excluded>>

(* The position after an answer was saved.                                   *)
Positioned(q, answer) ==
    LET s == IF q.key = "open_loops.known" \/ Unknown(answer) THEN SkipKey(Stepped(q), q.key) ELSE Stepped(q)
    IN  IF TopicOf(q.key).kind = "routine" /\ ~Unknown(answer) THEN [s EXCEPT !.pending = q.key] ELSE s

Answer(d, answer) ==
    LET q == Question(memory, session) IN
        /\ Turn(d, q) /\ q.mode \in {"ask", "review"} /\ ~Blank(answer) /\ said < MaxAnswers
        /\ ~(q.key = "open_loops.else" /\ EndsSweep(answer))
        /\ LET fresh == <<"said", said + 1>>
               m == Saved(memory, q, answer, fresh)
               heir == IF fresh \in Live(m) THEN fresh ELSE q.evidence[1]
           IN  /\ Finish(d, m, Positioned(q, answer))
               /\ said' = said + 1
               /\ forgotten' = forgotten \cup (Live(memory) \ Live(m))
               /\ private' = IF Range(q.evidence) \cap private # {} THEN private \cup {heir} ELSE private
               /\ excluded' = IF Range(q.evidence) \cap excluded # {} THEN excluded \cup {heir} ELSE excluded
        /\ UNCHANGED <<world, commands, day, agreed>>

(* _confirm: the draft is dropped, confirmed or amended.                     *)
SkipDraft(d) ==
    LET q == Question(memory, session) IN
        /\ Turn(d, q) /\ q.mode = "confirm"
        /\ Finish(d, Replace(memory, [Record(memory, q.evidence[1]) EXCEPT !.draft = NoDraft, !.source = "user_correction"]),
                  [SkipKey(Stepped(q), q.key) EXCEPT !.pending = None])
        /\ UNCHANGED <<world, forgotten, said, commands, day, agreed, private, excluded>>

(* The draft that becomes the routine is the one the question describes.     *)
Promoted(r) ==
    [r EXCEPT !.allowed = "planning" \in r.scopes, !.routine = r.draft, !.draft = NoDraft,
              !.at = day, !.confidence = 10, !.source = "user_correction"]

ConfirmDraft(d) ==
    LET q == Question(memory, session) IN
        /\ Turn(d, q) /\ q.mode = "confirm"
        /\ IF Missing(q.draft) # {}
           THEN /\ Finish(d, memory, Stepped(q))
                /\ UNCHANGED <<agreed, excluded>>
           ELSE /\ Finish(d, Replace(memory, Promoted(Record(memory, q.evidence[1]))),
                          [Stepped(q) EXCEPT !.pending = None])
                /\ agreed' = agreed \cup {<<id, shown[d].question.draft>> : id \in Range(shown[d].question.evidence)}
                /\ excluded' = {id \in excluded : id # q.evidence[1] \/ "planning" \notin Record(memory, id).scopes}
        /\ UNCHANGED <<world, forgotten, said, commands, day, private>>

AmendDraft(d, text) ==
    LET q == Question(memory, session) IN
        /\ Turn(d, q) /\ q.mode = "confirm" /\ text \notin {"yes", "no"}
        /\ Finish(d, Replace(memory, [Record(memory, q.evidence[1]) EXCEPT
                                         !.draft = Amended(@, text), !.confidence = 5,
                                         !.text = "amended", !.source = "user_correction"]),
                  Stepped(q))
        /\ UNCHANGED <<world, forgotten, said, commands, day, agreed, private, excluded>>

-----------------------------------------------------------------------------
(* Outside the interview.                                                    *)

Disturb == disturbed' = [d \in Devices |-> TRUE]

(* correct_knowledge on a record the person selected.                        *)
Commanded(r, action, text, until) ==
    CASE action \in {"correct", "confirm"} ->
            [r EXCEPT !.state = "confirmed", !.at = day, !.until = Never, !.confidence = 10,
                      !.text = IF action = "correct" THEN text ELSE @]
      [] action = "private" ->
            [r EXCEPT !.scopes = {"private"}, !.sensitivity = "restricted", !.allowed = FALSE]
      [] action = "exclude_planning" -> [r EXCEPT !.scopes = @ \ {"planning"}, !.allowed = FALSE]
      [] action = "allow_planning" -> [r EXCEPT !.scopes = @ \cup {"planning"}, !.allowed = TRUE]
      [] action = "no_longer_true" -> [r EXCEPT !.until = day]
      [] action = "temporary" -> [r EXCEPT !.until = until]

Command(id, action, text, until) ==
    /\ commands < world.maxCommands /\ commands' = commands + 1
    /\ action \in world.commands \ {"forget"} /\ id \in Live(memory)
    /\ memory' = Replace(memory, [Commanded(Record(memory, id), action, text, until)
                                    EXCEPT !.source = "user_correction"])
    /\ private' = IF action = "private" THEN private \cup {id} ELSE private
    /\ excluded' = CASE action = "exclude_planning" -> excluded \cup {id}
                     [] action = "allow_planning" -> excluded \ {id}
                     [] OTHER -> excluded
    /\ Disturb
    /\ UNCHANGED <<world, forgotten, session, shown, said, day, agreed>>

Forget(id) ==
    /\ commands < world.maxCommands /\ commands' = commands + 1
    /\ "forget" \in world.commands /\ id \in Live(memory)
    /\ memory' = Without(memory, {id}) /\ forgotten' = forgotten \cup {id}
    /\ Disturb
    /\ UNCHANGED <<world, session, shown, said, day, agreed, private, excluded>>

(* _sensitivity: what the document marks, and the sensitive domains.  An     *)
(* assertion with details of pay counts as marked sensitive.                 *)
ImportSensitivity(a) ==
    IF a.marked = "restricted" THEN "restricted"
    ELSE IF a.marked = "sensitive" \/ a.domain \in SensitiveDomains THEN "sensitive"
    ELSE "personal"

(* import_knowledge: an assertion of the document is added once; a forgotten *)
(* one is not added again; another document under the same source is refused.*)
Imported(a, document) ==
    [id |-> a.id, key |-> a.key, many |-> TRUE, domain |-> a.domain, kind |-> a.kind,
     state |-> IF a.declared \in {None, "confirmed"} THEN "unknown" ELSE a.declared,
     at |-> day, until |-> Never, days |-> 0, sensitivity |-> ImportSensitivity(a), allowed |-> FALSE,
     document |-> document, superseded |-> FALSE, routine |-> NoDraft, draft |-> NoDraft,
     text |-> a.text, source |-> "import", confidence |-> a.confidence, scopes |-> {"private"}]

Addable(document) == SelectSeq(document.atoms, LAMBDA a : a.id \notin Live(memory) \cup forgotten)

Import(document) ==
    /\ document \in world.documents
    /\ \A r \in Range(memory) : (\E a \in Range(document.atoms) : a.id = r.id) => r.document = document.digest
    /\ memory' = memory \o [i \in DOMAIN Addable(document) |-> Imported(Addable(document)[i], document.digest)]
    /\ Disturb
    /\ UNCHANGED <<world, forgotten, session, shown, said, commands, day, agreed, private, excluded>>

Tick ==
    /\ day < world.maxDay /\ day' = day + 1 /\ Disturb
    /\ UNCHANGED <<world, memory, forgotten, session, shown, said, commands, agreed, private, excluded>>

DeviceStep(d) ==
    \/ \E objective \in world.objectives : Begin(d, objective)
    \/ \E phase \in {"paused", "active"} : Pause(d, phase)
    \/ SkipQuestion(d) \/ FinishSweep(d) \/ SkipDraft(d) \/ ConfirmDraft(d)
    \/ \E answer \in world.answers : AnswerPermission(d, answer) \/ Answer(d, answer) \/ AmendDraft(d, answer)

Outside ==
    \/ \E id \in Live(memory) :
        \/ \E action \in world.commands \ {"correct", "temporary"} : Command(id, action, None, Never)
        \/ \E text \in world.corrections : Command(id, "correct", text, Never)
        \/ \E until \in day + 1..Never : Command(id, "temporary", None, until)
        \/ Forget(id)
    \/ \E document \in world.documents : Import(document)
    \/ Tick

Next == (\E d \in Devices : DeviceStep(d)) \/ Outside

Spec == Init /\ [][Next]_vars

-----------------------------------------------------------------------------
(* "the confirmation turn is what promotes a parse from pending to           *)
(* confirmed": a structured routine is a draft that some device showed and   *)
(* that was confirmed on that device, whatever the other devices and the     *)
(* knowledge commands did in between.                                        *)
RoutineWasConfirmed ==
    \A r \in Range(memory) : r.routine # NoDraft => <<r.id, r.routine>> \in agreed

(* What the person made private, or excluded from planning, and every answer *)
(* given in review of it, stays out of the planner's knowledge until planning*)
(* is allowed again, by a command or by confirming the routine anew.  The two*)
(* noted topics are the exception: their review puts an excluded assertion   *)
(* back (life_interview.py:749-765).                                         *)
WithheldStaysOut ==
    \A r \in PlanningKnowledge(memory) :
        r.id \notin private /\ (r.id \in excluded => r.key \in NotedTopics)

(* A turn replaces, amends, supersedes or deletes only records that the      *)
(* device was shown, unless a command, an import or the passing of time      *)
(* changed what there was to ask since: concurrent turns alone never make an *)
(* answer overwrite what its speaker did not see.                            *)
ReplacesOnlyShown ==
    [][\A d \in Devices :
        /\ memory' # memory /\ ~disturbed[d]
        /\ SkipDraft(d) \/ ConfirmDraft(d) \/ \E answer \in world.answers : Answer(d, answer) \/ AmendDraft(d, answer)
        => \A r \in Range(memory) : r \notin Range(memory') => r.id \in Range(shown[d].question.evidence)]_vars

=============================================================================
