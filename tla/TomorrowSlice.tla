--------------------------- MODULE TomorrowSlice ---------------------------
(***************************************************************************)
(* The tomorrow-planning slice (slice/service.py, slice/api.py): a capture *)
(* is interpreted and previewed, a device approves the proposal and its    *)
(* events are written to the app's calendar, a later capture replans, an   *)
(* undo fact takes the events off again.  The calendar is the adapter of   *)
(* google_calendar.py over the provider of google_calendar_sandbox.py with *)
(* its injected failures; a client keeps a mirror of it by incremental     *)
(* synchronization.                                                        *)
(*                                                                         *)
(* A request runs to its end before the next one starts (its handler never *)
(* awaits), but it can fail half way, and what it has committed by then    *)
(* stays: every action has the outcomes of its failures.  The interpreter  *)
(* maps a text to the proposal of its fixture, so the text is the proposal.*)
(* Revisions are left out: the provider assigns them and nothing reads     *)
(* them.                                                                   *)
(***************************************************************************)
EXTENDS CapabilityLeases, Integers, Sequences

CONSTANTS
  PlanOf,       \* the calendar projection of each proposal: a sequence of [key, content]
  Shielded,     \* the protected activities of each proposal's plan
  NoEvent       \* no event under a key

\* The interpreter has fixtures for finitely many texts, and the blocks of a
\* plan have ids of their own.
ASSUME PlansAssumption ==
  /\ IsFiniteSet(DOMAIN PlanOf)
  /\ PlanOf \in [DOMAIN PlanOf -> Seq([key : STRING, content : STRING])]
  /\ \A p \in DOMAIN PlanOf : \A i, j \in DOMAIN PlanOf[p] :
       PlanOf[p][i].key = PlanOf[p][j].key => i = j

VARIABLES
  sources,      \* the captures stored as source items
  record,       \* the stored state of each proposal
  revoked,      \* the OAuth token was revoked
  calendar,     \* the app's calendar exists
  events,       \* its events, by key
  changes,      \* the provider's change log; its length is the generation
  minimum,      \* the oldest synchronization token still accepted
  mirror,       \* the client's CalendarSyncState
  edits         \* edits so far

sliceVars == <<sources, record, revoked, calendar, events, changes, minimum, mirror, edits>>

Keys == UNION {{PlanOf[p][i].key : i \in DOMAIN PlanOf[p]} : p \in DOMAIN PlanOf}
NoToken == -1

Capture(id, text, sound, final) == [id |-> id, text |-> text, sound |-> sound, final |-> final]
RemoteEvent(p, draft) == [proposal |-> p, payload |-> PlanOf[p], content |-> draft.content]
Change(k, e, deleted) == [key |-> k, event |-> e, deleted |-> deleted]

SliceInit ==
  /\ sources = {}
  /\ record = [p \in DOMAIN PlanOf |-> "none"]
  /\ revoked = FALSE /\ calendar = FALSE
  /\ events = [k \in Keys |-> NoEvent]
  /\ changes = << >> /\ minimum = 0
  /\ mirror = [token |-> NoToken, events |-> [k \in Keys |-> NoEvent]]
  /\ edits = 0

-----------------------------------------------------------------------------
\* Captures, previews and replans.

\* Every event passes a fresh conversation gate, one of them is a final
\* transcript, and the source item is new: store.create refuses a known id.
Accepts(c) == c.sound /\ c.final /\ c.id \notin sources

\* The interpreter knows the text and the dry run reaches the calendar.  An
\* error before that leaves the source item behind.
Interpreted(c) == c.text \in DOMAIN PlanOf /\ ~revoked

\* EncryptedProposalStore.save creates the record or moves the existing one.
Save(p, state) == record' = [record EXCEPT ![p] = state]

Preview(c) ==
  /\ c \in deployment.captures /\ Accepts(c)
  /\ sources' = sources \cup {c.id}
  /\ IF Interpreted(c) THEN Save(c.text, "proposed") ELSE UNCHANGED record
  /\ UNCHANGED <<authorityVars, revoked, calendar, events, changes, minimum, mirror, faults, edits>>

ProtectedPreserved(previous, p) == Shielded[previous] \subseteq Shielded[p]

Replan(c, previous) ==
  /\ record[previous] = "applied"
  /\ c \in deployment.captures /\ Accepts(c)
  /\ sources' = sources \cup {c.id}
  /\ IF Interpreted(c) /\ ProtectedPreserved(previous, c.text)
     THEN Save(c.text, "proposed") ELSE UNCHANGED record
  /\ UNCHANGED <<authorityVars, revoked, calendar, events, changes, minimum, mirror, faults, edits>>

-----------------------------------------------------------------------------
\* Applying an approved proposal.

Operation(found, desired) ==
  CASE found = NoEvent -> "insert"
    [] found = desired -> "noop"
    [] found # NoEvent /\ found # desired /\ found.payload = desired.payload -> "external_edit"
    [] OTHER -> "update"

Desired(p, i) == RemoteEvent(p, PlanOf[p][i])
Diff(p) == [i \in DOMAIN PlanOf[p] |-> Operation(events[PlanOf[p][i].key], Desired(p, i))]

\* How many events of the plan apply goes through before it refuses one.
Reach(p) ==
  LET ops == Diff(p)
  IN  CHOOSE n \in 0 .. Len(ops) :
        /\ \A i \in 1 .. n : ops[i] # "external_edit"
        /\ n < Len(ops) => ops[n + 1] = "external_edit"

\* The first n operations carried out: an upsert each, recorded as a change.
Upserts(p, n) == {i \in DOMAIN PlanOf[p] : i <= n /\ Diff(p)[i] \in {"insert", "update"}}

Written(p, n) ==
  [k \in Keys |->
     IF \E i \in Upserts(p, n) : PlanOf[p][i].key = k
     THEN Desired(p, CHOOSE i \in Upserts(p, n) : PlanOf[p][i].key = k) ELSE events[k]]

\* Positions in increasing order.
InOrder(S) == CHOOSE s \in [1 .. Cardinality(S) -> S] : \A i, j \in DOMAIN s : i < j => s[i] < s[j]

WriteLog(p, n) ==
  LET upserts == InOrder(Upserts(p, n))
  IN  [j \in DOMAIN upserts |-> Change(PlanOf[p][upserts[j]].key, Desired(p, upserts[j]), FALSE)]

\* approve() up to the calendar: the round is consumed and the proposal saved
\* as approved; the lease it issues is verified at once.
Approves(p, f) ==
  /\ record[p] = "proposed"
  /\ ValidProof(f, "approval", p, now, active)
  /\ Unused(consumed, ApproveKeys(consumed, p, f))

ApprovalLease(p, f) == Lease(<<p, f.id>>, p, "calendar.apply", "lifeos-calendar-worker", 0)

\* Every event is written, and the proposal is recorded as applied.
ApproveAndApply(p, f) ==
  LET lease == ApprovalLease(p, f)
      keys == ApproveKeys(consumed, p, f)
  IN  /\ Approves(p, f) /\ ~revoked
      /\ Issues("approved") /\ Verified(lease, p, 0, {})
      /\ Reach(p) = Len(PlanOf[p])
      /\ calendar' = TRUE
      /\ events' = Written(p, Len(PlanOf[p]))
      /\ changes' = changes \o WriteLog(p, Len(PlanOf[p]))
      /\ Applies("approved", lease, p)
      /\ consumed' = consumed \cup keys \cup {ApplyMarker(lease)}
      /\ Save(p, "applied")
      /\ UNCHANGED <<deployment, now, active, sources, revoked, minimum, mirror, faults, edits>>

\* apply() refuses an edited event: what it wrote before stays, and the
\* proposal stays approved with its round used up.
ApproveRefused(p, f) ==
  /\ Approves(p, f) /\ ~revoked
  /\ Reach(p) < Len(PlanOf[p])
  /\ calendar' = TRUE
  /\ events' = Written(p, Reach(p))
  /\ changes' = changes \o WriteLog(p, Reach(p))
  /\ consumed' = consumed \cup ApproveKeys(consumed, p, f)
  /\ Save(p, "approved")
  /\ UNCHANGED <<deployment, now, active, sources, revoked, minimum, mirror, faults, edits>>

\* The token is revoked, or a write fails: before it is committed on every
\* attempt, or after, with its answer lost or misreported.
ApproveFailed(p, f) ==
  /\ Approves(p, f)
  /\ \/ /\ revoked
        /\ UNCHANGED <<calendar, events, changes, faults>>
     \/ /\ ~revoked /\ faults < deployment.maxFaults
        /\ faults' = faults + 1
        /\ calendar' = TRUE
        /\ \E n \in 0 .. Reach(p) :
             events' = Written(p, n) /\ changes' = changes \o WriteLog(p, n)
  /\ consumed' = consumed \cup ApproveKeys(consumed, p, f)
  /\ Save(p, "approved")
  /\ UNCHANGED <<deployment, now, active, sources, revoked, minimum, mirror, edits>>

-----------------------------------------------------------------------------
\* Taking a proposal back.

Owned(p) == {k \in Keys : events[k] # NoEvent /\ events[k].proposal = p /\ events[k].payload = PlanOf[p]}

Deleted(gone) == [k \in Keys |-> IF k \in gone THEN NoEvent ELSE events[k]]

\* The order of event ids, which are hashes: any order of the keys.
AnyOrder(gone) == CHOOSE s \in [1 .. Cardinality(gone) -> gone] : \A i, j \in DOMAIN s : s[i] = s[j] => i = j

DeleteLog(gone) ==
  LET order == AnyOrder(gone)
  IN  [i \in DOMAIN order |-> Change(order[i], events[order[i]], TRUE)]

RollsBack(p, undo) == record[p] = "applied" /\ Bound(undo, p) /\ ~revoked

\* rollback and cleanup: the events first, then the undo fact, then the record.
Rollback(p, undo) ==
  /\ RollsBack(p, undo)
  /\ events' = Deleted(Owned(p))
  /\ changes' = changes \o DeleteLog(Owned(p))
  /\ IF Reverts(record[p], undo, p)
     THEN consumed' = consumed \cup {RevertMarker(undo)} /\ Save(p, "reverted")
     ELSE UNCHANGED <<consumed, record>>
  /\ UNCHANGED <<deployment, now, active, sources, revoked, calendar, minimum, mirror, faults, edits>>

\* mutant: the undo fact is consumed and the record moved before the events go
RevertedFirst(p, undo, gone) ==
  IF Reverts(record[p], undo, p)
  THEN consumed' = consumed \cup {RevertMarker(undo)} /\ Save(p, "reverted")
  ELSE UNCHANGED <<consumed, record>>

\* What a rollback cut short has done to the record: nothing.
CutShort(p, undo, gone) == UNCHANGED <<consumed, record>>

\* A deletion fails after some of the events are gone.
RollbackFailed(p, undo) ==
  /\ RollsBack(p, undo) /\ faults < deployment.maxFaults
  /\ faults' = faults + 1
  /\ \E gone \in SUBSET Owned(p) :
       /\ events' = Deleted(gone)
       /\ changes' = changes \o DeleteLog(gone)
       /\ CutShort(p, undo, gone)
  /\ UNCHANGED <<deployment, now, active, sources, revoked, calendar, minimum, mirror, edits>>

-----------------------------------------------------------------------------
\* The provider, and the client's mirror of it.

ExternalEdit(k) ==
  LET e == [events[k] EXCEPT !.content = "edited"]
  IN  /\ events[k] # NoEvent /\ edits < deployment.maxEdits
      /\ events' = [events EXCEPT ![k] = e]
      /\ changes' = Append(changes, Change(k, e, FALSE))
      /\ edits' = edits + 1
      /\ UNCHANGED <<authorityVars, sources, record, revoked, calendar, minimum, mirror, faults>>

ExpireSyncTokens ==
  /\ deployment.client /\ minimum < Len(changes)
  /\ minimum' = Len(changes)
  /\ UNCHANGED <<authorityVars, sources, record, revoked, calendar, events, changes, mirror, faults, edits>>

RevokeToken ==
  /\ deployment.captures # {} /\ ~revoked /\ faults < deployment.maxFaults
  /\ revoked' = TRUE /\ faults' = faults + 1
  /\ UNCHANGED <<authorityVars, sources, record, calendar, events, changes, minimum, mirror, edits>>

\* mutant: only the events that still exist are applied to the mirror
LiveChanges(token) ==
  SelectSeq(SubSeq(changes, token + 1, Len(changes)), LAMBDA c : ~c.deleted)

\* sync_events with a token: the changes after it.
ChangesAfter(token) == SubSeq(changes, token + 1, Len(changes))

StaleToken(token) == token < minimum \/ token > Len(changes)

\* The last change of a key wins; a tombstone removes it.
Merged(old, page) ==
  [k \in Keys |->
     LET own == {i \in DOMAIN page : page[i].key = k}
         last == page[CHOOSE i \in own : \A j \in own : j <= i]
     IN  IF own = {} THEN old[k] ELSE IF last.deleted THEN NoEvent ELSE last.event]

\* sync(previous): incremental, or full for the first time and for a stale token.
Synchronized(previous) ==
  IF previous.token = NoToken \/ StaleToken(previous.token)
  THEN [token |-> Len(changes), events |-> events]
  ELSE [token |-> Len(changes), events |-> Merged(previous.events, ChangesAfter(previous.token))]

\* reconcile reports what differs from the plan and writes nothing.
Reconcile ==
  /\ deployment.client /\ ~revoked
  /\ mirror' = IF calendar THEN Synchronized(mirror)
               ELSE [token |-> NoToken, events |-> [k \in Keys |-> NoEvent]]
  /\ mirror' # mirror
  /\ UNCHANGED <<authorityVars, sources, record, revoked, calendar, events, changes, minimum, faults, edits>>
=============================================================================
