# Personal Secretary / LifeOS: TLA+ specifications

This directory holds the formal specifications of the repository: TLA+ modules
for its stateful parts, TLC configurations that model-check them on small
instances, and TLAPS proofs, for every instance, of properties of the calendar
path with the phone that drives it, of the calendar's custody, of the cloud cell,
of the voice turns, of the text channels, of the interview held aloud, of the
encrypted store and of the work done under leases.
`PROJECT.json` maps every definition to the lines it models and lists components,
runs, mutants, hazards and theorems.

Paths below are relative to `src/`; `S/` stands for
`mac/secretary_service/src/secretary_service/` and `I/` for
`ios/SecretaryApp/SecretaryApp/`.

## The system

A Mac service (the Life Engine) keeps a person's records, goals, memories and
conversations in one encrypted SQLite database. It learns the person's routines
in an interview, plans days and weeks from them, and writes approved plans to one
Google calendar. A phone talks to it over a signed relay: it sends conversation
events from an offline queue, asks the assistant for turns, holds the interview
aloud, and approves week plans with device-signed proofs. Voice sessions and text
channels (Telegram, web chat) stream turns into the same conversation. Agents and
a staged rollout act under one-shot leases. A PostgreSQL cell with its own outbox
and conversations is being prepared for a cloud deployment. Nothing may have an
effect outside without a signed, unexpired, unused proof.

| part | code | module |
| --- | --- | --- |
| proofs, one-shot markers, approval rounds | `S/authority.py`, `authority_consumption.py`, `enrollment.py` | `Authority`, `ProposalAuthority` (abstract) |
| week plan execution and recovery | `S/week_planning.py`, `durable_calendar.py`, `google_calendar*.py` | `CalendarExecution` |
| phone side of a week plan | `I/App/ConversationSession.swift`, `I/Client/SignedConversationRelay.swift`, `EncryptedPendingWeekPlan.swift` | `WeekPlanClient` (extends `CalendarExecution`) |
| custody of the calendar id | `S/google_calendar_live.py`, `scripts/google_calendar_status.py` | `CalendarIdentity` |
| cloud cell: devices, outbox, conversations | `S/postgres_*.py`, `durable_calendar.py` | `PostgresCell`, `PostgresOutbox`, `PostgresConversations`, `ConversationHistory` (abstract), `CloudCell` (composition) |
| ordering gate of a conversation | `S/conversation_api.py` | `ConversationJournal` |
| relay, phones, pruning | `S/relay_store.py`, `conversation_turn.py`, `relay_api.py`, `scripts/relay.py`, `I/Client/EncryptedOutbox.swift`, ... | `ConversationRelay` |
| realtime voice sessions and turns | `S/voice/`, `I/Client/VoiceConversationClient.swift` | `VoiceSession`, `VoiceConversation` |
| text channels | `S/channels/`, `openclaw/` | `ChannelRelay` |
| encrypted store | `S/storage.py`, `transactions.py`, `ledger.py`, repositories, `backups.py`, `recovery.py`, `lifecycle.py`, `migration.py` | `StateDatabase` (with the audit ledger), `CanonicalMigration`, `EncryptedStore` |
| interview and knowledge | `S/life_interview.py`, `life_model.py`, `knowledge_commands.py`, `knowledge_import.py` | `LifeInterview` |
| the phone's voice and the screens that use it | `I/App/NativeInterviewVoice.swift`, `VoiceProvider.swift`, `VoiceStudioProvider.swift`, `LifeInterviewView.swift`, `ConversationSession.swift` | `NativeVoice`, `SpokenInterview` |
| work under a lease | `S/leases.py`, `slice/`, `google_calendar.py`, `google_calendar_sandbox.py`, `commander/`, `workers/`, `rollout.py` | `CapabilityLeases`, `TomorrowSlice`, `AgentWork`, `LeasedWork` (composition) |
| planner, routines, energy | `S/planner*.py`, `week_planning.py`, `energy/` | `DayPlanner`, `EnergyCheckIns`, `PlannedDay` (routines, and the composition) |

How they meet: `WeekPlanClient` is the composition of phone, network and
`CalendarExecution`; `CloudCell` composes outbox and conversations over the same
devices and lock; `SpokenInterview` puts the phone's voice on one of the devices
of `LifeInterview`; `PlannedDay` turns confirmed routines into a week and feeds the
planner with it and with the patterns of `EnergyCheckIns`. `ConversationRelay`, `ChannelRelay`, the
voice modules and `PostgresConversations` all admit events through
`ConversationJournal`; calendar, cell, voice and leases consume proofs with the
operators of `Authority`. `CalendarExecution` implements `ProposalAuthority`, the
lifecycle a proposal is promised; the cell's conversations implement
`ConversationHistory`, what a client may rely on.

## Modules and their correspondence to the code

**Authority.** A proof is a record of what one device signed. `ValidProof`
states the checks of `ProposalLifecycle` and the approval matrix, the consumed
markers are the rows of `authority_consumption`, and the number of reset facts
gives the approval round. Signatures are perfect: a proof exists or does not.

**CalendarExecution.** One process per relay worker. `pc` names the next call
of its handler (preview, approve, execute, recover, reconcile); each database
transaction, Keychain access and HTTP call is a step. The flock is held from the
first transaction to the last and is dropped by a crash. The user edits and
deletes events, and the calendar, at any time. An insert whose answer was
lost may land later.

**WeekPlanClient.** Adds the plan screen, the encrypted pending-plan file, lost
requests, lost answers, refusals before a handler runs, the client timeout and app
kills. Every await is a step: a preview and an authentication stay under way while
the screen changes, and after a start the file is read later, or not at all
(`MissFile`: the session is busy, or another read fails first). `hasty` records
that a plan was asked for while the file was unknown.

**CalendarIdentity.** `find_calendar` and `create_calendar` step by step over the
two Keychain items, for any number of processes at once: the relay, a preview and
the owner's script, which takes no lock. `raced` records that a step undid or
ignored what another process did since it looked.

**CloudCell and its parts.** Every unit of work is one transaction under the
cell's row lock, hence one action. The clock value a worker or the sweep sends
may be older than the transaction that uses it. Conversations replay their stored
events through the gate before they admit new ones.

**ConversationJournal.** `Accept` and `Rejection` are `accept` as operators.

**ConversationRelay.** One conversation, its phones with their two concurrent
lanes (everything under `isBusy`, and the assistant turn), the files that survive
an app kill, the relay's transactions, and the separate pruning process.

**VoiceSession, VoiceConversation.** Tokens, reconnect windows, barge-in,
transcripts and their retention, consent, provider outages; on top of it the five
calls of a turn and the replan that follows a confirmation.

**ChannelRelay.** An adapter handles one delivery at a time; each call across the
boundary is a step, so other adapters and devices come in between, and it may be
lost before or after it took effect. Queue and bindings live in memory, the
Telegram cursor with the caller.

**StateDatabase, CanonicalMigration, EncryptedStore.** The audit ledger, the
repositories and the migration are functions from one database value to the
next; `EncryptedStore` says when such a value is committed, rolled back, left in
an open transaction, backed up, restored or lost. Long calls (delete, run_expiry,
backup) are lists of steps that a crash may cut short.

**LifeInterview.** One session per person, each turn, command and import one
transaction of the governed memory. A device answers the reply it last received,
which may be old or may have been lost. Texts are small values; what a text says
about days and times is the constant `Extracted`.

**NativeVoice, SpokenInterview.** The voice is a record and every call on it an
operator that yields its next value, or the set of its outcomes. Jobs posted to
the main actor (recognition results, timers, player and synthesizer callbacks,
Tasks, answers of requests) wait in sets and run in any order; a counter the code
compares (generation, utterance, permission) becomes the job's property of being
stale, set by whatever advances the counter.

**CapabilityLeases, TomorrowSlice, AgentWork, LeasedWork.** Requests run to
their end, so an action is a request with the outcomes of its failures, and what
was committed before a failure stays. Proposal objects, leases and handles remain
in the callers' hands and may be presented again, also after a restart.

**DayPlanner, EnergyCheckIns, PlannedDay.** Reservation, each greedy placement,
the second look at dependencies and the rendering are the steps of the planner;
scores, free minutes, merging and diffs are operators, and so is the mapping of
routines to the activities of a week. Time is in elapsed minutes, and `Wall` gives
the wall clock, which is not injective on the day the clocks go back.

A call that raises without having changed anything is a stuttering step and is
not written down, except where the refusal itself is what a property is about.

## Runs

Every passing run finishes in under five minutes with two workers and has, for
each property, a mutant of a mapped definition that violates it.

| run | what it shows |
| --- | --- |
| `calendar_recovery` | One worker, a two-event plan, two approvals, a reset and a misdirected proof, with crashes, lost and late inserts and user changes between any two calls: one approval per round, one execution per proof, no event without a proof, `applied` means written, user changes are kept, the lifecycle of `ProposalAuthority` is followed, and every request ends, retries included. |
| `phone_and_relay` | A phone, two relay processes and the calendar: a plan that may be half executed is held by the phone for recovery, unless another was asked for before the file was read; at most one process executes, and only while the proposal is approved. |
| `identity_crashes` | Three processes at once, failing anywhere: no second calendar and no unguarded orphan, but for the three steps in which one process overtakes another. |
| `cloud_cell` | A job is handed out at most once, with authority valid at that moment; every accepted event is stored or accounted for by its deletion; the conversations implement `ConversationHistory`. |
| `cloud_sweep` | Violation: see the first known deviation. |
| `relay_everyday` | Nothing queued is lost, and every conflict has one of the known causes, a full conversation among them; while the conversation is only written to, every queue is delivered or reported as a conflict. |
| `voice_everyday` | Cancelled turns are silent, and a replan is applied at most once and never without approval. |
| `store_everyday` | The audit chain verifies in every database that can exist, what was deleted or forgotten is in no recoverable backup, a migration is whole, and the audit ledger tells the state of the rows, also behind a refused duplicate. |
| `interview_devices` | A routine was shown and confirmed before it is used, what is withheld stays out of planning, a turn replaces only what its device was shown; on the phone, a paused voice is quiet and does not hear itself, and an answer goes to its question. |
| `channel_deliveries` | What a channel acknowledged is stored, and a turn stays open only for a known reason. |
| `leased_work` | A reverted plan leaves nothing on the calendar, the mirror is exact, and each rollout stage spent a lease of its own. |
| `planned_days` | Placements are sound, a plan is shown in the order of its dependencies and withheld only for what the user fixed, every activity given up has a reason that is still true, the projection covers what it shows, reports had consent, and a replan that reports no effect has none. |

Further properties hold on the same instances. They are named in the modules, and
are checked by putting them into the run's configuration (`TypeOK`,
`ProviderFollowsSession`, `UsesAreBacked` and those of `MCChannelRelay.cfg` are also
proved):

| configuration | properties |
| --- | --- |
| `MCCalendarExecution.cfg` | `TypeOK` |
| `MCCloudCell.cfg` | `ApprovedHasItsJob` (approval and job commit together), `StreamsReplay` |
| `MCVoiceConversation.cfg` | `EventsMatchJournal`, `ProviderFollowsSession`, `LockOutExplained` (the only lock-out is an expired token) |
| `MCChannelRelay.cfg` | `FinalEndsItsTurn`, `ResumedOnce`, `RevokedStaysOut` (temporal) |
| `MCLeasedWork.cfg` | `AppliedWasWritten`, `UsesAreBacked` |
| `MCConversationRelay.cfg` with `SPECIFICATION Spec` and `Scenarios <- Busy` | `SequenceRemembered` |
| `MCPlannedDay.cfg` | `PlanIsGapless`, `EnergyRestsOnReports`, `RefusalExplained` |
| `MCLifeInterview.cfg` | `WaitsForSomething` (a busy voice waits for something that will come) |

**Bounds.** Sets have one to four members, clocks a few units, sequences at most
six. Each bound is a constant or a field of a *scenario* (also called `world` or
`deployment`). Where all features together would be too large, such a variable is
chosen at the start and never changes. It enables a few features with their own
bounds, so one run covers several small systems, each of which has the
interactions that matter: delivery with a crash, deletion with an assistant turn,
backups with retention, a health check with a pause, two workers of one webhook.
Counters without a bound in the code (attempts, lives of a conversation, late
messages, backups, revisions, posted callbacks, suspended starts) are capped in
guards by named constants or scenario fields (`MaxAttempts`, `MaxLives`,
`MaxLate`, `MaxBackups`, `MaxTime`, `MaxEvents`, `maxRevision`, `maxPosted`,
`maxStarts`). In `MCWeekPlanClient` the two relay processes are alike
(`AlikeWorkers`). Once a plan was asked for with the file unknown, where
`InterruptedIsHeld` claims nothing more, `HastyBound` keeps to one request at a time
and to the part of a handler before the lease; that one process executes is proved
without it. Two devices, two processes, two events or two competing proofs are
enough for each race the code guards against, because every guard compares one
actor's value with one other's. Deadlock checking is off only where every process
may rest with nothing left to do.

**Fairness.** `RequestsEnd` (`FairSpec` of `CalendarExecution`) assumes weak
fairness of each live relay process's next call: a handler is a thread that keeps running, and every
call it makes has a timeout. `QueueDrains` (`FairSpec` of `ConversationRelay`)
assumes that the user presses Sync while something is queued, that the lane goes
on with its answer, that the relay serves what a phone waits for, and that from
some moment on only a lost request times out; crashes and kills are finite in
number. Nothing else is assumed of users and the network.

## Proofs

Eight modules hold theorems. All quantify over every value of the constants that
satisfies the named ASSUMEs, which TLC evaluates in the runs. The properties they
establish are the ones TLC checks on the small instances above; what the proofs
add is the inductive invariant behind each.

Most leaves name Zenon, which needs no translation of the context and proves them
in well under a second; arithmetic, tuples and sequences are left to the SMT
solver, and the few slow leaves have a longer limit. `FiniteSetTheorems` is
instantiated only where the lemmas on cardinality begin, in the last part of
`ConversationProofs` and `EncryptedStoreProofs`. The lemmas before it take what
they need of finite sets as a hypothesis (`Countable`: sizes of disjoint unions and
of differences; `Listable`: the members of a finite set can be listed), spelled out
with `Finite` and `Count`, and `SetsCount` and `RowsAreListable` prove it there.

**Calendar path** (`CalendarHandlerProofs`, `CalendarExecutionProofs`): type
correctness, `ExecutionHoldsApproval`, `OneExecutionPerProof`,
`EffectsAuthorized`, `RoundUsedOnce`, `UserChangesKept`, `AppliedMeansWritten`,
and that `CalendarExecution` implements `ProposalAuthority`. None of the
invariants is inductive. `IndInv` is the conjunction of

- `TypeOK`;
- `HandlerInv`: a worker inside the locked part holds the flock, so at most one
  is there, and what it serves is known from its `pc`;
- `LeaseInv`: each execution lease was paid for by the marker of its proof;
- `EffectsAuthorized`, which needs `LeaseInv` for the event being inserted;
- `RoundInv`: the current round's marker exists exactly while the proposal is
  approved or applied, which needs `HandlerInv` between consuming the marker and
  changing the state;
- `WrittenInv`: the events a worker has passed in its write loop are at Google
  or were touched by the user, which is what `applied` rests on.

`CalendarHandlerProofs` has the lemmas on `TypeOK` and `HandlerInv`, one per
action; the other module has the rest. The action properties and the refinement
follow from `IndInv` step by step.

**Phone and relay** (`CalendarAroundProofs`): `InterruptedIsHeld`, and
`ExecutionHoldsApproval` for the composition. `StepIsNext` shows that every step
of phone, network and relay is a step of `CalendarExecution` or leaves it alone,
so `IndInv` carries over. That a plan which may be half executed is held depends
on all that can still be answered; `HoldInv` therefore adds, as long as no plan was
asked for with the file unknown (`Careful`), what the phone remembers of its
request (`PhoneInv`), that nothing is under way while the file is still to be read,
and what is read is what is saved (`LoadInv`), that at most one approval is under
way, for the saved plan, which is still proposed (`ApprovalInv`), and that an answer
which will clear the saved plan is true when it arrives (`AnswerInv`). That a
request is served once (`WireInv`) holds in any case. `PhoneAssumption` says that the phone is one
of the devices, and that "none" is neither a proposal nor a proof.

**Custody of the calendar** (`CalendarAroundProofs`): `OrphansAreGuarded` and
`OneCalendar`, for any number of processes at once, up to the three steps that
`raced` records; these are no assumption about the processes, and without the
exception `OneCalendar` is false (see the known deviations). `IdentityInv` adds,
until a step has raced, what each step of a call relies on: the id about to be
cleared names no calendar, at most one process is between setting the guard and
clearing it, nothing exists when its insert is sent, and the guard stands from
before the insert until the id is kept.

**Cloud cell** (`ConversationProofs`): `HandedOutOnce`, `HandOutAuthorized`,
`AcceptedAreAccountedFor` and the refinement `KeepsConversationHistory`. `JobInv`
says that a job exists once the marker of its approval is consumed, so no approval
enqueues it again, and that it is queued only before its first claim. `TalkInv` says that a conversation is
stored or deleted, never both, and that a stream is a sequence of events.
`AccountInv` adds that rooms, bindings and rows are finite in number; each call
then changes a count by the size of what it stores or purges, which is a fact
about the cardinality of unions of disjoint finite sets.
`BatchesAssumption` (what is left of a batch without some ids is a sequence of
its events) is a fact about `SelectSeq` that needs induction and is therefore
stated as an assumption, which TLC evaluates.

**Voice turns** (`ConversationProofs`): `CancelledIsSilent`,
`ProviderFollowsSession` and `ReplanAppliedOnce`. The first two are kept by each
call of the service once every token is known to name a session (`ServiceShape`)
and the turn under way and the pending confirmations are known to name turns
(`CoordinatorInv`), since the coordinator calls the service with what it
remembered. `ReplanInv` explains an applied replan by the marker of the
proposal's one round: the tools never reset a proposal, so no approval passes
that marker again. `ScenariosAssumption` keeps a scenario within the constants.

**Text channels** (`ChannelRelayProofs`): `AcknowledgedIsStored` and
`OpenTurnExplained`, from `RelayInv`. Its parts are `StreamInv` (the gate's
numbers and ids are those of the stream, an open turn of a channel has its
partial, a final has its partial before it and its turn is not open), `JobInv`
(an adapter sends a final only after its partial is stored) and `ExplainInv`.
Other writers come in between two calls of an adapter, so `JobInv` rests on the
stream only growing. `FinalEndsItsTurn` and `ResumedOnce` are claims about the
whole stream while the gate remembers one open and one cancelled turn; `GateInv`
says that what it remembers is explained by the stream. `RevokedStaysOut`
follows from `RegistryInv`: an external identity is used by one binding, and a
barred one by a binding that stays revoked. `WorldsAssumption` says that ids are
distinct as uuids are: no other device writes as the bridge or under a delivery's
turn id.

**Interview held aloud** (`SpokenInterviewProofs`): `PausedIsQuiet` and
`AnswersItsQuestion`. `VoiceInv` says which posted jobs still count: a callback
only while its utterance is spoken, a result or timer only while the microphone is
open, and what is heard then answers what was last spoken. `InterviewInv` says
that every device was shown a revision the interview has reached and a question
with a key, for which every operation that makes a reply is shown to move the
revision forward or keep it. `ScreenInv` ties both together: once the screen has
noticed the revision it was shown last, the voice speaks of, or listens for, the
question on the screen. The first attempt failed on a reload that changes the
question but not the revision; that case is now an exception of
`AnswersItsQuestion` and happens in its run. `WorldsAssumption` says that every
topic of a catalogue has a key.

**Encrypted store** (`EncryptedStoreProofs`): `ChainVerifies` and
`ErasedIsUnrecoverable`. `Sound` (in `StateDatabase`) is what
every operation of a repository keeps of a database, seen together with the backup
files: the tables have their types, the ledger is a list that verifies, what has a
tombstone is gone, and a backup whose key is still there holds only what is still
live and can be found through the catalog. The last part is what a deletion rests
on, since it looks up in the catalog which keys to destroy. `StoreInv` says it of
the database in use, of the committed one and of every file, because a crash or a
restore makes one the other, and adds

- `StepsOK`: in what is left of a lifecycle call, a deletion comes behind the
  invalidation of the backups that hold the record, and nothing is deleted between
  the copy of the database and its registration;
- `PurgedInv`: what was ever deleted durably is live neither in use nor on disk,
  and a tombstone in any file counts as such, which a restore depends on;
- `DurableInv`: the database in use differs from the committed one only inside a
  transaction.

Entries are appended as lists, so the chain is verified by arithmetic on positions
and no induction is needed; that a pruned ledger has a last expired entry follows
from the well-foundedness of the naturals. `DatabaseAssumption` (finite tables,
groups told apart, a selection of groups is a list of them),
`ManifestsAssumption` (a manifest has finitely many merges) and
`ScenariosAssumption` (a scenario starts from sound databases) are evaluated by the
run.

**Work under leases** (`LeasedWorkProofs`): `RevertedLeavesNothing`,
`MirrorIsExact`, `ApplicationsSpendLeases` and `UsesAreBacked`. `SliceInv` says
that an event belongs to the plan that wrote it, that approval rounds are never
reset, and that the provider's log since the mirror's token leads from the mirror
to the calendar (`MirrorCatchesUp`): a mirror at the present token is then the
calendar. The last write of a key decides, so each step only has to show that what
it logged explains what it changed. `RolloutInv` adds to the counting of
applications that leases are finite in number. `LeaseInv` says that leases are
issued for approved proposals only, that a use is among the issuer's spent leases
of this life of the process, and that every attempt and effect of a worker holds a
lease and a credential handle no other one has. `PlansAssumption` says that plans
are finite in number and that the blocks of one have ids of their own.

Only model-checked:

- `RequestsEnd` and `QueueDrains`: liveness is out of the prover's reach;
- `NothingLost` and `ConflictExplained` of the relay and the planner's properties: they rest on what folds, filters and recursive
  functions compute (replays, queues, placement), which needs induction over data.
  The library's induction theorems take an operator as parameter, which the
  provers cannot instantiate. A least-number argument over a set does work
  (`LeastNatural`, `LastPosition`);
- `MigrationIsWhole` and `AuditTellsState`: they need a second invariant that relates each database to
  the ones it came from, over every operation, for which no proof was made;
- `RoutineWasConfirmed`, `WithheldStaysOut` and `ReplacesOnlyShown` of
  `LifeInterview`: they rest on reviews and imports that replace many facts in one
  call, as folds.

## Known deviations

Each item is a statement of a document, comment or test that the model does not
satisfy. The first has a run. For the others TLC reports the violation when the
property is put into the configuration named in place of the
properties there (with `SPECIFICATION Spec` in `MCConversationRelay.cfg`).

- `SweepMarksTimedOut` (run `cloud_sweep`): the sweep gives a timed-out job a
  status the table's CHECK constraint refuses, so it rolls back and the job stays
  running.
- `EveryAckIsDurable` (`MCEncryptedStore.cfg`): a duplicate goal or observation
  leaves the driver's transaction open (`S/goals.py:190`,
  `S/learning/repository.py:58`); calls that then use `domain_transaction` return
  without a commit and are lost in a crash.
- `DeletedLessonStaysDeleted` (`MCEncryptedStore.cfg`): a lesson corrected before
  it was deleted is proposed again (`S/learning/repository.py:33`).
- `ErasedLeavesNoCopy` (`MCEncryptedStore.cfg`): `delete` promises to purge all
  content versions (`S/domain_repository.py`), and the copy a migration made
  stays.
- `ProposedHasNoEvents` (`MCCalendarExecution.cfg`): a late insert can land after
  reconciliation saw zero effects and reset the proposal (`docs/authority.md:51`).
- `HoldSurvives` (`MCWeekPlanClient.cfg`): "Recover this same
  plan before creating another" (`I/App/ConversationSession.swift:516`), but a plan
  asked for before the saved one was read, or after reading it failed, is shown and
  can be approved, and its approval overwrites the file.
- `PartialPlanIsHeld` (`MCWeekPlanClient.cfg`): the phone treats every 409 as a
  failure before execution, but `calendar_contract` is raised inside the write
  loop.
- `RecoveryResolves` (`MCWeekPlanClient.cfg` with `SPECIFICATION CalmSpec`, without
  constraint and symmetry, one
  worker, `Proposals = {p1}`, `EventCount <- OnePlan`, `Proofs <- OnePlanProofs`,
  `MaxAttempts = 1` and `MaxTime = 0`; a calm day: no crash, no user change, Google
  answers, and messages are not lost for ever): when the approval never arrived, or its success answer was lost, recovery answers 409
  for ever and the hold is never released.
- `NeverTwoCalendars` (`MCCalendarIdentity.cfg`): the transport is to create one
  secondary calendar (`docs/google-calendar-live.md`), but the owner's script does
  not take the flock, and looking and clearing, checking the guard and setting it
  are separate calls (`S/google_calendar_live.py:242`).
- `CancelledTurnIsClosed` (`MCChannelRelay.cfg`): cancelling a second turn reopens
  the first.
- `FlushesInArrivalOrder` (`MCChannelRelay.cfg`): a delivery whose retry fails is
  queued again behind later ones (`S/channels/relay.py:94`).
- `ConflictMeansStale` (`MCConversationRelay.cfg`, with `Scenarios <- AgentOnly`
  and with `VoiceOnly`): one phone alone gets a permanent conflict from two
  different titles, or from a voice turn that was never closed.
- `StaleInferenceRejected` (`MCConversationRelay.cfg`): an assistant turn begun
  before a deletion is stored in the conversation created after it.
- `PrunesOnlyDue` (temporal, `MCConversationRelay.cfg`): pruning selects outside
  the transaction that deletes.
- `AppliedIsRecorded` (`MCVoiceConversation.cfg`): a replan applied after its
  session reconnected is never recorded as approved.
- `AnswersAreContinuous` (`MCVoiceConversation.cfg`): the phone's event cursor
  stops for good after an interruption it did not count.
- `EndedIsSilent` (`MCLifeInterview.cfg`): the end of a voice conversation is to
  stop the microphone "immediately, including during a network call"
  (`I/App/ConversationSession.swift:343`), but a start that waits for the health
  check opens it afterwards (`I/App/NativeInterviewVoice.swift:100`).

Seen while modelling, without a configuration of their own:

- Voice session: a token that expires while its session is connected locks the
  device out until the service restarts; a session that ends may leave an open
  partial in the journal.
- Store: `connection.backup` waits for ever behind a transaction its own
  connection left open; a crash right behind a user's deletion leaves no
  replacement backup until the next one is due; pruning removes unexpired audit
  entries in front of an expired one when stamps are out of order; a second
  migration of a family already copied is refused by its primary keys.
- Interview: reviewing `work.schedule` or `planning.fixed_commitments` overturns
  an exclusion from planning (`S/life_interview.py:749`); `correct` keeps the old
  structured routine (`S/knowledge_commands.py:110`); an answer is checked against
  its question's key, not its revision's wording.
- Interview screen: a reload that brings another question under the revision the
  screen already knows (the owner forgot an answer meanwhile) is not noticed, so
  the voice goes on with the old question (`I/App/LifeInterviewView.swift:89`).
- Native voice: an utterance the system cancels leaves the state "speaking"; an
  answer handed over just before a new reply arrives is sent under the new
  question's key (`I/App/LifeInterviewView.swift:143`); a start resumed over a
  spoken reply listens to it.
- Channels: an exception or a refusal after the delivery was taken off the queue
  loses it; a turn half sent before a restart blocks the conversation; bindings
  live in memory only.
- Leases and slice: a repeated capture moves an applied proposal back to proposed;
  a failed apply leaves the proposal approved with its round consumed and no
  recovery; a replan with an equal payload is refused as an external edit, one with
  another overwrites the user's edit; rolling back a replan does not restore the
  plan before it.
- Planner: merging and diffs compare wall clocks, so blocks an hour apart merge on
  the day the clocks go back; a fixed activity with travel makes every energy
  replan unsafe (`S/energy/planner_feedback.py:43`); a routine that depends on one
  left out as a gap is still emitted (`S/week_planning.py:8`); a snooze may be
  repeated.

## Not modelled

Cryptography, TLS, Keychain contents, text and audio, provider answers and
formatting are abstracted. These parts have no module; `PROJECT.json` gives the
reason for each:

- calls to model providers (`S/hermes/`) and the remote memory back ends: pure
  I/O, whose answers the models take as nondeterministic;
- request signatures, TLS pinning, keys, configuration and wiring: checks of one
  call or set-up before the service runs;
- the views without a protocol, generated contracts, scripts, the voice fixture
  and the development harness: not part of the running system.

Inside modelled parts, these are left out: root-key rotation and the redacted log
of voice sessions, opening the database with a wrong key, rollback of an executed
week plan (nothing calls it), the text patterns that extract days and times from
an answer, the encrypted display cache, and the wording of plan explanations. In
the source, nothing but tests instantiates the channel adapters, the Commander,
the sandbox worker, the rollout coordinator, the authority profiles, the energy
functions and the canonical migration; they are modelled as the callers the tests
stand for would use them.
