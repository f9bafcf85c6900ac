--------------------------- MODULE EncryptedStore ---------------------------
(* The encrypted state store of the Mac service: one SQLCipher connection     *)
(* shared by every repository (storage.py, transactions.py), encrypted        *)
(* backups (backups.py), retention and user deletion (lifecycle.py) and       *)
(* recovery (recovery.py).                                                    *)
(*                                                                            *)
(* db is what the connection sees, disk what is committed, and inTransaction  *)
(* the connection's own flag.  Operations differ in how they end:             *)
(*   - domain records, memories and approvals run in domain_transaction,      *)
(*     which opens a transaction, or a savepoint when one is already open,    *)
(*     and commits only in the first case;                                    *)
(*   - goals, learning, exports, the catalog and pruning rely on the driver   *)
(*     to open a transaction at the first write and call commit() at the end: *)
(*     a statement refused in between leaves that transaction open;           *)
(*   - device enrollment uses `with connection`, which commits on success     *)
(*     and rolls everything back on an exception.                             *)
(*                                                                            *)
(* The process is single-threaded: a lifecycle call runs its steps in order,  *)
(* each committed by itself, and may be cut short by a crash.  job holds the  *)
(* steps left of the running call.                                            *)
EXTENDS CanonicalMigration

CONSTANTS
    RecordRetention, BackupRetention, AuditRetention,   \* in clock units
    Scenarios       \* which calls, from which state, within which bounds

(* A scenario starts from databases that calls could have left, and its       *)
(* backup files were taken of earlier states of the database.                 *)
ASSUME ScenariosAssumption ==
    \A s \in Scenarios :
        /\ s.copies \in Seq(Range(s.copies))
        /\ \A d \in {s.start} \cup Range(s.copies) :
               Sound(d, s.copies) /\ d.tombs \subseteq s.start.tombs

VARIABLES scenario, clock, db, disk, inTransaction, files, job, purged

vars == <<scenario, clock, db, disk, inTransaction, files, job, purged>>

(* A scenario: the calls made (and the observations recorded), the database   *)
(* and backup files it starts from, and bounds on the time, the audit         *)
(* sequence, the versions of a record and the backup files.                   *)
Scenario(ops, start, copies, time, entries, versions, backups) ==
    [ops |-> ops, start |-> start, copies |-> copies, time |-> time,
     entries |-> entries, versions |-> versions, backups |-> backups]

May(op) == op \in scenario.ops

Idle == job = <<>>

(* Room in the bounded audit sequence for n more entries.                     *)
Room(n) == LastLink(db.audit).sequence + n <= scenario.entries

(* The time a caller stamps its context with: read before the call, so it may *)
(* lag the clock by a unit in the scenarios that say so.                      *)
Stamps == {clock} \cup (IF May("late") /\ clock > 0 THEN {clock - 1} ELSE {})

Init ==
    /\ scenario \in Scenarios
    /\ clock = 0
    /\ db = scenario.start
    /\ disk = scenario.start
    /\ inTransaction = FALSE
    /\ files = scenario.copies
    /\ job = <<>>
    /\ purged = scenario.start.tombs

-----------------------------------------------------------------------------
(* How an operation ends.  purged only records, for the properties, what was  *)
(* ever deleted durably.                                                      *)

(* domain_transaction around a successful body.                               *)
Transact(new) ==
    /\ db' = new
    /\ disk' = IF inTransaction THEN disk ELSE new
    /\ purged' = purged \cup disk'.tombs
    /\ UNCHANGED inTransaction

(* Writes followed by connection.commit().                                    *)
Commit(new) ==
    /\ db' = new
    /\ disk' = new
    /\ purged' = purged \cup disk'.tombs
    /\ inTransaction' = FALSE

(* A statement refused after the driver opened a transaction: the exception   *)
(* leaves the transaction open with whatever was written before it.           *)
Refuse(left) ==
    /\ db' = left
    /\ inTransaction' = TRUE
    /\ UNCHANGED <<disk, purged>>

(* connection.rollback().                                                     *)
Rollback ==
    /\ db' = disk
    /\ inTransaction' = FALSE
    /\ UNCHANGED <<disk, purged>>

Call == Idle /\ Verified(db.audit) /\ UNCHANGED <<scenario, clock, files, job>>

-----------------------------------------------------------------------------
(* Calls on the repositories.                                                 *)

(* A record identity is a fresh UUID; only one that has a tombstone is tried  *)
(* again, and that is refused.                                                *)
Create(r) ==
    /\ May(r) /\ Call /\ Room(1)
    /\ r \notin purged /\ CanCreate(db, r)
    /\ \E at \in Stamps : Transact(Created(db, r, at))

Transition(r) ==
    /\ May("records") /\ Call /\ Room(1)
    /\ db.live[r] \in 1..(scenario.versions - 1)
    /\ \E at \in Stamps : Transact(Transitioned(db, r, at))

Remember(x) ==
    /\ May("memory") /\ Call /\ Room(1)
    /\ CanRemember(db, x)
    /\ Transact(Remembered(db, x, clock))

Correct(x) ==
    /\ May("memory") /\ Call /\ Room(1)
    /\ db.memory[x] \in 1..(scenario.versions - 1)
    /\ Transact(Corrected(db, x, clock))

Forget(x) ==
    /\ May("memory") /\ Call /\ Room(1)
    /\ db.memory[x] > 0
    /\ Transact(Forgotten(db, x, clock))

PurgeMemories ==
    /\ May("memory") /\ Call /\ Room(Cardinality(ExpiredMemories(db, clock)))
    /\ Commit(MemoriesPurged(db, clock))

(* GoalGraphRepository.add: a known identity violates the primary key.        *)
AddGoal(g) ==
    /\ May("goals") /\ Call /\ Room(1)
    /\ CanAdd(db, g)
    /\ \/ g \notin db.goals /\ Commit(GoalAdded(db, g, clock))
       \/ g \in db.goals /\ Refuse(db)

RecordObservation(o) ==
    /\ May(o) /\ Call /\ Room(1)
    /\ \/ o \notin db.seen /\ Commit(ObservationRecorded(db, o, clock))
       \/ o \in db.seen /\ Refuse(db)

Learn ==
    /\ May("learning") /\ Call /\ Room(Len(Groups))
    /\ Commit(Learned(db, clock))

Approve(g) ==
    /\ May("learning") /\ Call /\ Room(1)
    /\ db.proposals[g].status = "proposed"
    /\ Commit(ProposalReplaced(db, g, "approved", db.proposals[g].content, clock))

CorrectProposal(g) ==
    /\ May("learning") /\ Call /\ Room(1)
    /\ db.proposals[g].status # "none"
    /\ \E c \in Corrections :
           /\ c # db.proposals[g].content
           /\ Commit(ProposalReplaced(db, g, "corrected", c, clock))

(* LearningRepository.delete: one tombstone per proposal identity, so the     *)
(* second deletion of a re-proposed lesson is refused after its row is gone.  *)
DeleteProposal(g) ==
    /\ May("learning") /\ Call /\ Room(1)
    /\ db.proposals[g].status # "none"
    /\ IF \E t \in db.lessons : t.group = g
       THEN Refuse(ProposalErased(db, g))
       ELSE Commit(LessonBuried(db, g, clock))

PurgeObservations ==
    /\ May("learning") /\ Call /\ Room(Cardinality(ExpiredObservations(db, clock)))
    /\ Commit(ObservationsPurged(db, clock))

(* EncryptedDevicePersistence.insert.                                         *)
Enroll(v) ==
    /\ May("devices") /\ Idle
    /\ IF v \in db.devices
       THEN Rollback
       ELSE Commit([db EXCEPT !.devices = @ \cup {v}])
    /\ UNCHANGED <<scenario, clock, files, job>>

(* StateExporter.redacted: the marker is the first record's identity.         *)
Export ==
    /\ May("export") /\ Call /\ Room(1)
    /\ \E r \in LiveRecords(db) : Commit(Audited(db, clock, "redacted", r, 0))

(* migrate_canonical: past its first checks it commits whatever transaction   *)
(* is open (executescript), then writes in one of its own.                    *)
Migrate(m) ==
    /\ May("migrate") /\ Call /\ Presentable(db, m)
    /\ Room(Cardinality(FamiliesCopied(db, m)) + Cardinality(m.merges) + 1)
    /\ Commit(IF Writable(db, m) THEN Migrated(db, m, clock) ELSE Undone(db, m))

-----------------------------------------------------------------------------
(* Lifecycle calls, one committed step at a time.                             *)

Destruction(backups, status) ==
    LET order == AnyOrder(backups) IN [i \in DOMAIN order |-> <<"destroy", order[i], status>>]

Invalidation(d, r) ==
    Destruction(ToInvalidate(d, r), "invalidated")

(* mutant: the record is deleted before its backups are invalidated, and the  *)
(* index no longer has to be consulted once it is gone.                       *)
DeletionWithoutInvalidation(r) == << <<"related", r>>, <<"delete", r>>, <<"copy">> >>

(* LifecycleManager.delete.                                                   *)
Deletion(r) == << <<"invalidate", r>>, <<"related", r>>, <<"delete", r>>, <<"copy">> >>

(* LifecycleManager.run_expiry: the records due, the audit prefix, backups.   *)
DueRecords(d) == {r \in LiveRecords(d) : r \in Raw /\ d.made[r] + RecordRetention <= clock}

Purge(rs) ==
    LET order == AnyOrder(rs)
    IN  [i \in 1 .. 2 * Cardinality(rs) |->
            IF i % 2 = 1 THEN <<"invalidate", order[(i + 1) \div 2]>> ELSE <<"delete", order[i \div 2]>>]

Expiry == Purge(DueRecords(db)) \o << <<"prune">>, <<"expire">> >>

Start(steps) ==
    /\ Idle
    /\ job' = steps
    /\ UNCHANGED <<scenario, clock, db, disk, inTransaction, files, purged>>

DeleteRecord(r) == May("delete") /\ r \in LiveRecords(db) \cup db.tombs /\ Start(Deletion(r))
RunExpiry == May("expiry") /\ Start(Expiry)
Backup == May("backup") /\ Start(<< <<"copy">> >>)

Doing(step) == ~Idle /\ Head(job)[1] = step

(* What follows the current step.                                             *)
Then(steps) == job' = steps \o Tail(job) /\ UNCHANGED <<scenario, clock>>

InvalidateContaining ==
    /\ Doing("invalidate")
    /\ Then(Invalidation(db, Head(job)[2]))
    /\ UNCHANGED <<db, disk, inTransaction, files, purged>>

DestroyKey ==
    /\ Doing("destroy")
    /\ Commit(KeyDestroyed(db, Head(job)[2], Head(job)[3]))
    /\ Then(<<>>)
    /\ UNCHANGED files

(* The records derived from a deleted one, one level deep.                    *)
FindRelated ==
    /\ Doing("related")
    /\ LET r == Head(job)[2]
       IN  Then(Purge({q \in LiveRecords(db) : Source[q] = r /\ q # r}))
    /\ UNCHANGED <<db, disk, inTransaction, files, purged>>

(* delete_record; a record that is gone raises and ends the call.             *)
DeleteStep ==
    /\ Doing("delete") /\ Room(1)
    /\ IF db.live[Head(job)[2]] > 0
       THEN Transact(Deleted(db, Head(job)[2], clock)) /\ Then(<<>>)
       ELSE /\ job' = <<>>
            /\ UNCHANGED <<scenario, clock, db, disk, inTransaction, purged>>
    /\ UNCHANGED files

(* write_encrypted_backup.  The driver's backup call waits for as long as its *)
(* own connection has a write transaction open: nothing but a restart ends it. *)
CopyDatabase ==
    /\ Doing("copy") /\ ~inTransaction
    /\ Len(files) < scenario.backups
    /\ files' = Append(files, db)
    /\ Then(<< <<"register", Len(files) + 1>> >>)
    /\ UNCHANGED <<db, disk, inTransaction, purged>>

RegisterBackup ==
    /\ Doing("register")
    /\ Commit(Registered(db, Head(job)[2], clock))
    /\ Then(<<>>)
    /\ UNCHANGED files

(* prune_before commits only when something expired.                          *)
PruneStep ==
    /\ Doing("prune")
    /\ LET cutoff == clock - AuditRetention
       IN  IF ExpiredAt(db.audit, cutoff) = {}
           THEN UNCHANGED <<db, disk, inTransaction, purged>>
           ELSE Commit([db EXCEPT !.audit = PruneBefore(@, cutoff)])
    /\ Then(<<>>)
    /\ UNCHANGED files

ExpireBackups ==
    /\ Doing("expire")
    /\ Then(Destruction(ToExpire(db, clock, BackupRetention), "expired"))
    /\ UNCHANGED <<db, disk, inTransaction, files, purged>>

-----------------------------------------------------------------------------
(* The environment.                                                           *)

(* The process dies, or is restarted: what was not committed is gone.         *)
Crash ==
    /\ May("crash")
    /\ db # disk \/ ~Idle \/ inTransaction
    /\ db' = disk
    /\ inTransaction' = FALSE
    /\ job' = <<>>
    /\ UNCHANGED <<scenario, clock, disk, files, purged>>

(* BackupRecovery.restore with the catalog's present manifest, and the        *)
(* service started on the restored file.                                      *)
Restore(b) ==
    /\ May("restore") /\ Idle /\ ~inTransaction
    /\ disk.catalog[b].status = "active"
    /\ Verified(files[b].audit)
    /\ db' = files[b]
    /\ disk' = files[b]
    /\ UNCHANGED <<scenario, clock, inTransaction, files, job, purged>>

(* Days pass between calls.                                                   *)
Tick ==
    /\ Idle /\ clock < scenario.time
    /\ clock' = clock + 1
    /\ UNCHANGED <<scenario, db, disk, inTransaction, files, job, purged>>

RecordCall == \E r \in Records : Create(r) \/ Transition(r) \/ DeleteRecord(r)
MemoryCall == (\E x \in Memories : Remember(x) \/ Correct(x) \/ Forget(x)) \/ PurgeMemories
LearningCall ==
    \/ \E o \in Observations : RecordObservation(o)
    \/ \E g \in Range(Groups) : Approve(g) \/ CorrectProposal(g) \/ DeleteProposal(g)
    \/ Learn
    \/ PurgeObservations
OtherCall ==
    \/ \E g \in Goals : AddGoal(g)
    \/ \E v \in Devices : Enroll(v)
    \/ \E m \in Manifests : Migrate(m)
    \/ Export
LifecycleStep ==
    \/ RunExpiry \/ Backup
    \/ InvalidateContaining \/ DestroyKey \/ FindRelated \/ DeleteStep
    \/ CopyDatabase \/ RegisterBackup \/ PruneStep \/ ExpireBackups
Environment == Crash \/ Tick \/ \E b \in BackupIds : Restore(b)

Next == RecordCall \/ MemoryCall \/ LearningCall \/ OtherCall \/ LifecycleStep \/ Environment

Spec == Init /\ [][Next]_vars

-----------------------------------------------------------------------------
DatabaseOK(d) ==
    /\ TablesOK(d)
    /\ d.goals \subseteq Goals /\ d.devices \subseteq Devices
    /\ \A g \in Range(Groups) :
           d.proposals[g].status \in {"none", "proposed", "approved", "corrected"}

(* Every database value, live, committed or backed up, has the tables' shape,  *)
(* and the connection differs from the committed state only inside an open     *)
(* transaction (storage.py, transactions.py).                                  *)
StoreTypeOK ==
    /\ DatabaseOK(db) /\ DatabaseOK(disk)
    /\ \A b \in DOMAIN files : DatabaseOK(files[b])
    /\ inTransaction \in BOOLEAN
    /\ db # disk => inTransaction

(* AuditLedger.verify accepts the live ledger, the committed one and the one   *)
(* in every backup file, whatever was pruned, restored or lost in a crash: no  *)
(* history of legal calls ends in AuditTamperError.                            *)
ChainVerifies ==
    /\ Verified(db.audit)
    /\ Verified(disk.audit)
    /\ \A b \in DOMAIN files : Verified(files[b].audit)

(* lifecycle.py, recovery.py: a record whose deletion was ever committed is     *)
(* neither live nor in a backup file whose key the catalog still holds, after   *)
(* any crashes and any restores, including restores of files that carry an      *)
(* older catalog with keys destroyed since; memory_repository.py _remove: nor   *)
(* is a memory revision with a tombstone, backups registered before memories    *)
(* were indexed included.  This is about the record's own rows; see             *)
(* ErasedLeavesNoCopy for the canonical ones.                                   *)
ErasedIsUnrecoverable ==
    /\ \A r \in purged :
        /\ disk.live[r] = 0
        /\ \A b \in ActiveBackups(disk) : files[b].live[r] = 0
    /\ \A t \in disk.memTombs :
        /\ disk.memory[t.id] # t.revision
        /\ \A b \in ActiveBackups(disk) : files[b].memory[t.id] # t.revision

(* migration.py: a migration takes effect as a whole or not at all, in the     *)
(* committed database and in every backup of it, whatever is refused halfway,  *)
(* lost in a crash or restored.                                                *)
MigrationIsWhole ==
    MigrationsWhole(disk) /\ \A b \in DOMAIN files : MigrationsWhole(files[b])

(* domain_repository.py delete: all content of a deleted record is purged.     *)
ErasedLeavesNoCopy ==
    \A row \in disk.canonical : \A c \in row.content : c.record \notin disk.tombs

(* Whether the last retained entry about a subject tells its present state.     *)
TellsRecord(d, r) ==
    About(d.audit, r) # {} => LatestAbout(d.audit, r).mark = d.live[r]

TellsMemory(d, x) ==
    About(d.audit, x) # {} =>
        LET e == LatestAbout(d.audit, x)
        IN  d.memory[x] = CASE e.action = "created"   -> e.mark
                            [] e.action = "corrected" -> e.mark + 1
                            [] OTHER                  -> 0

TellsProposal(d, g) ==
    About(d.audit, g) # {} =>
        LET action == LatestAbout(d.audit, g).action
        IN  d.proposals[g].status = IF action = "deleted" THEN "none" ELSE action

TellsObservation(d, o) ==
    About(d.audit, o) # {} =>
        (o \in d.seen <=> LatestAbout(d.audit, o).action = "observed")

(* The committed database agrees with its own audit trail: the last retained    *)
(* entry about a record, memory, observation or lesson states what the table    *)
(* holds.  The one exception is a lesson with a tombstone that was proposed     *)
(* again: its second deletion is refused after the row is gone, and the next    *)
(* commit of anything makes that unaudited removal durable                      *)
(* (learning/repository.py delete).                                             *)
AuditTellsState ==
    /\ \A r \in Records : TellsRecord(disk, r)
    /\ \A x \in Memories : TellsMemory(disk, x)
    /\ \A o \in Observations : TellsObservation(disk, o)
    /\ \A g \in Range(Groups) :
           \/ TellsProposal(disk, g)
           \/ disk.proposals[g].status = "none" /\ \E t \in disk.lessons : t.group = g

(* transactions.py domain_transaction: "The outer transaction owns commit and   *)
(* rollback", so that whatever call returned is committed.                      *)
EveryAckIsDurable == Idle => disk = db

(* The stronger reading of the same method: a deleted lesson is not proposed    *)
(* again under the same identity.                                               *)
DeletedLessonStaysDeleted ==
    \A g \in Range(Groups) :
        db.proposals[g].status = "proposed" => ~ \E t \in db.lessons : t.group = g

=============================================================================
