--------------------------- MODULE StateDatabase ---------------------------
(* The contents of the encrypted state database and what each repository     *)
(* operation writes to it, as functions from one database value to the next.  *)
(* EncryptedStore says when such a value is committed, lost or restored.      *)
(*                                                                            *)
(* Modelled repositories: domain records (domain_repository.py), governed     *)
(* memories (memory_repository.py), the goal graph (goals.py), learning       *)
(* (learning/), enrolled devices (device_persistence.py), the audit ledger    *)
(* and the backup catalog (backup_catalog.py).                                *)
EXTENDS Integers, Sequences, FiniteSets, Functions

CONSTANTS
    Records,        \* domain record identities
    Source,         \* Source[r]: the record r was derived from, or r itself
    Raw,            \* records with a retention deadline (communications, check-ins)
    Memories,       \* governed memory identities
    MemoryUntil,    \* MemoryUntil[m]: its retention deadline
    Goals,          \* goal graph nodes
    Parent,         \* Parent[g]: the required parent, or g itself for a dream
    Observations,   \* learning observation identities
    Observed,       \* Observed[o]: its group, what happened and its deadline
    ObservedOrder,  \* the observations in the order they are read
    Groups,         \* the groups observations fall into, in the order proposed
    Skills,         \* the groups that yield procedures; the others, memory updates
    Corrections,    \* contents a user corrects a proposal to
    Devices,        \* device identities
    MaxBackups,     \* bound on the backups taken
    MinimumObservations, FullConfidence     \* MINIMUM_, FULL_CONFIDENCE_OBSERVATIONS

Among(s, xs) == SelectSeq(s, LAMBDA x : x \in xs)

(* The tables are finite, the groups are told apart, and what is selected of  *)
(* them is a list.                                                            *)
ASSUME DatabaseAssumption ==
    /\ IsFiniteSet(Records) /\ IsFiniteSet(Memories) /\ IsFiniteSet(Observations)
    /\ MaxBackups \in Nat
    /\ \A i, j \in DOMAIN Groups : Groups[i] = Groups[j] => i = j
    /\ \A new \in SUBSET Range(Groups) : Among(Groups, new) \in Seq(new)

-----------------------------------------------------------------------------
(* The HMAC-chained audit ledger (ledger.py, audit.py) as operators on        *)
(*                                                                            *)
(*     [entries |-> the retained audit_entries rows in sequence order,        *)
(*      anchor  |-> the singleton audit_chain_anchor row].                    *)
(*                                                                            *)
(* Every repository appends to it inside the caller's transaction.  The keyed *)
(* digest of an entry is abstracted to the fields that tell entries of one    *)
(* chain apart; a wrong key or an edited row is outside the model.            *)

Genesis == [sequence |-> 0, hash |-> <<>>]

EmptyLedger == [entries |-> <<>>, anchor |-> Genesis]

(* sign_entry: what an entry's digest commits to.                             *)
Digest(sequence, at, note) == <<sequence, at, note.action, note.subject>>

EntryHash(e) == Digest(e.sequence, e.at, e)

LastLink(l) ==
    IF l.entries = <<>>
    THEN l.anchor
    ELSE LET last == l.entries[Len(l.entries)]
         IN  [sequence |-> last.sequence, hash |-> EntryHash(last)]

(* What a repository reports.  mark is the version or revision the action     *)
(* metadata and the fingerprint stand for.                                    *)
Note(action, subject, mark) == [action |-> action, subject |-> subject, mark |-> mark]

(* The entries of some notes, chained to a link and to each other.            *)
Chained(link, at, notes) ==
    [k \in DOMAIN notes |->
        [sequence |-> link.sequence + k, at |-> at, action |-> notes[k].action,
         subject |-> notes[k].subject, mark |-> notes[k].mark,
         previous |-> IF k = 1 THEN link.hash ELSE Digest(link.sequence + (k - 1), at, notes[k - 1])]]

(* mutant: an empty table restarts the chain instead of reading the anchor.   *)
AppendForgetsAnchor(l, at, notes) ==
    LET link == IF l.entries = <<>> THEN Genesis ELSE LastLink(l)
    IN  [l EXCEPT !.entries = @ \o Chained(link, at, notes)]

(* AuditLedger.append, called for each note in turn: an entry is chained to   *)
(* the last retained one, or to the anchor when everything before it was      *)
(* pruned.                                                                    *)
AppendEntries(l, at, notes) == [l EXCEPT !.entries = @ \o Chained(LastLink(l), at, notes)]

(* AuditLedger.verify: the sequence numbers run on from the anchor and every  *)
(* entry names the digest of its predecessor.                                 *)
Verified(l) ==
    \A i \in DOMAIN l.entries :
        /\ l.entries[i].sequence = l.anchor.sequence + i
        /\ l.entries[i].previous =
               IF i = 1 THEN l.anchor.hash ELSE EntryHash(l.entries[i - 1])

(* The entries prune_before selects: older than the cutoff.                   *)
ExpiredAt(l, cutoff) == {i \in DOMAIN l.entries : l.entries[i].at < cutoff}

LastExpired(l, cutoff) ==
    CHOOSE i \in ExpiredAt(l, cutoff) : \A j \in ExpiredAt(l, cutoff) : j <= i

(* AuditLedger.prune_before: everything up to the LAST entry older than the   *)
(* cutoff is deleted, whatever the times of the entries in between, and that  *)
(* entry's sequence and digest become the anchor.                             *)
PruneBefore(l, cutoff) ==
    IF ExpiredAt(l, cutoff) = {}
    THEN l
    ELSE LET last == LastExpired(l, cutoff)
         IN  [entries |-> SubSeq(l.entries, last + 1, Len(l.entries)),
              anchor  |-> [sequence |-> l.entries[last].sequence,
                           hash     |-> EntryHash(l.entries[last])]]

(* The last retained entry about a subject.                                   *)
About(l, subject) == {i \in DOMAIN l.entries : l.entries[i].subject = subject
                                              /\ l.entries[i].action # "redacted"}

LatestAbout(l, subject) ==
    l.entries[CHOOSE i \in About(l, subject) : \A j \in About(l, subject) : j <= i]

-----------------------------------------------------------------------------
(* The rest of the database.                                                  *)

BackupIds == 1..MaxBackups

NoProposal == [status |-> "none", content |-> "none"]
NoBackup == [status |-> "absent", at |-> 0, records |-> {}, memories |-> {}, covered |-> FALSE]

EmptyDatabase ==
    [ live      |-> [r \in Records |-> 0],      \* number of stored versions
      made      |-> [r \in Records |-> 0],      \* created_at
      tombs     |-> {},
      memory    |-> [x \in Memories |-> 0],     \* current revision
      memMade   |-> [x \in Memories |-> 0],
      memTombs  |-> {},
      goals     |-> {},
      seen      |-> {},                         \* learning_observations
      proposals |-> [g \in Range(Groups) |-> NoProposal],
      lessons   |-> {},                         \* learning_tombstones
      devices   |-> {},
      schema    |-> 1,                          \* max of schema_migrations
      applied   |-> {},                         \* migration_manifests
      canonical |-> {},                         \* the canonical tables
      audit     |-> EmptyLedger,
      catalog   |-> [b \in BackupIds |-> NoBackup] ]

Audited(d, at, action, subject, mark) ==
    [d EXCEPT !.audit = AppendEntries(@, at, <<Note(action, subject, mark)>>)]

(* The rows a statement without ORDER BY selects, in the order they come.     *)
AnyOrder(rows) ==
    CHOOSE s \in [1 .. Cardinality(rows) -> rows] : Range(s) = rows

-----------------------------------------------------------------------------
(* Domain records.                                                            *)

CanCreate(d, r) == r \notin d.tombs /\ d.live[r] = 0

Created(d, r, at) ==
    Audited([d EXCEPT !.live[r] = 1, !.made[r] = at], at, "created", r, 1)

Transitioned(d, r, at) ==
    Audited([d EXCEPT !.live[r] = @ + 1], at, "transitioned", r, d.live[r] + 1)

(* _delete: every version goes, a tombstone and an audit entry stay.          *)
Deleted(d, r, at) ==
    Audited([d EXCEPT !.live[r] = 0, !.tombs = @ \cup {r}], at, "deleted", r, 0)

-----------------------------------------------------------------------------
(* Governed memories.                                                         *)

CanRemember(d, x) == d.memory[x] = 0 /\ ~ \E t \in d.memTombs : t.id = x

Remembered(d, x, at) ==
    Audited([d EXCEPT !.memory[x] = 1, !.memMade[x] = at], at, "created", x, 1)

(* _remove, the backups: every active one that lists the memory, and every    *)
(* active one without memory coverage that is not older than the memory.      *)
Revoked(d, xs) ==
    [b \in BackupIds |->
        IF /\ d.catalog[b].status = "active"
           /\ \E x \in xs :
               \/ x \in d.catalog[b].memories
               \/ ~ d.catalog[b].covered /\ d.catalog[b].at >= d.memMade[x]
        THEN [d.catalog[b] EXCEPT !.status = "invalidated"]
        ELSE d.catalog[b]]

(* _remove: the row goes, the revision's tombstone stays.                     *)
Removed(d, xs) ==
    [d EXCEPT !.catalog  = Revoked(d, xs),
              !.memory   = [x \in Memories |-> IF x \in xs THEN 0 ELSE @[x]],
              !.memTombs = @ \cup {[id |-> x, revision |-> d.memory[x]] : x \in xs}]

(* correct: the audit entry carries the fingerprint of the replaced revision. *)
Corrected(d, x, at) ==
    Audited([Removed(d, {x}) EXCEPT !.memory[x] = d.memory[x] + 1],
            at, "corrected", x, d.memory[x])

Forgotten(d, x, at) == Audited(Removed(d, {x}), at, "deleted", x, d.memory[x])

ExpiredMemories(d, now) == {x \in Memories : d.memory[x] > 0 /\ MemoryUntil[x] <= now}

(* purge_expired over the selected rows.                                      *)
MemoriesPurged(d, now) ==
    LET order == AnyOrder(ExpiredMemories(d, now))
        notes == [i \in DOMAIN order |-> Note("retention_expired", order[i], d.memory[order[i]])]
    IN  [Removed(d, ExpiredMemories(d, now)) EXCEPT !.audit = AppendEntries(@, now, notes)]

-----------------------------------------------------------------------------
(* The goal graph: a node needs its parent of the kind above.                 *)

CanAdd(d, g) == Parent[g] # g => Parent[g] \in d.goals

GoalAdded(d, g, at) == Audited([d EXCEPT !.goals = @ \cup {g}], at, "created", g, 1)

-----------------------------------------------------------------------------
(* Learning.                                                                  *)

ObservationRecorded(d, o, at) ==
    Audited([d EXCEPT !.seen = @ \cup {o}], at, "observed", o, 1)

(* observations(): the unexpired ones of a group, in the order observed.      *)
Samples(d, g, now) ==
    SelectSeq(ObservedOrder,
              LAMBDA o : o \in d.seen /\ Observed[o].group = g /\ Observed[o].until > now)

HowOften(samples, what) == Cardinality({i \in DOMAIN samples : Observed[samples[i]].what = what})

(* _most_common: the first of the most frequent values.                       *)
MostCommon(samples) ==
    LET first == CHOOSE i \in DOMAIN samples :
            /\ \A j \in DOMAIN samples :
                   HowOften(samples, Observed[samples[j]].what)
                       <= HowOften(samples, Observed[samples[i]].what)
            /\ \A j \in 1..(i - 1) :
                   HowOften(samples, Observed[samples[j]].what)
                       < HowOften(samples, Observed[samples[i]].what)
    IN  Observed[samples[first]].what

(* Confidence at least 0.6, in integers: for a procedure the agreement times  *)
(* n / FullConfidence, for a memory update n / FullConfidence, capped at 1.   *)
Confident(g, samples) ==
    LET n      == Len(samples)
        weight == IF n < FullConfidence THEN n ELSE FullConfidence
        agree  == IF g \in Skills THEN HowOften(samples, MostCommon(samples)) ELSE n
    IN  n >= MinimumObservations /\ 10 * agree * weight >= 6 * n * FullConfidence

(* _pattern: a procedure is known by its trigger, a memory update by its text. *)
Pattern(g, content) == IF g \in Skills THEN g ELSE content

Suppressed(d, g, content) == \E t \in d.lessons : t.pattern = Pattern(g, content)

(* The groups that yield a proposal which is neither known nor suppressed.    *)
Proposable(d, now) ==
    {g \in Range(Groups) :
        LET samples == Samples(d, g, now)
        IN  /\ samples # <<>> /\ Confident(g, samples)
            /\ d.proposals[g].status = "none"
            /\ ~ Suppressed(d, g, MostCommon(samples))}

(* learn: every group in turn.                                                *)
Learned(d, now) ==
    LET new   == Proposable(d, now)
        order == Among(Groups, new)
        notes == [i \in DOMAIN order |-> Note("proposed", order[i], 1)]
    IN  [d EXCEPT !.proposals = [g \in Range(Groups) |->
                        IF g \in new
                        THEN [status |-> "proposed", content |-> MostCommon(Samples(d, g, now))]
                        ELSE @[g]],
                  !.audit = AppendEntries(@, now, notes)]

ProposalReplaced(d, g, status, content, at) ==
    Audited([d EXCEPT !.proposals[g] = [status |-> status, content |-> content]],
            at, status, g, 1)

ProposalErased(d, g) == [d EXCEPT !.proposals[g] = NoProposal]

LessonBuried(d, g, at) ==
    Audited([ProposalErased(d, g) EXCEPT !.lessons =
                @ \cup {[group |-> g, pattern |-> Pattern(g, d.proposals[g].content)]}],
            at, "deleted", g, 0)

ExpiredObservations(d, now) == {o \in d.seen : Observed[o].until <= now}

(* mutant: what expired is dropped without an entry.                          *)
ObservationsDropped(d, now) == [d EXCEPT !.seen = @ \ ExpiredObservations(d, now)]

ObservationsPurged(d, now) ==
    LET order == AnyOrder(ExpiredObservations(d, now))
        notes == [i \in DOMAIN order |-> Note("retention_expired", order[i], 0)]
    IN  [d EXCEPT !.seen = @ \ ExpiredObservations(d, now), !.audit = AppendEntries(@, now, notes)]

-----------------------------------------------------------------------------
(* The backup catalog.                                                        *)

LiveRecords(d) == {r \in Records : d.live[r] > 0}
LiveMemories(d) == {x \in Memories : d.memory[x] > 0}

(* register: the envelope and the index of the records live NOW.              *)
Registered(d, b, at) ==
    [d EXCEPT !.catalog[b] = [status |-> "active", at |-> at, records |-> LiveRecords(d),
                              memories |-> LiveMemories(d), covered |-> TRUE]]

KeyDestroyed(d, b, status) == [d EXCEPT !.catalog[b].status = status]

ActiveBackups(d) == {b \in BackupIds : d.catalog[b].status = "active"}

(* containing, and invalidate_containing's test of the status.                *)
ToInvalidate(d, r) == {b \in ActiveBackups(d) : r \in d.catalog[b].records}

ToExpire(d, now, retention) == {b \in ActiveBackups(d) : d.catalog[b].at + retention <= now}

-----------------------------------------------------------------------------
(* What calls make of a database, and of the backup files it lists: copies    *)
(* has the contents of file b at b.                                           *)

BackupManifest ==
    [status : {"absent", "active", "invalidated", "expired"}, at : Nat,
     records : SUBSET Records, memories : SUBSET Memories, covered : BOOLEAN]

TablesOK(d) ==
    /\ DOMAIN d = DOMAIN EmptyDatabase
    /\ d.live \in [Records -> Nat] /\ d.tombs \subseteq Records
    /\ d.memory \in [Memories -> Nat] /\ d.memMade \in [Memories -> Nat]
    /\ \A t \in d.memTombs : t.id \in Memories /\ t.revision \in Nat \ {0}
    /\ d.catalog \in [BackupIds -> BackupManifest]
    /\ d.seen \subseteq Observations

(* The ledger is a list that verifies.                                        *)
LedgerOK(l) ==
    /\ DOMAIN l = {"entries", "anchor"} /\ l.anchor.sequence \in Nat
    /\ l.entries \in Seq(Range(l.entries))
    /\ Verified(l)

(* What has a tombstone is gone.                                              *)
TombsOK(d) ==
    /\ \A r \in d.tombs : d.live[r] = 0
    /\ \A t \in d.memTombs : d.memory[t.id] = 0 \/ t.revision < d.memory[t.id]

(* A backup whose key is there holds nothing that is gone, and what it holds  *)
(* can be found through the catalog.                                          *)
CatalogOK(d, copies) ==
    \A b \in ActiveBackups(d) :
        /\ b \in DOMAIN copies
        /\ \A r \in Records : copies[b].live[r] > 0 => r \in d.catalog[b].records /\ d.live[r] > 0
        /\ \A x \in Memories : copies[b].memory[x] > 0 =>
            /\ copies[b].memory[x] = d.memory[x]
            /\ IF d.catalog[b].covered THEN x \in d.catalog[b].memories
               ELSE d.catalog[b].at >= d.memMade[x]

Sound(d, copies) == TablesOK(d) /\ LedgerOK(d.audit) /\ TombsOK(d) /\ CatalogOK(d, copies)
=============================================================================
