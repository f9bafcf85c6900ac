------------------------- MODULE CanonicalMigration -------------------------
(* The canonical migration (migration.py, canonical.py): a signed manifest    *)
(* copies the latest version of every record of the kinds it maps into the    *)
(* canonical tables, gives the identities it merges one row together, and     *)
(* raises the schema version, in one transaction.                             *)
(*                                                                            *)
(* A canonical row is its table, its identity, the record versions whose      *)
(* content it holds and the manifest that wrote it.  The state of a record is *)
(* told by its version.                                                       *)
EXTENDS StateDatabase

CONSTANTS
    Kind,           \* Kind[r]: the kind of a record
    Name,           \* Name[r]: the display name of an identity
    External,       \* External[r]: the identifier a source item has elsewhere
    Manifests       \* the manifests presented

ASSUME ManifestsAssumption == \A m \in Manifests : IsFiniteSet(m.merges)

(* SUPPORTED_MAPPINGS and CANONICAL_TABLES: the families and tables a kind of *)
(* record goes to.  A source item becomes an event of one conversation.       *)
Family(kind) ==
    CASE kind = "identity" -> "identity"
      [] kind = "source_item" -> "conversation"
      [] kind \in {"goal", "task", "event", "energy_check_in", "pattern_snapshot",
                   "normalized_fact"} -> "life"
      [] OTHER -> "none"

(* verify_manifest: the keyed hash is there and is the one of the contents.   *)
Authentic(m) == m.signed

(* The checks before anything is written.                                     *)
Presentable(d, m) ==
    /\ Authentic(m)
    /\ m.from = d.schema /\ m.to > d.schema
    /\ m.id \notin d.applied
    /\ \A k \in DOMAIN m.maps : m.maps[k] = Family(k) /\ m.maps[k] # "none"
    /\ "source_item" \in DOMAIN m.maps => m.conversation # "none"

MergeSources(m) == UNION {x.sources : x \in m.merges}

(* _copy_records: what is copied.                                             *)
ToCopy(d, m) ==
    {r \in LiveRecords(d) : /\ Kind[r] \in DOMAIN m.maps
                            /\ Kind[r] = "identity" => r \notin MergeSources(m)}

Content(d, rs) == {[record |-> r, version |-> d.live[r]] : r \in rs}

Row(m, table, id, content) == [table |-> table, id |-> id, content |-> content, by |-> m.id]

CopiedRows(d, m) ==
    {Row(m, IF Kind[r] = "source_item" THEN "events" ELSE m.maps[Kind[r]], r, Content(d, {r}))
        : r \in ToCopy(d, m)}

SourceItems(d, m) == {r \in ToCopy(d, m) : Kind[r] = "source_item"}

(* _ensure_conversation: one conversation for the source items, if any.       *)
Inbox(d, m) ==
    IF SourceItems(d, m) = {} THEN {} ELSE {Row(m, "conversation", m.conversation, {})}

MergedRows(d, m) == {Row(m, "identity", x.target, Content(d, x.sources)) : x \in m.merges}

NewRows(d, m) == CopiedRows(d, m) \cup Inbox(d, m) \cup MergedRows(d, m)

Externals(rows) == {External[c.record] : c \in UNION {row.content : row \in {
                        w \in rows : w.table = "events"}}}

(* _apply_identity_merges: all sources live, of one name and one state.       *)
Unambiguous(d, x) ==
    /\ \A r \in x.sources : d.live[r] > 0 /\ Name[r] = x.name
    /\ Cardinality({d.live[r] : r \in x.sources}) = 1

(* The checks while the rows are written, the primary keys included.          *)
Writable(d, m) ==
    LET rows == NewRows(d, m)
        Keys(ws) == {<<w.table, w.id>> : w \in ws}
    IN  /\ Cardinality(Keys(rows)) = Cardinality(rows)
        /\ Keys(rows) \cap Keys(d.canonical) = {}
        /\ SourceItems(d, m) # {} => m.conversation \notin ToCopy(d, m)
        /\ Externals(rows) \cap {w.id : w \in rows} = {}
        /\ \A x \in m.merges : Unambiguous(d, x)

FamiliesCopied(d, m) == {m.maps[Kind[r]] : r \in ToCopy(d, m)}

(* migrate: rows, an audit entry per family copied, per merge and for the     *)
(* whole, the manifest and the schema version.                                *)
Migrated(d, m, at) ==
    LET copied == [i \in 1 .. Cardinality(FamiliesCopied(d, m)) |-> Note("copied", m.id, 1)]
        order  == AnyOrder(m.merges)
        merged == [i \in DOMAIN order |-> Note("merged", order[i].target, 1)]
    IN  [d EXCEPT !.canonical = @ \cup NewRows(d, m),
                  !.applied = @ \cup {m.id},
                  !.schema = m.to,
                  !.audit = AppendEntries(@, at, copied \o merged \o <<Note("applied", m.id, 1)>>)]

(* mutant: a refused merge leaves the records copied before it.               *)
CopiesStay(d, m) == [d EXCEPT !.canonical = @ \cup CopiedRows(d, m)]

(* migrate, except: the rollback.                                             *)
Undone(d, m) == d

-----------------------------------------------------------------------------
(* What a database holds of its migrations: every row belongs to a manifest    *)
(* recorded as applied, an applied manifest has the row of each merge and did  *)
(* not copy the merged identities beside it, an identifier from elsewhere is   *)
(* no canonical identity, and no row holds a version that never was.           *)
MigrationsWhole(d) ==
    /\ \A row \in d.canonical :
        /\ row.by \in d.applied
        /\ \A c \in row.content : d.live[c.record] >= c.version \/ c.record \in d.tombs
    /\ \A m \in Manifests : m.id \in d.applied =>
        LET rows == {row \in d.canonical : row.by = m.id}
        IN  /\ m.to <= d.schema
            /\ \A x \in m.merges : \E row \in rows :
                row.id = x.target /\ {c.record : c \in row.content} = x.sources
            /\ {row.id : row \in rows} \cap (MergeSources(m) \cup Externals(rows)) = {}
=============================================================================
