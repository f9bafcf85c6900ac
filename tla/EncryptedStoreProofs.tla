------------------------ MODULE EncryptedStoreProofs ------------------------
(***************************************************************************)
(* The encrypted store for any records, memories, manifests and scenarios: *)
(* the audit chain verifies, what was deleted cannot be recovered, and a   *)
(* call that returned is on disk.                                          *)
(*                                                                         *)
(* A database is sound with respect to the backup files (Sound); every     *)
(* operation of a repository keeps it so, and the database in use, the     *)
(* committed one and the one in each file are sound.                       *)
(***************************************************************************)
EXTENDS EncryptedStore, TLAPS

-----------------------------------------------------------------------------
(* Lists.                                                                  *)

\* A list is a list of its own members.
LEMMA ListOfItsOwn ==
  ASSUME NEW S, NEW s \in Seq(S)
  PROVE  s \in Seq(Range(s))
BY DEF Range

\* What the concatenation of two lists holds where.
LEMMA OneAfterTheOther ==
  ASSUME NEW S, NEW p \in Seq(S), NEW q \in Seq(S)
  PROVE  /\ p \o q \in Seq(S) /\ Len(p \o q) = Len(p) + Len(q)
         /\ \A i \in 1 .. Len(p) : (p \o q)[i] = p[i]
         /\ \A k \in 1 .. Len(q) : (p \o q)[Len(p) + k] = q[k]
OBVIOUS

\* What is left of a list without its first member.
LEMMA OneLess ==
  ASSUME NEW S, NEW s \in Seq(S), s # <<>>
  PROVE  /\ Len(s) \in Nat \ {0} /\ Tail(s) \in Seq(S) /\ Len(Tail(s)) = Len(s) - 1
         /\ \A k \in 1 .. (Len(s) - 1) : Tail(s)[k] = s[k + 1]
OBVIOUS

\* Where the elements go when the first of l is replaced by n others: element
\* k > 1 goes to place n + k - 1.
Placed(n, l) ==
    /\ \A k \in 2 .. l : /\ k \in 1 .. l /\ k # 1 /\ k - 1 \in 1 .. (l - 1) /\ (k - 1) + 1 = k
                         /\ n + (k - 1) = (n + k) - 1 /\ (n + k) - 1 \in 1 .. (n + (l - 1))
    /\ \A i \in 1 .. (n + (l - 1)) : i \in 1 .. n \/ \E k \in 2 .. l : i = (n + k) - 1
    /\ \A k \in 2 .. l : \A i \in 1 .. (n + (l - 1)) :
        i > (n + k) - 1 => \E h \in 2 .. l : i = (n + h) - 1 /\ h \in 1 .. l /\ h > k
    /\ \A k \in 2 .. l : \A j \in 1 .. n : j \in 1 .. (((n + k) - 1) - 1)
    /\ \A k \in 2 .. l : \A j \in 1 .. (k - 1) :
        j # 1 => j \in 2 .. l /\ (n + j) - 1 \in 1 .. (((n + k) - 1) - 1)
    /\ \A i \in 1 .. n : \A j \in 1 .. (i - 1) : j \in 1 .. n
    /\ \A k \in 1 .. n : k \in 1 .. (n + (l - 1))

\* The places are as Placed says.
LEMMA Places ==
  ASSUME NEW n \in Nat, NEW l \in Nat \ {0}
  PROVE  Placed(n, l)
<1>1. \A k \in 2 .. l : /\ k \in 1 .. l /\ k # 1 /\ k - 1 \in 1 .. (l - 1) /\ (k - 1) + 1 = k
                        /\ n + (k - 1) = (n + k) - 1 /\ (n + k) - 1 \in 1 .. (n + (l - 1))
  OBVIOUS
<1>2. ASSUME NEW i \in 1 .. (n + (l - 1)), i \notin 1 .. n
      PROVE  \E k \in 2 .. l : i = (n + k) - 1
  <2>1. (i - n) + 1 \in 2 .. l /\ i = (n + ((i - n) + 1)) - 1
    BY <1>2
  <2> QED
    BY <2>1
<1>3. ASSUME NEW k \in 2 .. l, NEW i \in 1 .. (n + (l - 1)), i > (n + k) - 1
      PROVE  \E h \in 2 .. l : i = (n + h) - 1 /\ h \in 1 .. l /\ h > k
  <2>1. /\ (i - n) + 1 \in 2 .. l /\ i = (n + ((i - n) + 1)) - 1
        /\ (i - n) + 1 \in 1 .. l /\ (i - n) + 1 > k
    BY <1>3
  <2> QED
    BY <2>1
<1>4. \A k \in 2 .. l : \A j \in 1 .. n : j \in 1 .. (((n + k) - 1) - 1)
  OBVIOUS
<1>5. \A k \in 2 .. l : \A j \in 1 .. (k - 1) :
        j # 1 => j \in 2 .. l /\ (n + j) - 1 \in 1 .. (((n + k) - 1) - 1)
  OBVIOUS
<1>6. \A i \in 1 .. n : \A j \in 1 .. (i - 1) : j \in 1 .. n
  OBVIOUS
<1>7. \A k \in 1 .. n : k \in 1 .. (n + (l - 1))
  OBVIOUS
<1> QED
  BY <1>1, <1>2, <1>3, <1>4, <1>5, <1>6, <1>7, Zenon DEF Placed

\* The sets whose rows a call takes in some order.
Selected(S) ==
    \/ S \in SUBSET Records
    \/ S \in SUBSET Memories
    \/ S \in SUBSET Observations
    \/ S \in SUBSET BackupIds
    \/ \E m \in Manifests : S = m.merges

\* IsFiniteSet and Cardinality, spelled out: the theorems on finite sets, which
\* are only brought in near the end, speak of copies of their own.
Finite(S) == \E seq \in Seq(S) : \A s \in S : \E n \in 1 .. Len(seq) : seq[n] = s

Count(S) == LET CS[T \in SUBSET S] == IF T = {} THEN 0 ELSE 1 + CS[T \ {CHOOSE x : x \in T}] IN CS[S]

\* Finite and Count are IsFiniteSet and Cardinality.
LEMMA SpelledOut == \A S : (Finite(S) <=> IsFiniteSet(S)) /\ Count(S) = Cardinality(S)
BY Zenon DEF Finite, Count, IsFiniteSet, Cardinality

\* What the proofs need to know of finite sets: a selection can be listed, the
\* families of a manifest can be counted, and of some positions one is the
\* last.  RowsAreListable, near the end, establishes it.
Listable ==
    /\ \A S : Selected(S) =>
        /\ Count(S) \in Nat /\ AnyOrder(S) \in [1 .. Count(S) -> S]
        /\ \A x \in S : \E i \in 1 .. Count(S) : AnyOrder(S)[i] = x
    /\ \A m \in Manifests : \A S \in SUBSET Records : Count({m.maps[Kind[r]] : r \in S}) \in Nat
    /\ \A n \in Nat : \A S \in SUBSET (1 .. n) : S # {} => \E i \in S : \A j \in S : j <= i

\* AnyOrder lists every member of a selected set.
LEMMA Listed ==
  ASSUME Listable, NEW S, Selected(S)
  PROVE  /\ Cardinality(S) \in Nat /\ AnyOrder(S) \in [1 .. Cardinality(S) -> S]
         /\ \A x \in S : \E i \in 1 .. Cardinality(S) : AnyOrder(S)[i] = x
<1>1. Count(S) = Cardinality(S)
  BY SpelledOut, Zenon
<1>2. /\ Count(S) \in Nat /\ AnyOrder(S) \in [1 .. Count(S) -> S]
      /\ \A x \in S : \E i \in 1 .. Count(S) : AnyOrder(S)[i] = x
  BY Zenon DEF Listable
<1> QED
  BY <1>1, <1>2, Zenon

\* One way to list a set is enough for AnyOrder to be such a way.
LEMMA SomeOrder ==
  ASSUME NEW S, NEW order \in [1 .. Count(S) -> S],
         \A x \in S : \E i \in 1 .. Count(S) : order[i] = x
  PROVE  /\ AnyOrder(S) \in [1 .. Count(S) -> S]
         /\ \A x \in S : \E i \in 1 .. Count(S) : AnyOrder(S)[i] = x
<1>1. Range(order) = S
  BY Zenon DEF Range
<1>2. Count(S) = Cardinality(S)
  BY SpelledOut, Zenon
<1>3. order \in [1 .. Cardinality(S) -> S]
  BY <1>2, Zenon
<1>4. AnyOrder(S) \in [1 .. Cardinality(S) -> S] /\ Range(AnyOrder(S)) = S
  BY <1>1, <1>3, Zenon DEF AnyOrder
<1>5. AnyOrder(S) \in [1 .. Count(S) -> S]
  BY <1>2, <1>4, Zenon
<1> QED
  BY <1>4, <1>5, Zenon DEF Range

\* The tables and the merges of a manifest are finite.
LEMMA RowsAreFinite ==
  /\ Finite(Records) /\ Finite(Memories) /\ Finite(Observations) /\ MaxBackups \in Nat
  /\ \A m \in Manifests : Finite(m.merges)
BY SpelledOut, DatabaseAssumption, ManifestsAssumption, Zenon

-----------------------------------------------------------------------------
(* The ledger.                                                             *)

\* AuditLedger.append keeps a chain that verifies.
LEMMA AppendKeepsLedger ==
  ASSUME NEW l, LedgerOK(l), NEW at, NEW notes, NEW n \in Nat, DOMAIN notes = 1 .. n
  PROVE  LedgerOK(AppendEntries(l, at, notes))
<1>1. PICK s : s = l.entries
  BY Zenon
<1>2. PICK new : new = Chained(LastLink(l), at, notes)
  BY Zenon
<1>3. PICK m : m = AppendEntries(l, at, notes)
  BY Zenon
<1>4. PICK S : S = Range(s) \cup Range(new)
  BY Zenon
<1>5. s \in Seq(Range(s)) /\ s \in Seq(S) /\ Len(s) \in Nat /\ DOMAIN s = 1 .. Len(s)
  BY <1>1, <1>4 DEF LedgerOK
<1>6. /\ DOMAIN new = 1 .. n
      /\ \A k \in 1 .. n :
          /\ new[k].sequence = LastLink(l).sequence + k /\ new[k].at = at
          /\ new[k].action = notes[k].action /\ new[k].subject = notes[k].subject
          /\ new[k].previous = IF k = 1 THEN LastLink(l).hash
                               ELSE Digest(LastLink(l).sequence + (k - 1), at, notes[k - 1])
  BY <1>2, Zenon DEF Chained
<1>7. new \in Seq(S) /\ Len(new) = n
  <2>1. new = [k \in 1 .. n |-> new[k]]
    BY <1>2, <1>6, Zenon DEF Chained
  <2> QED
    BY <1>4, <1>6, <2>1 DEF Range
<1>8. m.entries = s \o new /\ m.anchor = l.anchor /\ DOMAIN m = {"entries", "anchor"}
  BY <1>1, <1>2, <1>3, Zenon DEF AppendEntries, LedgerOK
<1>9. /\ m.entries \in Seq(S) /\ DOMAIN m.entries = 1 .. (Len(s) + n)
      /\ \A i \in 1 .. Len(s) : m.entries[i] = s[i]
      /\ \A k \in 1 .. n : m.entries[Len(s) + k] = new[k]
  BY <1>5, <1>7, <1>8
<1>10. PICK base : base = l.anchor.sequence
  BY Zenon
<1>11. base \in Nat /\ \A i \in 1 .. Len(s) :
          /\ s[i].sequence = base + i
          /\ s[i].previous = IF i = 1 THEN l.anchor.hash ELSE EntryHash(s[i - 1])
  BY <1>1, <1>5, <1>10, Zenon DEF LedgerOK, Verified
<1>12. /\ LastLink(l).sequence = base + Len(s)
       /\ LastLink(l).hash = IF Len(s) = 0 THEN l.anchor.hash ELSE EntryHash(s[Len(s)])
  <2>1. CASE s = <<>>
    BY <1>1, <1>10, <1>11, <2>1 DEF LastLink
  <2>2. CASE s # <<>>
    <3>1. Len(s) > 0
      BY <1>5, <2>2
    <3>2. s[Len(s)].sequence = base + Len(s)
      BY <1>5, <1>11, <3>1
    <3>3. LastLink(l) = [sequence |-> s[Len(s)].sequence, hash |-> EntryHash(s[Len(s)])]
      BY <1>1, <2>2, Zenon DEF LastLink
    <3> QED
      BY <3>1, <3>2, <3>3
  <2> QED
    BY <2>1, <2>2, Zenon
<1>13. \A k \in 1 .. n : new[k].sequence = base + (Len(s) + k)
  BY <1>5, <1>6, <1>11, <1>12
<1>14. ASSUME NEW k \in 1 .. n
       PROVE  new[k].previous = IF Len(s) + k = 1 THEN l.anchor.hash
                                ELSE EntryHash(m.entries[(Len(s) + k) - 1])
  <2>1. CASE k = 1 /\ Len(s) = 0
    BY <1>6, <1>12, <2>1
  <2>2. CASE k = 1 /\ Len(s) # 0
    <3>1. m.entries[(Len(s) + k) - 1] = s[Len(s)] /\ Len(s) + k # 1
      BY <1>5, <1>9, <2>2, SMTT(30)
    <3> QED
      BY <1>6, <1>12, <2>2, <3>1, Zenon
  <2>3. CASE k # 1
    <3>1. k - 1 \in 1 .. n /\ Len(s) + k # 1 /\ (Len(s) + k) - 1 = Len(s) + (k - 1)
      BY <1>5, <2>3
    <3>2. m.entries[(Len(s) + k) - 1] = new[k - 1]
      BY <1>9, <3>1, Zenon
    <3>3. EntryHash(new[k - 1]) = Digest(LastLink(l).sequence + (k - 1), at, notes[k - 1])
      BY <1>6, <3>1, Zenon DEF EntryHash, Digest
    <3> QED
      BY <1>6, <2>3, <3>1, <3>2, <3>3, Zenon
  <2> QED
    BY <2>1, <2>2, <2>3, Zenon
<1>15. ASSUME NEW i \in 1 .. (Len(s) + n)
       PROVE  /\ m.entries[i].sequence = m.anchor.sequence + i
              /\ m.entries[i].previous = IF i = 1 THEN m.anchor.hash
                                         ELSE EntryHash(m.entries[i - 1])
  <2>1. CASE i <= Len(s)
    <3>1. i \in 1 .. Len(s) /\ (i # 1 => i - 1 \in 1 .. Len(s))
      BY <1>5, <2>1
    <3>2. m.entries[i] = s[i] /\ (i # 1 => m.entries[i - 1] = s[i - 1])
      BY <1>9, <3>1, Zenon
    <3>3. /\ s[i].sequence = base + i
          /\ s[i].previous = IF i = 1 THEN l.anchor.hash ELSE EntryHash(s[i - 1])
      BY <1>11, <3>1, Zenon
    <3> QED
      BY <1>8, <1>10, <3>2, <3>3, Zenon
  <2>2. CASE i > Len(s)
    <3> DEFINE k == i - Len(s)
    <3>1. k \in 1 .. n /\ i = Len(s) + k
      BY <1>5, <2>2
    <3> HIDE DEF k
    <3> QED
      BY <1>8, <1>9, <1>10, <1>13, <1>14, <3>1, Zenon
  <2> QED
    BY <1>5, <2>1, <2>2
<1>16. m.entries \in Seq(Range(m.entries))
  BY <1>9, ListOfItsOwn, Zenon
<1> QED
  BY <1>3, <1>8, <1>9, <1>15, <1>16, Zenon DEF LedgerOK, Verified

\* AuditLedger.prune_before moves the anchor with the prefix it deletes.
LEMMA PruneKeepsLedger ==
  ASSUME Listable, NEW l, LedgerOK(l), NEW cutoff
  PROVE  LedgerOK(PruneBefore(l, cutoff))
<1>1. CASE ExpiredAt(l, cutoff) = {}
  BY <1>1, Zenon DEF PruneBefore
<1>2. CASE ExpiredAt(l, cutoff) # {}
  <2>1. PICK s : s = l.entries
    BY Zenon
  <2>2. s \in Seq(Range(s)) /\ Len(s) \in Nat /\ DOMAIN s = 1 .. Len(s)
    BY <2>1 DEF LedgerOK
  <2>3. ExpiredAt(l, cutoff) \subseteq 1 .. Len(s)
    BY <2>1, <2>2, Zenon DEF ExpiredAt
  <2>4. PICK last : last = LastExpired(l, cutoff)
    BY Zenon
  <2>5. last \in 1 .. Len(s)
    <3>1. \E i \in ExpiredAt(l, cutoff) : \A j \in ExpiredAt(l, cutoff) : j <= i
      BY <1>2, <2>2, <2>3, Zenon DEF Listable
    <3>2. LastExpired(l, cutoff) \in ExpiredAt(l, cutoff)
      BY <3>1, Zenon DEF LastExpired
    <3> QED
      BY <2>3, <2>4, <3>2, Zenon
  <2>6. PICK m : m = PruneBefore(l, cutoff)
    OBVIOUS
  <2>7. /\ DOMAIN m = {"entries", "anchor"}
        /\ m.entries = SubSeq(s, last + 1, Len(s))
        /\ m.anchor.sequence = s[last].sequence
        /\ m.anchor.hash = EntryHash(s[last])
    BY <1>2, <2>1, <2>4, <2>6, Zenon DEF PruneBefore
  <2>8. /\ m.entries \in Seq(Range(s)) /\ DOMAIN m.entries = 1 .. (Len(s) - last)
        /\ \A i \in 1 .. (Len(s) - last) : m.entries[i] = s[last + i]
    BY <2>2, <2>5, <2>7
  <2>9. PICK base : base = l.anchor.sequence
    BY Zenon
  <2>10. base \in Nat /\ \A i \in 1 .. Len(s) :
          /\ s[i].sequence = base + i
          /\ s[i].previous = IF i = 1 THEN l.anchor.hash ELSE EntryHash(s[i - 1])
    BY <2>1, <2>2, <2>9, Zenon DEF LedgerOK, Verified
  <2>11. m.anchor.sequence = base + last
    BY <2>5, <2>7, <2>10, Zenon
  <2>12. ASSUME NEW i \in 1 .. (Len(s) - last)
         PROVE  /\ m.entries[i].sequence = m.anchor.sequence + i
                /\ m.entries[i].previous = IF i = 1 THEN m.anchor.hash
                                           ELSE EntryHash(m.entries[i - 1])
    <3>1. last + i \in 1 .. Len(s) /\ last + i # 1
      BY <2>2, <2>5
    <3>2. base + (last + i) = (base + last) + i
      BY <2>2, <2>5, <2>10
    <3>3. i # 1 => i - 1 \in 1 .. (Len(s) - last) /\ (last + i) - 1 = last + (i - 1)
      BY <2>2, <2>5
    <3>4. i = 1 => (last + i) - 1 = last
      BY <2>2, <2>5
    <3>5. m.entries[i] = s[last + i] /\ (i # 1 => m.entries[i - 1] = s[last + (i - 1)])
      BY <2>8, <3>3, Zenon
    <3>6. /\ s[last + i].sequence = base + (last + i)
          /\ s[last + i].previous = EntryHash(s[(last + i) - 1])
      BY <2>10, <3>1, Zenon
    <3>7. m.entries[i].sequence = m.anchor.sequence + i
      BY <2>11, <3>2, <3>5, <3>6, Zenon
    <3>8. m.entries[i].previous = IF i = 1 THEN m.anchor.hash ELSE EntryHash(m.entries[i - 1])
      BY <2>7, <3>3, <3>4, <3>5, <3>6, Zenon
    <3> QED
      BY <3>7, <3>8, Zenon
  <2>13. m.entries \in Seq(Range(m.entries))
    BY <2>8, ListOfItsOwn, Zenon
  <2>14. m.anchor.sequence \in Nat
    BY <2>5, <2>10, <2>11
  <2> QED
    BY <2>6, <2>7, <2>8, <2>12, <2>13, <2>14, Zenon DEF LedgerOK, Verified
<1> QED
  BY <1>1, <1>2, Zenon

-----------------------------------------------------------------------------
(* Tables: what an operation that writes none of records, memories and the *)
(* catalog leaves sound.                                                   *)

\* The tables of a database.
LEMMA Fields ==
  DOMAIN EmptyDatabase =
    {"live", "made", "tombs", "memory", "memMade", "memTombs", "goals", "seen", "proposals",
     "lessons", "devices", "schema", "applied", "canonical", "audit", "catalog"}
BY Zenon DEF EmptyDatabase

Alike(d, e) ==
    /\ DOMAIN e = DOMAIN d
    /\ e.live = d.live /\ e.tombs = d.tombs
    /\ e.memory = d.memory /\ e.memMade = d.memMade /\ e.memTombs = d.memTombs
    /\ e.catalog = d.catalog
    /\ e.seen \subseteq d.seen \cup Observations

\* A database that differs in other tables and has a ledger that verifies is sound.
LEMMA AlikeIsSound ==
  ASSUME NEW d, NEW e, NEW copies, Sound(d, copies), Alike(d, e), LedgerOK(e.audit)
  PROVE  Sound(e, copies)
BY DEF Sound, Alike, TablesOK, TombsOK, CatalogOK, ActiveBackups

\* So is one with another ledger that verifies.
LEMMA LedgerReplaced ==
  ASSUME NEW d, NEW copies, Sound(d, copies), NEW l, LedgerOK(l)
  PROVE  /\ Sound([d EXCEPT !.audit = l], copies)
         /\ Alike(d, [d EXCEPT !.audit = l])
<1>1. PICK e : e = [d EXCEPT !.audit = l]
  BY Zenon
<1>2. Alike(d, e) /\ e.audit = l
  BY <1>1, Fields, Zenon DEF Alike, Sound, TablesOK
<1> QED
  BY <1>1, <1>2, AlikeIsSound, Zenon

\* Entries appended to the ledger keep a database sound.
LEMMA AppendedIsSound ==
  ASSUME NEW d, NEW copies, Sound(d, copies), NEW at, NEW notes, NEW n \in Nat, DOMAIN notes = 1 .. n
  PROVE  /\ Sound([d EXCEPT !.audit = AppendEntries(@, at, notes)], copies)
         /\ Alike(d, [d EXCEPT !.audit = AppendEntries(@, at, notes)])
<1>1. PICK l : l = AppendEntries(d.audit, at, notes)
  BY Zenon
<1>2. LedgerOK(l)
  BY <1>1, AppendKeepsLedger, Zenon DEF Sound
<1>3. [d EXCEPT !.audit = AppendEntries(@, at, notes)] = [d EXCEPT !.audit = l]
  BY <1>1, Zenon
<1> QED
  BY <1>2, <1>3, LedgerReplaced, Zenon

\* append: one entry does.
LEMMA AuditedIsSound ==
  ASSUME NEW d, NEW copies, Sound(d, copies), NEW at, NEW action, NEW subject, NEW mark
  PROVE  /\ Sound(Audited(d, at, action, subject, mark), copies)
         /\ Alike(d, Audited(d, at, action, subject, mark))
<1>1. PICK notes : notes = <<Note(action, subject, mark)>>
  BY Zenon
<1>2. DOMAIN notes = 1 .. 1
  BY <1>1
<1> QED
  BY <1>1, <1>2, AppendedIsSound, Zenon DEF Audited

-----------------------------------------------------------------------------
(* Records.                                                                *)

\* Only what no backup holds may go.
LEMMA CatalogStays ==
  ASSUME NEW d, NEW e, NEW copies, CatalogOK(d, copies),
         e.memory = d.memory, e.memMade = d.memMade, e.catalog = d.catalog,
         \A b \in ActiveBackups(d) : \A q \in Records :
             copies[b].live[q] > 0 /\ d.live[q] > 0 => e.live[q] > 0
  PROVE  CatalogOK(e, copies)
BY DEF CatalogOK, ActiveBackups

\* create: a new record with its entry.
LEMMA CreatedIsSound ==
  ASSUME NEW d, NEW copies, Sound(d, copies), NEW r \in Records, CanCreate(d, r), NEW at
  PROVE  /\ Sound(Created(d, r, at), copies)
         /\ \A q \in Records : q # r => Created(d, r, at).live[q] = d.live[q]
<1>1. PICK e : e = [d EXCEPT !.live[r] = 1, !.made[r] = at]
  BY Zenon
<1>2. /\ DOMAIN e = DOMAIN d /\ e.live = [d.live EXCEPT ![r] = 1]
      /\ e.tombs = d.tombs /\ e.memory = d.memory /\ e.memMade = d.memMade
      /\ e.memTombs = d.memTombs /\ e.catalog = d.catalog /\ e.audit = d.audit
      /\ e.seen = d.seen
  BY <1>1, Fields, Zenon DEF Sound, TablesOK
<1>3. /\ e.live \in [Records -> Nat] /\ e.live[r] = 1
      /\ \A q \in Records : q # r => e.live[q] = d.live[q]
  BY <1>2 DEF Sound, TablesOK
<1>4. TablesOK(e) /\ LedgerOK(e.audit)
  BY <1>2, <1>3, Zenon DEF Sound, TablesOK
<1>5. TombsOK(e)
  BY <1>2, <1>3 DEF Sound, TablesOK, TombsOK, CanCreate
<1>6. CatalogOK(e, copies)
  <2>1. ASSUME NEW b \in ActiveBackups(d), NEW q \in Records, copies[b].live[q] > 0, d.live[q] > 0
        PROVE  e.live[q] > 0
    BY <1>3, <2>1
  <2> QED
    BY <1>2, <2>1, CatalogStays, Zenon DEF Sound
<1>7. Sound(e, copies)
  BY <1>4, <1>5, <1>6, Zenon DEF Sound
<1>8. PICK m : m = Audited(e, at, "created", r, 1)
  BY Zenon
<1>9. Sound(m, copies) /\ Alike(e, m)
  BY <1>7, <1>8, AuditedIsSound, Zenon
<1>10. m = Created(d, r, at)
  BY <1>1, <1>8, Zenon DEF Created
<1> QED
  BY <1>3, <1>9, <1>10, Zenon DEF Alike

\* transition: the next version of a live record.
LEMMA TransitionedIsSound ==
  ASSUME NEW d, NEW copies, Sound(d, copies), NEW r \in Records, d.live[r] > 0, NEW at
  PROVE  /\ Sound(Transitioned(d, r, at), copies)
         /\ \A q \in Records : q # r => Transitioned(d, r, at).live[q] = d.live[q]
<1>1. PICK e : e = [d EXCEPT !.live[r] = @ + 1]
  BY Zenon
<1>2. /\ DOMAIN e = DOMAIN d /\ e.live = [d.live EXCEPT ![r] = d.live[r] + 1]
      /\ e.tombs = d.tombs /\ e.memory = d.memory /\ e.memMade = d.memMade
      /\ e.memTombs = d.memTombs /\ e.catalog = d.catalog /\ e.audit = d.audit
      /\ e.seen = d.seen
  BY <1>1, Fields, Zenon DEF Sound, TablesOK
<1>3. /\ e.live \in [Records -> Nat] /\ e.live[r] > 0
      /\ \A q \in Records : q # r => e.live[q] = d.live[q]
  BY <1>2 DEF Sound, TablesOK
<1>4. TablesOK(e) /\ LedgerOK(e.audit)
  BY <1>2, <1>3, Zenon DEF Sound, TablesOK
<1>5. TombsOK(e)
  BY <1>2, <1>3 DEF Sound, TablesOK, TombsOK
<1>6. CatalogOK(e, copies)
  <2>1. ASSUME NEW b \in ActiveBackups(d), NEW q \in Records, copies[b].live[q] > 0, d.live[q] > 0
        PROVE  e.live[q] > 0
    BY <1>3, <2>1, Zenon
  <2> QED
    BY <1>2, <2>1, CatalogStays, Zenon DEF Sound
<1>7. Sound(e, copies)
  BY <1>4, <1>5, <1>6, Zenon DEF Sound
<1>8. PICK m : m = Audited(e, at, "transitioned", r, d.live[r] + 1)
  BY Zenon
<1>9. Sound(m, copies) /\ Alike(e, m)
  BY <1>7, <1>8, AuditedIsSound, Zenon
<1>10. m = Transitioned(d, r, at)
  BY <1>1, <1>8, Zenon DEF Transitioned
<1> QED
  BY <1>3, <1>9, <1>10, Zenon DEF Alike

\* _delete, once no backup with a key holds the record.
LEMMA DeletedIsSound ==
  ASSUME NEW d, NEW copies, Sound(d, copies), NEW r \in Records, NEW at,
         \A b \in ActiveBackups(d) : ~(copies[b].live[r] > 0)
  PROVE  /\ Sound(Deleted(d, r, at), copies)
         /\ \A q \in Records : q # r => Deleted(d, r, at).live[q] = d.live[q]
         /\ Deleted(d, r, at).live[r] = 0
         /\ Deleted(d, r, at).catalog = d.catalog
<1>1. PICK e : e = [d EXCEPT !.live[r] = 0, !.tombs = @ \cup {r}]
  BY Zenon
<1>2. /\ DOMAIN e = DOMAIN d /\ e.live = [d.live EXCEPT ![r] = 0]
      /\ e.tombs = d.tombs \cup {r} /\ e.memory = d.memory /\ e.memMade = d.memMade
      /\ e.memTombs = d.memTombs /\ e.catalog = d.catalog /\ e.audit = d.audit
      /\ e.seen = d.seen
  BY <1>1, Fields, Zenon DEF Sound, TablesOK
<1>3. /\ e.live \in [Records -> Nat] /\ e.live[r] = 0
      /\ \A q \in Records : q # r => e.live[q] = d.live[q]
  BY <1>2 DEF Sound, TablesOK
<1>4. TablesOK(e) /\ LedgerOK(e.audit)
  BY <1>2, <1>3, Zenon DEF Sound, TablesOK
<1>5. TombsOK(e)
  BY <1>2, <1>3, Zenon DEF Sound, TablesOK, TombsOK
<1>6. CatalogOK(e, copies)
  <2>1. ASSUME NEW b \in ActiveBackups(d), NEW q \in Records, copies[b].live[q] > 0, d.live[q] > 0
        PROVE  e.live[q] > 0
    BY <1>3, <2>1, Zenon
  <2> QED
    BY <1>2, <2>1, CatalogStays, Zenon DEF Sound
<1>7. Sound(e, copies)
  BY <1>4, <1>5, <1>6, Zenon DEF Sound
<1>8. PICK m : m = Audited(e, at, "deleted", r, 0)
  BY Zenon
<1>9. Sound(m, copies) /\ Alike(e, m)
  BY <1>7, <1>8, AuditedIsSound, Zenon
<1>10. m = Deleted(d, r, at)
  BY <1>1, <1>8, Zenon DEF Deleted
<1> QED
  BY <1>2, <1>3, <1>9, <1>10, Zenon DEF Alike

-----------------------------------------------------------------------------
(* Memories.                                                               *)

\* remember: a new memory.
LEMMA RememberedIsSound ==
  ASSUME NEW d, NEW copies, Sound(d, copies), NEW x \in Memories, CanRemember(d, x), NEW at \in Nat
  PROVE  /\ Sound(Remembered(d, x, at), copies)
         /\ Remembered(d, x, at).live = d.live
<1>1. PICK e : e = [d EXCEPT !.memory[x] = 1, !.memMade[x] = at]
  BY Zenon
<1>2. /\ DOMAIN e = DOMAIN d /\ e.live = d.live /\ e.tombs = d.tombs
      /\ e.memory = [d.memory EXCEPT ![x] = 1] /\ e.memMade = [d.memMade EXCEPT ![x] = at]
      /\ e.memTombs = d.memTombs /\ e.catalog = d.catalog /\ e.audit = d.audit
      /\ e.seen = d.seen
  BY <1>1, Fields, Zenon DEF Sound, TablesOK
<1>3. /\ e.memory \in [Memories -> Nat] /\ e.memMade \in [Memories -> Nat]
      /\ \A y \in Memories : y # x => e.memory[y] = d.memory[y] /\ e.memMade[y] = d.memMade[y]
  BY <1>2 DEF Sound, TablesOK
<1>4. TablesOK(e) /\ LedgerOK(e.audit)
  BY <1>2, <1>3, Zenon DEF Sound, TablesOK
<1>5. TombsOK(e)
  BY <1>2, <1>3 DEF Sound, TablesOK, TombsOK, CanRemember
<1>6. CatalogOK(e, copies)
  <2>1. ActiveBackups(e) = ActiveBackups(d)
    BY <1>2, Zenon DEF ActiveBackups
  <2>2. ASSUME NEW b \in ActiveBackups(d), NEW y \in Memories, copies[b].memory[y] > 0
        PROVE  /\ y # x /\ copies[b].memory[y] = d.memory[y]
               /\ IF d.catalog[b].covered THEN y \in d.catalog[b].memories
                  ELSE d.catalog[b].at >= d.memMade[y]
    BY <2>2 DEF Sound, CatalogOK, CanRemember
  <2>3. ASSUME NEW b \in ActiveBackups(d), NEW y \in Memories, copies[b].memory[y] > 0
        PROVE  /\ copies[b].memory[y] = e.memory[y]
               /\ IF e.catalog[b].covered THEN y \in e.catalog[b].memories
                  ELSE e.catalog[b].at >= e.memMade[y]
    BY <1>2, <1>3, <2>2, <2>3, Zenon
  <2>4. \A b \in ActiveBackups(d) : /\ b \in DOMAIN copies
            /\ \A r \in Records : copies[b].live[r] > 0 => r \in e.catalog[b].records /\ e.live[r] > 0
    BY <1>2, Zenon DEF Sound, CatalogOK
  <2> QED
    BY <2>1, <2>3, <2>4, Zenon DEF CatalogOK
<1>7. Sound(e, copies)
  BY <1>4, <1>5, <1>6, Zenon DEF Sound
<1>8. PICK m : m = Audited(e, at, "created", x, 1)
  BY Zenon
<1>9. Sound(m, copies) /\ Alike(e, m)
  BY <1>7, <1>8, AuditedIsSound, Zenon
<1>10. m = Remembered(d, x, at)
  BY <1>1, <1>8, Zenon DEF Remembered
<1> QED
  BY <1>2, <1>9, <1>10, Zenon DEF Alike

\* _remove: no backup with a key is left that holds one of the memories.
LEMMA RemovedIsSound ==
  ASSUME NEW d, NEW copies, Sound(d, copies),
         NEW xs \in SUBSET Memories, \A x \in xs : d.memory[x] > 0
  PROVE  /\ Sound(Removed(d, xs), copies)
         /\ Removed(d, xs).live = d.live
         /\ Removed(d, xs).memTombs = d.memTombs \cup {[id |-> x, revision |-> d.memory[x]] : x \in xs}
         /\ \A y \in Memories : Removed(d, xs).memory[y] = IF y \in xs THEN 0 ELSE d.memory[y]
         /\ \A b \in ActiveBackups(Removed(d, xs)) : \A x \in xs : ~(copies[b].memory[x] > 0)
<1>1. PICK e : e = Removed(d, xs)
  BY Zenon
<1>2. /\ DOMAIN e = DOMAIN d /\ e.live = d.live /\ e.tombs = d.tombs /\ e.memMade = d.memMade
      /\ e.memory = [y \in Memories |-> IF y \in xs THEN 0 ELSE d.memory[y]]
      /\ e.memTombs = d.memTombs \cup {[id |-> x, revision |-> d.memory[x]] : x \in xs}
      /\ e.catalog = Revoked(d, xs) /\ e.audit = d.audit
      /\ e.seen = d.seen
  BY <1>1, Fields, Zenon DEF Sound, TablesOK, Removed
<1>3. /\ e.memory \in [Memories -> Nat]
      /\ \A y \in Memories : e.memory[y] = IF y \in xs THEN 0 ELSE d.memory[y]
  BY <1>2 DEF Sound, TablesOK
<1>4. ASSUME NEW b \in BackupIds
      PROVE  /\ e.catalog[b] \in BackupManifest
             /\ \/ e.catalog[b] = d.catalog[b]
                \/ e.catalog[b].status = "invalidated"
  <2>1. d.catalog[b] \in BackupManifest
    BY Zenon DEF Sound, TablesOK
  <2>2. e.catalog[b] = d.catalog[b] \/ e.catalog[b] = [d.catalog[b] EXCEPT !.status = "invalidated"]
    BY <1>2, Zenon DEF Revoked
  <2> QED
    BY <2>1, <2>2, Zenon DEF BackupManifest
<1>5. e.catalog \in [BackupIds -> BackupManifest]
  <2>1. e.catalog = [b \in BackupIds |-> e.catalog[b]]
    BY <1>2, Zenon DEF Revoked
  <2> QED
    BY <1>4, <2>1, Zenon
<1>6. TablesOK(e) /\ LedgerOK(e.audit)
  <2>1. ASSUME NEW t \in e.memTombs PROVE t.id \in Memories /\ t.revision \in Nat \ {0}
    <3>1. CASE t \in d.memTombs
      BY <3>1, Zenon DEF Sound, TablesOK
    <3>2. ASSUME NEW x \in xs, t = [id |-> x, revision |-> d.memory[x]]
          PROVE  t.id \in Memories /\ t.revision \in Nat \ {0}
      BY <3>2 DEF Sound, TablesOK
    <3> QED
      BY <1>2, <3>1, <3>2, Zenon
  <2> QED
    BY <1>2, <1>3, <1>5, <2>1, Zenon DEF Sound, TablesOK
<1>7. TombsOK(e)
  <2>1. ASSUME NEW t \in e.memTombs PROVE e.memory[t.id] = 0 \/ t.revision < e.memory[t.id]
    <3>1. CASE t \in d.memTombs
      BY <1>3, <3>1, Zenon DEF Sound, TablesOK, TombsOK
    <3>2. ASSUME NEW x \in xs, t = [id |-> x, revision |-> d.memory[x]]
          PROVE  e.memory[t.id] = 0
      BY <1>3, <3>2, Zenon
    <3> QED
      BY <1>2, <3>1, <3>2, Zenon
  <2> QED
    BY <1>2, <2>1, Zenon DEF Sound, TombsOK
<1>8. ASSUME NEW b \in ActiveBackups(e)
      PROVE  /\ b \in ActiveBackups(d) /\ e.catalog[b] = d.catalog[b]
             /\ \A x \in xs : /\ x \notin d.catalog[b].memories
                              /\ d.catalog[b].covered \/ ~(d.catalog[b].at >= d.memMade[x])
  <2>1. b \in BackupIds /\ e.catalog[b].status = "active"
    BY Zenon DEF ActiveBackups
  <2>2. e.catalog[b] = d.catalog[b]
    BY <1>4, <2>1, Zenon
  <2>3. d.catalog[b].status # "invalidated"
    BY <2>1, <2>2, Zenon
  <2>4. ASSUME NEW x \in xs, \/ x \in d.catalog[b].memories
                             \/ ~ d.catalog[b].covered /\ d.catalog[b].at >= d.memMade[x]
        PROVE  FALSE
    <3>2. e.catalog[b] = [d.catalog[b] EXCEPT !.status = "invalidated"]
      BY <1>2, <2>1, <2>2, <2>4, Zenon DEF Revoked
    <3>3. d.catalog[b] \in BackupManifest
      BY <2>1, Zenon DEF Sound, TablesOK
    <3> QED
      BY <2>1, <3>2, <3>3, Zenon DEF BackupManifest
  <2> QED
    BY <2>1, <2>2, <2>4, Zenon DEF ActiveBackups
<1>9. ASSUME NEW b \in ActiveBackups(e), NEW x \in xs
      PROVE  ~(copies[b].memory[x] > 0)
  BY <1>8, Zenon DEF Sound, CatalogOK
<1>10. CatalogOK(e, copies)
  <2>1. ASSUME NEW b \in ActiveBackups(e), NEW y \in Memories, copies[b].memory[y] > 0
        PROVE  /\ copies[b].memory[y] = e.memory[y]
               /\ IF e.catalog[b].covered THEN y \in e.catalog[b].memories
                  ELSE e.catalog[b].at >= e.memMade[y]
    <3>1. y \notin xs
      BY <1>9, <2>1, Zenon
    <3>2. /\ copies[b].memory[y] = d.memory[y]
          /\ IF d.catalog[b].covered THEN y \in d.catalog[b].memories
             ELSE d.catalog[b].at >= d.memMade[y]
      BY <1>8, <2>1, Zenon DEF Sound, CatalogOK
    <3> QED
      BY <1>2, <1>3, <1>8, <3>1, <3>2, Zenon
  <2>2. \A b \in ActiveBackups(e) : /\ b \in DOMAIN copies
            /\ \A r \in Records : copies[b].live[r] > 0 => r \in e.catalog[b].records /\ e.live[r] > 0
    BY <1>2, <1>8, Zenon DEF Sound, CatalogOK
  <2> QED
    BY <2>1, <2>2, Zenon DEF CatalogOK
<1> QED
  BY <1>1, <1>2, <1>3, <1>6, <1>7, <1>9, <1>10, Zenon DEF Sound

\* correct: a memory is replaced by its correction.
LEMMA CorrectedIsSound ==
  ASSUME NEW d, NEW copies, Sound(d, copies), NEW x \in Memories, d.memory[x] > 0, NEW at
  PROVE  /\ Sound(Corrected(d, x, at), copies)
         /\ Corrected(d, x, at).live = d.live
<1>1. PICK e : e = Removed(d, {x})
  BY Zenon
<1>2. /\ Sound(e, copies) /\ e.live = d.live
      /\ e.memTombs = d.memTombs \cup {[id |-> y, revision |-> d.memory[y]] : y \in {x}}
      /\ \A y \in Memories : e.memory[y] = IF y \in {x} THEN 0 ELSE d.memory[y]
      /\ \A b \in ActiveBackups(e) : \A y \in {x} : ~(copies[b].memory[y] > 0)
  BY <1>1, RemovedIsSound
<1>3. PICK m : m = [e EXCEPT !.memory[x] = d.memory[x] + 1]
  BY Zenon
<1>4. /\ DOMAIN m = DOMAIN e /\ m.live = e.live /\ m.tombs = e.tombs
      /\ m.memory = [e.memory EXCEPT ![x] = d.memory[x] + 1] /\ m.memMade = e.memMade
      /\ m.memTombs = e.memTombs /\ m.catalog = e.catalog /\ m.audit = e.audit
      /\ m.seen = e.seen
  BY <1>2, <1>3, Fields, Zenon DEF Sound, TablesOK
<1>5. d.memory[x] \in Nat
  BY Zenon DEF Sound, TablesOK
<1>6. /\ m.memory \in [Memories -> Nat] /\ m.memory[x] = d.memory[x] + 1
      /\ \A y \in Memories : y # x => m.memory[y] = e.memory[y] /\ m.memory[y] = d.memory[y]
  BY <1>2, <1>4, <1>5 DEF Sound, TablesOK
<1>7. TablesOK(m) /\ LedgerOK(m.audit)
  BY <1>2, <1>4, <1>6, Zenon DEF Sound, TablesOK
<1>8. TombsOK(m)
  <2>1. ASSUME NEW t \in m.memTombs PROVE m.memory[t.id] = 0 \/ t.revision < m.memory[t.id]
    <3>1. CASE t \in d.memTombs
      <4>1. /\ t.id \in Memories /\ t.revision \in Nat
            /\ d.memory[t.id] = 0 \/ t.revision < d.memory[t.id]
        BY <3>1, Zenon DEF Sound, TablesOK, TombsOK
      <4>2. CASE t.id # x
        BY <1>6, <4>1, <4>2, Zenon
      <4>3. CASE t.id = x
        BY <1>5, <1>6, <4>1, <4>3
      <4> QED
        BY <4>2, <4>3, Zenon
    <3>2. CASE t = [id |-> x, revision |-> d.memory[x]]
      BY <1>5, <1>6, <3>2
    <3> QED
      BY <1>2, <1>4, <3>1, <3>2
  <2> QED
    BY <1>2, <1>4, <2>1, Zenon DEF Sound, TombsOK
<1>9. CatalogOK(m, copies)
  <2>1. ActiveBackups(m) = ActiveBackups(e)
    BY <1>4, Zenon DEF ActiveBackups
  <2>2. ASSUME NEW b \in ActiveBackups(e), NEW y \in Memories, copies[b].memory[y] > 0
        PROVE  /\ y # x /\ copies[b].memory[y] = e.memory[y]
               /\ IF e.catalog[b].covered THEN y \in e.catalog[b].memories
                  ELSE e.catalog[b].at >= e.memMade[y]
    BY <1>2, <2>2, Zenon DEF Sound, CatalogOK
  <2>3. ASSUME NEW b \in ActiveBackups(e), NEW y \in Memories, copies[b].memory[y] > 0
        PROVE  /\ copies[b].memory[y] = m.memory[y]
               /\ IF m.catalog[b].covered THEN y \in m.catalog[b].memories
                  ELSE m.catalog[b].at >= m.memMade[y]
    BY <1>4, <1>6, <2>2, <2>3
  <2>4. \A b \in ActiveBackups(e) : /\ b \in DOMAIN copies
            /\ \A r \in Records : copies[b].live[r] > 0 => r \in m.catalog[b].records /\ m.live[r] > 0
    BY <1>2, <1>4, Zenon DEF Sound, CatalogOK
  <2> QED
    BY <2>1, <2>3, <2>4, Zenon DEF CatalogOK
<1>10. Sound(m, copies)
  BY <1>7, <1>8, <1>9, Zenon DEF Sound
<1>11. PICK w : w = Audited(m, at, "corrected", x, d.memory[x])
  BY Zenon
<1>12. Sound(w, copies) /\ Alike(m, w)
  BY <1>10, <1>11, AuditedIsSound, Zenon
<1>13. w = Corrected(d, x, at)
  BY <1>1, <1>3, <1>11, Zenon DEF Corrected
<1> QED
  BY <1>2, <1>4, <1>12, <1>13, Zenon DEF Alike

\* forget: a memory is removed and has a tombstone.
LEMMA ForgottenIsSound ==
  ASSUME NEW d, NEW copies, Sound(d, copies), NEW x \in Memories, d.memory[x] > 0, NEW at
  PROVE  /\ Sound(Forgotten(d, x, at), copies)
         /\ Forgotten(d, x, at).live = d.live
<1>1. PICK e : e = Removed(d, {x})
  OBVIOUS
<1>2. Sound(e, copies) /\ e.live = d.live
  BY <1>1, RemovedIsSound
<1>3. PICK w : w = Audited(e, at, "deleted", x, d.memory[x])
  BY Zenon
<1>4. Sound(w, copies) /\ Alike(e, w)
  BY <1>2, <1>3, AuditedIsSound, Zenon
<1>5. w = Forgotten(d, x, at)
  BY <1>1, <1>3, Zenon DEF Forgotten
<1> QED
  BY <1>2, <1>4, <1>5, Zenon DEF Alike

\* An entry for each row of a selection is a list of entries.
LEMMA OneNoteEach ==
  ASSUME Listable, NEW S, Selected(S)
  PROVE  \E n \in Nat : DOMAIN AnyOrder(S) = 1 .. n
BY Listed, Zenon

\* purge_expired: the expired memories are removed with an entry each.
LEMMA MemoriesPurgedIsSound ==
  ASSUME Listable, NEW d, NEW copies, Sound(d, copies), NEW now
  PROVE  /\ Sound(MemoriesPurged(d, now), copies)
         /\ MemoriesPurged(d, now).live = d.live
<1>1. PICK xs : xs = ExpiredMemories(d, now)
  BY Zenon
<1>2. xs \in SUBSET Memories /\ \A x \in xs : d.memory[x] > 0
  BY <1>1, Zenon DEF ExpiredMemories
<1>3. Selected(xs)
  BY <1>2, Zenon DEF Selected
<1>4. PICK e : e = Removed(d, xs)
  OBVIOUS
<1>5. Sound(e, copies) /\ e.live = d.live
  BY <1>2, <1>4, RemovedIsSound, Zenon
<1>6. PICK order : order = AnyOrder(xs)
  BY Zenon
<1>7. PICK n \in Nat : DOMAIN order = 1 .. n
  BY <1>3, <1>6, OneNoteEach, Zenon
<1>8. PICK notes : notes = [i \in DOMAIN order |-> Note("retention_expired", order[i], d.memory[order[i]])]
  BY Zenon
<1>9. DOMAIN notes = 1 .. n
  BY <1>7, <1>8, Zenon
<1>10. PICK w : w = [e EXCEPT !.audit = AppendEntries(@, now, notes)]
  BY Zenon
<1>11. Sound(w, copies) /\ Alike(e, w)
  BY <1>5, <1>9, <1>10, AppendedIsSound, Zenon
<1>12. w = MemoriesPurged(d, now)
  BY <1>1, <1>4, <1>6, <1>8, <1>10, Zenon DEF MemoriesPurged
<1> QED
  BY <1>5, <1>11, <1>12, Zenon DEF Alike

-----------------------------------------------------------------------------
(* Goals, learning, devices, exports and migrations write tables that no   *)
(* backup lists.                                                           *)

\* A change outside the tables that Sound speaks of, with or without an entry.
LEMMA QuietIsSound ==
  ASSUME NEW d, NEW copies, Sound(d, copies), NEW e, Alike(d, e), e.audit = d.audit,
         NEW at, NEW action, NEW subject, NEW mark
  PROVE  /\ Sound(e, copies)
         /\ Sound(Audited(e, at, action, subject, mark), copies)
         /\ Audited(e, at, action, subject, mark).live = d.live
<1>1. Sound(e, copies)
  BY AlikeIsSound, Zenon DEF Sound
<1>2. Sound(Audited(e, at, action, subject, mark), copies) /\ Alike(e, Audited(e, at, action, subject, mark))
  BY <1>1, AuditedIsSound, Zenon
<1> QED
  BY <1>1, <1>2, Zenon DEF Alike

\* A goal is added.
LEMMA GoalAddedIsSound ==
  ASSUME NEW d, NEW copies, Sound(d, copies), NEW g, NEW at
  PROVE  /\ Sound(GoalAdded(d, g, at), copies)
         /\ GoalAdded(d, g, at).live = d.live
<1>1. PICK e : e = [d EXCEPT !.goals = @ \cup {g}]
  BY Zenon
<1>2. Alike(d, e) /\ e.audit = d.audit
  BY <1>1, Fields, Zenon DEF Sound, TablesOK, Alike
<1>3. PICK m : m = Audited(e, at, "created", g, 1)
  BY Zenon
<1>4. Sound(m, copies) /\ m.live = d.live
  BY <1>2, <1>3, QuietIsSound
<1>5. m = GoalAdded(d, g, at)
  BY <1>1, <1>3, Zenon DEF GoalAdded
<1> QED
  BY <1>4, <1>5, Zenon

\* An observation is recorded.
LEMMA ObservationRecordedIsSound ==
  ASSUME NEW d, NEW copies, Sound(d, copies), NEW o \in Observations, NEW at
  PROVE  /\ Sound(ObservationRecorded(d, o, at), copies)
         /\ ObservationRecorded(d, o, at).live = d.live
<1>1. PICK e : e = [d EXCEPT !.seen = @ \cup {o}]
  BY Zenon
<1>2. Alike(d, e) /\ e.audit = d.audit
  BY <1>1, Fields, Zenon DEF Sound, TablesOK, Alike
<1>3. PICK m : m = Audited(e, at, "observed", o, 1)
  BY Zenon
<1>4. Sound(m, copies) /\ m.live = d.live
  BY <1>2, <1>3, QuietIsSound
<1>5. m = ObservationRecorded(d, o, at)
  BY <1>1, <1>3, Zenon DEF ObservationRecorded
<1> QED
  BY <1>4, <1>5, Zenon

\* A proposal of the learner is stored.
LEMMA ProposalReplacedIsSound ==
  ASSUME NEW d, NEW copies, Sound(d, copies), NEW g, NEW status, NEW content, NEW at
  PROVE  /\ Sound(ProposalReplaced(d, g, status, content, at), copies)
         /\ ProposalReplaced(d, g, status, content, at).live = d.live
<1>1. PICK e : e = [d EXCEPT !.proposals[g] = [status |-> status, content |-> content]]
  BY Zenon
<1>2. Alike(d, e) /\ e.audit = d.audit
  BY <1>1, Fields, Zenon DEF Sound, TablesOK, Alike
<1>3. PICK m : m = Audited(e, at, status, g, 1)
  BY Zenon
<1>4. Sound(m, copies) /\ m.live = d.live
  BY <1>2, <1>3, QuietIsSound
<1>5. m = ProposalReplaced(d, g, status, content, at)
  BY <1>1, <1>3, Zenon DEF ProposalReplaced
<1> QED
  BY <1>4, <1>5, Zenon

\* A lesson is buried with its proposal.
LEMMA LessonBuriedIsSound ==
  ASSUME NEW d, NEW copies, Sound(d, copies), NEW g, NEW at
  PROVE  /\ Sound(LessonBuried(d, g, at), copies)
         /\ LessonBuried(d, g, at).live = d.live
<1>1. PICK e : e = [ProposalErased(d, g) EXCEPT !.lessons =
                   @ \cup {[group |-> g, pattern |-> Pattern(g, d.proposals[g].content)]}]
  BY Zenon
<1>2. Alike(d, e) /\ e.audit = d.audit
  BY <1>1, Fields, Zenon DEF Sound, TablesOK, Alike, ProposalErased
<1>3. PICK m : m = Audited(e, at, "deleted", g, 0)
  BY Zenon
<1>4. Sound(m, copies) /\ m.live = d.live
  BY <1>2, <1>3, QuietIsSound
<1>5. m = LessonBuried(d, g, at)
  BY <1>1, <1>3, Zenon DEF LessonBuried
<1> QED
  BY <1>4, <1>5

\* A proposal is erased.
LEMMA ProposalErasedIsSound ==
  ASSUME NEW d, NEW copies, Sound(d, copies), NEW g
  PROVE  /\ Sound(ProposalErased(d, g), copies)
         /\ ProposalErased(d, g).live = d.live
<1>1. PICK e : e = ProposalErased(d, g)
  BY Zenon
<1>2. Alike(d, e) /\ e.audit = d.audit
  BY <1>1, Fields, Zenon DEF Sound, TablesOK, Alike, ProposalErased
<1> QED
  BY <1>1, <1>2, QuietIsSound, Zenon DEF Alike

\* A device is added.
LEMMA DeviceAddedIsSound ==
  ASSUME NEW d, NEW copies, Sound(d, copies), NEW v
  PROVE  /\ Sound([d EXCEPT !.devices = @ \cup {v}], copies)
         /\ [d EXCEPT !.devices = @ \cup {v}].live = d.live
<1>1. PICK e : e = [d EXCEPT !.devices = @ \cup {v}]
  BY Zenon
<1>2. Alike(d, e) /\ e.audit = d.audit
  BY <1>1, Fields, Zenon DEF Sound, TablesOK, Alike
<1> QED
  BY <1>1, <1>2, QuietIsSound, Zenon DEF Alike

\* learn: proposals for the groups that have become proposable.
LEMMA LearnedIsSound ==
  ASSUME NEW d, NEW copies, Sound(d, copies), NEW now
  PROVE  /\ Sound(Learned(d, now), copies)
         /\ Learned(d, now).live = d.live
<1>1. PICK order : order = Among(Groups, Proposable(d, now))
  BY Zenon
<1>2. PICK notes : notes = [i \in DOMAIN order |-> Note("proposed", order[i], 1)]
  BY Zenon
<1>3. \E n \in Nat : DOMAIN notes = 1 .. n
  <2>1. Proposable(d, now) \in SUBSET Range(Groups)
    BY Zenon DEF Proposable
  <2>2. order \in Seq(Proposable(d, now))
    BY <1>1, <2>1, DatabaseAssumption, Zenon
  <2> QED
    BY <1>2, <2>2
<1>4. PICK e : e = [d EXCEPT !.proposals = [g \in Range(Groups) |->
                      IF g \in Proposable(d, now)
                      THEN [status |-> "proposed", content |-> MostCommon(Samples(d, g, now))]
                      ELSE @[g]]]
  BY Zenon
<1>5. Alike(d, e) /\ e.audit = d.audit
  BY <1>4, Fields, Zenon DEF Sound, TablesOK, Alike
<1>6. Sound(e, copies)
  BY <1>5, QuietIsSound, Zenon
<1>7. PICK m : m = [e EXCEPT !.audit = AppendEntries(@, now, notes)]
  BY Zenon
<1>8. Sound(m, copies) /\ Alike(e, m)
  BY <1>3, <1>6, <1>7, AppendedIsSound, Zenon
<1>9. m = Learned(d, now)
  BY <1>1, <1>2, <1>4, <1>7, Zenon DEF Learned
<1> QED
  BY <1>5, <1>8, <1>9, Zenon DEF Alike

\* The expired observations are purged.
LEMMA ObservationsPurgedIsSound ==
  ASSUME Listable, NEW d, NEW copies, Sound(d, copies), NEW now
  PROVE  /\ Sound(ObservationsPurged(d, now), copies)
         /\ ObservationsPurged(d, now).live = d.live
<1>1. PICK order : order = AnyOrder(ExpiredObservations(d, now))
  BY Zenon
<1>2. PICK notes : notes = [i \in DOMAIN order |-> Note("retention_expired", order[i], 0)]
  BY Zenon
<1>3. \E n \in Nat : DOMAIN notes = 1 .. n
  <2>1. ExpiredObservations(d, now) \in SUBSET Observations
    BY Zenon DEF Sound, TablesOK, ExpiredObservations
  <2>2. Selected(ExpiredObservations(d, now))
    BY <2>1, Zenon DEF Selected
  <2> QED
    BY <1>1, <1>2, <2>2, OneNoteEach, Zenon
<1>4. PICK e : e = [d EXCEPT !.seen = @ \ ExpiredObservations(d, now)]
  BY Zenon
<1>5. Alike(d, e) /\ e.audit = d.audit
  BY <1>4, Fields, Zenon DEF Sound, TablesOK, Alike
<1>6. Sound(e, copies)
  BY <1>5, QuietIsSound, Zenon
<1>7. PICK m : m = [e EXCEPT !.audit = AppendEntries(@, now, notes)]
  BY Zenon
<1>8. Sound(m, copies) /\ Alike(e, m)
  BY <1>3, <1>6, <1>7, AppendedIsSound, Zenon
<1>9. m = ObservationsPurged(d, now)
  BY <1>1, <1>2, <1>4, <1>7, Zenon DEF ObservationsPurged
<1> QED
  BY <1>5, <1>8, <1>9, Zenon DEF Alike

\* A migration merges the rows of its manifest.
LEMMA MigratedIsSound ==
  ASSUME Listable, NEW d, NEW copies, Sound(d, copies), NEW m \in Manifests, NEW at
  PROVE  /\ Sound(Migrated(d, m, at), copies)
         /\ Migrated(d, m, at).live = d.live
<1>1. PICK copied : copied = [i \in 1 .. Cardinality(FamiliesCopied(d, m)) |-> Note("copied", m.id, 1)]
  BY Zenon
<1>2. PICK order : order = AnyOrder(m.merges)
  BY Zenon
<1>3. PICK merged : merged = [i \in DOMAIN order |-> Note("merged", order[i].target, 1)]
  BY Zenon
<1>4. PICK last : last = Note("applied", m.id, 1)
  BY Zenon
<1>5. PICK notes : notes = copied \o merged \o <<last>>
  BY Zenon
<1>6. PICK X : X = Range(copied) \cup Range(merged) \cup {last}
  BY Zenon
<1>7. copied \in Seq(X)
  <2>1. ToCopy(d, m) \in SUBSET Records
    BY Zenon DEF ToCopy, LiveRecords
  <2>2. FamiliesCopied(d, m) = {m.maps[Kind[r]] : r \in ToCopy(d, m)}
    BY Zenon DEF FamiliesCopied
  <2>3. Count(FamiliesCopied(d, m)) \in Nat
    BY <2>1, <2>2, Zenon DEF Listable
  <2>4. Cardinality(FamiliesCopied(d, m)) \in Nat
    BY <2>3, SpelledOut, Zenon
  <2> QED
    BY <1>1, <1>6, <2>4 DEF Range
<1>8. merged \in Seq(X)
  <2>1. Selected(m.merges)
    BY Zenon DEF Selected
  <2>2. PICK n \in Nat : DOMAIN order = 1 .. n
    BY <1>2, <2>1, OneNoteEach, Zenon
  <2> QED
    BY <1>3, <1>6, <2>2 DEF Range
<1>9. \E n \in Nat : DOMAIN notes = 1 .. n
  <2>1. last \in X
    BY <1>6, Zenon
  <2>2. notes \in Seq(X)
    BY <1>5, <1>7, <1>8, <2>1
  <2> QED
    BY <2>2
<1>10. PICK e : e = [d EXCEPT !.canonical = @ \cup NewRows(d, m), !.applied = @ \cup {m.id},
                              !.schema = m.to]
  BY Zenon
<1>11. Alike(d, e) /\ e.audit = d.audit
  BY <1>10, Fields, Zenon DEF Sound, TablesOK, Alike
<1>12. Sound(e, copies)
  BY <1>11, QuietIsSound, Zenon
<1>13. PICK w : w = [e EXCEPT !.audit = AppendEntries(@, at, notes)]
  BY Zenon
<1>14. Sound(w, copies) /\ Alike(e, w)
  BY <1>9, <1>12, <1>13, AppendedIsSound, Zenon
<1>15. w = Migrated(d, m, at)
  BY <1>1, <1>2, <1>3, <1>4, <1>5, <1>10, <1>13, Zenon DEF Migrated
<1> QED
  BY <1>11, <1>14, <1>15, Zenon DEF Alike

-----------------------------------------------------------------------------
(* The catalog.                                                            *)

\* Destroying a key makes one backup less.
LEMMA KeyDestroyedIsSound ==
  ASSUME NEW d, NEW copies, Sound(d, copies), NEW b, NEW status \in {"invalidated", "expired"}
  PROVE  /\ Sound(KeyDestroyed(d, b, status), copies)
         /\ KeyDestroyed(d, b, status).live = d.live
         /\ ActiveBackups(KeyDestroyed(d, b, status)) \subseteq ActiveBackups(d) \ {b}
<1>1. PICK e : e = KeyDestroyed(d, b, status)
  BY Zenon
<1>2. PICK row : row = [d.catalog[b] EXCEPT !.status = status]
  BY Zenon
<1>3. /\ DOMAIN e = DOMAIN d /\ e.live = d.live /\ e.tombs = d.tombs /\ e.memory = d.memory
      /\ e.memMade = d.memMade /\ e.memTombs = d.memTombs /\ e.audit = d.audit /\ e.seen = d.seen
      /\ e.catalog = [d.catalog EXCEPT ![b] = row]
  BY <1>1, <1>2, Fields, Zenon DEF Sound, TablesOK, KeyDestroyed
<1>4. b \in BackupIds => row \in BackupManifest /\ row.status = status
  BY <1>2, Zenon DEF Sound, TablesOK, BackupManifest
<1>5. e.catalog \in [BackupIds -> BackupManifest]
  BY <1>3, <1>4, Zenon DEF Sound, TablesOK
<1>6. /\ \A c \in BackupIds : c # b => e.catalog[c] = d.catalog[c]
      /\ b \in BackupIds => e.catalog[b].status # "active"
  BY <1>3, <1>4, Zenon DEF Sound, TablesOK
<1>7. \A c \in ActiveBackups(e) : c # b /\ c \in ActiveBackups(d) /\ e.catalog[c] = d.catalog[c]
  BY <1>6, Zenon DEF ActiveBackups
<1>8. TablesOK(e) /\ LedgerOK(e.audit) /\ TombsOK(e)
  BY <1>3, <1>5, Zenon DEF Sound, TablesOK, TombsOK
<1>9. CatalogOK(e, copies)
  BY <1>3, <1>7 DEF Sound, CatalogOK
<1> QED
  BY <1>1, <1>3, <1>7, <1>8, <1>9, Zenon DEF Sound

\* register, of the file that was just taken of the database.
LEMMA RegisteredIsSound ==
  ASSUME NEW d, NEW copies, Sound(d, copies), NEW b \in DOMAIN copies, copies[b] = d, NEW at \in Nat
  PROVE  /\ Sound(Registered(d, b, at), copies)
         /\ Registered(d, b, at).live = d.live
<1>1. PICK e : e = Registered(d, b, at)
  BY Zenon
<1>2. PICK row : row = [status |-> "active", at |-> at, records |-> LiveRecords(d),
                        memories |-> LiveMemories(d), covered |-> TRUE]
  BY Zenon
<1>3. /\ DOMAIN e = DOMAIN d /\ e.live = d.live /\ e.tombs = d.tombs /\ e.memory = d.memory
      /\ e.memMade = d.memMade /\ e.memTombs = d.memTombs /\ e.audit = d.audit /\ e.seen = d.seen
      /\ e.catalog = [d.catalog EXCEPT ![b] = row]
  BY <1>1, <1>2, Fields, Zenon DEF Sound, TablesOK, Registered
<1>4. row \in BackupManifest /\ row.records = LiveRecords(d) /\ row.memories = LiveMemories(d)
      /\ row.covered = TRUE
  BY <1>2, Zenon DEF BackupManifest, LiveRecords, LiveMemories
<1>5. e.catalog \in [BackupIds -> BackupManifest]
  <2>1. d.catalog \in [BackupIds -> BackupManifest]
    BY Zenon DEF Sound, TablesOK
  <2>2. \A c \in BackupIds : e.catalog[c] \in BackupManifest
    BY <1>3, <1>4, <2>1, Zenon
  <2> QED
    BY <1>3, <2>1, <2>2, Zenon
<1>6. /\ \A c \in BackupIds : c # b => e.catalog[c] = d.catalog[c]
      /\ b \in BackupIds => e.catalog[b] = row
  BY <1>3, <1>4, Zenon DEF Sound, TablesOK
<1>7. \A c \in ActiveBackups(e) : c = b \/ (c \in ActiveBackups(d) /\ e.catalog[c] = d.catalog[c])
  BY <1>6, Zenon DEF ActiveBackups
<1>8. TablesOK(e) /\ LedgerOK(e.audit) /\ TombsOK(e)
  BY <1>3, <1>5 DEF Sound, TablesOK, TombsOK
<1>9. CatalogOK(e, copies)
  <2>1. ASSUME NEW c \in ActiveBackups(e), c # b
        PROVE  /\ c \in DOMAIN copies
               /\ \A r \in Records : copies[c].live[r] > 0 => r \in e.catalog[c].records /\ e.live[r] > 0
               /\ \A x \in Memories : copies[c].memory[x] > 0 =>
                   /\ copies[c].memory[x] = e.memory[x]
                   /\ IF e.catalog[c].covered THEN x \in e.catalog[c].memories
                      ELSE e.catalog[c].at >= e.memMade[x]
    BY <1>3, <1>7, <2>1 DEF Sound, CatalogOK
  <2>2. ASSUME b \in ActiveBackups(e)
        PROVE  /\ \A r \in Records : copies[b].live[r] > 0 => r \in e.catalog[b].records /\ e.live[r] > 0
               /\ \A x \in Memories : copies[b].memory[x] > 0 =>
                   /\ copies[b].memory[x] = e.memory[x]
                   /\ IF e.catalog[b].covered THEN x \in e.catalog[b].memories
                      ELSE e.catalog[b].at >= e.memMade[x]
    <3>1. e.catalog[b] = row
      BY <1>6, <2>2, Zenon DEF ActiveBackups
    <3> QED
      BY <1>3, <1>4, <3>1, Zenon DEF LiveRecords, LiveMemories
  <2> QED
    BY <2>1, <2>2, Zenon DEF CatalogOK
<1> QED
  BY <1>1, <1>3, <1>8, <1>9, Zenon DEF Sound

\* A file more changes nothing for the backups there are.
LEMMA SoundWithMore ==
  ASSUME NEW d, NEW copies, Sound(d, copies), NEW S, copies \in Seq(S), NEW file \in S
  PROVE  Sound(d, Append(copies, file))
<1>1. /\ DOMAIN copies \subseteq DOMAIN Append(copies, file)
      /\ \A b \in DOMAIN copies : Append(copies, file)[b] = copies[b]
  OBVIOUS
<1>2. PICK more : more = Append(copies, file)
  BY Zenon
<1>3. CatalogOK(d, more)
  BY <1>1, <1>2 DEF Sound, CatalogOK
<1> QED
  BY <1>2, <1>3, Zenon DEF Sound

-----------------------------------------------------------------------------
(* The steps left of a lifecycle call.                                     *)

Steps ==
    ({"invalidate", "related", "delete"} \X Records)
        \cup ({"destroy"} \X BackupIds \X {"invalidated", "expired"})
        \cup ({"register"} \X Nat) \cup {<<"copy">>, <<"prune">>, <<"expire">>}

\* A record is deleted only behind the invalidation of the backups that hold
\* it: it comes before, or the destruction of their keys does, or none is left.
Covers(steps, i, d, copies, r) ==
    \/ \E j \in 1 .. (i - 1) : steps[j][1] = "invalidate" /\ steps[j][2] = r
    \/ \A b \in ActiveBackups(d) :
        copies[b].live[r] > 0 => \E j \in 1 .. (i - 1) : steps[j][1] = "destroy" /\ steps[j][2] = b

\* Nothing is deleted between the copy of the database and its registration.
StepsOK(steps, d, copies) ==
    /\ steps \in Seq(Steps)
    /\ \A i \in 1 .. Len(steps) :
        /\ steps[i][1] = "delete" => Covers(steps, i, d, copies, steps[i][2])
        /\ steps[i][1] \in {"copy", "register"} =>
            \A k \in 1 .. Len(steps) : k > i => steps[k][1] # "delete"
        /\ steps[i][1] = "register" =>
            i = 1 /\ steps[i][2] \in DOMAIN copies /\ d = copies[steps[i][2]]

\* What a step is about.
LEMMA StepTypes ==
  ASSUME NEW s \in Steps
  PROVE  /\ s[1] \in {"invalidate", "related", "delete"} => s[2] \in Records
         /\ s[1] = "destroy" => s[2] \in BackupIds /\ s[3] \in {"invalidated", "expired"}
BY DEF Steps

\* The first step of a call may be replaced by steps that cover their deletions
\* and leave nothing for it to do.
LEMMA StepsReplaced ==
  ASSUME NEW steps, NEW d, NEW copies, StepsOK(steps, d, copies), steps # <<>>,
         NEW e, ActiveBackups(e) \subseteq ActiveBackups(d), NEW new \in Seq(Steps),
         \A i \in 1 .. Len(new) :
             /\ new[i][1] \notin {"copy", "register"}
             /\ new[i][1] = "delete" => Covers(new, i, e, copies, new[i][2]),
         steps[1][1] = "invalidate" =>
             \A b \in ActiveBackups(e) : copies[b].live[steps[1][2]] > 0 =>
                 \E j \in 1 .. Len(new) : new[j][1] = "destroy" /\ new[j][2] = b,
         steps[1][1] = "destroy" => steps[1][2] \notin ActiveBackups(e)
  PROVE  StepsOK(new \o Tail(steps), e, copies)
<1>1. PICK all, n, l : all = new \o Tail(steps) /\ n = Len(new) /\ l = Len(steps)
  BY Zenon
<1>2. steps \in Seq(Steps) /\ n \in Nat
  BY <1>1 DEF StepsOK
<1>3. /\ l \in Nat \ {0} /\ Tail(steps) \in Seq(Steps) /\ Len(Tail(steps)) = l - 1
      /\ \A k \in 1 .. (l - 1) : Tail(steps)[k] = steps[k + 1]
  BY <1>1, <1>2, OneLess, Zenon
<1>4. Placed(n, l)
  BY <1>2, <1>3, Places, Zenon
<1>5. /\ all \in Seq(Steps) /\ Len(all) = n + (l - 1)
      /\ \A i \in 1 .. n : all[i] = new[i]
      /\ \A k \in 1 .. (l - 1) : all[n + k] = Tail(steps)[k]
  BY <1>1, <1>3, OneAfterTheOther
<1>6. ASSUME NEW k \in 2 .. l PROVE k \in 1 .. l /\ k # 1 /\ all[(n + k) - 1] = steps[k]
  <2>1. k \in 1 .. l /\ k # 1 /\ k - 1 \in 1 .. (l - 1) /\ (k - 1) + 1 = k /\ n + (k - 1) = (n + k) - 1
    BY <1>4, Zenon DEF Placed
  <2>2. all[n + (k - 1)] = Tail(steps)[k - 1] /\ Tail(steps)[k - 1] = steps[(k - 1) + 1]
    BY <1>3, <1>5, <2>1, Zenon
  <2> QED
    BY <2>1, <2>2, Zenon
<1>7. \A i \in 1 .. l : steps[i][1] = "delete" => Covers(steps, i, d, copies, steps[i][2])
  BY <1>1, Zenon DEF StepsOK
<1>8. ASSUME NEW k \in 2 .. l, steps[k][1] = "delete"
      PROVE  Covers(all, (n + k) - 1, e, copies, steps[k][2])
  <2>1. PICK r : r = steps[k][2]
    BY Zenon
  <2>2. PICK m : m = (n + k) - 1
    BY Zenon
  <2>3. Covers(steps, k, d, copies, r)
    BY <1>6, <1>7, <1>8, <2>1, Zenon
  <2>4. ASSUME NEW j \in 1 .. (k - 1), j # 1
        PROVE  \E h \in 1 .. (m - 1) : all[h] = steps[j]
    <3>1. j \in 2 .. l /\ (n + j) - 1 \in 1 .. (m - 1)
      BY <1>4, <2>2, <2>4, Zenon DEF Placed
    <3> QED
      BY <1>6, <3>1, Zenon
  <2>5. \A j \in 1 .. n : j \in 1 .. (m - 1)
    BY <1>4, <2>2, Zenon DEF Placed
  <2>6. ASSUME NEW j \in 1 .. (k - 1), steps[j][1] = "invalidate", steps[j][2] = r, j # 1
        PROVE  Covers(all, m, e, copies, r)
    <3>1. PICK h \in 1 .. (m - 1) : all[h] = steps[j]
      BY <2>4, <2>6, Zenon
    <3>2. all[h][1] = "invalidate" /\ all[h][2] = r
      BY <2>6, <3>1, Zenon
    <3> QED
      BY <3>2, Zenon DEF Covers
  <2>7. ASSUME steps[1][1] = "invalidate", steps[1][2] = r
        PROVE  Covers(all, m, e, copies, r)
    <3>1. ASSUME NEW b \in ActiveBackups(e), copies[b].live[r] > 0
          PROVE  \E j \in 1 .. (m - 1) : all[j][1] = "destroy" /\ all[j][2] = b
      <4>1. PICK j \in 1 .. n : new[j][1] = "destroy" /\ new[j][2] = b
        BY <1>1, <2>7, <3>1, Zenon
      <4> QED
        BY <1>5, <2>5, <4>1, Zenon
    <3> QED
      BY <3>1, Zenon DEF Covers
  <2>8. ASSUME \A b \in ActiveBackups(d) : copies[b].live[r] > 0 =>
                   \E j \in 1 .. (k - 1) : steps[j][1] = "destroy" /\ steps[j][2] = b
        PROVE  Covers(all, m, e, copies, r)
    <3>1. ASSUME NEW b \in ActiveBackups(e), copies[b].live[r] > 0
          PROVE  \E j \in 1 .. (m - 1) : all[j][1] = "destroy" /\ all[j][2] = b
      <4>1. PICK j \in 1 .. (k - 1) : steps[j][1] = "destroy" /\ steps[j][2] = b
        BY <2>8, <3>1, Zenon
      <4>2. j # 1
        BY <4>1, Zenon
      <4>3. PICK h \in 1 .. (m - 1) : all[h] = steps[j]
        BY <2>4, <4>2, Zenon
      <4>4. all[h][1] = "destroy" /\ all[h][2] = b
        BY <4>1, <4>3, Zenon
      <4> QED
        BY <4>4, Zenon
    <3> QED
      BY <3>1, Zenon DEF Covers
  <2> QED
    BY <2>1, <2>2, <2>3, <2>6, <2>7, <2>8, Zenon DEF Covers
<1>9. ASSUME NEW i \in 1 .. n, new[i][1] = "delete"
      PROVE  Covers(all, i, e, copies, new[i][2])
  <2>1. Covers(new, i, e, copies, new[i][2])
    BY <1>1, <1>9, Zenon
  <2>2. \A j \in 1 .. (i - 1) : j \in 1 .. n /\ all[j] = new[j]
    BY <1>4, <1>5, Zenon DEF Placed
  <2> QED
    BY <2>1, <2>2 DEF Covers
<1>10. ASSUME NEW k \in 2 .. l
       PROVE  /\ steps[k][1] # "register"
              /\ steps[k][1] = "copy" =>
                    \A i \in 1 .. Len(all) : i > (n + k) - 1 => all[i][1] # "delete"
  <2>1. k \in 1 .. Len(steps) /\ k # 1
    BY <1>1, <1>6, Zenon
  <2>2. steps[k][1] # "register"
    BY <2>1, Zenon DEF StepsOK
  <2>3. ASSUME steps[k][1] = "copy", NEW i \in 1 .. Len(all), i > (n + k) - 1
        PROVE  all[i][1] # "delete"
    <3>1. PICK h \in 2 .. l : i = (n + h) - 1 /\ h \in 1 .. l /\ h > k
      BY <1>4, <1>5, <2>3, Zenon DEF Placed
    <3>2. steps[h][1] # "delete"
      BY <1>1, <2>1, <2>3, <3>1, Zenon DEF StepsOK
    <3> QED
      BY <1>6, <3>1, <3>2, Zenon
  <2> QED
    BY <2>2, <2>3, Zenon
<1>11. ASSUME NEW i \in 1 .. Len(all)
       PROVE  /\ all[i][1] = "delete" => Covers(all, i, e, copies, all[i][2])
              /\ all[i][1] \in {"copy", "register"} =>
                  \A k \in 1 .. Len(all) : k > i => all[k][1] # "delete"
              /\ all[i][1] # "register"
  <2>1. CASE i \in 1 .. n
    <3>1. all[i] = new[i] /\ new[i][1] \notin {"copy", "register"}
      BY <1>1, <1>5, <2>1, Zenon
    <3> QED
      BY <1>9, <2>1, <3>1, Zenon
  <2>2. ASSUME NEW k \in 2 .. l, i = (n + k) - 1
        PROVE  /\ all[i][1] = "delete" => Covers(all, i, e, copies, all[i][2])
               /\ all[i][1] \in {"copy", "register"} =>
                   \A h \in 1 .. Len(all) : h > i => all[h][1] # "delete"
               /\ all[i][1] # "register"
    <3>1. all[i] = steps[k]
      BY <1>6, <2>2, Zenon
    <3>2. all[i][1] = "delete" => Covers(all, i, e, copies, all[i][2])
      BY <1>8, <2>2, <3>1
    <3>3. /\ all[i][1] # "register"
          /\ all[i][1] = "copy" => \A h \in 1 .. Len(all) : h > i => all[h][1] # "delete"
      BY <1>10, <2>2, <3>1
    <3> QED
      BY <3>2, <3>3, Zenon
  <2>3. i \in 1 .. n \/ \E k \in 2 .. l : i = (n + k) - 1
    BY <1>4, <1>5, ZenonT(30) DEF Placed
  <2> QED
    BY <2>1, <2>2, <2>3, Zenon
<1> QED
  BY <1>1, <1>5, <1>11, Zenon DEF StepsOK

\* invalidate_containing, expire: one destruction for each of the backups.
LEMMA DestructionSteps ==
  ASSUME Listable, NEW backups \in SUBSET BackupIds, NEW status \in {"invalidated", "expired"}
  PROVE  /\ Destruction(backups, status) \in Seq(Steps)
         /\ \A i \in 1 .. Len(Destruction(backups, status)) :
                Destruction(backups, status)[i][1] = "destroy"
         /\ \A b \in backups : \E i \in 1 .. Len(Destruction(backups, status)) :
                Destruction(backups, status)[i][1] = "destroy"
                    /\ Destruction(backups, status)[i][2] = b
<1>1. PICK order : order = AnyOrder(backups)
  BY Zenon
<1>2. PICK s : s = Destruction(backups, status)
  BY Zenon
<1>3. Selected(backups)
  BY Zenon DEF Selected
<1>4. PICK n : n = Cardinality(backups)
  BY Zenon
<1>5. /\ n \in Nat /\ order \in [1 .. n -> backups]
      /\ \A b \in backups : \E i \in 1 .. n : order[i] = b
  BY <1>1, <1>3, <1>4, Listed, Zenon
<1>6. s = [i \in 1 .. n |-> <<"destroy", order[i], status>>]
  BY <1>1, <1>2, <1>5, Zenon DEF Destruction
<1>7. \A i \in 1 .. n : s[i] \in Steps /\ s[i][1] = "destroy" /\ s[i][2] = order[i]
  BY <1>5, <1>6, Zenon DEF Steps
<1>8. s \in Seq(Steps) /\ Len(s) = n
  BY <1>5, <1>6, <1>7
<1> QED
  BY <1>2, <1>5, <1>7, <1>8, SMTT(30)

\* _purge: each record behind the invalidation of its backups.
LEMMA PurgeSteps ==
  ASSUME Listable, NEW rs \in SUBSET Records
  PROVE  /\ Purge(rs) \in Seq(Steps)
         /\ \A i \in 1 .. Len(Purge(rs)) :
             /\ Purge(rs)[i][1] \in {"invalidate", "delete"}
             /\ Purge(rs)[i][1] = "delete" => \E j \in 1 .. (i - 1) :
                    Purge(rs)[j][1] = "invalidate" /\ Purge(rs)[j][2] = Purge(rs)[i][2]
<1>1. PICK order : order = AnyOrder(rs)
  BY Zenon
<1>2. PICK n : n = Cardinality(rs)
  OBVIOUS
<1>3. n \in Nat /\ order \in [1 .. n -> rs]
  <2>1. Selected(rs)
    BY Zenon DEF Selected
  <2> QED
    BY <1>1, <1>2, <2>1, Listed, Zenon
<1>4. PICK s : s = Purge(rs)
  OBVIOUS
<1>5. s = [i \in 1 .. 2 * n |-> IF i % 2 = 1 THEN <<"invalidate", order[(i + 1) \div 2]>>
                                ELSE <<"delete", order[i \div 2]>>]
  BY <1>1, <1>2, <1>4, Zenon DEF Purge
<1>6. ASSUME NEW i \in 1 .. 2 * n, i % 2 = 1
      PROVE  s[i] \in Steps /\ s[i][1] = "invalidate" /\ s[i][2] = order[(i + 1) \div 2]
  <2>1. (i + 1) \div 2 \in 1 .. n
    BY <1>3, <1>6
  <2> QED
    BY <1>3, <1>5, <1>6, <2>1, Zenon DEF Steps
<1>7. ASSUME NEW i \in 1 .. 2 * n, i % 2 # 1
      PROVE  s[i] \in Steps /\ s[i][1] = "delete" /\ s[i][2] = order[i \div 2]
  <2>1. i \div 2 \in 1 .. n
    BY <1>3, <1>7
  <2> QED
    BY <1>3, <1>5, <1>7, <2>1, Zenon DEF Steps
<1>8. s \in Seq(Steps) /\ Len(s) = 2 * n
  <2>1. \A i \in 1 .. 2 * n : s[i] \in Steps
    BY <1>6, <1>7, Zenon
  <2>2. PICK k : k = 2 * n
    BY Zenon
  <2>3. k \in Nat
    BY <1>3, <2>2
  <2>4. s = [i \in 1 .. k |-> s[i]]
    BY <1>5, <2>2, Zenon
  <2> QED
    BY <2>1, <2>2, <2>3, <2>4
<1>9. ASSUME NEW i \in 1 .. 2 * n, s[i][1] = "delete"
      PROVE  \E j \in 1 .. (i - 1) : s[j][1] = "invalidate" /\ s[j][2] = s[i][2]
  <2>1. i % 2 # 1
    BY <1>6, <1>9, Zenon
  <2>2. /\ i - 1 \in 1 .. (i - 1) /\ i - 1 \in 1 .. 2 * n /\ (i - 1) % 2 = 1
        /\ ((i - 1) + 1) \div 2 = i \div 2
    BY <1>3, <2>1
  <2>3. s[i - 1][1] = "invalidate" /\ s[i - 1][2] = order[i \div 2]
    BY <1>6, <2>2, Zenon
  <2> QED
    BY <1>7, <2>1, <2>2, <2>3, Zenon
<1>10. \A i \in 1 .. 2 * n : s[i][1] \in {"invalidate", "delete"}
  BY <1>6, <1>7, Zenon
<1> QED
  BY <1>4, <1>8, <1>9, <1>10, Zenon

\* The first steps of a call.
LEMMA CallSteps ==
  ASSUME NEW d, NEW copies
  PROVE  /\ StepsOK(<<>>, d, copies)
         /\ \A r \in Records : StepsOK(Deletion(r), d, copies)
         /\ StepsOK(<< <<"copy">> >>, d, copies)
<1>1. StepsOK(<<>>, d, copies)
  BY DEF StepsOK
<1>2. StepsOK(<< <<"copy">> >>, d, copies)
  <2>1. PICK s : s = << <<"copy">> >>
    BY Zenon
  <2>2. s \in Seq(Steps) /\ Len(s) = 1 /\ s[1][1] = "copy"
    BY <2>1 DEF Steps
  <2> QED
    BY <2>1, <2>2 DEF StepsOK
<1>3. ASSUME NEW r \in Records PROVE StepsOK(Deletion(r), d, copies)
  <2>1. PICK s : s = Deletion(r)
    BY Zenon
  <2>2. /\ s \in Seq(Steps) /\ Len(s) = 4 /\ s[1][1] = "invalidate" /\ s[1][2] = r
        /\ s[2][1] = "related" /\ s[3][1] = "delete" /\ s[3][2] = r /\ s[4][1] = "copy"
    BY <2>1 DEF Steps, Deletion
  <2>3. Covers(s, 3, d, copies, s[3][2])
    BY <2>2 DEF Covers
  <2>4. ASSUME NEW i \in 1 .. 4
        PROVE  /\ s[i][1] = "delete" => i = 3
               /\ s[i][1] = "copy" => i = 4
               /\ s[i][1] # "register"
    BY <2>2
  <2> QED
    BY <2>1, <2>2, <2>3, <2>4 DEF StepsOK
<1> QED
  BY <1>1, <1>2, <1>3, Zenon

\* run_expiry: the purge, then the pruning, then the expiry of backups.
LEMMA ExpirySteps ==
  ASSUME Listable, NEW d, NEW copies, NEW rs \in SUBSET Records
  PROVE  StepsOK(Purge(rs) \o << <<"prune">>, <<"expire">> >>, d, copies)
<1>1. PICK p : p = Purge(rs)
  OBVIOUS
<1>2. PICK q : q = << <<"prune">>, <<"expire">> >>
  BY Zenon
<1>3. PICK s : s = p \o q
  BY Zenon
<1>4. q \in Seq(Steps) /\ Len(q) = 2 /\ q[1][1] = "prune" /\ q[2][1] = "expire"
  BY <1>2 DEF Steps
<1>5. /\ p \in Seq(Steps) /\ Len(p) \in Nat
      /\ \A i \in 1 .. Len(p) :
           /\ p[i][1] \in {"invalidate", "delete"}
           /\ p[i][1] = "delete" => \E j \in 1 .. (i - 1) : p[j][1] = "invalidate" /\ p[j][2] = p[i][2]
  BY <1>1, PurgeSteps
<1>6. /\ s \in Seq(Steps) /\ Len(s) = Len(p) + 2
      /\ \A i \in 1 .. Len(p) : s[i] = p[i]
      /\ s[Len(p) + 1] = q[1] /\ s[Len(p) + 2] = q[2]
  <2>1. /\ s \in Seq(Steps) /\ Len(s) = Len(p) + Len(q)
        /\ \A i \in 1 .. Len(p) : s[i] = p[i]
        /\ \A k \in 1 .. Len(q) : s[Len(p) + k] = q[k]
    <3>1. p \in Seq(Steps) /\ q \in Seq(Steps)
      BY <1>4, <1>5, Zenon
    <3> QED
      BY <1>3, <3>1, OneAfterTheOther
  <2>2. 1 \in 1 .. Len(q) /\ 2 \in 1 .. Len(q)
    BY <1>4
  <2>3. s[Len(p) + 1] = q[1]
    BY <2>1, <2>2, Zenon
  <2>4. s[Len(p) + 2] = q[2]
    BY <2>1, <2>2, Zenon
  <2>5. Len(s) = Len(p) + 2
    BY <1>4, <2>1, Zenon
  <2> QED
    BY <2>1, <2>3, <2>4, <2>5, Zenon
<1>7. \A i \in 1 .. Len(s) : i \in 1 .. Len(p) \/ i = Len(p) + 1 \/ i = Len(p) + 2
  BY <1>5, <1>6
<1>8. \A i \in 1 .. Len(s) : s[i][1] \notin {"copy", "register"}
  BY <1>4, <1>5, <1>6, <1>7
<1>9. ASSUME NEW i \in 1 .. Len(s), s[i][1] = "delete"
      PROVE  Covers(s, i, d, copies, s[i][2])
  <2>1. i \in 1 .. Len(p) /\ s[i] = p[i]
    BY <1>4, <1>6, <1>7, <1>9, Zenon
  <2>2. PICK j \in 1 .. (i - 1) : p[j][1] = "invalidate" /\ p[j][2] = p[i][2]
    BY <1>5, <1>9, <2>1, Zenon
  <2>3. j \in 1 .. Len(p)
    BY <1>5, <2>1
  <2> QED
    BY <1>6, <2>1, <2>2, <2>3, Zenon DEF Covers
<1> QED
  BY <1>1, <1>2, <1>3, <1>6, <1>8, <1>9, Zenon DEF StepsOK

-----------------------------------------------------------------------------
(* The inductive invariant.                                                *)

\* What was ever deleted durably is live nowhere that a restart leads to, and
\* every tombstone on disk or in a file counts as such.
PurgedInv ==
    /\ \A r \in purged : r \in Records /\ db.live[r] = 0 /\ disk.live[r] = 0
    /\ disk.tombs \subseteq purged
    /\ \A b \in DOMAIN files : files[b].tombs \subseteq purged

DurableInv ==
    /\ inTransaction \in BOOLEAN
    /\ db # disk => inTransaction

StoreInv ==
    /\ scenario \in Scenarios /\ clock \in Nat
    /\ files \in Seq(Range(files))
    /\ Sound(db, files) /\ Sound(disk, files) /\ \A b \in DOMAIN files : Sound(files[b], files)
    /\ StepsOK(job, db, files)
    /\ PurgedInv /\ DurableInv

\* The store is sound at first.
LEMMA InitSound == Init => StoreInv
<1>1. SUFFICES ASSUME Init PROVE StoreInv
  BY Zenon
<1>2. /\ scenario \in Scenarios /\ clock = 0 /\ db = scenario.start /\ disk = scenario.start
      /\ inTransaction = FALSE /\ files = scenario.copies /\ job = <<>>
      /\ purged = scenario.start.tombs
  BY <1>1, Zenon DEF Init
<1>3. /\ files \in Seq(Range(files))
      /\ \A d \in {db} \cup Range(files) : Sound(d, files) /\ d.tombs \subseteq purged
  BY <1>2, ScenariosAssumption, Zenon
<1>4. Sound(db, files) /\ Sound(disk, files) /\ \A b \in DOMAIN files : Sound(files[b], files)
  BY <1>2, <1>3, Zenon DEF Range
<1>5. PurgedInv
  <2>1. \A r \in purged : r \in Records /\ db.live[r] = 0
    BY <1>2, <1>4, Zenon DEF Sound, TablesOK, TombsOK
  <2>2. \A b \in DOMAIN files : files[b].tombs \subseteq purged
    BY <1>3, Zenon DEF Range
  <2> QED
    BY <1>2, <2>1, <2>2, Zenon DEF PurgedInv
<1>6. StepsOK(job, db, files)
  BY <1>2, CallSteps, Zenon
<1> QED
  BY <1>2, <1>3, <1>4, <1>5, <1>6, Zenon DEF StoreInv, DurableInv

\* However an operation ends, it leaves what it wrote or what was there.
LEMMA WriteKeeps ==
  ASSUME StoreInv, NEW new, Sound(new, files), \A r \in purged : new.live[r] = 0,
         \/ Transact(new)
         \/ Commit(new)
         \/ Refuse(new),
         scenario' = scenario, clock' = clock, files' = files, StepsOK(job', new, files)
  PROVE  StoreInv'
<1>1. /\ scenario \in Scenarios /\ clock \in Nat /\ files \in Seq(Range(files))
      /\ Sound(db, files) /\ Sound(disk, files) /\ \A b \in DOMAIN files : Sound(files[b], files)
  BY Zenon DEF StoreInv
<1>2. /\ \A r \in purged : r \in Records /\ db.live[r] = 0 /\ disk.live[r] = 0
      /\ disk.tombs \subseteq purged
      /\ \A b \in DOMAIN files : files[b].tombs \subseteq purged
  BY Zenon DEF StoreInv, PurgedInv
<1>3. db' = new
  BY Zenon DEF Transact, Commit, Refuse
<1>4. \/ disk' = disk /\ purged' = purged
      \/ disk' = new /\ purged' = purged \cup new.tombs
  BY <1>2, Zenon DEF Transact, Commit, Refuse
<1>5. Sound(db, files)' /\ Sound(disk, files)' /\ (\A b \in DOMAIN files : Sound(files[b], files))'
  BY <1>1, <1>3, <1>4, Zenon
<1>6. PurgedInv'
  <2>1. CASE disk' = disk /\ purged' = purged
    BY <1>2, <1>3, <2>1, Zenon DEF PurgedInv
  <2>2. CASE disk' = new /\ purged' = purged \cup new.tombs
    <3>1. \A r \in new.tombs : r \in Records /\ new.live[r] = 0
      BY Zenon DEF Sound, TablesOK, TombsOK
    <3> QED
      BY <1>2, <1>3, <2>2, <3>1, Zenon DEF PurgedInv
  <2> QED
    BY <1>4, <2>1, <2>2, Zenon
<1>7. DurableInv'
  <2>1. DurableInv
    BY DEF StoreInv
  <2>2. CASE Transact(new)
    BY <2>1, <2>2, Zenon DEF DurableInv, Transact
  <2>3. CASE Commit(new)
    BY <2>3, Zenon DEF DurableInv, Commit
  <2>4. CASE Refuse(new)
    BY <2>4, Zenon DEF DurableInv, Refuse
  <2> QED
    BY <2>2, <2>3, <2>4, Zenon
<1> QED
  BY <1>1, <1>3, <1>5, <1>6, <1>7, Zenon DEF StoreInv

\* A call on a repository: no lifecycle call is running.
LEMMA CallKeeps ==
  ASSUME StoreInv, Idle, scenario' = scenario, clock' = clock, files' = files, job' = job,
         NEW new, Sound(new, files), \A r \in purged : new.live[r] = 0,
         \/ Transact(new)
         \/ Commit(new)
         \/ Refuse(new)
  PROVE  StoreInv'
<1>1. StepsOK(job', new, files)
  BY CallSteps, Zenon DEF Idle
<1> QED
  BY <1>1, WriteKeeps, Zenon

\* A call that leaves the records alone.
LEMMA QuietCallKeeps ==
  ASSUME StoreInv, Idle, scenario' = scenario, clock' = clock, files' = files, job' = job,
         NEW new, Sound(new, files), new.live = db.live,
         \/ Transact(new)
         \/ Commit(new)
         \/ Refuse(new)
  PROVE  StoreInv'
<1>1. \A r \in purged : new.live[r] = 0
  BY Zenon DEF StoreInv, PurgedInv
<1> QED
  BY <1>1, CallKeeps, Zenon

\* The calls on records keep the invariant.
LEMMA RecordCallKeeps == StoreInv /\ RecordCall => StoreInv'
<1>1. SUFFICES ASSUME StoreInv, NEW r \in Records, Create(r) \/ Transition(r) \/ DeleteRecord(r)
               PROVE  StoreInv'
  BY Zenon DEF RecordCall
<1>2. Sound(db, files) /\ \A q \in purged : q \in Records /\ db.live[q] = 0
  BY <1>1, Zenon DEF StoreInv, PurgedInv
<1>3. ASSUME Create(r) PROVE StoreInv'
  <2>1. PICK at : Transact(Created(db, r, at))
    BY <1>3, Zenon DEF Create
  <2>2. Call /\ r \notin purged /\ CanCreate(db, r)
    BY <1>3, Zenon DEF Create
  <2>3. PICK new : new = Created(db, r, at)
    BY Zenon
  <2>4. Sound(new, files) /\ \A q \in Records : q # r => new.live[q] = db.live[q]
    BY <1>2, <2>2, <2>3, CreatedIsSound
  <2>5. \A q \in purged : new.live[q] = 0
    BY <1>2, <2>2, <2>4, Zenon
  <2> QED
    BY <1>1, <2>1, <2>2, <2>3, <2>4, <2>5, CallKeeps, Zenon DEF Call
<1>4. ASSUME Transition(r) PROVE StoreInv'
  <2>1. PICK at : Transact(Transitioned(db, r, at))
    BY <1>4, Zenon DEF Transition
  <2>2. Call /\ db.live[r] > 0 /\ r \notin purged
    BY <1>2, <1>4 DEF Transition
  <2>3. PICK new : new = Transitioned(db, r, at)
    OBVIOUS
  <2>4. Sound(new, files) /\ \A q \in Records : q # r => new.live[q] = db.live[q]
    BY <1>2, <2>2, <2>3, TransitionedIsSound
  <2>5. \A q \in purged : new.live[q] = 0
    BY <1>2, <2>2, <2>4, Zenon
  <2> QED
    BY <1>1, <2>1, <2>2, <2>3, <2>4, <2>5, CallKeeps, Zenon DEF Call
<1>5. ASSUME DeleteRecord(r) PROVE StoreInv'
  <2>1. StepsOK(job', db, files)
    BY <1>5, CallSteps, Zenon DEF DeleteRecord, Start
  <2> QED
    BY <1>1, <1>5, <2>1, Zenon DEF DeleteRecord, Start, StoreInv, PurgedInv, DurableInv
<1> QED
  BY <1>1, <1>3, <1>4, <1>5, Zenon

\* The calls on memories keep the invariant.
LEMMA MemoryCallKeeps == Listable /\ StoreInv /\ MemoryCall => StoreInv'
<1>1. SUFFICES ASSUME Listable, StoreInv, MemoryCall PROVE StoreInv'
  BY Zenon
<1>2. Sound(db, files) /\ clock \in Nat
  BY <1>1, Zenon DEF StoreInv
<1>3. ASSUME NEW x \in Memories, Remember(x) PROVE StoreInv'
  <2>1. Call /\ CanRemember(db, x) /\ Transact(Remembered(db, x, clock))
    BY <1>3, Zenon DEF Remember
  <2>2. Sound(Remembered(db, x, clock), files) /\ Remembered(db, x, clock).live = db.live
    BY <1>2, <2>1, RememberedIsSound, Zenon
  <2> QED
    BY <1>1, <2>1, <2>2, QuietCallKeeps, Zenon DEF Call
<1>4. ASSUME NEW x \in Memories, Correct(x) PROVE StoreInv'
  <2>1. Call /\ db.memory[x] > 0 /\ Transact(Corrected(db, x, clock))
    BY <1>4 DEF Correct
  <2>2. Sound(Corrected(db, x, clock), files) /\ Corrected(db, x, clock).live = db.live
    BY <1>2, <2>1, CorrectedIsSound, Zenon
  <2> QED
    BY <1>1, <2>1, <2>2, QuietCallKeeps, Zenon DEF Call
<1>5. ASSUME NEW x \in Memories, Forget(x) PROVE StoreInv'
  <2>1. Call /\ db.memory[x] > 0 /\ Transact(Forgotten(db, x, clock))
    BY <1>5, Zenon DEF Forget
  <2>2. Sound(Forgotten(db, x, clock), files) /\ Forgotten(db, x, clock).live = db.live
    BY <1>2, <2>1, ForgottenIsSound
  <2> QED
    BY <1>1, <2>1, <2>2, QuietCallKeeps, Zenon DEF Call
<1>6. ASSUME PurgeMemories PROVE StoreInv'
  <2>1. Call /\ Commit(MemoriesPurged(db, clock))
    BY <1>6, Zenon DEF PurgeMemories
  <2>2. Sound(MemoriesPurged(db, clock), files) /\ MemoriesPurged(db, clock).live = db.live
    BY <1>1, <1>2, MemoriesPurgedIsSound, Zenon
  <2> QED
    BY <1>1, <2>1, <2>2, QuietCallKeeps, Zenon DEF Call
<1> QED
  BY <1>1, <1>3, <1>4, <1>5, <1>6, Zenon DEF MemoryCall

\* The calls on observations, proposals and lessons keep the invariant.
LEMMA LearningCallKeeps == Listable /\ StoreInv /\ LearningCall => StoreInv'
<1>1. SUFFICES ASSUME Listable, StoreInv, LearningCall PROVE StoreInv'
  OBVIOUS
<1>2. Sound(db, files) /\ scenario \in Scenarios
  BY <1>1, Zenon DEF StoreInv
<1>3. ASSUME NEW o \in Observations, RecordObservation(o) PROVE StoreInv'
  <2>1. Call /\ (Commit(ObservationRecorded(db, o, clock)) \/ Refuse(db))
    BY <1>3, Zenon DEF RecordObservation
  <2>3. Sound(ObservationRecorded(db, o, clock), files) /\ ObservationRecorded(db, o, clock).live = db.live
    BY <1>2, ObservationRecordedIsSound, Zenon
  <2>4. CASE Commit(ObservationRecorded(db, o, clock))
    BY <1>1, <2>1, <2>3, <2>4, QuietCallKeeps, Zenon DEF Call
  <2>5. CASE Refuse(db)
    BY <1>1, <1>2, <2>1, <2>5, QuietCallKeeps, Zenon DEF Call
  <2> QED
    BY <2>1, <2>4, <2>5, Zenon
<1>4. ASSUME NEW g, Approve(g) PROVE StoreInv'
  <2>1. PICK new : new = ProposalReplaced(db, g, "approved", db.proposals[g].content, clock)
    BY Zenon
  <2>2. Call /\ Commit(new)
    BY <1>4, <2>1, Zenon DEF Approve
  <2>3. Sound(new, files) /\ new.live = db.live
    BY <1>2, <2>1, ProposalReplacedIsSound
  <2> QED
    BY <1>1, <2>2, <2>3, QuietCallKeeps, Zenon DEF Call
<1>5. ASSUME NEW g, CorrectProposal(g) PROVE StoreInv'
  <2>1. PICK c \in Corrections : Commit(ProposalReplaced(db, g, "corrected", c, clock))
    BY <1>5, Zenon DEF CorrectProposal
  <2>2. PICK new : new = ProposalReplaced(db, g, "corrected", c, clock)
    BY Zenon
  <2>3. Call /\ Commit(new)
    BY <1>5, <2>1, <2>2, Zenon DEF CorrectProposal
  <2>4. Sound(new, files) /\ new.live = db.live
    BY <1>2, <2>2, ProposalReplacedIsSound
  <2> QED
    BY <1>1, <2>3, <2>4, QuietCallKeeps, Zenon DEF Call
<1>6. ASSUME NEW g, DeleteProposal(g) PROVE StoreInv'
  <2>1. /\ Call
        /\ Refuse(ProposalErased(db, g)) \/ Commit(LessonBuried(db, g, clock))
    BY <1>6, Zenon DEF DeleteProposal
  <2>2. /\ Sound(ProposalErased(db, g), files) /\ ProposalErased(db, g).live = db.live
        /\ Sound(LessonBuried(db, g, clock), files) /\ LessonBuried(db, g, clock).live = db.live
    BY <1>2, ProposalErasedIsSound, LessonBuriedIsSound
  <2>3. CASE Refuse(ProposalErased(db, g))
    BY <1>1, <2>1, <2>2, <2>3, QuietCallKeeps, Zenon DEF Call
  <2>4. CASE Commit(LessonBuried(db, g, clock))
    BY <1>1, <2>1, <2>2, <2>4, QuietCallKeeps, Zenon DEF Call
  <2> QED
    BY <2>1, <2>3, <2>4, Zenon
<1>7. ASSUME Learn PROVE StoreInv'
  <2>1. Call /\ Commit(Learned(db, clock))
    BY <1>7, Zenon DEF Learn
  <2>2. Sound(Learned(db, clock), files) /\ Learned(db, clock).live = db.live
    BY <1>2, LearnedIsSound, Zenon
  <2> QED
    BY <1>1, <2>1, <2>2, QuietCallKeeps DEF Call
<1>8. ASSUME PurgeObservations PROVE StoreInv'
  <2>1. Call /\ Commit(ObservationsPurged(db, clock))
    BY <1>8, Zenon DEF PurgeObservations
  <2>2. Sound(ObservationsPurged(db, clock), files) /\ ObservationsPurged(db, clock).live = db.live
    BY <1>1, <1>2, ObservationsPurgedIsSound, Zenon
  <2> QED
    BY <1>1, <2>1, <2>2, QuietCallKeeps DEF Call
<1> QED
  BY <1>1, <1>3, <1>4, <1>5, <1>6, <1>7, <1>8, Zenon DEF LearningCall

\* The other calls keep the invariant.
LEMMA OtherCallKeeps == Listable /\ StoreInv /\ OtherCall => StoreInv'
<1>1. SUFFICES ASSUME Listable, StoreInv, OtherCall PROVE StoreInv'
  OBVIOUS
<1>2. Sound(db, files) /\ Sound(disk, files)
  BY <1>1, Zenon DEF StoreInv
<1>3. ASSUME NEW g \in Goals, AddGoal(g) PROVE StoreInv'
  <2>1. /\ Call
        /\ Commit(GoalAdded(db, g, clock)) \/ Refuse(db)
    BY <1>3, Zenon DEF AddGoal
  <2>2. Sound(GoalAdded(db, g, clock), files) /\ GoalAdded(db, g, clock).live = db.live
    BY <1>2, GoalAddedIsSound, Zenon
  <2>3. CASE Commit(GoalAdded(db, g, clock))
    BY <1>1, <2>1, <2>2, <2>3, QuietCallKeeps, Zenon DEF Call
  <2>4. CASE Refuse(db)
    BY <1>1, <1>2, <2>1, <2>4, QuietCallKeeps, Zenon DEF Call
  <2> QED
    BY <2>1, <2>3, <2>4, Zenon
<1>4. ASSUME NEW v \in Devices, Enroll(v) PROVE StoreInv'
  <2>1. /\ Idle /\ scenario' = scenario /\ clock' = clock /\ files' = files /\ job' = job
        /\ Rollback \/ Commit([db EXCEPT !.devices = @ \cup {v}])
    BY <1>4, Zenon DEF Enroll
  <2>2. CASE Rollback
    <3>1. StepsOK(job', disk, files)
      BY <2>1, CallSteps, Zenon DEF Idle
    <3> QED
      BY <1>1, <2>1, <2>2, <3>1, Zenon DEF Rollback, StoreInv, PurgedInv, DurableInv
  <2>3. CASE Commit([db EXCEPT !.devices = @ \cup {v}])
    <3>1. PICK new : new = [db EXCEPT !.devices = @ \cup {v}]
      BY Zenon
    <3>2. Sound(new, files) /\ new.live = db.live
      BY <1>2, <3>1, DeviceAddedIsSound, Zenon
    <3> QED
      BY <1>1, <2>1, <2>3, <3>1, <3>2, QuietCallKeeps, Zenon
  <2> QED
    BY <2>1, <2>2, <2>3, Zenon
<1>5. ASSUME NEW m \in Manifests, Migrate(m) PROVE StoreInv'
  <2>1. Call /\ (Commit(Migrated(db, m, clock)) \/ Commit(db))
    BY <1>5, Zenon DEF Migrate, Undone
  <2>2. Sound(Migrated(db, m, clock), files) /\ Migrated(db, m, clock).live = db.live
    BY <1>1, <1>2, MigratedIsSound, Zenon
  <2>3. CASE Commit(Migrated(db, m, clock))
    BY <1>1, <2>1, <2>2, <2>3, QuietCallKeeps, Zenon DEF Call
  <2>4. CASE Commit(db)
    BY <1>1, <1>2, <2>1, <2>4, QuietCallKeeps, Zenon DEF Call
  <2> QED
    BY <2>1, <2>3, <2>4, Zenon
<1>6. ASSUME Export PROVE StoreInv'
  <2>1. PICK r : Commit(Audited(db, clock, "redacted", r, 0))
    BY <1>6, Zenon DEF Export
  <2>2. PICK new : new = Audited(db, clock, "redacted", r, 0)
    BY Zenon
  <2>3. Call /\ Commit(new)
    BY <1>6, <2>1, <2>2, Zenon DEF Export
  <2>4. Sound(new, files) /\ new.live = db.live
    <3>1. /\ Sound(Audited(db, clock, "redacted", r, 0), files)
          /\ Alike(db, Audited(db, clock, "redacted", r, 0))
      BY <1>2, AuditedIsSound, Zenon
    <3> QED
      BY <2>2, <3>1, Zenon DEF Alike
  <2> QED
    BY <1>1, <2>3, <2>4, QuietCallKeeps, Zenon DEF Call
<1> QED
  BY <1>1, <1>3, <1>4, <1>5, <1>6, Zenon DEF OtherCall

-----------------------------------------------------------------------------
(* Lifecycle calls.                                                        *)

\* A step that only plans others.
LEMMA PlanKeeps ==
  ASSUME StoreInv, UNCHANGED <<scenario, clock, db, disk, inTransaction, files, purged>>,
         StepsOK(job', db, files)
  PROVE  StoreInv'
BY Zenon DEF StoreInv, PurgedInv, DurableInv

\* Starting a lifecycle call only plans its steps.
LEMMA StartKeeps == Listable /\ StoreInv /\ (RunExpiry \/ Backup) => StoreInv'
<1>1. SUFFICES ASSUME Listable, StoreInv, RunExpiry \/ Backup PROVE StoreInv'
  BY Zenon
<1>2. DueRecords(db) \in SUBSET Records
  BY Zenon DEF DueRecords, LiveRecords
<1>3. StepsOK(Expiry, db, files) /\ StepsOK(<< <<"copy">> >>, db, files)
  BY <1>1, <1>2, CallSteps, ExpirySteps, Zenon DEF Expiry
<1>4. StepsOK(job', db, files)
  BY <1>1, <1>3, Zenon DEF RunExpiry, Backup, Start
<1> QED
  BY <1>1, <1>4, PlanKeeps, Zenon DEF RunExpiry, Backup, Start

\* The step in hand.
LEMMA InHand ==
  ASSUME StoreInv, NEW step, Doing(step)
  PROVE  /\ job # <<>> /\ Head(job) = job[1] /\ job[1] \in Steps /\ job[1][1] = step
         /\ job \in Seq(Steps) /\ 1 \in 1 .. Len(job)
<1>1. job \in Seq(Steps) /\ job # <<>> /\ Head(job)[1] = step
  BY Zenon DEF StoreInv, StepsOK, Doing, Idle
<1> QED
  BY <1>1

\* invalidate_containing puts the destructions before the deletion.
LEMMA InvalidateKeeps == Listable /\ StoreInv /\ InvalidateContaining => StoreInv'
<1>1. SUFFICES ASSUME Listable, StoreInv, InvalidateContaining PROVE StoreInv'
  OBVIOUS
<1>2. job # <<>> /\ Head(job) = job[1] /\ job[1] \in Steps /\ job[1][1] = "invalidate"
  BY <1>1, InHand, Zenon DEF InvalidateContaining
<1>3. PICK r : r = job[1][2]
  BY Zenon
<1>4. r \in Records
  BY <1>2, <1>3, StepTypes, Zenon
<1>5. PICK new : new = Invalidation(db, r)
  BY Zenon
<1>6. PICK backups : backups = ToInvalidate(db, r)
  BY Zenon
<1>7. backups \in SUBSET BackupIds
  BY <1>6, Zenon DEF ToInvalidate, ActiveBackups
<1>8. /\ new \in Seq(Steps)
      /\ \A i \in 1 .. Len(new) : new[i][1] = "destroy"
      /\ \A b \in backups : \E i \in 1 .. Len(new) : new[i][1] = "destroy" /\ new[i][2] = b
  BY <1>1, <1>5, <1>6, <1>7, DestructionSteps DEF Invalidation
<1>9. ASSUME NEW b \in ActiveBackups(db), files[b].live[r] > 0
      PROVE  \E j \in 1 .. Len(new) : new[j][1] = "destroy" /\ new[j][2] = b
  <2>1. r \in db.catalog[b].records
    BY <1>1, <1>4, <1>9, Zenon DEF StoreInv, Sound, CatalogOK
  <2>2. b \in backups
    BY <1>6, <2>1, Zenon DEF ToInvalidate
  <2> QED
    BY <1>8, <2>2, Zenon
<1>10. StepsOK(job, db, files)
  BY <1>1, Zenon DEF StoreInv
<1>11. StepsOK(new \o Tail(job), db, files)
  BY <1>2, <1>3, <1>8, <1>9, <1>10, StepsReplaced, Zenon
<1>12. job' = new \o Tail(job)
  BY <1>1, <1>2, <1>3, <1>5, Zenon DEF InvalidateContaining, Then
<1> QED
  BY <1>1, <1>11, <1>12, PlanKeeps, Zenon DEF InvalidateContaining, Then

\* expire plans one destruction for each expired backup.
LEMMA ExpireKeeps == Listable /\ StoreInv /\ ExpireBackups => StoreInv'
<1>1. SUFFICES ASSUME Listable, StoreInv, ExpireBackups PROVE StoreInv'
  OBVIOUS
<1>2. job # <<>> /\ job[1][1] = "expire"
  BY <1>1, InHand, Zenon DEF ExpireBackups
<1>3. PICK backups : backups = ToExpire(db, clock, BackupRetention)
  BY Zenon
<1>4. backups \in SUBSET BackupIds
  BY <1>3, Zenon DEF ToExpire, ActiveBackups
<1>5. PICK new : new = Destruction(backups, "expired")
  BY Zenon
<1>6. new \in Seq(Steps) /\ \A i \in 1 .. Len(new) : new[i][1] = "destroy"
  BY <1>1, <1>4, <1>5, DestructionSteps, Zenon
<1>7. StepsOK(job, db, files)
  BY <1>1 DEF StoreInv
<1>8. StepsOK(new \o Tail(job), db, files)
  BY <1>2, <1>6, <1>7, StepsReplaced, Zenon
<1>9. job' = new \o Tail(job)
  BY <1>1, <1>3, <1>5, Zenon DEF ExpireBackups, Then
<1> QED
  BY <1>1, <1>8, <1>9, PlanKeeps, Zenon DEF ExpireBackups, Then

\* The lookup of related records plans their purge.
LEMMA RelatedKeeps == Listable /\ StoreInv /\ FindRelated => StoreInv'
<1>1. SUFFICES ASSUME Listable, StoreInv, FindRelated PROVE StoreInv'
  OBVIOUS
<1>2. job # <<>> /\ Head(job) = job[1] /\ job[1][1] = "related"
  BY <1>1, InHand, Zenon DEF FindRelated
<1>3. PICK rs : rs = {q \in LiveRecords(db) : Source[q] = Head(job)[2] /\ q # Head(job)[2]}
  BY Zenon
<1>4. rs \in SUBSET Records
  BY <1>3, Zenon DEF LiveRecords
<1>5. PICK new : new = Purge(rs)
  BY Zenon
<1>6. /\ new \in Seq(Steps)
      /\ \A i \in 1 .. Len(new) :
           /\ new[i][1] \in {"invalidate", "delete"}
           /\ new[i][1] = "delete" => \E j \in 1 .. (i - 1) :
                  new[j][1] = "invalidate" /\ new[j][2] = new[i][2]
  BY <1>1, <1>4, <1>5, PurgeSteps
<1>7. \A i \in 1 .. Len(new) :
         /\ new[i][1] \notin {"copy", "register"}
         /\ new[i][1] = "delete" => Covers(new, i, db, files, new[i][2])
  BY <1>6, Zenon DEF Covers
<1>8. StepsOK(job, db, files)
  BY <1>1 DEF StoreInv
<1>9. StepsOK(new \o Tail(job), db, files)
  BY <1>2, <1>6, <1>7, <1>8, StepsReplaced, Zenon
<1>10. job' = new \o Tail(job)
  BY <1>1, <1>3, <1>5, Zenon DEF FindRelated, Then
<1> QED
  BY <1>1, <1>9, <1>10, PlanKeeps, Zenon DEF FindRelated, Then

\* The step in hand is done and plans no other.
LEMMA StepDone ==
  ASSUME StoreInv, NEW step, Doing(step), step # "invalidate", job' = <<>> \o Tail(job),
         NEW e, ActiveBackups(e) \subseteq ActiveBackups(db),
         step = "destroy" => job[1][2] \notin ActiveBackups(e)
  PROVE  StepsOK(job', e, files)
<1>1. job # <<>> /\ job[1][1] = step
  BY InHand, Zenon
<1>2. PICK new : new = <<>>
  BY Zenon
<1>3. new \in Seq(Steps) /\ Len(new) = 0
  BY <1>2
<1>4. \A i \in 1 .. Len(new) : FALSE
  BY <1>3
<1>5. StepsOK(job, db, files)
  BY Zenon DEF StoreInv
<1>6. StepsOK(new \o Tail(job), e, files)
  BY <1>1, <1>3, <1>4, <1>5, StepsReplaced, Zenon
<1> QED
  BY <1>2, <1>6, Zenon

\* A destroyed key leaves fewer backups that can be read.
LEMMA DestroyKeeps == StoreInv /\ DestroyKey => StoreInv'
<1>1. SUFFICES ASSUME StoreInv, DestroyKey PROVE StoreInv'
  BY Zenon
<1>2. Doing("destroy") /\ job' = <<>> \o Tail(job)
  BY <1>1, Zenon DEF DestroyKey, Then
<1>3. Head(job) = job[1] /\ job[1] \in Steps /\ job[1][1] = "destroy"
  BY <1>1, <1>2, InHand, Zenon
<1>4. job[1][3] \in {"invalidated", "expired"}
  BY <1>3, StepTypes, Zenon
<1>5. PICK e : e = KeyDestroyed(db, job[1][2], job[1][3])
  BY Zenon
<1>6. /\ Sound(e, files) /\ e.live = db.live
      /\ ActiveBackups(e) \subseteq ActiveBackups(db) \ {job[1][2]}
  <2>1. Sound(db, files)
    BY <1>1, Zenon DEF StoreInv
  <2> QED
    BY <1>4, <1>5, <2>1, KeyDestroyedIsSound, ZenonT(30)
<1>7. StepsOK(job', e, files)
  BY <1>1, <1>2, <1>6, StepDone, Zenon
<1>8. \A r \in purged : e.live[r] = 0
  BY <1>1, <1>6, Zenon DEF StoreInv, PurgedInv
<1>9. Commit(e)
  BY <1>1, <1>3, <1>5, Zenon DEF DestroyKey
<1> QED
  BY <1>1, <1>6, <1>7, <1>8, <1>9, WriteKeeps, Zenon DEF DestroyKey, Then

\* A deletion finds no readable backup that holds the record.
LEMMA DeleteKeeps == StoreInv /\ DeleteStep => StoreInv'
<1>1. SUFFICES ASSUME StoreInv, DeleteStep PROVE StoreInv'
  OBVIOUS
<1>2. Doing("delete")
  BY <1>1, Zenon DEF DeleteStep
<1>3. /\ Head(job) = job[1] /\ job[1] \in Steps /\ job[1][1] = "delete"
      /\ job \in Seq(Steps) /\ 1 \in 1 .. Len(job)
  BY <1>1, <1>2, InHand, Zenon
<1>4. PICK r : r = job[1][2]
  OBVIOUS
<1>5. r \in Records
  BY <1>3, <1>4, StepTypes, Zenon
<1>6. Sound(db, files) /\ StepsOK(job, db, files)
  BY <1>1, Zenon DEF StoreInv
<1>7. \A b \in ActiveBackups(db) : ~(files[b].live[r] > 0)
  <2>1. Covers(job, 1, db, files, r)
    BY <1>3, <1>4, <1>6, Zenon DEF StepsOK
  <2>2. \A j \in 1 .. (1 - 1) : FALSE
    OBVIOUS
  <2> QED
    BY <2>1, <2>2, Zenon DEF Covers
<1>8. CASE db.live[r] > 0
  <2>1. PICK e : e = Deleted(db, r, clock)
    BY Zenon
  <2>2. Transact(e) /\ job' = <<>> \o Tail(job) /\ UNCHANGED <<scenario, clock, files>>
    BY <1>1, <1>3, <1>4, <1>8, <2>1, Zenon DEF DeleteStep, Then
  <2>3. /\ Sound(e, files) /\ e.live[r] = 0 /\ e.catalog = db.catalog
        /\ \A q \in Records : q # r => e.live[q] = db.live[q]
    <3>1. /\ Sound(Deleted(db, r, clock), files)
          /\ \A q \in Records : q # r => Deleted(db, r, clock).live[q] = db.live[q]
          /\ Deleted(db, r, clock).live[r] = 0
          /\ Deleted(db, r, clock).catalog = db.catalog
      BY <1>5, <1>6, <1>7, DeletedIsSound
    <3> QED
      BY <2>1, <3>1
  <2>4. ActiveBackups(e) = ActiveBackups(db)
    BY <2>3, Zenon DEF ActiveBackups
  <2>5. StepsOK(job', e, files)
    <3>1. "delete" # "invalidate" /\ "delete" # "destroy"
      BY Zenon
    <3> QED
      BY <1>1, <1>2, <2>2, <2>4, <3>1, StepDone, Zenon
  <2>6. \A q \in purged : e.live[q] = 0
    BY <1>1, <2>3, Zenon DEF StoreInv, PurgedInv
  <2> QED
    BY <1>1, <2>2, <2>3, <2>5, <2>6, WriteKeeps, Zenon
<1>9. CASE ~(db.live[r] > 0)
  <2>1. job' = <<>> /\ UNCHANGED <<scenario, clock, db, disk, inTransaction, files, purged>>
    BY <1>1, <1>3, <1>4, <1>9, Zenon DEF DeleteStep
  <2>2. StepsOK(job', db, files)
    BY <2>1, CallSteps, Zenon
  <2> QED
    BY <1>1, <2>1, <2>2, PlanKeeps, Zenon
<1> QED
  BY <1>8, <1>9, Zenon

\* Pruning keeps the ledger verifiable.
LEMMA PruneKeeps == Listable /\ StoreInv /\ PruneStep => StoreInv'
<1>1. SUFFICES ASSUME Listable, StoreInv, PruneStep PROVE StoreInv'
  OBVIOUS
<1>2. /\ Doing("prune") /\ job' = <<>> \o Tail(job) /\ UNCHANGED <<scenario, clock, files>>
  BY <1>1, Zenon DEF PruneStep, Then
<1>3. CASE UNCHANGED <<db, disk, inTransaction, purged>>
  <2>1. StepsOK(job', db, files)
    BY <1>1, <1>2, StepDone
  <2> QED
    BY <1>1, <1>2, <1>3, <2>1, PlanKeeps, Zenon
<1>4. CASE Commit([db EXCEPT !.audit = PruneBefore(@, clock - AuditRetention)])
  <2>1. PICK l : l = PruneBefore(db.audit, clock - AuditRetention)
    BY Zenon
  <2>2. PICK e : e = [db EXCEPT !.audit = l]
    BY Zenon
  <2>3. Sound(db, files)
    BY <1>1, Zenon DEF StoreInv
  <2>4. LedgerOK(l)
    BY <1>1, <2>1, <2>3, PruneKeepsLedger, Zenon DEF Sound
  <2>5. Sound(e, files) /\ e.live = db.live /\ e.catalog = db.catalog
    BY <2>2, <2>3, <2>4, LedgerReplaced, Zenon DEF Alike
  <2>6. StepsOK(job', e, files)
    <3>1. ActiveBackups(e) = ActiveBackups(db)
      BY <2>5, Zenon DEF ActiveBackups
    <3>2. "prune" # "invalidate" /\ "prune" # "destroy"
      BY Zenon
    <3> QED
      BY <1>1, <1>2, <3>1, <3>2, StepDone, Zenon
  <2>7. \A r \in purged : e.live[r] = 0
    BY <1>1, <2>5, Zenon DEF StoreInv, PurgedInv
  <2>8. Commit(e)
    BY <1>4, <2>1, <2>2, Zenon
  <2> QED
    BY <1>1, <1>2, <2>5, <2>6, <2>7, <2>8, WriteKeeps, Zenon
<1> QED
  BY <1>1, <1>3, <1>4, Zenon DEF PruneStep

\* Nothing is deleted after the copy: the database registered is the one copied.
LEMMA CopyKeeps == StoreInv /\ CopyDatabase => StoreInv'
<1>1. SUFFICES ASSUME StoreInv, CopyDatabase PROVE StoreInv'
  OBVIOUS
<1>2. /\ Doing("copy") /\ ~inTransaction /\ files' = Append(files, db)
      /\ job' = << <<"register", Len(files) + 1>> >> \o Tail(job)
      /\ UNCHANGED <<scenario, clock, db, disk, inTransaction, purged>>
  BY <1>1, Zenon DEF CopyDatabase, Then
<1>3. /\ job # <<>> /\ job[1][1] = "copy" /\ job \in Seq(Steps) /\ 1 \in 1 .. Len(job)
  BY <1>1, <1>2, InHand, Zenon
<1>4. /\ files \in Seq(Range(files)) /\ Sound(db, files) /\ Sound(disk, files)
      /\ \A b \in DOMAIN files : Sound(files[b], files)
      /\ StepsOK(job, db, files)
  BY <1>1, Zenon DEF StoreInv
<1>5. PICK S : S = Range(files) \cup {db}
  BY Zenon
<1>6. files \in Seq(S) /\ db \in S
  BY <1>4, <1>5 DEF Range
<1>7. PICK more : more = Append(files, db)
  BY Zenon
<1>8. /\ more \in Seq(S) /\ DOMAIN more = 1 .. (Len(files) + 1) /\ Len(files) \in Nat
      /\ DOMAIN files = 1 .. Len(files)
      /\ \A b \in 1 .. Len(files) : more[b] = files[b]
      /\ more[Len(files) + 1] = db
  BY <1>6, <1>7
<1>9. more \in Seq(Range(more))
  BY <1>8, ListOfItsOwn, Zenon
<1>10. /\ Sound(db, more) /\ Sound(disk, more)
       /\ \A b \in DOMAIN files : Sound(files[b], more)
  BY <1>4, <1>6, <1>7, SoundWithMore, Zenon
<1>11. \A b \in DOMAIN more : (b \in DOMAIN files /\ more[b] = files[b]) \/ more[b] = db
  BY <1>8
<1>12. PurgedInv'
  <2>1. PurgedInv /\ db = disk
    BY <1>1, <1>2, Zenon DEF StoreInv, DurableInv
  <2>2. \A b \in DOMAIN more : more[b].tombs \subseteq purged
    BY <1>11, <2>1, Zenon DEF PurgedInv
  <2> QED
    BY <1>2, <1>7, <2>1, <2>2, Zenon DEF PurgedInv
<1>13. StepsOK(job', db, more)
  <2>1. PICK new : new = << <<"register", Len(files) + 1>> >>
    BY Zenon
  <2>2. /\ new \in Seq(Steps) /\ Len(new) = 1
        /\ new[1][1] = "register" /\ new[1][2] = Len(files) + 1
    BY <1>8, <2>1 DEF Steps
  <2>3. PICK t : t = Tail(job)
    BY Zenon
  <2>4. /\ t \in Seq(Steps) /\ Len(t) = Len(job) - 1 /\ Len(job) \in Nat
        /\ \A k \in 1 .. Len(t) : t[k] = job[k + 1]
    BY <1>3, <2>3
  <2>5. ASSUME NEW k \in 1 .. Len(t) PROVE t[k][1] \notin {"delete", "register"}
    <3>1. k + 1 \in 1 .. Len(job) /\ k + 1 > 1 /\ k + 1 # 1
      BY <2>4
    <3>2. job[k + 1][1] # "delete" /\ job[k + 1][1] # "register"
      BY <1>3, <1>4, <3>1, Zenon DEF StepsOK
    <3> QED
      BY <2>4, <3>2, Zenon
  <2>6. PICK s : s = new \o t
    BY Zenon
  <2>7. /\ s \in Seq(Steps) /\ Len(s) = Len(new) + Len(t)
        /\ \A i \in 1 .. Len(new) : s[i] = new[i]
        /\ \A k \in 1 .. Len(t) : s[Len(new) + k] = t[k]
    <3>1. new \in Seq(Steps) /\ t \in Seq(Steps)
      BY <2>2, <2>4, Zenon
    <3> QED
      BY <2>6, <3>1, OneAfterTheOther
  <2>8. s[1] = new[1]
    BY <2>2, <2>7
  <2>9. ASSUME NEW i \in 1 .. Len(s), i # 1 PROVE s[i][1] \notin {"delete", "register"}
    <3>1. i - 1 \in 1 .. Len(t) /\ Len(new) + (i - 1) = i
      BY <2>2, <2>4, <2>7, <2>9, SMTT(30)
    <3> QED
      BY <2>5, <2>7, <3>1, Zenon
  <2>10. Len(files) + 1 \in DOMAIN more /\ db = more[Len(files) + 1]
    BY <1>8
  <2>11. ASSUME NEW i \in 1 .. Len(s)
         PROVE  /\ s[i][1] # "delete"
                /\ s[i][1] = "register" =>
                    i = 1 /\ s[i][2] \in DOMAIN more /\ db = more[s[i][2]]
    <3>1. CASE i = 1
      <4>1. s[i][1] = "register" /\ s[i][2] = Len(files) + 1
        BY <2>2, <2>8, <3>1, Zenon
      <4> QED
        BY <2>10, <3>1, <4>1, Zenon
    <3>2. CASE i # 1
      BY <2>9, <3>2, Zenon
    <3> QED
      BY <3>1, <3>2, Zenon
  <2>12. StepsOK(s, db, more)
    BY <2>7, <2>11, Zenon DEF StepsOK
  <2> QED
    BY <1>2, <2>1, <2>3, <2>6, <2>12, Zenon
<1>14. /\ Sound(db, files)' /\ Sound(disk, files)'
       /\ (\A b \in DOMAIN files : Sound(files[b], files))' /\ StepsOK(job, db, files)'
  BY <1>2, <1>7, <1>10, <1>11, <1>13, Zenon
<1>15. DurableInv'
  BY <1>1, <1>2, Zenon DEF StoreInv, DurableInv
<1> QED
  BY <1>1, <1>2, <1>7, <1>9, <1>12, <1>14, <1>15, Zenon DEF StoreInv

\* A registered backup is the file that was copied, with nothing deleted since.
LEMMA RegisterKeeps == StoreInv /\ RegisterBackup => StoreInv'
<1>1. SUFFICES ASSUME StoreInv, RegisterBackup PROVE StoreInv'
  OBVIOUS
<1>2. Doing("register") /\ job' = <<>> \o Tail(job) /\ UNCHANGED <<scenario, clock, files>>
  BY <1>1, Zenon DEF RegisterBackup, Then
<1>3. /\ Head(job) = job[1] /\ job[1][1] = "register" /\ job # <<>>
      /\ job \in Seq(Steps) /\ 1 \in 1 .. Len(job)
  BY <1>1, <1>2, InHand, Zenon
<1>4. Sound(db, files) /\ StepsOK(job, db, files) /\ clock \in Nat
  BY <1>1, Zenon DEF StoreInv
<1>5. PICK b : b = job[1][2]
  OBVIOUS
<1>6. b \in DOMAIN files /\ files[b] = db
  BY <1>3, <1>4, <1>5, Zenon DEF StepsOK
<1>7. PICK e : e = Registered(db, b, clock)
  OBVIOUS
<1>8. Sound(e, files) /\ e.live = db.live
  BY <1>4, <1>6, <1>7, RegisteredIsSound, Zenon
<1>9. StepsOK(job', e, files)
  <2>1. PICK t : t = Tail(job)
    BY Zenon
  <2>2. /\ t \in Seq(Steps) /\ Len(t) = Len(job) - 1 /\ Len(job) \in Nat
        /\ \A k \in 1 .. Len(t) : t[k] = job[k + 1]
    BY <1>3, <2>1
  <2>3. ASSUME NEW k \in 1 .. Len(t) PROVE t[k][1] \notin {"delete", "register"}
    <3>1. k + 1 \in 1 .. Len(job) /\ k + 1 > 1 /\ k + 1 # 1
      BY <2>2
    <3>2. job[k + 1][1] # "delete" /\ job[k + 1][1] # "register"
      BY <1>3, <1>4, <3>1, Zenon DEF StepsOK
    <3> QED
      BY <2>2, <3>2
  <2>4. StepsOK(t, e, files)
    BY <2>2, <2>3, Zenon DEF StepsOK
  <2>5. job' = t
    BY <1>2, <2>1, <2>2
  <2> QED
    BY <2>4, <2>5, Zenon
<1>10. \A r \in purged : e.live[r] = 0
  BY <1>1, <1>8, Zenon DEF StoreInv, PurgedInv
<1>11. Commit(e)
  BY <1>1, <1>3, <1>5, <1>7, Zenon DEF RegisterBackup
<1> QED
  BY <1>1, <1>2, <1>8, <1>9, <1>10, <1>11, WriteKeeps, Zenon

\* A restart forgets the call; a restored file holds nothing that was purged.
LEMMA EnvironmentKeeps == StoreInv /\ Environment => StoreInv'
<1>1. SUFFICES ASSUME StoreInv, Environment PROVE StoreInv'
  OBVIOUS
<1>2. CASE Crash
  <2>1. StepsOK(job', disk, files)
    BY <1>2, CallSteps, Zenon DEF Crash
  <2> QED
    BY <1>1, <1>2, <2>1, Zenon DEF Crash, StoreInv, PurgedInv, DurableInv
<1>3. CASE Tick
  <2>1. clock' \in Nat
    BY <1>1, <1>3 DEF Tick, StoreInv
  <2> QED
    BY <1>1, <1>3, <2>1, Zenon DEF Tick, StoreInv, PurgedInv, DurableInv
<1>4. ASSUME NEW b \in BackupIds, Restore(b) PROVE StoreInv'
  <2>1. /\ Idle /\ ~inTransaction /\ disk.catalog[b].status = "active"
        /\ db' = files[b] /\ disk' = files[b]
        /\ UNCHANGED <<scenario, clock, inTransaction, files, job, purged>>
    BY <1>4, Zenon DEF Restore
  <2>2. b \in ActiveBackups(disk)
    BY <2>1, Zenon DEF ActiveBackups
  <2>3. b \in DOMAIN files /\ \A r \in Records : files[b].live[r] > 0 => disk.live[r] > 0
    BY <1>1, <2>2, Zenon DEF StoreInv, Sound, CatalogOK
  <2>4. Sound(files[b], files)
    BY <1>1, <2>3, Zenon DEF StoreInv
  <2>5. \A r \in purged : r \in Records /\ files[b].live[r] = 0
    <3>1. SUFFICES ASSUME NEW r \in purged PROVE r \in Records /\ files[b].live[r] = 0
      BY Zenon
    <3>2. r \in Records /\ disk.live[r] = 0
      BY <1>1, Zenon DEF StoreInv, PurgedInv
    <3>3. files[b].live[r] \in Nat
      BY <2>4, <3>2, Zenon DEF Sound, TablesOK
    <3> QED
      BY <2>3, <3>2, <3>3
  <2>6. StepsOK(job', files[b], files)
    BY <2>1, CallSteps, Zenon DEF Idle
  <2> QED
    BY <1>1, <2>1, <2>3, <2>4, <2>5, <2>6, Zenon DEF StoreInv, PurgedInv, DurableInv
<1> QED
  BY <1>1, <1>2, <1>3, <1>4, Zenon DEF Environment

\* Every step of the store keeps the invariant.
LEMMA StoreStep == Listable /\ StoreInv /\ [Next]_vars => StoreInv'
<1>1. SUFFICES ASSUME Listable, StoreInv, [Next]_vars PROVE StoreInv'
  BY Zenon
<1>2. CASE UNCHANGED vars
  BY <1>1, <1>2, Zenon DEF vars, StoreInv, PurgedInv, DurableInv
<1>3. CASE LifecycleStep
  BY <1>1, <1>3, StartKeeps, InvalidateKeeps, DestroyKeeps, RelatedKeeps, DeleteKeeps, CopyKeeps,
     RegisterKeeps, PruneKeeps, ExpireKeeps, Zenon DEF LifecycleStep
<1> QED
  BY <1>1, <1>2, <1>3, RecordCallKeeps, MemoryCallKeeps, LearningCallKeeps, OtherCallKeeps,
     EnvironmentKeeps, Zenon DEF Next

-----------------------------------------------------------------------------
(* Finite sets: a selection can be listed.                                 *)

LOCAL INSTANCE FiniteSetTheorems

\* A non-empty set of positions has its last one.
LEMMA LastPosition ==
  ASSUME NEW n \in Nat, NEW S, S \subseteq 1 .. n, S # {}
  PROVE  \E i \in S : \A j \in S : j <= i
<1> DEFINE R == OpToRel(<, Nat)
           T == {n - i : i \in S}
<1>1. IsWellFoundedOn(R, Nat)
  BY NatLessThanWellFounded, Zenon
<1>2. R = {ss \in Nat \X Nat : ss[1] < ss[2]}
  BY Zenon DEF OpToRel
<1>3. T \subseteq Nat /\ T # {}
  <2>1. PICK i \in S : TRUE
    BY Zenon
  <2>2. n - i \in T
    BY <2>1, Zenon
  <2>3. \A j \in S : n - j \in Nat
    OBVIOUS
  <2> QED
    BY <2>2, <2>3, Zenon
<1> HIDE DEF R
<1>4. PICK x \in T : \A y \in T : <<y, x>> \notin R
  BY <1>1, <1>3, WFMin, Zenon
<1>5. PICK i \in S : x = n - i
  BY <1>4, Zenon
<1>6. ASSUME NEW j \in S PROVE j <= i
  <2>1. /\ <<n - j, x>> \in Nat \X Nat
        /\ <<n - j, x>>[1] = n - j /\ <<n - j, x>>[2] = x
    BY <1>3, <1>4, Zenon
  <2>2. ~(n - j < x)
    BY <1>2, <1>4, <2>1, Zenon
  <2> QED
    BY <1>5, <2>2
<1> QED
  BY <1>6, Zenon

\* Finite and Count are also what FiniteSetTheorems speaks of.
LEMMA InstancesSpelledOut == \A S : (Finite(S) <=> IsFiniteSet(S)) /\ Count(S) = Cardinality(S)
BY Zenon DEF Finite, Count, IsFiniteSet, Cardinality

\* AnyOrder lists every member of a finite set.
LEMMA FiniteIsListed ==
  ASSUME NEW S, Finite(S)
  PROVE  /\ Count(S) \in Nat /\ AnyOrder(S) \in [1 .. Count(S) -> S]
         /\ \A x \in S : \E i \in 1 .. Count(S) : AnyOrder(S)[i] = x
<1>1. IsFiniteSet(S) /\ Count(S) = Cardinality(S)
  BY InstancesSpelledOut, Zenon
<1>2. Count(S) \in Nat /\ ExistsBijection(1 .. Count(S), S)
  BY <1>1, FS_CardinalityType, Zenon
<1>3. PICK b \in Bijection(1 .. Count(S), S) : TRUE
  BY <1>2, Zenon DEF ExistsBijection
<1>4. b \in [1 .. Count(S) -> S] /\ \A x \in S : \E i \in 1 .. Count(S) : b[i] = x
  BY <1>3, Zenon DEF Bijection, Surjection
<1> QED
  BY <1>2, <1>4, SomeOrder, Zenon

\* What was assumed of the selected sets is true of them.
LEMMA RowsAreListable == Listable
<1>1. /\ IsFiniteSet(Records) /\ IsFiniteSet(Memories) /\ IsFiniteSet(Observations) /\ MaxBackups \in Nat
      /\ \A m \in Manifests : IsFiniteSet(m.merges)
  BY RowsAreFinite, InstancesSpelledOut, Zenon
<1>2. IsFiniteSet(BackupIds)
  <2>1. PICK k \in Int : k = MaxBackups
    BY <1>1
  <2>2. IsFiniteSet(1 .. k)
    BY <2>1, FS_Interval
  <2> QED
    BY <2>1, <2>2, Zenon DEF BackupIds
<1>3. ASSUME NEW S, Selected(S) PROVE Finite(S)
  <2>1. ASSUME NEW T, IsFiniteSet(T), S \in SUBSET T PROVE IsFiniteSet(S)
    BY <2>1, FS_Subset, Zenon
  <2>2. IsFiniteSet(S)
    BY <1>1, <1>2, <1>3, <2>1, Zenon DEF Selected
  <2> QED
    BY <2>2, InstancesSpelledOut, Zenon
<1>4. ASSUME NEW m \in Manifests, NEW S \in SUBSET Records
      PROVE  Count({m.maps[Kind[r]] : r \in S}) \in Nat
  <2>1. IsFiniteSet(S)
    BY <1>1, FS_Subset, Zenon
  <2>2. PICK f : f = [r \in S |-> m.maps[Kind[r]]]
    BY Zenon
  <2>3. PICK T : T = {m.maps[Kind[r]] : r \in S}
    BY Zenon
  <2>4. f \in Surjection(S, T)
    BY <2>2, <2>3, Zenon DEF Surjection
  <2>5. IsFiniteSet(T)
    BY <2>1, <2>4, FS_Surjection, Zenon
  <2>6. Cardinality(T) \in Nat
    BY <2>5, FS_CardinalityType, Zenon
  <2> QED
    BY <2>3, <2>6, InstancesSpelledOut, Zenon
<1>5. \A n \in Nat : \A S \in SUBSET (1 .. n) : S # {} => \E i \in S : \A j \in S : j <= i
  BY LastPosition, Zenon
<1>6. ASSUME NEW S, Selected(S)
      PROVE  /\ Count(S) \in Nat /\ AnyOrder(S) \in [1 .. Count(S) -> S]
             /\ \A x \in S : \E i \in 1 .. Count(S) : AnyOrder(S)[i] = x
  <2>1. Finite(S)
    BY <1>3, <1>6, Zenon
  <2> QED
    BY <2>1, FiniteIsListed, Zenon
<1> QED
  BY <1>4, <1>5, <1>6, Zenon DEF Listable

-----------------------------------------------------------------------------
\* The invariant holds in every behaviour of the store.
LEMMA StoreIsSound == Spec => []StoreInv
<1>1. StoreInv /\ [Next]_vars => StoreInv'
  BY StoreStep, RowsAreListable, Zenon
<1> QED
  BY <1>1, InitSound, PTL DEF Spec

-----------------------------------------------------------------------------
(* ledger.py: the ledger in use, the committed one and the one in every    *)
(* backup file verify, after any calls, prunings, crashes and restores.    *)
THEOREM ChainAlwaysVerifies == Spec => []ChainVerifies
<1>1. StoreInv => ChainVerifies
  BY Zenon DEF StoreInv, Sound, LedgerOK, ChainVerifies
<1> QED
  BY <1>1, StoreIsSound, PTL

(* lifecycle.py, recovery.py, memory_repository.py: what has a durable     *)
(* tombstone is neither live nor in a backup whose key is still there.     *)
THEOREM ErasedStaysErased == Spec => []ErasedIsUnrecoverable
<1>1. StoreInv => ErasedIsUnrecoverable
  <2>1. SUFFICES ASSUME StoreInv PROVE ErasedIsUnrecoverable
    BY Zenon
  <2>2. Sound(disk, files) /\ \A b \in ActiveBackups(disk) : b \in DOMAIN files /\ TablesOK(files[b])
    BY <2>1, Zenon DEF StoreInv, Sound, CatalogOK
  <2>3. ASSUME NEW r \in purged
        PROVE  disk.live[r] = 0 /\ \A b \in ActiveBackups(disk) : files[b].live[r] = 0
    <3>1. r \in Records /\ disk.live[r] = 0
      BY <2>1, Zenon DEF StoreInv, PurgedInv
    <3>2. ASSUME NEW b \in ActiveBackups(disk) PROVE files[b].live[r] = 0
      <4>1. files[b].live[r] \in Nat /\ (files[b].live[r] > 0 => disk.live[r] > 0)
        BY <2>2, <3>1, Zenon DEF Sound, CatalogOK, TablesOK
      <4> QED
        BY <3>1, <4>1
    <3> QED
      BY <3>1, <3>2, Zenon
  <2>4. ASSUME NEW t \in disk.memTombs
        PROVE  /\ disk.memory[t.id] # t.revision
               /\ \A b \in ActiveBackups(disk) : files[b].memory[t.id] # t.revision
    <3>1. /\ t.id \in Memories /\ t.revision \in Nat \ {0} /\ disk.memory[t.id] \in Nat
          /\ disk.memory[t.id] = 0 \/ t.revision < disk.memory[t.id]
      BY <2>2, Zenon DEF Sound, TablesOK, TombsOK
    <3>2. ASSUME NEW b \in ActiveBackups(disk) PROVE files[b].memory[t.id] # t.revision
      <4>1. /\ files[b].memory[t.id] \in Nat
            /\ files[b].memory[t.id] > 0 => files[b].memory[t.id] = disk.memory[t.id]
        BY <2>2, <3>1, Zenon DEF Sound, CatalogOK, TablesOK
      <4> QED
        BY <3>1, <4>1
    <3> QED
      BY <3>1, <3>2
  <2> QED
    BY <2>3, <2>4, Zenon DEF ErasedIsUnrecoverable
<1> QED
  BY <1>1, StoreIsSound, PTL
=============================================================================
