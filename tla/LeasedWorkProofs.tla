-------------------------- MODULE LeasedWorkProofs --------------------------
(***************************************************************************)
(* Proofs about LeasedWork: what the calendar holds was approved, a        *)
(* reverted proposal has nothing left on it, the client's mirror is exact, *)
(* and every application of a rollout has used up a lease.                 *)
(***************************************************************************)
EXTENDS LeasedWork, FiniteSetTheorems, TLAPS

-----------------------------------------------------------------------------
\* Enumerations of finite sets.

\* A numbering of a finite set without repetitions reaches every member.
LEMMA InjectionIsOnto ==
  ASSUME NEW S, IsFiniteSet(S), NEW s \in [1 .. Cardinality(S) -> S],
         \A i, j \in DOMAIN s : s[i] = s[j] => i = j
  PROVE  \A x \in S : \E i \in 1 .. Cardinality(S) : s[i] = x
<1>1. Cardinality(S) \in Nat
  BY FS_CardinalityType, Zenon
<1>2. IsFiniteSet(1 .. Cardinality(S)) /\ Cardinality(1 .. Cardinality(S)) = Cardinality(S)
  BY <1>1, FS_Interval
<1>3. s \in Injection(1 .. Cardinality(S), S)
  BY Zenon DEF Injection, IsInjective
<1>4. s \in Surjection(1 .. Cardinality(S), S)
  BY <1>2, <1>3, FS_Injection, Zenon
<1> QED
  BY <1>4, Zenon DEF Surjection

\* AnyOrder lists each member of a finite set once.
LEMMA AnyOrderIsComplete ==
  ASSUME NEW S, IsFiniteSet(S)
  PROVE  /\ Cardinality(S) \in Nat
         /\ AnyOrder(S) \in [1 .. Cardinality(S) -> S]
         /\ \A i, j \in 1 .. Cardinality(S) : AnyOrder(S)[i] = AnyOrder(S)[j] => i = j
         /\ \A x \in S : \E i \in 1 .. Cardinality(S) : AnyOrder(S)[i] = x
<1>1. Cardinality(S) \in Nat /\ ExistsBijection(1 .. Cardinality(S), S)
  BY FS_CardinalityType, Zenon
<1>2. PICK b \in Bijection(1 .. Cardinality(S), S) : TRUE
  BY <1>1, Zenon DEF ExistsBijection
<1>3. b \in [1 .. Cardinality(S) -> S] /\ \A i, j \in DOMAIN b : b[i] = b[j] => i = j
  BY <1>2, Zenon DEF Bijection, Injection, IsInjective
<1>4. /\ AnyOrder(S) \in [1 .. Cardinality(S) -> S]
      /\ \A i, j \in DOMAIN AnyOrder(S) : AnyOrder(S)[i] = AnyOrder(S)[j] => i = j
  BY <1>3, Zenon DEF AnyOrder
<1> QED
  BY <1>1, <1>4, InjectionIsOnto, Zenon

\* The enumeration exists: each position stands where its rank says.
LEMMA InOrderIsComplete ==
  ASSUME NEW S, IsFiniteSet(S), S \subseteq Nat
  PROVE  /\ Cardinality(S) \in Nat
         /\ InOrder(S) \in [1 .. Cardinality(S) -> S]
         /\ \A i, j \in 1 .. Cardinality(S) : i < j => InOrder(S)[i] < InOrder(S)[j]
         /\ \A x \in S : \E i \in 1 .. Cardinality(S) : InOrder(S)[i] = x
<1> DEFINE n == Cardinality(S)
           Below(i) == {h \in S : h <= i}
           rank == [i \in S |-> Cardinality(Below(i))]
<1>1. n \in Nat
  BY FS_CardinalityType, Zenon
<1>2. ASSUME NEW i \in S
      PROVE  IsFiniteSet(Below(i)) /\ Cardinality(Below(i)) \in 1 .. n
  <2>1. IsFiniteSet(Below(i)) /\ Cardinality(Below(i)) <= n
    BY FS_Subset, Zenon
  <2>2. Cardinality(Below(i)) \in Nat /\ Cardinality(Below(i)) # 0
    <3>1. i \in Below(i)
      OBVIOUS
    <3> QED
      BY <2>1, <3>1, FS_EmptySet, FS_CardinalityType, Zenon
  <2> QED
    BY <1>1, <2>1, <2>2
<1>3. ASSUME NEW i \in S, NEW j \in S, i < j
      PROVE  rank[i] < rank[j]
  <2>1. Below(i) \in SUBSET Below(j) /\ j \in Below(j) /\ j \notin Below(i)
    <3>1. \A h \in S : h \in Int
      OBVIOUS
    <3>2. \A h \in S : h <= i => h <= j
      BY <1>3, <3>1
    <3>3. j <= j /\ ~(j <= i)
      BY <1>3, <3>1
    <3> QED
      BY <3>2, <3>3, Zenon
  <2>2. Cardinality(Below(i)) <= Cardinality(Below(j)) /\ Cardinality(Below(i)) # Cardinality(Below(j))
    <3>1. IsFiniteSet(Below(j))
      BY <1>2, Zenon
    <3>2. Below(i) # Below(j)
      BY <2>1, Zenon
    <3> HIDE DEF Below
    <3>3. /\ Cardinality(Below(i)) <= Cardinality(Below(j))
          /\ Cardinality(Below(j)) = Cardinality(Below(i)) => Below(j) = Below(i)
      BY <2>1, <3>1, FS_Subset, Zenon
    <3> QED
      BY <3>2, <3>3, Zenon
  <2>3. Cardinality(Below(i)) \in Int /\ Cardinality(Below(j)) \in Int
    BY <1>2
  <2>4. rank[i] = Cardinality(Below(i)) /\ rank[j] = Cardinality(Below(j))
    BY Zenon
  <2> HIDE DEF rank, Below
  <2> QED
    BY <2>2, <2>3, <2>4
<1>4. rank \in [S -> 1 .. n]
  BY <1>2, Zenon
<1> HIDE DEF rank
<1>5. \A i, j \in S : rank[i] = rank[j] => i = j
  <2> SUFFICES ASSUME NEW i \in S, NEW j \in S, rank[i] = rank[j], i # j
               PROVE  FALSE
    BY Zenon
  <2>1. i \in Nat /\ j \in Nat /\ rank[i] \in Int /\ rank[j] \in Int
    BY <1>1, <1>4
  <2>2. i < j \/ j < i
    BY <2>1
  <2> QED
    BY <1>3, <2>1, <2>2
<1>6. rank \in Injection(S, 1 .. n)
  BY <1>4, <1>5, Zenon DEF Injection, IsInjective
<1>7. IsFiniteSet(1 .. n) /\ Cardinality(1 .. n) = n
  BY <1>1, FS_Interval
<1>8. rank \in Surjection(S, 1 .. n)
  BY <1>6, <1>7, FS_Injection, Zenon
<1>9. \A r \in 1 .. n : \E i \in S : rank[i] = r
  BY <1>8, Zenon DEF Surjection
<1> DEFINE s == [r \in 1 .. n |-> CHOOSE i \in S : rank[i] = r]
<1>10. s \in [1 .. n -> S] /\ \A r \in 1 .. n : rank[s[r]] = r
  BY <1>9, Zenon
<1>11. \A i, j \in DOMAIN s : i < j => s[i] < s[j]
  <2> HIDE DEF s
  <2> SUFFICES ASSUME NEW i \in 1 .. n, NEW j \in 1 .. n, i < j
               PROVE  s[i] < s[j]
    BY <1>10, Zenon
  <2>1. s[i] \in Nat /\ s[j] \in Nat /\ s[i] \in S /\ s[j] \in S /\ rank[s[i]] = i /\ rank[s[j]] = j
    BY <1>10, Zenon
  <2>2. CASE s[j] < s[i]
    BY <1>3, <2>1, <2>2
  <2>3. CASE s[j] = s[i]
    BY <2>1, <2>3
  <2> QED
    BY <2>1, <2>2, <2>3
<1> HIDE DEF s
<1>12. /\ InOrder(S) \in [1 .. n -> S]
       /\ \A i, j \in DOMAIN InOrder(S) : i < j => InOrder(S)[i] < InOrder(S)[j]
  BY <1>10, <1>11, Zenon DEF InOrder
<1>13. \A i, j \in DOMAIN InOrder(S) : InOrder(S)[i] = InOrder(S)[j] => i = j
  <2> SUFFICES ASSUME NEW i \in 1 .. n, NEW j \in 1 .. n, InOrder(S)[i] = InOrder(S)[j], i # j
               PROVE  FALSE
    BY <1>12, Zenon
  <2>1. i < j \/ j < i
    BY <1>1
  <2>2. InOrder(S)[i] \in Nat /\ InOrder(S)[j] \in Nat
    BY <1>12, Zenon
  <2> QED
    BY <1>12, <2>1, <2>2
<1> QED
  BY <1>1, <1>12, <1>13, InjectionIsOnto, Zenon

-----------------------------------------------------------------------------
\* The change log explains the calendar.

Contents ==
  {"edited"} \cup UNION {{PlanOf[p][i].content : i \in DOMAIN PlanOf[p]} : p \in DOMAIN PlanOf}

Payloads == {PlanOf[p] : p \in DOMAIN PlanOf}
RemoteEvents == [proposal : DOMAIN PlanOf, payload : Payloads, content : Contents]
Calendars == [Keys -> RemoteEvents \cup {NoEvent}]
ChangeRecords == [key : Keys, event : RemoteEvents \cup {NoEvent}, deleted : BOOLEAN]

Value(c) == IF c.deleted THEN NoEvent ELSE c.event

\* Every key that log names has in after what its last change says; the
\* others are as before.
Explains(log, before, after) ==
  \A k \in Keys :
    \/ /\ \A i \in DOMAIN log : log[i].key # k
       /\ after[k] = before[k]
    \/ \E i \in DOMAIN log :
         /\ log[i].key = k /\ \A j \in DOMAIN log : j > i => log[j].key # k
         /\ after[k] = Value(log[i])

\* Two logs that explain two changes explain, one after the other, both.
LEMMA ExplainsCompose ==
  ASSUME NEW first \in Seq(ChangeRecords), NEW second \in Seq(ChangeRecords),
         NEW a, NEW b, NEW c, Explains(first, a, b), Explains(second, b, c)
  PROVE  Explains(first \o second, a, c)
<1> DEFINE log == first \o second
<1>1. /\ Len(first) \in Nat /\ Len(second) \in Nat
      /\ DOMAIN first = 1 .. Len(first) /\ DOMAIN second = 1 .. Len(second)
      /\ DOMAIN log = 1 .. (Len(first) + Len(second))
  OBVIOUS
<1>2. \A i \in 1 .. Len(first) : log[i] = first[i]
  OBVIOUS
<1>3. \A i \in 1 .. Len(second) : log[Len(first) + i] = second[i]
  OBVIOUS
<1>4. \A i \in DOMAIN log : i \in 1 .. Len(first) \/ (i - Len(first) \in 1 .. Len(second) /\ log[i] = second[i - Len(first)])
  OBVIOUS
<1> HIDE DEF log
<1> SUFFICES ASSUME NEW k \in Keys
             PROVE  \/ /\ \A i \in DOMAIN log : log[i].key # k
                       /\ c[k] = a[k]
                    \/ \E i \in DOMAIN log :
                         /\ log[i].key = k /\ \A j \in DOMAIN log : j > i => log[j].key # k
                         /\ c[k] = Value(log[i])
  BY Zenon DEF Explains, log
<1>5. CASE \E i \in DOMAIN second :
             /\ second[i].key = k /\ \A j \in DOMAIN second : j > i => second[j].key # k
             /\ c[k] = Value(second[i])
  <2>1. PICK i \in DOMAIN second :
             /\ second[i].key = k /\ \A j \in DOMAIN second : j > i => second[j].key # k
             /\ c[k] = Value(second[i])
    BY <1>5, Zenon
  <2>2. Len(first) + i \in DOMAIN log /\ log[Len(first) + i] = second[i]
    BY <1>1, <1>3
  <2>3. ASSUME NEW j \in DOMAIN log, j > Len(first) + i
        PROVE  log[j].key # k
    <3>1. j - Len(first) \in DOMAIN second /\ j - Len(first) > i /\ log[j] = second[j - Len(first)]
      BY <1>1, <1>4, <2>3
    <3> QED
      BY <2>1, <3>1, Zenon
  <2> QED
    BY <2>1, <2>2, <2>3, Zenon
<1>6. CASE (\A i \in DOMAIN second : second[i].key # k) /\ c[k] = b[k]
  <2>1. \A j \in DOMAIN log : j > Len(first) => log[j].key # k
    BY <1>1, <1>4, <1>6
  <2>2. CASE (\A i \in DOMAIN first : first[i].key # k) /\ b[k] = a[k]
    BY <1>1, <1>2, <1>6, <2>1, <2>2
  <2>3. CASE \E i \in DOMAIN first :
               /\ first[i].key = k /\ \A j \in DOMAIN first : j > i => first[j].key # k
               /\ b[k] = Value(first[i])
    <3>1. PICK i \in DOMAIN first :
               /\ first[i].key = k /\ \A j \in DOMAIN first : j > i => first[j].key # k
               /\ b[k] = Value(first[i])
      BY <2>3, Zenon
    <3>2. i \in DOMAIN log /\ log[i] = first[i]
      BY <1>1, <1>2
    <3>3. \A j \in DOMAIN log : j > i => log[j].key # k
      BY <1>1, <1>2, <2>1, <3>1
    <3> QED
      BY <1>6, <3>1, <3>2, <3>3, Zenon
  <2> QED
    BY <2>2, <2>3, Zenon DEF Explains
<1> QED
  BY <1>5, <1>6, Zenon DEF Explains

\* An empty log explains that nothing changed.
LEMMA NothingExplainsNothing ==
  ASSUME NEW log, DOMAIN log = {}, NEW a
  PROVE  Explains(log, a, a)
BY Zenon DEF Explains

\* Merging a page that explains the calendar gives the calendar.
LEMMA MergedIsReplay ==
  ASSUME NEW page \in Seq(ChangeRecords), NEW old, NEW after \in Calendars, Explains(page, old, after)
  PROVE  Merged(old, page) = after
<1> DEFINE Own(k) == {i \in DOMAIN page : page[i].key = k}
           Last(k) == page[CHOOSE i \in Own(k) : \A j \in Own(k) : j <= i]
<1>1. Merged(old, page) = [k \in Keys |-> IF Own(k) = {} THEN old[k]
                                        ELSE IF Last(k).deleted THEN NoEvent ELSE Last(k).event]
  BY Zenon DEF Merged
<1>2. DOMAIN page \subseteq Int
  OBVIOUS
<1>3. ASSUME NEW k \in Keys
      PROVE  (IF Own(k) = {} THEN old[k] ELSE IF Last(k).deleted THEN NoEvent ELSE Last(k).event) = after[k]
  <2>1. CASE (\A i \in DOMAIN page : page[i].key # k) /\ after[k] = old[k]
    BY <2>1, Zenon
  <2>2. CASE \E i \in DOMAIN page :
               /\ page[i].key = k /\ \A j \in DOMAIN page : j > i => page[j].key # k
               /\ after[k] = Value(page[i])
    <3>1. PICK i \in DOMAIN page :
               /\ page[i].key = k /\ \A j \in DOMAIN page : j > i => page[j].key # k
               /\ after[k] = Value(page[i])
      BY <2>2, Zenon
    <3>2. i \in Own(k) /\ \A j \in Own(k) : j <= i
      BY <1>2, <3>1
    <3>3. \A x \in Own(k) : (\A j \in Own(k) : j <= x) => x = i
      BY <1>2, <3>2
    <3>4. Last(k) = page[i]
      <4> HIDE DEF Own
      <4> QED
        BY <3>2, <3>3, Zenon
    <3>5. Own(k) # {}
      BY <3>2, Zenon
    <3> HIDE DEF Own, Last
    <3> QED
      BY <3>1, <3>4, <3>5, Zenon DEF Value
  <2> QED
    BY <2>1, <2>2, Zenon DEF Explains
<1> HIDE DEF Own, Last
<1>4. \A k \in Keys : Merged(old, page)[k] = after[k]
  BY <1>1, <1>3, Zenon
<1> QED
  BY <1>1, <1>4, Zenon DEF Calendars

-----------------------------------------------------------------------------
\* What each write, deletion and edit adds to the log.

\* A function on 1 .. m is a sequence.
LEMMA FunctionIsSequence ==
  ASSUME NEW T, NEW m \in Nat, NEW f, DOMAIN f = 1 .. m, f = [i \in 1 .. m |-> f[i]],
         \A i \in 1 .. m : f[i] \in T
  PROVE  f \in Seq(T)
<1>1. f \in [1 .. m -> T]
  BY Zenon
<1> QED
  BY <1>1

\* Finitely many plans have finitely many keys.
LEMMA KeysAreFinite == IsFiniteSet(Keys)
<1> DEFINE KeysOf(p) == {PlanOf[p][i].key : i \in DOMAIN PlanOf[p]}
           keysOf == [p \in DOMAIN PlanOf |-> KeysOf(p)]
           sets == {KeysOf(p) : p \in DOMAIN PlanOf}
<1>1. ASSUME NEW p \in DOMAIN PlanOf
      PROVE  IsFiniteSet(KeysOf(p))
  <2> DEFINE keyAt == [i \in DOMAIN PlanOf[p] |-> PlanOf[p][i].key]
  <2>1. Len(PlanOf[p]) \in Nat /\ DOMAIN PlanOf[p] = 1 .. Len(PlanOf[p])
    BY PlansAssumption
  <2>2. IsFiniteSet(DOMAIN PlanOf[p])
    BY <2>1, FS_Interval
  <2>3. keyAt \in Surjection(DOMAIN PlanOf[p], KeysOf(p))
    BY Zenon DEF Surjection
  <2> HIDE DEF keyAt, KeysOf
  <2> QED
    BY <2>2, <2>3, FS_Surjection, Zenon
<1>2. keysOf \in Surjection(DOMAIN PlanOf, sets)
  BY Zenon DEF Surjection
<1>3. \A S \in sets : IsFiniteSet(S)
  BY <1>1, Zenon
<1>4. Keys = UNION sets
  BY Zenon DEF Keys
<1> HIDE DEF keysOf, sets
<1>5. IsFiniteSet(sets)
  BY <1>2, PlansAssumption, FS_Surjection, Zenon
<1> QED
  BY <1>3, <1>4, <1>5, FS_UNION, Zenon

\* What a plan wants to write for one of its blocks.
LEMMA DesiredEvent ==
  ASSUME NEW p \in DOMAIN PlanOf, NEW i \in DOMAIN PlanOf[p]
  PROVE  /\ Desired(p, i) \in RemoteEvents /\ PlanOf[p][i].key \in Keys
         /\ Desired(p, i).proposal = p /\ Desired(p, i).payload = PlanOf[p]
<1>1. PlanOf[p][i].content \in Contents
  BY DEF Contents
<1>2. PlanOf[p][i].key \in Keys
  BY DEF Keys
<1>3. PlanOf[p] \in Payloads
  BY Zenon DEF Payloads
<1> QED
  BY <1>1, <1>2, <1>3, Zenon DEF Desired, RemoteEvent, RemoteEvents

\* What the provider logs of a write explains it.
LEMMA WriteIsLogged ==
  ASSUME NEW p \in DOMAIN PlanOf, NEW n, events \in Calendars
  PROVE  /\ Written(p, n) \in Calendars
         /\ WriteLog(p, n) \in Seq(ChangeRecords)
         /\ Explains(WriteLog(p, n), events, Written(p, n))
<1> DEFINE S == Upserts(p, n)
           order == InOrder(S)
           m == Cardinality(S)
           log == WriteLog(p, n)
<1>1. Len(PlanOf[p]) \in Nat /\ DOMAIN PlanOf[p] = 1 .. Len(PlanOf[p])
  BY PlansAssumption
<1>2. S \subseteq DOMAIN PlanOf[p]
  BY Zenon DEF Upserts
<1>3. IsFiniteSet(S) /\ S \subseteq Nat
  <2>1. IsFiniteSet(1 .. Len(PlanOf[p]))
    BY <1>1, FS_Interval
  <2>2. S \in SUBSET (1 .. Len(PlanOf[p]))
    BY <1>1, <1>2, Zenon
  <2> HIDE DEF S
  <2>3. IsFiniteSet(S)
    BY <2>1, <2>2, FS_Subset, Zenon
  <2> QED
    BY <1>1, <2>2, <2>3
<1> HIDE DEF S
<1>4. /\ m \in Nat /\ order \in [1 .. m -> S]
      /\ \A x \in S : \E i \in 1 .. m : order[i] = x
      /\ \A i, j \in 1 .. m : i < j => order[i] < order[j]
  BY <1>3, InOrderIsComplete, Zenon
<1> HIDE DEF m, order
<1>5. log = [j \in 1 .. m |-> Change(PlanOf[p][order[j]].key, Desired(p, order[j]), FALSE)]
  BY <1>4, Zenon DEF WriteLog, order, S
<1>6. \A j \in 1 .. m : order[j] \in DOMAIN PlanOf[p]
  BY <1>2, <1>4, Zenon
<1>7. \A j \in 1 .. m : log[j] \in ChangeRecords /\ log[j].key = PlanOf[p][order[j]].key
                       /\ Value(log[j]) = Desired(p, order[j])
  BY <1>5, <1>6, DesiredEvent DEF Change, ChangeRecords, Value
<1>8. log \in Seq(ChangeRecords) /\ DOMAIN log = 1 .. m
  <2>1. DOMAIN log = 1 .. m /\ log = [i \in 1 .. m |-> log[i]]
    BY <1>5, Zenon
  <2> QED
    BY <1>4, <1>7, <2>1, FunctionIsSequence, Zenon
<1>9. Written(p, n) = [k \in Keys |->
          IF \E i \in S : PlanOf[p][i].key = k
          THEN Desired(p, CHOOSE i \in S : PlanOf[p][i].key = k) ELSE events[k]]
  BY Zenon DEF Written, S
<1>10. ASSUME NEW k \in Keys
       PROVE  /\ Written(p, n)[k] \in RemoteEvents \cup {NoEvent}
              /\ \/ (\A j \in 1 .. m : log[j].key # k) /\ Written(p, n)[k] = events[k]
                 \/ \E i \in 1 .. m : /\ log[i].key = k /\ \A j \in 1 .. m : j > i => log[j].key # k
                                      /\ Written(p, n)[k] = Value(log[i])
  <2>1. CASE \E i \in S : PlanOf[p][i].key = k
    <3> DEFINE c == CHOOSE i \in S : PlanOf[p][i].key = k
    <3>1. c \in S /\ PlanOf[p][c].key = k
      BY <2>1, Zenon
    <3>2. Written(p, n)[k] = Desired(p, c)
      BY <1>9, <2>1, Zenon
    <3> HIDE DEF c
    <3>3. PICK i \in 1 .. m : order[i] = c
      BY <1>4, <3>1, Zenon
    <3>4. \A j \in 1 .. m : log[j].key = k => order[j] = c
      BY <1>2, <1>6, <1>7, <3>1, PlansAssumption
    <3>5. \A j \in 1 .. m : j > i => log[j].key # k
      <4> SUFFICES ASSUME NEW j \in 1 .. m, j > i, log[j].key = k
                   PROVE  FALSE
        BY Zenon
      <4>1. order[j] = order[i] /\ order[i] \in Nat
        BY <1>3, <3>1, <3>3, <3>4, Zenon
      <4>2. order[i] < order[j]
        BY <1>4, Zenon
      <4> QED
        BY <4>1, <4>2
    <3>6. Desired(p, c) \in RemoteEvents
      BY <1>2, <3>1, DesiredEvent, Zenon
    <3> QED
      BY <1>7, <3>1, <3>2, <3>3, <3>5, <3>6, Zenon
  <2>2. CASE ~\E i \in S : PlanOf[p][i].key = k
    <3>1. Written(p, n)[k] = events[k]
      BY <1>9, <2>2, Zenon
    <3>2. events[k] \in RemoteEvents \cup {NoEvent}
      BY Zenon DEF Calendars
    <3>3. \A j \in 1 .. m : log[j].key # k
      BY <1>4, <1>7, <2>2
    <3> QED
      BY <3>1, <3>2, <3>3, Zenon
  <2> QED
    BY <2>1, <2>2, Zenon
<1>11. Written(p, n) \in Calendars
  BY <1>9, <1>10, Zenon DEF Calendars
<1> QED
  BY <1>8, <1>10, <1>11 DEF Explains

\* What the provider logs of a deletion explains it.
LEMMA DeletionIsLogged ==
  ASSUME events \in Calendars, NEW gone \in SUBSET Keys
  PROVE  /\ Deleted(gone) \in Calendars
         /\ DeleteLog(gone) \in Seq(ChangeRecords)
         /\ Explains(DeleteLog(gone), events, Deleted(gone))
<1> DEFINE order == AnyOrder(gone)
           m == Cardinality(gone)
           log == DeleteLog(gone)
<1>1. IsFiniteSet(gone)
  BY KeysAreFinite, FS_Subset, Zenon
<1>2. /\ m \in Nat /\ order \in [1 .. m -> gone]
      /\ \A x \in gone : \E i \in 1 .. m : order[i] = x
      /\ \A i, j \in 1 .. m : order[i] = order[j] => i = j
  BY <1>1, AnyOrderIsComplete, Zenon
<1> HIDE DEF m, order
<1>3. log = [i \in 1 .. m |-> Change(order[i], events[order[i]], TRUE)]
  BY <1>2, Zenon DEF DeleteLog, order
<1>4. \A i \in 1 .. m : log[i] \in ChangeRecords /\ log[i].key = order[i] /\ Value(log[i]) = NoEvent
  BY <1>2, <1>3 DEF Change, ChangeRecords, Value, Calendars
<1>5. log \in Seq(ChangeRecords) /\ DOMAIN log = 1 .. m
  <2>1. DOMAIN log = 1 .. m /\ log = [i \in 1 .. m |-> log[i]]
    BY <1>3, Zenon
  <2> QED
    BY <1>2, <1>4, <2>1, FunctionIsSequence, Zenon
<1>6. Deleted(gone) = [k \in Keys |-> IF k \in gone THEN NoEvent ELSE events[k]]
  BY Zenon DEF Deleted
<1>7. Deleted(gone) \in Calendars
  BY <1>6, Zenon DEF Calendars
<1>8. ASSUME NEW k \in Keys
      PROVE  \/ (\A j \in 1 .. m : log[j].key # k) /\ Deleted(gone)[k] = events[k]
             \/ \E i \in 1 .. m : /\ log[i].key = k /\ \A j \in 1 .. m : j > i => log[j].key # k
                                  /\ Deleted(gone)[k] = Value(log[i])
  <2>1. CASE k \in gone
    <3>1. PICK i \in 1 .. m : order[i] = k
      BY <1>2, <2>1, Zenon
    <3>2. \A j \in 1 .. m : j > i => log[j].key # k
      BY <1>2, <1>4, <3>1
    <3> QED
      BY <1>4, <1>6, <2>1, <3>1, <3>2, Zenon
  <2>2. CASE k \notin gone
    BY <1>2, <1>4, <1>6, <2>2
  <2> QED
    BY <2>1, <2>2, Zenon
<1> QED
  BY <1>5, <1>7, <1>8, Zenon DEF Explains

\* An edit changes nothing but the content.
LEMMA EditedEvent ==
  ASSUME NEW A, NEW B, NEW C, NEW old \in [proposal : A, payload : B, content : C], NEW x \in C,
         NEW e, e = [old EXCEPT !.content = x]
  PROVE  e \in [proposal : A, payload : B, content : C] /\ e.proposal = old.proposal /\ e.payload = old.payload
BY Zenon

\* What the provider logs of an edit by the user explains it.
LEMMA EditIsLogged ==
  ASSUME events \in Calendars, NEW k \in Keys, events[k] # NoEvent,
         NEW e, e = [events[k] EXCEPT !.content = "edited"]
  PROVE  /\ [events EXCEPT ![k] = e] \in Calendars
         /\ <<Change(k, e, FALSE)>> \in Seq(ChangeRecords)
         /\ Explains(<<Change(k, e, FALSE)>>, events, [events EXCEPT ![k] = e])
         /\ e.proposal = events[k].proposal /\ e.payload = events[k].payload
<1>1. events[k] \in RemoteEvents
  BY Zenon DEF Calendars
<1>2. e \in RemoteEvents /\ e.proposal = events[k].proposal /\ e.payload = events[k].payload
  <2> DEFINE old == events[k]
  <2>1. old \in RemoteEvents /\ e = [old EXCEPT !.content = "edited"]
    BY <1>1, Zenon
  <2> HIDE DEF old
  <2>2. e \in RemoteEvents /\ e.proposal = old.proposal /\ e.payload = old.payload
    <3>1. "edited" \in Contents
      BY Zenon DEF Contents
    <3> QED
      BY <2>1, <3>1, EditedEvent, Zenon DEF RemoteEvents
  <2> QED
    BY <2>2, Zenon DEF old
<1>3. [events EXCEPT ![k] = e] \in Calendars
  BY <1>2, Zenon DEF Calendars
<1>4. Change(k, e, FALSE) \in ChangeRecords /\ Change(k, e, FALSE).key = k /\ Value(Change(k, e, FALSE)) = e
  BY <1>2, Zenon DEF Change, ChangeRecords, Value
<1> DEFINE c == Change(k, e, FALSE)
           after == [events EXCEPT ![k] = e]
<1>5. c \in ChangeRecords /\ c.key = k /\ Value(c) = e
  BY <1>4, Zenon
<1>6. after[k] = e /\ \A x \in Keys \ {k} : after[x] = events[x]
  BY Zenon DEF Calendars
<1> HIDE DEF c, after
<1>7. <<c>> \in Seq(ChangeRecords) /\ DOMAIN <<c>> = {1} /\ <<c>>[1] = c
  BY <1>5
<1>8. Explains(<<c>>, events, after)
  <2> DEFINE log == <<c>>
  <2>1. DOMAIN log = {1} /\ log[1] = c
    BY <1>7, Zenon
  <2> HIDE DEF log
  <2>2. /\ log[1].key = k /\ after[k] = Value(log[1])
        /\ \A i, j \in DOMAIN log : ~(j > i)
    BY <1>5, <1>6, <2>1
  <2>3. \A x \in Keys \ {k} : (\A i \in DOMAIN log : log[i].key # x) /\ after[x] = events[x]
    BY <1>5, <1>6, <2>1, Zenon
  <2>4. Explains(log, events, after)
    BY <2>1, <2>2, <2>3, Zenon DEF Explains
  <2> QED
    BY <2>4, Zenon DEF log
<1> QED
  BY <1>2, <1>3, <1>7, <1>8, Zenon DEF c, after

-----------------------------------------------------------------------------
\* The inductive invariant of the slice.

ProposalStates == {"none", "proposed", "approved", "applied", "reverted"}

SliceTypes ==
  /\ record \in [DOMAIN PlanOf -> ProposalStates]
  /\ events \in Calendars
  /\ changes \in Seq(ChangeRecords)
  /\ mirror \in [token : Nat \cup {NoToken}, events : Calendars]

\* No one resets a round here, so a proposal has one round only.
NoResets == \A m \in consumed : m[1] # "reset-round"

\* An event carries the payload of the proposal that wrote it, whoever
\* edited it since: rollback finds all of them.
EventsAreOwned ==
  \A k \in Keys : events[k] # NoEvent => events[k].payload = PlanOf[events[k].proposal]

\* What the provider has logged since the mirror's token leads from the
\* mirror to the calendar.
MirrorCatchesUp ==
  mirror.token # NoToken =>
    /\ mirror.token <= Len(changes)
    /\ Explains(ChangesAfter(mirror.token), mirror.events, events)

SliceInv == SliceTypes /\ NoResets /\ EventsAreOwned /\ RevertedLeavesNothing /\ MirrorCatchesUp

\* The invariant of the slice holds at first.
LEMMA SliceInvInit == Init => SliceInv
<1> SUFFICES ASSUME Init PROVE SliceInv
  BY Zenon
<1> USE DEF Init, AuthorityInit, SliceInit
<1>1. events \in Calendars /\ \A k \in Keys : events[k] = NoEvent
  BY Zenon DEF Calendars
<1>2. SliceTypes
  <2>1. record \in [DOMAIN PlanOf -> ProposalStates] /\ changes \in Seq(ChangeRecords)
    BY DEF ProposalStates
  <2>2. mirror = [token |-> NoToken, events |-> events]
    BY Zenon
  <2> QED
    BY <1>1, <2>1, <2>2 DEF SliceTypes
<1>3. NoResets
  BY Zenon DEF NoResets
<1>4. EventsAreOwned /\ RevertedLeavesNothing
  BY <1>1, Zenon DEF EventsAreOwned, RevertedLeavesNothing
<1>5. MirrorCatchesUp
  BY Zenon DEF MirrorCatchesUp
<1> QED
  BY <1>2, <1>3, <1>4, <1>5, Zenon DEF SliceInv

\* The provider's part of a step: nothing, or changes that explain it.
CalendarStep ==
  /\ events' \in Calendars
  /\ \E log \in Seq(ChangeRecords) : changes' = changes \o log /\ Explains(log, events, events')

\* A step that leaves the calendar alone needs no log.
LEMMA IdleCalendarStep ==
  ASSUME SliceTypes, UNCHANGED <<events, changes>>
  PROVE  CalendarStep
<1>1. << >> \in Seq(ChangeRecords) /\ changes \o << >> = changes
  BY DEF SliceTypes
<1>2. Explains(<< >>, events, events)
  BY NothingExplainsNothing
<1> QED
  BY <1>1, <1>2, Zenon DEF CalendarStep, SliceTypes

\* What is logged after a token grows by what is logged now.
LEMMA SuffixGrows ==
  ASSUME NEW T, NEW s \in Seq(T), NEW log \in Seq(T), NEW t \in Nat, t <= Len(s)
  PROVE  SubSeq(s \o log, t + 1, Len(s \o log)) = SubSeq(s, t + 1, Len(s)) \o log
<1> DEFINE a == SubSeq(s \o log, t + 1, Len(s \o log))
           b == SubSeq(s, t + 1, Len(s)) \o log
           n == Len(s) + Len(log) - t
<1>1. n \in Nat /\ a \in Seq(T) /\ b \in Seq(T)
  OBVIOUS
<1>2. Len(a) = n /\ Len(b) = n
  OBVIOUS
<1>3. \A i \in 1 .. n : a[i] = b[i]
  OBVIOUS
<1> HIDE DEF a, b, n
<1>4. a = b
  BY <1>1, <1>2, <1>3
<1> QED
  BY <1>4, Zenon DEF a, b

\* A logged change of the calendar leaves the mirror able to catch up.
LEMMA CalendarStepKeepsMirror ==
  ASSUME SliceTypes, MirrorCatchesUp, CalendarStep, UNCHANGED mirror
  PROVE  MirrorCatchesUp'
<1> SUFFICES ASSUME mirror.token # NoToken
             PROVE  /\ mirror.token <= Len(changes')
                    /\ Explains(ChangesAfter(mirror.token)', mirror.events, events')
  BY Zenon DEF MirrorCatchesUp
<1> DEFINE t == mirror.token
<1>1. t \in Nat /\ t <= Len(changes) /\ Explains(ChangesAfter(t), mirror.events, events)
  BY Zenon DEF SliceTypes, MirrorCatchesUp
<1>2. PICK log \in Seq(ChangeRecords) : changes' = changes \o log /\ Explains(log, events, events')
  BY Zenon DEF CalendarStep
<1>3. changes \in Seq(ChangeRecords)
  BY Zenon DEF SliceTypes
<1>4. ChangesAfter(t) \in Seq(ChangeRecords)
  BY <1>1, <1>3 DEF ChangesAfter
<1>5. ChangesAfter(t)' = ChangesAfter(t) \o log
  <2>1. ChangesAfter(t)' = SubSeq(changes', t + 1, Len(changes'))
    BY Zenon DEF ChangesAfter
  <2> QED
    BY <1>1, <1>2, <1>3, <2>1, SuffixGrows, Zenon DEF ChangesAfter
<1>6. t <= Len(changes')
  BY <1>1, <1>2, <1>3
<1> HIDE DEF t
<1>7. Explains(ChangesAfter(t) \o log, mirror.events, events')
  BY <1>1, <1>2, <1>4, ExplainsCompose, Zenon
<1> QED
  BY <1>5, <1>6, <1>7, Zenon DEF t

\* A step that leaves the calendar, the mirror and the records alone.
LEMMA ElsewhereKeepsSlice ==
  ASSUME SliceInv, UNCHANGED <<events, changes, mirror, record>>,
         consumed \subseteq consumed', NoResets'
  PROVE  SliceInv'
<1> USE DEF SliceInv
<1>1. SliceTypes'
  BY Zenon DEF SliceTypes
<1>2. EventsAreOwned'
  BY Zenon DEF EventsAreOwned
<1>3. RevertedLeavesNothing'
  BY Zenon DEF RevertedLeavesNothing, ApprovedOnce
<1>4. MirrorCatchesUp'
  BY IdleCalendarStep, CalendarStepKeepsMirror, Zenon
<1> QED
  BY <1>1, <1>2, <1>3, <1>4, Zenon

\* Without resets every approval consumes the marker of the first round.
LEMMA ApprovalUsesFirstRound ==
  ASSUME NoResets, NEW p, NEW f
  PROVE  /\ RoundMarker(p, 0) \in ApproveKeys(consumed, p, f)
         /\ \A m \in ApproveKeys(consumed, p, f) : m[1] # "reset-round"
<1>1. ResetRounds(consumed, p) = {}
  BY Zenon DEF ResetRounds, NoResets
<1>2. Generation(consumed, p) = 0
  BY <1>1, FS_EmptySet, Zenon DEF Generation
<1> QED
  BY <1>2 DEF ApproveKeys, RoundMarker, ApproveMarker, ApproveKeyMarker

\* An approval of p that writes some of its events.
LEMMA WritingKeepsSlice ==
  ASSUME SliceInv, NEW p \in DOMAIN PlanOf, NEW f, NEW n, NEW state \in {"approved", "applied"},
         NEW more, more \in {{}, {ApplyMarker(ApprovalLease(p, f))}},
         events' = Written(p, n), changes' = changes \o WriteLog(p, n),
         consumed' = consumed \cup ApproveKeys(consumed, p, f) \cup more,
         Save(p, state), UNCHANGED mirror
  PROVE  SliceInv'
<1> USE DEF SliceInv
<1>1. CalendarStep
  BY WriteIsLogged, Zenon DEF CalendarStep, SliceTypes
<1>2. changes' \in Seq(ChangeRecords)
  BY WriteIsLogged DEF SliceTypes
<1>3. record' = [record EXCEPT ![p] = state] /\ record' \in [DOMAIN PlanOf -> ProposalStates]
  BY Zenon DEF Save, SliceTypes, ProposalStates
<1>4. SliceTypes'
  BY <1>1, <1>2, <1>3, Zenon DEF SliceTypes, CalendarStep
<1>5. NoResets'
  BY ApprovalUsesFirstRound DEF NoResets, ApplyMarker
<1>6. RoundMarker(p, 0) \in consumed' /\ consumed \subseteq consumed'
  BY ApprovalUsesFirstRound, Zenon
<1>7. ASSUME NEW k \in Keys
      PROVE  \/ events'[k] = events[k]
             \/ events'[k].proposal = p /\ events'[k].payload = PlanOf[p]
  <2>1. CASE \E i \in Upserts(p, n) : PlanOf[p][i].key = k
    <3>1. PICK i \in Upserts(p, n) : events'[k] = Desired(p, i)
      BY <2>1, Zenon DEF Written
    <3>2. i \in DOMAIN PlanOf[p]
      BY Zenon DEF Upserts
    <3> QED
      BY <3>1, <3>2, DesiredEvent
  <2>2. CASE ~\E i \in Upserts(p, n) : PlanOf[p][i].key = k
    BY <2>2, Zenon DEF Written
  <2> QED
    BY <2>1, <2>2, Zenon
<1>8. EventsAreOwned'
  BY <1>7, Zenon DEF EventsAreOwned
<1>9. RevertedLeavesNothing'
  <2> SUFFICES ASSUME NEW k \in Keys, events'[k] # NoEvent
               PROVE  /\ RoundMarker(events'[k].proposal, 0) \in consumed'
                      /\ record'[events'[k].proposal] # "reverted"
    BY Zenon DEF RevertedLeavesNothing, ApprovedOnce
  <2>1. record'[p] # "reverted" /\ \A q \in DOMAIN PlanOf \ {p} : record'[q] = record[q]
    BY <1>3, Zenon DEF SliceTypes
  <2>2. CASE events'[k].proposal = p
    BY <1>6, <2>1, <2>2, Zenon
  <2>3. CASE events'[k] = events[k] /\ events'[k].proposal # p
    <3>1. events[k].proposal \in DOMAIN PlanOf \ {p}
      BY <2>3, Zenon DEF SliceTypes, Calendars, RemoteEvents
    <3>2. RoundMarker(events[k].proposal, 0) \in consumed /\ record[events[k].proposal] # "reverted"
      BY <2>3, Zenon DEF RevertedLeavesNothing, ApprovedOnce
    <3> QED
      BY <1>6, <2>1, <2>3, <3>1, <3>2, Zenon
  <2> QED
    BY <1>7, <2>2, <2>3, Zenon
<1> QED
  BY <1>1, <1>4, <1>5, <1>8, <1>9, CalendarStepKeepsMirror, Zenon

\* Proposing a plan keeps the invariant.
LEMMA ProposingKeepsSlice ==
  ASSUME SliceInv, UNCHANGED <<events, changes, mirror, consumed>>,
         \/ UNCHANGED record
         \/ \E p \in DOMAIN PlanOf : Save(p, "proposed")
  PROVE  SliceInv'
<1> USE DEF SliceInv
<1>1. record' \in [DOMAIN PlanOf -> ProposalStates]
  BY Zenon DEF Save, SliceTypes, ProposalStates
<1>2. \A q \in DOMAIN PlanOf : record'[q] \in {record[q], "proposed"}
  BY Zenon DEF Save, SliceTypes
<1>3. SliceTypes'
  BY <1>1, Zenon DEF SliceTypes
<1>4. NoResets' /\ EventsAreOwned'
  BY Zenon DEF NoResets, EventsAreOwned
<1>5. RevertedLeavesNothing'
  <2>1. \A k \in Keys : events[k] # NoEvent => events[k].proposal \in DOMAIN PlanOf
    BY Zenon DEF SliceTypes, Calendars, RemoteEvents
  <2> QED
    BY <1>2, <2>1, Zenon DEF RevertedLeavesNothing, ApprovedOnce
<1>6. MirrorCatchesUp'
  BY IdleCalendarStep, CalendarStepKeepsMirror, Zenon
<1> QED
  BY <1>3, <1>4, <1>5, <1>6, Zenon

\* A revert, whole or cut short, deletes only what its plan owns.
LEMMA DeletingKeepsSlice ==
  ASSUME SliceInv, NEW p \in DOMAIN PlanOf, NEW gone \in SUBSET Owned(p),
         events' = Deleted(gone), changes' = changes \o DeleteLog(gone),
         \/ UNCHANGED <<consumed, record>>
         \/ /\ gone = Owned(p) /\ Save(p, "reverted")
            /\ \E undo \in Rollbacks : consumed' = consumed \cup {RevertMarker(undo)},
         UNCHANGED mirror
  PROVE  SliceInv'
<1> USE DEF SliceInv
<1>1. gone \in SUBSET Keys
  BY Zenon DEF Owned
<1>2. CalendarStep /\ changes' \in Seq(ChangeRecords)
  <2>1. events \in Calendars /\ changes \in Seq(ChangeRecords)
    BY Zenon DEF SliceTypes
  <2>2. /\ events' \in Calendars /\ DeleteLog(gone) \in Seq(ChangeRecords)
        /\ Explains(DeleteLog(gone), events, events')
    BY <1>1, <2>1, DeletionIsLogged, Zenon
  <2> QED
    BY <2>1, <2>2, SMTT(30) DEF CalendarStep
<1>3. record' \in [DOMAIN PlanOf -> ProposalStates]
  BY Zenon DEF Save, SliceTypes, ProposalStates
<1>4. SliceTypes'
  BY <1>2, <1>3, Zenon DEF SliceTypes, CalendarStep
<1>5. NoResets' /\ consumed \subseteq consumed'
  BY DEF NoResets, RevertMarker
<1>6. \A k \in Keys : events'[k] # NoEvent => events'[k] = events[k] /\ k \notin gone
  BY Zenon DEF Deleted
<1>7. EventsAreOwned'
  BY <1>6, Zenon DEF EventsAreOwned
<1>8. RevertedLeavesNothing'
  <2> SUFFICES ASSUME NEW k \in Keys, events'[k] # NoEvent
               PROVE  /\ RoundMarker(events'[k].proposal, 0) \in consumed'
                      /\ record'[events'[k].proposal] # "reverted"
    BY Zenon DEF RevertedLeavesNothing, ApprovedOnce
  <2>1. events'[k] = events[k] /\ k \notin gone /\ events[k].proposal \in DOMAIN PlanOf
    BY <1>6, Zenon DEF SliceTypes, Calendars, RemoteEvents
  <2>2. RoundMarker(events[k].proposal, 0) \in consumed /\ record[events[k].proposal] # "reverted"
    BY <2>1, Zenon DEF RevertedLeavesNothing, ApprovedOnce
  <2>3. CASE UNCHANGED <<consumed, record>>
    BY <2>1, <2>2, <2>3, Zenon
  <2>4. CASE gone = Owned(p) /\ Save(p, "reverted")
    <3>1. events[k].payload = PlanOf[events[k].proposal]
      BY <2>1, Zenon DEF EventsAreOwned
    <3>2. events[k].proposal # p
      BY <2>1, <2>4, <3>1, Zenon DEF Owned
    <3>3. record'[events[k].proposal] = record[events[k].proposal]
      BY <2>1, <2>4, <3>2, Zenon DEF Save, SliceTypes
    <3> QED
      BY <1>5, <2>1, <2>2, <3>3, Zenon
  <2> QED
    BY <2>3, <2>4, Zenon
<1> QED
  BY <1>2, <1>4, <1>5, <1>7, <1>8, CalendarStepKeepsMirror, Zenon

\* An edit by the user keeps the invariant.
LEMMA EditingKeepsSlice ==
  ASSUME SliceInv, NEW k \in Keys, ExternalEdit(k)
  PROVE  SliceInv'
<1> USE DEF SliceInv
<1> DEFINE e == [events[k] EXCEPT !.content = "edited"]
<1>1. /\ events[k] # NoEvent /\ events' = [events EXCEPT ![k] = e]
      /\ changes' = Append(changes, Change(k, e, FALSE))
      /\ UNCHANGED <<consumed, record, mirror>>
  BY Zenon DEF ExternalEdit, authorityVars
<1> HIDE DEF e
<1>2. /\ events' \in Calendars /\ <<Change(k, e, FALSE)>> \in Seq(ChangeRecords)
      /\ Explains(<<Change(k, e, FALSE)>>, events, events')
      /\ e.proposal = events[k].proposal /\ e.payload = events[k].payload
  BY <1>1, EditIsLogged, Zenon DEF SliceTypes, e
<1> DEFINE c == Change(k, e, FALSE)
<1> HIDE DEF c
<1>3. changes' = changes \o <<c>> /\ changes' \in Seq(ChangeRecords)
  <2>1. <<c>> \in Seq(ChangeRecords) /\ changes \in Seq(ChangeRecords)
    BY <1>2, Zenon DEF c, SliceTypes
  <2>2. c \in ChangeRecords
    BY <2>1
  <2>3. changes' = Append(changes, c)
    BY <1>1, Zenon DEF c
  <2> QED
    BY <2>1, <2>2, <2>3
<1>4. CalendarStep
  BY <1>2, <1>3, Zenon DEF CalendarStep, c
<1>5. SliceTypes' /\ NoResets'
  BY <1>1, <1>2, <1>3, Zenon DEF SliceTypes, NoResets
<1>6. \A x \in Keys : events'[x] # NoEvent =>
         /\ events[x] # NoEvent
         /\ events'[x].proposal = events[x].proposal /\ events'[x].payload = events[x].payload
  BY <1>1, <1>2, Zenon DEF SliceTypes, Calendars
<1>7. EventsAreOwned'
  BY <1>6, Zenon DEF EventsAreOwned
<1>8. RevertedLeavesNothing'
  BY <1>1, <1>6 DEF RevertedLeavesNothing, ApprovedOnce
<1> QED
  BY <1>1, <1>4, <1>5, <1>7, <1>8, CalendarStepKeepsMirror, Zenon

\* A reconciliation brings the mirror to the present token, or empties it.
LEMMA ReconcilingKeepsSlice ==
  ASSUME SliceInv, Reconcile
  PROVE  SliceInv'
<1> USE DEF SliceInv
<1>1. UNCHANGED <<events, changes, consumed, record>>
  BY Zenon DEF Reconcile, authorityVars
<1>2. \/ mirror' = [token |-> NoToken, events |-> [k \in Keys |-> NoEvent]]
      \/ mirror' = Synchronized(mirror)
  BY Zenon DEF Reconcile
<1>3. Len(changes) \in Nat /\ NoToken \notin Nat
  BY DEF SliceTypes, NoToken
<1>4. ASSUME mirror' = Synchronized(mirror)
      PROVE  mirror' = [token |-> Len(changes), events |-> events]
  <2> DEFINE t == mirror.token
  <2>1. CASE t = NoToken \/ StaleToken(t)
    BY <1>4, <2>1, Zenon DEF Synchronized
  <2>2. CASE ~(t = NoToken \/ StaleToken(t))
    <3>1. t \in Nat /\ Explains(ChangesAfter(t), mirror.events, events)
      BY <2>2, Zenon DEF SliceTypes, MirrorCatchesUp
    <3>2. ChangesAfter(t) \in Seq(ChangeRecords)
      BY <3>1 DEF ChangesAfter, SliceTypes
    <3>3. mirror' = [token |-> Len(changes), events |-> Merged(mirror.events, ChangesAfter(t))]
      BY <1>4, <2>2, Zenon DEF Synchronized
    <3> HIDE DEF t
    <3>4. Merged(mirror.events, ChangesAfter(t)) = events
      BY <3>1, <3>2, MergedIsReplay, Zenon DEF SliceTypes
    <3> QED
      BY <3>3, <3>4, Zenon
  <2> QED
    BY <2>1, <2>2, Zenon
<1>5. [k \in Keys |-> NoEvent] \in Calendars
  BY Zenon DEF Calendars
<1>6. SliceTypes'
  BY <1>1, <1>2, <1>3, <1>4, <1>5 DEF SliceTypes
<1>7. NoResets' /\ EventsAreOwned' /\ RevertedLeavesNothing'
  BY <1>1, Zenon DEF NoResets, EventsAreOwned, RevertedLeavesNothing, ApprovedOnce
<1>8. MirrorCatchesUp'
  <2>1. CASE mirror'.token = NoToken
    BY <2>1, Zenon DEF MirrorCatchesUp
  <2>2. CASE mirror' = [token |-> Len(changes), events |-> events]
    <3>1. DOMAIN ChangesAfter(Len(changes)) = {}
      BY <1>3 DEF ChangesAfter, SliceTypes
    <3>2. Explains(ChangesAfter(Len(changes)), events, events)
      BY <3>1, NothingExplainsNothing, Zenon
    <3>3. /\ mirror'.token = Len(changes) /\ mirror'.events = events
          /\ ChangesAfter(Len(changes))' = ChangesAfter(Len(changes))
      BY <1>1, <2>2, Zenon DEF ChangesAfter
    <3>4. ChangesAfter(mirror.token)' = ChangesAfter(Len(changes))
      BY <1>1, <3>3, Zenon DEF ChangesAfter
    <3>5. Explains(ChangesAfter(mirror.token)', mirror'.events, events')
      BY <1>1, <3>2, <3>3, <3>4, Zenon
    <3> QED
      BY <1>1, <1>3, <3>3, <3>5 DEF MirrorCatchesUp
  <2> QED
    BY <1>2, <1>4, <2>1, <2>2
<1> QED
  BY <1>6, <1>7, <1>8, Zenon

\* The agents' steps only add to the consumed facts, and reset no round.
LEMMA AgentsKeepSlice ==
  ASSUME SliceInv, UNCHANGED sliceVars,
         \/ UNCHANGED consumed
         \/ \E p, f : consumed' = consumed \cup ApproveKeys(consumed, p, f)
         \/ \E lease : consumed' = consumed \cup {ApplyMarker(lease)}
         \/ \E undo : consumed' = consumed \cup {RevertMarker(undo)}
  PROVE  SliceInv'
<1>1. NoResets' /\ consumed \subseteq consumed'
  BY ApprovalUsesFirstRound DEF SliceInv, NoResets, ApplyMarker, RevertMarker
<1>2. UNCHANGED <<events, changes, mirror, record>>
  BY Zenon DEF sliceVars
<1> QED
  BY <1>1, <1>2, ElsewhereKeepsSlice, Zenon

\* Every step keeps the invariant of the slice.
LEMMA SliceInvStep == SliceInv /\ [Next]_vars => SliceInv'
<1> SUFFICES ASSUME SliceInv, [Next]_vars PROVE SliceInv'
  BY Zenon
<1> USE DEF authorityVars
<1>1. CASE UNCHANGED vars
  BY <1>1, AgentsKeepSlice, Zenon DEF vars
<1>2. CASE (Tick \/ \E d \in Devices : RevokeDevice(d)) /\ UNCHANGED <<sliceVars, agentVars>>
  BY <1>2, AgentsKeepSlice, Zenon DEF Tick, RevokeDevice
<1>3. ASSUME NEW c \in deployment.captures, Preview(c) PROVE SliceInv'
  BY <1>3, ProposingKeepsSlice, Zenon DEF Preview, Interpreted
<1>4. ASSUME NEW c \in deployment.captures, NEW p \in DOMAIN PlanOf, Replan(c, p) PROVE SliceInv'
  BY <1>4, ProposingKeepsSlice, Zenon DEF Replan, Interpreted
<1>5. ASSUME NEW p \in DOMAIN PlanOf, NEW f \in Proofs, ApproveAndApply(p, f) PROVE SliceInv'
  <2> DEFINE more == {ApplyMarker(ApprovalLease(p, f))}
  <2>1. /\ events' = Written(p, Len(PlanOf[p])) /\ changes' = changes \o WriteLog(p, Len(PlanOf[p]))
        /\ consumed' = consumed \cup ApproveKeys(consumed, p, f) \cup more
        /\ Save(p, "applied") /\ UNCHANGED mirror
    BY <1>5, Zenon DEF ApproveAndApply
  <2> QED
    BY <2>1, WritingKeepsSlice, Zenon
<1>6. ASSUME NEW p \in DOMAIN PlanOf, NEW f \in Proofs, ApproveRefused(p, f) PROVE SliceInv'
  <2>1. /\ events' = Written(p, Reach(p)) /\ changes' = changes \o WriteLog(p, Reach(p))
        /\ consumed' = consumed \cup ApproveKeys(consumed, p, f) \cup {}
        /\ Save(p, "approved") /\ UNCHANGED mirror
    BY <1>6, Zenon DEF ApproveRefused
  <2> QED
    BY <2>1, WritingKeepsSlice, Zenon
<1>7. ASSUME NEW p \in DOMAIN PlanOf, NEW f \in Proofs, ApproveFailed(p, f) PROVE SliceInv'
  <2>1. /\ consumed' = consumed \cup ApproveKeys(consumed, p, f) \cup {}
        /\ Save(p, "approved") /\ UNCHANGED mirror
    BY <1>7, Zenon DEF ApproveFailed
  <2>2. \E n : events' = Written(p, n) /\ changes' = changes \o WriteLog(p, n)
    <3>1. CASE UNCHANGED <<events, changes>>
      <4>1. Upserts(p, 0) = {}
        <5>1. DOMAIN PlanOf[p] \subseteq Nat \ {0}
          BY PlansAssumption
        <5> QED
          BY <5>1 DEF Upserts
      <4>2. Written(p, 0) = events
        BY <4>1, Zenon DEF Written, SliceInv, SliceTypes, Calendars
      <4>3. WriteLog(p, 0) = << >>
        <5>1. /\ IsFiniteSet(Upserts(p, 0)) /\ Upserts(p, 0) \subseteq Nat
              /\ Cardinality(Upserts(p, 0)) = 0
          BY <4>1, FS_EmptySet, Zenon
        <5>2. InOrder(Upserts(p, 0)) \in [1 .. 0 -> Upserts(p, 0)]
          BY <5>1, InOrderIsComplete, Zenon
        <5>3. DOMAIN InOrder(Upserts(p, 0)) = {}
          BY <5>2
        <5>4. DOMAIN WriteLog(p, 0) = {}
          BY <5>3, Zenon DEF WriteLog
        <5>5. WriteLog(p, 0) \in Seq(ChangeRecords)
          BY WriteIsLogged, Zenon DEF SliceInv, SliceTypes
        <5> QED
          BY <5>4, <5>5
      <4>4. changes \o << >> = changes
        BY DEF SliceInv, SliceTypes
      <4> QED
        BY <3>1, <4>2, <4>3, <4>4, Zenon
    <3>2. CASE \E n \in 0 .. Reach(p) : events' = Written(p, n) /\ changes' = changes \o WriteLog(p, n)
      BY <3>2, Zenon
    <3> QED
      BY <1>7, <3>1, <3>2, Zenon DEF ApproveFailed
  <2> QED
    BY <2>1, <2>2, WritingKeepsSlice, Zenon
<1>8. ASSUME NEW p \in DOMAIN PlanOf, NEW r \in Rollbacks, Rollback(p, r) PROVE SliceInv'
  <2>1. /\ events' = Deleted(Owned(p)) /\ changes' = changes \o DeleteLog(Owned(p))
        /\ \/ UNCHANGED <<consumed, record>>
           \/ Save(p, "reverted") /\ consumed' = consumed \cup {RevertMarker(r)}
        /\ UNCHANGED mirror
    BY <1>8, Zenon DEF Rollback
  <2> QED
    BY <2>1, DeletingKeepsSlice, Zenon
<1>9. ASSUME NEW p \in DOMAIN PlanOf, NEW r \in Rollbacks, RollbackFailed(p, r) PROVE SliceInv'
  <2>1. PICK gone \in SUBSET Owned(p) :
          /\ events' = Deleted(gone) /\ changes' = changes \o DeleteLog(gone)
          /\ UNCHANGED <<consumed, record>>
    BY <1>9, Zenon DEF RollbackFailed, CutShort
  <2>2. UNCHANGED mirror
    BY <1>9, Zenon DEF RollbackFailed
  <2> QED
    BY <2>1, <2>2, DeletingKeepsSlice, Zenon
<1>10. ASSUME NEW k \in Keys, ExternalEdit(k) PROVE SliceInv'
  BY <1>10, EditingKeepsSlice, Zenon
<1>11. CASE ExpireSyncTokens \/ RevokeToken
  <2>1. UNCHANGED <<events, changes, mirror, record, consumed>>
    BY <1>11, Zenon DEF ExpireSyncTokens, RevokeToken
  <2> QED
    BY <2>1, ElsewhereKeepsSlice, Zenon DEF NoResets, SliceInv
<1>12. CASE Reconcile
  BY <1>12, ReconcilingKeepsSlice, Zenon
<1>13. CASE /\ UNCHANGED sliceVars
            /\ \/ \E p \in deployment.proposals, f \in Proofs : ApproveCopy(p, f)
               \/ \E p \in deployment.proposals, f \in Proofs : ApproveRollout(p, f)
               \/ \E c \in copies, l \in leases : ApplyRollout(c[1], c[2], l)
               \/ \E c \in copies, u \in Rollbacks : RollbackRollout(c[1], c[2], u)
  BY <1>13, AgentsKeepSlice, Zenon DEF ApproveCopy, ApproveRollout, ApplyRollout, RollbackRollout
<1>14. CASE /\ UNCHANGED sliceVars
            /\ \/ \E c \in copies, s \in deployment.scopes : Issue(c[1], c[2], s)
               \/ Rotate \/ Restart
               \/ \E r \in deployment.requests, c \in copies, l \in leases : DispatchProtected(r, c[1], c[2], l)
               \/ \E r \in deployment.requests : DispatchUnprotected(r) \/ Cancel(r)
               \/ \E j \in jobs : Admit(j) \/ Commit(j)
               \/ \E e \in effects : Compensate(e) \/ ReconcileEffect(e)
               \/ \E c \in copies, l \in leases, u \in Rollbacks, v \in Rollbacks : Authorize(c[1], c[2], l, u, v)
               \/ \E p \in deployment.proposals : ProposeRollout(p)
  <2>1. UNCHANGED consumed
    BY <1>14, Zenon DEF Issue, Rotate, Restart, DispatchProtected, DispatchUnprotected, Cancel, Admit,
       Commit,
                 Compensate, ReconcileEffect, Settled, Authorize, ProposeRollout
  <2> QED
    BY <1>14, <2>1, AgentsKeepSlice, Zenon
<1> QED
  BY <1>1, <1>2, <1>3, <1>4, <1>5, <1>6, <1>7, <1>8, <1>9, <1>10, <1>11, <1>12, <1>13, <1>14,
     Zenon DEF Next

\* Only an approved proposal has events on the calendar, and one recorded as
\* reverted has none left, for every set of plans, proofs and failures.
THEOREM RevertedIsGone == Spec => []RevertedLeavesNothing
<1>1. SliceInv => RevertedLeavesNothing
  BY Zenon DEF SliceInv
<1> QED
  BY <1>1, SliceInvInit, SliceInvStep, PTL DEF Spec

\* A mirror at the provider's generation equals the calendar, for every
\* history of writes, edits, deletions and expired tokens.
THEOREM MirrorStaysExact == Spec => []MirrorIsExact
<1>1. SliceInv => MirrorIsExact
  <2> SUFFICES ASSUME SliceInv, mirror.token = Len(changes)
               PROVE  mirror.events = events
    BY Zenon DEF MirrorIsExact
  <2>1. Len(changes) \in Nat /\ mirror.events \in Calendars /\ events \in Calendars
    BY DEF SliceInv, SliceTypes
  <2>2. mirror.token # NoToken
    BY <2>1 DEF NoToken
  <2>3. Explains(ChangesAfter(Len(changes)), mirror.events, events)
    BY <2>2, Zenon DEF SliceInv, MirrorCatchesUp
  <2>4. DOMAIN ChangesAfter(Len(changes)) = {}
    BY <2>1 DEF ChangesAfter, SliceInv, SliceTypes
  <2>5. \A k \in Keys : events[k] = mirror.events[k]
    BY <2>3, <2>4, Zenon DEF Explains
  <2> QED
    BY <2>1, <2>5 DEF Calendars
<1> QED
  BY <1>1, SliceInvInit, SliceInvStep, PTL DEF Spec

-----------------------------------------------------------------------------
\* Rollouts and their leases.

SpentOn(p) == {l \in leases : l.proposal = p /\ ApplyMarker(l) \in consumed}

RolloutInv ==
  /\ IsFiniteSet(leases)
  /\ applications \in [DOMAIN ClassOf -> Nat]
  /\ ApplicationsSpendLeases

\* The invariant of the rollout holds at first.
LEMMA RolloutInvInit == Init => RolloutInv
<1> SUFFICES ASSUME Init PROVE RolloutInv
  OBVIOUS
<1>1. leases = {} /\ applications = [p \in DOMAIN ClassOf |-> 0]
  BY Zenon DEF Init, AgentInit
<1>2. IsFiniteSet(leases) /\ applications \in [DOMAIN ClassOf -> Nat]
  BY <1>1, FS_EmptySet, Zenon
<1>3. ASSUME NEW p \in DOMAIN ClassOf
      PROVE  applications[p] <= Cardinality(SpentOn(p))
  <2>1. SpentOn(p) = {}
    BY <1>1, Zenon DEF SpentOn
  <2> QED
    BY <1>1, <2>1, FS_EmptySet
<1> QED
  BY <1>2, <1>3, Zenon DEF RolloutInv, ApplicationsSpendLeases, SpentOn

\* More leases and more consumed facts only add to the spent leases.
LEMMA SpentOnGrows ==
  ASSUME RolloutInv, IsFiniteSet(leases'), leases \subseteq leases', consumed \subseteq consumed', NEW p
  PROVE  /\ IsFiniteSet(SpentOn(p)) /\ IsFiniteSet(SpentOn(p)')
         /\ SpentOn(p) \subseteq SpentOn(p)'
         /\ Cardinality(SpentOn(p)) \in Nat /\ Cardinality(SpentOn(p)') \in Nat
         /\ Cardinality(SpentOn(p)) <= Cardinality(SpentOn(p)')
         /\ SpentOn(p) # SpentOn(p)' => Cardinality(SpentOn(p)) + 1 <= Cardinality(SpentOn(p)')
<1>1. SpentOn(p)' = {l \in leases' : l.proposal = p /\ ApplyMarker(l) \in consumed'}
  BY Zenon DEF SpentOn, ApplyMarker
<1> DEFINE old == SpentOn(p)
           new == SpentOn(p)'
<1>2. old \in SUBSET leases /\ new \in SUBSET leases' /\ old \in SUBSET new
  BY <1>1, Zenon DEF SpentOn
<1>3. IsFiniteSet(leases)
  BY Zenon DEF RolloutInv
<1> HIDE DEF old, new
<1>4. IsFiniteSet(old) /\ IsFiniteSet(new)
  BY <1>2, <1>3, FS_Subset, Zenon
<1>5. Cardinality(old) \in Nat /\ Cardinality(new) \in Nat
  BY <1>4, FS_CardinalityType, Zenon
<1>6. Cardinality(old) <= Cardinality(new) /\ (Cardinality(new) = Cardinality(old) => new = old)
  BY <1>2, <1>4, FS_Subset, Zenon
<1>7. old # new => Cardinality(old) + 1 <= Cardinality(new)
  BY <1>5, <1>6
<1> QED
  BY <1>2, <1>4, <1>5, <1>6, <1>7, Zenon DEF old, new

\* A step that applies no stage keeps it.
LEMMA ElsewhereKeepsRollout ==
  ASSUME RolloutInv, IsFiniteSet(leases'), leases \subseteq leases', consumed \subseteq consumed',
         UNCHANGED applications
  PROVE  RolloutInv'
<1>1. ASSUME NEW p \in DOMAIN ClassOf
      PROVE  applications'[p] <= Cardinality(SpentOn(p)')
  <2>1. applications[p] <= Cardinality(SpentOn(p)) /\ applications[p] \in Nat
    BY Zenon DEF RolloutInv, ApplicationsSpendLeases, SpentOn
  <2>2. /\ Cardinality(SpentOn(p)) \in Nat /\ Cardinality(SpentOn(p)') \in Nat
        /\ Cardinality(SpentOn(p)) <= Cardinality(SpentOn(p)')
    BY SpentOnGrows, Zenon
  <2>3. applications'[p] = applications[p]
    BY Zenon
  <2> QED
    BY <2>1, <2>2, <2>3
<1>2. ApplicationsSpendLeases'
  BY <1>1, Zenon DEF ApplicationsSpendLeases, SpentOn
<1> QED
  BY <1>2, Zenon DEF RolloutInv

\* An applied stage has spent a lease that was not spent before.
LEMMA ApplyingKeepsRollout ==
  ASSUME RolloutInv, NEW p, NEW state, NEW lease \in leases, ApplyRollout(p, state, lease)
  PROVE  RolloutInv'
<1>1. /\ UNCHANGED leases /\ consumed' = consumed \cup {ApplyMarker(lease)}
      /\ lease.proposal = p /\ ApplyMarker(lease) \notin consumed
      /\ \/ UNCHANGED applications
         \/ applications' = [applications EXCEPT ![p] = @ + 1]
  BY Zenon DEF ApplyRollout, RolloutApplies, Applies, Verified, Unused, RolloutInv
<1>2. IsFiniteSet(leases') /\ leases \subseteq leases' /\ consumed \subseteq consumed'
  BY <1>1, Zenon DEF RolloutInv
<1>3. CASE UNCHANGED applications
  BY <1>2, <1>3, ElsewhereKeepsRollout, Zenon
<1>4. CASE applications' = [applications EXCEPT ![p] = @ + 1]
  <2>1. applications' \in [DOMAIN ClassOf -> Nat]
    <3>1. DOMAIN applications' = DOMAIN ClassOf /\ applications' = [q \in DOMAIN ClassOf |-> applications'[q]]
      BY <1>4, Zenon DEF RolloutInv
    <3>2. \A q \in DOMAIN ClassOf : applications'[q] \in Nat
      <4> SUFFICES ASSUME NEW q \in DOMAIN ClassOf PROVE applications'[q] \in Nat
        BY Zenon
      <4>1. applications[q] \in Nat /\ applications[q] + 1 \in Nat
        BY DEF RolloutInv
      <4>2. applications'[q] = IF q = p THEN applications[q] + 1 ELSE applications[q]
        BY <1>4, Zenon DEF RolloutInv
      <4> QED
        BY <4>1, <4>2, Zenon
    <3> QED
      BY <3>1, <3>2, Zenon
  <2>2. SpentOn(p) # SpentOn(p)'
    <3>1. SpentOn(p)' = {l \in leases' : l.proposal = p /\ ApplyMarker(l) \in consumed'}
      BY Zenon DEF SpentOn, ApplyMarker
    <3>2. lease \notin SpentOn(p) /\ lease \in SpentOn(p)'
      BY <1>1, <3>1, Zenon DEF SpentOn
    <3> QED
      BY <3>2, Zenon
  <2>3. ASSUME NEW q \in DOMAIN ClassOf
        PROVE  applications'[q] <= Cardinality(SpentOn(q)')
    <3>1. applications[q] <= Cardinality(SpentOn(q)) /\ applications[q] \in Nat
      BY Zenon DEF RolloutInv, ApplicationsSpendLeases, SpentOn
    <3>2. /\ Cardinality(SpentOn(q)) \in Nat /\ Cardinality(SpentOn(q)') \in Nat
          /\ Cardinality(SpentOn(q)) <= Cardinality(SpentOn(q)')
          /\ SpentOn(q) # SpentOn(q)' => Cardinality(SpentOn(q)) + 1 <= Cardinality(SpentOn(q)')
      BY <1>2, SpentOnGrows, Zenon
    <3>3. applications'[q] = IF q = p THEN applications[q] + 1 ELSE applications[q]
      BY <1>4 DEF RolloutInv
    <3>4. CASE q = p
      BY <2>2, <3>1, <3>2, <3>3, <3>4, SMTT(30)
    <3>5. CASE q # p
      BY <3>1, <3>2, <3>3, <3>5
    <3> QED
      BY <3>4, <3>5, Zenon
  <2>4. ApplicationsSpendLeases'
    BY <2>3, Zenon DEF ApplicationsSpendLeases, SpentOn
  <2> QED
    BY <1>2, <2>1, <2>4, Zenon DEF RolloutInv
<1> QED
  BY <1>1, <1>3, <1>4, Zenon

\* Every step keeps the invariant of the rollout.
LEMMA RolloutInvStep == RolloutInv /\ [Next]_vars => RolloutInv'
<1> SUFFICES ASSUME RolloutInv, [Next]_vars PROVE RolloutInv'
  OBVIOUS
<1>1. CASE \E c \in copies, l \in leases : ApplyRollout(c[1], c[2], l)
  BY <1>1, ApplyingKeepsRollout, Zenon
<1>2. CASE \E c \in copies, s \in deployment.scopes : Issue(c[1], c[2], s)
  <2>1. PICK c \in copies, s \in deployment.scopes : Issue(c[1], c[2], s)
    BY <1>2, Zenon
  <2>2. PICK l : leases' = leases \cup {l} /\ UNCHANGED <<consumed, applications>>
    BY <2>1, Zenon DEF Issue, authorityVars
  <2>3. IsFiniteSet(leases')
    BY <2>2, FS_AddElement, Zenon DEF RolloutInv
  <2> QED
    BY <2>2, <2>3, ElsewhereKeepsRollout, Zenon
<1>3. CASE UNCHANGED <<leases, applications>> /\ consumed \subseteq consumed'
  BY <1>3, ElsewhereKeepsRollout, Zenon DEF RolloutInv
<1>4. CASE UNCHANGED vars
  BY <1>3, <1>4, Zenon DEF vars, agentVars, authorityVars
<1>5. CASE /\ UNCHANGED agentVars
           /\ \/ Tick \/ \E d \in Devices : RevokeDevice(d)
              \/ \E c \in deployment.captures : Preview(c) \/ \E p \in DOMAIN PlanOf : Replan(c, p)
              \/ \E p \in DOMAIN PlanOf, f \in Proofs :
                   ApproveAndApply(p, f) \/ ApproveRefused(p, f) \/ ApproveFailed(p, f)
              \/ \E p \in DOMAIN PlanOf, r \in Rollbacks : Rollback(p, r) \/ RollbackFailed(p, r)
              \/ \E k \in Keys : ExternalEdit(k)
              \/ ExpireSyncTokens \/ RevokeToken \/ Reconcile
  <2>1. consumed \subseteq consumed'
    BY <1>5, Zenon DEF Tick, RevokeDevice, Preview, Replan, ApproveAndApply, ApproveRefused,
       ApproveFailed, Rollback,
                RollbackFailed, CutShort, ExternalEdit, ExpireSyncTokens, RevokeToken, Reconcile, authorityVars
  <2> QED
    BY <1>3, <1>5, <2>1, Zenon DEF agentVars
<1>6. CASE \/ \E p \in deployment.proposals, f \in Proofs : ApproveCopy(p, f)
           \/ \E p \in deployment.proposals, f \in Proofs : ApproveRollout(p, f)
           \/ \E c \in copies, u \in Rollbacks : RollbackRollout(c[1], c[2], u)
           \/ \E p \in deployment.proposals : ProposeRollout(p)
           \/ Rotate \/ Restart
  <2>1. UNCHANGED <<leases, applications>> /\ consumed \subseteq consumed'
    BY <1>6, Zenon DEF ApproveCopy, ApproveRollout, RollbackRollout, ProposeRollout, Rotate, Restart,
       authorityVars
  <2> QED
    BY <1>3, <2>1, Zenon
<1>7. CASE \/ \E r \in deployment.requests, c \in copies, l \in leases : DispatchProtected(r, c[1], c[2], l)
           \/ \E r \in deployment.requests : DispatchUnprotected(r) \/ Cancel(r)
           \/ \E j \in jobs : Admit(j) \/ Commit(j)
           \/ \E e \in effects : Compensate(e) \/ ReconcileEffect(e)
           \/ \E c \in copies, l \in leases, u \in Rollbacks, v \in Rollbacks : Authorize(c[1], c[2], l, u, v)
  <2>1. UNCHANGED <<leases, applications, consumed>>
    BY <1>7, Zenon DEF DispatchProtected, DispatchUnprotected, Cancel, Admit, Commit, Compensate,
       ReconcileEffect,
                Settled, Authorize, authorityVars
  <2> QED
    BY <1>3, <2>1, Zenon
<1> QED
  BY <1>1, <1>2, <1>4, <1>5, <1>6, <1>7, Zenon DEF Next

\* Every application of a rollout stage has used up a lease of its own, for
\* any number of leases, restarts and repeated requests.
THEOREM ApplicationsAreBacked == Spec => []ApplicationsSpendLeases
<1>1. RolloutInv => ApplicationsSpendLeases
  BY Zenon DEF RolloutInv
<1> QED
  BY <1>1, RolloutInvInit, RolloutInvStep, PTL DEF Spec

-----------------------------------------------------------------------------
\* What leases are used for.

\* Work x was dispatched in this life of the process under its lease.
Held(x) ==
  /\ x.lease \in leases /\ RequestOf[x.lease.proposal] = x.request
  /\ \E i \in DOMAIN uses : uses[i] = [lease |-> x.lease, by |-> "dispatch", boot |-> boot]

Unleased(j) == j.lease = NoLease /\ ~j.admitted /\ j.request.capability \notin ProtectedCapabilities

OwnLeases(S) == \A x, y \in S : x # y /\ x.lease = y.lease => x.lease = NoLease
OwnHandles(S) == \A x, y \in S : x # y /\ x.handle = y.handle => x.handle = NoHandle
Working == {j \in jobs : j.admitted} \cup effects

JobFields == {"request", "lease", "handle", "started", "admitted"}
EffectFields == {"n", "request", "lease", "handle", "status", "reconciliation"}

\* Every lease, and so every use of one, goes back to an approval.
LeasesAreApproved ==
  /\ \A c \in copies : c[2] = "approved" => ApprovedOnce(c[1])
  /\ \A l \in leases : ApprovedOnce(l.proposal) /\ "proposal" \in DOMAIN l

\* What was used in this life of the process is spent.
UsesAreSpent ==
  /\ boot \in Nat /\ \E S : uses \in Seq(S)
  /\ \A i \in DOMAIN uses :
       /\ uses[i].lease \in leases /\ uses[i].boot \in 0 .. boot
       /\ uses[i].boot = boot => uses[i].lease.id \in spent
  /\ \A i, j \in DOMAIN uses :
       uses[i].lease = uses[j].lease /\ uses[i].boot = uses[j].boot => i = j

\* Attempts and effects have leases and handles of their own.
WorkIsHeld ==
  /\ \A j \in jobs : DOMAIN j = JobFields /\ (Held(j) \/ Unleased(j))
  /\ \A e \in effects : DOMAIN e = EffectFields /\ Held(e)
  /\ OwnLeases(jobs \cup effects) /\ OwnHandles(Working)
  /\ \A x \in Working : x.handle \in handles \cup {NoHandle}

LeaseInv == LeasesAreApproved /\ UsesAreSpent /\ WorkIsHeld

\* The invariant of the leases says that uses are backed.
LEMMA LeaseInvImplies == LeaseInv => UsesAreBacked
<1> SUFFICES ASSUME LeaseInv PROVE UsesAreBacked
  BY Zenon
<1> USE DEF LeaseInv
<1>1. \A i, j \in DOMAIN uses : uses[i].lease = uses[j].lease /\ uses[i].boot = uses[j].boot => i = j
  BY Zenon DEF UsesAreSpent
<1>2. \A i \in DOMAIN uses : ApprovedOnce(uses[i].lease.proposal)
  BY Zenon DEF UsesAreSpent, LeasesAreApproved
<1>3. \A l \in leases : l # NoLease
  BY Zenon DEF LeasesAreApproved, NoLease
<1>4. \A e \in effects : Held(e) /\ e.lease # NoLease
  BY <1>3, Zenon DEF WorkIsHeld, Held
<1>5. ASSUME NEW e \in effects, NEW x \in effects \ {e}
      PROVE  x.lease # e.lease /\ (x.handle # e.handle \/ e.handle = NoHandle)
  BY <1>4, Zenon DEF WorkIsHeld, OwnLeases, OwnHandles, Working
<1> QED
  BY <1>1, <1>2, <1>4, <1>5, Zenon DEF UsesAreBacked, Held

\* The invariant of the leases holds at first.
LEMMA LeaseInvInit == Init => LeaseInv
<1> SUFFICES ASSUME Init PROVE LeaseInv
  OBVIOUS
<1>1. /\ leases = {} /\ jobs = {} /\ effects = {} /\ boot = 0 /\ uses = << >>
      /\ \A c \in copies : c[2] = "proposed"
  BY Zenon DEF Init, AgentInit
<1>2. LeasesAreApproved
  BY <1>1, Zenon DEF LeasesAreApproved
<1>3. uses \in Seq({}) /\ DOMAIN uses = {}
  BY <1>1
<1>4. UsesAreSpent
  BY <1>1, <1>3, Zenon DEF UsesAreSpent
<1>5. WorkIsHeld
  BY <1>1, Zenon DEF WorkIsHeld, OwnLeases, OwnHandles, Working
<1> QED
  BY <1>2, <1>4, <1>5, Zenon DEF LeaseInv

\* What a sequence with one more element holds where.
LEMMA AppendFacts ==
  ASSUME NEW s, \E S : s \in Seq(S), NEW e, NEW t, t = Append(s, e)
  PROVE  /\ \E S : t \in Seq(S)
         /\ Len(s) \in Nat /\ DOMAIN s = 1 .. Len(s) /\ DOMAIN t = 1 .. (Len(s) + 1)
         /\ t[Len(s) + 1] = e /\ \A i \in DOMAIN s : t[i] = s[i]
<1>1. PICK S : s \in Seq(S)
  BY Zenon
<1> DEFINE T == S \cup {e}
<1>2. s \in Seq(T) /\ e \in T
  BY <1>1
<1> HIDE DEF T
<1> QED
  BY <1>2

\* The work under way and done, with x replaced by y of the same lease and handle.
LEMMA ReplacedWork ==
  ASSUME NEW S, NEW x \in S, NEW y, y.lease = x.lease, y.handle = x.handle
  PROVE  /\ OwnLeases(S) => OwnLeases((S \ {x}) \cup {y})
         /\ OwnHandles(S) => OwnHandles((S \ {x}) \cup {y})
BY Zenon DEF OwnLeases, OwnHandles

\* New objects in the state approved come with a consumed approval.
CopiesStayApproved ==
  \A c \in copies' : c \in copies \/ (c[2] = "approved" => RoundMarker(c[1], 0) \in consumed')

\* An approval that was consumed stays consumed.
LEMMA ApprovalsStay ==
  ASSUME LeaseInv, consumed \subseteq consumed', CopiesStayApproved,
         \A l \in leases' : l \in leases \/ (ApprovedOnce(l.proposal) /\ "proposal" \in DOMAIN l)
  PROVE  LeasesAreApproved'
BY Zenon DEF LeaseInv, LeasesAreApproved, ApprovedOnce, CopiesStayApproved

\* A use that backs some work goes on backing it.
LEMMA HeldStays ==
  ASSUME NEW x, Held(x), leases \subseteq leases', boot' = boot,
         \A i \in DOMAIN uses : i \in DOMAIN uses' /\ uses'[i] = uses[i]
  PROVE  Held(x)'
BY Zenon DEF Held

\* A step that uses no lease and leaves the work alone keeps the invariant.
LEMMA ElsewhereKeepsLeases ==
  ASSUME LeaseInv, consumed \subseteq consumed', CopiesStayApproved,
         leases \subseteq leases',
         \A l \in leases' : l \in leases \/ (ApprovedOnce(l.proposal) /\ "proposal" \in DOMAIN l),
         UNCHANGED <<uses, boot, spent, jobs, effects, handles>>
  PROVE  LeaseInv'
<1> USE DEF LeaseInv
<1>1. LeasesAreApproved'
  BY ApprovalsStay, Zenon
<1>2. UsesAreSpent'
  BY Zenon DEF UsesAreSpent
<1>3. \A x : Held(x) => Held(x)'
  BY HeldStays, Zenon
<1>4. \A x : Unleased(x)' = Unleased(x)
  BY Zenon DEF Unleased
<1>5. WorkIsHeld'
  BY <1>3, <1>4, Zenon DEF WorkIsHeld, Working, OwnLeases, OwnHandles
<1> QED
  BY <1>1, <1>2, <1>5, Zenon

\* A lease that verifies is in no use of this life of the process.
LEMMA SpendingKeepsUses ==
  ASSUME LeaseInv, NEW lease \in leases, NEW by, lease.id \notin spent, Spend(lease, by),
         UNCHANGED <<boot, leases>>
  PROVE  /\ UsesAreSpent'
         /\ \A i \in DOMAIN uses : i \in DOMAIN uses' /\ uses'[i] = uses[i]
         /\ \E i \in DOMAIN uses' : uses'[i] = [lease |-> lease, by |-> by, boot |-> boot]
<1> DEFINE u == [lease |-> lease, by |-> by, boot |-> boot]
           n == Len(uses) + 1
<1>1. uses' = Append(uses, u) /\ spent' = spent \cup {lease.id}
  BY Zenon DEF Spend
<1>2. u.lease = lease /\ u.boot = boot
  BY Zenon
<1> HIDE DEF u
<1>3. /\ \E S : uses' \in Seq(S)
      /\ Len(uses) \in Nat /\ DOMAIN uses = 1 .. Len(uses) /\ DOMAIN uses' = 1 .. n
      /\ uses'[n] = u /\ \A i \in DOMAIN uses : uses'[i] = uses[i]
  BY <1>1, AppendFacts, SMTT(30) DEF LeaseInv, UsesAreSpent
<1>4. /\ boot \in Nat
      /\ \A i \in DOMAIN uses : uses[i].lease \in leases /\ uses[i].boot \in 0 .. boot
      /\ \A i \in DOMAIN uses : uses[i].boot = boot => uses[i].lease.id \in spent
      /\ \A i, j \in DOMAIN uses :
           uses[i].lease = uses[j].lease /\ uses[i].boot = uses[j].boot => i = j
  BY Zenon DEF LeaseInv, UsesAreSpent
<1>5. n \in DOMAIN uses' /\ \A i \in DOMAIN uses' : i = n \/ i \in DOMAIN uses
  BY <1>3
<1> HIDE DEF n
<1>6. \A i \in DOMAIN uses' :
         /\ uses'[i].lease \in leases' /\ uses'[i].boot \in 0 .. boot'
         /\ uses'[i].boot = boot' => uses'[i].lease.id \in spent'
  <2> SUFFICES ASSUME NEW i \in DOMAIN uses'
               PROVE  /\ uses'[i].lease \in leases' /\ uses'[i].boot \in 0 .. boot'
                      /\ uses'[i].boot = boot' => uses'[i].lease.id \in spent'
    BY Zenon
  <2>1. CASE i = n
    <3>1. boot \in 0 .. boot
      BY <1>4
    <3> QED
      BY <1>1, <1>2, <1>3, <2>1, <3>1, Zenon
  <2>2. CASE i \in DOMAIN uses
    BY <1>1, <1>3, <1>4, <2>2, Zenon
  <2> QED
    BY <1>5, <2>1, <2>2, Zenon
<1>7. ASSUME NEW i \in DOMAIN uses', NEW j \in DOMAIN uses',
             uses'[i].lease = uses'[j].lease, uses'[i].boot = uses'[j].boot
      PROVE  i = j
  <2>1. ASSUME NEW k \in DOMAIN uses PROVE ~(uses[k].lease = u.lease /\ uses[k].boot = u.boot)
    BY <1>2, <1>4, Zenon
  <2>2. CASE i \in DOMAIN uses /\ j \in DOMAIN uses
    BY <1>3, <1>4, <1>7, <2>2, Zenon
  <2>3. CASE i \in DOMAIN uses /\ j = n
    BY <1>3, <1>7, <2>1, <2>3, Zenon
  <2>4. CASE i = n /\ j \in DOMAIN uses
    BY <1>3, <1>7, <2>1, <2>4, Zenon
  <2> QED
    BY <1>5, <2>2, <2>3, <2>4, Zenon
<1>8. UsesAreSpent'
  <2>1. boot' \in Nat /\ \E S : uses' \in Seq(S)
    BY <1>3, <1>4, Zenon
  <2> QED
    BY <1>6, <1>7, <2>1, Zenon DEF UsesAreSpent
<1>9. \E i \in DOMAIN uses' : uses'[i] = [lease |-> lease, by |-> by, boot |-> boot]
  BY <1>3, <1>5, Zenon DEF u
<1>10. \A i \in DOMAIN uses : i \in DOMAIN uses' /\ uses'[i] = uses[i]
  BY <1>3 DEF n
<1> QED
  BY <1>8, <1>9, <1>10, Zenon

\* A use of an unspent lease by someone else than the dispatcher keeps it.
LEMMA SpendingKeepsLeases ==
  ASSUME LeaseInv, NEW lease \in leases, NEW by, lease.id \notin spent, Spend(lease, by),
         consumed \subseteq consumed', CopiesStayApproved,
         UNCHANGED <<boot, leases, jobs, effects, handles>>
  PROVE  LeaseInv'
<1> USE DEF LeaseInv
<1>1. LeasesAreApproved'
  BY ApprovalsStay, Zenon
<1>2. UsesAreSpent' /\ \A i \in DOMAIN uses : i \in DOMAIN uses' /\ uses'[i] = uses[i]
  BY SpendingKeepsUses, Zenon
<1>3. \A x : Held(x) => Held(x)'
  BY <1>2, HeldStays, Zenon
<1>4. \A x : Unleased(x)' = Unleased(x)
  BY Zenon DEF Unleased
<1>5. WorkIsHeld'
  BY <1>3, <1>4, Zenon DEF WorkIsHeld, Working, OwnLeases, OwnHandles
<1> QED
  BY <1>1, <1>2, <1>5, Zenon

\* A restart forgets the spent ids and the work that held them.
LEMMA RestartKeepsLeases ==
  ASSUME LeaseInv, Restart
  PROVE  LeaseInv'
<1> USE DEF LeaseInv
<1>1. /\ boot' = boot + 1 /\ jobs' = {} /\ effects' = {}
      /\ UNCHANGED <<consumed, copies, leases, uses>>
  BY Zenon DEF Restart, authorityVars
<1>2. LeasesAreApproved'
  BY <1>1, ApprovalsStay, Zenon DEF CopiesStayApproved
<1>3. boot \in Nat /\ boot + 1 \in Nat /\ \A b \in 0 .. boot : b \in 0 .. (boot + 1) /\ b # boot + 1
  BY DEF UsesAreSpent
<1>4. UsesAreSpent'
  BY <1>1, <1>3, Zenon DEF UsesAreSpent
<1>5. WorkIsHeld'
  BY <1>1, Zenon DEF WorkIsHeld, Working, OwnLeases, OwnHandles
<1> QED
  BY <1>2, <1>4, <1>5, Zenon

\* No work holds a lease that is not spent.
LEMMA UnusedLeaseIsFree ==
  ASSUME LeaseInv, NEW lease, lease.id \notin spent, lease # NoLease
  PROVE  \A x \in jobs \cup effects : x.lease # lease
<1>1. \A x : Held(x) => x.lease.id \in spent
  BY DEF LeaseInv, UsesAreSpent, Held
<1> QED
  BY <1>1, Zenon DEF LeaseInv, WorkIsHeld, Unleased

\* A protected dispatch spends its lease for one new attempt.
LEMMA DispatchKeepsLeases ==
  ASSUME LeaseInv, NEW r, NEW p, NEW state, NEW lease \in leases, DispatchProtected(r, p, state, lease)
  PROVE  LeaseInv'
<1> USE DEF LeaseInv
<1>0. PICK job : job = Job(r, lease)
  BY Zenon
<1>1. /\ UNCHANGED <<consumed, copies, leases, boot, effects, handles>>
      /\ Spend(lease, "dispatch") /\ lease.id \notin spent
      /\ RequestOf[lease.proposal] = r
      /\ jobs' = jobs \cup {job} \/ jobs' = jobs
  BY <1>0, Zenon DEF DispatchProtected, authorityVars, Launch, Verified, ScopeMatches
<1>2. /\ UsesAreSpent'
      /\ \A i \in DOMAIN uses : i \in DOMAIN uses' /\ uses'[i] = uses[i]
      /\ \E i \in DOMAIN uses' : uses'[i] = [lease |-> lease, by |-> "dispatch", boot |-> boot]
  BY <1>1, SpendingKeepsUses, Zenon
<1>3. LeasesAreApproved'
  BY <1>1, ApprovalsStay, Zenon DEF CopiesStayApproved
<1>4. \A x : Held(x) => Held(x)'
  BY <1>1, <1>2, HeldStays, Zenon
<1>5. \A x : Unleased(x)' = Unleased(x)
  BY Zenon DEF Unleased
<1>6. /\ DOMAIN job = JobFields /\ job.lease = lease /\ job.request = r /\ job.admitted = FALSE
  BY <1>0, Zenon DEF Job, JobFields
<1>7. lease # NoLease
  BY Zenon DEF LeasesAreApproved, NoLease
<1>8. \A x \in jobs \cup effects : x.lease # lease
  BY <1>1, <1>7, UnusedLeaseIsFree, Zenon
<1>9. Held(job)'
  BY <1>1, <1>2, <1>6, Zenon DEF Held
<1>10. OwnLeases(jobs' \cup effects')
  BY <1>1, <1>6, <1>8, Zenon DEF WorkIsHeld, OwnLeases
<1>11. Working' = Working
  BY <1>1, <1>6, Zenon DEF Working
<1>12. OwnHandles(Working')
  BY <1>11, Zenon DEF WorkIsHeld
<1>13. WorkIsHeld'
  BY <1>1, <1>4, <1>5, <1>6, <1>9, <1>10, <1>11, <1>12, Zenon DEF WorkIsHeld, OwnLeases, OwnHandles
<1> QED
  BY <1>2, <1>3, <1>13, Zenon

\* An unprotected dispatch starts an attempt without a lease.
LEMMA UnprotectedKeepsLeases ==
  ASSUME LeaseInv, NEW r, DispatchUnprotected(r)
  PROVE  LeaseInv'
<1> USE DEF LeaseInv
<1>0. PICK job : job = Job(r, NoLease)
  BY Zenon
<1>1. /\ UNCHANGED <<consumed, copies, leases, boot, uses, spent, effects, handles>>
      /\ r.capability \notin ProtectedCapabilities
      /\ jobs' = jobs \cup {job} \/ jobs' = jobs
  BY <1>0, Zenon DEF DispatchUnprotected, authorityVars, Launch, Unprotected
<1>2. LeasesAreApproved' /\ UsesAreSpent'
  BY <1>1, ApprovalsStay, Zenon DEF CopiesStayApproved, UsesAreSpent
<1>3. \A x : Held(x) => Held(x)'
  BY <1>1, HeldStays, Zenon
<1>4. \A x : Unleased(x)' = Unleased(x)
  BY Zenon DEF Unleased
<1>5. /\ DOMAIN job = JobFields /\ job.lease = NoLease /\ job.request = r /\ job.admitted = FALSE
  BY <1>0, Zenon DEF Job, JobFields
<1>6. Unleased(job)
  BY <1>1, <1>5, Zenon DEF Unleased
<1>7. OwnLeases(jobs' \cup effects')
  BY <1>1, <1>5, Zenon DEF WorkIsHeld, OwnLeases
<1>8. Working' = Working
  BY <1>1, <1>5, Zenon DEF Working
<1>9. OwnHandles(Working')
  BY <1>8, Zenon DEF WorkIsHeld
<1>10. WorkIsHeld'
  BY <1>1, <1>3, <1>4, <1>5, <1>6, <1>7, <1>8, <1>9, Zenon DEF WorkIsHeld, OwnLeases, OwnHandles
<1> QED
  BY <1>2, <1>10, Zenon

\* The sandbox worker's steps leave the leases and their uses alone.
SandboxStep == UNCHANGED <<consumed, copies, leases, boot, uses, spent>>

\* A step of the sandbox alone leaves leases and uses as they are.
LEMMA SandboxKeepsLeases ==
  ASSUME LeaseInv, SandboxStep
  PROVE  /\ LeasesAreApproved' /\ UsesAreSpent'
         /\ \A x : Held(x)' = Held(x) /\ Unleased(x)' = Unleased(x)
<1>1. LeasesAreApproved'
  BY ApprovalsStay, Zenon DEF SandboxStep, CopiesStayApproved
<1>2. UsesAreSpent'
  BY Zenon DEF LeaseInv, UsesAreSpent, SandboxStep
<1>3. \A x : Held(x)' = Held(x)
  BY Zenon DEF Held, SandboxStep
<1>4. \A x : Unleased(x)' = Unleased(x)
  BY Zenon DEF Unleased
<1> QED
  BY <1>1, <1>2, <1>3, <1>4, Zenon

\* An attempt that ends leaves the others their leases.
LEMMA EndedKeepsLeases ==
  ASSUME LeaseInv, NEW job \in jobs, SandboxStep, EndAttempt(job), UNCHANGED <<handles, effects>>
  PROVE  LeaseInv'
<1> USE DEF LeaseInv
<1>1. jobs' = jobs \ {job}
  BY Zenon DEF EndAttempt
<1>2. LeasesAreApproved' /\ UsesAreSpent' /\ \A x : Held(x)' = Held(x) /\ Unleased(x)' = Unleased(x)
  BY SandboxKeepsLeases, Zenon
<1>3. Working' \subseteq Working /\ jobs' \cup effects' \subseteq jobs \cup effects
  BY <1>1, Zenon DEF Working
<1>4. OwnLeases(jobs' \cup effects') /\ OwnHandles(Working')
  BY <1>3, Zenon DEF WorkIsHeld, OwnLeases, OwnHandles
<1>5. WorkIsHeld'
  BY <1>1, <1>2, <1>3, <1>4, Zenon DEF WorkIsHeld, OwnLeases, OwnHandles
<1> QED
  BY <1>2, <1>5, Zenon

\* An admitted attempt gets a credential handle of its own.
LEMMA AdmitKeepsLeases ==
  ASSUME LeaseInv, NEW job \in jobs, Admit(job)
  PROVE  LeaseInv'
<1> USE DEF LeaseInv
<1>1. SandboxStep /\ UNCHANGED effects /\ ~job.admitted
  BY Zenon DEF Admit, SandboxStep, authorityVars
<1>2. CASE EndAttempt(job) /\ UNCHANGED handles
  BY <1>1, <1>2, EndedKeepsLeases, Zenon
<1>3. CASE /\ Allowed(job.request) /\ CredentialAccepted(job)
           /\ jobs' = (jobs \ {job}) \cup {[job EXCEPT !.admitted = TRUE]}
           /\ handles' = handles \cup ({job.handle} \ {NoHandle})
  <2> DEFINE new == [job EXCEPT !.admitted = TRUE]
  <2>1. DOMAIN job = JobFields
    BY Zenon DEF WorkIsHeld
  <2>2. /\ DOMAIN new = JobFields /\ new.lease = job.lease /\ new.request = job.request
        /\ new.handle = job.handle /\ new.admitted = TRUE
    BY <2>1, Zenon DEF JobFields
  <2> HIDE DEF new
  <2>3. job.request.capability \in ProtectedCapabilities
    BY <1>3, Zenon DEF Allowed, ProtectedCapabilities, Capabilities
  <2>4. Held(job)
    BY <2>3, Zenon DEF WorkIsHeld, Unleased
  <2>5. Held(new)
    BY <2>2, <2>4, Zenon DEF Held
  <2>6. jobs' = (jobs \ {job}) \cup {new}
    BY <1>3, Zenon DEF new
  <2>7. LeasesAreApproved' /\ UsesAreSpent' /\ \A x : Held(x)' = Held(x) /\ Unleased(x)' = Unleased(x)
    BY <1>1, SandboxKeepsLeases, Zenon
  <2>8. job \notin effects
    BY <2>1, Zenon DEF WorkIsHeld, JobFields, EffectFields
  <2>9. jobs' \cup effects' = ((jobs \cup effects) \ {job}) \cup {new}
    BY <1>1, <2>6, <2>8, Zenon
  <2>10. OwnLeases(jobs' \cup effects')
    <3>1. OwnLeases(jobs \cup effects) /\ job \in jobs \cup effects
      BY Zenon DEF WorkIsHeld
    <3> QED
      BY <2>2, <2>9, <3>1, ReplacedWork, Zenon
  <2>11. Working' = Working \cup {new}
    BY <1>1, <2>2, <2>6, Zenon DEF Working
  <2>12. \A x \in Working : x.handle \in handles \cup {NoHandle}
    BY Zenon DEF WorkIsHeld
  <2>13. OwnHandles(Working')
    BY <1>3, <2>2, <2>11, <2>12 DEF OwnHandles, WorkIsHeld, CredentialAccepted
  <2>14. \A x \in Working' : x.handle \in handles' \cup {NoHandle}
    BY <1>3, <2>2, <2>11, <2>12, Zenon
  <2>15. \A j \in jobs' : DOMAIN j = JobFields /\ (Held(j) \/ Unleased(j))
    BY <2>2, <2>5, <2>6, Zenon DEF WorkIsHeld
  <2>16. WorkIsHeld'
    BY <1>1, <2>7, <2>10, <2>13, <2>14, <2>15, Zenon DEF WorkIsHeld, OwnLeases, OwnHandles
  <2> QED
    BY <2>7, <2>16, Zenon
<1> QED
  BY <1>2, <1>3, Zenon DEF Admit

\* An attempt or an effect becomes an effect of the same lease and handle.
LEMMA EffectKeepsLeases ==
  ASSUME LeaseInv, NEW x \in Working, NEW e, DOMAIN e = EffectFields,
         e.lease = x.lease, e.handle = x.handle, e.request = x.request,
         SandboxStep, jobs' = jobs \ {x}, effects' = (effects \ {x}) \cup {e}, UNCHANGED handles
  PROVE  LeaseInv'
<1> USE DEF LeaseInv
<1>1. LeasesAreApproved' /\ UsesAreSpent' /\ \A y : Held(y)' = Held(y) /\ Unleased(y)' = Unleased(y)
  BY SandboxKeepsLeases, Zenon
<1>2. Held(e)
  BY Zenon DEF WorkIsHeld, Working, Unleased, Held
<1>3. jobs' \cup effects' = ((jobs \cup effects) \ {x}) \cup {e} /\ x \in jobs \cup effects
  BY Zenon DEF Working
<1>4. OwnLeases(jobs' \cup effects')
  BY <1>3, ReplacedWork, Zenon DEF WorkIsHeld
<1>5. Working' = (Working \ {x}) \cup {e}
  BY Zenon DEF Working
<1>6. OwnHandles(Working')
  BY <1>5, ReplacedWork, Zenon DEF WorkIsHeld
<1>7. \A y \in Working' : y.handle \in handles' \cup {NoHandle}
  BY <1>5, Zenon DEF WorkIsHeld
<1>8. /\ \A j \in jobs' : DOMAIN j = JobFields /\ (Held(j) \/ Unleased(j))
      /\ \A y \in effects' : DOMAIN y = EffectFields /\ Held(y)
  BY <1>2, Zenon DEF WorkIsHeld
<1>9. WorkIsHeld'
  BY <1>1, <1>4, <1>6, <1>7, <1>8, Zenon DEF WorkIsHeld, OwnLeases, OwnHandles
<1> QED
  BY <1>1, <1>9, Zenon

\* A commit passes lease and handle on to the effect.
LEMMA CommitKeepsLeases ==
  ASSUME LeaseInv, NEW job \in jobs, Commit(job)
  PROVE  LeaseInv'
<1>1. SandboxStep /\ UNCHANGED handles /\ EndAttempt(job) /\ job.admitted
  BY Zenon DEF Commit, SandboxStep, authorityVars
<1>2. CASE UNCHANGED effects
  BY <1>1, <1>2, EndedKeepsLeases, Zenon
<1>3. CASE \E n : effects' = effects \cup {Effect(n, job)}
  <2>1. PICK n : effects' = effects \cup {Effect(n, job)}
    BY <1>3, Zenon
  <2> DEFINE e == Effect(n, job)
  <2>2. /\ DOMAIN e = EffectFields /\ e.lease = job.lease /\ e.handle = job.handle
        /\ e.request = job.request
    BY Zenon DEF Effect, EffectFields
  <2> HIDE DEF e
  <2>3. job \notin effects
    BY DEF LeaseInv, WorkIsHeld, JobFields, EffectFields
  <2>4. effects' = (effects \ {job}) \cup {e} /\ jobs' = jobs \ {job} /\ job \in Working
    BY <1>1, <2>1, <2>3, Zenon DEF e, EndAttempt, Working
  <2> QED
    BY <1>1, <2>2, <2>4, EffectKeepsLeases, Zenon
<1> QED
  BY <1>2, <1>3, Zenon DEF Commit

\* Settling an effect keeps its lease and its handle.
LEMMA SettledKeepsLeases ==
  ASSUME LeaseInv, NEW e \in effects, NEW status, NEW reconciliation, Settled(e, status, reconciliation)
  PROVE  LeaseInv'
<1> DEFINE new == [e EXCEPT !.status = status, !.reconciliation = reconciliation]
<1>1. /\ SandboxStep /\ UNCHANGED <<handles, jobs>> /\ effects' = (effects \ {e}) \cup {new}
  BY Zenon DEF Settled, SandboxStep, authorityVars
<1>2. DOMAIN e = EffectFields
  BY Zenon DEF LeaseInv, WorkIsHeld
<1>3. DOMAIN new = EffectFields /\ new.lease = e.lease /\ new.handle = e.handle /\ new.request = e.request
  BY <1>2, Zenon DEF EffectFields
<1> HIDE DEF new
<1>4. e \notin jobs
  BY <1>2, Zenon DEF LeaseInv, WorkIsHeld, JobFields, EffectFields
<1>5. jobs' = jobs \ {e} /\ e \in Working
  BY <1>1, <1>4, Zenon DEF Working
<1> QED
  BY <1>1, <1>3, <1>5, EffectKeepsLeases, Zenon

\* A lease is issued for an approved proposal only.
LEMMA IssueKeepsLeases ==
  ASSUME LeaseInv, NEW p, NEW state, NEW scope, Issue(p, state, scope)
  PROVE  LeaseInv'
<1>0. PICK l : l = Lease(Cardinality(leases) + 1, p, scope.capability, scope.worker, generation)
  BY Zenon
<1>1. /\ leases' = leases \cup {l} /\ <<p, "approved">> \in copies
      /\ UNCHANGED <<consumed, copies, uses, boot, spent, jobs, effects, handles>>
  BY <1>0, Zenon DEF Issue, Issues, authorityVars
<1>2. l.proposal = p /\ "proposal" \in DOMAIN l
  BY <1>0, Zenon DEF Lease
<1>3. ApprovedOnce(p)
  BY <1>1, Zenon DEF LeaseInv, LeasesAreApproved
<1> QED
  BY <1>1, <1>2, <1>3, ElsewhereKeepsLeases, Zenon DEF CopiesStayApproved

\* Every step keeps the invariant of the leases.
LEMMA LeaseInvStep == SliceInv /\ LeaseInv /\ [Next]_vars => LeaseInv'
<1> SUFFICES ASSUME SliceInv, LeaseInv, [Next]_vars PROVE LeaseInv'
  BY Zenon
<1>0. NoResets
  BY Zenon DEF SliceInv
<1> USE DEF authorityVars
<1>1. CASE /\ UNCHANGED <<leases, uses, boot, spent, jobs, effects, handles>>
           /\ consumed \subseteq consumed' /\ CopiesStayApproved
  BY <1>1, ElsewhereKeepsLeases, Zenon
<1>2. CASE UNCHANGED vars
  BY <1>1, <1>2, Zenon DEF vars, agentVars, CopiesStayApproved
<1>3. CASE /\ UNCHANGED agentVars
           /\ \/ Tick \/ \E d \in Devices : RevokeDevice(d)
              \/ \E c \in deployment.captures : Preview(c) \/ \E p \in DOMAIN PlanOf : Replan(c, p)
              \/ \E p \in DOMAIN PlanOf, f \in Proofs :
                   ApproveAndApply(p, f) \/ ApproveRefused(p, f) \/ ApproveFailed(p, f)
              \/ \E p \in DOMAIN PlanOf, r \in Rollbacks : Rollback(p, r) \/ RollbackFailed(p, r)
              \/ \E k \in Keys : ExternalEdit(k)
              \/ ExpireSyncTokens \/ RevokeToken \/ Reconcile
  <2>1. consumed \subseteq consumed'
    BY <1>3, Zenon DEF Tick, RevokeDevice, Preview, Replan, ApproveAndApply, ApproveRefused,
       ApproveFailed, Rollback,
                RollbackFailed, CutShort, ExternalEdit, ExpireSyncTokens, RevokeToken, Reconcile
  <2> QED
    BY <1>1, <1>3, <2>1, Zenon DEF agentVars, CopiesStayApproved
<1>4. CASE \/ \E p \in deployment.proposals, f \in Proofs : ApproveCopy(p, f)
           \/ \E p \in deployment.proposals, f \in Proofs : ApproveRollout(p, f)
  <2>1. PICK p, f : ApproveCopy(p, f) \/ ApproveRollout(p, f)
    BY <1>4, Zenon
  <2>2. RoundMarker(p, 0) \in ApproveKeys(consumed, p, f)
    BY <1>0, ApprovalUsesFirstRound, Zenon
  <2>3. /\ UNCHANGED <<leases, uses, boot, spent, jobs, effects, handles>>
        /\ consumed' = consumed \cup ApproveKeys(consumed, p, f)
        /\ copies' = copies \/ copies' = copies \cup {<<p, "approved">>}
    BY <2>1, Zenon DEF ApproveCopy, ApproveRollout, Finish
  <2> QED
    BY <1>1, <2>2, <2>3 DEF CopiesStayApproved
<1>5. CASE \/ \E c \in copies, u \in Rollbacks : RollbackRollout(c[1], c[2], u)
           \/ \E p \in deployment.proposals : ProposeRollout(p)
  <2>1. ASSUME NEW p, NEW state, NEW u, RollbackRollout(p, state, u)
        PROVE  /\ UNCHANGED <<leases, uses, boot, spent, jobs, effects, handles>> /\ consumed \subseteq consumed'
               /\ copies' = copies \/ copies' = copies \cup {<<p, "reverted">>}
    BY <2>1, Zenon DEF RollbackRollout, Finish
  <2>2. ASSUME NEW p, ProposeRollout(p)
        PROVE  /\ UNCHANGED <<leases, uses, boot, spent, jobs, effects, handles>> /\ consumed \subseteq consumed'
               /\ copies' = copies \cup {<<p, "proposed">>}
    BY <2>2, Zenon DEF ProposeRollout
  <2>3. PICK p, state :
          /\ state \in {"reverted", "proposed"}
          /\ UNCHANGED <<leases, uses, boot, spent, jobs, effects, handles>> /\ consumed \subseteq consumed'
          /\ copies' = copies \/ copies' = copies \cup {<<p, state>>}
    BY <1>5, <2>1, <2>2, Zenon
  <2>4. <<p, state>>[2] # "approved"
    BY <2>3, Zenon
  <2>5. CopiesStayApproved
    BY <2>3, <2>4, Zenon DEF CopiesStayApproved
  <2> QED
    BY <1>1, <2>3, <2>5, Zenon
<1>6. CASE Rotate \/ \E r \in deployment.requests : Cancel(r)
  BY <1>1, <1>6, Zenon DEF Rotate, Cancel, CopiesStayApproved
<1>7. CASE Restart
  BY <1>7, RestartKeepsLeases, Zenon
<1>8. CASE \E c \in copies, s \in deployment.scopes : Issue(c[1], c[2], s)
  BY <1>8, IssueKeepsLeases, Zenon
<1>9. CASE \E c \in copies, l \in leases : ApplyRollout(c[1], c[2], l)
  <2>1. PICK c \in copies, l \in leases : ApplyRollout(c[1], c[2], l)
    BY <1>9, Zenon
  <2>2. /\ Spend(l, "rollout") /\ l.id \notin spent /\ consumed \subseteq consumed'
        /\ UNCHANGED <<boot, leases, jobs, effects, handles>>
        /\ \A x \in copies' : x \in copies \/ x[2] # "approved"
    BY <2>1 DEF ApplyRollout, Verified, Finish
  <2> QED
    BY <2>2, SpendingKeepsLeases, Zenon DEF CopiesStayApproved
<1>10. CASE \E c \in copies, l \in leases, u \in Rollbacks, v \in Rollbacks : Authorize(c[1], c[2], l, u, v)
  <2>1. PICK c \in copies, l \in leases, u \in Rollbacks, v \in Rollbacks : Authorize(c[1], c[2], l, u, v)
    BY <1>10, Zenon
  <2>2. /\ Spend(l, "autopilot") /\ l.id \notin spent
        /\ UNCHANGED <<consumed, copies, boot, leases, jobs, effects, handles>>
    BY <2>1, Zenon DEF Authorize, Verified
  <2> QED
    BY <2>2, SpendingKeepsLeases, Zenon DEF CopiesStayApproved
<1>11. CASE \/ \E r \in deployment.requests, c \in copies, l \in leases : DispatchProtected(r, c[1], c[2], l)
            \/ \E r \in deployment.requests : DispatchUnprotected(r)
  BY <1>11, DispatchKeepsLeases, UnprotectedKeepsLeases, Zenon
<1>12. CASE \E j \in jobs : Admit(j) \/ Commit(j)
  BY <1>12, AdmitKeepsLeases, CommitKeepsLeases, Zenon
<1>13. CASE \E e \in effects : Compensate(e) \/ ReconcileEffect(e)
  BY <1>13, SettledKeepsLeases, Zenon DEF Compensate, ReconcileEffect
<1> QED
  BY <1>2, <1>3, <1>4, <1>5, <1>6, <1>7, <1>8, <1>9, <1>10, <1>11, <1>12, <1>13, Zenon DEF Next

\* Within one life of the process every lease is used once, under a consumed
\* device approval, and every effect of the sandbox worker has a lease and a
\* credential handle of its own, for the request that was approved.
THEOREM LeasesAreUsedOnce == Spec => []UsesAreBacked
BY SliceInvInit, SliceInvStep, LeaseInvInit, LeaseInvStep, LeaseInvImplies, PTL DEF Spec
=============================================================================
