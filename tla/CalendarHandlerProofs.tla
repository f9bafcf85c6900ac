------------------------ MODULE CalendarHandlerProofs ------------------------
(***************************************************************************)
(* Type correctness of CalendarExecution, what its actions leave alone, and*)
(* the conjuncts of its inductive invariant IndInv that speak of handlers: *)
(* the calendar flock excludes them from each other, a lease was paid for  *)
(* and an effect on the calendar has its lease.  Each lemma ...Step shows  *)
(* that one conjunct is preserved, with one step per action that can       *)
(* disturb it.                                                             *)
(***************************************************************************)
EXTENDS CalendarExecution, FiniteSetTheorems, TLAPS

-----------------------------------------------------------------------------
(* Type correctness, what each action leaves alone, and the exclusion of   *)
(* handlers by the calendar flock.                                         *)

(* The reset facts among finitely many markers are finitely many, so the   *)
(* round of a proposal is a number.                                        *)
LEMMA RoundsFinite ==
  ASSUME NEW S, IsFiniteSet(S), NEW p
  PROVE  IsFiniteSet(ResetRounds(S, p)) /\ Generation(S, p) \in Nat
<1>1. ResetRounds(S, p) \subseteq S
  BY Zenon DEF ResetRounds
<1>2. IsFiniteSet(ResetRounds(S, p))
  BY <1>1, FS_Subset, Zenon
<1> QED
  BY <1>2, FS_CardinalityType, Zenon DEF Generation

(* The keys that an approval, a resumption or a reset consumes are rows of *)
(* authority_consumption.                                                  *)
LEMMA KeysAreMarkers ==
  ASSUME NEW f \in Proofs, NEW p \in Proposals, NEW S, IsFiniteSet(S)
  PROVE  /\ ApproveKeys(S, p, f) \subseteq Markers
         /\ ResumeKeys(f) \subseteq Markers
         /\ ResetKeys(p, f) \subseteq Markers
<1>1. f.id \in Nat /\ f.key \in Nat /\ f.device \in Devices
  BY ProofsAssumption, Zenon DEF ProofType
<1>2. Generation(S, p) \in Nat
  BY RoundsFinite, Zenon
<1>3. /\ ApproveMarker(f) \in Markers
      /\ RecoverMarker(f) \in Markers
  BY <1>1, Zenon DEF ApproveMarker, RecoverMarker, Markers
<1>4. /\ RoundMarker(p, Generation(S, p)) \in Markers
      /\ ResetRoundMarker(p, f) \in Markers
  BY <1>1, <1>2, Zenon DEF RoundMarker, ResetRoundMarker, Markers
<1>5. /\ ApproveKeyMarker(f) \in Markers
      /\ RecoverKeyMarker(f) \in Markers
  BY <1>1, Zenon DEF ApproveKeyMarker, RecoverKeyMarker, Markers
<1> QED
  BY <1>3, <1>4, <1>5, Zenon DEF ApproveKeys, ResumeKeys, ResetKeys

(* An insert keeps the events at Google a table of contents.               *)
LEMMA InsertType ==
  ASSUME TypeOK, NEW p \in Proposals, NEW e
  PROVE  /\ DOMAIN AfterInsert(p, e) = Proposals
         /\ \A q \in Proposals : AfterInsert(p, e)[q] \in [Events(q) -> Contents]
  BY Zenon DEF TypeOK, AfterInsert, Contents

(* Answering a request keeps the types of the handler's variables.         *)
LEMMA FinishType ==
  ASSUME TypeOK, NEW w \in Workers, NEW a \in Replies, Finish(w, a)
  PROVE  /\ pc' \in [Workers -> Calls] /\ reply' \in [Workers -> Replies]
         /\ lock' \subseteq Workers /\ DOMAIN plan' = Workers
         /\ next' \in [Workers -> Nat \ {0}] /\ tries' \in [Workers -> Nat]
  BY DEF TypeOK, Finish, DropLocals, Calls

(* Every step preserves the type invariant.                                *)
LEMMA TypeStep == IndInv /\ [Next]_vars => TypeOK'
<1> SUFFICES ASSUME IndInv, [Next]_vars PROVE TypeOK'
  BY Zenon
<1> USE CalendarAssumption DEF IndInv, TypeOK, proposalVars, calendarVars, googleVars, jobVars, localVars,
       Events, States, Contents, Outcomes, Replies, ExecuteCalls, Calls,
       HandlerInv
<1>1. CASE UNCHANGED vars
  BY <1>1, Zenon DEF vars, proposalVars, googleVars, localVars
<1>2. ASSUME NEW w \in Workers, NEW d \in Devices, NEW p \in Proposals, NEW f \in Proofs,
             Approve(w, d, p, f)
      PROVE  TypeOK'
  <2>1. consumed' \subseteq Markers
    BY <1>2, KeysAreMarkers, Zenon DEF Approve, Finish, Goto, Serve, DropLocals, Advance, Record,
       FindSteps, Found, Inserting, Writing, LoopDone, RoundInv
  <2> QED
    BY <1>2, <2>1 DEF Approve, Finish, Goto, Serve, DropLocals, Advance, Record, FindSteps,
       Found, Inserting, Writing, LoopDone
<1>3. ASSUME NEW w \in Workers, NEW d \in Devices, NEW p \in Proposals, NEW f \in Proofs,
             RejectApproval(w, d, p, f)
      PROVE  TypeOK'
  <2>1. reply' \in [Workers -> Replies]
    BY <1>3, Zenon DEF RejectApproval, Finish, Goto, Serve, DropLocals, Advance, Record, FindSteps,
       Found, Inserting, Writing, LoopDone
  <2> QED
    BY <1>3, <2>1 DEF RejectApproval, Finish, Goto, Serve, DropLocals, Advance, Record,
       FindSteps, Found, Inserting, Writing, LoopDone
<1>4. ASSUME NEW w \in Workers, NEW d \in Devices, NEW p \in Proposals, NEW f \in Proofs,
             Recover(w, d, p, f)
      PROVE  TypeOK'
  BY <1>4 DEF Recover, Finish, Goto, Serve, DropLocals, Advance, Record, FindSteps, Found,
     Inserting, Writing, LoopDone
<1>5. ASSUME NEW w \in Workers, NEW d \in Devices, NEW p \in Proposals, NEW f \in Proofs,
             RejectRecovery(w, d, p, f)
      PROVE  TypeOK'
  <2>1. reply' \in [Workers -> Replies]
    BY <1>5, Zenon DEF RejectRecovery, Finish, Goto, Serve, DropLocals, Advance, Record, FindSteps,
       Found, Inserting, Writing, LoopDone
  <2> QED
    BY <1>5, <2>1 DEF RejectRecovery, Finish, Goto, Serve, DropLocals, Advance, Record,
       FindSteps, Found, Inserting, Writing, LoopDone
<1>6. ASSUME NEW w \in Workers, Reconcile(w)
      PROVE  TypeOK'
  BY <1>6, Zenon DEF Reconcile, Finish, Goto, Serve, DropLocals, Advance, Record, FindSteps, Found,
     Inserting, Writing, LoopDone
<1>7. ASSUME NEW w \in Workers, DecideConflict(w)
      PROVE  TypeOK'
  <2>1. evidence' \in [Proposals -> SUBSET Outcomes]
    BY <1>7, Zenon DEF DecideConflict, Record
  <2> QED
    BY <1>7, <2>1, FinishType, Zenon DEF DecideConflict
<1>8. ASSUME NEW w \in Workers, DecideApplied(w)
      PROVE  TypeOK'
  <2>1. state' \in [Proposals -> States]
    BY <1>8, Zenon DEF DecideApplied, Finish, Goto, Serve, DropLocals, Advance, Record, FindSteps,
       Found, Inserting, Writing, LoopDone
  <2> QED
    BY <1>8, <2>1 DEF DecideApplied, Finish, Goto, Serve, DropLocals, Advance, Record,
       FindSteps, Found, Inserting, Writing, LoopDone
<1>9. ASSUME NEW w \in Workers, DecideReset(w)
      PROVE  TypeOK'
  <2>1. state' \in [Proposals -> States]
    BY <1>9, Zenon DEF DecideReset, Finish, Goto, Serve, DropLocals, Advance, Record, FindSteps, Found,
       Inserting, Writing, LoopDone
  <2>2. consumed' \subseteq Markers
    BY <1>9, KeysAreMarkers, Zenon DEF DecideReset, Finish, Goto, Serve, DropLocals, Advance, Record,
       FindSteps, Found, Inserting, Writing, LoopDone, RoundInv
  <2> QED
    BY <1>9, <2>1, <2>2 DEF DecideReset, Finish, Goto, Serve, DropLocals, Advance, Record,
       FindSteps, Found, Inserting, Writing, LoopDone
<1>10. ASSUME NEW w \in Workers, RejectReset(w)
      PROVE  TypeOK'
  BY <1>10 DEF RejectReset, Finish, Goto, Serve, DropLocals, Advance, Record, FindSteps, Found,
     Inserting, Writing, LoopDone
<1>11. ASSUME NEW w \in Workers, DecidePartial(w)
      PROVE  TypeOK'
  BY <1>11, Zenon DEF DecidePartial, Finish, Goto, Serve, DropLocals, Advance, Record, FindSteps,
     Found, Inserting, Writing, LoopDone
<1>12. ASSUME NEW w \in Workers, Resume(w)
      PROVE  TypeOK'
  <2>1. consumed' \subseteq Markers
    BY <1>12, KeysAreMarkers, Zenon DEF Resume, Finish, Goto, Serve, DropLocals, Advance, Record,
       FindSteps, Found, Inserting, Writing, LoopDone, RoundInv
  <2> QED
    BY <1>12, <2>1, Zenon DEF Resume, Finish, Goto, Serve, DropLocals, Advance, Record, FindSteps,
       Found, Inserting, Writing, LoopDone
<1>13. ASSUME NEW w \in Workers, RejectResume(w)
      PROVE  TypeOK'
  BY <1>13 DEF RejectResume, Finish, Goto, Serve, DropLocals, Advance, Record, FindSteps, Found,
     Inserting, Writing, LoopDone
<1>14. ASSUME NEW w \in Workers, Lease(w)
      PROVE  TypeOK'
  <2>1. proof[w] \in Proofs
    BY <1>14, Zenon DEF Lease
  <2>2. leases' \in [Proofs -> Nat]
    BY <1>14, <2>1 DEF Lease
  <2> QED
    BY <1>14, <2>2, Zenon DEF Lease, Goto
<1>15. ASSUME NEW w \in Workers, FindCalendar(w)
      PROVE  TypeOK'
  BY <1>15, Zenon DEF FindCalendar, Finish, Goto, Serve, DropLocals, Advance, Record, FindSteps, Found,
     Inserting, Writing, LoopDone
<1>16. ASSUME NEW w \in Workers, RefuseCreate(w)
      PROVE  TypeOK'
  BY <1>16 DEF RefuseCreate, Finish, Goto, Serve, DropLocals, Advance, Record, FindSteps, Found,
     Inserting, Writing, LoopDone
<1>17. ASSUME NEW w \in Workers, CreateCalendar(w)
      PROVE  TypeOK'
  BY <1>17, Zenon DEF CreateCalendar, Finish, Goto, Serve, DropLocals, Advance, Record, FindSteps,
     Found, Inserting, Writing, LoopDone
<1>18. ASSUME NEW w \in Workers, LoseCreate(w)
      PROVE  TypeOK'
  BY <1>18 DEF LoseCreate, Finish, Goto, Serve, DropLocals, Advance, Record, FindSteps, Found,
     Inserting, Writing, LoopDone
<1>19. ASSUME NEW w \in Workers, Sync(w)
      PROVE  TypeOK'
  BY <1>19, Zenon DEF Sync, Finish, Goto, Serve, DropLocals, Advance, Record, FindSteps, Found,
     Inserting, Writing, LoopDone
<1>20. ASSUME NEW w \in Workers, ProviderFails(w)
      PROVE  TypeOK'
  <2>1. PICK a \in Replies : Finish(w, a)
    BY <1>20, Zenon DEF ProviderFails
  <2> QED
    BY <1>20, <2>1, FinishType, Zenon DEF ProviderFails
<1>21. ASSUME NEW w \in Workers, SkipEvent(w)
      PROVE  TypeOK'
  BY <1>21 DEF SkipEvent, Finish, Goto, Serve, DropLocals, Advance, Record, FindSteps, Found,
     Inserting, Writing, LoopDone
<1>22. ASSUME NEW w \in Workers, RefuseOverwrite(w)
      PROVE  TypeOK'
  BY <1>22 DEF RefuseOverwrite, Finish, Goto, Serve, DropLocals, Advance, Record, FindSteps,
     Found, Inserting, Writing, LoopDone
<1>23. ASSUME NEW w \in Workers, WriteEvent(w)
      PROVE  TypeOK'
  <2>1. DOMAIN remote' = Proposals /\ \A q \in Proposals : remote'[q] \in [Events(q) -> Contents]
    BY <1>23, InsertType, Zenon DEF WriteEvent, Finish, Goto, Serve, DropLocals, Advance, Record,
       FindSteps, Found, Inserting, Writing, LoopDone
  <2> QED
    BY <1>23, <2>1 DEF WriteEvent, Finish, Goto, Serve, DropLocals, Advance, Record, FindSteps,
       Found, Inserting, Writing, LoopDone
<1>24. ASSUME NEW w \in Workers, RejectWrite(w)
      PROVE  TypeOK'
  BY <1>24 DEF RejectWrite, Finish, Goto, Serve, DropLocals, Advance, Record, FindSteps, Found,
     Inserting, Writing, LoopDone
<1>25. ASSUME NEW w \in Workers, RetryWrite(w)
      PROVE  TypeOK'
  <2>1. serving[w] \in Proposals
    BY <1>25, Zenon DEF RetryWrite, Inserting, Writing
  <2>2. DOMAIN remote' = Proposals /\ \A q \in Proposals : remote'[q] \in [Events(q) -> Contents]
    BY <1>25, <2>1, InsertType DEF RetryWrite
  <2>3. CASE tries[w] + 1 = MaxAttempts
    BY <1>25, <2>2, <2>3, FinishType, Zenon DEF RetryWrite
  <2>4. CASE tries[w] + 1 # MaxAttempts
    <3>1. tries' = [tries EXCEPT ![w] = @ + 1] /\ UNCHANGED <<plan, next, pc, reply, lock>>
      BY <1>25, <2>4, Zenon DEF RetryWrite
    <3>2. tries' \in [Workers -> Nat]
      BY <3>1
    <3> QED
      BY <1>25, <2>2, <3>1, <3>2, Zenon DEF RetryWrite
  <2> QED
    BY <2>3, <2>4, Zenon
<1>26. ASSUME NEW w \in Workers, LoseWrite(w)
      PROVE  TypeOK'
  <2>1. serving[w] \in Proposals /\ next[w] \in Events(serving[w])
    BY <1>26, ZenonT(30) DEF LoseWrite, Inserting, Writing
  <2>2. DOMAIN remote' = Proposals /\ \A q \in Proposals : remote'[q] \in [Events(q) -> Contents]
    BY <1>26, <2>1, InsertType DEF LoseWrite
  <2>3. DOMAIN inflight' = Proposals /\ \A q \in Proposals : inflight'[q] \subseteq Events(q)
    <3>1. CASE UNCHANGED inflight
      BY <3>1, Zenon
    <3>2. CASE inflight' = [inflight EXCEPT ![serving[w]] = @ \cup {next[w]}]
      <4>1. DOMAIN inflight' = Proposals
        BY <3>2, Zenon
      <4>2. ASSUME NEW q \in Proposals
            PROVE  inflight'[q] \subseteq Events(q)
        <5>1. inflight'[q] = IF q = serving[w] THEN inflight[q] \cup {next[w]} ELSE inflight[q]
          BY <2>1, <3>2, Zenon
        <5> QED
          BY <2>1, <5>1
      <4> QED
        BY <4>1, <4>2, Zenon
    <3> QED
      BY <1>26, <3>1, <3>2, Zenon DEF LoseWrite
  <2> QED
    BY <1>26, <2>2, <2>3, FinishType, Zenon DEF LoseWrite
<1>27. ASSUME NEW w \in Workers, FinalSync(w)
      PROVE  TypeOK'
  BY <1>27, Zenon DEF FinalSync, Finish, Goto, Serve, DropLocals, Advance, Record, FindSteps, Found,
     Inserting, Writing, LoopDone
<1>28. ASSUME NEW w \in Workers, MarkApplied(w)
      PROVE  TypeOK'
  <2>1. state' \in [Proposals -> States]
    BY <1>28, Zenon DEF MarkApplied, Finish, Goto, Serve, DropLocals, Advance, Record, FindSteps,
       Found, Inserting, Writing, LoopDone
  <2> QED
    BY <1>28, <2>1 DEF MarkApplied, Finish, Goto, Serve, DropLocals, Advance, Record, FindSteps,
       Found, Inserting, Writing, LoopDone
<1>29. ASSUME NEW w \in Workers, Respond(w)
      PROVE  TypeOK'
  BY <1>29, Zenon DEF Respond, Finish, Goto, Serve, DropLocals, Advance, Record, FindSteps, Found,
     Inserting, Writing, LoopDone
<1>30. ASSUME NEW w \in Workers, Crash(w)
      PROVE  TypeOK'
  BY <1>30 DEF Crash, Finish, Goto, Serve, DropLocals, Advance, Record, FindSteps, Found,
     Inserting, Writing, LoopDone
<1>31. ASSUME NEW p \in Proposals, Preview(p)
      PROVE  TypeOK'
  BY <1>31, Zenon DEF Preview, Finish, Goto, Serve, DropLocals, Advance, Record, FindSteps, Found,
     Inserting, Writing, LoopDone
<1>32. ASSUME NEW p \in Proposals, NEW e \in Events(p), Land(p, e)
      PROVE  TypeOK'
  <2>1. DOMAIN remote' = Proposals /\ \A q \in Proposals : remote'[q] \in [Events(q) -> Contents]
    BY <1>32, InsertType, Zenon DEF Land, Finish, Goto, Serve, DropLocals, Advance, Record, FindSteps,
       Found, Inserting, Writing, LoopDone
  <2> QED
    BY <1>32, <2>1, Zenon DEF Land, Finish, Goto, Serve, DropLocals, Advance, Record, FindSteps, Found,
       Inserting, Writing, LoopDone
<1>33. ASSUME NEW p \in Proposals, NEW e \in Events(p), UserChanges(p, e)
      PROVE  TypeOK'
  BY <1>33 DEF UserChanges, Finish, Goto, Serve, DropLocals, Advance, Record, FindSteps, Found,
     Inserting, Writing, LoopDone
<1>34. CASE UserDeletesCalendar
  BY <1>34, Zenon DEF UserDeletesCalendar, Finish, Goto, Serve, DropLocals, Advance, Record, FindSteps,
     Found, Inserting, Writing, LoopDone
<1>35. CASE OperatorClearsGuard
  BY <1>35, Zenon DEF OperatorClearsGuard, Finish, Goto, Serve, DropLocals, Advance, Record, FindSteps,
     Found, Inserting, Writing, LoopDone
<1>36. CASE Tick
  BY <1>36 DEF Tick, Finish, Goto, Serve, DropLocals, Advance, Record, FindSteps, Found,
     Inserting, Writing, LoopDone
<1>37. ASSUME NEW d \in Devices, Revoke(d)
      PROVE  TypeOK'
  BY <1>37, Zenon DEF Revoke, Finish, Goto, Serve, DropLocals, Advance, Record, FindSteps, Found,
     Inserting, Writing, LoopDone
<1> QED
  BY Zenon, <1>1, <1>2, <1>3, <1>4, <1>5, <1>6, <1>7, <1>8, <1>9, <1>10, <1>11, <1>12, <1>13, <1>14,
     <1>15, <1>16, <1>17, <1>18, <1>19, <1>20, <1>21, <1>22, <1>23, <1>24, <1>25, <1>26, <1>27,
     <1>28, <1>29, <1>30, <1>31, <1>32, <1>33, <1>34, <1>35, <1>36, <1>37 DEF Next, Request,
     Recovery, Execution, User

(* The actions that change the stored proposals, the markers or the leases.*)
ProposalStep ==
    \/ \E p \in Proposals : Preview(p)
    \/ \E w \in Workers, d \in Devices, p \in Proposals, f \in Proofs : Approve(w, d, p, f)
    \/ \E w \in Workers : Resume(w) \/ DecideApplied(w) \/ DecideReset(w) \/ Lease(w) \/ MarkApplied(w)

(* The actions that change the events at Google.                           *)
GoogleStep ==
    \/ \E w \in Workers : WriteEvent(w) \/ RetryWrite(w) \/ LoseWrite(w)
    \/ \E p \in Proposals : \E e \in Events(p) : Land(p, e) \/ UserChanges(p, e)
    \/ UserDeletesCalendar

(* Only seven actions change the stored proposals, the consumed markers or *)
(* the leases.                                                             *)
LEMMA ProposalFrame ==
  ASSUME [Next]_vars
  PROVE  ProposalStep \/ UNCHANGED <<state, consumed, leases>>
<1>1. CASE UNCHANGED vars
  BY <1>1, Zenon DEF vars, proposalVars
<1>2. ASSUME NEW w \in Workers, NEW d \in Devices, NEW p \in Proposals, NEW f \in Proofs,
             Approve(w, d, p, f)
      PROVE  ProposalStep \/ UNCHANGED <<state, consumed, leases>>
  BY <1>2, Zenon DEF ProposalStep
<1>3. ASSUME NEW w \in Workers, NEW d \in Devices, NEW p \in Proposals, NEW f \in Proofs,
             RejectApproval(w, d, p, f)
      PROVE  ProposalStep \/ UNCHANGED <<state, consumed, leases>>
  BY <1>3, Zenon DEF RejectApproval, proposalVars
<1>4. ASSUME NEW w \in Workers, NEW d \in Devices, NEW p \in Proposals, NEW f \in Proofs,
             Recover(w, d, p, f)
      PROVE  ProposalStep \/ UNCHANGED <<state, consumed, leases>>
  BY <1>4, Zenon DEF Recover, proposalVars
<1>5. ASSUME NEW w \in Workers, NEW d \in Devices, NEW p \in Proposals, NEW f \in Proofs,
             RejectRecovery(w, d, p, f)
      PROVE  ProposalStep \/ UNCHANGED <<state, consumed, leases>>
  BY <1>5, Zenon DEF RejectRecovery, proposalVars
<1>6. ASSUME NEW w \in Workers, Reconcile(w)
      PROVE  ProposalStep \/ UNCHANGED <<state, consumed, leases>>
  BY <1>6, Zenon DEF Reconcile, proposalVars
<1>7. ASSUME NEW w \in Workers, DecideConflict(w)
      PROVE  ProposalStep \/ UNCHANGED <<state, consumed, leases>>
  BY <1>7, Zenon DEF DecideConflict, proposalVars
<1>8. ASSUME NEW w \in Workers, DecideApplied(w)
      PROVE  ProposalStep \/ UNCHANGED <<state, consumed, leases>>
  BY <1>8, Zenon DEF ProposalStep
<1>9. ASSUME NEW w \in Workers, DecideReset(w)
      PROVE  ProposalStep \/ UNCHANGED <<state, consumed, leases>>
  BY <1>9, Zenon DEF ProposalStep
<1>10. ASSUME NEW w \in Workers, RejectReset(w)
      PROVE  ProposalStep \/ UNCHANGED <<state, consumed, leases>>
  BY <1>10, Zenon DEF RejectReset, proposalVars
<1>11. ASSUME NEW w \in Workers, DecidePartial(w)
      PROVE  ProposalStep \/ UNCHANGED <<state, consumed, leases>>
  BY <1>11, Zenon DEF DecidePartial, proposalVars
<1>12. ASSUME NEW w \in Workers, Resume(w)
      PROVE  ProposalStep \/ UNCHANGED <<state, consumed, leases>>
  BY <1>12, Zenon DEF ProposalStep
<1>13. ASSUME NEW w \in Workers, RejectResume(w)
      PROVE  ProposalStep \/ UNCHANGED <<state, consumed, leases>>
  BY <1>13, Zenon DEF RejectResume, proposalVars
<1>14. ASSUME NEW w \in Workers, Lease(w)
      PROVE  ProposalStep \/ UNCHANGED <<state, consumed, leases>>
  BY <1>14, Zenon DEF ProposalStep
<1>15. ASSUME NEW w \in Workers, FindCalendar(w)
      PROVE  ProposalStep \/ UNCHANGED <<state, consumed, leases>>
  BY <1>15, Zenon DEF FindCalendar, proposalVars
<1>16. ASSUME NEW w \in Workers, RefuseCreate(w)
      PROVE  ProposalStep \/ UNCHANGED <<state, consumed, leases>>
  BY <1>16, Zenon DEF RefuseCreate, proposalVars
<1>17. ASSUME NEW w \in Workers, CreateCalendar(w)
      PROVE  ProposalStep \/ UNCHANGED <<state, consumed, leases>>
  BY <1>17, Zenon DEF CreateCalendar, proposalVars
<1>18. ASSUME NEW w \in Workers, LoseCreate(w)
      PROVE  ProposalStep \/ UNCHANGED <<state, consumed, leases>>
  BY <1>18, Zenon DEF LoseCreate, proposalVars
<1>19. ASSUME NEW w \in Workers, Sync(w)
      PROVE  ProposalStep \/ UNCHANGED <<state, consumed, leases>>
  BY <1>19, Zenon DEF Sync, proposalVars
<1>20. ASSUME NEW w \in Workers, ProviderFails(w)
      PROVE  ProposalStep \/ UNCHANGED <<state, consumed, leases>>
  BY <1>20, Zenon DEF ProviderFails, proposalVars
<1>21. ASSUME NEW w \in Workers, SkipEvent(w)
      PROVE  ProposalStep \/ UNCHANGED <<state, consumed, leases>>
  BY <1>21, Zenon DEF SkipEvent, proposalVars
<1>22. ASSUME NEW w \in Workers, RefuseOverwrite(w)
      PROVE  ProposalStep \/ UNCHANGED <<state, consumed, leases>>
  BY <1>22, Zenon DEF RefuseOverwrite, proposalVars
<1>23. ASSUME NEW w \in Workers, WriteEvent(w)
      PROVE  ProposalStep \/ UNCHANGED <<state, consumed, leases>>
  BY <1>23, Zenon DEF WriteEvent, proposalVars
<1>24. ASSUME NEW w \in Workers, RejectWrite(w)
      PROVE  ProposalStep \/ UNCHANGED <<state, consumed, leases>>
  BY <1>24, Zenon DEF RejectWrite, proposalVars
<1>25. ASSUME NEW w \in Workers, RetryWrite(w)
      PROVE  ProposalStep \/ UNCHANGED <<state, consumed, leases>>
  BY <1>25, Zenon DEF RetryWrite, proposalVars
<1>26. ASSUME NEW w \in Workers, LoseWrite(w)
      PROVE  ProposalStep \/ UNCHANGED <<state, consumed, leases>>
  BY <1>26, Zenon DEF LoseWrite, proposalVars
<1>27. ASSUME NEW w \in Workers, FinalSync(w)
      PROVE  ProposalStep \/ UNCHANGED <<state, consumed, leases>>
  BY <1>27, Zenon DEF FinalSync, proposalVars
<1>28. ASSUME NEW w \in Workers, MarkApplied(w)
      PROVE  ProposalStep \/ UNCHANGED <<state, consumed, leases>>
  BY <1>28, Zenon DEF ProposalStep
<1>29. ASSUME NEW w \in Workers, Respond(w)
      PROVE  ProposalStep \/ UNCHANGED <<state, consumed, leases>>
  BY <1>29, Zenon DEF Respond, proposalVars
<1>30. ASSUME NEW w \in Workers, Crash(w)
      PROVE  ProposalStep \/ UNCHANGED <<state, consumed, leases>>
  BY <1>30, Zenon DEF Crash, proposalVars
<1>31. ASSUME NEW p \in Proposals, Preview(p)
      PROVE  ProposalStep \/ UNCHANGED <<state, consumed, leases>>
  BY <1>31, Zenon DEF ProposalStep
<1>32. ASSUME NEW p \in Proposals, NEW e \in Events(p), Land(p, e)
      PROVE  ProposalStep \/ UNCHANGED <<state, consumed, leases>>
  BY <1>32, Zenon DEF Land, proposalVars
<1>33. ASSUME NEW p \in Proposals, NEW e \in Events(p), UserChanges(p, e)
      PROVE  ProposalStep \/ UNCHANGED <<state, consumed, leases>>
  BY <1>33, Zenon DEF UserChanges, proposalVars
<1>34. CASE UserDeletesCalendar
  BY <1>34, Zenon DEF UserDeletesCalendar, proposalVars
<1>35. CASE OperatorClearsGuard
  BY <1>35, Zenon DEF OperatorClearsGuard, proposalVars
<1>36. CASE Tick
  BY <1>36, Zenon DEF Tick, proposalVars
<1>37. ASSUME NEW d \in Devices, Revoke(d)
      PROVE  ProposalStep \/ UNCHANGED <<state, consumed, leases>>
  BY <1>37 DEF Revoke, proposalVars
<1> QED
  BY Zenon, <1>1, <1>2, <1>3, <1>4, <1>5, <1>6, <1>7, <1>8, <1>9, <1>10, <1>11, <1>12, <1>13, <1>14,
     <1>15, <1>16, <1>17, <1>18, <1>19, <1>20, <1>21, <1>22, <1>23, <1>24, <1>25, <1>26, <1>27,
     <1>28, <1>29, <1>30, <1>31, <1>32, <1>33, <1>34, <1>35, <1>36, <1>37 DEF Next, Request,
     Recovery, Execution, User

(* Only inserts, late inserts and the user change the events at Google.    *)
LEMMA GoogleFrame ==
  ASSUME [Next]_vars
  PROVE  GoogleStep \/ UNCHANGED <<remote, inflight>>
<1>1. CASE UNCHANGED vars
  BY <1>1, Zenon DEF vars, googleVars
<1>2. ASSUME NEW w \in Workers, NEW d \in Devices, NEW p \in Proposals, NEW f \in Proofs,
             Approve(w, d, p, f)
      PROVE  GoogleStep \/ UNCHANGED <<remote, inflight>>
  BY <1>2, Zenon DEF Approve, googleVars
<1>3. ASSUME NEW w \in Workers, NEW d \in Devices, NEW p \in Proposals, NEW f \in Proofs,
             RejectApproval(w, d, p, f)
      PROVE  GoogleStep \/ UNCHANGED <<remote, inflight>>
  BY <1>3, Zenon DEF RejectApproval, googleVars
<1>4. ASSUME NEW w \in Workers, NEW d \in Devices, NEW p \in Proposals, NEW f \in Proofs,
             Recover(w, d, p, f)
      PROVE  GoogleStep \/ UNCHANGED <<remote, inflight>>
  BY <1>4, Zenon DEF Recover, googleVars
<1>5. ASSUME NEW w \in Workers, NEW d \in Devices, NEW p \in Proposals, NEW f \in Proofs,
             RejectRecovery(w, d, p, f)
      PROVE  GoogleStep \/ UNCHANGED <<remote, inflight>>
  BY <1>5, Zenon DEF RejectRecovery, googleVars
<1>6. ASSUME NEW w \in Workers, Reconcile(w)
      PROVE  GoogleStep \/ UNCHANGED <<remote, inflight>>
  BY <1>6, Zenon DEF Reconcile, googleVars
<1>7. ASSUME NEW w \in Workers, DecideConflict(w)
      PROVE  GoogleStep \/ UNCHANGED <<remote, inflight>>
  BY <1>7, Zenon DEF DecideConflict, googleVars
<1>8. ASSUME NEW w \in Workers, DecideApplied(w)
      PROVE  GoogleStep \/ UNCHANGED <<remote, inflight>>
  BY <1>8, Zenon DEF DecideApplied, googleVars
<1>9. ASSUME NEW w \in Workers, DecideReset(w)
      PROVE  GoogleStep \/ UNCHANGED <<remote, inflight>>
  BY <1>9, Zenon DEF DecideReset, googleVars
<1>10. ASSUME NEW w \in Workers, RejectReset(w)
      PROVE  GoogleStep \/ UNCHANGED <<remote, inflight>>
  BY <1>10, Zenon DEF RejectReset, googleVars
<1>11. ASSUME NEW w \in Workers, DecidePartial(w)
      PROVE  GoogleStep \/ UNCHANGED <<remote, inflight>>
  BY <1>11, Zenon DEF DecidePartial, googleVars
<1>12. ASSUME NEW w \in Workers, Resume(w)
      PROVE  GoogleStep \/ UNCHANGED <<remote, inflight>>
  BY <1>12, Zenon DEF Resume, googleVars
<1>13. ASSUME NEW w \in Workers, RejectResume(w)
      PROVE  GoogleStep \/ UNCHANGED <<remote, inflight>>
  BY <1>13, Zenon DEF RejectResume, googleVars
<1>14. ASSUME NEW w \in Workers, Lease(w)
      PROVE  GoogleStep \/ UNCHANGED <<remote, inflight>>
  BY <1>14, Zenon DEF Lease, googleVars
<1>15. ASSUME NEW w \in Workers, FindCalendar(w)
      PROVE  GoogleStep \/ UNCHANGED <<remote, inflight>>
  BY <1>15, Zenon DEF FindCalendar, googleVars
<1>16. ASSUME NEW w \in Workers, RefuseCreate(w)
      PROVE  GoogleStep \/ UNCHANGED <<remote, inflight>>
  BY <1>16, Zenon DEF RefuseCreate, googleVars
<1>17. ASSUME NEW w \in Workers, CreateCalendar(w)
      PROVE  GoogleStep \/ UNCHANGED <<remote, inflight>>
  BY <1>17, Zenon DEF CreateCalendar, googleVars
<1>18. ASSUME NEW w \in Workers, LoseCreate(w)
      PROVE  GoogleStep \/ UNCHANGED <<remote, inflight>>
  BY <1>18, Zenon DEF LoseCreate, googleVars
<1>19. ASSUME NEW w \in Workers, Sync(w)
      PROVE  GoogleStep \/ UNCHANGED <<remote, inflight>>
  BY <1>19, Zenon DEF Sync, googleVars
<1>20. ASSUME NEW w \in Workers, ProviderFails(w)
      PROVE  GoogleStep \/ UNCHANGED <<remote, inflight>>
  BY <1>20, Zenon DEF ProviderFails, googleVars
<1>21. ASSUME NEW w \in Workers, SkipEvent(w)
      PROVE  GoogleStep \/ UNCHANGED <<remote, inflight>>
  BY <1>21, Zenon DEF SkipEvent, googleVars
<1>22. ASSUME NEW w \in Workers, RefuseOverwrite(w)
      PROVE  GoogleStep \/ UNCHANGED <<remote, inflight>>
  BY <1>22, Zenon DEF RefuseOverwrite, googleVars
<1>23. ASSUME NEW w \in Workers, WriteEvent(w)
      PROVE  GoogleStep \/ UNCHANGED <<remote, inflight>>
  BY <1>23, Zenon DEF GoogleStep
<1>24. ASSUME NEW w \in Workers, RejectWrite(w)
      PROVE  GoogleStep \/ UNCHANGED <<remote, inflight>>
  BY <1>24, Zenon DEF RejectWrite, googleVars
<1>25. ASSUME NEW w \in Workers, RetryWrite(w)
      PROVE  GoogleStep \/ UNCHANGED <<remote, inflight>>
  BY <1>25, Zenon DEF GoogleStep
<1>26. ASSUME NEW w \in Workers, LoseWrite(w)
      PROVE  GoogleStep \/ UNCHANGED <<remote, inflight>>
  BY <1>26, Zenon DEF GoogleStep
<1>27. ASSUME NEW w \in Workers, FinalSync(w)
      PROVE  GoogleStep \/ UNCHANGED <<remote, inflight>>
  BY <1>27, Zenon DEF FinalSync, googleVars
<1>28. ASSUME NEW w \in Workers, MarkApplied(w)
      PROVE  GoogleStep \/ UNCHANGED <<remote, inflight>>
  BY <1>28, Zenon DEF MarkApplied, googleVars
<1>29. ASSUME NEW w \in Workers, Respond(w)
      PROVE  GoogleStep \/ UNCHANGED <<remote, inflight>>
  BY <1>29, Zenon DEF Respond, googleVars
<1>30. ASSUME NEW w \in Workers, Crash(w)
      PROVE  GoogleStep \/ UNCHANGED <<remote, inflight>>
  BY <1>30, Zenon DEF Crash, googleVars
<1>31. ASSUME NEW p \in Proposals, Preview(p)
      PROVE  GoogleStep \/ UNCHANGED <<remote, inflight>>
  BY <1>31, Zenon DEF Preview, googleVars
<1>32. ASSUME NEW p \in Proposals, NEW e \in Events(p), Land(p, e)
      PROVE  GoogleStep \/ UNCHANGED <<remote, inflight>>
  BY <1>32, Zenon DEF GoogleStep
<1>33. ASSUME NEW p \in Proposals, NEW e \in Events(p), UserChanges(p, e)
      PROVE  GoogleStep \/ UNCHANGED <<remote, inflight>>
  BY <1>33, Zenon DEF GoogleStep
<1>34. CASE UserDeletesCalendar
  BY <1>34, Zenon DEF GoogleStep
<1>35. CASE OperatorClearsGuard
  BY <1>35, Zenon DEF OperatorClearsGuard, googleVars
<1>36. CASE Tick
  BY <1>36, Zenon DEF Tick, googleVars
<1>37. ASSUME NEW d \in Devices, Revoke(d)
      PROVE  GoogleStep \/ UNCHANGED <<remote, inflight>>
  BY <1>37, Zenon DEF Revoke, googleVars
<1> QED
  BY <1>1, <1>2, <1>3, <1>4, <1>5, <1>6, <1>7, <1>8, <1>9, <1>10, <1>11, <1>12, <1>13, <1>14,
     <1>15, <1>16, <1>17, <1>18, <1>19, <1>20, <1>21, <1>22, <1>23, <1>24, <1>25, <1>26, <1>27,
     <1>28, <1>29, <1>30, <1>31, <1>32, <1>33, <1>34, <1>35, <1>36, <1>37, Zenon DEF Next, Request,
     Recovery, Execution, User

(* A worker inside a handler holds the flock, serves a proposal with a     *)
(* proof, and no other worker is inside a handler.                         *)
LEMMA LockExcludes ==
  ASSUME IndInv, NEW w \in Workers, pc[w] \notin {"idle", "reply"}
  PROVE  /\ lock = {w} /\ serving[w] \in Proposals /\ proof[w] \in Proofs
         /\ \A v \in Workers : v # w => pc[v] \in {"idle", "reply"}
  BY DEF IndInv, HandlerInv

(* When the worker inside a handler answers, nobody is inside one.         *)
LEMMA FinishHandler ==
  ASSUME IndInv, NEW w \in Workers, NEW a, pc[w] \notin {"idle", "reply"}, Finish(w, a)
  PROVE  HandlerInv'
<1>1. \A v \in Workers : pc'[v] \in {"idle", "reply"}
  BY LockExcludes, Zenon DEF Finish, IndInv, TypeOK
<1> QED
  BY <1>1, Zenon DEF HandlerInv

(* Every step preserves HandlerInv: whoever is inside a handler holds the  *)
(* flock, and its proposal is still approved.                              *)
LEMMA HandlerStep ==
  ASSUME IndInv, [Next]_vars
  PROVE  HandlerInv'
<1>0. /\ pc \in [Workers -> Calls] /\ lock \subseteq Workers /\ state \in [Proposals -> States]
      /\ serving \in [Workers -> Proposals \cup {NoJob}] /\ proof \in [Workers -> Proofs \cup {NoJob}]
      /\ DOMAIN plan = Workers /\ HandlerInv
  BY Zenon DEF IndInv, TypeOK
<1> USE <1>0 DEF HandlerInv, proposalVars, calendarVars, googleVars, jobVars, localVars, LockFree
<1>1. CASE UNCHANGED vars
  BY <1>1, Zenon DEF vars
<1>2. ASSUME NEW w \in Workers, NEW d \in Devices, NEW p \in Proposals, NEW f \in Proofs,
             Approve(w, d, p, f)
      PROVE  HandlerInv'
  BY <1>2, Zenon DEF Approve, Finish, Goto, Serve, DropLocals, Advance, ApproveAllowed, ValidProof
<1>3. ASSUME NEW w \in Workers, NEW d \in Devices, NEW p \in Proposals, NEW f \in Proofs,
             RejectApproval(w, d, p, f)
      PROVE  HandlerInv'
  BY <1>3, Zenon DEF RejectApproval, Finish, Goto, Serve, DropLocals, Advance
<1>4. ASSUME NEW w \in Workers, NEW d \in Devices, NEW p \in Proposals, NEW f \in Proofs,
             Recover(w, d, p, f)
      PROVE  HandlerInv'
  BY <1>4, Zenon DEF Recover, Finish, Goto, Serve, DropLocals, Advance, RecoverAllowed, ValidProof,
     DeviceSigned
<1>5. ASSUME NEW w \in Workers, NEW d \in Devices, NEW p \in Proposals, NEW f \in Proofs,
             RejectRecovery(w, d, p, f)
      PROVE  HandlerInv'
  BY <1>5, Zenon DEF RejectRecovery, Finish, Goto, Serve, DropLocals, Advance
<1>6. ASSUME NEW w \in Workers, Reconcile(w)
      PROVE  HandlerInv'
  BY <1>6 DEF Reconcile, Finish, Goto, Serve, DropLocals, Advance, Diff
<1>7. ASSUME NEW w \in Workers, DecideConflict(w)
      PROVE  HandlerInv'
  BY <1>7, FinishHandler, Zenon DEF DecideConflict
<1>8. ASSUME NEW w \in Workers, DecideApplied(w)
      PROVE  HandlerInv'
  BY <1>8, FinishHandler, Zenon DEF DecideApplied
<1>9. ASSUME NEW w \in Workers, DecideReset(w)
      PROVE  HandlerInv'
  BY <1>9, FinishHandler, Zenon DEF DecideReset
<1>10. ASSUME NEW w \in Workers, RejectReset(w)
      PROVE  HandlerInv'
  BY <1>10, FinishHandler, Zenon DEF RejectReset
<1>11. ASSUME NEW w \in Workers, DecidePartial(w)
      PROVE  HandlerInv'
  BY <1>11 DEF DecidePartial, Finish, Goto, Serve, DropLocals, Advance
<1>12. ASSUME NEW w \in Workers, Resume(w)
      PROVE  HandlerInv'
  BY <1>12, Zenon DEF Resume, Finish, Goto, Serve, DropLocals, Advance
<1>13. ASSUME NEW w \in Workers, RejectResume(w)
      PROVE  HandlerInv'
  BY <1>13, FinishHandler, Zenon DEF RejectResume
<1>14. ASSUME NEW w \in Workers, Lease(w)
      PROVE  HandlerInv'
  BY <1>14, Zenon DEF Lease, Finish, Goto, Serve, DropLocals, Advance
<1>15. ASSUME NEW w \in Workers, FindCalendar(w)
      PROVE  HandlerInv'
  BY <1>15, Zenon DEF FindCalendar, Finish, Goto, Serve, DropLocals, Advance
<1>16. ASSUME NEW w \in Workers, RefuseCreate(w)
      PROVE  HandlerInv'
  BY <1>16, FinishHandler, Zenon DEF RefuseCreate
<1>17. ASSUME NEW w \in Workers, CreateCalendar(w)
      PROVE  HandlerInv'
  BY <1>17, Zenon DEF CreateCalendar, Finish, Goto, Serve, DropLocals, Advance
<1>18. ASSUME NEW w \in Workers, LoseCreate(w)
      PROVE  HandlerInv'
  BY <1>18, FinishHandler, Zenon DEF LoseCreate
<1>19. ASSUME NEW w \in Workers, Sync(w)
      PROVE  HandlerInv'
  BY <1>19, Zenon DEF Sync, Finish, Goto, Serve, DropLocals, Advance, Diff
<1>20. ASSUME NEW w \in Workers, ProviderFails(w)
      PROVE  HandlerInv'
  BY <1>20, FinishHandler, Zenon DEF ProviderFails, LoopDone
<1>21. ASSUME NEW w \in Workers, SkipEvent(w)
      PROVE  HandlerInv'
  BY <1>21, Zenon DEF SkipEvent, Finish, Goto, Serve, DropLocals, Advance, Writing
<1>22. ASSUME NEW w \in Workers, RefuseOverwrite(w)
      PROVE  HandlerInv'
  BY <1>22, FinishHandler, Zenon DEF RefuseOverwrite, Writing
<1>23. ASSUME NEW w \in Workers, WriteEvent(w)
      PROVE  HandlerInv'
  BY <1>23, Zenon DEF WriteEvent, Finish, Goto, Serve, DropLocals, Advance, Inserting, Writing
<1>24. ASSUME NEW w \in Workers, RejectWrite(w)
      PROVE  HandlerInv'
  BY <1>24, FinishHandler, Zenon DEF RejectWrite, Inserting, Writing
<1>25. ASSUME NEW w \in Workers, RetryWrite(w)
      PROVE  HandlerInv'
  <2>1. CASE tries[w] + 1 = MaxAttempts
    BY <1>25, <2>1, FinishHandler, Zenon DEF RetryWrite, Inserting, Writing
  <2>2. CASE tries[w] + 1 # MaxAttempts
    BY <1>25, <2>2 DEF RetryWrite, Inserting, Writing
  <2> QED
    BY <2>1, <2>2, Zenon
<1>26. ASSUME NEW w \in Workers, LoseWrite(w)
      PROVE  HandlerInv'
  BY <1>26, FinishHandler, Zenon DEF LoseWrite, Inserting, Writing
<1>27. ASSUME NEW w \in Workers, FinalSync(w)
      PROVE  HandlerInv'
  BY <1>27, Zenon DEF FinalSync, Finish, Goto, Serve, DropLocals, Advance, LoopDone
<1>28. ASSUME NEW w \in Workers, MarkApplied(w)
      PROVE  HandlerInv'
  BY <1>28, FinishHandler, Zenon DEF MarkApplied
<1>29. ASSUME NEW w \in Workers, Respond(w)
      PROVE  HandlerInv'
  BY <1>29, Zenon DEF Respond, Finish, Goto, Serve, DropLocals, Advance
<1>30. ASSUME NEW w \in Workers, Crash(w)
      PROVE  HandlerInv'
  BY <1>30 DEF Crash, Finish, Goto, Serve, DropLocals, Advance
<1>31. ASSUME NEW p \in Proposals, Preview(p)
      PROVE  HandlerInv'
  BY <1>31, Zenon DEF Preview, Finish, Goto, Serve, DropLocals, Advance
<1>32. ASSUME NEW p \in Proposals, NEW e \in Events(p), Land(p, e)
      PROVE  HandlerInv'
  BY <1>32, Zenon DEF Land, Finish, Goto, Serve, DropLocals, Advance
<1>33. ASSUME NEW p \in Proposals, NEW e \in Events(p), UserChanges(p, e)
      PROVE  HandlerInv'
  BY <1>33, Zenon DEF UserChanges, Finish, Goto, Serve, DropLocals, Advance
<1>34. CASE UserDeletesCalendar
  BY <1>34, Zenon DEF UserDeletesCalendar, Finish, Goto, Serve, DropLocals, Advance
<1>35. CASE OperatorClearsGuard
  BY <1>35, Zenon DEF OperatorClearsGuard, Finish, Goto, Serve, DropLocals, Advance
<1>36. CASE Tick
  BY <1>36, Zenon DEF Tick, Finish, Goto, Serve, DropLocals, Advance
<1>37. ASSUME NEW d \in Devices, Revoke(d)
      PROVE  HandlerInv'
  BY <1>37, Zenon DEF Revoke, Finish, Goto, Serve, DropLocals, Advance
<1> QED
  BY ZenonT(30), <1>1, <1>2, <1>3, <1>4, <1>5, <1>6, <1>7, <1>8, <1>9, <1>10, <1>11, <1>12, <1>13,
     <1>14,
     <1>15, <1>16, <1>17, <1>18, <1>19, <1>20, <1>21, <1>22, <1>23, <1>24, <1>25, <1>26, <1>27,
     <1>28, <1>29, <1>30, <1>31, <1>32, <1>33, <1>34, <1>35, <1>36, <1>37 DEF Next, Request,
     Recovery, Execution, User

-----------------------------------------------------------------------------
(* The conjuncts of the inductive invariant, one by one.                   *)

(* Every step preserves LeaseInv: each lease was paid for by the one-shot  *)
(* marker of its proof.                                                    *)
LEMMA LeaseStep ==
  ASSUME IndInv, [Next]_vars
  PROVE  LeaseInv'
<1>0. /\ pc \in [Workers -> Calls] /\ leases \in [Proofs -> Nat]
      /\ serving \in [Workers -> Proposals \cup {NoJob}] /\ proof \in [Workers -> Proofs \cup {NoJob}]
      /\ HandlerInv /\ LeaseInv
  BY Zenon DEF IndInv, TypeOK
<1> USE <1>0 DEF HandlerInv, LeaseInv, Paid, proposalVars, jobVars, LockFree, ExecuteCalls
<1>1. CASE UNCHANGED vars
  BY <1>1, Zenon DEF vars
<1>2. ASSUME NEW w \in Workers, NEW d \in Devices, NEW p \in Proposals, NEW f \in Proofs,
             Approve(w, d, p, f)
      PROVE  LeaseInv'
  BY <1>2, Zenon DEF Approve, Finish, Goto, Serve, DropLocals, Advance, ApproveAllowed, Unused,
     ApproveKeys, ValidProof, DeviceSigned
<1>3. ASSUME NEW w \in Workers, NEW d \in Devices, NEW p \in Proposals, NEW f \in Proofs,
             RejectApproval(w, d, p, f)
      PROVE  LeaseInv'
  BY <1>3, Zenon DEF RejectApproval, Finish, Goto, Serve, DropLocals, Advance
<1>4. ASSUME NEW w \in Workers, NEW d \in Devices, NEW p \in Proposals, NEW f \in Proofs,
             Recover(w, d, p, f)
      PROVE  LeaseInv'
  BY <1>4, Zenon DEF Recover, Finish, Goto, Serve, DropLocals, Advance
<1>5. ASSUME NEW w \in Workers, NEW d \in Devices, NEW p \in Proposals, NEW f \in Proofs,
             RejectRecovery(w, d, p, f)
      PROVE  LeaseInv'
  BY <1>5, Zenon DEF RejectRecovery, Finish, Goto, Serve, DropLocals, Advance
<1>6. ASSUME NEW w \in Workers, Reconcile(w)
      PROVE  LeaseInv'
  BY <1>6, Zenon DEF Reconcile, Finish, Goto, Serve, DropLocals, Advance
<1>7. ASSUME NEW w \in Workers, DecideConflict(w)
      PROVE  LeaseInv'
  BY <1>7, Zenon DEF DecideConflict, Finish, Goto, Serve, DropLocals, Advance
<1>8. ASSUME NEW w \in Workers, DecideApplied(w)
      PROVE  LeaseInv'
  BY <1>8, Zenon DEF DecideApplied, Finish, Goto, Serve, DropLocals, Advance
<1>9. ASSUME NEW w \in Workers, DecideReset(w)
      PROVE  LeaseInv'
  BY <1>9, Zenon DEF DecideReset, Finish, Goto, Serve, DropLocals, Advance, ResetKeys
<1>10. ASSUME NEW w \in Workers, RejectReset(w)
      PROVE  LeaseInv'
  BY <1>10, Zenon DEF RejectReset, Finish, Goto, Serve, DropLocals, Advance
<1>11. ASSUME NEW w \in Workers, DecidePartial(w)
      PROVE  LeaseInv'
  BY <1>11, Zenon DEF DecidePartial, Finish, Goto, Serve, DropLocals, Advance
<1>12. ASSUME NEW w \in Workers, Resume(w)
      PROVE  LeaseInv'
  BY <1>12 DEF Resume, Finish, Goto, Serve, DropLocals, Advance, Unused, ResumeKeys
<1>13. ASSUME NEW w \in Workers, RejectResume(w)
      PROVE  LeaseInv'
  BY <1>13, Zenon DEF RejectResume, Finish, Goto, Serve, DropLocals, Advance
<1>14. ASSUME NEW w \in Workers, Lease(w)
      PROVE  LeaseInv'
  <2>1. proof[w] \in Proofs /\ leases[proof[w]] = 0 /\ Paid(proof[w])
    BY <1>14, LockExcludes, Zenon DEF Lease
  <2>2. leases' = [leases EXCEPT ![proof[w]] = 1]
    BY <1>14, <2>1 DEF Lease
  <2>3. \A f \in Proofs : leases'[f] \in {0, 1} /\ (leases'[f] = 1 => Paid(f)')
    BY <1>14, <2>1, <2>2 DEF Lease
  <2>4. \A v \in Workers : v # w => pc'[v] \in {"idle", "reply"}
    BY <1>14, LockExcludes, Zenon DEF Lease, Goto
  <2>5. pc'[w] = "find" /\ leases'[proof'[w]] = 1
    BY <1>14, <2>1, <2>2 DEF Lease, Goto
  <2> QED
    BY <2>3, <2>4, <2>5, Zenon
<1>15. ASSUME NEW w \in Workers, FindCalendar(w)
      PROVE  LeaseInv'
  BY <1>15 DEF FindCalendar, Finish, Goto, Serve, DropLocals, Advance
<1>16. ASSUME NEW w \in Workers, RefuseCreate(w)
      PROVE  LeaseInv'
  BY <1>16, Zenon DEF RefuseCreate, Finish, Goto, Serve, DropLocals, Advance
<1>17. ASSUME NEW w \in Workers, CreateCalendar(w)
      PROVE  LeaseInv'
  BY <1>17 DEF CreateCalendar, Finish, Goto, Serve, DropLocals, Advance
<1>18. ASSUME NEW w \in Workers, LoseCreate(w)
      PROVE  LeaseInv'
  BY <1>18 DEF LoseCreate, Finish, Goto, Serve, DropLocals, Advance
<1>19. ASSUME NEW w \in Workers, Sync(w)
      PROVE  LeaseInv'
  BY <1>19 DEF Sync, Finish, Goto, Serve, DropLocals, Advance
<1>20. ASSUME NEW w \in Workers, ProviderFails(w)
      PROVE  LeaseInv'
  BY <1>20 DEF ProviderFails, Finish, Goto, Serve, DropLocals, Advance
<1>21. ASSUME NEW w \in Workers, SkipEvent(w)
      PROVE  LeaseInv'
  BY <1>21, Zenon DEF SkipEvent, Finish, Goto, Serve, DropLocals, Advance
<1>22. ASSUME NEW w \in Workers, RefuseOverwrite(w)
      PROVE  LeaseInv'
  BY <1>22, Zenon DEF RefuseOverwrite, Finish, Goto, Serve, DropLocals, Advance
<1>23. ASSUME NEW w \in Workers, WriteEvent(w)
      PROVE  LeaseInv'
  BY <1>23, Zenon DEF WriteEvent, Finish, Goto, Serve, DropLocals, Advance
<1>24. ASSUME NEW w \in Workers, RejectWrite(w)
      PROVE  LeaseInv'
  BY <1>24 DEF RejectWrite, Finish, Goto, Serve, DropLocals, Advance
<1>25. ASSUME NEW w \in Workers, RetryWrite(w)
      PROVE  LeaseInv'
  BY <1>25 DEF RetryWrite, Finish, Goto, Serve, DropLocals, Advance
<1>26. ASSUME NEW w \in Workers, LoseWrite(w)
      PROVE  LeaseInv'
  BY <1>26 DEF LoseWrite, Finish, Goto, Serve, DropLocals, Advance
<1>27. ASSUME NEW w \in Workers, FinalSync(w)
      PROVE  LeaseInv'
  BY <1>27 DEF FinalSync, Finish, Goto, Serve, DropLocals, Advance, LoopDone
<1>28. ASSUME NEW w \in Workers, MarkApplied(w)
      PROVE  LeaseInv'
  BY <1>28, Zenon DEF MarkApplied, Finish, Goto, Serve, DropLocals, Advance
<1>29. ASSUME NEW w \in Workers, Respond(w)
      PROVE  LeaseInv'
  BY <1>29, Zenon DEF Respond, Finish, Goto, Serve, DropLocals, Advance
<1>30. ASSUME NEW w \in Workers, Crash(w)
      PROVE  LeaseInv'
  BY <1>30 DEF Crash, Finish, Goto, Serve, DropLocals, Advance
<1>31. ASSUME NEW p \in Proposals, Preview(p)
      PROVE  LeaseInv'
  BY <1>31, Zenon DEF Preview, Finish, Goto, Serve, DropLocals, Advance
<1>32. ASSUME NEW p \in Proposals, NEW e \in Events(p), Land(p, e)
      PROVE  LeaseInv'
  BY <1>32, Zenon DEF Land, Finish, Goto, Serve, DropLocals, Advance
<1>33. ASSUME NEW p \in Proposals, NEW e \in Events(p), UserChanges(p, e)
      PROVE  LeaseInv'
  BY <1>33, Zenon DEF UserChanges, Finish, Goto, Serve, DropLocals, Advance
<1>34. CASE UserDeletesCalendar
  BY <1>34, Zenon DEF UserDeletesCalendar, Finish, Goto, Serve, DropLocals, Advance
<1>35. CASE OperatorClearsGuard
  BY <1>35, Zenon DEF OperatorClearsGuard, Finish, Goto, Serve, DropLocals, Advance
<1>36. CASE Tick
  BY <1>36, Zenon DEF Tick, Finish, Goto, Serve, DropLocals, Advance
<1>37. ASSUME NEW d \in Devices, Revoke(d)
      PROVE  LeaseInv'
  BY <1>37, Zenon DEF Revoke, Finish, Goto, Serve, DropLocals, Advance
<1> QED
  BY Zenon, <1>1, <1>2, <1>3, <1>4, <1>5, <1>6, <1>7, <1>8, <1>9, <1>10, <1>11, <1>12, <1>13, <1>14,
     <1>15, <1>16, <1>17, <1>18, <1>19, <1>20, <1>21, <1>22, <1>23, <1>24, <1>25, <1>26, <1>27,
     <1>28, <1>29, <1>30, <1>31, <1>32, <1>33, <1>34, <1>35, <1>36, <1>37 DEF Next, Request,
     Recovery, Execution, User

(* A consumed lease stays consumed.                                        *)
LEMMA LeasesGrow ==
  ASSUME IndInv, [Next]_vars
  PROVE  \A f \in Proofs : leases[f] > 0 => leases'[f] > 0
<1>1. leases \in [Proofs -> Nat]
  BY Zenon DEF IndInv, TypeOK
<1>2. CASE UNCHANGED <<state, consumed, leases>>
  BY <1>2, Zenon
<1>3. ASSUME NEW w \in Workers, Lease(w)
      PROVE  \A f \in Proofs : leases[f] > 0 => leases'[f] > 0
  <2> SUFFICES ASSUME NEW f \in Proofs, leases[f] > 0  PROVE leases'[f] > 0
    BY Zenon
  <2>1. leases' = [leases EXCEPT ![proof[w]] = @ + 1]
    BY <1>3, Zenon DEF Lease
  <2>2. leases[f] \in Nat
    BY <1>1, Zenon
  <2> QED
    BY <1>1, <2>1, <2>2
<1>4. CASE ProposalStep /\ ~\E w \in Workers : Lease(w)
  <2>1. leases' = leases
    BY Zenon, <1>4 DEF ProposalStep, Preview, Approve, Resume, DecideApplied, DecideReset, MarkApplied
  <2> QED
    BY <2>1, Zenon
<1> QED
  BY <1>2, <1>3, <1>4, ProposalFrame, Zenon

(* Every step preserves EffectsAuthorized: inserts are sent only by a      *)
(* worker whose proof, signed for its proposal, has a lease.               *)
LEMMA EffectStep ==
  ASSUME IndInv, [Next]_vars
  PROVE  EffectsAuthorized'
<1>0. /\ DOMAIN remote = Proposals /\ DOMAIN inflight = Proposals
      /\ \A p \in Proposals : remote[p] \in [Events(p) -> Contents] /\ inflight[p] \subseteq Events(p)
      /\ HandlerInv /\ LeaseInv /\ EffectsAuthorized
  BY Zenon DEF IndInv, TypeOK
<1> USE <1>0 DEF HandlerInv, LeaseInv, EffectsAuthorized
<1>1. CASE UNCHANGED <<remote, inflight>>
  BY <1>1, LeasesGrow, Zenon
<1>2. ASSUME NEW w \in Workers, WriteEvent(w)
      PROVE  EffectsAuthorized'
  <2>1. /\ serving[w] \in Proposals /\ proof[w] \in Proofs /\ leases[proof[w]] = 1
        /\ proof[w].proposal = serving[w]
    BY <1>2, Zenon DEF WriteEvent, Inserting, Writing, ExecuteCalls
  <2>2. UNCHANGED leases
    BY <1>2, Zenon DEF WriteEvent, proposalVars
  <2>3. ASSUME NEW p \in Proposals, NEW e \in Events(p), p # serving[w]
        PROVE  remote'[p][e] = remote[p][e] /\ inflight'[p] = inflight[p]
    BY <1>2, <2>1, <2>3, Zenon DEF WriteEvent, AfterInsert
  <2> QED
    BY <2>1, <2>2, <2>3
<1>3. ASSUME NEW w \in Workers, RetryWrite(w)
      PROVE  EffectsAuthorized'
  <2>1. /\ serving[w] \in Proposals /\ proof[w] \in Proofs /\ leases[proof[w]] = 1
        /\ proof[w].proposal = serving[w]
    BY <1>3, Zenon DEF RetryWrite, Inserting, Writing, ExecuteCalls
  <2>2. UNCHANGED leases
    BY <1>3, Zenon DEF RetryWrite, proposalVars
  <2>3. ASSUME NEW p \in Proposals, NEW e \in Events(p), p # serving[w]
        PROVE  remote'[p][e] = remote[p][e] /\ inflight'[p] = inflight[p]
    BY <1>3, <2>1, <2>3, Zenon DEF RetryWrite, AfterInsert
  <2> QED
    BY <2>1, <2>2, <2>3
<1>4. ASSUME NEW w \in Workers, LoseWrite(w)
      PROVE  EffectsAuthorized'
  <2>1. /\ serving[w] \in Proposals /\ proof[w] \in Proofs /\ leases[proof[w]] = 1
        /\ proof[w].proposal = serving[w]
    BY <1>4, Zenon DEF LoseWrite, Inserting, Writing, ExecuteCalls
  <2>2. UNCHANGED leases
    BY <1>4, Zenon DEF LoseWrite, proposalVars
  <2>3. ASSUME NEW p \in Proposals, NEW e \in Events(p), p # serving[w]
        PROVE  remote'[p][e] = remote[p][e] /\ inflight'[p] = inflight[p]
    BY <1>4, <2>1, <2>3, Zenon DEF LoseWrite, AfterInsert
  <2> QED
    BY <2>1, <2>2, <2>3
<1>5. ASSUME NEW p \in Proposals, NEW e \in Events(p), Land(p, e)
      PROVE  EffectsAuthorized'
  BY <1>5, Zenon DEF Land, AfterInsert, proposalVars
<1>6. ASSUME NEW p \in Proposals, NEW e \in Events(p), UserChanges(p, e)
      PROVE  EffectsAuthorized'
  BY <1>6 DEF UserChanges, proposalVars
<1>7. CASE UserDeletesCalendar
  BY <1>7, Zenon DEF UserDeletesCalendar
<1> QED
  BY <1>1, <1>2, <1>3, <1>4, <1>5, <1>6, <1>7, GoogleFrame, Zenon DEF GoogleStep

==============================================================================
