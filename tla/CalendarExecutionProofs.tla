----------------------- MODULE CalendarExecutionProofs -----------------------
(***************************************************************************)
(* The invariants and action properties of CalendarExecution, and that it  *)
(* implements ProposalAuthority, for every value of its constants.         *)
(*                                                                         *)
(* None of the invariants is inductive as it stands: each needs to know    *)
(* where the workers are, who holds the flock and which markers were       *)
(* consumed.  IndInv collects that; CalendarHandlerProofs shows that its   *)
(* first conjuncts are preserved, the lemmas ...Step here the others.      *)
(***************************************************************************)
EXTENDS CalendarHandlerProofs

-----------------------------------------------------------------------------
(* The rounds of a proposal and the events written for it.                 *)

(* The reset facts of a union are those of its parts.                      *)
LEMMA RoundsOfUnion ==
  ASSUME NEW S, NEW T, NEW p
  PROVE  ResetRounds(S \cup T, p) = ResetRounds(S, p) \cup ResetRounds(T, p)
  BY Zenon DEF ResetRounds

(* Approving or resuming adds no reset fact; a reset adds exactly one, and *)
(* only to its own proposal.                                               *)
LEMMA KeysOfNoRound ==
  ASSUME NEW S, NEW p \in Proposals, NEW f \in Proofs, NEW q \in Proposals
  PROVE  /\ ResetRounds(ApproveKeys(S, p, f), q) = {}
         /\ ResetRounds(ResumeKeys(f), q) = {}
         /\ q # p => ResetRounds(ResetKeys(p, f), q) = {}
         /\ ResetRounds(ResetKeys(p, f), p) = {ResetRoundMarker(p, f)}
<1>1. /\ ApproveMarker(f)[1] = "approve"
      /\ RoundMarker(p, Generation(S, p))[1] = "approve-proposal"
      /\ ApproveKeyMarker(f)[1] = "approve-idempotency"
      /\ RecoverMarker(f)[1] = "recover"
      /\ RecoverKeyMarker(f)[1] = "recover-idempotency"
      /\ ResetRoundMarker(p, f)[1] = "reset-round"
      /\ ResetRoundMarker(p, f)[2][1] = p
  BY Zenon DEF ApproveMarker, RoundMarker, ApproveKeyMarker, RecoverMarker, RecoverKeyMarker,
         ResetRoundMarker
<1> QED
  BY <1>1, Zenon DEF ResetRounds, ApproveKeys, ResumeKeys, ResetKeys

(* Only an approval adds an approval-round marker, that of the current     *)
(* round.                                                                  *)
LEMMA RoundMarkersOfKeys ==
  ASSUME NEW S, NEW p \in Proposals, NEW f \in Proofs, NEW q \in Proposals, NEW g
  PROVE  /\ RoundMarker(q, g) \in ApproveKeys(S, p, f) <=> q = p /\ g = Generation(S, p)
         /\ RoundMarker(q, g) \notin ResumeKeys(f)
         /\ RoundMarker(q, g) \notin ResetKeys(p, f)
<1>1. /\ ApproveMarker(f)[1] = "approve"
      /\ ApproveKeyMarker(f)[1] = "approve-idempotency"
      /\ RecoverMarker(f)[1] = "recover"
      /\ RecoverKeyMarker(f)[1] = "recover-idempotency"
      /\ ResetRoundMarker(p, f)[1] = "reset-round"
      /\ RoundMarker(q, g)[1] = "approve-proposal"
  BY Zenon DEF ApproveMarker, RoundMarker, ApproveKeyMarker, RecoverMarker, RecoverKeyMarker,
         ResetRoundMarker
<1>2. RoundMarker(q, g) = RoundMarker(p, Generation(S, p)) <=> q = p /\ g = Generation(S, p)
  BY Zenon DEF RoundMarker
<1> QED
  BY <1>1, <1>2, Zenon DEF ApproveKeys, ResumeKeys, ResetKeys

(* Markers without reset facts leave the round of a proposal alone.        *)
LEMMA GenerationKept ==
  ASSUME NEW S, NEW T, NEW q, ResetRounds(T, q) = {}
  PROVE  Generation(S \cup T, q) = Generation(S, q)
<1>1. ResetRounds(S \cup T, q) = ResetRounds(S, q)
  BY Zenon DEF ResetRounds
<1> QED
  BY <1>1, Zenon DEF Generation

(* One new reset fact increments the round.                                *)
LEMMA GenerationAdds ==
  ASSUME NEW S, IsFiniteSet(S), NEW T, NEW q, NEW m, ResetRounds(T, q) = {m}, m \notin S
  PROVE  Generation(S \cup T, q) = Generation(S, q) + 1
<1>0. ResetRounds(S \cup T, q) = ResetRounds(S, q) \cup ResetRounds(T, q)
  BY RoundsOfUnion
<1>1. ResetRounds(S \cup T, q) = ResetRounds(S, q) \cup {m}
  BY <1>0, Zenon
<1>2. m \notin ResetRounds(S, q)
  BY Zenon DEF ResetRounds
<1>3. IsFiniteSet(ResetRounds(S, q))
  BY RoundsFinite, Zenon
<1>4. Cardinality(ResetRounds(S, q) \cup {m}) = Cardinality(ResetRounds(S, q)) + 1
  BY <1>2, <1>3, FS_AddElement, Zenon
<1> QED
  BY <1>1, <1>4, Zenon DEF Generation

(* An approval leaves every round as it is.                                *)
LEMMA ApproveKeepsRounds ==
  ASSUME NEW S, NEW p \in Proposals, NEW f \in Proofs, NEW q \in Proposals
  PROVE  Generation(S \cup ApproveKeys(S, p, f), q) = Generation(S, q)
<1>1. ResetRounds(ApproveKeys(S, p, f), q) = {}
  BY KeysOfNoRound, Zenon
<1> QED
  BY <1>1, GenerationKept, Zenon

(* A resumption leaves every round as it is.                               *)
LEMMA ResumeKeepsRounds ==
  ASSUME NEW S, NEW f \in Proofs, NEW q \in Proposals
  PROVE  Generation(S \cup ResumeKeys(f), q) = Generation(S, q)
<1>1. ResetRounds(ResumeKeys(f), q) = {}
  BY KeysOfNoRound, Zenon
<1> QED
  BY <1>1, GenerationKept, Zenon

(* A reset opens the next round of its proposal and of no other.           *)
LEMMA ResetOpensRound ==
  ASSUME NEW S, IsFiniteSet(S), NEW p \in Proposals, NEW f \in Proofs, NEW q \in Proposals,
         ResetRoundMarker(p, f) \notin S
  PROVE  Generation(S \cup ResetKeys(p, f), q) =
             IF q = p THEN Generation(S, q) + 1 ELSE Generation(S, q)
<1>1. CASE q = p
  <2>1. ResetRounds(ResetKeys(p, f), p) = {ResetRoundMarker(p, f)}
    BY KeysOfNoRound, Zenon
  <2>2. Generation(S \cup ResetKeys(p, f), p) = Generation(S, p) + 1
    BY <2>1, GenerationAdds, Zenon
  <2> QED
    BY <1>1, <2>2, Zenon
<1>2. CASE q # p
  <2>1. ResetRounds(ResetKeys(p, f), q) = {}
    BY <1>2, KeysOfNoRound, Zenon
  <2>2. Generation(S \cup ResetKeys(p, f), q) = Generation(S, q)
    BY <2>1, GenerationKept, Zenon
  <2> QED
    BY <1>2, <2>2, Zenon
<1> QED
  BY <1>1, <1>2, Zenon

(* Each operation consumes finitely many keys.                             *)
LEMMA KeysFinite ==
  ASSUME NEW S, NEW p, NEW f
  PROVE  /\ IsFiniteSet(ApproveKeys(S, p, f))
         /\ IsFiniteSet(ResumeKeys(f))
         /\ IsFiniteSet(ResetKeys(p, f))
<1>1. ASSUME NEW a, NEW b, NEW c PROVE IsFiniteSet({a, b, c}) /\ IsFiniteSet({a, b})
  <2>1. IsFiniteSet({} \cup {a})
    BY FS_EmptySet, FS_AddElement, Zenon
  <2>2. IsFiniteSet(({} \cup {a}) \cup {b})
    BY <2>1, FS_AddElement, Zenon
  <2>3. IsFiniteSet((({} \cup {a}) \cup {b}) \cup {c})
    BY <2>2, FS_AddElement, Zenon
  <2>4. {a, b} = ({} \cup {a}) \cup {b} /\ {a, b, c} = (({} \cup {a}) \cup {b}) \cup {c}
    BY Zenon
  <2> QED
    BY <2>2, <2>3, <2>4, Zenon
<1> QED
  BY <1>1, Zenon DEF ApproveKeys, ResumeKeys, ResetKeys

(* The first transaction of approve_and_apply leaves every round as it is. *)
LEMMA ApproveRoundsStep ==
  ASSUME NEW w \in Workers, NEW d \in Devices, NEW p \in Proposals, NEW f \in Proofs,
         Approve(w, d, p, f)
  PROVE  \A q \in Proposals : Generation(consumed', q) = Generation(consumed, q)
<1>1. consumed' = consumed \cup ApproveKeys(consumed, p, f)
  BY Zenon DEF Approve
<1>2. ASSUME NEW q \in Proposals
      PROVE  Generation(consumed \cup ApproveKeys(consumed, p, f), q) = Generation(consumed, q)
  BY ApproveKeepsRounds, Zenon
<1> QED
  BY <1>1, <1>2, Zenon

(* Paying for a resumption leaves every round as it is.                    *)
LEMMA ResumeRoundsStep ==
  ASSUME IndInv, NEW w \in Workers, Resume(w)
  PROVE  \A q \in Proposals : Generation(consumed', q) = Generation(consumed, q)
<1>1. consumed' = consumed \cup ResumeKeys(proof[w]) /\ pc[w] = "resume"
  BY Zenon DEF Resume
<1>2. proof[w] \in Proofs
  BY <1>1, LockExcludes, Zenon
<1>3. ASSUME NEW q \in Proposals
      PROVE  Generation(consumed \cup ResumeKeys(proof[w]), q) = Generation(consumed, q)
  BY <1>2, ResumeKeepsRounds, Zenon
<1> QED
  BY <1>1, <1>3, Zenon

(* The reset of reconcile_interrupted_apply opens the next round of the    *)
(* proposal it serves.                                                     *)
LEMMA ResetRoundsStep ==
  ASSUME IndInv, NEW w \in Workers, DecideReset(w)
  PROVE  \A q \in Proposals : Generation(consumed', q) =
             IF q = serving[w] THEN Generation(consumed, q) + 1 ELSE Generation(consumed, q)
<1>1. /\ consumed' = consumed \cup ResetKeys(serving[w], proof[w]) /\ pc[w] = "decide"
      /\ ResetRoundMarker(serving[w], proof[w]) \notin consumed
  BY Zenon DEF DecideReset, ResetAllowed, Unused, ResetKeys
<1>2. proof[w] \in Proofs /\ serving[w] \in Proposals /\ IsFiniteSet(consumed)
  BY <1>1, LockExcludes, Zenon DEF IndInv, RoundInv
<1>3. ASSUME NEW q \in Proposals
      PROVE  Generation(consumed \cup ResetKeys(serving[w], proof[w]), q) =
                 IF q = serving[w] THEN Generation(consumed, q) + 1 ELSE Generation(consumed, q)
  BY <1>1, <1>2, ResetOpensRound
<1> QED
  BY <1>1, <1>3, Zenon

(* Every step preserves RoundInv: a round is marked exactly while, or      *)
(* after, its proposal is approved in it, and no later round is marked     *)
(* yet.                                                                    *)
LEMMA RoundStep ==
  ASSUME IndInv, [Next]_vars
  PROVE  RoundInv'
<1>0. state \in [Proposals -> States] /\ HandlerInv /\ RoundInv
  BY Zenon DEF IndInv, TypeOK
<1> USE <1>0 DEF RoundInv, RoundUsedOnce
<1>1. CASE UNCHANGED <<state, consumed, leases>>
  BY <1>1, Zenon
<1>2. ASSUME NEW p \in Proposals, Preview(p)
      PROVE  RoundInv'
  BY <1>2, Zenon DEF Preview
<1>3. ASSUME NEW w \in Workers, NEW d \in Devices, NEW p \in Proposals, NEW f \in Proofs,
             Approve(w, d, p, f)
      PROVE  RoundInv'
  <2>1. UNCHANGED <<leases, evidence>> /\ consumed' = consumed \cup ApproveKeys(consumed, p, f)
        /\ state[p] = "proposed" /\ state' = [state EXCEPT ![p] = "approved"]
    BY <1>3, Zenon DEF Approve, ApproveAllowed
  <2>2. \A q \in Proposals : Generation(consumed', q) = Generation(consumed, q)
    BY <1>3, ApproveRoundsStep, Zenon
  <2>3. \A q \in Proposals : \A g : RoundMarker(q, g) \in consumed' <=>
            RoundMarker(q, g) \in consumed \/ (q = p /\ g = Generation(consumed, p))
    BY <2>1, RoundMarkersOfKeys, Zenon
  <2>4. IsFiniteSet(consumed')
    BY <2>1, KeysFinite, FS_Union, Zenon
  <2>5. \A q \in Proposals : Generation(consumed, q) \in Nat
    BY RoundsFinite, Zenon
  <2>6. RoundUsedOnce'
    BY <2>1, <2>2, <2>3, <2>5, Zenon
  <2>7. \A q \in Proposals : \A g \in Nat :
            g > Generation(consumed', q) => RoundMarker(q, g) \notin consumed'
    BY <2>2, <2>3, <2>5
  <2> QED
    BY <2>4, <2>6, <2>7, Zenon
<1>4. ASSUME NEW w \in Workers, Resume(w)
      PROVE  RoundInv'
  <2>1. proof[w] \in Proofs /\ serving[w] \in Proposals
    BY <1>4, LockExcludes, Zenon DEF Resume
  <2>2. consumed' = consumed \cup ResumeKeys(proof[w]) /\ UNCHANGED state
    BY <1>4, Zenon DEF Resume
  <2>3. \A q \in Proposals : Generation(consumed', q) = Generation(consumed, q)
    BY <1>4, ResumeRoundsStep, Zenon
  <2>4. \A q \in Proposals : \A g : RoundMarker(q, g) \in consumed' <=> RoundMarker(q, g) \in consumed
    BY <2>1, <2>2, RoundMarkersOfKeys, Zenon
  <2>5. IsFiniteSet(consumed')
    BY <2>2, KeysFinite, FS_Union, Zenon
  <2> QED
    BY <2>2, <2>3, <2>4, <2>5, Zenon
<1>5. ASSUME NEW w \in Workers, DecideApplied(w)
      PROVE  RoundInv'
  <2>1. serving[w] \in Proposals /\ state[serving[w]] = "approved"
    BY <1>5, Zenon DEF DecideApplied, HandlerInv
  <2> QED
    BY <1>5, <2>1, Zenon DEF DecideApplied
<1>6. ASSUME NEW w \in Workers, DecideReset(w)
      PROVE  RoundInv'
  <2> DEFINE p == serving[w]
  <2>1. proof[w] \in Proofs /\ p \in Proposals /\ state[p] = "approved"
    BY <1>6, LockExcludes, Zenon DEF DecideReset, HandlerInv
  <2>2. /\ consumed' = consumed \cup ResetKeys(p, proof[w])
        /\ state' = [state EXCEPT ![p] = "proposed"]
        /\ ResetRoundMarker(p, proof[w]) \notin consumed
    BY <1>6, Zenon DEF DecideReset, ResetAllowed, Unused, ResetKeys
  <2>3. \A q \in Proposals : q # p => Generation(consumed', q) = Generation(consumed, q)
    BY <1>6, <2>1, ResetRoundsStep, Zenon
  <2>4. Generation(consumed', p) = Generation(consumed, p) + 1
    BY <1>6, <2>1, ResetRoundsStep, Zenon
  <2>5. \A q \in Proposals : \A g : RoundMarker(q, g) \in consumed' <=> RoundMarker(q, g) \in consumed
    BY <2>1, <2>2, RoundMarkersOfKeys, Zenon
  <2>6. IsFiniteSet(consumed')
    BY <2>2, KeysFinite, FS_Union, Zenon
  <2>7. \A q \in Proposals : Generation(consumed, q) \in Nat
    BY RoundsFinite, Zenon
  <2>8. RoundUsedOnce'
    <3>1. RoundMarker(p, Generation(consumed', p)) \notin consumed' /\ state'[p] = "proposed"
      BY <2>1, <2>2, <2>4, <2>5, <2>7
    <3>2. ASSUME NEW q \in Proposals, q # p
          PROVE  /\ RoundMarker(q, Generation(consumed', q)) \in consumed'
                      <=> RoundMarker(q, Generation(consumed, q)) \in consumed
                 /\ state'[q] = state[q]
      BY <3>2, <2>2, <2>3, <2>5, Zenon
    <3> QED
      BY <3>1, <3>2, Zenon
  <2>9. \A q \in Proposals : \A g \in Nat :
            g > Generation(consumed', q) => RoundMarker(q, g) \notin consumed'
    BY <2>1, <2>3, <2>4, <2>5, <2>7
  <2> QED
    BY <2>6, <2>8, <2>9, Zenon
<1>7. ASSUME NEW w \in Workers, Lease(w)
      PROVE  RoundInv'
  BY <1>7, Zenon DEF Lease
<1>8. ASSUME NEW w \in Workers, MarkApplied(w)
      PROVE  RoundInv'
  <2>1. serving[w] \in Proposals /\ state[serving[w]] = "approved"
    BY <1>8, Zenon DEF MarkApplied, HandlerInv
  <2> QED
    BY <1>8, <2>1, Zenon DEF MarkApplied
<1> QED
  BY <1>1, <1>2, <1>3, <1>4, <1>5, <1>6, <1>7, <1>8, ProposalFrame, Zenon DEF ProposalStep

(* An insert fills its id and never changes an event that exists.          *)
LEMMA InsertKeeps ==
  ASSUME TypeOK, NEW p \in Proposals, NEW e \in Events(p)
  PROVE  /\ AfterInsert(p, e)[p][e] # "none"
         /\ \A q \in Proposals : \A i \in Events(q) :
                remote[q][i] # "none" => AfterInsert(p, e)[q][i] = remote[q][i]
  BY Zenon DEF TypeOK, AfterInsert

(* When the worker inside a handler answers, no diff is being followed.    *)
LEMMA FinishWritten ==
  ASSUME IndInv, NEW w \in Workers, NEW a, pc[w] \notin {"idle", "reply"}, Finish(w, a)
  PROVE  WrittenInv'
<1>1. \A v \in Workers : pc'[v] \in {"idle", "reply"} /\ next'[v] = 1
  BY LockExcludes, Zenon DEF Finish, DropLocals, IndInv, TypeOK, WrittenInv
<1> QED
  BY <1>1, Zenon DEF WrittenInv

(* While a worker is inside a handler no other one is.                     *)
LEMMA OthersOutside ==
  ASSUME IndInv, NEW w \in Workers, pc[w] \notin {"idle", "reply"}
  PROVE  \A v \in Workers : v # w => pc[v] \in {"idle", "reply"} /\ next[v] = 1
<1>1. \A v \in Workers : v # w => pc[v] \in {"idle", "reply"}
  BY LockExcludes, Zenon
<1>2. WrittenInv
  BY Zenon DEF IndInv
<1> QED
  BY <1>1, <1>2, Zenon DEF WrittenInv

(* What WrittenInv says of one worker.                                     *)
LEMMA WorkerWritten ==
  ASSUME IndInv, NEW w \in Workers, calendar = "live",
         pc[w] \in {"decide", "write", "mark"}
  PROVE  \A e \in Events(serving[w]) : Settled(w, e) => remote[serving[w]][e] # "none"
<1>1. WrittenInv
  BY Zenon DEF IndInv
<1> QED
  BY <1>1, Zenon DEF WrittenInv

(* When only one worker is inside a handler, WrittenInv is about that      *)
(* worker.                                                                 *)
LEMMA WrittenByWorker ==
  ASSUME NEW w \in Workers,
         \A v \in Workers : v # w => pc'[v] \in {"idle", "reply"} /\ next'[v] = 1,
         pc'[w] \notin {"write", "mark"} => next'[w] = 1,
         calendar' = "live" /\ pc'[w] \in {"decide", "write", "mark"} =>
             \A e \in Events(serving'[w]) : Settled(w, e)' => remote'[serving'[w]][e] # "none"
  PROVE  WrittenInv'
  BY Zenon DEF WrittenInv

(* A step that leaves the handlers alone and removes no event preserves    *)
(* WrittenInv.                                                             *)
LEMMA WrittenKept ==
  ASSUME IndInv, UNCHANGED <<pc, next, plan, serving, calendar>>,
         \A q \in Proposals : \A i \in Events(q) : remote[q][i] # "none" => remote'[q][i] # "none"
  PROVE  WrittenInv'
<1>1. WrittenInv /\ \A w \in Workers : pc[w] \in {"decide", "write", "mark"} => serving[w] \in Proposals
  BY Zenon DEF IndInv, HandlerInv
<1> QED
  BY <1>1, Zenon DEF WrittenInv, Settled

(* Every step preserves WrittenInv: events the diff found or the loop has  *)
(* passed stay at Google while the calendar lives.                         *)
LEMMA WrittenStep ==
  ASSUME IndInv, [Next]_vars
  PROVE  WrittenInv'
<1>t. /\ pc \in [Workers -> Calls] /\ next \in [Workers -> Nat \ {0}] /\ DOMAIN plan = Workers
      /\ serving \in [Workers -> Proposals \cup {NoJob}] /\ TypeOK /\ HandlerInv
  BY Zenon DEF IndInv, TypeOK
<1>n. \A w \in Workers : pc[w] \notin {"write", "mark"} => next[w] = 1
  BY Zenon DEF IndInv, WrittenInv
<1>w. WrittenInv
  BY Zenon DEF IndInv
<1>1. CASE UNCHANGED vars
  <2>1. UNCHANGED <<pc, next, plan, serving, calendar, remote>>
    BY <1>1, Zenon DEF vars, googleVars, calendarVars, jobVars, localVars
  <2> QED
    BY <2>1, WrittenKept, Zenon
<1>2. ASSUME NEW w \in Workers, NEW d \in Devices, NEW p \in Proposals, NEW f \in Proofs,
             Approve(w, d, p, f)
      PROVE  WrittenInv'
  <2>1. pc'[w] \in {"idle", "reply", "lease", "reconcile"} /\ next'[w] = 1
    BY <1>2, <1>t, <1>n, Zenon DEF Approve, Finish, DropLocals, localVars
  <2>2. \A v \in Workers : v # w => /\ pc'[v] = pc[v] /\ next'[v] = next[v] /\ plan'[v] = plan[v]
                                    /\ serving'[v] = serving[v]
    BY <1>2, <1>t, Zenon DEF Approve, Finish, DropLocals, Serve, localVars, jobVars
  <2>3. UNCHANGED <<calendar, remote>>
    BY <1>2, Zenon DEF Approve, googleVars, calendarVars
  <2> QED
    BY <1>w, <2>1, <2>2, <2>3 DEF WrittenInv, Settled
<1>3. ASSUME NEW w \in Workers, NEW d \in Devices, NEW p \in Proposals, NEW f \in Proofs,
             RejectApproval(w, d, p, f)
      PROVE  WrittenInv'
  <2>1. pc'[w] \in {"idle", "reply", "lease", "reconcile"} /\ next'[w] = 1
    BY <1>3, <1>t, <1>n, Zenon DEF RejectApproval, Finish, DropLocals, localVars
  <2>2. \A v \in Workers : v # w => /\ pc'[v] = pc[v] /\ next'[v] = next[v] /\ plan'[v] = plan[v]
                                    /\ serving'[v] = serving[v]
    BY <1>3, <1>t, Zenon DEF RejectApproval, Finish, DropLocals, Serve, localVars, jobVars
  <2>3. UNCHANGED <<calendar, remote>>
    BY <1>3, Zenon DEF RejectApproval, googleVars, calendarVars
  <2> QED
    BY <1>w, <2>1, <2>2, <2>3 DEF WrittenInv, Settled
<1>4. ASSUME NEW w \in Workers, NEW d \in Devices, NEW p \in Proposals, NEW f \in Proofs,
             Recover(w, d, p, f)
      PROVE  WrittenInv'
  <2>1. pc'[w] \in {"idle", "reply", "lease", "reconcile"} /\ next'[w] = 1
    BY <1>4, <1>t, <1>n, Zenon DEF Recover, Finish, DropLocals, localVars
  <2>2. \A v \in Workers : v # w => /\ pc'[v] = pc[v] /\ next'[v] = next[v] /\ plan'[v] = plan[v]
                                    /\ serving'[v] = serving[v]
    BY <1>4, <1>t, Zenon DEF Recover, Finish, DropLocals, Serve, localVars, jobVars
  <2>3. UNCHANGED <<calendar, remote>>
    BY <1>4, Zenon DEF Recover, googleVars, calendarVars
  <2> QED
    BY <1>w, <2>1, <2>2, <2>3 DEF WrittenInv, Settled
<1>5. ASSUME NEW w \in Workers, NEW d \in Devices, NEW p \in Proposals, NEW f \in Proofs,
             RejectRecovery(w, d, p, f)
      PROVE  WrittenInv'
  <2>1. pc'[w] \in {"idle", "reply", "lease", "reconcile"} /\ next'[w] = 1
    BY <1>5, <1>t, <1>n, Zenon DEF RejectRecovery, Finish, DropLocals, localVars
  <2>2. \A v \in Workers : v # w => /\ pc'[v] = pc[v] /\ next'[v] = next[v] /\ plan'[v] = plan[v]
                                    /\ serving'[v] = serving[v]
    BY <1>5, <1>t, Zenon DEF RejectRecovery, Finish, DropLocals, Serve, localVars, jobVars
  <2>3. UNCHANGED <<calendar, remote>>
    BY <1>5, Zenon DEF RejectRecovery, googleVars, calendarVars
  <2> QED
    BY <1>w, <2>1, <2>2, <2>3 DEF WrittenInv, Settled
<1>6. ASSUME NEW w \in Workers, Reconcile(w)
      PROVE  WrittenInv'
  <2>1. pc[w] \notin {"idle", "reply"}
    BY <1>6, Zenon DEF Reconcile
  <2>2. serving[w] \in Proposals /\ \A v \in Workers : v # w => pc[v] \in {"idle", "reply"} /\ next[v] = 1
    BY <2>1, LockExcludes, OthersOutside, Zenon
  <2>3. \A v \in Workers : v # w => pc'[v] \in {"idle", "reply"} /\ next'[v] = 1
    BY <1>6, <1>t, <2>2, Zenon DEF Reconcile, Goto, Advance, localVars
  <2>4. pc'[w] \in {"decide", "write"} /\ plan'[w] = Diff(serving[w]) /\ UNCHANGED <<serving, remote>>
    BY <1>6, <1>t, Zenon DEF Reconcile, Goto, jobVars
  <2>5. next'[w] = 1
    BY <1>6, <1>n, Zenon DEF Reconcile
  <2>6. \A e \in Events(serving[w]) : plan'[w][e] # "INSERT" => remote[serving[w]][e] # "none"
    BY <2>4, Zenon DEF Diff, Operation
  <2>7. \A e \in Events(serving[w]) : Settled(w, e)' => remote[serving[w]][e] # "none"
    BY <2>4, <2>5, <2>6 DEF Settled, Events
  <2> QED
    BY <2>3, <2>4, <2>5, <2>7, WrittenByWorker, Zenon
<1>7. ASSUME NEW w \in Workers, DecideConflict(w)
      PROVE  WrittenInv'
  BY <1>7, FinishWritten, Zenon DEF DecideConflict
<1>8. ASSUME NEW w \in Workers, DecideApplied(w)
      PROVE  WrittenInv'
  BY <1>8, FinishWritten, Zenon DEF DecideApplied
<1>9. ASSUME NEW w \in Workers, DecideReset(w)
      PROVE  WrittenInv'
  BY <1>9, FinishWritten, Zenon DEF DecideReset
<1>10. ASSUME NEW w \in Workers, RejectReset(w)
      PROVE  WrittenInv'
  BY <1>10, FinishWritten, Zenon DEF RejectReset
<1>11. ASSUME NEW w \in Workers, DecidePartial(w)
      PROVE  WrittenInv'
  <2>1. pc[w] \notin {"idle", "reply"}
    BY <1>11, Zenon DEF DecidePartial
  <2>2. serving[w] \in Proposals /\ \A v \in Workers : v # w => pc[v] \in {"idle", "reply"} /\ next[v] = 1
    BY <2>1, LockExcludes, OthersOutside
  <2>3. \A v \in Workers : v # w => pc'[v] \in {"idle", "reply"} /\ next'[v] = 1
    BY <1>11, <1>t, <2>2, Zenon DEF DecidePartial, Goto, Advance, localVars
  <2>4. next'[w] = 1 /\ pc'[w] \notin {"decide", "write", "mark"}
    BY <1>11, <1>t, <1>n, Zenon DEF DecidePartial, Goto, localVars
  <2> QED
    BY <2>3, <2>4, WrittenByWorker, Zenon
<1>12. ASSUME NEW w \in Workers, Resume(w)
      PROVE  WrittenInv'
  <2>1. pc[w] \notin {"idle", "reply"}
    BY <1>12, Zenon DEF Resume
  <2>2. serving[w] \in Proposals /\ \A v \in Workers : v # w => pc[v] \in {"idle", "reply"} /\ next[v] = 1
    BY <2>1, LockExcludes, OthersOutside
  <2>3. \A v \in Workers : v # w => pc'[v] \in {"idle", "reply"} /\ next'[v] = 1
    BY <1>12, <1>t, <2>2, Zenon DEF Resume, Goto, Advance, localVars
  <2>4. next'[w] = 1 /\ pc'[w] \notin {"decide", "write", "mark"}
    BY <1>12, <1>t, <1>n, Zenon DEF Resume, Goto, localVars
  <2> QED
    BY <2>3, <2>4, WrittenByWorker
<1>13. ASSUME NEW w \in Workers, RejectResume(w)
      PROVE  WrittenInv'
  BY <1>13, FinishWritten, Zenon DEF RejectResume
<1>14. ASSUME NEW w \in Workers, Lease(w)
      PROVE  WrittenInv'
  <2>1. pc[w] \notin {"idle", "reply"}
    BY <1>14, Zenon DEF Lease
  <2>2. serving[w] \in Proposals /\ \A v \in Workers : v # w => pc[v] \in {"idle", "reply"} /\ next[v] = 1
    BY <2>1, LockExcludes, OthersOutside
  <2>3. \A v \in Workers : v # w => pc'[v] \in {"idle", "reply"} /\ next'[v] = 1
    BY <1>14, <1>t, <2>2, Zenon DEF Lease, Goto, Advance, localVars
  <2>4. next'[w] = 1 /\ pc'[w] \notin {"decide", "write", "mark"}
    BY <1>14, <1>t, <1>n, Zenon DEF Lease, Goto, localVars
  <2> QED
    BY <2>3, <2>4, WrittenByWorker
<1>15. ASSUME NEW w \in Workers, FindCalendar(w)
      PROVE  WrittenInv'
  <2>1. pc[w] \notin {"idle", "reply"}
    BY <1>15, Zenon DEF FindCalendar
  <2>2. serving[w] \in Proposals /\ \A v \in Workers : v # w => pc[v] \in {"idle", "reply"} /\ next[v] = 1
    BY <2>1, LockExcludes, OthersOutside
  <2>3. \A v \in Workers : v # w => pc'[v] \in {"idle", "reply"} /\ next'[v] = 1
    BY <1>15, <1>t, <2>2, Zenon DEF FindCalendar, Goto, Advance, localVars
  <2>4. next'[w] = 1 /\ pc'[w] \notin {"decide", "write", "mark"}
    BY <1>15, <1>t, <1>n, Zenon DEF FindCalendar, Goto, localVars
  <2> QED
    BY <2>3, <2>4, WrittenByWorker
<1>16. ASSUME NEW w \in Workers, RefuseCreate(w)
      PROVE  WrittenInv'
  BY <1>16, FinishWritten, Zenon DEF RefuseCreate
<1>17. ASSUME NEW w \in Workers, CreateCalendar(w)
      PROVE  WrittenInv'
  <2>1. pc[w] \notin {"idle", "reply"}
    BY <1>17, Zenon DEF CreateCalendar
  <2>2. serving[w] \in Proposals /\ \A v \in Workers : v # w => pc[v] \in {"idle", "reply"} /\ next[v] = 1
    BY <2>1, LockExcludes, OthersOutside
  <2>3. \A v \in Workers : v # w => pc'[v] \in {"idle", "reply"} /\ next'[v] = 1
    BY <1>17, <1>t, <2>2, Zenon DEF CreateCalendar, Goto, Advance, localVars
  <2>4. next'[w] = 1 /\ pc'[w] \notin {"decide", "write", "mark"}
    BY <1>17, <1>t, <1>n, Zenon DEF CreateCalendar, Goto, localVars
  <2> QED
    BY <2>3, <2>4, WrittenByWorker
<1>18. ASSUME NEW w \in Workers, LoseCreate(w)
      PROVE  WrittenInv'
  BY <1>18, FinishWritten, Zenon DEF LoseCreate
<1>19. ASSUME NEW w \in Workers, Sync(w)
      PROVE  WrittenInv'
  <2>1. pc[w] \notin {"idle", "reply"}
    BY <1>19, Zenon DEF Sync
  <2>2. serving[w] \in Proposals /\ \A v \in Workers : v # w => pc[v] \in {"idle", "reply"} /\ next[v] = 1
    BY <2>1, LockExcludes, OthersOutside
  <2>3. \A v \in Workers : v # w => pc'[v] \in {"idle", "reply"} /\ next'[v] = 1
    BY <1>19, <1>t, <2>2, Zenon DEF Sync, Goto, Advance, localVars
  <2>4. pc'[w] \in {"decide", "write"} /\ plan'[w] = Diff(serving[w]) /\ UNCHANGED <<serving, remote>>
    BY <1>19, <1>t, Zenon DEF Sync, Goto, jobVars
  <2>5. next'[w] = 1
    BY <1>19, <1>n, Zenon DEF Sync
  <2>6. \A e \in Events(serving[w]) : plan'[w][e] # "INSERT" => remote[serving[w]][e] # "none"
    BY <2>4 DEF Diff, Operation
  <2>7. \A e \in Events(serving[w]) : Settled(w, e)' => remote[serving[w]][e] # "none"
    BY <2>4, <2>5, <2>6 DEF Settled, Events
  <2> QED
    BY <2>3, <2>4, <2>5, <2>7, WrittenByWorker
<1>20. ASSUME NEW w \in Workers, ProviderFails(w)
      PROVE  WrittenInv'
  BY <1>20, FinishWritten, Zenon DEF ProviderFails, LoopDone
<1>21. ASSUME NEW w \in Workers, SkipEvent(w)
      PROVE  WrittenInv'
  <2>1. pc[w] \notin {"idle", "reply"}
    BY <1>21, Zenon DEF SkipEvent, Writing
  <2>2. serving[w] \in Proposals /\ \A v \in Workers : v # w => pc[v] \in {"idle", "reply"} /\ next[v] = 1
    BY <2>1, LockExcludes, OthersOutside
  <2>3. \A v \in Workers : v # w => pc'[v] \in {"idle", "reply"} /\ next'[v] = 1
    BY <1>21, <1>t, <2>2, Zenon DEF SkipEvent, Goto, Advance, localVars
  <2>4. /\ pc[w] = "write" /\ next[w] \in DOMAIN plan[w] /\ plan[w][next[w]] = "NOOP"
        /\ pc' = pc /\ plan' = plan /\ next'[w] = next[w] + 1
        /\ UNCHANGED <<serving, calendar, remote>>
    BY <1>21, <1>t, Zenon DEF SkipEvent, Writing, Advance, googleVars, calendarVars, jobVars
  <2>5. \A e \in Events(serving[w]) : Settled(w, e)' => Settled(w, e)
    BY <1>t, <2>4 DEF Settled, Events
  <2>6. calendar = "live" => \A e \in Events(serving[w]) : Settled(w, e)' => remote[serving[w]][e] # "none"
    BY <2>4, <2>5, WorkerWritten, Zenon
  <2> QED
    BY <2>3, <2>4, <2>6, WrittenByWorker, Zenon
<1>22. ASSUME NEW w \in Workers, RefuseOverwrite(w)
      PROVE  WrittenInv'
  BY <1>22, FinishWritten, Zenon DEF RefuseOverwrite, Writing
<1>23. ASSUME NEW w \in Workers, WriteEvent(w)
      PROVE  WrittenInv'
  <2>1. pc[w] \notin {"idle", "reply"}
    BY <1>23, Zenon DEF WriteEvent, Inserting, Writing
  <2>2. serving[w] \in Proposals /\ \A v \in Workers : v # w => pc[v] \in {"idle", "reply"} /\ next[v] = 1
    BY <2>1, LockExcludes, OthersOutside
  <2>3. \A v \in Workers : v # w => pc'[v] \in {"idle", "reply"} /\ next'[v] = 1
    BY <1>23, <1>t, <2>2, Zenon DEF WriteEvent, Goto, Advance, localVars
  <2>4. /\ pc[w] = "write" /\ next[w] \in Events(serving[w])
        /\ pc' = pc /\ plan' = plan /\ next'[w] = next[w] + 1
        /\ UNCHANGED <<serving, calendar>> /\ remote' = AfterInsert(serving[w], next[w])
    BY <1>23, <1>t, Zenon DEF WriteEvent, Inserting, Writing, Advance, HandlerInv, calendarVars,
       jobVars
  <2>5. \A e \in Events(serving[w]) : Settled(w, e)' => Settled(w, e) \/ e = next[w]
    <3>1. \A e \in Events(serving[w]) : e < next[w] + 1 => e < next[w] \/ e = next[w]
      BY <1>t DEF Events
    <3> QED
      BY <2>4, <3>1, Zenon DEF Settled
  <2>6. calendar = "live" => \A e \in Events(serving[w]) : Settled(w, e)' => remote'[serving[w]][e] # "none"
    <3>1. calendar = "live" => \A e \in Events(serving[w]) : Settled(w, e) => remote[serving[w]][e] # "none"
      BY <2>4, WorkerWritten, Zenon
    <3>2. /\ remote'[serving[w]][next[w]] # "none"
          /\ \A e \in Events(serving[w]) :
                 remote[serving[w]][e] # "none" => remote'[serving[w]][e] = remote[serving[w]][e]
      BY <1>t, <2>2, <2>4, InsertKeeps
    <3> QED
      BY <2>5, <3>1, <3>2, Zenon
  <2> QED
    BY <2>3, <2>4, <2>6, WrittenByWorker, Zenon
<1>24. ASSUME NEW w \in Workers, RejectWrite(w)
      PROVE  WrittenInv'
  BY <1>24, FinishWritten, Zenon DEF RejectWrite, Inserting, Writing
<1>25. ASSUME NEW w \in Workers, RetryWrite(w)
      PROVE  WrittenInv'
  <2>1. serving[w] \in Proposals /\ next[w] \in Events(serving[w]) /\ pc[w] = "write"
    BY <1>25, <1>t, Zenon DEF RetryWrite, Inserting, Writing, HandlerInv
  <2>2. CASE tries[w] + 1 = MaxAttempts
    BY <1>25, <2>1, <2>2, FinishWritten, Zenon DEF RetryWrite
  <2>3. CASE tries[w] + 1 # MaxAttempts
    <3>1. UNCHANGED <<pc, next, plan, serving, calendar>>
      BY <1>25, <2>3, Zenon DEF RetryWrite, calendarVars, jobVars
    <3>2. \A q \in Proposals : \A i \in Events(q) : remote[q][i] # "none" => remote'[q][i] # "none"
      <4>1. CASE remote' = remote
        BY <4>1, Zenon
      <4>2. CASE remote' = AfterInsert(serving[w], next[w])
        BY <1>t, <2>1, <4>2, InsertKeeps
      <4> QED
        BY <1>25, <4>1, <4>2, Zenon DEF RetryWrite
    <3> QED
      BY <3>1, <3>2, WrittenKept, Zenon
  <2> QED
    BY <2>2, <2>3, Zenon
<1>26. ASSUME NEW w \in Workers, LoseWrite(w)
      PROVE  WrittenInv'
  BY <1>26, FinishWritten, Zenon DEF LoseWrite, Inserting, Writing
<1>27. ASSUME NEW w \in Workers, FinalSync(w)
      PROVE  WrittenInv'
  <2>1. pc[w] \notin {"idle", "reply"}
    BY <1>27, Zenon DEF FinalSync, LoopDone
  <2>2. serving[w] \in Proposals /\ \A v \in Workers : v # w => pc[v] \in {"idle", "reply"} /\ next[v] = 1
    BY <2>1, LockExcludes, OthersOutside
  <2>3. \A v \in Workers : v # w => pc'[v] \in {"idle", "reply"} /\ next'[v] = 1
    BY <1>27, <1>t, <2>2, Zenon DEF FinalSync, Goto, Advance, localVars
  <2>4. /\ pc[w] = "write" /\ next[w] \notin DOMAIN plan[w] /\ pc'[w] = "mark"
        /\ UNCHANGED <<serving, calendar, remote>>
    BY <1>27, <1>t, Zenon DEF FinalSync, FindSteps, LoopDone, Goto, jobVars
  <2>5. next[w] \in Nat \ {0} /\ next[w] \notin 1 .. EventCount[serving[w]] /\ EventCount[serving[w]] \in Nat
    BY <1>t, <2>2, <2>4, CalendarAssumption, Zenon DEF HandlerInv, Events
  <2>6. \A e \in Events(serving[w]) : Settled(w, e)
    BY <2>4, <2>5 DEF Settled, Events
  <2>7. calendar = "live" => \A e \in Events(serving[w]) : remote[serving[w]][e] # "none"
    BY <2>4, <2>6, WorkerWritten, Zenon
  <2> QED
    BY <2>3, <2>4, <2>7, WrittenByWorker, Zenon
<1>28. ASSUME NEW w \in Workers, MarkApplied(w)
      PROVE  WrittenInv'
  BY <1>28, FinishWritten, Zenon DEF MarkApplied
<1>29. ASSUME NEW w \in Workers, Respond(w)
      PROVE  WrittenInv'
  <2>1. pc'[w] \in {"idle", "reply", "lease", "reconcile"} /\ next'[w] = 1
    BY <1>29, <1>t, <1>n, Zenon DEF Respond, Finish, DropLocals, localVars
  <2>2. \A v \in Workers : v # w => /\ pc'[v] = pc[v] /\ next'[v] = next[v] /\ plan'[v] = plan[v]
                                    /\ serving'[v] = serving[v]
    BY <1>29, <1>t, Zenon DEF Respond, Finish, DropLocals, Serve, localVars, jobVars
  <2>3. UNCHANGED <<calendar, remote>>
    BY <1>29, Zenon DEF Respond, googleVars, calendarVars
  <2> QED
    BY <1>w, <2>1, <2>2, <2>3 DEF WrittenInv, Settled
<1>30. ASSUME NEW w \in Workers, Crash(w)
      PROVE  WrittenInv'
  <2>1. pc'[w] \in {"idle", "reply", "lease", "reconcile"} /\ next'[w] = 1
    BY <1>30, <1>t, <1>n, Zenon DEF Crash, Finish, DropLocals, localVars
  <2>2. \A v \in Workers : v # w => /\ pc'[v] = pc[v] /\ next'[v] = next[v] /\ plan'[v] = plan[v]
                                    /\ serving'[v] = serving[v]
    BY <1>30, <1>t, Zenon DEF Crash, Finish, DropLocals, Serve, localVars, jobVars
  <2>3. UNCHANGED <<calendar, remote>>
    BY <1>30, Zenon DEF Crash, googleVars, calendarVars
  <2> QED
    BY <1>w, <2>1, <2>2, <2>3 DEF WrittenInv, Settled
<1>31. ASSUME NEW p \in Proposals, Preview(p)
      PROVE  WrittenInv'
  <2>1. UNCHANGED <<pc, next, plan, serving, calendar, remote>>
    BY <1>31, Zenon DEF Preview, FindSteps, googleVars, calendarVars, jobVars, localVars
  <2> QED
    BY <2>1, WrittenKept, Zenon
<1>32. ASSUME NEW p \in Proposals, NEW e \in Events(p), Land(p, e)
      PROVE  WrittenInv'
  <2>1. \A q \in Proposals : \A i \in Events(q) : remote[q][i] # "none" => remote'[q][i] # "none"
    BY <1>32, <1>t, InsertKeeps DEF Land
  <2>2. UNCHANGED <<pc, next, plan, serving, calendar>>
    BY <1>32, Zenon DEF Land, calendarVars, jobVars, localVars
  <2> QED
    BY <2>1, <2>2, WrittenKept, Zenon
<1>33. ASSUME NEW p \in Proposals, NEW e \in Events(p), UserChanges(p, e)
      PROVE  WrittenInv'
  <2>1. \A q \in Proposals : \A i \in Events(q) : remote[q][i] # "none" => remote'[q][i] # "none"
    BY <1>33, <1>t DEF UserChanges, TypeOK
  <2>2. UNCHANGED <<pc, next, plan, serving, calendar>>
    BY <1>33, Zenon DEF UserChanges, calendarVars, jobVars, localVars
  <2> QED
    BY <2>1, <2>2, WrittenKept
<1>34. CASE UserDeletesCalendar
  BY <1>34, <1>t, <1>n, Zenon DEF UserDeletesCalendar, WrittenInv, localVars
<1>35. CASE OperatorClearsGuard
  <2>1. UNCHANGED <<pc, next, plan, serving, calendar, remote>>
    BY <1>35, Zenon DEF OperatorClearsGuard, googleVars, calendarVars, jobVars, localVars
  <2> QED
    BY <2>1, WrittenKept
<1>36. CASE Tick
  <2>1. UNCHANGED <<pc, next, plan, serving, calendar, remote>>
    BY <1>36, Zenon DEF Tick, googleVars, calendarVars, jobVars, localVars
  <2> QED
    BY <2>1, WrittenKept
<1>37. ASSUME NEW d \in Devices, Revoke(d)
      PROVE  WrittenInv'
  <2>1. UNCHANGED <<pc, next, plan, serving, calendar, remote>>
    BY <1>37, Zenon DEF Revoke, googleVars, calendarVars, jobVars, localVars
  <2> QED
    BY <2>1, WrittenKept, Zenon
<1> QED
  BY <1>1, <1>2, <1>3, <1>4, <1>5, <1>6, <1>7, <1>8, <1>9, <1>10, <1>11, <1>12, <1>13, <1>14,
     <1>15, <1>16, <1>17, <1>18, <1>19, <1>20, <1>21, <1>22, <1>23, <1>24, <1>25, <1>26, <1>27,
     <1>28, <1>29, <1>30, <1>31, <1>32, <1>33, <1>34, <1>35, <1>36, <1>37, Zenon DEF Next, Request,
     Recovery, Execution, User

(* The initial states satisfy the inductive invariant.                     *)
LEMMA InitInv == Init => IndInv
<1> SUFFICES ASSUME Init PROVE IndInv
  BY Zenon
<1> USE DEF Init
<1>1. TypeOK
  BY CalendarAssumption DEF TypeOK, States, Contents, Calls, Replies, Markers
<1>2. HandlerInv /\ EffectsAuthorized /\ WrittenInv
  BY Zenon DEF HandlerInv, EffectsAuthorized, WrittenInv
<1>3. LeaseInv
  BY DEF LeaseInv, ExecuteCalls
<1>4. RoundInv
  BY FS_EmptySet, Zenon DEF RoundInv, RoundUsedOnce
<1> QED
  BY <1>1, <1>2, <1>3, <1>4, Zenon DEF IndInv

(* The inductive invariant holds in every reachable state, for any number  *)
(* of relay processes, proposals, events, devices and proofs.              *)
THEOREM Invariance == Spec => []IndInv
<1>1. IndInv /\ [Next]_vars => IndInv'
  BY TypeStep, HandlerStep, LeaseStep, EffectStep, RoundStep, WrittenStep, Zenon DEF IndInv
<1> QED
  BY <1>1, InitInv, PTL DEF Spec

(* Every variable keeps the shape the code gives it.                       *)
THEOREM TypeCorrect == Spec => []TypeOK
<1>1. IndInv => TypeOK
  BY Zenon DEF IndInv
<1> QED
  BY <1>1, Invariance, PTL

(* At most one process executes or resumes a plan at a time, and the       *)
(* proposal it executes stays approved until it is done: the transition to *)
(* applied at the end of _execute_approved never moves a proposal that     *)
(* another process reset.                                                  *)
THEOREM OneExecutor == Spec => []ExecutionHoldsApproval
<1>1. IndInv => ExecutionHoldsApproval
  BY Zenon DEF IndInv, HandlerInv, ExecutionHoldsApproval, Executing, ExecuteCalls
<1> QED
  BY <1>1, Invariance, PTL

(* One signed proof never pays for two execution leases, whatever crashes, *)
(* replays and retries happen.                                             *)
THEOREM OneLeasePerProof == Spec => []OneExecutionPerProof
<1>1. IndInv => OneExecutionPerProof
  BY DEF IndInv, LeaseInv, OneExecutionPerProof
<1> QED
  BY <1>1, Invariance, PTL

(* No event of a proposal exists or is on its way unless a lease was       *)
(* consumed under a proof signed for that proposal.                        *)
THEOREM NoUnsignedEffect == Spec => []EffectsAuthorized
<1>1. IndInv => EffectsAuthorized
  BY Zenon DEF IndInv
<1> QED
  BY <1>1, Invariance, PTL

(* The approval round of a proposal is unused exactly while it waits for   *)
(* an approval, so a reset always makes it approvable and no round is      *)
(* approved twice.                                                         *)
THEOREM RoundsNeverReused == Spec => []RoundUsedOnce
<1>1. IndInv => RoundUsedOnce
  BY Zenon DEF IndInv, RoundInv
<1> QED
  BY <1>1, Invariance, PTL

-----------------------------------------------------------------------------
(* The action properties and the refinement of ProposalAuthority, from the *)
(* inductive invariant.                                                    *)

(* An insert leaves what the user changed or deleted as it is.             *)
LEMMA InsertKeepsUser ==
  ASSUME TypeOK, NEW p \in Proposals, NEW e \in Events(p)
  PROVE  \A q \in Proposals : \A i \in Events(q) :
             remote[q][i] \in {"edited", "gone"} => AfterInsert(p, e)[q][i] \in {"edited", "gone"}
  BY InsertKeeps

(* No step overwrites an event the user changed or revives one the user    *)
(* deleted, while the calendar lives.                                      *)
LEMMA UserStep ==
  ASSUME IndInv, [Next]_vars
  PROVE  KeepsUserChanges
<1>0. /\ DOMAIN remote = Proposals /\ \A p \in Proposals : remote[p] \in [Events(p) -> Contents]
      /\ TypeOK
  BY Zenon DEF IndInv, TypeOK
<1>1. ASSUME remote' = remote
      PROVE  KeepsUserChanges
  BY <1>1, Zenon DEF KeepsUserChanges
<1>2. ASSUME NEW p \in Proposals, NEW e \in Events(p), remote' \in {remote, AfterInsert(p, e)}
      PROVE  KeepsUserChanges
  <2>1. CASE remote' = AfterInsert(p, e)
    BY <1>0, <2>1, InsertKeepsUser, Zenon DEF KeepsUserChanges
  <2> QED
    BY <1>1, <1>2, <2>1, Zenon
<1>3. ASSUME NEW w \in Workers, Inserting(w)
      PROVE  serving[w] \in Proposals /\ next[w] \in Events(serving[w])
  BY <1>3, Zenon DEF IndInv, HandlerInv, Inserting, Writing
<1>4. ASSUME NEW w \in Workers, WriteEvent(w) \/ RetryWrite(w) \/ LoseWrite(w)
      PROVE  KeepsUserChanges
  <2>1. Inserting(w) /\ remote' \in {remote, AfterInsert(serving[w], next[w])}
    BY <1>4, Zenon DEF WriteEvent, RetryWrite, LoseWrite
  <2> QED
    BY <1>2, <1>3, <2>1, Zenon
<1>5. ASSUME NEW p \in Proposals, NEW e \in Events(p), Land(p, e)
      PROVE  KeepsUserChanges
  BY <1>2, <1>5, Zenon DEF Land
<1>6. ASSUME NEW p \in Proposals, NEW e \in Events(p), UserChanges(p, e)
      PROVE  KeepsUserChanges
  BY <1>0, <1>6 DEF UserChanges, KeepsUserChanges
<1>7. CASE UserDeletesCalendar
  BY <1>7, Zenon DEF UserDeletesCalendar, KeepsUserChanges
<1> QED
  BY <1>1, <1>4, <1>5, <1>6, <1>7, GoogleFrame, Zenon DEF GoogleStep

(* A step that marks a proposal applied finds all its events at Google.    *)
LEMMA ApplyStep ==
  ASSUME IndInv, [Next]_vars
  PROVE  AppliesWritten
<1>0. state \in [Proposals -> States]
  BY Zenon DEF IndInv, TypeOK
<1>1. ASSUME \A p \in Proposals : state'[p] = "applied" => state[p] = "applied"
      PROVE  AppliesWritten
  BY <1>1, Zenon DEF AppliesWritten
<1>2. ASSUME NEW w \in Workers, DecideApplied(w) \/ MarkApplied(w)
      PROVE  AppliesWritten
  <2>1. /\ pc[w] \in {"decide", "mark"} /\ serving[w] \in Proposals
        /\ pc[w] = "decide" => DOMAIN plan[w] = Events(serving[w])
    BY <1>2, Zenon DEF DecideApplied, MarkApplied, IndInv, HandlerInv
  <2>2. \A e \in Events(serving[w]) : Settled(w, e)
    BY <1>2, <2>1, Zenon DEF DecideApplied, MarkApplied, Some, Settled
  <2>3. calendar = "live" => \A e \in Events(serving[w]) : remote[serving[w]][e] # "none"
    BY <2>1, <2>2, Zenon DEF IndInv, WrittenInv
  <2>4. state' = [state EXCEPT ![serving[w]] = "applied"]
    BY <1>2, Zenon DEF DecideApplied, MarkApplied
  <2> QED
    BY <1>0, <2>1, <2>3, <2>4, Zenon DEF AppliesWritten
<1>3. CASE UNCHANGED <<state, consumed, leases>>
  BY <1>1, <1>3, Zenon
<1>4. ASSUME NEW p \in Proposals, Preview(p)
      PROVE  AppliesWritten
  BY <1>0, <1>1, <1>4, Zenon DEF Preview
<1>5. ASSUME NEW w \in Workers, NEW d \in Devices, NEW p \in Proposals, NEW f \in Proofs,
             Approve(w, d, p, f)
      PROVE  AppliesWritten
  BY <1>0, <1>1, <1>5, Zenon DEF Approve
<1>6. ASSUME NEW w \in Workers, DecideReset(w)
      PROVE  AppliesWritten
  BY <1>0, <1>1, <1>6, Zenon DEF DecideReset
<1>7. ASSUME NEW w \in Workers, Resume(w) \/ Lease(w)
      PROVE  AppliesWritten
  BY <1>1, <1>7, Zenon DEF Resume, Lease
<1> QED
  BY <1>2, <1>3, <1>4, <1>5, <1>6, <1>7, ProposalFrame, Zenon DEF ProposalStep

(* write() never overwrites a user's edit and never brings back a deleted  *)
(* event: UserChangesKept in every behaviour.                              *)
THEOREM UserChangesAreKept == Spec => UserChangesKept
<1>1. IndInv /\ [Next]_vars => [KeepsUserChanges]_vars
  BY UserStep, Zenon
<1> QED
  BY <1>1, Invariance, PTL DEF Spec, UserChangesKept

(* A proposal becomes applied only when each of its events is at Google,   *)
(* or the user has deleted the calendar: AppliedMeansWritten in every      *)
(* behaviour.                                                              *)
THEOREM AppliedIsWritten == Spec => AppliedMeansWritten
<1>1. IndInv /\ [Next]_vars => [AppliesWritten]_vars
  BY ApplyStep, Zenon
<1> QED
  BY <1>1, Invariance, PTL DEF Spec, AppliedMeansWritten

(* A step that keeps the rounds and the leases keeps the mapped state.     *)
LEMMA SameRounds ==
  ASSUME \A q \in Proposals : Generation(consumed', q) = Generation(consumed, q),
         UNCHANGED leases
  PROVE  Rounds' = Rounds /\ Started' = Started
<1>1. Rounds' = [p \in Proposals |-> Generation(consumed', p)]
  BY Zenon DEF Rounds
<1>2. Rounds' = Rounds
  BY <1>1, Zenon DEF Rounds
<1> QED
  BY <1>2, Zenon DEF Started

(* A step that keeps the stored proposals is a stuttering step of the      *)
(* lifecycle.                                                              *)
LEMMA LifecycleKept ==
  ASSUME UNCHANGED <<state, consumed, leases>>
  PROVE  UNCHANGED Lifecycle!vars
  BY Zenon DEF Lifecycle!vars, Rounds, Started

(* Every step is a transition of ProposalAuthority or a stuttering step.   *)
LEMMA LifecycleStep ==
  ASSUME IndInv, [Next]_vars
  PROVE  [Lifecycle!Next]_(Lifecycle!vars)
<1>0. state \in [Proposals -> States] /\ leases \in [Proofs -> Nat] /\ HandlerInv
  BY Zenon DEF IndInv, TypeOK
<1>h. ASSUME NEW w \in Workers, pc[w] \notin {"idle", "reply"}
      PROVE  /\ serving[w] \in Proposals /\ state[serving[w]] = "approved" /\ proof[w] \in Proofs
             /\ proof[w].proposal = serving[w]
  BY <1>0, <1>h, Zenon DEF HandlerInv
<1>1. CASE UNCHANGED <<state, consumed, leases>>
  BY <1>1, LifecycleKept, Zenon
<1>2. ASSUME NEW p \in Proposals, Preview(p)
      PROVE  [Lifecycle!Next]_(Lifecycle!vars)
  <2>1. state[p] = "absent" /\ state' = [state EXCEPT ![p] = "proposed"] /\ UNCHANGED <<consumed, leases>>
    BY <1>2, Zenon DEF Preview
  <2>2. Lifecycle!Propose(p)
    BY <2>1, Zenon DEF Rounds, Started, Lifecycle!Propose, Lifecycle!Move
  <2> QED
    BY <2>2, Zenon DEF Lifecycle!Next
<1>3. ASSUME NEW w \in Workers, NEW d \in Devices, NEW p \in Proposals, NEW f \in Proofs,
             Approve(w, d, p, f)
      PROVE  [Lifecycle!Next]_(Lifecycle!vars)
  <2>1. /\ state[p] = "proposed" /\ state' = [state EXCEPT ![p] = "approved"]
        /\ consumed' = consumed \cup ApproveKeys(consumed, p, f) /\ UNCHANGED leases
    BY <1>3, Zenon DEF Approve, ApproveAllowed
  <2>2. \A q \in Proposals : Generation(consumed', q) = Generation(consumed, q)
    BY <1>3, ApproveRoundsStep, Zenon
  <2>3. Rounds' = Rounds /\ Started' = Started
    BY <2>1, <2>2, SameRounds, Zenon
  <2>4. Lifecycle!Approve(p)
    BY <2>1, <2>3, Zenon DEF Lifecycle!Approve, Lifecycle!Move
  <2> QED
    BY <2>4, Zenon DEF Lifecycle!Next
<1>4. ASSUME NEW w \in Workers, Resume(w)
      PROVE  [Lifecycle!Next]_(Lifecycle!vars)
  <2>1. proof[w] \in Proofs /\ serving[w] \in Proposals
    BY <1>4, <1>h, Zenon DEF Resume
  <2>2. consumed' = consumed \cup ResumeKeys(proof[w]) /\ UNCHANGED <<state, leases>>
    BY <1>4, Zenon DEF Resume
  <2>3. \A q \in Proposals : Generation(consumed', q) = Generation(consumed, q)
    BY <1>4, ResumeRoundsStep, Zenon
  <2>4. Rounds' = Rounds /\ Started' = Started
    BY <2>2, <2>3, SameRounds, Zenon
  <2> QED
    BY <2>2, <2>4, Zenon DEF Lifecycle!vars
<1>5. ASSUME NEW w \in Workers, DecideApplied(w)
      PROVE  [Lifecycle!Next]_(Lifecycle!vars)
  <2>1. /\ serving[w] \in Proposals /\ state[serving[w]] = "approved"
        /\ state' = [state EXCEPT ![serving[w]] = "applied"] /\ UNCHANGED <<consumed, leases>>
    BY <1>5, <1>h, Zenon DEF DecideApplied
  <2>2. Lifecycle!Apply(serving[w])
    BY <2>1, Zenon DEF Rounds, Started, Lifecycle!Apply, Lifecycle!Move
  <2> QED
    BY <2>1, <2>2, Zenon DEF Lifecycle!Next
<1>6. ASSUME NEW w \in Workers, DecideReset(w)
      PROVE  [Lifecycle!Next]_(Lifecycle!vars)
  <2> DEFINE p == serving[w]
  <2>1. proof[w] \in Proofs /\ p \in Proposals /\ state[p] = "approved"
    BY <1>6, <1>h, Zenon DEF DecideReset
  <2>2. /\ consumed' = consumed \cup ResetKeys(p, proof[w])
        /\ state' = [state EXCEPT ![p] = "proposed"]
        /\ ResetRoundMarker(p, proof[w]) \notin consumed
        /\ UNCHANGED leases
    BY <1>6, Zenon DEF DecideReset, ResetAllowed, Unused, ResetKeys
  <2>3. \A q \in Proposals : q # p => Generation(consumed', q) = Generation(consumed, q)
    BY <1>6, <2>1, ResetRoundsStep, Zenon
  <2>4. Generation(consumed', p) = Generation(consumed, p) + 1
    BY <1>6, <2>1, ResetRoundsStep, Zenon
  <2>5. Rounds' = [Rounds EXCEPT ![p] = @ + 1] /\ Started' = Started
    <3>1. Rounds' = [q \in Proposals |-> Generation(consumed', q)]
      BY Zenon DEF Rounds
    <3>2. Rounds' = [Rounds EXCEPT ![p] = @ + 1]
      BY <2>1, <2>3, <2>4, <3>1, Zenon DEF Rounds
    <3> QED
      BY <2>2, <3>2, Zenon DEF Started
  <2>6. Lifecycle!Reset(p)
    BY <2>1, <2>2, <2>5, Zenon DEF Lifecycle!Reset, Lifecycle!Move
  <2> QED
    BY <2>1, <2>6, Zenon DEF Lifecycle!Next
<1>7. ASSUME NEW w \in Workers, Lease(w)
      PROVE  [Lifecycle!Next]_(Lifecycle!vars)
  <2>1. proof[w] \in Proofs /\ serving[w] \in Proposals /\ proof[w].proposal = serving[w]
           /\ state[serving[w]] = "approved" /\ leases[proof[w]] \in Nat
    BY <1>0, <1>7, <1>h, Zenon DEF Lease
  <2>2. leases' = [leases EXCEPT ![proof[w]] = @ + 1] /\ UNCHANGED <<state, consumed>>
    BY <1>7, Zenon DEF Lease
  <2>3. \A f \in Proofs : leases'[f] > 0 <=> leases[f] > 0 \/ f = proof[w]
    BY <1>0, <2>1, <2>2
  <2>4. Rounds' = Rounds /\ Started' = Started \cup {serving[w]}
    <3>1. Rounds' = Rounds
      BY <2>2, Zenon DEF Rounds
    <3>2. Started' = {f.proposal : f \in {g \in Proofs : leases'[g] > 0}}
      BY Zenon DEF Started
    <3>3. {g \in Proofs : leases'[g] > 0} = {g \in Proofs : leases[g] > 0} \cup {proof[w]}
      BY <2>1, <2>3, Zenon
    <3>4. Started' = Started \cup {serving[w]}
      BY <2>1, <3>2, <3>3, Zenon DEF Started
    <3> QED
      BY <3>1, <3>4, Zenon
  <2>5. Lifecycle!Execute(serving[w])
    BY <2>1, <2>2, <2>4, Zenon DEF Lifecycle!Execute
  <2> QED
    BY <2>1, <2>5, Zenon DEF Lifecycle!Next
<1>8. ASSUME NEW w \in Workers, MarkApplied(w)
      PROVE  [Lifecycle!Next]_(Lifecycle!vars)
  <2>1. /\ serving[w] \in Proposals /\ state[serving[w]] = "approved"
        /\ state' = [state EXCEPT ![serving[w]] = "applied"] /\ UNCHANGED <<consumed, leases>>
    BY <1>8, <1>h, Zenon DEF MarkApplied
  <2>2. Lifecycle!Apply(serving[w])
    BY <2>1 DEF Rounds, Started, Lifecycle!Apply, Lifecycle!Move
  <2> QED
    BY <2>1, <2>2 DEF Lifecycle!Next
<1> QED
  BY <1>1, <1>2, <1>3, <1>4, <1>5, <1>6, <1>7, <1>8, ProposalFrame, Zenon DEF ProposalStep

(* The relay processes implement the proposal lifecycle of                 *)
(* ProposalAuthority.                                                      *)
THEOREM Implements == Spec => FollowsLifecycle
<1>1. Init => Lifecycle!Init
  <2>1. \A p : ResetRounds({}, p) = {}
    BY Zenon DEF ResetRounds
  <2>2. \A p : Generation({}, p) = 0
    BY <2>1, FS_EmptySet, Zenon DEF Generation
  <2> SUFFICES ASSUME Init PROVE Lifecycle!Init
    OBVIOUS
  <2>3. /\ state = [p \in Proposals |-> "absent"] /\ consumed = {}
        /\ \A f \in Proofs : leases[f] = 0
    BY Zenon DEF Init
  <2>4. Rounds = [p \in Proposals |-> 0]
    BY <2>2, <2>3, Zenon DEF Rounds
  <2>5. Started = {}
    BY <2>3 DEF Started
  <2> QED
    BY <2>3, <2>4, <2>5, Zenon DEF Lifecycle!Init
<1> QED
  BY <1>1, LifecycleStep, Invariance, PTL DEF Spec, FollowsLifecycle, Lifecycle!Spec

=============================================================================
