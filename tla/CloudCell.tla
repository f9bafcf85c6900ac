------------------------------ MODULE CloudCell ------------------------------
(***************************************************************************)
(* One tenant's cell: the approval outbox and the relay conversations over *)
(* the same devices and the same lock (postgres_store.py,                  *)
(* execution_transaction).                                                 *)
(*                                                                         *)
(* world is the kind of use a behaviour makes of the cell, and fixed:      *)
(* "work" has the calendar jobs of devices that are enrolled already;      *)
(* "talk" enrolls devices and holds conversations.                         *)
(***************************************************************************)
EXTENDS PostgresOutbox, PostgresConversations

VARIABLE world

vars == <<world, now, deviceVars, audit, workVars, talkVars>>

Init ==
    /\ world \in {"work", "talk"}
    /\ known = IF world = "work" THEN {f.device : f \in Jobs} ELSE {}
    /\ active = known
    /\ CellInit /\ WorkInit /\ TalkInit

ProposalWork ==
    /\ world = "work" /\ UNCHANGED <<world, deviceVars, audit, talkVars>>
    /\ \E p \in Proposals : Create(p) \/ Delete(p) \/ \E f \in Jobs : Approve(p, f)

WorkerStep ==
    /\ world = "work" /\ UNCHANGED <<world, deviceVars, audit, talkVars>>
    /\ \E w \in Workers :
        \/ \E later \in now .. MaxTime :
            ClaimNothing(w, later) \/ \E f \in Jobs : Claim(w, f, later)
        \/ ReadClock(w) \/ Complete(w) \/ Abandon(w)

RecoveryStep ==
    /\ world = "work" /\ UNCHANGED <<world, deviceVars, audit, talkVars>>
    /\ \/ StartSweep \/ Recover
       \/ \E f \in Jobs, outcome \in {"succeeded", "cancelled"} : Reconcile(f, outcome)

Talk ==
    /\ world = "talk" /\ UNCHANGED <<world, now, deviceVars, workVars>>
    /\ \/ \E d \in Devices :
           \/ \E identity \in Identities : Provision(identity, d)
           \/ \E c \in Conversations :
               \/ \E title \in Titles : Open(c, title, d)
               \/ \E batch \in Batches : AppendBatch(c, d, batch)
               \/ DeleteConversation(c, d)
       \/ Expire

Membership ==
    /\ UNCHANGED <<world, now, audit, workVars, talkVars>>
    /\ \E d \in Devices : Enroll(d) \/ Revoke(d)

TimePasses == Tick /\ UNCHANGED <<world, deviceVars, audit, workVars, talkVars>>

Next == ProposalWork \/ WorkerStep \/ RecoveryStep \/ Talk \/ Membership \/ TimePasses

Spec == Init /\ [][Next]_vars
==============================================================================
