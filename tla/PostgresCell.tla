---------------------------- MODULE PostgresCell ----------------------------
(***************************************************************************)
(* What the repositories of a tenant's PostgreSQL cell share: the enrolled *)
(* devices (postgres_devices.py) and the audit chain (postgres_store.py).  *)
(* Every unit of work holds the row lock of the cell from its first read   *)
(* to its commit, so it is one action, and an error anywhere in it leaves  *)
(* the cell as it was.                                                     *)
(*                                                                         *)
(* The chain is abstracted to how many entries of each class it holds, and *)
(* to the number of events its deletion entries name.  The entries that    *)
(* accompany each version of a domain record are left out.                 *)
(***************************************************************************)
EXTENDS Authority

CONSTANTS
    Fingerprint,    \* device -> fingerprint of its public key
    MaxTime         \* bound on the clock

ASSUME CellAssumption == MaxTime \in Nat /\ Devices \subseteq DOMAIN Fingerprint

VARIABLES
    now,        \* clock.now()
    known,      \* rows of lifeos_devices
    active,     \* the ones that are not revoked
    audit       \* lifeos_audit

deviceVars == <<known, active>>

(* provision: an empty cell.                                               *)
CellInit ==
    /\ now = 0
    /\ audit = [bound |-> 0, created |-> 0, accepted |-> 0, deleted |-> 0, purged |-> 0]

(* append_audit: n entries of a class under the lock.                      *)
Audited(class, n) == audit' = [audit EXCEPT ![class] = @ + n]

(* insert: a device id or a key that was ever enrolled is refused, revoked *)
(* ones included.                                                          *)
Enroll(d) ==
    /\ d \notin known /\ \A e \in known : Fingerprint[e] # Fingerprint[d]
    /\ known' = known \cup {d}
    /\ active' = active \cup {d}

(* revoke: for good.                                                       *)
Revoke(d) ==
    /\ d \in active
    /\ active' = active \ {d}
    /\ UNCHANGED known

Tick ==
    /\ now < MaxTime
    /\ now' = now + 1
=============================================================================
