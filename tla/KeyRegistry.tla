---------------------------- MODULE KeyRegistry -----------------------------
(***************************************************************************)
(* The in-process key registry:                                            *)
(* crates/statechronicle-ports/src/key_registry.rs. A registry is a        *)
(* function from the registered key ids to records; every method is atomic *)
(* under its lock. A method that fails leaves the registry as it is.       *)
(***************************************************************************)
EXTENDS Integers

CONSTANT Absent  \* no subject, or no end of validity

Active == "active"
Retired == "retired"
Revoked == "revoked"

InWindow(record, at) ==
    at >= record.valid_from /\ (record.valid_until # Absent => at < record.valid_until)

(* KeyRecord::permits                                                      *)
Permits(record, tenant, subject, operation, at) ==
    /\ record.tenant = tenant /\ record.subject = subject
    /\ record.status = Active
    /\ InWindow(record, at)
    /\ operation \in record.operations

(* register: malformed or known keys are refused.                          *)
Register(keys, id, record) ==
    IF \/ record.subject # Absent /\ record.operations = {}
       \/ record.valid_until # Absent /\ record.valid_until <= record.valid_from
       \/ record.status = Revoked
       \/ id \in DOMAIN keys
    THEN keys
    ELSE [k \in DOMAIN keys \cup {id} |-> IF k = id THEN record ELSE keys[k]]

(* set_status (retire, revoke): a revoked key stays revoked.               *)
SetStatus(keys, id, status) ==
    IF id \notin DOMAIN keys \/ (keys[id].status = Revoked /\ status # Revoked) THEN keys
    ELSE [keys EXCEPT ![id].status = status]

(* resolve_intent_key                                                      *)
ResolveIntentKey(keys, tenant, subject, id, operation, at) ==
    id \in DOMAIN keys /\ Permits(keys[id], tenant, subject, operation, at)

(* resolve_commit_key: a retired key still vouches for what it signed.     *)
ResolveCommitKey(keys, tenant, id, at) ==
    /\ id \in DOMAIN keys
    /\ keys[id].tenant = tenant /\ InWindow(keys[id], at)
    /\ keys[id].status # Revoked
=============================================================================
