---------------------------- MODULE AtomicLedger ----------------------------
(***************************************************************************)
(* What a caller of persist_durable is promised, with every step of the    *)
(* write path removed: one tenant's ledger executes each accepted intent   *)
(* at most once, in one atomic step that moves every projection the        *)
(* intent touches by exactly one version, and every success reported to a  *)
(* caller names the commit that step created.  Module DurableLedger is     *)
(* shown to implement this one.                                            *)
(***************************************************************************)
EXTENDS Naturals, Sequences

CONSTANTS Intents,    \* idempotency keys (tenant_id, intent_id) of one tenant
          Payloads,   \* canonical payloads an intent id may come with
          Keys,       \* projection keys of the tenant
          CommitIds,  \* identifiers handed out by the platform sequencer
          Footprint   \* the projections the events of an intent touch

VARIABLES log,        \* the committed mutations, in commit order
          version,    \* the version of every projection
          acked       \* every success a caller has been told of

vars == <<log, version, acked>>

Entry == [intent : Intents, payload : Payloads, commit : CommitIds]

Logged == {log[n] : n \in DOMAIN log}

Init == /\ log = <<>>
        /\ version = [k \in Keys |-> 0]
        /\ acked = {}

(* One mutation happens, all of it, for an intent and under a commit id    *)
(* that never happened before.                                             *)
Commit(e) == /\ \A f \in Logged : f.intent # e.intent /\ f.commit # e.commit
             /\ log' = Append(log, e)
             /\ version' = [k \in Keys |-> IF k \in Footprint[e.intent]
                                           THEN version[k] + 1
                                           ELSE version[k]]
             /\ UNCHANGED acked

(* A caller learns of a mutation, for the first time or again.             *)
Acknowledge(e) == /\ e \in Logged
                  /\ acked' = acked \cup {e}
                  /\ UNCHANGED <<log, version>>

Next == \E e \in Entry : Commit(e) \/ Acknowledge(e)

Spec == Init /\ [][Next]_vars
=============================================================================
