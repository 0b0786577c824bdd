-------------------------- MODULE ProfileAgreement --------------------------
(***************************************************************************)
(* What must agree around the pipeline of ProfilePipeline: the two sides   *)
(* of a transfer with each other, the lifecycle tables with the gate in    *)
(* front of them, the checks with the reducers, and the events that are    *)
(* emitted with the durable path that is to take them (DurableRequest).    *)
(***************************************************************************)
EXTENDS ProfilePipeline, DurableRequest, FiniteSetsExt

Total(rows) == FoldSet(LAMBDA s, n : n + (IF rows[s] = Unborn THEN 0 ELSE rows[s].state.amount),
                       0, Subjects)

(* "Transfers are atomic debit + credit transactions": a batch of          *)
(* transfers that reaches the index leaves the total over all holders as   *)
(* it was, whether the destination is new, is the source itself, or was    *)
(* moved by another caller since the batch was planned.                    *)
TransfersConserve ==
    [][\A c \in Callers :
          /\ kind \in {"stack", "balance"} /\ index' # index /\ plan'[c] # plan[c]
          /\ \A n \in DOMAIN plan[c] : plan[c][n][1].op \in TransferOperations
          => Total(index') = Total(index)]_vars

-----------------------------------------------------------------------------
(* The two tables agree: what a lifecycle table allows from a status, the  *)
(* availability gate of resource.rs lets through (hard delete, which the   *)
(* gate is there to confine, apart).                                       *)
TablesAgree(state, i) ==
    state # NoState /\ i.op # "asset.hard_delete" => Available(state, i.op)

(* No paid asset, entitlement, listing or escrow is stuck: from every      *)
(* status that is not terminal some operation passes both tables.          *)
NeverStuck ==
    kind \in {"paid", "entitlement", "listing", "escrow"} =>
        \A k \in Addresses : index[k] # Unborn
                             /\ index[k].state.status \notin TerminalStatuses =>
            \E i \in Intents(kind) : CheckAccess(index[k].state, i)
                                     /\ Check(kind, index[k].state, i)

(* A check is enough for its reducer: what rules.check accepts, of a       *)
(* resource or of none, apply finds the inputs for, and makes a state of   *)
(* the type the intent was resolved to, though it reads the inputs and the *)
(* type again, by itself.  Only the arithmetic is left to refuse.          *)
CheckSuffices(state, i) == Reducible(kind, i) /\ OfStateType(kind, Apply(kind, state, i))

(* The request in which an intent's events are made durable: of one        *)
(* tenant and resource, under a commit of its own.                         *)
DurableIntent(i) ==
    [tenant |-> "tenant", resource |-> "resource", intent_id |-> i, state_type |-> kind,
     actor |-> i.actor, op |-> i.op, domain |-> i.domain, schema |-> i.schema]
DurableEvents(i) ==
    LET emitted == Events(i)
        type(row) == IF row.state = NoState \/ OfStateType(kind, row.state) THEN kind ELSE Malformed
        side(row) == Commitment(type(row), row.version, row.state)
    IN [n \in DOMAIN emitted |->
           [schema |-> "event", event_id |-> <<i, n>>, intent_id |-> i, tenant |-> "tenant",
            resource |-> "resource", actor |-> i.actor, operation |-> emitted[n].op,
            before |-> side(emitted[n].before), after |-> side(emitted[n].after)]]
DurableRequestOf(i, derived) ==
    RequestOf(DurableIntent(i), DurableEvents(i), <<"commit", i>>, derived)

(* The durable path takes what the executor emits, of any profile, of a    *)
(* resource that is born and of the two sides of a transfer, and takes it  *)
(* whole: a request that has some of its parts from another request of the *)
(* same resource is refused, unless it makes no difference.                *)
EmittedIsDurable ==
    \A derived \in BOOLEAN :
        LET requests == {DurableRequestOf(i, derived) :
                            i \in {i \in Intents(kind) : Accepted(Current(i).state, i)}}
        IN \A r \in requests :
              /\ Takes(r)
              /\ \A q \in requests \ {r}, parts \in Parts :
                    LET mixed == Mixed(r, q, parts) IN Takes(mixed) => mixed = r

(* The lifecycle tables of the profiles, the availability gate, the        *)
(* reducers and the checks of the durable path make one lifecycle: none    *)
(* forbids what another promises, and no status is a dead end. Every index *)
(* is met with nothing planned, and what is planned makes no difference.   *)
LifecyclesAgree ==
    (\A c \in Callers : plan[c] = <<>>) =>
        /\ NeverStuck
        /\ EmittedIsDurable
        /\ kind # "custom" =>
              \A state \in {index[k].state : k \in Addresses}, i \in Intents(kind) :
                  Check(kind, state, i) => TablesAgree(state, i) /\ CheckSuffices(state, i)
=============================================================================
