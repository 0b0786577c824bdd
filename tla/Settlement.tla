----------------------------- MODULE Settlement -----------------------------
(***************************************************************************)
(* Trades settled through the coordinators of settlement.rs and the        *)
(* validators of crates/statechronicle-profiles/src/atomicity.rs: assets   *)
(* held under a trade id change hands for value, within a tenant           *)
(* (execute_settle), across tenants by a shared intent id                  *)
(* (execute_cross_tenant), or across tenants under a declared manifest     *)
(* (execute_cross_tenant_trade).                                           *)
(*                                                                         *)
(* A call executes its intents against the rows as they are, validates the *)
(* events, and is persisted later, if the rows have not moved since.       *)
(* Intent ids are fresh in every call, so they only relate the intents of  *)
(* one call; replays are the subject of BatchExecutor.                     *)
(***************************************************************************)
EXTENDS ProfileRules, FiniteSets, SequencesExt, BagsExt

CONSTANTS Assets, Currencies, Subjects,
          TenantOf,     \* of a resource: 1, 2, ... in the order of their names
          Calls,        \* the calls made: a route, a set of intents, a manifest
          Singles,      \* intents others submit on their own in between
          Opening       \* the rows at the start

VARIABLES rows,   \* the state index, by resource and holder
          call,   \* the call that has been executed and not yet persisted
          moved   \* the rows written since it was executed

vars == <<rows, call, moved>>

Keys == (Assets \X {None}) \cup (Currencies \X Subjects)

Init == rows = Opening /\ call = None /\ moved = {}

KeyOf(i) == <<i.resource, IF i.resource \in Assets THEN None ELSE i.actor>>
ProfileOf(i) == IF i.resource \in Assets THEN "asset" ELSE "balance"
IsSettle(i) == i.op = "trade.settle"

(* declares_value_leg, declared_value_leg_tuple: a settle intent may name  *)
(* the value it is settled for.                                            *)
DeclaresValueLeg(i) == IsSettle(i) /\ i.price # None

(* validate_route: a settle intent with a value leg needs a coordinator    *)
(* that matches it with the value.                                         *)
ValidateRoute(i, coordinated) == coordinated \/ ~DeclaresValueLeg(i)

Event(i, key, after) ==
    [id |-> i.id, tenant |-> TenantOf[i.resource], op |-> i.op,
     key |-> key, before |-> rows[key], after |-> after]

(* The event of an intent and, for a transfer, the credit.                 *)
Events(i) ==
    LET current == rows[KeyOf(i)]
        primary == Event(i, KeyOf(i), Apply(ProfileOf(i), current, i))
        target == <<i.resource, i.to>>
    IN IF i.op \in TransferOperations
       THEN {primary, Event(i, target, Credit(current, rows[target], i))}
       ELSE {primary}

(* execute_inner, for an intent of a call.                                 *)
Executes(i, coordinated) ==
    /\ ValidateRoute(i, coordinated)
    /\ CheckAccess(rows[KeyOf(i)], i) /\ Check(ProfileOf(i), rows[KeyOf(i)], i)
    /\ Reducible(ProfileOf(i), i)
    /\ \A e \in Events(i) : Fits(e.after)

(* run_batch.                                                              *)
RunBatch(intents) == UNION {Events(i) : i \in intents}
-----------------------------------------------------------------------------
Amount(state) == IF state = NoState THEN 0 ELSE state.amount
Gain(e) == Amount(e.after) - Amount(e.before)

IdsOf(events) == {e.id : e \in events}
TenantsOf(events) == {e.tenant : e \in events}
Group(events, id) == {e \in events : e.id = id}

(* validate_transfer_pair: two events of one transfer over one resource,   *)
(* the one losing what the other gains.                                    *)
IsTransferPair(group) ==
    \E debit, credit \in group :
        /\ group = {debit, credit} /\ debit.op = credit.op
        /\ debit.op \in TransferOperations
        /\ debit.key[1] = credit.key[1]
        /\ Gain(debit) < 0 /\ Gain(credit) = -Gain(debit)

(* validate_batch_consistency.                                             *)
BatchConsistent(events) ==
    /\ Cardinality(TenantsOf(events)) <= 1
    /\ \A id \in IdsOf(events) : LET group == Group(events, id) IN
          Cardinality(group) > 1 => IsTransferPair(group)

(* recover_value_pairs: events are grouped by intent id in the order of    *)
(* the tenants, and the first of a group says what the group is.           *)
IsValueGroup(group) ==
    \E e \in group : /\ e.op = "balance.transfer"
                     /\ \A f \in group : e.tenant <= f.tenant

ValueIds(events) == {id \in IdsOf(events) : IsValueGroup(Group(events, id))}

PairsRecovered(events) ==
    \A id \in ValueIds(events) : Cardinality(Group(events, id)) = 2

ValueLeg(resource, amount, to) == [resource |-> resource, amount |-> amount, to |-> to]

(* The debit, the resource and the credited subject of a pair; a bag,      *)
(* since two pairs may move the same.                                      *)
PairLeg(group) ==
    LET credit == CHOOSE e \in group : Gain(e) > 0
    IN ValueLeg(credit.key[1], Gain(credit), credit.after.subject)

Legs(ids, LegOf(_)) ==
    LET legs == {LegOf(id) : id \in ids}
    IN [l \in legs |-> Cardinality({id \in ids : LegOf(id) = l})]

PairLegs(events) == Legs(ValueIds(events), LAMBDA id : PairLeg(Group(events, id)))
DeclaredLegs(settles) == Legs({i \in settles : DeclaresValueLeg(i)}, LAMBDA i : i.price)
SettleEvents(events) == {e \in events : e.op = "trade.settle"}

(* Variant: the number of assets is not compared with the bundle's size.   *)
BundleShapeUncounted(settles, events) ==
    /\ \A i \in settles : i.bundle # None
    /\ \A i, j \in settles : i.bundle = j.bundle /\ i.trade = j.trade
    /\ \A e, f \in SettleEvents(events) : e # f => e.key # f.key

(* check_bundle_shape.                                                     *)
BundleShape(settles, events) ==
    /\ \A i \in settles : i.bundle # None
    /\ \A i, j \in settles : i.bundle = j.bundle /\ i.trade = j.trade
    /\ \A i \in settles : i.bundle > 0 /\ Cardinality(SettleEvents(events)) = i.bundle
    /\ \A e, f \in SettleEvents(events) : e # f => e.key # f.key

(* Variant: pairs nobody declared are let through.                         *)
SettleBatchCovers(events, settles) ==
    /\ Cardinality(TenantsOf(events)) <= 1
    /\ IF \E i \in settles : i.bundle # None THEN BundleShape(settles, events)
       ELSE Cardinality(SettleEvents(events)) = Cardinality(settles)
    /\ PairsRecovered(events)
    /\ DeclaredLegs(settles) \sqsubseteq PairLegs(events)

(* validate_settle_batch.                                                  *)
SettleBatch(events, settles) ==
    /\ Cardinality(TenantsOf(events)) <= 1
    /\ IF \E i \in settles : i.bundle # None THEN BundleShape(settles, events)
       ELSE Cardinality(SettleEvents(events)) = Cardinality(settles)
    /\ PairsRecovered(events)
    /\ \A id \in IdsOf(events) : Cardinality(Group(events, id)) > 1 => id \in ValueIds(events)
    /\ ValueIds(events) \cap {i.id : i \in settles} = {}
    /\ PairLegs(events) = DeclaredLegs(settles)

TenantGroups(events) == {{e \in events : e.tenant = t} : t \in TenantsOf(events)}

(* validate_cross_tenant_consistency.                                      *)
CrossTenantConsistent(events) ==
    /\ \A group \in TenantGroups(events) : BatchConsistent(group)
    /\ \E id \in IdsOf(events) : Cardinality(TenantsOf(Group(events, id))) >= 2

(* validate_cross_tenant_trade (b): the settle events are exactly the legs *)
(* of the manifest, distinct in asset and in intent.                       *)
SettleLegsMatch(events, manifest, settles) ==
    /\ manifest.settles # {}
    /\ \A l, k \in manifest.settles : l # k => l[1] # k[1] /\ l[2] # k[2]
    /\ {leg[2] : leg \in manifest.settles} \subseteq {i.id : i \in settles}
    /\ {<<e.key[1], e.id>> : e \in SettleEvents(events)} = manifest.settles
    /\ Cardinality(SettleEvents(events)) = Cardinality(manifest.settles)

(* (c), (c2): the value pairs are the manifest's value legs, which cover   *)
(* what the settle intents declare.                                        *)
ValueLegsMatch(events, manifest, settles) ==
    LET values == Legs(DOMAIN manifest.values, LAMBDA n : manifest.values[n])
    IN PairsRecovered(events) /\ PairLegs(events) = values
       /\ DeclaredLegs(settles) \sqsubseteq values

(* (d): every intent id is one of a settle leg or of a value pair.         *)
IdsDeclared(events, manifest) ==
    LET settleIds == {leg[2] : leg \in manifest.settles}
    IN /\ ValueIds(events) \cap settleIds = {}
       /\ IdsOf(events) \subseteq settleIds \cup ValueIds(events)

CrossTenantTrade(events, manifest, settles) ==
    /\ Cardinality(TenantsOf(events)) >= 2
    /\ \A group \in TenantGroups(events) : BatchConsistent(group)
    /\ SettleLegsMatch(events, manifest, settles)
    /\ ValueLegsMatch(events, manifest, settles)
    /\ IdsDeclared(events, manifest)
-----------------------------------------------------------------------------
(* execute_settle_inner.                                                   *)
ExecuteSettle(intents) ==
    /\ intents # {}
    /\ \A i \in intents : Executes(i, TRUE)
    /\ BatchConsistent(RunBatch(intents))
    /\ SettleBatch(RunBatch(intents), {i \in intents : IsSettle(i)})

(* execute_cross_tenant_inner: no manifest, so no value legs.              *)
ExecuteCrossTenant(intents) ==
    /\ Cardinality({TenantOf[i.resource] : i \in intents}) >= 2
    /\ \A i \in intents : Executes(i, FALSE)
    /\ CrossTenantConsistent(RunBatch(intents))

(* execute_cross_tenant_trade_inner.                                       *)
ExecuteCrossTenantTrade(intents, manifest) ==
    /\ Cardinality({TenantOf[i.resource] : i \in intents}) >= 2
    /\ \A i \in intents : Executes(i, TRUE)
    /\ CrossTenantTrade(RunBatch(intents), manifest, {i \in intents : IsSettle(i)})

(* A call is executed and its events validated.                            *)
Execute(c) ==
    /\ call = None
    /\ \/ c.route = "settle" /\ ExecuteSettle(c.intents)
       \/ c.route = "cross" /\ ExecuteCrossTenant(c.intents)
       \/ c.route = "trade" /\ ExecuteCrossTenantTrade(c.intents, c.manifest)
    /\ call' = [request |-> c, events |-> RunBatch(c.intents)]
    /\ moved' = {}
    /\ UNCHANGED rows

(* The sink takes all the events of a call or none: every row must be the  *)
(* one its event starts from, and no row is replaced twice.                *)
SinkTakes(events) ==
    /\ {e.key : e \in events} \cap moved = {}
    /\ \A e, f \in events : e # f => e.key # f.key

Write(events) ==
    [k \in Keys |-> IF \E e \in events : e.key = k
                    THEN (CHOOSE e \in events : e.key = k).after ELSE rows[k]]

Persist ==
    /\ call # None /\ SinkTakes(call.events)
    /\ rows' = Write(call.events)
    /\ call' = None /\ moved' = {}

(* The sink refuses the batch, or fails.                                   *)
Refuse == call # None /\ call' = None /\ moved' = {} /\ UNCHANGED rows

(* Another caller's intent is executed and persisted meanwhile.            *)
Single(i) ==
    /\ Executes(i, FALSE)
    /\ \A e, f \in Events(i) : e # f => e.key # f.key
    /\ rows' = Write(Events(i))
    /\ moved' = IF call = None THEN {} ELSE moved \cup {e.key : e \in Events(i)}
    /\ UNCHANGED call

(* Calls with an intent that cannot execute are left out at once.          *)
Requests == {c \in Calls : c.intents # {}}
Submitted == UNION {c.intents : c \in Requests}
Candidates ==
    LET ready == {i \in Submitted : Executes(i, TRUE)}
    IN {c \in Requests : c.intents \subseteq ready}

Next == (\E c \in Candidates : Execute(c)) \/ Persist \/ Refuse \/ (\E i \in Singles : Single(i))

Spec == Init /\ [][Next]_vars
-----------------------------------------------------------------------------
(* Delivery against payment: when a settlement that names a price reaches  *)
(* the index, in any tenant and by any route, the asset goes to the buyer  *)
(* and the named recipient is richer by exactly the price, in one step.    *)
PaidExactly ==
    Persist => \A i \in call.request.intents : DeclaresValueLeg(i) =>
       /\ rows'[KeyOf(i)].owner = i.to
       /\ LET k == <<i.price.resource, i.price.to>> IN
          Amount(rows'[k]) - Amount(rows[k]) = i.price.amount

(* A bundle is settled whole: "the settle-event count must equal the       *)
(* declared bundle size (every asset in the bundle is settled exactly      *)
(* once)", and all its assets were held under one trade id.                *)
BundlesAreWhole ==
    [][Persist /\ call.request.route = "settle" =>
          \A i \in call.request.intents : IsSettle(i) /\ i.bundle # None =>
             LET out == {a \in Assets : rows[<<a, None>>].trade # None
                                        /\ rows'[<<a, None>>].trade = None}
             IN Cardinality(out) = i.bundle
                /\ \A a \in out : rows[<<a, None>>].trade = i.trade]_vars

(* A settlement within a tenant moves no value but the value its settle    *)
(* intents name: the pairs match them "1:1".                               *)
NoUndeclaredValue ==
    Persist /\ call.request.route = "settle" =>
       \A k \in Currencies \X Subjects : Amount(rows'[k]) > Amount(rows[k]) =>
          \E i \in call.request.intents : DeclaresValueLeg(i)
              /\ i.price = ValueLeg(k[1], Amount(rows'[k]) - Amount(rows[k]), k[2])

(* Value moves as declared: each price is paid exactly, to its recipient,  *)
(* with the delivery, and a settlement within a tenant moves nothing else. *)
ValueAsDeclared == [][PaidExactly /\ NoUndeclaredValue]_vars
=============================================================================
