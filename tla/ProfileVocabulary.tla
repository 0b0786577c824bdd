-------------------------- MODULE ProfileVocabulary --------------------------
(***************************************************************************)
(* What the baseline profiles of crates/statechronicle-profiles/src are    *)
(* written in: the operations and statuses each one registers (the op and  *)
(* status modules), the fields of each state payload (resource_state.rs in *)
(* crates/statechronicle-domain/src), the inputs each check and each       *)
(* reducer reads, and the conditions on a custom profile.                  *)
(*                                                                         *)
(* An intent is a record with a field for each input.  The owner, seller,  *)
(* buyer or holder an operation names is its to (from, for the seller of   *)
(* an escrow), its quantity, balance or remaining its amount, its actor    *)
(* input its party, and a value leg, three inputs of the code, its price.  *)
(***************************************************************************)
EXTENDS Integers

CONSTANTS None,      \* an absent input, an absent trade id
          Malformed  \* an input of another JSON type than its reader wants

(* The types of state, the paid asset apart from the plain one.            *)
StateTypes ==
    {"asset", "paid", "stack", "balance", "entitlement", "meter", "listing", "escrow", "custom"}

AssetStatuses ==
    {"active", "locked", "listed", "escrowed", "redeemed", "burned", "trade_held",
     "restricted", "quarantined", "unsupported", "tombstoned"}
PaidStatuses == AssetStatuses \cup {"legal_hold", "fraud_lock", "policy_restricted"}
EntitlementStatuses == {"granted", "active", "suspended", "expired", "revoked"}
ListingStatuses == {"listed", "cancelled", "sold", "expired"}
EscrowStatuses == {"locked", "released", "refunded"}

AssetOperations ==
    {"asset.mint", "asset.transfer", "asset.burn", "asset.lock", "asset.unlock", "asset.redeem",
     "asset.list", "asset.delist", "asset.escrow", "asset.release", "asset.attach_content",
     "asset.detach_content", "asset.update_metadata", "asset.restrict", "asset.restore",
     "trade.lock", "trade.unlock", "trade.settle"}
PaidOperations == AssetOperations \cup {"asset.hard_delete"}
StackOperations ==
    {"stack.create", "stack.credit", "stack.debit", "stack.consume", "stack.transfer",
     "stack.reserve", "stack.release", "stack.expire", "stack.adjust"}
BalanceOperations ==
    {"balance.create", "balance.mint", "balance.credit", "balance.debit", "balance.transfer",
     "balance.reserve", "balance.release", "balance.spend", "balance.burn", "balance.convert"}
EntitlementOperations ==
    {"entitlement.grant", "entitlement.activate", "entitlement.suspend", "entitlement.restore",
     "entitlement.expire", "entitlement.revoke", "entitlement.transfer"}
MeterOperations ==
    {"meter.create", "meter.consume", "meter.refill", "meter.set_maximum", "meter.reset",
     "meter.expire"}
ListingOperations == {"listing.create", "listing.cancel", "listing.buy", "listing.expire"}
EscrowOperations == {"escrow.lock", "escrow.release", "escrow.refund"}

(* ProfileRules::allowed_operations.                                       *)
Operations(kind) ==
    CASE kind = "asset" -> AssetOperations
      [] kind = "paid" -> PaidOperations
      [] kind = "stack" -> StackOperations
      [] kind = "balance" -> BalanceOperations
      [] kind = "entitlement" -> EntitlementOperations
      [] kind = "meter" -> MeterOperations
      [] kind = "listing" -> ListingOperations
      [] kind = "escrow" -> EscrowOperations

(* Operation::state_type_hint: the prefix of a baseline operation names    *)
(* the type of the state it creates; "trade." is nobody's prefix.          *)
StateTypeHint(op) ==
    CASE op \in PaidOperations \ {"trade.lock", "trade.unlock", "trade.settle"} -> "asset"
      [] op \in StackOperations -> "stack"
      [] op \in BalanceOperations -> "balance"
      [] op \in EntitlementOperations -> "entitlement"
      [] op \in MeterOperations -> "meter"
      [] op \in ListingOperations -> "listing"
      [] op \in EscrowOperations -> "escrow"
      [] OTHER -> None
-----------------------------------------------------------------------------
(* The state of a resource that does not exist has no field.               *)
NoState == [f \in {} |-> f]

(* ResourceState: the fields of the payload of each state type.            *)
StateFields(kind) ==
    CASE kind \in {"asset", "paid"} -> {"owner", "status", "trade"}
      [] kind \in {"stack", "balance"} -> {"subject", "amount", "unit"}
      [] kind = "entitlement" -> {"subject", "status", "transferable"}
      [] kind = "meter" -> {"subject", "remaining", "maximum"}
      [] kind = "listing" -> {"seller", "status"}
      [] kind = "escrow" -> {"buyer", "seller", "status"}
      [] kind = "custom" -> {"domain", "schema", "payload"}

(* ResourceState::state_type                                               *)
OfStateType(kind, state) == DOMAIN state = StateFields(kind)

HasStatus(state) == "status" \in DOMAIN state

(* ResourceState::owner, or else subject.                                  *)
Holder(state) ==
    CASE "owner" \in DOMAIN state -> state.owner
      [] "subject" \in DOMAIN state -> state.subject
      [] OTHER -> None
-----------------------------------------------------------------------------
(* input_str: a required input is there and is a string.                   *)
Given(value) == value \notin {None, Malformed}

(* input_amount, parse_amount_str: and its text is a number without a      *)
(* sign.                                                                   *)
GivenAmount(value) == Given(value) /\ value >= 0

(* An optional input of another type counts as absent.                     *)
Optional(value) == IF value = Malformed THEN None ELSE value

AssetInputs(op) ==
    CASE op = "asset.mint" -> {"to"}
      [] op = "asset.transfer" -> {"from", "to"}
      [] op = "asset.burn" -> {"from"}
      [] op = "asset.hard_delete" -> {"party"}
      [] op = "trade.lock" -> {"from", "trade"}
      [] op = "trade.unlock" -> {"trade"}
      [] op = "trade.settle" -> {"from", "to", "trade"}
      [] OTHER -> {}

StackInputs(op) ==
    CASE op = "stack.create" -> {"to", "unit", "amount"}
      [] op = "stack.transfer" -> {"to", "amount"}
      [] op = "stack.expire" -> {}
      [] OTHER -> {"amount"}

BalanceInputs(op) ==
    CASE op = "balance.create" -> {"to", "unit", "amount"}
      [] op = "balance.transfer" -> {"to", "amount"}
      [] op = "balance.convert" -> {"unit", "amount"}
      [] op \in {"balance.mint", "balance.burn"} -> {"authorized_by", "amount"}
      [] OTHER -> {"amount"}

MeterInputs(op) ==
    CASE op = "meter.create" -> {"to", "amount", "maximum"}
      [] op = "meter.consume" -> {"amount"}
      [] op = "meter.set_maximum" -> {"maximum"}
      [] OTHER -> {}

HolderInputs(op) ==
    CASE op \in {"entitlement.grant", "entitlement.transfer", "listing.create", "listing.buy"} ->
            {"to"}
      [] op = "escrow.lock" -> {"to", "from"}
      [] OTHER -> {}

(* The inputs the check of an operation requires.                          *)
CheckInputs(kind, op) ==
    CASE kind \in {"asset", "paid"} -> AssetInputs(op)
      [] kind = "stack" -> StackInputs(op)
      [] kind = "balance" -> BalanceInputs(op)
      [] kind = "meter" -> MeterInputs(op)
      [] OTHER -> HolderInputs(op)

(* The inputs the reducer reads: it leaves alone the ones that only        *)
(* authorize.                                                              *)
ReducerInputs(kind, op) ==
    CheckInputs(kind, op)
    \ CASE op \in {"asset.transfer", "asset.burn"} -> {"from"}
        [] op = "asset.hard_delete" -> {"party"}
        [] op \in {"balance.mint", "balance.burn"} -> {"authorized_by"}
        [] op = "listing.buy" -> {"to"}
        [] OTHER -> {}

AllGiven(fields, i) ==
    \A f \in fields : IF f \in {"amount", "maximum"} THEN GivenAmount(i[f]) ELSE Given(i[f])

(* check_value_leg: a settlement declares no value, or the three inputs of *)
(* one; part of one is malformed.                                          *)
CheckValueLeg(i) == i.price # Malformed
-----------------------------------------------------------------------------
(* ProfileRegistry::with_custom: what a set of custom profiles must be to  *)
(* be composed with the baseline.                                          *)
Registrable(profiles) ==
    /\ \A p \in profiles : /\ p.schema > 0 /\ p.ops # {}
                           /\ \A op \in p.ops : StateTypeHint(op) = None
    /\ \A p, q \in profiles : p # q =>
          /\ p.id = q.id => p.schema # q.schema
          /\ p.id # q.id => p.ops \cap q.ops = {}

(* ProfileRegistry::resolve, for a custom domain.                          *)
Resolve(profiles, i) == {p \in profiles : p.id = i.domain /\ p.schema = i.schema}
=============================================================================
