---------------------------- MODULE ProfileRules ----------------------------
(***************************************************************************)
(* The baseline profiles (crates/statechronicle-profiles/src): what each   *)
(* operation requires of the current state (the check_* functions), what   *)
(* it makes of it (transition.rs), and the gates of resource.rs that stand *)
(* in front of both.  An intent carries its operation, its actor and the   *)
(* inputs of ProfileVocabulary, any of them absent or malformed.           *)
(***************************************************************************)
EXTENDS ProfileVocabulary

CONSTANT MaxAmount     \* the largest amount the mantissa can hold

(* Lifecycles: an operation, the statuses it starts from, where it ends.   *)
Move(op, from, to) == [op |-> op, from |-> from, to |-> to]

Restrictable == {"active", "locked", "listed", "escrowed", "trade_held"}
Exceptional == {"restricted", "quarantined", "unsupported",
                "legal_hold", "fraud_lock", "policy_restricted"}

AssetMoves ==
    {Move("asset.transfer", {"active"}, "active"), Move("asset.burn", {"active"}, "burned"),
     Move("asset.lock", {"active"}, "locked"), Move("asset.unlock", {"locked"}, "active"),
     Move("asset.list", {"active"}, "listed"), Move("asset.delist", {"listed"}, "active"),
     Move("asset.escrow", {"active"}, "escrowed"), Move("asset.release", {"escrowed"}, "active"),
     Move("asset.redeem", {"listed"}, "redeemed"),
     Move("asset.attach_content", {"active"}, "active"),
     Move("asset.detach_content", {"active"}, "active"),
     Move("asset.update_metadata", {"active"}, "active"),
     Move("asset.restrict", Restrictable, "restricted"),
     Move("asset.restore", {"restricted", "quarantined", "unsupported"}, "active"),
     Move("trade.lock", {"active"}, "trade_held"), Move("trade.unlock", {"trade_held"}, "active"),
     Move("trade.settle", {"trade_held"}, "active")}

(* Variant: restore starts only from the plain exceptional statuses.       *)
PaidMovesPlainRestore == AssetMoves

PaidMoves ==
    {m \in AssetMoves : m.op # "asset.restore"} \cup {Move("asset.restore", Exceptional, "active")}

EntitlementMoves ==
    {Move("entitlement.activate", {"granted"}, "active"),
     Move("entitlement.suspend", {"active"}, "suspended"),
     Move("entitlement.restore", {"suspended"}, "active"),
     Move("entitlement.expire", {"granted", "active", "suspended"}, "expired"),
     Move("entitlement.revoke", {"granted", "active"}, "revoked"),
     Move("entitlement.transfer", {"granted"}, "granted"),
     Move("entitlement.transfer", {"active"}, "active")}

ListingMoves ==
    {Move("listing.cancel", {"listed"}, "cancelled"), Move("listing.buy", {"listed"}, "sold"),
     Move("listing.expire", {"listed"}, "expired")}

EscrowMoves ==
    {Move("escrow.release", {"locked"}, "released"), Move("escrow.refund", {"locked"}, "refunded")}

Moves(kind) ==
    CASE kind = "asset" -> AssetMoves
      [] kind = "paid" -> PaidMoves
      [] kind = "entitlement" -> EntitlementMoves
      [] kind = "listing" -> ListingMoves
      [] kind = "escrow" -> EscrowMoves
      [] OTHER -> {}

(* require_from and single_from: the status of an existing resource is one *)
(* the operation starts from.                                              *)
StartsFrom(kind, state, op) ==
    \E m \in Moves(kind) : m.op = op /\ state.status \in m.from

Target(kind, state, op) ==
    (CHOOSE m \in Moves(kind) : m.op = op /\ state.status \in m.from).to

SubjectHeld == {"stack", "balance", "entitlement", "meter"}
Births == {"asset.mint", "stack.create", "balance.create", "entitlement.grant",
           "meter.create", "listing.create", "escrow.lock"}
TransferOperations == {"stack.transfer", "balance.transfer"}
StackAdds == {"stack.credit", "stack.release"}
StackTakes == {"stack.debit", "stack.consume", "stack.reserve", "stack.transfer"}
BalanceAdds == {"balance.mint", "balance.credit", "balance.release"}
BalanceTakes == {"balance.debit", "balance.spend", "balance.reserve", "balance.burn",
                 "balance.convert", "balance.transfer"}
-----------------------------------------------------------------------------
(* Variant: the trade id is read and not compared.                         *)
CheckAssetAnyTrade(state, i) ==
    /\ StartsFrom("asset", state, i.op)
    /\ i.op \in {"asset.transfer", "asset.burn", "trade.lock", "trade.settle"} =>
          i.from = state.owner
    /\ i.op = "trade.settle" => CheckValueLeg(i)

(* The owner of an asset must be the one the intent names, a trade-held    *)
(* asset is released only under the trade id it was locked with.           *)
CheckAsset(state, i) ==
    /\ StartsFrom("asset", state, i.op)
    /\ i.op \in {"asset.transfer", "asset.burn", "trade.lock", "trade.settle"} =>
          i.from = state.owner
    /\ i.op \in {"trade.unlock", "trade.settle"} => state.trade # None /\ i.trade = state.trade
    /\ i.op = "trade.settle" => CheckValueLeg(i)

(* The acting party is the owner or has the owner's consent; an intent     *)
(* without an actor input gives no signal and passes.                      *)
OwnerConsents(state, i) == Optional(i.party) \in {None, state.owner} \/ i.consent

(* check_restrict_overlay: a restriction cannot rewrite the owner and ends *)
(* in an exceptional status.                                               *)
RestrictOverlay(state, i) ==
    /\ Optional(i.owner) \in {None, state.owner}
    /\ Optional(i.status) \in Exceptional \cup {None}

(* Paid assets: hard delete by a consenting owner, restore from every      *)
(* exceptional status, otherwise the plain table and an overlay.           *)
CheckPaid(state, i) ==
    \/ i.op = "asset.hard_delete" /\ i.party = state.owner /\ i.consent
    \/ i.op = "asset.restore" /\ StartsFrom("paid", state, i.op)
    \/ /\ i.op \notin {"asset.hard_delete", "asset.restore"}
       /\ CheckAsset(state, i)
       /\ i.op \in {"asset.transfer", "trade.lock", "trade.settle"} => OwnerConsents(state, i)
       /\ i.op = "asset.restrict" => RestrictOverlay(state, i)

(* require_positive_available.                                             *)
PositiveAvailable(requested, available) == 0 < requested /\ requested <= available

(* What is taken from a stack is positive and there; it may be credited    *)
(* with nothing, and adjusted to nothing.                                  *)
CheckStack(state, i) ==
    \/ i.op \in StackTakes /\ PositiveAvailable(i.amount, state.amount)
    \/ i.op = "stack.release" /\ 0 < i.amount
    \/ i.op \in {"stack.credit", "stack.adjust", "stack.expire"}

(* What is taken from a balance is positive and there, what is added is    *)
(* positive.                                                               *)
CheckBalance(state, i) ==
    \/ i.op \in BalanceTakes /\ PositiveAvailable(i.amount, state.amount)
    \/ i.op \in BalanceAdds /\ 0 < i.amount

CheckEntitlement(state, i) ==
    /\ StartsFrom("entitlement", state, i.op)
    /\ i.op = "entitlement.transfer" => state.transferable

CheckMeter(state, i) ==
    \/ i.op = "meter.consume" /\ 0 < i.amount /\ i.amount <= state.remaining
    \/ i.op \in {"meter.refill", "meter.set_maximum", "meter.reset", "meter.expire"}

(* check_grant: whether it is transferable is a Boolean, if it is said.    *)
CheckGrant(i) == i.transferable # Malformed

(* require_unborn; a meter is not born above its maximum.                  *)
CheckBirth(i) ==
    /\ i.op \in Births
    /\ i.op = "meter.create" => i.amount <= i.maximum
    /\ i.op = "entitlement.grant" => CheckGrant(i)

(* ProfileRules::check: an operation of the profile, with the inputs it    *)
(* requires, from a state that allows it.                                  *)
Check(kind, state, i) ==
    /\ i.op \in Operations(kind)
    /\ AllGiven(CheckInputs(kind, i.op), i)
    /\ IF state = NoState THEN CheckBirth(i)
       ELSE /\ i.op \notin Births
            /\ CASE kind = "asset" -> CheckAsset(state, i)
                 [] kind = "paid" -> CheckPaid(state, i)
                 [] kind = "stack" -> CheckStack(state, i)
                 [] kind = "balance" -> CheckBalance(state, i)
                 [] kind = "entitlement" -> CheckEntitlement(state, i)
                 [] kind = "meter" -> CheckMeter(state, i)
                 [] OTHER -> StartsFrom(kind, state, i.op)
-----------------------------------------------------------------------------
(* The first state of a resource.                                          *)
Birth(kind, i) ==
    CASE kind = "asset" -> [owner |-> i.to, status |-> "active", trade |-> None]
      [] kind \in {"stack", "balance"} -> [subject |-> i.to, amount |-> i.amount, unit |-> i.unit]
      [] kind = "entitlement" -> [subject |-> i.to, status |-> "granted",
                                  transferable |-> i.transferable = TRUE]
      [] kind = "meter" -> [subject |-> i.to, remaining |-> i.amount, maximum |-> i.maximum]
      [] kind = "listing" -> [seller |-> i.to, status |-> "listed"]
      [] kind = "escrow" -> [buyer |-> i.to, seller |-> i.from, status |-> "locked"]

(* asset.restrict goes to the status its input names; only trade.lock      *)
(* leaves a trade id; content operations keep the state as it is.          *)
ApplyAsset(kind, state, i) ==
    CASE i.op \in {"asset.transfer", "trade.settle"} ->
            [owner |-> i.to, status |-> "active", trade |-> None]
      [] i.op = "trade.lock" -> [state EXCEPT !.status = "trade_held", !.trade = i.trade]
      [] i.op = "asset.restrict" /\ Given(i.status) ->
            [state EXCEPT !.status = i.status, !.trade = None]
      [] i.op = "asset.hard_delete" -> [state EXCEPT !.status = "tombstoned", !.trade = None]
      [] i.op \in {"asset.attach_content", "asset.detach_content", "asset.update_metadata"} -> state
      [] OTHER -> [state EXCEPT !.status = Target(kind, state, i.op), !.trade = None]

(* An adjusted stack holds what was said, an expired one nothing.          *)
ApplyStack(state, i) ==
    [state EXCEPT !.amount = CASE i.op \in StackAdds -> @ + i.amount
                               [] i.op \in StackTakes -> @ - i.amount
                               [] i.op = "stack.adjust" -> i.amount
                               [] i.op = "stack.expire" -> 0]

(* A conversion takes the amount and relabels what is left.                *)
ApplyBalance(state, i) ==
    [state EXCEPT !.amount = IF i.op \in BalanceAdds THEN @ + i.amount ELSE @ - i.amount,
                  !.unit = IF i.op = "balance.convert" THEN i.unit ELSE @]

ApplyEntitlement(state, i) ==
    [state EXCEPT !.status = Target("entitlement", state, i.op),
                  !.subject = IF i.op = "entitlement.transfer" THEN i.to ELSE @]

(* Variant: a lower maximum leaves what remains above it.                  *)
ApplyMeterUnclamped(state, i) ==
    CASE i.op = "meter.consume" -> [state EXCEPT !.remaining = @ - i.amount]
      [] i.op = "meter.refill" -> [state EXCEPT !.remaining = state.maximum]
      [] i.op = "meter.set_maximum" -> [state EXCEPT !.maximum = i.maximum]
      [] i.op \in {"meter.reset", "meter.expire"} -> [state EXCEPT !.remaining = 0]

ApplyMeter(state, i) ==
    CASE i.op = "meter.consume" -> [state EXCEPT !.remaining = @ - i.amount]
      [] i.op = "meter.refill" -> [state EXCEPT !.remaining = state.maximum]
      [] i.op = "meter.set_maximum" ->
            [state EXCEPT !.maximum = i.maximum,
                          !.remaining = IF @ <= i.maximum THEN @ ELSE i.maximum]
      [] i.op \in {"meter.reset", "meter.expire"} -> [state EXCEPT !.remaining = 0]

(* listing_with_status, escrow_with_status: the parties stay.              *)
ApplyListing(state, i) == [state EXCEPT !.status = Target("listing", state, i.op)]
ApplyEscrow(state, i) == [state EXCEPT !.status = Target("escrow", state, i.op)]

(* state_type_of: a new resource has the type its operation's prefix       *)
(* names, an existing one keeps its own.                                   *)
StateTypeOf(kind, state, op) == IF state = NoState THEN StateTypeHint(op) ELSE kind

(* transition::apply.                                                      *)
Apply(kind, state, i) ==
    LET type == StateTypeOf(kind, state, i.op) IN
    IF state = NoState THEN Birth(type, i)
    ELSE CASE type \in {"asset", "paid"} -> ApplyAsset(type, state, i)
           [] type = "stack" -> ApplyStack(state, i)
           [] type = "balance" -> ApplyBalance(state, i)
           [] type = "entitlement" -> ApplyEntitlement(state, i)
           [] type = "meter" -> ApplyMeter(state, i)
           [] type = "listing" -> ApplyListing(state, i)
           [] type = "escrow" -> ApplyEscrow(state, i)

(* What the reducer can read: without one of its inputs it fails.          *)
Reducible(kind, i) == AllGiven(ReducerInputs(kind, i.op), i)

(* transfer_after_state: the destination is credited, in the unit of the   *)
(* source, and is born if it was not there.                                *)
Credit(source, destination, i) ==
    [subject |-> i.to,
     amount |-> (IF destination = NoState THEN 0 ELSE destination.amount) + i.amount,
     unit |-> source.unit]

(* checked_add: a sum that does not fit the mantissa is refused.           *)
Fits(state) == "amount" \in DOMAIN state => state.amount <= MaxAmount
-----------------------------------------------------------------------------
(* resource.rs: the gates in front of every baseline profile.              *)
FreeStatuses == {"active", "granted"}
TerminalStatuses == {"burned", "expired", "tombstoned", "revoked", "redeemed",
                     "sold", "cancelled", "released", "refunded"}

StatusEscapes(status) ==
    CASE status = "locked" -> {"asset.unlock", "asset.restrict", "escrow.release", "escrow.refund"}
      [] status = "escrowed" -> {"asset.release", "asset.restrict"}
      [] status = "trade_held" -> {"trade.unlock", "trade.settle", "asset.restrict"}
      [] status = "listed" -> {"asset.delist", "asset.redeem", "asset.restrict",
                               "listing.buy", "listing.cancel", "listing.expire"}
      [] status = "suspended" -> {"entitlement.restore", "entitlement.expire"}
      [] OTHER -> {}

(* check_resource_availability.                                            *)
Available(state, op) ==
    HasStatus(state) =>
        \/ state.status \in FreeStatuses
        \/ state.status \in Exceptional /\ op = "asset.restore"
        \/ op \in StatusEscapes(state.status)

(* check_owner: a from_owner input names the owner or the holder, of a     *)
(* resource that has one.                                                  *)
CheckOwner(state, i) ==
    Optional(i.from) # None /\ Holder(state) # None => i.from = Holder(state)

CheckAccess(state, i) ==
    state # NoState => CheckOwner(state, i) /\ Available(state, i.op)
=============================================================================
