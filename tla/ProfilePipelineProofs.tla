------------------------ MODULE ProfilePipelineProofs ------------------------
(***************************************************************************)
(* Proofs that rows hold only states of their profile and that no plan,    *)
(* however old, takes a resource out of its lifecycle (ProfilePipeline).   *)
(***************************************************************************)
EXTENDS ProfilePipeline, TLAPS

(* A state its profile allows: what RowsAreValid says of one, with the     *)
(* ranges the reducers' arithmetic needs.                                  *)
GoodState(state) ==
    /\ OfStateType(kind, state) /\ SaysWhatItMay(state)
    /\ kind \in SubjectHeld => state.subject \in Subjects
    /\ kind = "meter" => /\ state.remaining \in Nat /\ state.maximum \in Nat
                         /\ state.remaining <= state.maximum
    /\ kind = "custom" => ValidState(state.payload)

GoodRow(row) ==
    row # Unborn => row.version \in 1 .. MaxVersion /\ GoodState(row.state)

IndexInv ==
    \A k \in Addresses :
        GoodRow(index[k]) /\ (index[k] # Unborn => AddressOf(index[k].state) = k)

(* What one planned event may do to the row it starts from.                *)
Lawful(e) ==
    LET was == e.before.state IN
    /\ HasStatus(was) => was.status \notin TerminalStatuses
    /\ kind \in {"asset", "paid"} /\ e.after.state.owner # was.owner =>
          \/ was.status = "active"
          \/ was.status = "trade_held" /\ e.op = "trade.settle" /\ e.trade = was.trade
    /\ kind = "custom" => /\ e.after.state.domain = was.domain
                          /\ e.after.state.schema = was.schema

GoodEvent(e) ==
    /\ e.address = AddressOf(e.after.state)
    /\ e.after.version \in 1 .. MaxVersion /\ GoodState(e.after.state)
    /\ e.before # Unborn => Lawful(e)

GoodGroup(group) ==
    /\ DOMAIN group = 1 .. Len(group) /\ Len(group) \in 1 .. 2
    /\ kind \notin {"stack", "balance"} => Len(group) = 1
    /\ \A m \in DOMAIN group : GoodEvent(group[m])

(* A batch is a sequence of what its caller planned, whatever that is.     *)
IsBatch(batch) == batch \in Seq({batch[n] : n \in DOMAIN batch})

PlanInv == /\ plan \in [Callers -> {plan[c] : c \in Callers}]
           /\ \A c \in Callers :
                 IsBatch(plan[c]) /\ \A n \in DOMAIN plan[c] : GoodGroup(plan[c][n])

PipelineInv == kind \in Kinds /\ IndexInv /\ PlanInv
-----------------------------------------------------------------------------
(* A state that exists has fields.                                         *)
LEMMA StatesHaveFields ==
    ASSUME kind \in Kinds, NEW state, OfStateType(kind, state)
    PROVE  state # NoState
<1>1. \E f : f \in StateFields(kind)
  BY KindsAssumption, Zenon DEF StateTypes, StateFields
<1>2. DOMAIN NoState = {}
  BY Zenon DEF NoState
<1> QED BY <1>1, <1>2, Zenon DEF OfStateType

(* The fields of a move.                                                   *)
LEMMA MoveFields ==
    \A op, from, to : /\ Move(op, from, to).op = op /\ Move(op, from, to).from = from
                      /\ Move(op, from, to).to = to
BY Zenon DEF Move

(* The lifecycle tables of the assets end in statuses of the paid profile, *)
(* and in trade_held only with the operation that names the trade.         *)
LEMMA AssetTargets ==
    \A m \in AssetMoves \cup PaidMoves :
        m.to \in PaidStatuses /\ (m.to = "trade_held" => m.op = "trade.lock")
<1>1. \A m \in AssetMoves : m.to \in PaidStatuses
  BY MoveFields DEF AssetMoves, PaidStatuses, AssetStatuses
<1>2. \A m \in AssetMoves : m.to = "trade_held" => m.op = "trade.lock"
  BY MoveFields DEF AssetMoves
<1>3. \A m \in PaidMoves : m \in AssetMoves \/ m.to = "active"
  BY MoveFields DEF PaidMoves
<1> QED BY <1>1, <1>2, <1>3, Zenon DEF PaidStatuses, AssetStatuses

(* The status an operation leads to is the end of a move of its table.     *)
LEMMA TargetIsAnEnd ==
    ASSUME NEW k, NEW state, NEW op, StartsFrom(k, state, op)
    PROVE  \E m \in Moves(k) : m.op = op /\ state.status \in m.from /\ Target(k, state, op) = m.to
BY Zenon DEF StartsFrom, Target

(* The ends of the other tables.                                           *)
LEMMA OtherTargets ==
    /\ \A m \in EntitlementMoves : m.to \in EntitlementStatuses
    /\ \A m \in ListingMoves : m.to \in ListingStatuses
    /\ \A m \in EscrowMoves : m.to \in EscrowStatuses
<1>1. \A m \in EntitlementMoves : m.to \in EntitlementStatuses
  BY MoveFields DEF EntitlementMoves, EntitlementStatuses
<1>2. \A m \in ListingMoves : m.to \in ListingStatuses
  BY MoveFields DEF ListingMoves, ListingStatuses
<1>3. \A m \in EscrowMoves : m.to \in EscrowStatuses
  BY MoveFields DEF EscrowMoves, EscrowStatuses
<1> QED BY <1>1, <1>2, <1>3, Zenon

(* A number is a given value, as opposed to an absent one.                 *)
LEMMA NumbersAreGiven == \A x \in Int : Given(x)
BY ValuesAssumption, Zenon DEF Given

(* A truth value is given, whichever it is.                                *)
LEMMA TruthsAreGiven == \A x \in BOOLEAN : Given(x)
BY ValuesAssumption, Zenon DEF Given

(* The statuses of the lifecycles are given.                               *)
LEMMA StatusesAreGiven ==
    \A x \in PaidStatuses \cup EntitlementStatuses \cup ListingStatuses \cup EscrowStatuses : Given(x)
BY ValuesAssumption, Zenon DEF Given

(* What the readers of an intent return.                                   *)
LEMMA InputsAreTyped ==
    ASSUME kind \in Kinds, NEW i \in Intents(kind)
    PROVE  /\ i.actor \in Subjects
           /\ Given(i.to) => i.to \in Subjects
           /\ GivenAmount(i.amount) => i.amount \in Nat
           /\ GivenAmount(i.maximum) => i.maximum \in Nat
BY IntentsAssumption DEF Given, GivenAmount

(* The type the operation that creates a resource hints at.                *)
LEMMA Hints ==
    /\ StateTypeHint("asset.mint") = "asset"
    /\ StateTypeHint("stack.create") = "stack"
    /\ StateTypeHint("balance.create") = "balance"
    /\ StateTypeHint("entitlement.grant") = "entitlement"
    /\ StateTypeHint("meter.create") = "meter"
    /\ StateTypeHint("listing.create") = "listing"
    /\ StateTypeHint("escrow.lock") = "escrow"
BY Zenon DEF StateTypeHint, PaidOperations, AssetOperations, StackOperations, BalanceOperations,
       EntitlementOperations, MeterOperations, ListingOperations, EscrowOperations

(* The inputs an operation cannot be born without.                         *)
LEMMA BirthInputs ==
    ASSUME NEW i, AllGiven(CheckInputs(kind, i.op), i), i.op \in Operations(kind) \cap Births,
           kind \in Kinds, kind # "custom"
    PROVE  /\ StateTypeHint(i.op) = IF kind = "paid" THEN "asset" ELSE kind
           /\ Given(i.to)
           /\ kind \in {"stack", "balance"} => GivenAmount(i.amount) /\ Given(i.unit)
           /\ kind = "meter" => GivenAmount(i.amount) /\ GivenAmount(i.maximum)
           /\ kind = "meter" => i.op = "meter.create"
           /\ kind = "escrow" => Given(i.from)
<1>1. CASE kind \in {"asset", "paid"}
  <2>1. i.op = "asset.mint"
    BY <1>1, Zenon DEF Operations, AssetOperations, PaidOperations, Births
  <2>2. StateTypeHint(i.op) = "asset"
    BY <2>1, Hints, Zenon
  <2>3. CheckInputs(kind, i.op) = {"to"}
    BY <1>1, <2>1, Zenon DEF CheckInputs, AssetInputs
  <2> QED BY <1>1, <2>2, <2>3, Zenon DEF AllGiven
<1>2. CASE kind = "stack"
  <2>1. i.op = "stack.create"
    BY <1>2, Zenon DEF Operations, StackOperations, Births
  <2>2. StateTypeHint(i.op) = "stack"
    BY <2>1, Hints, Zenon
  <2>3. CheckInputs(kind, i.op) = {"to", "unit", "amount"}
    BY <1>2, <2>1, Zenon DEF CheckInputs, StackInputs
  <2> QED BY <1>2, <2>2, <2>3, Zenon DEF AllGiven
<1>3. CASE kind = "balance"
  <2>1. i.op = "balance.create"
    BY <1>3, Zenon DEF Operations, BalanceOperations, Births
  <2>2. StateTypeHint(i.op) = "balance"
    BY <2>1, Hints, Zenon
  <2>3. CheckInputs(kind, i.op) = {"to", "unit", "amount"}
    BY <1>3, <2>1, Zenon DEF CheckInputs, BalanceInputs
  <2> QED BY <1>3, <2>2, <2>3, Zenon DEF AllGiven
<1>4. CASE kind = "entitlement"
  <2>1. i.op = "entitlement.grant"
    BY <1>4, Zenon DEF Operations, EntitlementOperations, Births
  <2>2. StateTypeHint(i.op) = "entitlement"
    BY <2>1, Hints, Zenon
  <2>3. CheckInputs(kind, i.op) = {"to"}
    BY <1>4, <2>1, Zenon DEF CheckInputs, HolderInputs
  <2> QED BY <1>4, <2>2, <2>3, Zenon DEF AllGiven
<1>5. CASE kind = "meter"
  <2>1. i.op = "meter.create"
    BY <1>5, Zenon DEF Operations, MeterOperations, Births
  <2>2. StateTypeHint(i.op) = "meter"
    BY <2>1, Hints, Zenon
  <2>3. CheckInputs(kind, i.op) = {"to", "amount", "maximum"}
    BY <1>5, <2>1, Zenon DEF CheckInputs, MeterInputs
  <2> QED BY <1>5, <2>1, <2>2, <2>3, Zenon DEF AllGiven
<1>6. CASE kind = "listing"
  <2>1. i.op = "listing.create"
    BY <1>6, Zenon DEF Operations, ListingOperations, Births
  <2>2. StateTypeHint(i.op) = "listing"
    BY <2>1, Hints, Zenon
  <2>3. CheckInputs(kind, i.op) = {"to"}
    BY <1>6, <2>1, Zenon DEF CheckInputs, HolderInputs
  <2> QED BY <1>6, <2>2, <2>3, Zenon DEF AllGiven
<1>7. CASE kind = "escrow"
  <2>1. i.op = "escrow.lock"
    BY <1>7, Zenon DEF Operations, EscrowOperations, Births
  <2>2. StateTypeHint(i.op) = "escrow"
    BY <2>1, Hints, Zenon
  <2>3. CheckInputs(kind, i.op) = {"to", "from"}
    BY <1>7, <2>1, Zenon DEF CheckInputs, HolderInputs
  <2> QED BY <1>7, <2>2, <2>3, Zenon DEF AllGiven
<1> QED BY <1>1, <1>2, <1>3, <1>4, <1>5, <1>6, <1>7, KindsAssumption, Zenon DEF StateTypes

(* What a good state is, profile by profile.                               *)
LEMMA AssetStates ==
    ASSUME kind \in {"asset", "paid"}, NEW s
    PROVE  GoodState(s) <=> /\ DOMAIN s = {"owner", "status", "trade"}
                            /\ Given(s.owner) /\ Given(s.status)
                            /\ kind = "paid" => s.status \in PaidStatuses
                            /\ s.trade # None => s.status = "trade_held"
<1>1. StateFields(kind) = {"owner", "status", "trade"} /\ kind \notin SubjectHeld
  BY Zenon DEF StateFields, SubjectHeld
<1>2. SaysWhatItMay(s) <=> /\ \A f \in DOMAIN s \ {"trade"} : Given(s[f])
                           /\ kind = "paid" => s.status \in PaidStatuses
                           /\ s.trade # None => s.status = "trade_held"
  BY Zenon DEF SaysWhatItMay
<1> QED BY <1>1, <1>2, Zenon DEF GoodState, OfStateType

(* A good stack or balance: a held amount of a unit, within the width.     *)
LEMMA AmountStates ==
    ASSUME kind \in {"stack", "balance"}, NEW s
    PROVE  GoodState(s) <=> /\ DOMAIN s = {"subject", "amount", "unit"}
                            /\ Given(s.subject) /\ s.subject \in Subjects /\ Given(s.unit)
                            /\ s.amount \in 0 .. MaxAmount
<1>1. StateFields(kind) = {"subject", "amount", "unit"} /\ kind \in SubjectHeld
  BY Zenon DEF StateFields, SubjectHeld
<1>2. SaysWhatItMay(s) <=> /\ \A f \in DOMAIN s \ {"trade"} : Given(s[f])
                           /\ s.amount \in 0 .. MaxAmount
  BY Zenon DEF SaysWhatItMay
<1>3. s.amount \in 0 .. MaxAmount => Given(s.amount)
  BY NumbersAreGiven, BoundsAssumption
<1> QED BY <1>1, <1>2, <1>3, Zenon DEF GoodState, OfStateType

(* A good entitlement: a holder and a status of its lifecycle.             *)
LEMMA EntitlementStates ==
    ASSUME kind = "entitlement", NEW s
    PROVE  GoodState(s) <=> /\ DOMAIN s = {"subject", "status", "transferable"}
                            /\ Given(s.subject) /\ s.subject \in Subjects
                            /\ Given(s.transferable) /\ s.status \in EntitlementStatuses
<1>1. StateFields(kind) = {"subject", "status", "transferable"} /\ kind \in SubjectHeld
  BY Zenon DEF StateFields, SubjectHeld
<1>2. SaysWhatItMay(s) <=> /\ \A f \in DOMAIN s \ {"trade"} : Given(s[f])
                           /\ s.status \in EntitlementStatuses
  BY Zenon DEF SaysWhatItMay
<1>3. s.status \in EntitlementStatuses => Given(s.status)
  BY StatusesAreGiven, Zenon
<1> QED BY <1>1, <1>2, <1>3, Zenon DEF GoodState, OfStateType

(* A good meter: what remains is at most its maximum.                      *)
LEMMA MeterStates ==
    ASSUME kind = "meter", NEW s
    PROVE  GoodState(s) <=> /\ DOMAIN s = {"subject", "remaining", "maximum"}
                            /\ Given(s.subject) /\ s.subject \in Subjects
                            /\ s.remaining \in Nat /\ s.maximum \in Nat
                            /\ s.remaining <= s.maximum
<1>1. StateFields(kind) = {"subject", "remaining", "maximum"} /\ kind \in SubjectHeld
  BY Zenon DEF StateFields, SubjectHeld
<1>2. SaysWhatItMay(s) <=> \A f \in DOMAIN s \ {"trade"} : Given(s[f])
  BY Zenon DEF SaysWhatItMay
<1>3. s.remaining \in Nat /\ s.maximum \in Nat => Given(s.remaining) /\ Given(s.maximum)
  BY NumbersAreGiven
<1> QED BY <1>1, <1>2, <1>3, Zenon DEF GoodState, OfStateType

(* A good listing or escrow: a status of its own lifecycle.                *)
LEMMA MarketStates ==
    ASSUME kind \in {"listing", "escrow"}, NEW s
    PROVE  GoodState(s) <=> /\ DOMAIN s = StateFields(kind)
                            /\ \A f \in DOMAIN s \ {"status"} : Given(s[f])
                            /\ s.status \in IF kind = "listing" THEN ListingStatuses
                                                                ELSE EscrowStatuses
<1>1. "trade" \notin StateFields(kind) /\ "status" \in StateFields(kind) /\ kind \notin SubjectHeld
  BY Zenon DEF StateFields, SubjectHeld
<1>2. SaysWhatItMay(s) <=> /\ \A f \in DOMAIN s \ {"trade"} : Given(s[f])
                           /\ s.status \in IF kind = "listing" THEN ListingStatuses
                                                               ELSE EscrowStatuses
  BY Zenon DEF SaysWhatItMay
<1>3. s.status \in ListingStatuses \cup EscrowStatuses => Given(s.status)
  BY StatusesAreGiven, Zenon
<1> QED BY <1>1, <1>2, <1>3, Zenon DEF GoodState, OfStateType

(* A good custom row: a payload its definition accepts.                    *)
LEMMA CustomStates ==
    ASSUME kind = "custom", NEW s
    PROVE  GoodState(s) <=> /\ DOMAIN s = {"domain", "schema", "payload"}
                            /\ Given(s.domain) /\ Given(s.schema)
                            /\ ValidState(s.payload)
<1>1. StateFields(kind) = {"domain", "schema", "payload"} /\ kind \notin SubjectHeld
  BY Zenon DEF StateFields, SubjectHeld
<1>2. SaysWhatItMay(s) <=> \A f \in DOMAIN s \ {"trade"} : Given(s[f])
  BY Zenon DEF SaysWhatItMay
<1>3. ValidState(s.payload) => Given(s.payload)
  BY RegistryAssumption, Zenon DEF Given
<1> QED BY <1>1, <1>2, <1>3, Zenon DEF GoodState, OfStateType

(* A resource is born in a state of its profile.                           *)
LEMMA BirthIsGood ==
    ASSUME kind \in Kinds, kind # "custom", NEW i \in Intents(kind),
           Accepted(NoState, i), Fits(After(NoState, i))
    PROVE  GoodState(After(NoState, i))
<1> DEFINE s == After(NoState, i)
<1>1. /\ i.op \in Operations(kind) \cap Births
      /\ AllGiven(CheckInputs(kind, i.op), i)
      /\ i.op = "meter.create" => i.amount <= i.maximum
  BY Zenon DEF Accepted, Check, CheckBirth
<1>2. s = Birth(IF kind = "paid" THEN "asset" ELSE kind, i)
  BY <1>1, BirthInputs, Zenon DEF After, Apply, StateTypeOf
<1>3. /\ Given(i.to) /\ i.to \in Subjects
      /\ kind \in {"stack", "balance"} => i.amount \in Nat /\ Given(i.unit)
      /\ kind = "meter" => i.amount \in Nat /\ i.maximum \in Nat /\ i.amount <= i.maximum
      /\ kind = "escrow" => Given(i.from)
  BY <1>1, BirthInputs, InputsAreTyped, Zenon
<1> SUFFICES GoodState(s)
  BY Zenon
<1> HIDE DEF s
<1>4. CASE kind \in {"asset", "paid"}
  <2>1. s = [owner |-> i.to, status |-> "active", trade |-> None]
    BY <1>2, <1>4, Zenon DEF Birth
  <2>2. "active" \in PaidStatuses
    BY Zenon DEF PaidStatuses, AssetStatuses
  <2> QED BY <2>1, <2>2, <1>3, <1>4, AssetStates, StatusesAreGiven, Zenon
<1>5. CASE kind \in {"stack", "balance"}
  <2>1. s = [subject |-> i.to, amount |-> i.amount, unit |-> i.unit]
    BY <1>2, <1>5, Zenon DEF Birth
  <2>2. s.amount \in 0 .. MaxAmount
    BY <2>1, <1>3, <1>5, BoundsAssumption DEF s, Fits
  <2> QED BY <2>1, <2>2, <1>3, <1>5, AmountStates, Zenon
<1>6. CASE kind = "entitlement"
  <2>1. s = [subject |-> i.to, status |-> "granted", transferable |-> i.transferable = TRUE]
    BY <1>2, <1>6, Zenon DEF Birth
  <2>2. PICK b \in BOOLEAN : s = [subject |-> i.to, status |-> "granted", transferable |-> b]
    BY <2>1, Zenon
  <2> QED BY <2>2, <1>3, <1>6, EntitlementStates, TruthsAreGiven, Zenon DEF EntitlementStatuses
<1>7. CASE kind = "meter"
  <2>1. s = [subject |-> i.to, remaining |-> i.amount, maximum |-> i.maximum]
    BY <1>2, <1>7, Zenon DEF Birth
  <2> QED BY <2>1, <1>3, <1>7, MeterStates, Zenon
<1>8. CASE kind = "listing"
  <2>1. s = [seller |-> i.to, status |-> "listed"]
    BY <1>2, <1>8, Zenon DEF Birth
  <2> QED BY <2>1, <1>3, <1>8, MarketStates DEF StateFields, ListingStatuses
<1>9. CASE kind = "escrow"
  <2>1. s = [buyer |-> i.to, seller |-> i.from, status |-> "locked"]
    BY <1>2, <1>9, Zenon DEF Birth
  <2> QED BY <2>1, <1>3, <1>9, MarketStates DEF StateFields, EscrowStatuses
<1> QED BY <1>4, <1>5, <1>6, <1>7, <1>8, <1>9, KindsAssumption, Zenon DEF StateTypes
-----------------------------------------------------------------------------
(* The availability gate lets nothing out of a terminal status.            *)
LEMMA AvailableIsLive ==
    ASSUME NEW s, NEW op, Available(s, op), HasStatus(s)
    PROVE  s.status \notin TerminalStatuses
<1> SUFFICES ASSUME s.status \in TerminalStatuses PROVE FALSE
  BY Zenon
<1>1. s.status \notin FreeStatuses \cup Exceptional
  BY Zenon DEF TerminalStatuses, FreeStatuses, Exceptional
<1>2. StatusEscapes(s.status) = {}
  BY Zenon DEF TerminalStatuses, StatusEscapes
<1> QED BY <1>1, <1>2, Zenon DEF Available

(* What an asset's operation was checked for.                              *)
LEMMA AssetChecks ==
    ASSUME kind \in {"asset", "paid"}, NEW s, NEW i, s # NoState, Accepted(s, i)
    PROVE  /\ After(s, i) = ApplyAsset(kind, s, i)
           /\ i.op \in {"asset.transfer", "trade.settle"} => Given(i.to)
           /\ i.op \in {"trade.settle", "trade.lock"} => Given(i.trade)
           /\ i.op # "asset.hard_delete" => StartsFrom(kind, s, i.op)
           /\ i.op = "trade.settle" => i.trade = s.trade
           /\ kind = "paid" /\ i.op = "asset.restrict" => RestrictOverlay(s, i)
<1>1. Check(kind, s, i)
  BY Zenon DEF Accepted
<1>2. /\ AllGiven(AssetInputs(i.op), i) /\ i.op \notin Births /\ i.op \in Operations(kind)
      /\ kind = "asset" => CheckAsset(s, i)
      /\ kind = "paid" => CheckPaid(s, i)
  BY <1>1, Zenon DEF Check, CheckInputs
<1>3. After(s, i) = ApplyAsset(kind, s, i)
  BY Zenon DEF After, Apply, StateTypeOf
<1>4. /\ i.op \in {"asset.transfer", "trade.settle"} => Given(i.to)
      /\ i.op \in {"trade.settle", "trade.lock"} => Given(i.trade)
  BY <1>2, Zenon DEF AllGiven, AssetInputs
<1>5. i.op # "asset.hard_delete" => StartsFrom(kind, s, i.op)
  <2>1. CASE kind = "asset"
    BY <1>2, <2>1, Zenon DEF CheckAsset
  <2>2. CASE kind = "paid" /\ i.op = "asset.restore"
    BY <1>2, <2>2, Zenon DEF CheckPaid
  <2>3. CASE kind = "paid" /\ i.op \notin {"asset.hard_delete", "asset.restore"}
    <3>1. StartsFrom("asset", s, i.op)
      BY <1>2, <2>3, Zenon DEF CheckPaid, CheckAsset
    <3>2. PICK m \in AssetMoves : m.op = i.op /\ s.status \in m.from
      BY <3>1, Zenon DEF StartsFrom, Moves
    <3>3. m \in PaidMoves
      BY <3>2, <2>3, Zenon DEF PaidMoves
    <3> QED BY <3>2, <3>3, <2>3, Zenon DEF StartsFrom, Moves
  <2> QED BY <2>1, <2>2, <2>3, Zenon
<1>6. i.op = "trade.settle" => i.trade = s.trade
  BY <1>2, Zenon DEF CheckAsset, CheckPaid
<1>7. kind = "paid" /\ i.op = "asset.restrict" => RestrictOverlay(s, i)
  BY <1>2, Zenon DEF CheckPaid
<1> QED BY <1>3, <1>4, <1>5, <1>6, <1>7, Zenon

(* An asset that is given another status and another trade id.             *)
LEMMA AssetRestated ==
    ASSUME kind \in {"asset", "paid"}, NEW s, GoodState(s), NEW status, NEW trade, Given(status),
           kind = "paid" => status \in PaidStatuses, trade # None => status = "trade_held"
    PROVE  GoodState([s EXCEPT !.status = status, !.trade = trade])
<1> DEFINE n == [s EXCEPT !.status = status, !.trade = trade]
<1>1. DOMAIN s = {"owner", "status", "trade"} /\ Given(s.owner)
  BY AssetStates, Zenon
<1>2. /\ DOMAIN n = {"owner", "status", "trade"}
      /\ n.owner = s.owner /\ n.status = status /\ n.trade = trade
  BY <1>1, Zenon
<1> HIDE DEF n
<1>3. GoodState(n)
  BY <1>1, <1>2, AssetStates, Zenon
<1> QED BY <1>3, Zenon DEF n

(* The reducer of the asset profiles keeps to the statuses of the profile  *)
(* and to a trade id only while the asset is held for the trade.           *)
LEMMA AssetIsGood ==
    ASSUME kind \in {"asset", "paid"}, NEW s, NEW i, s # NoState, Accepted(s, i), GoodState(s)
    PROVE  GoodState(After(s, i))
<1> DEFINE n == After(s, i)
<1>1. n = ApplyAsset(kind, s, i)
  BY AssetChecks, Zenon
<1>2. /\ DOMAIN s = {"owner", "status", "trade"} /\ Given(s.owner)
      /\ kind = "paid" => s.status \in PaidStatuses
  BY AssetStates, Zenon
<1> SUFFICES GoodState(n)
  BY Zenon
<1> HIDE DEF n
<1>3. CASE i.op \in {"asset.transfer", "trade.settle"}
  <2>1. n = [owner |-> i.to, status |-> "active", trade |-> None] /\ Given(i.to)
    BY <1>1, <1>3, AssetChecks, Zenon DEF ApplyAsset
  <2>2. "active" \in PaidStatuses
    BY Zenon DEF PaidStatuses, AssetStatuses
  <2> QED BY <2>1, <2>2, AssetStates, StatusesAreGiven, Zenon
<1>4. CASE i.op = "trade.lock"
  <2>1. n = [s EXCEPT !.status = "trade_held", !.trade = i.trade]
    BY <1>1, <1>4, Zenon DEF ApplyAsset
  <2>2. "trade_held" \in PaidStatuses
    BY Zenon DEF PaidStatuses, AssetStatuses
  <2> QED BY <2>1, <2>2, AssetRestated, StatusesAreGiven, Zenon
<1>5. CASE i.op = "asset.restrict" /\ Given(i.status)
  <2>1. n = [s EXCEPT !.status = i.status, !.trade = None]
    BY <1>1, <1>5, Zenon DEF ApplyAsset
  <2>2. kind = "paid" => i.status \in PaidStatuses
    <3>1. ASSUME kind = "paid" PROVE i.status \in Exceptional
      BY <3>1, <1>5, AssetChecks, Zenon DEF RestrictOverlay, Optional, Given
    <3>2. Exceptional \subseteq PaidStatuses
      BY Zenon DEF Exceptional, PaidStatuses, AssetStatuses
    <3> QED BY <3>1, <3>2, Zenon
  <2> QED BY <2>1, <2>2, <1>5, AssetRestated, Zenon
<1>6. CASE i.op = "asset.hard_delete"
  <2>1. n = [s EXCEPT !.status = "tombstoned", !.trade = None]
    BY <1>1, <1>6, Zenon DEF ApplyAsset
  <2>2. "tombstoned" \in PaidStatuses
    BY Zenon DEF PaidStatuses, AssetStatuses
  <2> QED BY <2>1, <2>2, AssetRestated, StatusesAreGiven, Zenon
<1>7. CASE i.op \in {"asset.attach_content", "asset.detach_content", "asset.update_metadata"}
  BY <1>1, <1>7, Zenon DEF ApplyAsset
<1>8. CASE /\ i.op \notin {"asset.transfer", "trade.settle", "trade.lock", "asset.hard_delete",
                           "asset.attach_content", "asset.detach_content", "asset.update_metadata"}
           /\ ~(i.op = "asset.restrict" /\ Given(i.status))
  <2>1. n = [s EXCEPT !.status = Target(kind, s, i.op), !.trade = None]
    BY <1>1, <1>8, Zenon DEF ApplyAsset
  <2>2. PICK m \in Moves(kind) : Target(kind, s, i.op) = m.to
    BY <1>8, AssetChecks, TargetIsAnEnd
  <2>3. m.to \in PaidStatuses
    BY <2>2, AssetTargets, Zenon DEF Moves
  <2> QED BY <2>1, <2>2, <2>3, AssetRestated, StatusesAreGiven, Zenon
<1> QED BY <1>3, <1>4, <1>5, <1>6, <1>7, <1>8, Zenon

(* The reducers of the quantities never take more than there is, and what  *)
(* does not fit is refused.                                                *)
LEMMA StackIsGood ==
    ASSUME kind = "stack", kind \in Kinds, NEW s, NEW i \in Intents(kind), s # NoState,
           Accepted(s, i), GoodState(s), Fits(After(s, i))
    PROVE  GoodState(After(s, i))
<1> DEFINE n == After(s, i)
<1>1. n = ApplyStack(s, i)
  BY Zenon DEF After, Apply, StateTypeOf
<1>2. /\ AllGiven(StackInputs(i.op), i) /\ i.op \in StackOperations \ {"stack.create"}
      /\ CheckStack(s, i)
  BY Zenon DEF Accepted, Check, CheckInputs, Operations, Births
<1>3. /\ DOMAIN s = {"subject", "amount", "unit"} /\ s.amount \in Nat /\ Given(s.unit)
      /\ Given(s.subject) /\ s.subject \in Subjects
  BY AmountStates, BoundsAssumption
<1>4. i.op # "stack.expire" => i.amount \in Nat
  <2>1. i.op # "stack.expire" => "amount" \in StackInputs(i.op)
    BY Zenon DEF StackInputs
  <2> QED BY <2>1, <1>2, InputsAreTyped, Zenon DEF AllGiven
<1>5. /\ DOMAIN n = DOMAIN s /\ n.subject = s.subject /\ n.unit = s.unit
      /\ n.amount = CASE i.op \in StackAdds -> s.amount + i.amount
                      [] i.op \in StackTakes -> s.amount - i.amount
                      [] i.op = "stack.adjust" -> i.amount
                      [] i.op = "stack.expire" -> 0
  BY <1>1, <1>3, Zenon DEF ApplyStack
<1>6. n.amount \in Nat
  <2>1. CASE i.op \in StackAdds
    <3>1. n.amount = s.amount + i.amount
      BY <1>5, <2>1, Zenon DEF StackAdds, StackTakes
    <3> QED BY <3>1, <2>1, <1>3, <1>4 DEF StackAdds
  <2>2. CASE i.op \in StackTakes
    <3>1. n.amount = s.amount - i.amount
      BY <1>5, <2>2, Zenon DEF StackAdds, StackTakes
    <3>2. i.amount <= s.amount
      BY <1>2, <2>2, Zenon DEF CheckStack, StackTakes, PositiveAvailable
    <3> QED BY <3>1, <3>2, <2>2, <1>3, <1>4 DEF StackTakes
  <2>3. CASE i.op \in {"stack.adjust", "stack.expire"}
    BY <1>5, <1>4, <2>3 DEF StackAdds, StackTakes
  <2> QED BY <2>1, <2>2, <2>3, <1>2, Zenon DEF StackOperations, StackAdds, StackTakes
<1>7. n.amount <= MaxAmount
  <2>1. "amount" \in DOMAIN n
    BY <1>5, <1>3, Zenon
  <2> QED BY <2>1, Zenon DEF Fits
<1>8. DOMAIN n = DOMAIN s /\ n.subject = s.subject /\ n.unit = s.unit
  BY <1>5, Zenon
<1> HIDE DEF n
<1>9. GoodState(n)
  BY <1>3, <1>6, <1>7, <1>8, AmountStates, BoundsAssumption
<1> QED BY <1>9, Zenon DEF n

(* The operations on a balance lead to good balances.                      *)
LEMMA BalanceIsGood ==
    ASSUME kind = "balance", kind \in Kinds, NEW s, NEW i \in Intents(kind), s # NoState,
           Accepted(s, i), GoodState(s), Fits(After(s, i))
    PROVE  GoodState(After(s, i))
<1> DEFINE n == After(s, i)
<1>1. n = ApplyBalance(s, i)
  BY Zenon DEF After, Apply, StateTypeOf
<1>2. /\ AllGiven(BalanceInputs(i.op), i) /\ i.op \in BalanceOperations \ {"balance.create"}
      /\ CheckBalance(s, i)
  BY Zenon DEF Accepted, Check, CheckInputs, Operations, Births
<1>3. /\ DOMAIN s = {"subject", "amount", "unit"} /\ s.amount \in Nat /\ Given(s.unit)
      /\ Given(s.subject) /\ s.subject \in Subjects
  BY AmountStates, BoundsAssumption
<1>4. i.amount \in Nat /\ (i.op = "balance.convert" => Given(i.unit))
  <2>1. "amount" \in BalanceInputs(i.op) /\ (i.op = "balance.convert" => "unit" \in BalanceInputs(i.op))
    BY Zenon DEF BalanceInputs
  <2> QED BY <2>1, <1>2, InputsAreTyped, Zenon DEF AllGiven
<1>5. /\ DOMAIN n = DOMAIN s /\ n.subject = s.subject
      /\ n.unit = IF i.op = "balance.convert" THEN i.unit ELSE s.unit
      /\ n.amount = IF i.op \in BalanceAdds THEN s.amount + i.amount ELSE s.amount - i.amount
  BY <1>1, <1>3, Zenon DEF ApplyBalance
<1>6. n.amount \in Nat
  <2>1. CASE i.op \in BalanceAdds
    BY <2>1, <1>3, <1>4, <1>5
  <2>2. CASE i.op \notin BalanceAdds
    <3>1. i.amount <= s.amount
      BY <1>2, <2>2, Zenon DEF CheckBalance, PositiveAvailable
    <3> QED BY <3>1, <2>2, <1>3, <1>4, <1>5
  <2> QED BY <2>1, <2>2, Zenon
<1>7. n.amount <= MaxAmount
  BY <1>5, <1>3, Zenon DEF Fits
<1>8. Given(n.unit)
  BY <1>3, <1>4, <1>5, Zenon
<1> HIDE DEF n
<1>9. GoodState(n)
  BY <1>3, <1>5, <1>6, <1>7, <1>8, AmountStates, BoundsAssumption
<1> QED BY <1>9, Zenon DEF n

(* The credited side of a transfer.                                        *)
LEMMA CreditIsGood ==
    ASSUME kind \in {"stack", "balance"}, kind \in Kinds, NEW s, NEW i \in Intents(kind),
           s # NoState, Accepted(s, i), GoodState(s), i.op \in TransferOperations,
           NEW d, d # NoState => GoodState(d), Fits(Credit(s, d, i))
    PROVE  GoodState(Credit(s, d, i)) /\ i.to \in Subjects
<1> DEFINE n == Credit(s, d, i)
<1>1. AllGiven(CheckInputs(kind, i.op), i) /\ i.op \in Operations(kind)
  BY Zenon DEF Accepted, Check
<1>2. {"to", "amount"} \subseteq CheckInputs(kind, i.op)
  BY <1>1, Zenon DEF CheckInputs, StackInputs, BalanceInputs, TransferOperations, Operations,
              StackOperations, BalanceOperations
<1>3. Given(i.to) /\ i.to \in Subjects /\ i.amount \in Nat
  BY <1>1, <1>2, InputsAreTyped, Zenon DEF AllGiven
<1>4. Given(s.unit)
  BY AmountStates, Zenon
<1>5. (IF d = NoState THEN 0 ELSE d.amount) \in Nat
  BY AmountStates, BoundsAssumption
<1>6. /\ DOMAIN n = {"subject", "amount", "unit"} /\ n.subject = i.to /\ n.unit = s.unit
      /\ n.amount = (IF d = NoState THEN 0 ELSE d.amount) + i.amount
  BY Zenon DEF Credit
<1>7. n.amount <= MaxAmount
  BY <1>6, Zenon DEF Fits
<1> HIDE DEF n
<1>8. GoodState(n)
  BY <1>3, <1>4, <1>5, <1>6, <1>7, AmountStates, BoundsAssumption
<1> QED BY <1>3, <1>8, Zenon DEF n

(* The operations on an entitlement lead to good entitlements.             *)
LEMMA EntitlementIsGood ==
    ASSUME kind = "entitlement", kind \in Kinds, NEW s, NEW i \in Intents(kind), s # NoState,
           Accepted(s, i), GoodState(s)
    PROVE  GoodState(After(s, i))
<1> DEFINE n == After(s, i)
<1>1. n = ApplyEntitlement(s, i)
  BY Zenon DEF After, Apply, StateTypeOf
<1>2. AllGiven(HolderInputs(i.op), i) /\ StartsFrom("entitlement", s, i.op)
  BY Zenon DEF Accepted, Check, CheckInputs, CheckEntitlement
<1>3. /\ DOMAIN s = {"subject", "status", "transferable"} /\ Given(s.subject)
      /\ s.subject \in Subjects /\ Given(s.transferable)
  BY EntitlementStates, Zenon
<1>4. i.op = "entitlement.transfer" => Given(i.to) /\ i.to \in Subjects
  BY <1>2, InputsAreTyped, Zenon DEF AllGiven, HolderInputs
<1>5. Target("entitlement", s, i.op) \in EntitlementStatuses
  BY <1>2, TargetIsAnEnd, OtherTargets DEF Moves
<1>6. /\ DOMAIN n = DOMAIN s /\ n.status = Target("entitlement", s, i.op)
      /\ n.subject = IF i.op = "entitlement.transfer" THEN i.to ELSE s.subject
      /\ n.transferable = s.transferable
  BY <1>1, <1>3, Zenon DEF ApplyEntitlement
<1> HIDE DEF n
<1>7. GoodState(n)
  BY <1>3, <1>4, <1>5, <1>6, EntitlementStates, Zenon
<1> QED BY <1>7, Zenon DEF n

(* A meter never holds more than its maximum, a lowered one included.      *)
LEMMA MeterIsGood ==
    ASSUME kind = "meter", kind \in Kinds, NEW s, NEW i \in Intents(kind), s # NoState,
           Accepted(s, i), GoodState(s)
    PROVE  GoodState(After(s, i))
<1> DEFINE n == After(s, i)
<1>1. n = ApplyMeter(s, i)
  BY Zenon DEF After, Apply, StateTypeOf
<1>2. AllGiven(MeterInputs(i.op), i) /\ CheckMeter(s, i)
  BY Zenon DEF Accepted, Check, CheckInputs
<1>3. /\ DOMAIN s = {"subject", "remaining", "maximum"} /\ Given(s.subject)
      /\ s.subject \in Subjects /\ s.remaining \in Nat /\ s.maximum \in Nat
      /\ s.remaining <= s.maximum
  BY MeterStates, Zenon
<1>4. /\ i.op = "meter.consume" => i.amount \in Nat
      /\ i.op = "meter.set_maximum" => i.maximum \in Nat
  BY <1>2, InputsAreTyped, Zenon DEF AllGiven, MeterInputs
<1> SUFFICES GoodState(n)
  BY Zenon
<1> HIDE DEF n
<1>5. CASE i.op = "meter.consume"
  <2>1. n = [s EXCEPT !.remaining = s.remaining - i.amount]
    BY <1>1, <1>5, Zenon DEF ApplyMeter
  <2>2. i.amount <= s.remaining
    BY <1>2, <1>5, Zenon DEF CheckMeter
  <2> QED BY <2>1, <2>2, <1>3, <1>4, <1>5, MeterStates
<1>6. CASE i.op = "meter.refill"
  <2>1. n = [s EXCEPT !.remaining = s.maximum]
    BY <1>1, <1>6, Zenon DEF ApplyMeter
  <2> QED BY <2>1, <1>3, MeterStates
<1>7. CASE i.op = "meter.set_maximum"
  <2>1. n = [s EXCEPT !.maximum = i.maximum,
                      !.remaining = IF s.remaining <= i.maximum THEN s.remaining ELSE i.maximum]
    BY <1>1, <1>3, <1>7, Zenon DEF ApplyMeter
  <2>2. /\ DOMAIN n = DOMAIN s /\ n.subject = s.subject /\ n.maximum = i.maximum
        /\ n.remaining = IF s.remaining <= i.maximum THEN s.remaining ELSE i.maximum
    BY <2>1, <1>3, Zenon
  <2> QED BY <2>2, <1>3, <1>4, <1>7, MeterStates
<1>8. CASE i.op \in {"meter.reset", "meter.expire"}
  <2>1. n = [s EXCEPT !.remaining = 0]
    BY <1>1, <1>8, Zenon DEF ApplyMeter
  <2> QED BY <2>1, <1>3, MeterStates
<1> QED BY <1>2, <1>5, <1>6, <1>7, <1>8, Zenon DEF CheckMeter

(* Listings and escrows keep their parties.                                *)
LEMMA MarketIsGood ==
    ASSUME kind \in {"listing", "escrow"}, NEW s, NEW i, s # NoState,
           Accepted(s, i), GoodState(s)
    PROVE  GoodState(After(s, i))
<1> DEFINE n == After(s, i)
<1>1. n = [s EXCEPT !.status = Target(kind, s, i.op)]
  BY Zenon DEF After, Apply, StateTypeOf, ApplyListing, ApplyEscrow
<1>2. StartsFrom(kind, s, i.op)
  BY Zenon DEF Accepted, Check
<1>3. Target(kind, s, i.op) \in IF kind = "listing" THEN ListingStatuses ELSE EscrowStatuses
  BY <1>2, TargetIsAnEnd, OtherTargets DEF Moves
<1>4. /\ DOMAIN s = StateFields(kind) /\ "status" \in StateFields(kind)
      /\ \A f \in DOMAIN s \ {"status"} : Given(s[f])
  BY MarketStates, Zenon DEF StateFields
<1>5. /\ DOMAIN n = DOMAIN s /\ n.status = Target(kind, s, i.op)
      /\ \A f \in DOMAIN s \ {"status"} : n[f] = s[f]
  BY <1>1, <1>4, Zenon
<1> HIDE DEF n
<1>6. GoodState(n)
  BY <1>3, <1>4, <1>5, MarketStates, Zenon
<1> QED BY <1>6, Zenon DEF n

(* A custom state, new or not, is valid and of a registered domain.        *)
LEMMA CustomIsGood ==
    ASSUME kind = "custom", NEW s, NEW i, Accepted(s, i)
    PROVE  /\ GoodState(After(s, i))
           /\ s # NoState => After(s, i).domain = s.domain /\ After(s, i).schema = s.schema
<1> DEFINE n == After(s, i)
<1>1. n = CustomApply(s, i)
  BY Zenon DEF After
<1>2. CustomCheck(s, i) /\ ValidState(n.payload)
  BY <1>1, Zenon DEF Accepted
<1>3. DOMAIN n = {"domain", "schema", "payload"} /\ n.domain = i.domain /\ n.schema = i.schema
  BY <1>1 DEF CustomApply
<1>4. Given(i.domain) /\ Given(i.schema)
  <2>1. PICK p \in CustomProfiles : p.id = i.domain /\ p.schema = i.schema
    BY <1>2, Zenon DEF CustomCheck, Resolve
  <2> QED BY <2>1, RegistryAssumption, NumbersAreGiven, Zenon
<1>5. s # NoState => i.domain = s.domain /\ i.schema = s.schema
  BY <1>2, Zenon DEF CustomCheck
<1> HIDE DEF n
<1>6. GoodState(n)
  BY <1>2, <1>3, <1>4, CustomStates, Zenon
<1> QED BY <1>3, <1>5, <1>6, Zenon DEF n

(* Whatever was there, an accepted intent leaves a state of the profile.   *)
LEMMA AfterIsGood ==
    ASSUME kind \in Kinds, NEW s, NEW i \in Intents(kind), Accepted(s, i), Fits(After(s, i)),
           s # NoState => GoodState(s)
    PROVE  GoodState(After(s, i))
<1>1. CASE kind = "custom"
  BY <1>1, CustomIsGood, Zenon
<1>2. CASE kind # "custom" /\ s = NoState
  BY <1>2, BirthIsGood, Zenon
<1>3. CASE kind # "custom" /\ s # NoState
  BY <1>3, AssetIsGood, StackIsGood, BalanceIsGood, EntitlementIsGood, MeterIsGood, MarketIsGood,
     KindsAssumption, Zenon DEF StateTypes
<1> QED BY <1>1, <1>2, <1>3, Zenon
-----------------------------------------------------------------------------
(* A row that exists has a state, and one that does not has none.          *)
LEMMA RowsHaveStates ==
    ASSUME kind \in Kinds, NEW row, GoodRow(row)
    PROVE  /\ row # Unborn => row.state # NoState /\ GoodState(row.state)
           /\ row.state # NoState => row # Unborn /\ GoodState(row.state)
           /\ row.version \in Nat
<1>1. row # Unborn => row.state # NoState /\ GoodState(row.state)
  BY StatesHaveFields, Zenon DEF GoodRow, GoodState
<1>2. Unborn.state = NoState /\ Unborn.version = 0
  BY Zenon DEF Unborn
<1>3. row # Unborn => row.version \in Nat
  BY BoundsAssumption DEF GoodRow
<1> QED BY <1>1, <1>2, <1>3

(* The row an intent is checked against is the one under its actor, or the *)
(* only one.                                                               *)
LEMMA CurrentIsARow ==
    ASSUME kind \in Kinds, IndexInv, NEW i \in Intents(kind)
    PROVE  GoodRow(Current(i))
<1>1. PrimaryAddress(i) \in Addresses
  BY InputsAreTyped, Zenon DEF PrimaryAddress, Addresses
<1>2. Current(i) = index[PrimaryAddress(i)]
  BY <1>1, Zenon DEF Current, IndexInv
<1> QED BY <1>1, <1>2, Zenon DEF IndexInv

(* Only quantities are transferred in pairs, and only ones that exist.     *)
LEMMA TransfersAreOfQuantities ==
    ASSUME kind \in Kinds, NEW s, NEW i, Accepted(s, i), i.op \in TransferOperations
    PROVE  kind \in {"stack", "balance"} /\ s # NoState
<1>1. kind # "custom"
  <2> SUFFICES ASSUME kind = "custom" PROVE FALSE
    BY Zenon
  <2>1. PICK p \in CustomProfiles : i.op \in p.ops
    BY Zenon DEF Accepted, CustomCheck, Resolve
  <2>2. StateTypeHint(i.op) = None
    BY <2>1, RegistryAssumption, Zenon DEF Registrable
  <2>3. StateTypeHint(i.op) \in {"stack", "balance"}
    BY Zenon DEF TransferOperations, StateTypeHint, PaidOperations, AssetOperations, StackOperations,
           BalanceOperations, EntitlementOperations, MeterOperations, ListingOperations,
           EscrowOperations
  <2> QED BY <2>2, <2>3, ValuesAssumption, Zenon DEF StateTypes
<1>2. Check(kind, s, i)
  BY <1>1, Zenon DEF Accepted
<1>3. kind \in {"stack", "balance"}
  BY <1>1, <1>2, KindsAssumption
    , Zenon DEF Check, Operations, TransferOperations, StateTypes, PaidOperations, AssetOperations,
         EntitlementOperations, MeterOperations, ListingOperations, EscrowOperations
<1>4. s # NoState
  BY <1>2, Zenon DEF Check, CheckBirth, Births, TransferOperations
<1> QED BY <1>3, <1>4, Zenon

(* A planned event does not leave a terminal status, nor take a held asset *)
(* from its owner, nor a custom resource from its schema.                  *)
LEMMA PrimaryIsLawful ==
    ASSUME kind \in Kinds, NEW row, row # Unborn, GoodRow(row), NEW i \in Intents(kind),
           Accepted(row.state, i)
    PROVE  Lawful(Event(i, row, After(row.state, i)))
<1> DEFINE s == row.state
           n == After(s, i)
           e == Event(i, row, n)
<1>1. s # NoState /\ GoodState(s)
  BY RowsHaveStates, Zenon
<1>2. e.before = row /\ e.after.state = n /\ e.op = i.op /\ e.trade = Optional(i.trade)
  BY Zenon DEF Event, Row
<1>3. HasStatus(s) => s.status \notin TerminalStatuses
  <2>1. CASE kind = "custom"
    BY <2>1, <1>1, CustomStates DEF HasStatus
  <2>2. CASE kind # "custom"
    BY <2>2, <1>1, AvailableIsLive, Zenon DEF Accepted, CheckAccess
  <2> QED BY <2>1, <2>2, Zenon
<1>4. ASSUME kind \in {"asset", "paid"}, n.owner # s.owner
      PROVE  \/ s.status = "active"
             \/ s.status = "trade_held" /\ i.op = "trade.settle" /\ Optional(i.trade) = s.trade
  <2>1. /\ n = ApplyAsset(kind, s, i)
        /\ i.op = "trade.settle" => Given(i.trade) /\ i.trade = s.trade
        /\ i.op # "asset.hard_delete" => StartsFrom(kind, s, i.op)
    BY <1>1, <1>4, AssetChecks, Zenon
  <2>2. DOMAIN s = {"owner", "status", "trade"}
    BY <1>1, <1>4, AssetStates, Zenon
  <2>3. i.op \in {"asset.transfer", "trade.settle"}
    <3> SUFFICES ASSUME i.op \notin {"asset.transfer", "trade.settle"} PROVE n.owner = s.owner
      BY <1>4, Zenon
    <3> QED BY <2>1, <2>2, Zenon DEF ApplyAsset
  <2>4. PICK m \in AssetMoves \cup PaidMoves : m.op = i.op /\ s.status \in m.from
    BY <1>4, <2>1, <2>3, Zenon DEF StartsFrom, Moves
  <2>5. m \in AssetMoves
    BY <2>3, <2>4, MoveFields DEF PaidMoves
  <2>6. m.from = IF i.op = "asset.transfer" THEN {"active"} ELSE {"trade_held"}
    BY <2>3, <2>4, <2>5, MoveFields DEF AssetMoves
  <2> QED BY <2>1, <2>3, <2>4, <2>6, Zenon DEF Optional, Given
<1>5. kind = "custom" => n.domain = s.domain /\ n.schema = s.schema
  BY <1>1, CustomIsGood, Zenon
<1> HIDE DEF s, n, e
<1>6. Lawful(e)
  BY <1>2, <1>3, <1>4, <1>5, Zenon DEF Lawful, s
<1> QED BY <1>6, Zenon DEF e, n, s

(* The fields of an event.                                                 *)
LEMMA EventFields ==
    ASSUME NEW i, NEW before, NEW state
    PROVE  LET e == Event(i, before, state) IN
           /\ e.address = AddressOf(state) /\ e.before = before /\ e.op = i.op
           /\ e.after.version = before.version + 1 /\ e.after.state = state
BY Zenon DEF Event, Row

(* What an intent plans is a group of good events, a pair only of          *)
(* quantities.                                                             *)
LEMMA GroupIsGood ==
    ASSUME PipelineInv, NEW c \in Callers, NEW i \in Intents(kind), Plan(c, i)
    PROVE  GoodGroup(Events(i))
<1> DEFINE row == Current(i)
           n == After(row.state, i)
           primary == Event(i, row, n)
           other == index[i.to]
           credit == Credit(row.state, other.state, i)
           companion == Event(i, other, credit)
           transfer == i.op \in TransferOperations
<1>1. kind \in Kinds /\ IndexInv
  BY Zenon DEF PipelineInv
<1>2. Accepted(row.state, i)
  BY Zenon DEF Plan
<1>3. GoodRow(row)
  BY <1>1, CurrentIsARow, Zenon
<1>4. Events(i) = IF transfer THEN <<primary, companion>> ELSE <<primary>>
  BY Zenon DEF Events
<1>5. \A e \in {Events(i)[k] : k \in DOMAIN Events(i)} :
         Fits(e.after.state) /\ e.after.version <= MaxVersion
  BY Zenon DEF Plan
<1>6. Fits(n) /\ primary.after.version <= MaxVersion
  <2>1. 1 \in DOMAIN Events(i) /\ Events(i)[1] = primary
    BY <1>4
  <2>2. Fits(primary.after.state) /\ primary.after.version <= MaxVersion
    BY <2>1, <1>5, Zenon
  <2> QED BY <2>2, EventFields
<1>7. GoodEvent(primary)
  <2>1. GoodState(n)
    BY <1>1, <1>2, <1>3, <1>6, AfterIsGood, RowsHaveStates, Zenon
  <2>2. primary.after.version \in 1 .. MaxVersion
    <3>1. primary.after.version = row.version + 1 /\ row.version \in Nat
      BY <1>1, <1>3, RowsHaveStates, EventFields
    <3> QED BY <3>1, <1>6, BoundsAssumption
  <2>3. row # Unborn => Lawful(primary)
    BY <1>1, <1>2, <1>3, PrimaryIsLawful, Zenon
  <2>4. primary.address = AddressOf(n) /\ primary.before = row /\ primary.after.state = n
    BY EventFields
  <2> HIDE DEF row, n, primary
  <2> QED BY <2>1, <2>2, <2>3, <2>4, Zenon DEF GoodEvent
<1>8. ASSUME transfer PROVE kind \in {"stack", "balance"} /\ GoodEvent(companion)
  <2>1. kind \in {"stack", "balance"} /\ row.state # NoState
    BY <1>1, <1>2, <1>8, TransfersAreOfQuantities, Zenon
  <2>2. Fits(credit) /\ companion.after.version <= MaxVersion
    <3>1. 2 \in DOMAIN Events(i) /\ Events(i)[2] = companion
      BY <1>4, <1>8
    <3>2. Fits(companion.after.state) /\ companion.after.version <= MaxVersion
      BY <3>1, <1>5, Zenon
    <3> QED BY <3>2, EventFields
  <2>3. GoodState(row.state)
    BY <1>1, <1>3, <2>1, RowsHaveStates, Zenon
  <2>4. i.to \in Subjects
    <3>1. AllGiven(CheckInputs(kind, i.op), i)
      BY <1>2, <2>1, Zenon DEF Accepted, Check
    <3>2. "to" \in CheckInputs(kind, i.op)
      BY <1>8, <2>1, <1>2, Zenon DEF Accepted, Check, CheckInputs, StackInputs, BalanceInputs,
           TransferOperations, Operations, StackOperations, BalanceOperations
    <3> QED BY <3>1, <3>2, <1>1, InputsAreTyped, Zenon DEF AllGiven
  <2>5. GoodRow(other)
    BY <1>1, <2>4, Zenon DEF IndexInv, Addresses
  <2>6. GoodState(credit)
    BY <1>1, <1>2, <1>8, <2>1, <2>2, <2>3, <2>5, CreditIsGood, RowsHaveStates, Zenon
  <2>7. companion.after.version \in 1 .. MaxVersion
    <3>1. companion.after.version = other.version + 1 /\ other.version \in Nat
      BY <1>1, <2>5, RowsHaveStates, EventFields
    <3> QED BY <3>1, <2>2, BoundsAssumption
  <2>8. /\ companion.address = AddressOf(credit) /\ companion.before = other
        /\ companion.after.state = credit
    BY EventFields
  <2>9. other # Unborn => ~HasStatus(other.state)
    BY <1>1, <2>1, <2>5, RowsHaveStates, AmountStates DEF HasStatus
  <2>10. other # Unborn => Lawful(companion)
    BY <2>1, <2>8, <2>9, Zenon DEF Lawful
  <2> HIDE DEF other, credit, companion
  <2> QED BY <2>1, <2>6, <2>7, <2>8, <2>10, Zenon DEF GoodEvent
<1> HIDE DEF primary, companion
<1>9. CASE transfer
  <2>1. Events(i) = <<primary, companion>>
    BY <1>4, <1>9, Zenon
  <2> QED BY <2>1, <1>7, <1>8, <1>9 DEF GoodGroup
<1>10. CASE ~transfer
  <2>1. Events(i) = <<primary>>
    BY <1>4, <1>10, Zenon
  <2> QED BY <2>1, <1>7 DEF GoodGroup
<1> QED BY <1>9, <1>10, Zenon

(* A batch that grows by one group.                                        *)
LEMMA BatchGrows ==
    ASSUME NEW batch, IsBatch(batch), NEW group
    PROVE  LET longer == Append(batch, group) IN
           /\ IsBatch(longer)
           /\ \A n \in DOMAIN longer : longer[n] = group \/ (n \in DOMAIN batch /\ longer[n] = batch[n])
<1> DEFINE S == {batch[n] : n \in DOMAIN batch}
           longer == Append(batch, group)
           T == {longer[n] : n \in DOMAIN longer}
<1>1. batch \in Seq(S) /\ batch \in Seq(S \cup {group})
  BY DEF IsBatch
<1>2. /\ longer \in Seq(S \cup {group}) /\ Len(longer) = Len(batch) + 1
      /\ DOMAIN longer = 1 .. Len(batch) + 1 /\ DOMAIN batch = 1 .. Len(batch)
      /\ \A n \in 1 .. Len(batch) : longer[n] = batch[n]
      /\ longer[Len(batch) + 1] = group
  BY <1>1
<1>3. DOMAIN longer = 1 .. Len(longer) /\ Len(longer) \in Nat
  BY <1>1, <1>2
<1>4. longer \in Seq(T)
  <2> HIDE DEF longer
  <2>1. longer \in [1 .. Len(longer) -> S \cup {group}]
    BY <1>2, <1>3
  <2>2. longer \in [1 .. Len(longer) -> T]
    BY <2>1, <1>3, Zenon
  <2> HIDE DEF T
  <2> QED BY <2>2, <1>3
<1>5. \A n \in DOMAIN longer : longer[n] = group \/ (n \in DOMAIN batch /\ longer[n] = batch[n])
  BY <1>1, <1>2
<1> QED BY <1>4, <1>5, Zenon DEF IsBatch

(* The empty batch.                                                        *)
LEMMA EmptyBatch == IsBatch(<<>>) /\ DOMAIN <<>> = {}
<1> DEFINE S == {<<>>[n] : n \in DOMAIN <<>>}
<1>1. <<>> \in Seq(S)
  <2> HIDE DEF S
  <2> QED OBVIOUS
<1> QED BY <1>1 DEF IsBatch

(* Initially nothing exists and nothing is planned.                        *)
LEMMA PipelineInvInit ==
    ASSUME Init PROVE PipelineInv
<1>1. kind \in Kinds /\ IndexInv
  BY Zenon DEF Init, IndexInv, GoodRow
<1>2. \A c \in Callers : plan[c] = <<>>
  BY Zenon DEF Init
<1>3. plan \in [Callers -> {plan[c] : c \in Callers}]
  BY Zenon DEF Init
<1>4. PlanInv
  BY <1>2, <1>3, EmptyBatch, Zenon DEF PlanInv
<1> QED BY <1>1, <1>4, Zenon DEF PipelineInv

(* What is good of a kind is good as long as the kind stays.               *)
LEMMA KindStays ==
    ASSUME kind' = kind
    PROVE  /\ \A group : GoodGroup(group)' <=> GoodGroup(group)
           /\ \A row : GoodRow(row)' <=> GoodRow(row)
           /\ \A state : AddressOf(state)' = AddressOf(state)
           /\ Addresses' = Addresses
<1>1. /\ \A state : AddressOf(state)' = AddressOf(state)
      /\ Addresses' = Addresses
  BY Zenon DEF AddressOf, Addresses
<1>2. \A state : GoodState(state)' <=> GoodState(state)
  BY DEF GoodState, SaysWhatItMay
<1>3. \A e : Lawful(e)' <=> Lawful(e)
  BY DEF Lawful
<1>4. \A e : GoodEvent(e)' <=> GoodEvent(e)
  BY <1>1, <1>2, <1>3, Zenon DEF GoodEvent
<1> QED BY <1>1, <1>2, <1>4, Zenon DEF GoodGroup, GoodRow

(* The batches after one caller's batch was replaced.                      *)
LEMMA PlanOfOne ==
    ASSUME PlanInv, NEW c \in Callers, NEW batch, plan' = [plan EXCEPT ![c] = batch],
           kind' = kind, IsBatch(batch), \A n \in DOMAIN batch : GoodGroup(batch[n])
    PROVE  PlanInv'
<1>1. plan \in [Callers -> {plan[d] : d \in Callers}]
  BY Zenon DEF PlanInv
<1>2. /\ plan'[c] = batch /\ \A d \in Callers \ {c} : plan'[d] = plan[d]
      /\ plan' = [d \in Callers |-> plan'[d]]
  BY <1>1, Zenon
<1>3. plan' \in [Callers -> {plan'[d] : d \in Callers}]
  BY <1>2, Zenon
<1>4. ASSUME NEW d \in Callers
      PROVE  IsBatch(plan'[d]) /\ \A n \in DOMAIN plan'[d] : GoodGroup(plan'[d][n])
  BY <1>2, Zenon DEF PlanInv
<1>5. \A group : GoodGroup(group)' <=> GoodGroup(group)
  BY KindStays, Zenon
<1> QED BY <1>3, <1>4, <1>5, Zenon DEF PlanInv, IsBatch

(* Planning adds a good group to a batch and leaves the index alone.       *)
LEMMA PlanStep ==
    ASSUME PipelineInv, NEW c \in Callers, NEW i \in Intents(kind), Plan(c, i)
    PROVE  PipelineInv'
<1> DEFINE longer == Append(plan[c], Events(i))
<1>1. /\ kind' = kind /\ index' = index
      /\ plan' = [plan EXCEPT ![c] = longer]
  BY Zenon DEF Plan
<1>2. IsBatch(plan[c]) /\ \A n \in DOMAIN plan[c] : GoodGroup(plan[c][n])
  BY Zenon DEF PipelineInv, PlanInv
<1>3. IsBatch(longer) /\ \A n \in DOMAIN longer : GoodGroup(longer[n])
  BY <1>2, BatchGrows, GroupIsGood
<1>4. PlanInv'
  <2> HIDE DEF longer
  <2> QED BY <1>1, <1>3, PlanOfOne, Zenon DEF PipelineInv
<1>5. IndexInv'
  BY <1>1, KindStays, Zenon DEF PipelineInv, IndexInv
<1> QED BY <1>1, <1>4, <1>5, Zenon DEF PipelineInv

(* What the store takes: every row is as it was, or is replaced by the one *)
(* event of the batch on it, which was planned from that very row.         *)
LEMMA WritesFromTheRow ==
    ASSUME PipelineInv, NEW c \in Callers, Persist(c), NEW k \in Addresses
    PROVE  \/ index'[k] = index[k]
           \/ \E n \in DOMAIN plan[c] : \E m \in DOMAIN plan[c][n] :
                 LET e == plan[c][n][m] IN
                 /\ GoodEvent(e) /\ GoodGroup(plan[c][n])
                 /\ e.address = k /\ e.before = index[k] /\ e.after = index'[k]
<1> DEFINE batch == plan[c]
           mine == {p \in Positions(batch) : At(batch, p).address = k}
           last == CHOOSE p \in mine : \A q \in mine : NotAfter(q, p)
<1>1. StoreTakes(batch) /\ index' = Write(batch)
  BY Zenon DEF Persist
<1>2. index'[k] = IF mine = {} THEN index[k] ELSE At(batch, last).after
  BY <1>1, Zenon DEF Write
<1>3. CASE mine = {}
  BY <1>2, <1>3, Zenon
<1>4. CASE mine # {}
  <2>1. PICK p \in mine : TRUE
    BY <1>4, Zenon
  <2>2. \A q \in mine : q = p
    BY <1>1, Zenon DEF StoreTakes
  <2>3. PICK n \in DOMAIN batch : \E m \in DOMAIN batch[n] : p = <<n, m>>
    BY DEF Positions
  <2>4. PICK m \in DOMAIN batch[n] : p = <<n, m>>
    BY <2>3, Zenon
  <2>5. NotAfter(p, p)
    <3>1. n \in Nat /\ m \in Nat
      <4>1. batch \in Seq({batch[x] : x \in DOMAIN batch})
        BY Zenon DEF PipelineInv, PlanInv, IsBatch
      <4>2. DOMAIN batch[n] = 1 .. Len(batch[n])
        BY Zenon DEF PipelineInv, PlanInv, GoodGroup
      <4>3. DOMAIN batch \subseteq Nat
        <5> DEFINE S == {batch[x] : x \in DOMAIN batch}
        <5>1. batch \in Seq(S)
          BY <4>1, Zenon
        <5> HIDE DEF S, batch
        <5> QED BY <5>1
      <4> QED BY <4>2, <4>3
    <3> QED BY <2>4, <3>1 DEF NotAfter
  <2>6. last = p
    BY <2>1, <2>2, <2>5, Zenon
  <2>7. At(batch, p) = batch[n][m]
    BY <2>4, Zenon DEF At
  <2>8. index'[k] = batch[n][m].after
    BY <1>2, <1>4, <2>6, <2>7, Zenon
  <2>9. batch[n][m].address = k /\ batch[n][m].before = index[k]
    BY <1>1, <2>1, <2>7, Zenon DEF StoreTakes
  <2>10. GoodGroup(batch[n])
    BY Zenon DEF PipelineInv, PlanInv
  <2>11. GoodEvent(batch[n][m])
    BY <2>10, Zenon DEF GoodGroup
  <2> QED BY <2>8, <2>9, <2>10, <2>11, Zenon
<1> QED BY <1>3, <1>4, Zenon

(* A batch that was taken, or given up, leaves its caller with none.       *)
LEMMA BatchEnds ==
    ASSUME PipelineInv, NEW c \in Callers, Persist(c) \/ Abandon(c)
    PROVE  kind' = kind /\ PlanInv' /\ plan'[c] = <<>>
<1>1. kind' = kind /\ plan' = [plan EXCEPT ![c] = <<>>]
  BY Zenon DEF Persist, Abandon
<1>2. plan'[c] = <<>>
  BY <1>1, Zenon DEF PipelineInv, PlanInv
<1>3. PlanInv'
  BY <1>1, EmptyBatch, PlanOfOne, Zenon DEF PipelineInv
<1> QED BY <1>1, <1>2, <1>3, Zenon

(* A batch the store takes leaves good rows under their holders.           *)
LEMMA PersistStep ==
    ASSUME PipelineInv, NEW c \in Callers, Persist(c)
    PROVE  PipelineInv'
<1>1. kind' = kind /\ PlanInv'
  BY BatchEnds, Zenon
<1>2. ASSUME NEW k \in Addresses
      PROVE  GoodRow(index'[k]) /\ (index'[k] # Unborn => AddressOf(index'[k].state) = k)
  BY WritesFromTheRow DEF PipelineInv, IndexInv, GoodEvent, GoodRow
<1>3. IndexInv'
  BY <1>1, <1>2, KindStays, Zenon DEF IndexInv, Unborn
<1> QED BY <1>1, <1>3, Zenon DEF PipelineInv

(* Every step keeps the invariant.                                         *)
LEMMA PipelineInvStep ==
    ASSUME PipelineInv, [Next]_vars PROVE PipelineInv'
<1>1. ASSUME NEW c \in Callers, NEW i \in Intents(kind), Plan(c, i) PROVE PipelineInv'
  BY <1>1, PlanStep, Zenon
<1>2. ASSUME NEW c \in Callers, Persist(c) PROVE PipelineInv'
  BY <1>2, PersistStep, Zenon
<1>3. ASSUME NEW c \in Callers, Abandon(c) PROVE PipelineInv'
  <2>1. kind' = kind /\ index' = index /\ PlanInv'
    BY <1>3, BatchEnds, Zenon DEF Abandon
  <2>2. IndexInv'
    BY <2>1, KindStays, Zenon DEF PipelineInv, IndexInv
  <2> QED BY <2>1, <2>2, Zenon DEF PipelineInv
<1>4. CASE UNCHANGED vars
  <2>1. kind' = kind /\ index' = index /\ plan' = plan
    BY <1>4, Zenon DEF vars
  <2>2. IndexInv'
    BY <2>1, KindStays, Zenon DEF PipelineInv, IndexInv
  <2>3. PlanInv'
    BY <2>1, KindStays, Zenon DEF PipelineInv, PlanInv, IsBatch
  <2> QED BY <2>1, <2>2, <2>3, Zenon DEF PipelineInv
<1> QED BY <1>1, <1>2, <1>3, <1>4, Zenon DEF Next

(* What the invariant says of the rows a caller reads.                     *)
LEMMA InvImpliesValid ==
    ASSUME PipelineInv PROVE RowsAreValid
<1>1. ASSUME NEW k \in Addresses, index[k] # Unborn
      PROVE  /\ index[k].version \in 1 .. MaxVersion /\ GoodState(index[k].state)
             /\ AddressOf(index[k].state) = k
  BY <1>1, Zenon DEF PipelineInv, IndexInv, GoodRow
<1>2. TypeOK
  BY <1>1, Zenon DEF PipelineInv, PlanInv, GoodGroup, GoodState, TypeOK
<1>3. WithinMaximum
  BY <1>1, Zenon DEF WithinMaximum, GoodState, Addresses
<1> QED BY <1>1, <1>2, <1>3, Zenon DEF RowsAreValid, GoodState

(* A row that is replaced is replaced by an event that was lawful for it.  *)
LEMMA ReplacedLawfully ==
    ASSUME PipelineInv, NEW c \in Callers, Persist(c), NEW k \in Addresses,
           index[k] # Unborn, index'[k] # index[k]
    PROVE  \E e : /\ Lawful(e) /\ GoodState(e.after.state)
                  /\ e.before = index[k] /\ e.after = index'[k]
<1>1. PICK n \in DOMAIN plan[c] : \E m \in DOMAIN plan[c][n] :
           LET e == plan[c][n][m] IN
           GoodEvent(e) /\ e.before = index[k] /\ e.after = index'[k]
  BY WritesFromTheRow, Zenon
<1>2. PICK m \in DOMAIN plan[c][n] :
           LET e == plan[c][n][m] IN
           GoodEvent(e) /\ e.before = index[k] /\ e.after = index'[k]
  BY <1>1, Zenon
<1>3. Lawful(plan[c][n][m]) /\ GoodState(plan[c][n][m].after.state)
  BY <1>2, Zenon DEF GoodEvent
<1> QED BY <1>2, <1>3, Zenon

(* A batch the store takes leaves every lifecycle in order, because each   *)
(* of its events was lawful for the row it replaces.                       *)
LEMMA PersistKeepsLifecycles ==
    ASSUME PipelineInv, NEW c \in Callers, Persist(c)
    PROVE  TerminalIsFinal /\ HeldAssetsStay /\ SchemaStays
<1>1. TerminalIsFinal
  <2> SUFFICES ASSUME NEW k \in Addresses, index[k] # Unborn, HasStatus(index[k].state),
                      index[k].state.status \in TerminalStatuses
               PROVE  index'[k] = index[k]
    BY Zenon DEF TerminalIsFinal
  <2> SUFFICES ASSUME index'[k] # index[k] PROVE FALSE
    BY Zenon
  <2>1. PICK e : Lawful(e) /\ e.before = index[k]
    BY ReplacedLawfully, Zenon
  <2> QED BY <2>1, Zenon DEF Lawful
<1>2. HeldAssetsStay
  <2> DEFINE was == index[None].state
  <2> SUFFICES ASSUME kind \in {"asset", "paid"}, index[None] # Unborn,
                      index'[None].state.owner # was.owner
               PROVE  \/ was.status = "active"
                      \/ was.status = "trade_held" /\ \E n \in DOMAIN plan[c] :
                            plan'[c] = <<>> /\ plan[c][n][1].op = "trade.settle"
                                           /\ plan[c][n][1].trade = was.trade
    BY Zenon DEF HeldAssetsStay
  <2>1. PICK n \in DOMAIN plan[c] : \E m \in DOMAIN plan[c][n] :
             LET e == plan[c][n][m] IN
             /\ GoodEvent(e) /\ GoodGroup(plan[c][n])
             /\ e.before = index[None] /\ e.after = index'[None]
    <3>1. None \in Addresses /\ index'[None] # index[None]
      BY Zenon DEF Addresses
    <3> QED BY <3>1, WritesFromTheRow, Zenon
  <2>2. DOMAIN plan[c][n] = {1}
    <3>1. Len(plan[c][n]) = 1 /\ DOMAIN plan[c][n] = 1 .. Len(plan[c][n])
      BY <2>1, Zenon DEF GoodGroup
    <3> QED BY <3>1
  <2>3. LET e == plan[c][n][1] IN Lawful(e) /\ e.before = index[None] /\ e.after = index'[None]
    BY <2>1, <2>2, Zenon DEF GoodEvent
  <2>4. plan'[c] = <<>>
    BY BatchEnds, Zenon
  <2> QED BY <2>3, <2>4, Zenon DEF Lawful
<1>3. SchemaStays
  <2> SUFFICES ASSUME kind = "custom", index[None] # Unborn
               PROVE  /\ index'[None].state.domain = index[None].state.domain
                      /\ index'[None].state.schema = index[None].state.schema
                      /\ ValidState(index'[None].state.payload)
    BY Zenon DEF SchemaStays
  <2>1. None \in Addresses /\ GoodRow(index[None])
    BY Zenon DEF Addresses, PipelineInv, IndexInv
  <2>2. CASE index'[None] = index[None]
    BY <2>1, <2>2, Zenon DEF GoodRow, GoodState
  <2>3. CASE index'[None] # index[None]
    <3>1. PICK e : /\ Lawful(e) /\ GoodState(e.after.state)
                   /\ e.before = index[None] /\ e.after = index'[None]
      BY <2>1, <2>3, ReplacedLawfully, Zenon
    <3> QED BY <3>1, Zenon DEF GoodState, Lawful
  <2> QED BY <2>2, <2>3, Zenon
<1> QED BY <1>1, <1>2, <1>3, Zenon

(* A step that leaves the index alone leaves every lifecycle alone.        *)
LEMMA ReadingKeepsLifecycles ==
    ASSUME PipelineInv, index' = index
    PROVE  TerminalIsFinal /\ HeldAssetsStay /\ SchemaStays
<1>1. index[None] # Unborn => GoodState(index[None].state)
  BY Zenon DEF PipelineInv, IndexInv, GoodRow, Addresses
<1> QED BY <1>1, Zenon DEF TerminalIsFinal, HeldAssetsStay, SchemaStays, GoodState

(* The invariant holds in every reachable state.                           *)
LEMMA PipelineInvHolds == Spec => []PipelineInv
<1>1. Init => PipelineInv
  BY PipelineInvInit, Zenon
<1>2. PipelineInv /\ [Next]_vars => PipelineInv'
  BY PipelineInvStep, Zenon
<1> QED BY <1>1, <1>2, PTL DEF Spec

(* RowsAreValid: however many callers plan against rows that change under  *)
(* them, the index holds only states its profile allows: of the profile's  *)
(* fields, in range, a meter within its maximum, a trade id only while the *)
(* asset is held for the trade, and each under the holder it names.        *)
THEOREM RowsStayValid == Spec => []RowsAreValid
<1>1. PipelineInv => RowsAreValid
  BY InvImpliesValid, Zenon
<1> QED BY <1>1, PipelineInvHolds, PTL

(* LifecyclesHold: no batch, whenever it was planned, takes a resource out *)
(* of a terminal status, a held asset from its owner without the trade     *)
(* that holds it, or a custom resource out of its schema.                  *)
THEOREM LifecyclesStayInOrder == Spec => LifecyclesHold
<1>1. PipelineInv /\ [Next]_vars => [TerminalIsFinal /\ HeldAssetsStay /\ SchemaStays]_vars
  <2> SUFFICES ASSUME PipelineInv, Next
               PROVE  TerminalIsFinal /\ HeldAssetsStay /\ SchemaStays
    BY Zenon
  <2>1. PICK c \in Callers : (\E i \in Intents(kind) : Plan(c, i)) \/ Persist(c) \/ Abandon(c)
    BY Zenon DEF Next
  <2>2. CASE Persist(c)
    BY <2>2, PersistKeepsLifecycles, Zenon
  <2>3. CASE (\E i \in Intents(kind) : Plan(c, i)) \/ Abandon(c)
    <3>1. index' = index
      BY <2>3, Zenon DEF Plan, Abandon
    <3> QED BY <3>1, ReadingKeepsLifecycles, Zenon
  <2> QED BY <2>1, <2>2, <2>3, Zenon
<1> QED BY <1>1, PipelineInvHolds, PTL DEF Spec, LifecyclesHold
=============================================================================
