--------------------------- MODULE ProfilePipeline ---------------------------
(***************************************************************************)
(* Intents on one resource run through the executor (execute_inner in      *)
(* crates/statechronicle-executor/src/pipeline.rs) and are made durable.   *)
(* A caller plans a batch: each intent is checked and applied against the  *)
(* state index as it is then, and yields an event, or a debit and a credit *)
(* for a transfer.  Nothing is written until the batch is persisted, so    *)
(* plans of several callers, and the intents of one batch, work from the   *)
(* same states.  The store takes a batch only if every event still starts  *)
(* from the row it replaces.                                               *)
(***************************************************************************)
EXTENDS ProfileRules, Sequences, FiniteSets

CONSTANTS Callers,        \* who plans batches
          Subjects,       \* actors, owners and holders
          Kinds,          \* the profiles explored, one in each behaviour
          Intents(_),     \* the intents submitted under a profile
          CustomProfiles, \* the registered custom profiles
          CommandOperation(_),  \* StateProfile::operation
          ValidCommand(_, _),   \* StateProfile::validate
          Reduce(_, _),         \* StateProfile::apply
          ValidState(_),        \* StateProfile::validate_state
          MaxBatch,       \* intents planned and not yet persisted
          MaxVersion      \* largest version explored

(* The values that stand for nothing are none of the others.               *)
ASSUME ValuesAssumption ==
    \A nothing \in {None, Malformed} :
        /\ nothing \notin Int /\ nothing \notin BOOLEAN /\ nothing \notin StateTypes
        /\ nothing \notin PaidStatuses \cup EntitlementStatuses \cup ListingStatuses \cup EscrowStatuses
ASSUME BoundsAssumption == MaxAmount \in Nat /\ MaxVersion \in Nat /\ MaxBatch \in Nat
ASSUME KindsAssumption == Kinds \subseteq StateTypes
(* An intent names its actor, and a holder and a number where it has one.  *)
ASSUME IntentsAssumption ==
    \A k \in Kinds : \A i \in Intents(k) :
        /\ i.actor \in Subjects /\ i.to \in Subjects \cup {None, Malformed}
        /\ i.amount \in Int \cup {None, Malformed} /\ i.maximum \in Int \cup {None, Malformed}
ASSUME RegistryAssumption ==
    /\ Registrable(CustomProfiles)
    /\ \A p \in CustomProfiles : Given(p.id) /\ p.schema \in Int
    /\ ~ValidState(None) /\ ~ValidState(Malformed)

VARIABLES kind,   \* the profile of the resource
          index,  \* the state index: a row per holder, or one row under None
          plan    \* what each caller has planned: for each intent, its events

vars == <<kind, index, plan>>

Unborn == [version |-> 0, state |-> NoState]
Addresses == Subjects \cup {None}

Init == /\ kind \in Kinds
        /\ index = [k \in Addresses |-> Unborn]
        /\ plan = [c \in Callers |-> <<>>]

Row(version, state) == [version |-> version, state |-> state]

(* subject_for and state_key_for: subject-held states are kept by holder.  *)
PrimaryAddress(i) == IF kind \in SubjectHeld THEN i.actor ELSE None
AddressOf(state) == IF kind \in SubjectHeld THEN state.subject ELSE None

(* The row is looked up under the actor, and again under the subject it    *)
(* names if that is another one.                                           *)
Current(i) ==
    LET first == index[PrimaryAddress(i)]
    IN IF first # Unborn THEN index[AddressOf(first.state)] ELSE first

(* TypedProfile: the intent names a registered domain and schema, and the  *)
(* state, if there is one, was written under the same.                     *)
CustomCheck(state, i) ==
    /\ \E p \in Resolve(CustomProfiles, i) : i.op \in p.ops
    /\ CommandOperation(i.command) = i.op
    /\ state # NoState => /\ state.domain = i.domain /\ state.schema = i.schema
                       /\ ValidState(state.payload)
    /\ ValidCommand(IF state = NoState THEN None ELSE state.payload, i.command)

CustomApply(state, i) ==
    [domain |-> i.domain, schema |-> i.schema,
     payload |-> Reduce(IF state = NoState THEN None ELSE state.payload, i.command)]

After(state, i) == IF kind = "custom" THEN CustomApply(state, i) ELSE Apply(kind, state, i)

(* check_expected_version: of a resource that does not exist, none.        *)
CheckExpectedVersion(expected, row) ==
    IF row.state = NoState THEN expected = 0 ELSE row.version = expected

(* The gates of execute_inner: the state is of the intent's type, access,  *)
(* the profile's rules, and the checks on the state the reducer made.      *)
Accepted(state, i) ==
    /\ state # NoState => OfStateType(kind, state)
    /\ IF kind = "custom"
       THEN CustomCheck(state, i) /\ ValidState(CustomApply(state, i).payload)
       ELSE CheckAccess(state, i) /\ Check(kind, state, i) /\ Reducible(kind, i)
    /\ OfStateType(kind, After(state, i))

Event(i, before, state) ==
    [op |-> i.op, trade |-> Optional(i.trade), address |-> AddressOf(state),
     before |-> before, after |-> Row(before.version + 1, state)]

(* The event of an intent and, for a transfer, its companion: the credit   *)
(* of the destination as it is in the index.                               *)
Events(i) ==
    LET current == Current(i)
        primary == Event(i, current, After(current.state, i))
    IN IF i.op \in TransferOperations
       THEN << primary, Event(i, index[i.to], Credit(current.state, index[i.to].state, i)) >>
       ELSE << primary >>

(* The intents planned and not yet persisted, by caller and position.      *)
Planned == UNION {{c} \X DOMAIN plan[c] : c \in Callers}

(* execute_inner, as a leg of run_batch: expected_version, the gates, the  *)
(* reducer's checked arithmetic, and the events.                           *)
Plan(c, i) ==
    /\ Cardinality(Planned) < MaxBatch
    /\ \E expected \in 0 .. MaxVersion - 1 : CheckExpectedVersion(expected, Current(i))
    /\ Accepted(Current(i).state, i)
    /\ \A e \in {Events(i)[n] : n \in DOMAIN Events(i)} :
          Fits(e.after.state) /\ e.after.version <= MaxVersion
    /\ plan' = [plan EXCEPT ![c] = Append(@, Events(i))]
    /\ UNCHANGED <<kind, index>>

(* validate_transfer_pair: what one side lost the other gained.            *)
TransferPair(group) ==
    LET debit == group[1].before.state.amount - group[1].after.state.amount
        before == group[2].before.state
        credit == group[2].after.state.amount - (IF before = NoState THEN 0 ELSE before.amount)
    IN /\ group[1].op = group[2].op
       /\ debit # 0 /\ debit = credit

(* validate_profile_batch: one event of an intent, or a transfer pair.     *)
Consistent(batch) ==
    \A n \in DOMAIN batch : Len(batch[n]) > 1 => TransferPair(batch[n])

(* The events of a batch, by the position of the intent and their own.     *)
Positions(batch) == UNION {{n} \X DOMAIN batch[n] : n \in DOMAIN batch}
At(batch, p) == batch[p[1]][p[2]]
NotAfter(p, q) == p[1] < q[1] \/ (p[1] = q[1] /\ p[2] <= q[2])

(* Variant: the store compares every event with the rows as they were when *)
(* the batch began, and does not see two events of the batch on one row.   *)
StoreTakesRepeats(batch) ==
    \A p \in Positions(batch) : index[At(batch, p).address] = At(batch, p).before

(* The store's compare and swap: every event starts from the row it        *)
(* replaces, so no two of a batch replace the same row.                    *)
StoreTakes(batch) ==
    \A p \in Positions(batch) :
        /\ index[At(batch, p).address] = At(batch, p).before
        /\ \A q \in Positions(batch) : q # p => At(batch, q).address # At(batch, p).address

(* The events of a batch reach the index, a later one over an earlier one. *)
Write(batch) ==
    [k \in Addresses |->
        LET mine == {p \in Positions(batch) : At(batch, p).address = k}
        IN IF mine = {} THEN index[k]
           ELSE At(batch, CHOOSE p \in mine : \A q \in mine : NotAfter(q, p)).after]

(* The batch is validated and taken by the durable sink.                   *)
Persist(c) ==
    /\ plan[c] # <<>>
    /\ Consistent(plan[c]) /\ StoreTakes(plan[c])
    /\ index' = Write(plan[c])
    /\ plan' = [plan EXCEPT ![c] = <<>>]
    /\ UNCHANGED kind

(* The batch is refused, or its store fails: nothing of it is written.     *)
Abandon(c) ==
    /\ plan[c] # <<>>
    /\ plan' = [plan EXCEPT ![c] = <<>>]
    /\ UNCHANGED <<kind, index>>

Next == \E c \in Callers : \/ \E i \in Intents(kind) : Plan(c, i)
                           \/ Persist(c) \/ Abandon(c)

Spec == Init /\ [][Next]_vars
-----------------------------------------------------------------------------
(* Type correctness: rows hold states of the profile, under their holder.  *)
TypeOK ==
    /\ kind \in Kinds
    /\ \A k \in Addresses : index[k] # Unborn =>
          /\ index[k].version \in 1 .. MaxVersion
          /\ OfStateType(kind, index[k].state)
          /\ AddressOf(index[k].state) = k
    /\ \A c \in Callers : \A n \in DOMAIN plan[c] : Len(plan[c][n]) \in 1 .. 2

(* A row says what its profile lets it say: a status of the profile (a     *)
(* plain asset takes any its restriction names), amounts within range, a   *)
(* trade id "bound while the asset is trade_held, otherwise None", and     *)
(* nothing that was never given.                                           *)
SaysWhatItMay(state) ==
    /\ \A f \in DOMAIN state \ {"trade"} : Given(state[f])
    /\ kind \in {"stack", "balance"} => state.amount \in 0 .. MaxAmount
    /\ kind = "paid" => state.status \in PaidStatuses
    /\ kind = "entitlement" => state.status \in EntitlementStatuses
    /\ kind = "listing" => state.status \in ListingStatuses
    /\ kind = "escrow" => state.status \in EscrowStatuses
    /\ kind \in {"asset", "paid"} /\ state.trade # None => state.status = "trade_held"

(* "The invariant remaining <= maximum is enforced at creation and         *)
(* preserved by every operation" of the meter profile.                     *)
WithinMaximum ==
    kind = "meter" => \A k \in Subjects :
        index[k] # Unborn => index[k].state.remaining <= index[k].state.maximum

(* Rows hold states their profile allows, under the holder they name.      *)
RowsAreValid ==
    /\ TypeOK /\ WithinMaximum
    /\ \A k \in Addresses : index[k] # Unborn => SaysWhatItMay(index[k].state)

(* A terminal status is final: "no operation leaves" it, under any         *)
(* profile, not even one planned before the status was reached.            *)
TerminalIsFinal ==
    \A k \in Addresses :
       index[k] # Unborn /\ HasStatus(index[k].state)
       /\ index[k].state.status \in TerminalStatuses => index'[k] = index[k]

(* An asset changes hands only out of a transfer of a free asset or the    *)
(* settlement of the trade that holds it: a transfer planned before the    *)
(* asset was locked, listed, escrowed, restricted or traded is too late.   *)
HeldAssetsStay ==
    LET was == index[None].state IN
    /\ kind \in {"asset", "paid"} /\ index[None] # Unborn
    /\ index'[None].state.owner # was.owner
    => \/ was.status = "active"
       \/ was.status = "trade_held" /\ \E c \in Callers : \E n \in DOMAIN plan[c] :
             plan'[c] = <<>> /\ plan[c][n][1].op = "trade.settle"
                            /\ plan[c][n][1].trade = was.trade

(* A custom resource keeps the domain and the schema it was created under  *)
(* and only ever holds states its profile calls valid, though several      *)
(* schemas of one domain are registered and share operations.              *)
SchemaStays ==
    kind = "custom" /\ index[None] # Unborn =>
       /\ index'[None].state.domain = index[None].state.domain
       /\ index'[None].state.schema = index[None].state.schema
       /\ ValidState(index'[None].state.payload)

(* No step, of whichever caller and however long ago it was planned, takes *)
(* a resource out of a terminal status, a held asset from its owner, or a  *)
(* custom resource out of its schema.                                      *)
LifecyclesHold == [][TerminalIsFinal /\ HeldAssetsStay /\ SchemaStays]_vars
=============================================================================
