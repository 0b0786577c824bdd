----------------------------- MODULE TradeIndex -----------------------------
(***************************************************************************)
(* The read side of trades: crates/statechronicle-index (build.rs,         *)
(* service.rs, history.rs) and the trade proofs of                         *)
(* crates/statechronicle-proof (trade.rs).                                 *)
(*                                                                         *)
(* Commits lock assets for a trade, settle them to the other party, unlock *)
(* them and move the value that was declared for them; each is a batch of  *)
(* the log. An ingester reads the records a batch touches, applies the     *)
(* batch and puts the records back, one port call at a time; a rebuild     *)
(* replays the log and puts all of them. A put may fail, and the caller    *)
(* then gives the batch up or ingests it again.                            *)
(*                                                                         *)
(* Assets, owners, amounts and commits are numbers. That a state proof     *)
(* verifies exactly when it is true is ProofsTellTheTruth of ProofService. *)
(***************************************************************************)
EXTENDS Naturals, Sequences, FiniteSets, SequencesExt

CONSTANTS Tenants, AssetsOf, FirstOwners,   \* who may own the assets at first
          Trades, Offers,       \* the trades an asset may be locked for
          PayTenants,           \* the tenants in which value moves by itself
          MaxCommits, MaxFailures, MaxRebuilds, None

VARIABLES assets,    \* the owner of an asset and the trade it is held for
          log,       \* the committed batches
          index,     \* the trade index: of a trade its record, or None
          next,      \* the batch to ingest next
          ingest,    \* the ingest_batch call in progress, or None
          rebuild,   \* the rebuild call in progress, or None
          exact,     \* the batches the index reflects, None after a fault
          failures, rebuilds   \* how many there were, bounded

vars == <<assets, log, index, next, ingest, rebuild, exact, failures, rebuilds>>
world == <<assets, log>>

Assets == UNION {AssetsOf[t] : t \in Tenants}
TenantOf(a) == CHOOSE t \in Tenants : a \in AssetsOf[t]
Owners == {1, 2}
Free == 0

Init == /\ \E owner \in FirstOwners : assets = [a \in Assets |-> [owner |-> owner[a], trade |-> Free]]
        /\ log = <<>> /\ next = 1 /\ exact = 0 /\ failures = 0 /\ rebuilds = 0
        /\ index = [x \in Trades |-> None]
        /\ ingest = None /\ rebuild = None

-----------------------------------------------------------------------------
(* Records *)

(* trade_id_of: a lock names its trade afterwards, the others before.      *)
TradeIdOf(event) ==
    IF event.operation = "trade.lock" THEN event.after.trade
    ELSE IF event.operation \in {"trade.settle", "trade.unlock"} THEN event.before.trade
    ELSE None

DeclaresValueLeg(intent) == intent.leg # None

(* Variant: the trades of the events only.                                 *)
BatchTradeIdsOfEvents(batch) == {TradeIdOf(event) : event \in ToSet(batch.events)} \ {None}

BatchTradeIds(batch) ==
    ({TradeIdOf(event) : event \in ToSet(batch.events)} \ {None}) \cup
    {intent.trade : intent \in {i \in ToSet(batch.settle_intents) : DeclaresValueLeg(i)}}

NewRecord == [status |-> "open", sides |-> [t \in {} |-> {}], value_legs |-> <<>>, events |-> <<>>]
RecordOf(state, x) == IF state[x] = None THEN NewRecord ELSE state[x]

(* upsert_side: one side per tenant, with the owners of its first settle.  *)
UpsertSide(sides, event, commit) ==
    IF event.tenant \in DOMAIN sides
    THEN [sides EXCEPT ![event.tenant].settle_assets =
              IF event.resource \in ToSet(@) THEN @ ELSE Append(@, event.resource),
          ![event.tenant].settle_commits_by_asset =
              [a \in DOMAIN @ \cup {event.resource} |->
                  IF a = event.resource THEN commit ELSE @[a]],
          ![event.tenant].settle_event_ids = Append(@, event.event_id)]
    ELSE [t \in DOMAIN sides \cup {event.tenant} |->
             IF t \in DOMAIN sides THEN sides[t]
             ELSE [settle_assets |-> <<event.resource>>,
                   from_owner |-> event.before.owner, to_owner |-> event.after.owner,
                   settle_commit |-> commit,
                   settle_commits_by_asset |-> [a \in {event.resource} |-> commit],
                   settle_event_ids |-> <<event.event_id>>]]

EventRef(event) == [event_id |-> event.event_id, tenant |-> event.tenant,
                    operation |-> event.operation]

(* Variant: a settled trade is not reopened or cancelled.                  *)
ApplyTradeEventsFinal(record, events, commit) ==
    LET of(operation) == SelectSeq(events, LAMBDA event : event.operation = operation)
        locks == of("trade.lock")
        settles == of("trade.settle")
        unlocks == of("trade.unlock")
        ordered == locks \o settles \o unlocks
    IN [record EXCEPT
           !.status = IF settles # <<>> \/ @ = "settled" THEN "settled"
                      ELSE IF unlocks # <<>> THEN "cancelled" ELSE "open",
           !.sides = FoldLeft(LAMBDA sides, event : UpsertSide(sides, event, commit), @, settles),
           !.events = @ \o [i \in DOMAIN ordered |-> EventRef(ordered[i])]]

(* apply_trade_events: locks, then settles, then unlocks.                  *)
ApplyTradeEvents(record, events, commit) ==
    LET of(operation) == SelectSeq(events, LAMBDA event : event.operation = operation)
        locks == of("trade.lock")
        settles == of("trade.settle")
        unlocks == of("trade.unlock")
        ordered == locks \o settles \o unlocks
    IN [record EXCEPT
           !.status = IF unlocks # <<>> THEN "cancelled"
                      ELSE IF settles # <<>> THEN "settled"
                      ELSE IF locks # <<>> THEN "open" ELSE @,
           !.sides = FoldLeft(LAMBDA sides, event : UpsertSide(sides, event, commit), @, settles),
           !.events = @ \o [i \in DOMAIN ordered |-> EventRef(ordered[i])]]

-----------------------------------------------------------------------------
(* Value legs *)

(* recover_value_pairs: the transfers of a batch by intent.                *)
RecoverValuePairs(batch) ==
    LET transfers == {e \in ToSet(batch.events) : e.operation = "balance.transfer"}
        ids == SetToSortSeq({e.intent : e \in transfers}, <)
        group(i) == {e \in transfers : e.intent = ids[i]}
        debits(i) == {e \in group(i) : e.before.amount > e.after.amount}
        credits(i) == {e \in group(i) : e.after.amount > e.before.amount}
    IN [i \in DOMAIN ids |->
           LET debit == CHOOSE e \in debits(i) : TRUE
               credit == CHOOSE e \in credits(i) : TRUE
           IN [key |-> <<debit.before.amount - debit.after.amount, debit.resource,
                         credit.after.subject>>,
               event_ids |-> {e.event_id : e \in group(i)}, tenant |-> debit.tenant]]

(* cmp_key                                                                 *)
KeyLess(a, b) == \E p \in 1..3 : a[p] < b[p] /\ \A q \in 1..(p - 1) : a[q] = b[q]
SortedByKey(s) ==
    LET placed == [i \in DOMAIN s |-> [item |-> s[i], at |-> i]]
        before(a, b) == KeyLess(a.item.key, b.item.key) \/ (a.item.key = b.item.key /\ a.at < b.at)
        sorted == SortSeq(placed, before)
    IN [i \in DOMAIN sorted |-> sorted[i].item]

Declared(batch) ==
    LET declaring == SelectSeq(batch.settle_intents, DeclaresValueLeg)
    IN [i \in DOMAIN declaring |-> [key |-> declaring[i].leg, trade |-> declaring[i].trade]]

(* match_value_legs: the i-th declaration with the i-th pair, if their     *)
(* amount, resource and recipient agree.                                   *)
MatchValueLegs(batch) ==
    LET declared == SortedByKey(Declared(batch))
        pairs == SortedByKey(RecoverValuePairs(batch))
        both == {i \in DOMAIN declared \cap DOMAIN pairs : declared[i].key = pairs[i].key}
        at == SetToSortSeq(both, <)
    IN [i \in DOMAIN at |->
           [trade |-> declared[at[i]].trade,
            leg |-> [key |-> pairs[at[i]].key, pair_event_ids |-> pairs[at[i]].event_ids,
                     tenant |-> pairs[at[i]].tenant, commit |-> batch.commit]]]

AttachLeg(record, leg) ==
    LET ids == SetToSortSeq(leg.pair_event_ids, LAMBDA a, b : a[2] < b[2])
    IN [record EXCEPT
           !.events = @ \o [i \in DOMAIN ids |->
               [event_id |-> ids[i], tenant |-> leg.tenant, operation |-> "balance.transfer"]],
           !.value_legs = Append(@, leg)]

(* apply                                                                   *)
Apply(state, batch) ==
    LET mine(x) == SelectSeq(batch.events, LAMBDA event : TradeIdOf(event) = x)
        traded == [x \in Trades |-> IF mine(x) = <<>> THEN state[x]
                                    ELSE ApplyTradeEvents(RecordOf(state, x), mine(x), batch.commit)]
    IN FoldLeft(LAMBDA s, found : [s EXCEPT ![found.trade] = AttachLeg(RecordOf(s, found.trade), found.leg)],
                traded, MatchValueLegs(batch))

Empty == [x \in Trades |-> None]
Replay(batches) == FoldLeft(Apply, Empty, batches)

-----------------------------------------------------------------------------
(* Commits *)

Number == Len(log) + 1
AssetEvent(operation, a, after, k) ==
    [event_id |-> <<Number, k>>, tenant |-> TenantOf(a), operation |-> operation,
     resource |-> a, intent |-> k, before |-> assets[a], after |-> after]

(* The two events of a transfer of an amount from the other owner.         *)
Pair(t, leg, k) ==
    LET half(subject, before, after, n) ==
            [event_id |-> <<Number, n>>, tenant |-> t, operation |-> "balance.transfer",
             resource |-> leg[2], intent |-> k,
             before |-> [subject |-> subject, amount |-> before],
             after |-> [subject |-> subject, amount |-> after]]
    IN <<half(3 - leg[3], leg[1], 0, k), half(leg[3], 0, leg[1], k + 1)>>

CommitBatch(t, events, intents) ==
    /\ Len(log) < MaxCommits
    /\ log' = Append(log, [tenant |-> t, commit |-> Number, events |-> events,
                           settle_intents |-> intents])
    /\ assets' = [a \in Assets |->
          LET mine == {e \in ToSet(events) : e.operation # "balance.transfer" /\ e.resource = a}
          IN IF mine = {} THEN assets[a] ELSE (CHOOSE e \in mine : TRUE).after]
    /\ UNCHANGED <<index, next, ingest, rebuild, exact, failures, rebuilds>>

Lock(t) ==
    \E S \in SUBSET AssetsOf[t] \ {{}} : \E trade \in [S -> Trades] :
        LET seq == SetToSortSeq(S, <)
        IN /\ \A a \in S : assets[a].trade = Free /\ trade[a] \in Offers[a]
           /\ CommitBatch(t, [i \in DOMAIN seq |->
                  AssetEvent("trade.lock", seq[i],
                             [assets[seq[i]] EXCEPT !.trade = trade[seq[i]]], i)], <<>>)

Unlock(t) ==
    \E a \in AssetsOf[t] :
        /\ assets[a].trade # Free
        /\ CommitBatch(t, <<AssetEvent("trade.unlock", a, [assets[a] EXCEPT !.trade = Free], 1)>>, <<>>)

(* The assets a tenant holds for a trade are settled to the other owner,   *)
(* some of them for value. The pairs are in the batch, or not in it: then  *)
(* the value moves in another tenant (Pay).                                *)
LegOf(a) == <<Cardinality(Assets) + 1 - a, 1, assets[a].owner>>
Settle(t) ==
    \E x \in Trades, S \in SUBSET AssetsOf[t] \ {{}} :
        LET seq == SetToSortSeq(S, <)
            events == [i \in DOMAIN seq |->
                AssetEvent("trade.settle", seq[i],
                           [owner |-> 3 - assets[seq[i]].owner, trade |-> Free], i)]
            intents(V) == [i \in DOMAIN seq |->
                [trade |-> x, leg |-> IF seq[i] \in V THEN LegOf(seq[i]) ELSE None]]
            pairs(V) == FlattenSeq([i \in DOMAIN seq |->
                IF seq[i] \in V THEN Pair(t, LegOf(seq[i]), 10 * (Len(seq) + 1 - i)) ELSE <<>>])
        IN /\ \A a \in S : assets[a].trade = x
           /\ \E V \in SUBSET S, here \in BOOLEAN :
                /\ V = {} => here
                /\ CommitBatch(t, events \o (IF here THEN pairs(V) ELSE <<>>), intents(V))

(* A tenant in which value of a trade moves, given the intent that         *)
(* declares it; or a transfer nobody declared.                             *)
Pay(t) ==
    \E x \in Trades, declared \in BOOLEAN :
        LET leg == <<1, 1, 1>>
        IN t \in PayTenants /\ CommitBatch(t, Pair(t, leg, 10),
                       IF declared THEN <<[trade |-> x, leg |-> leg]>> ELSE <<>>)
-----------------------------------------------------------------------------
(* ingest_batch and rebuild *)

(* The records of a computed state, in the order they are put.             *)
RecordsOf(state) == SetToSortSeq({x \in Trades : state[x] # None}, <)

(* Both calls see the other one while it runs.                             *)
Overlap(call) == IF call = None THEN None ELSE [call EXCEPT !.alone = FALSE]

(* ingest_batch up to its first await: the records to read are known.      *)
IngestBegin ==
    /\ ingest = None /\ next <= Len(log)
    /\ LET ids == SetToSortSeq(BatchTradeIds(log[next]), <)
       IN IF ids = <<>>
          THEN /\ next' = next + 1
               /\ exact' = IF exact = next - 1 /\ rebuild = None THEN next ELSE None
               /\ UNCHANGED <<ingest, rebuild>>
          ELSE /\ ingest' = [reads |-> ids, state |-> Empty, puts |-> <<>>,
                             alone |-> rebuild = None]
               /\ rebuild' = Overlap(rebuild)
               /\ UNCHANGED <<next, exact>>
    /\ UNCHANGED <<world, index, failures, rebuilds>>

(* One get_trade; the last is followed by apply.                           *)
IngestGet ==
    /\ ingest # None /\ ingest.reads # <<>>
    /\ LET x == Head(ingest.reads)
           seeded == [ingest.state EXCEPT ![x] = index[x]]
           applied == Apply(seeded, log[next])
       IN ingest' = IF Len(ingest.reads) > 1
                    THEN [ingest EXCEPT !.reads = Tail(@), !.state = seeded]
                    ELSE [ingest EXCEPT !.reads = <<>>, !.state = applied,
                                        !.puts = RecordsOf(applied)]
    /\ UNCHANGED <<world, index, next, rebuild, exact, failures, rebuilds>>

(* One put_trade; the last one ends the call. (Nothing to put: it ends.)   *)
IngestPut ==
    /\ ingest # None /\ ingest.reads = <<>>
    /\ LET done == Len(ingest.puts) <= 1
       IN /\ index' = IF ingest.puts = <<>> THEN index
                      ELSE [index EXCEPT ![Head(ingest.puts)] = ingest.state[Head(ingest.puts)]]
          /\ ingest' = IF done THEN None ELSE [ingest EXCEPT !.puts = Tail(@)]
          /\ next' = IF done THEN next + 1 ELSE next
          /\ exact' = IF ~done THEN exact
                      ELSE IF ingest.alone /\ exact = next - 1 THEN next ELSE None
    /\ UNCHANGED <<world, rebuild, failures, rebuilds>>

(* A port fails and the call returns its error. Records already put stay.  *)
(* The caller ingests the batch again, or goes on with the next one.       *)
IngestFail ==
    /\ ingest # None /\ failures < MaxFailures
    /\ failures' = failures + 1
    /\ ingest' = None
    /\ next' \in {next, next + 1}
    /\ exact' = IF ingest.reads = <<>> /\ ingest.puts # RecordsOf(ingest.state)
                THEN None ELSE exact
    /\ UNCHANGED <<world, index, rebuild, rebuilds>>

(* rebuild up to its first await: the log so far is replayed.              *)
RebuildBegin ==
    /\ rebuild = None /\ log # <<>> /\ rebuilds < MaxRebuilds
    /\ rebuilds' = rebuilds + 1
    /\ LET replayed == Replay(log)
       IN /\ RecordsOf(replayed) # <<>>
          /\ rebuild' = [upto |-> Len(log), state |-> replayed, puts |-> RecordsOf(replayed),
                         alone |-> ingest = None]
    /\ ingest' = Overlap(ingest)
    /\ UNCHANGED <<world, index, next, exact, failures>>

(* One put_trade; after the last the caller goes on after the batches.     *)
RebuildPut ==
    /\ rebuild # None
    /\ LET x == Head(rebuild.puts)
           done == Len(rebuild.puts) = 1
       IN /\ index' = [index EXCEPT ![x] = rebuild.state[x]]
          /\ rebuild' = IF done THEN None ELSE [rebuild EXCEPT !.puts = Tail(@)]
          /\ next' = IF done /\ ingest = None THEN rebuild.upto + 1 ELSE next
          /\ exact' = IF ~done THEN exact ELSE IF rebuild.alone THEN rebuild.upto ELSE None
    /\ UNCHANGED <<world, ingest, failures, rebuilds>>

RebuildFail ==
    /\ rebuild # None /\ failures < MaxFailures
    /\ failures' = failures + 1
    /\ rebuild' = None /\ exact' = None
    /\ UNCHANGED <<world, index, next, ingest, rebuilds>>

Next == \/ \E t \in Tenants : Lock(t) \/ Unlock(t) \/ Settle(t) \/ Pay(t)
        \/ IngestBegin \/ IngestGet \/ IngestPut \/ IngestFail
        \/ RebuildBegin \/ RebuildPut \/ RebuildFail

Spec == Init /\ [][Next]_vars

-----------------------------------------------------------------------------
(* Queries *)

Stored == UNION {ToSet(batch.events) : batch \in ToSet(log)}

(* collect_commits: of the sides, then of the value legs, each once.       *)
CollectCommits(record) ==
    LET tenants == SetToSortSeq(DOMAIN record.sides, <)
        ofSides == [i \in DOMAIN tenants |-> <<tenants[i], record.sides[tenants[i]].settle_commit>>]
        ofLegs == [i \in DOMAIN record.value_legs |->
                      <<record.value_legs[i].tenant, record.value_legs[i].commit>>]
    IN FoldLeft(LAMBDA seen, c : IF c \in ToSet(seen) THEN seen ELSE Append(seen, c),
                <<>>, ofSides \o ofLegs)

TradeHistory(record, events) ==
    [status |-> record.status, commits |-> CollectCommits(record), events |-> events]

(* get_history, reconstruct_history: every reference is resolved, or none. *)
GetHistory(x) ==
    LET record == index[x]
        found(ref) == {e \in Stored : e.event_id = ref.event_id /\ e.tenant = ref.tenant}
    IN IF record = None \/ \E i \in DOMAIN record.events : found(record.events[i]) = {}
       THEN None
       ELSE TradeHistory(record, [i \in DOMAIN record.events |->
                                     CHOOSE e \in found(record.events[i]) : TRUE])

(* The proof index: the state of a resource as of a commit, and the        *)
(* operation of the latest event that touched it.                          *)
StateProof(t, a, commit) ==
    LET touching == {e \in Stored : e.tenant = t /\ e.resource = a /\ e.event_id[1] <= commit
                                    /\ e.operation # "balance.transfer"}
        latest == CHOOSE e \in touching : \A f \in touching : f.event_id[1] <= e.event_id[1]
    IN [tenant |-> t, resource |-> a, commit |-> commit, owner |-> latest.after.owner,
        operation |-> latest.operation]

(* A leg of a trade proof: of every asset a tenant settled its state at    *)
(* the commit that settled it.                                             *)
TradeProofLeg(t, side) ==
    [i \in DOMAIN side.settle_assets |->
        LET a == side.settle_assets[i] IN StateProof(t, a, side.settle_commits_by_asset[a])]

(* build_trade_proof: the summary of the record and its legs.              *)
BuildTradeProof(record) ==
    [sides |-> record.sides, status |-> record.status, value_legs |-> record.value_legs,
     legs |-> [t \in DOMAIN record.sides |-> TradeProofLeg(t, record.sides[t])]]

(* Variant: only the first proof of a leg is looked at.                    *)
VerifyTradeProofFirst(proof) ==
    /\ DOMAIN proof.legs = DOMAIN proof.sides
    /\ \A t \in DOMAIN proof.legs :
        /\ Len(proof.legs[t]) = Len(proof.sides[t].settle_assets)
        /\ proof.legs[t][1].resource \in ToSet(proof.sides[t].settle_assets)
        /\ proof.legs[t][1].owner = proof.sides[t].to_owner
        /\ proof.legs[t][1].operation = "trade.settle"

(* verify_trade_proof, for proofs whose bundles verify.                    *)
VerifyTradeProof(proof) ==
    /\ DOMAIN proof.legs = DOMAIN proof.sides
    /\ \A t \in DOMAIN proof.legs :
        /\ Len(proof.legs[t]) = Len(proof.sides[t].settle_assets)
        /\ \A i \in DOMAIN proof.legs[t] :
            /\ proof.legs[t][i].resource \in ToSet(proof.sides[t].settle_assets)
            /\ proof.legs[t][i].owner = proof.sides[t].to_owner
            /\ proof.legs[t][i].operation = "trade.settle"

(* ProofService::verify_trade: every commit a leg names is stored for the  *)
(* tenant of the leg, and the proof verifies against them.                 *)
VerifyTrade(proof) ==
    /\ \A t \in DOMAIN proof.legs : \A i \in DOMAIN proof.legs[t] :
          \E e \in Stored : e.tenant = t /\ e.event_id[1] = proof.legs[t][i].commit
    /\ VerifyTradeProof(proof)

(* get_proof: the assembled proof if it verifies, or None for an error.    *)
GetProof(x) ==
    LET proof == BuildTradeProof(index[x])
    IN IF index[x] # None /\ VerifyTradeProof(proof) THEN proof ELSE None

-----------------------------------------------------------------------------
(* Properties *)

(* Records, calls and counters have their types: an index record has one   *)
(* side per tenant that settled, each of assets of that tenant, and a call *)
(* in progress puts only records that apply computed (build.rs,            *)
(* service.rs).                                                            *)
TypeOK ==
    /\ assets \in [Assets -> [owner : Owners, trade : Trades \cup {Free}]]
    /\ Len(log) <= MaxCommits /\ failures \in 0..MaxFailures
    /\ next \in 1..(Len(log) + 1) /\ exact \in (0..Len(log)) \cup {None}
    /\ \A x \in Trades : index[x] # None =>
          /\ index[x].status \in {"open", "settled", "cancelled"}
          /\ \A t \in DOMAIN index[x].sides :
                /\ ToSet(index[x].sides[t].settle_assets) \subseteq AssetsOf[t]
                /\ DOMAIN index[x].sides[t].settle_commits_by_asset
                     = ToSet(index[x].sides[t].settle_assets)
    /\ ingest # None => \A i \in DOMAIN ingest.puts : ingest.state[ingest.puts[i]] # None
    /\ rebuild # None => rebuild.puts # <<>> /\ rebuild.upto <= Len(log)

(* No call is in progress, and the last one that changed the index was     *)
(* neither cut short nor overlapped.                                       *)
Quiet == ingest = None /\ rebuild = None /\ exact # None
Seen == SubSeq(log, 1, exact)
EventsOf(x) == {e \in UNION {ToSet(batch.events) : batch \in ToSet(Seen)} : TradeIdOf(e) = x}

(* "Replaying the same stream yields exactly the same index as incremental *)
(* ingest_batch calls" (rebuild): batches taken one by one, each merged    *)
(* into the records it read, give the index that one replay gives. And a   *)
(* rebuild that runs alone makes good whatever failed, repeated or         *)
(* overlapping calls had left.                                             *)
IndexIsReplay == Quiet => index = Replay(Seen)

(* The index is well formed and what one replay of the log gives.          *)
IndexIsTrue == TypeOK /\ IndexIsReplay

(* get_history of an index that reflects a prefix of the log resolves, and *)
(* holds every event of the trade in it exactly once, in commit order,     *)
(* with nothing else but two transfers for each value leg; its status is   *)
(* that of the last commit that touched the trade.                         *)
HistoriesAreWhole ==
    Quiet => \A x \in Trades :
        LET h == GetHistory(x)
            last == Max({e.event_id[1] : e \in EventsOf(x)})
            final == {e.operation : e \in {f \in EventsOf(x) : f.event_id[1] = last}}
        IN /\ EventsOf(x) # {} => index[x] # None
           /\ index[x] # None =>
                /\ h # None
                /\ \A e \in EventsOf(x) : Cardinality({i \in DOMAIN h.events : h.events[i] = e}) = 1
                /\ Len(h.events) = Cardinality(EventsOf(x)) + 2 * Len(index[x].value_legs)
                /\ \A i, j \in DOMAIN h.events :
                       i < j => h.events[i].event_id[1] <= h.events[j].event_id[1]
                /\ EventsOf(x) # {} =>
                       h.status = IF "trade.unlock" \in final THEN "cancelled"
                                  ELSE IF "trade.settle" \in final THEN "settled" ELSE "open"

(* What get_proof returns is a settlement that happened, however the index *)
(* came about: every asset it proves was settled for that trade, in the    *)
(* commit it is proved at, to the owner the summary names; and a verifier  *)
(* that loads the commits itself accepts it (verify_trade).                *)
ProofsAreOfSettlements ==
    \A x \in Trades :
        LET p == GetProof(x)
        IN p # None => VerifyTrade(p) /\ \A t \in DOMAIN p.legs : \A i \in DOMAIN p.legs[t] :
               \E e \in Stored : /\ e.operation = "trade.settle" /\ TradeIdOf(e) = x
                                 /\ e.resource = p.legs[t][i].resource
                                 /\ e.event_id[1] = p.legs[t][i].commit
                                 /\ e.after.owner = p.sides[t].to_owner

(* The settles of a trade in a tenant all went to one owner.               *)
OneRecipient(x, t) ==
    \A e, f \in EventsOf(x) :
        e.operation = "trade.settle" /\ f.operation = "trade.settle" /\ e.tenant = t /\ f.tenant = t
            => e.after.owner = f.after.owner

(* Assets of one trade that a tenant settles in different commits are all  *)
(* proved, each at its own commit (upsert_side, get_proof): a trade whose  *)
(* tenants each settle to one owner has a proof, and the proof covers      *)
(* every asset it settled.                                                 *)
SettlementsAreProvable ==
    Quiet => \A x \in Trades :
        LET p == GetProof(x)
            settled == {e \in EventsOf(x) : e.operation = "trade.settle"}
        IN index[x] # None /\ (\A t \in Tenants : OneRecipient(x, t)) =>
               /\ p # None
               /\ \A e \in settled : \E i \in DOMAIN p.legs[e.tenant] :
                      p.legs[e.tenant][i].resource = e.resource

(* A trade has a proof exactly of what was settled.                        *)
ProofsAreExact == ProofsAreOfSettlements /\ SettlementsAreProvable

(* Value is attributed to trades as the executor matched it: each leg is   *)
(* one transfer of the log with the declared amount, resource and          *)
(* recipient; no transfer is a leg of two trades; and where the            *)
(* declarations of a batch are its pairs (as multisets), none of them is   *)
(* left out (match_value_legs).                                            *)
ValueLegsAreTrue ==
    Quiet =>
        LET legs(x) == IF index[x] = None THEN {} ELSE
                           {<<x, i>> : i \in DOMAIN index[x].value_legs}
            all == UNION {legs(x) : x \in Trades}
            leg(l) == index[l[1]].value_legs[l[2]]
            count(s, key) == Cardinality({i \in DOMAIN s : s[i].key = key})
            same(s, u) == \A i \in ToSet(s) \cup ToSet(u) : count(s, i.key) = count(u, i.key)
        IN /\ \A k, l \in all : k # l => leg(k).pair_event_ids \cap leg(l).pair_event_ids = {}
           /\ \A l \in all :
                 LET batch == log[leg(l).commit]
                 IN /\ \E d \in ToSet(Declared(batch)) : d.trade = l[1] /\ d.key = leg(l).key
                    /\ \E p \in ToSet(RecoverValuePairs(batch)) :
                          p.key = leg(l).key /\ p.event_ids = leg(l).pair_event_ids
           /\ \A batch \in ToSet(Seen) :
                 same(Declared(batch), RecoverValuePairs(batch)) =>
                     Cardinality({l \in all : leg(l).commit = batch.commit}) = Len(Declared(batch))

(* Histories are true: every event of a trade and the value that was paid  *)
(* for it, once each.                                                      *)
HistoriesAreTrue == HistoriesAreWhole /\ ValueLegsAreTrue
=============================================================================
