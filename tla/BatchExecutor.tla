---------------------------- MODULE BatchExecutor ----------------------------
(***************************************************************************)
(* The executor's batch routes (crates/statechronicle-executor/src/        *)
(* pipeline.rs and settlement.rs): execute_batch, execute_settle,          *)
(* execute_cross_tenant and execute_cross_tenant_trade, each as a planning *)
(* call and as a durable one.  A batch runs its intents one after the      *)
(* other against the shared intent store, validates the events they        *)
(* produced, and, when durable, hands them to the deployment's sink.       *)
(*                                                                         *)
(* An intent is its key (tenant and id), its payload and the part it plays *)
(* in a settlement.  Authentication, authority and the profile transition  *)
(* are one step, which may fail; an intent that runs emits its events as a *)
(* group, so the model keeps the set of keys that emitted.                 *)
(***************************************************************************)
EXTENDS Naturals, Sequences, FiniteSets

CONSTANTS Callers,      \* concurrent calls
          Jobs,         \* the batches that may be submitted
          Payloads,     \* contents an intent key may be submitted with
          None,         \* no payload
          MaxCalls      \* calls made in one behaviour

Routes == {"batch", "settle", "cross", "trade"}
Parts == {"settle", "value", "other"}

(* The intents of a batch, and the keys of those that play some part.      *)
IntentsOf(j) == {j.intents[n] : n \in DOMAIN j.intents}
PartKeys(j, parts) == {i.key : i \in {x \in IntentsOf(j) : x.part \in parts}}
BatchKeys(j) == {i.key : i \in IntentsOf(j)}
Keys == UNION {BatchKeys(j) : j \in Jobs}

(* A key is a tenant, numbered in the order of the names, and an id.       *)
ASSUME JobsAssumption ==
    /\ None \notin Payloads /\ MaxCalls \in Nat
    /\ \A j \in Jobs : /\ j.route \in Routes /\ j.intents \in Seq(IntentsOf(j))
                       /\ \A i \in IntentsOf(j) : i.part \in Parts

(* The batches whose shape the validators know: a settlement or a trade is *)
(* made of the legs it declares, a batch linked across tenants is a pair.  *)
(* Of any other the validators do not count every intent, and a retry may  *)
(* be written without the intents that were replayed.                      *)
ASSUME ShapesAssumption ==
    \A j \in Jobs :
        /\ j.route \in {"settle", "trade"} => PartKeys(j, {"settle", "value"}) = BatchKeys(j)
        /\ j.route = "cross" => \A k, l, m \in BatchKeys(j) : k = l \/ k = m \/ l = m

VARIABLES claims,    \* the intent store: the payload each key is claimed with
          written,   \* the groups of keys the sink has made durable
          pc,        \* where each call is
          job,       \* the batch it runs, its payload, and whether it is durable
          todo,      \* the positions of the intents it has not come to
          emitted,   \* the keys whose execution emitted events
          result,    \* what the call returned
          calls      \* calls made so far

vars == <<claims, written, pc, job, todo, emitted, result, calls>>

NoJob == [route |-> "batch", intents |-> <<>>, payload |-> None, durable |-> FALSE]

Init == /\ claims = [k \in Keys |-> None]
        /\ written = {}
        /\ pc = [c \in Callers |-> "Idle"]
        /\ job = [c \in Callers |-> NoJob]
        /\ todo = [c \in Callers |-> {}]
        /\ emitted = [c \in Callers |-> {}]
        /\ result = [c \in Callers |-> "None"]
        /\ calls = 0

TenantsOf(j) == {k[1] : k \in BatchKeys(j)}

KeyAt(c, n) == job[c].intents[n].key

(* The next intent of a batch. The cross-tenant routes partition a batch   *)
(* by tenant and run the parts in the order of the tenants' names.         *)
IsNext(c, n) ==
    LET sooner(m) == IF job[c].route \in {"batch", "settle"} \/ KeyAt(c, n)[1] = KeyAt(c, m)[1]
                     THEN n <= m ELSE KeyAt(c, n)[1] < KeyAt(c, m)[1]
    IN n \in todo[c] /\ \A m \in todo[c] : sooner(m)

Goto(c, label) == pc' = [pc EXCEPT ![c] = label]
Return(c, r) == Goto(c, "Idle") /\ result' = [result EXCEPT ![c] = r]

(* A call arrives.  An empty batch, or a cross-tenant one that stays in    *)
(* one tenant, is refused at once.                                         *)
Submit(c, j, p, durable) ==
    /\ pc[c] = "Idle" /\ calls < MaxCalls
    /\ calls' = calls + 1
    /\ job' = [job EXCEPT ![c] = [route |-> j.route, intents |-> j.intents,
                                  payload |-> p, durable |-> durable]]
    /\ todo' = [todo EXCEPT ![c] = DOMAIN j.intents]
    /\ emitted' = [emitted EXCEPT ![c] = {}]
    /\ IF \/ j.intents = <<>>
          \/ j.route \in {"cross", "trade"} /\ Cardinality(TenantsOf(j)) < 2
       THEN Return(c, "Err")
       ELSE Goto(c, "Lookup") /\ result' = [result EXCEPT ![c] = "None"]
    /\ UNCHANGED <<claims, written>>

(* The loop over the batch goes on from an intent to the next.             *)
NextLeg(c, n) == /\ todo' = [todo EXCEPT ![c] = @ \ {n}]
                 /\ Goto(c, IF todo[c] = {n} THEN "Validate" ELSE "Lookup")

(* get_intent: a claimed key with the same payload is a replay and emits   *)
(* nothing, with another payload it is a conflict.  A plain batch fails    *)
(* closed on a replay, the others go on to their next leg.                 *)
Lookup(c, n) ==
    /\ pc[c] = "Lookup" /\ IsNext(c, n)
    /\ LET existing == claims[KeyAt(c, n)] IN
       \/ existing = None /\ Goto(c, "Run") /\ UNCHANGED <<todo, result>>
       \/ /\ existing = job[c].payload
          /\ IF job[c].route = "batch" THEN Return(c, "Err") /\ UNCHANGED todo
             ELSE NextLeg(c, n) /\ UNCHANGED result
       \/ existing \notin {None, job[c].payload} /\ Return(c, "Err") /\ UNCHANGED todo
    /\ UNCHANGED <<claims, written, job, emitted, calls>>

(* Variant: planning calls claim their intents.                            *)
RunAlwaysClaims(c, n) ==
    /\ pc[c] = "Run" /\ IsNext(c, n)
    /\ LET key == KeyAt(c, n) IN
       \/ /\ claims[key] \in {None, job[c].payload}
          /\ claims' = [claims EXCEPT ![key] = job[c].payload]
          /\ emitted' = [emitted EXCEPT ![c] = @ \cup {key}]
          /\ NextLeg(c, n) /\ UNCHANGED result
       \/ Return(c, "Err") /\ UNCHANGED <<claims, emitted, todo>>
    /\ UNCHANGED <<written, job, calls>>

(* The intent is authenticated, authorized and applied.  On a durable      *)
(* route its key is then claimed with put_intent, which another call may   *)
(* have done since the lookup: the same payload is no conflict, and the    *)
(* intent emits its events all the same.                                   *)
Run(c, n) ==
    /\ pc[c] = "Run" /\ IsNext(c, n)
    /\ LET key == KeyAt(c, n) IN
       IF ~job[c].durable \/ claims[key] \in {None, job[c].payload}
       THEN /\ claims' = IF job[c].durable THEN [claims EXCEPT ![key] = job[c].payload]
                         ELSE claims
            /\ emitted' = [emitted EXCEPT ![c] = @ \cup {key}]
            /\ NextLeg(c, n) /\ UNCHANGED result
       ELSE Return(c, "Err") /\ UNCHANGED <<claims, emitted, todo>>
    /\ UNCHANGED <<written, job, calls>>

(* A leg is rejected, or a port it reads is unavailable; the call returns  *)
(* and leaves the claims of its earlier legs where they are.               *)
LegFails(c) ==
    /\ pc[c] \in {"Lookup", "Run"}
    /\ Return(c, "Err")
    /\ UNCHANGED <<claims, written, job, todo, emitted, calls>>

(* validate_settle_batch: one event per settle intent, one transfer pair   *)
(* per declared value leg; intents of other kinds are not counted.         *)
SettleShape(c) == PartKeys(job[c], {"settle", "value"}) \subseteq emitted[c]

(* validate_cross_tenant_consistency: some intent id links two tenants.    *)
Linked(c) == \E k, l \in emitted[c] : k[2] = l[2] /\ k[1] # l[1]

(* validate_cross_tenant_trade: exactly the legs the manifest declares.    *)
TradeShape(c) == /\ PartKeys(job[c], {"settle"}) # {}
                 /\ emitted[c] = PartKeys(job[c], {"settle", "value"})

(* Variant: a trade's missing value legs go unnoticed.                     *)
ConsistentWithoutValueLegs(c) ==
    CASE job[c].route = "batch"  -> TRUE
      [] job[c].route = "settle" -> SettleShape(c)
      [] job[c].route = "cross"  -> Linked(c)
      [] job[c].route = "trade"  -> PartKeys(job[c], {"settle"}) \subseteq emitted[c]

Consistent(c) ==
    CASE job[c].route = "batch"  -> TRUE
      [] job[c].route = "settle" -> SettleShape(c)
      [] job[c].route = "cross"  -> Linked(c)
      [] job[c].route = "trade"  -> TradeShape(c)

(* The emitted events are validated as a batch.  A batch without events    *)
(* skips the sink.                                                         *)
Validate(c) ==
    /\ pc[c] = "Validate"
    /\ \/ ~Consistent(c) /\ Return(c, "Err")
       \/ Consistent(c) /\ job[c].durable /\ emitted[c] # {} /\ Goto(c, "Persist") /\ UNCHANGED result
       \/ Consistent(c) /\ (~job[c].durable \/ emitted[c] = {}) /\ Return(c, "Ok")
    /\ UNCHANGED <<claims, written, job, todo, emitted, calls>>

(* The sink makes the batch durable in one transaction, once per key.      *)
Persist(c) ==
    /\ pc[c] = "Persist"
    /\ emitted[c] \cap UNION {w.keys : w \in written} = {}
    /\ written' = written \cup {[keys |-> emitted[c], batch |-> BatchKeys(job[c])]}
    /\ Return(c, "Ok")
    /\ UNCHANGED <<claims, job, todo, emitted, calls>>

(* The sink refuses the batch or cannot be reached.                        *)
PersistFails(c) ==
    /\ pc[c] = "Persist"
    /\ Return(c, "Err")
    /\ UNCHANGED <<claims, written, job, todo, emitted, calls>>

Next == \E c \in Callers :
            \/ \E j \in Jobs, p \in Payloads, durable \in BOOLEAN : Submit(c, j, p, durable)
            \/ \E n \in todo[c] : Lookup(c, n) \/ Run(c, n)
            \/ LegFails(c)
            \/ Validate(c) \/ Persist(c) \/ PersistFails(c)

Spec == Init /\ [][Next]_vars
-----------------------------------------------------------------------------
(* Type correctness.                                                       *)
TypeOK == /\ claims \in [Keys -> Payloads \cup {None}]
          /\ \A w \in written : w.keys \subseteq Keys /\ w.batch \subseteq Keys
          /\ pc \in [Callers -> {"Idle", "Lookup", "Run", "Validate", "Persist"}]
          /\ \A c \in Callers : /\ job[c].route \in Routes
                                /\ \A i \in IntentsOf(job[c]) : i.part \in Parts
                                /\ todo[c] \subseteq DOMAIN job[c].intents
                                /\ emitted[c] \subseteq Keys
                                /\ result[c] \in {"None", "Ok", "Err"}
          /\ calls \in 0 .. MaxCalls

(* "No partial batch can silently escape": what the sink writes for a      *)
(* batch is all of it, though earlier attempts may have claimed some of    *)
(* its intents and other calls run the same intents at the same time.      *)
WholeBatchWritten == \A w \in written : w.keys = w.batch

(* A durable batch that returned success is durable: every one of its      *)
(* intents has been written, by this call or by another.                   *)
SuccessIsDurable ==
    \A c \in Callers :
        result[c] = "Ok" /\ job[c].durable =>
            BatchKeys(job[c]) \subseteq UNION {w.keys : w \in written}

(* Batches are whole: nothing partial is written, and a durable success is *)
(* written in full.                                                        *)
BatchesAreWhole == TypeOK /\ WholeBatchWritten /\ SuccessIsDurable

(* "Pure/planning batches must never leave partial claims behind": a claim *)
(* appears only in the step in which a durable call runs that intent.      *)
PlanningClaimsNothing ==
    [][\A k \in Keys : claims[k] # claims'[k] =>
          \E c \in Callers : job[c].durable /\ k \in {KeyAt(c, n) : n \in todo[c] \ todo'[c]}]_vars
=============================================================================
