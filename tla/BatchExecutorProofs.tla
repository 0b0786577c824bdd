------------------------- MODULE BatchExecutorProofs -------------------------
(***************************************************************************)
(* Proofs that a durable batch is written whole or not at all, and that    *)
(* planning claims nothing (BatchExecutor).                                *)
(***************************************************************************)
EXTENDS BatchExecutor, TLAPS

(* What a call runs is one of the batches.                                 *)
IsJob(r) == r.route \in Routes /\ \E j \in Jobs : r.route = j.route /\ r.intents = j.intents

TypeInv == /\ claims \in [Keys -> Payloads \cup {None}]
           /\ \A w \in written : w.keys \subseteq Keys /\ w.batch \subseteq Keys
           /\ pc \in [Callers -> {"Idle", "Lookup", "Run", "Validate", "Persist"}]
           /\ result \in [Callers -> {"None", "Ok", "Err"}]
           /\ todo \in [Callers -> {todo[c] : c \in Callers}]
           /\ emitted \in [Callers -> SUBSET Keys]
           /\ job \in [Callers -> {job[c] : c \in Callers}]
           /\ calls \in 0 .. MaxCalls

(* A call that is not idle has a batch with intents, and has emitted for   *)
(* none it has not come to; a plain one has emitted for every other.       *)
CallInvOf(c) ==
    /\ job[c] = NoJob \/ IsJob(job[c])
    /\ todo[c] \subseteq DOMAIN job[c].intents
    /\ emitted[c] \subseteq BatchKeys(job[c])
    /\ pc[c] # "Idle" => /\ IsJob(job[c]) /\ job[c].payload \in Payloads
                         /\ BatchKeys(job[c]) # {}
    /\ pc[c] # "Idle" /\ job[c].route = "batch" =>
          \A n \in DOMAIN job[c].intents \ todo[c] : KeyAt(c, n) \in emitted[c]
    /\ pc[c] \in {"Validate", "Persist"} => todo[c] = {}
    /\ pc[c] = "Persist" => Consistent(c)

CallInv == \A c \in Callers : CallInvOf(c)

BatchInv == TypeInv /\ CallInv /\ WholeBatchWritten /\ SuccessIsDurable
-----------------------------------------------------------------------------
(* The keys of a batch are keys.                                           *)
LEMMA JobKeys ==
    ASSUME NEW r, IsJob(r)
    PROVE  BatchKeys(r) \subseteq Keys
BY DEF IsJob, BatchKeys, IntentsOf, Keys

(* The key at a position of a batch is one of its keys.                    *)
LEMMA KeyAtIsAKey ==
    ASSUME NEW c \in Callers, NEW n \in DOMAIN job[c].intents
    PROVE  KeyAt(c, n) \in BatchKeys(job[c])
BY Zenon DEF KeyAt, BatchKeys, IntentsOf

(* The heart of the argument: a batch that is through its intents and      *)
(* passes its validator has emitted for all of them, so for one at least.  *)
LEMMA ConsistentIsWhole ==
    ASSUME NEW c \in Callers, CallInvOf(c), pc[c] \in {"Validate", "Persist"}, Consistent(c)
    PROVE  emitted[c] = BatchKeys(job[c]) /\ emitted[c] # {}
<1> DEFINE r == job[c]
<1>1. IsJob(r) /\ BatchKeys(r) # {} /\ emitted[c] \subseteq BatchKeys(r) /\ todo[c] = {}
  BY Zenon DEF CallInvOf
<1>2. PICK j \in Jobs : r.route = j.route /\ r.intents = j.intents
  BY <1>1, Zenon DEF IsJob
<1>3. BatchKeys(r) = BatchKeys(j) /\ \A parts : PartKeys(r, parts) = PartKeys(j, parts)
  BY <1>2, Zenon DEF PartKeys, BatchKeys, IntentsOf
<1> SUFFICES BatchKeys(r) \subseteq emitted[c]
  BY <1>1, Zenon
<1>4. CASE r.route = "batch"
  <2>1. \A n \in DOMAIN r.intents : KeyAt(c, n) \in emitted[c]
    BY <1>1, <1>4, Zenon DEF CallInvOf
  <2> QED BY <2>1, Zenon DEF BatchKeys, IntentsOf, KeyAt
<1>5. CASE r.route = "settle"
  <2>1. PartKeys(r, {"settle", "value"}) \subseteq emitted[c]
    BY <1>5, Zenon DEF Consistent, SettleShape
  <2>2. PartKeys(j, {"settle", "value"}) = BatchKeys(j)
    BY <1>2, <1>5, ShapesAssumption, Zenon
  <2>3. PartKeys(r, {"settle", "value"}) = PartKeys(j, {"settle", "value"})
    BY <1>3, Zenon
  <2> QED BY <2>1, <2>2, <2>3, <1>3, Zenon
<1>6. CASE r.route = "trade"
  <2>1. emitted[c] = PartKeys(r, {"settle", "value"})
    BY <1>6, Zenon DEF Consistent, TradeShape
  <2>2. PartKeys(j, {"settle", "value"}) = BatchKeys(j)
    BY <1>2, <1>6, ShapesAssumption, Zenon
  <2>3. PartKeys(r, {"settle", "value"}) = PartKeys(j, {"settle", "value"})
    BY <1>3
  <2> QED BY <2>1, <2>2, <2>3, <1>3, Zenon
<1>7. CASE r.route = "cross"
  <2>1. PICK k, l \in emitted[c] : k[1] # l[1]
    <3>1. Linked(c)
      BY <1>7, Zenon DEF Consistent
    <3> QED BY <3>1, Zenon DEF Linked
  <2>2. k # l
    BY <2>1, Zenon
  <2>3. \A x, y, z \in BatchKeys(r) : x = y \/ x = z \/ y = z
    <3>1. j.route = "cross"
      BY <1>2, <1>7, Zenon
    <3>2. \A x, y, z \in BatchKeys(j) : x = y \/ x = z \/ y = z
      BY <3>1, ShapesAssumption, Zenon
    <3> QED BY <3>2, <1>3, Zenon
  <2> QED BY <1>1, <2>2, <2>3, Zenon
<1> QED BY <1>1, <1>4, <1>5, <1>6, <1>7, Zenon DEF IsJob, Routes

(* A batch that is not empty has a first intent.                           *)
LEMMA BatchHasAFirst ==
    ASSUME NEW S, NEW intents \in Seq(S), intents # <<>>
    PROVE  1 \in DOMAIN intents
<1>1. Len(intents) # 0 /\ Len(intents) \in Nat /\ DOMAIN intents = 1 .. Len(intents)
  OBVIOUS
<1> QED BY <1>1

(* Whole steps change one call. What holds of the others goes on to.       *)
Others(c) == \A d \in Callers \ {c} : /\ pc'[d] = pc[d] /\ job'[d] = job[d] /\ todo'[d] = todo[d]
                                      /\ emitted'[d] = emitted[d] /\ result'[d] = result[d]

DurableIfOk(c) ==
    result[c] = "Ok" /\ job[c].durable => BatchKeys(job[c]) \subseteq UNION {w.keys : w \in written}

(* The invariant after a step of one call.                                 *)
LEMMA OneCall ==
    ASSUME BatchInv, NEW c \in Callers, Others(c), written \subseteq written',
           TypeInv', CallInvOf(c)', WholeBatchWritten', DurableIfOk(c)'
    PROVE  BatchInv'
<1>1. ASSUME NEW d \in Callers PROVE CallInvOf(d)'
  <2>1. CASE d = c
    BY <2>1, Zenon
  <2>2. CASE d # c
    <3>1. CallInvOf(d)
      BY Zenon DEF BatchInv, CallInv
    <3>2. pc'[d] = pc[d] /\ job'[d] = job[d] /\ todo'[d] = todo[d] /\ emitted'[d] = emitted[d]
      BY <2>2, Zenon DEF Others
    <3>3. Consistent(d)' <=> Consistent(d)
      BY <3>2 DEF Consistent, SettleShape, TradeShape, Linked
    <3> QED BY <3>1, <3>2, <3>3, Zenon DEF CallInvOf, KeyAt
  <2> QED BY <2>1, <2>2, Zenon
<1>2. ASSUME NEW d \in Callers PROVE DurableIfOk(d)'
  <2>1. CASE d = c
    BY <2>1, Zenon
  <2>2. CASE d # c
    <3>1. DurableIfOk(d)
      BY Zenon DEF BatchInv, SuccessIsDurable, DurableIfOk
    <3>2. job'[d] = job[d] /\ result'[d] = result[d]
      BY <2>2, Zenon DEF Others
    <3>3. UNION {w.keys : w \in written} \subseteq UNION {w.keys : w \in written'}
      BY Zenon
    <3> QED BY <3>1, <3>2, <3>3, Zenon DEF DurableIfOk
  <2> QED BY <2>1, <2>2, Zenon
<1> QED BY <1>1, <1>2, Zenon DEF BatchInv, CallInv, SuccessIsDurable, DurableIfOk

(* Initially there is no call.                                             *)
LEMMA BatchInvInit ==
    ASSUME Init PROVE BatchInv
<1>1. TypeInv
  BY JobsAssumption DEF Init, TypeInv
<1>2. ASSUME NEW c \in Callers PROVE CallInvOf(c)
  BY Zenon DEF Init, CallInvOf
<1>3. WholeBatchWritten /\ SuccessIsDurable
  BY Zenon DEF Init, WholeBatchWritten, SuccessIsDurable
<1> QED BY <1>1, <1>2, <1>3, Zenon DEF BatchInv, CallInv

(* A call arrives and is refused or begins.                                *)
LEMMA SubmitStep ==
    ASSUME BatchInv, NEW c \in Callers, NEW j \in Jobs, NEW p \in Payloads, NEW durable \in BOOLEAN,
           Submit(c, j, p, durable)
    PROVE  BatchInv'
<1> DEFINE r == [route |-> j.route, intents |-> j.intents, payload |-> p, durable |-> durable]
<1>1. /\ job' = [job EXCEPT ![c] = r] /\ todo' = [todo EXCEPT ![c] = DOMAIN j.intents]
      /\ emitted' = [emitted EXCEPT ![c] = {}] /\ calls' = calls + 1 /\ calls < MaxCalls
      /\ claims' = claims /\ written' = written
  BY Zenon DEF Submit
<1>2. \/ pc' = [pc EXCEPT ![c] = "Idle"] /\ result' = [result EXCEPT ![c] = "Err"]
      \/ /\ j.intents # <<>>
         /\ pc' = [pc EXCEPT ![c] = "Lookup"] /\ result' = [result EXCEPT ![c] = "None"]
  BY Zenon DEF Submit, Return, Goto
<1>3. TypeInv
  BY Zenon DEF BatchInv
<1>4. /\ job'[c] = r /\ todo'[c] = DOMAIN j.intents /\ emitted'[c] = {}
      /\ pc'[c] \in {"Idle", "Lookup"} /\ result'[c] \in {"Err", "None"}
      /\ pc'[c] = "Lookup" => j.intents # <<>>
      /\ Others(c)
  BY <1>1, <1>2, <1>3 DEF TypeInv, Others
<1>5. TypeInv'
  <2>1. pc' \in [Callers -> {"Idle", "Lookup", "Run", "Validate", "Persist"}]
        /\ result' \in [Callers -> {"None", "Ok", "Err"}]
        /\ emitted' \in [Callers -> SUBSET Keys]
    BY <1>1, <1>2, <1>3, Zenon DEF TypeInv
  <2>2. /\ job' \in [Callers -> {job'[d] : d \in Callers}]
        /\ todo' \in [Callers -> {todo'[d] : d \in Callers}]
    BY <1>1, <1>3, Zenon DEF TypeInv
  <2>3. calls' \in 0 .. MaxCalls
    BY <1>1, <1>3, JobsAssumption DEF TypeInv
  <2> QED BY <2>1, <2>2, <2>3, <1>1, <1>3, Zenon DEF TypeInv
<1>6. CallInvOf(c)'
  <2>1. IsJob(r)
    BY JobsAssumption, Zenon DEF IsJob
  <2>2. j.intents # <<>> => BatchKeys(r) # {}
    <3>1. ASSUME j.intents # <<>> PROVE \E n : n \in DOMAIN j.intents
      BY <3>1, JobsAssumption, BatchHasAFirst, Zenon
    <3> QED BY <3>1, Zenon DEF BatchKeys, IntentsOf
  <2> QED BY <1>4, <2>1, <2>2 DEF CallInvOf
<1>7. WholeBatchWritten' /\ DurableIfOk(c)'
  BY <1>1, <1>4, Zenon DEF BatchInv, WholeBatchWritten, DurableIfOk
<1> QED BY <1>1, <1>4, <1>5, <1>6, <1>7, OneCall, Zenon

(* A step of one call that leaves the ledger, the batch and what it has    *)
(* emitted alone and returns no success: the call moves on, or gives up.   *)
LEMMA MoveOn ==
    ASSUME BatchInv, NEW c \in Callers, pc[c] # "Idle",
           UNCHANGED <<claims, written, job, emitted, calls>>,
           NEW label \in {"Idle", "Lookup", "Run", "Validate", "Persist"}, Goto(c, label),
           NEW left, todo' = [todo EXCEPT ![c] = left], left \subseteq todo[c],
           NEW r \in {"None", "Err", result[c]}, result' = [result EXCEPT ![c] = r],
           job[c].route = "batch" => left = todo[c],
           label \in {"Validate", "Persist"} => left = {},
           label = "Persist" => Consistent(c)
    PROVE  BatchInv'
<1>1. TypeInv /\ CallInvOf(c)
  BY Zenon DEF BatchInv, CallInv
<1>2. /\ pc'[c] = label /\ todo'[c] = left /\ job'[c] = job[c] /\ emitted'[c] = emitted[c]
      /\ result'[c] = r /\ Others(c)
  BY <1>1, Zenon DEF TypeInv, Others, Goto
<1>3. TypeInv'
  <2>1. todo' \in [Callers -> {todo'[d] : d \in Callers}]
    BY <1>1, Zenon DEF TypeInv
  <2>2. pc' \in [Callers -> {"Idle", "Lookup", "Run", "Validate", "Persist"}]
    BY <1>1, Zenon DEF TypeInv, Goto
  <2>3. result' \in [Callers -> {"None", "Ok", "Err"}]
    BY <1>1, Zenon DEF TypeInv
  <2>4. /\ claims' \in [Keys -> Payloads \cup {None}]
        /\ \A w \in written' : w.keys \subseteq Keys /\ w.batch \subseteq Keys
        /\ emitted' \in [Callers -> SUBSET Keys]
        /\ job' \in [Callers -> {job'[d] : d \in Callers}]
        /\ calls' \in 0 .. MaxCalls
    BY <1>1, Zenon DEF TypeInv
  <2> QED BY <2>1, <2>2, <2>3, <2>4, Zenon DEF TypeInv
<1>4. Consistent(c)' <=> Consistent(c)
  BY <1>2, Zenon DEF Consistent, SettleShape, TradeShape, Linked
<1>5. CallInvOf(c)'
  BY <1>1, <1>2, <1>4, Zenon DEF CallInvOf, KeyAt
<1>6. WholeBatchWritten' /\ DurableIfOk(c)'
  BY <1>2, Zenon DEF BatchInv, WholeBatchWritten, SuccessIsDurable, DurableIfOk
<1> QED BY <1>2, <1>3, <1>5, <1>6, OneCall, Zenon

(* A call finds its intent unclaimed, replayed or in conflict.             *)
LEMMA LookupStep ==
    ASSUME BatchInv, NEW c \in Callers, NEW n \in todo[c], Lookup(c, n)
    PROVE  BatchInv'
<1>1. pc[c] = "Lookup" /\ UNCHANGED <<claims, written, job, emitted, calls>>
  BY Zenon DEF Lookup
<1>2. /\ todo = [todo EXCEPT ![c] = todo[c]] /\ result = [result EXCEPT ![c] = result[c]]
  BY Zenon DEF BatchInv, TypeInv
<1>3. \/ Goto(c, "Run") /\ UNCHANGED <<todo, result>>
      \/ Return(c, "Err") /\ UNCHANGED todo
      \/ job[c].route # "batch" /\ NextLeg(c, n) /\ UNCHANGED result
  BY Zenon DEF Lookup
<1>4. CASE Goto(c, "Run") /\ UNCHANGED <<todo, result>>
  BY <1>1, <1>2, <1>4, MoveOn, Zenon
<1>5. CASE Return(c, "Err") /\ UNCHANGED todo
  BY <1>1, <1>2, <1>5, MoveOn, Zenon DEF Return
<1>6. CASE job[c].route # "batch" /\ NextLeg(c, n) /\ UNCHANGED result
  <2> DEFINE left == todo[c] \ {n}
             label == IF todo[c] = {n} THEN "Validate" ELSE "Lookup"
  <2>1. todo' = [todo EXCEPT ![c] = left] /\ Goto(c, label)
    BY <1>6, Zenon DEF NextLeg
  <2>2. left \subseteq todo[c] /\ (label = "Validate" => left = {})
        /\ label \in {"Validate", "Lookup"}
    BY Zenon
  <2> HIDE DEF left, label
  <2> QED BY <1>1, <1>2, <1>6, <2>1, <2>2, MoveOn, Zenon
<1> QED BY <1>3, <1>4, <1>5, <1>6, Zenon

(* A leg fails.                                                            *)
LEMMA LegFailsStep ==
    ASSUME BatchInv, NEW c \in Callers, LegFails(c) \/ PersistFails(c)
    PROVE  BatchInv'
<1>1. /\ pc[c] # "Idle" /\ UNCHANGED <<claims, written, job, todo, emitted, calls>>
      /\ Goto(c, "Idle") /\ result' = [result EXCEPT ![c] = "Err"]
  BY Zenon DEF LegFails, PersistFails, Return
<1>2. todo = [todo EXCEPT ![c] = todo[c]]
  BY Zenon DEF BatchInv, TypeInv
<1> QED BY <1>1, <1>2, MoveOn, Zenon

(* An intent is run: it emits, and is claimed if the call is durable.      *)
LEMMA RunStep ==
    ASSUME BatchInv, NEW c \in Callers, NEW n \in todo[c], Run(c, n)
    PROVE  BatchInv'
<1> DEFINE key == KeyAt(c, n)
           left == todo[c] \ {n}
           label == IF todo[c] = {n} THEN "Validate" ELSE "Lookup"
<1>1. pc[c] = "Run" /\ UNCHANGED <<written, job, calls>>
  BY Zenon DEF Run
<1>2. TypeInv /\ CallInvOf(c)
  BY Zenon DEF BatchInv, CallInv
<1>3. CASE Return(c, "Err") /\ UNCHANGED <<claims, emitted, todo>>
  <2>1. todo = [todo EXCEPT ![c] = todo[c]]
    BY <1>2, Zenon DEF TypeInv
  <2> QED BY <1>1, <1>3, <2>1, MoveOn, Zenon DEF Return
<1>4. CASE /\ claims' \in {claims, [claims EXCEPT ![key] = job[c].payload]}
           /\ emitted' = [emitted EXCEPT ![c] = @ \cup {key}]
           /\ NextLeg(c, n) /\ UNCHANGED result
  <2>1. /\ todo' = [todo EXCEPT ![c] = left] /\ pc' = [pc EXCEPT ![c] = label]
        /\ label \in {"Validate", "Lookup"} /\ (label = "Validate" => left = {})
    BY <1>4, Zenon DEF NextLeg, Goto
  <2>2. IsJob(job[c]) /\ job[c].payload \in Payloads /\ n \in DOMAIN job[c].intents
    BY <1>1, <1>2, Zenon DEF CallInvOf
  <2>3. key \in BatchKeys(job[c]) /\ key \in Keys
    BY <2>2, JobKeys, KeyAtIsAKey, Zenon
  <2> HIDE DEF key, left, label
  <2>4. /\ pc'[c] = label /\ todo'[c] = left /\ job'[c] = job[c] /\ Others(c)
        /\ emitted'[c] = emitted[c] \cup {key}
    BY <1>1, <1>2, <1>4, <2>1, Zenon DEF TypeInv, Others
  <2>5. TypeInv'
    <3>1. claims' \in [Keys -> Payloads \cup {None}]
      BY <1>2, <1>4, <2>2, <2>3, Zenon DEF TypeInv
    <3>2. pc' \in [Callers -> {"Idle", "Lookup", "Run", "Validate", "Persist"}]
      BY <1>2, <2>1, Zenon DEF TypeInv
    <3>3. todo' \in [Callers -> {todo'[d] : d \in Callers}]
      BY <1>2, <2>1, Zenon DEF TypeInv
    <3>4. emitted' \in [Callers -> SUBSET Keys]
      BY <1>2, <1>4, <2>3 DEF TypeInv
    <3>5. result' = result /\ written' = written /\ job' = job /\ calls' = calls
      BY <1>1, <1>4, Zenon
    <3> QED BY <3>1, <3>2, <3>3, <3>4, <3>5, <1>2, Zenon DEF TypeInv
  <2>6. CallInvOf(c)'
    <3>1. /\ job'[c] = NoJob \/ IsJob(job'[c])
          /\ todo'[c] \subseteq DOMAIN job'[c].intents
          /\ emitted'[c] \subseteq BatchKeys(job'[c])
          /\ IsJob(job'[c]) /\ job'[c].payload \in Payloads /\ BatchKeys(job'[c]) # {}
      BY <1>2, <2>2, <2>3, <2>4, Zenon DEF CallInvOf, left
    <3>2. job'[c].route = "batch" =>
             \A m \in DOMAIN job'[c].intents \ todo'[c] : KeyAt(c, m)' \in emitted'[c]
      BY <1>1, <1>2, <2>4, Zenon DEF CallInvOf, KeyAt, key, left
    <3>3. (pc'[c] \in {"Validate", "Persist"} => todo'[c] = {}) /\ pc'[c] # "Persist"
      BY <2>1, <2>4, Zenon
    <3> QED BY <3>1, <3>2, <3>3, Zenon DEF CallInvOf
  <2>7. WholeBatchWritten' /\ DurableIfOk(c)'
    BY <1>1, <1>4, Zenon DEF BatchInv, WholeBatchWritten, SuccessIsDurable, DurableIfOk
  <2> QED BY <1>1, <2>4, <2>5, <2>6, <2>7, OneCall, Zenon
<1>5. \/ Return(c, "Err") /\ UNCHANGED <<claims, emitted, todo>>
      \/ /\ claims' \in {claims, [claims EXCEPT ![key] = job[c].payload]}
         /\ emitted' = [emitted EXCEPT ![c] = @ \cup {key}]
         /\ NextLeg(c, n) /\ UNCHANGED result
  BY Zenon DEF Run
<1> QED BY <1>3, <1>4, <1>5, Zenon

(* A batch is validated: refused, handed to the sink, or done.             *)
LEMMA ValidateStep ==
    ASSUME BatchInv, NEW c \in Callers, Validate(c)
    PROVE  BatchInv'
<1>1. pc[c] = "Validate" /\ UNCHANGED <<claims, written, job, todo, emitted, calls>>
  BY Zenon DEF Validate
<1>2. TypeInv /\ CallInvOf(c)
  BY Zenon DEF BatchInv, CallInv
<1>3. /\ todo = [todo EXCEPT ![c] = todo[c]] /\ result = [result EXCEPT ![c] = result[c]]
      /\ todo[c] = {}
  BY <1>1, <1>2, Zenon DEF TypeInv, CallInvOf
<1>4. CASE Return(c, "Err")
  BY <1>1, <1>3, <1>4, MoveOn, Zenon DEF Return
<1>5. CASE Consistent(c) /\ Goto(c, "Persist") /\ UNCHANGED result
  BY <1>1, <1>3, <1>5, MoveOn, Zenon
<1>6. CASE Consistent(c) /\ (~job[c].durable \/ emitted[c] = {}) /\ Return(c, "Ok")
  <2>1. ~job[c].durable
    BY <1>1, <1>2, <1>6, ConsistentIsWhole, Zenon
  <2>2. /\ pc' = [pc EXCEPT ![c] = "Idle"] /\ result' = [result EXCEPT ![c] = "Ok"]
    BY <1>6, Zenon DEF Return, Goto
  <2>3. pc'[c] = "Idle" /\ Others(c)
    BY <1>1, <1>2, <2>2, Zenon DEF TypeInv, Others
  <2>4. TypeInv'
    BY <1>1, <1>2, <2>2, Zenon DEF TypeInv
  <2>5. CallInvOf(c)'
    BY <1>1, <1>2, <2>3, Zenon DEF CallInvOf
  <2>6. WholeBatchWritten' /\ DurableIfOk(c)'
    BY <1>1, <2>1, Zenon DEF BatchInv, WholeBatchWritten, DurableIfOk
  <2> QED BY <1>1, <2>3, <2>4, <2>5, <2>6, OneCall, Zenon
<1> QED BY <1>4, <1>5, <1>6, Zenon DEF Validate

(* The sink writes a batch, which is whole.                                *)
LEMMA PersistStep ==
    ASSUME BatchInv, NEW c \in Callers, Persist(c)
    PROVE  BatchInv'
<1> DEFINE w == [keys |-> emitted[c], batch |-> BatchKeys(job[c])]
<1>1. /\ pc[c] = "Persist" /\ UNCHANGED <<claims, job, todo, emitted, calls>>
      /\ written' = written \cup {w}
      /\ pc' = [pc EXCEPT ![c] = "Idle"] /\ result' = [result EXCEPT ![c] = "Ok"]
  BY Zenon DEF Persist, Return, Goto
<1>2. TypeInv /\ CallInvOf(c)
  BY DEF BatchInv, CallInv
<1>3. emitted[c] = BatchKeys(job[c]) /\ BatchKeys(job[c]) \subseteq Keys
  <2>1. Consistent(c) /\ IsJob(job[c])
    BY <1>1, <1>2, Zenon DEF CallInvOf
  <2> QED BY <2>1, <1>1, <1>2, ConsistentIsWhole, JobKeys, Zenon
<1>4. pc'[c] = "Idle" /\ Others(c)
  BY <1>1, <1>2, Zenon DEF TypeInv, Others
<1>5. TypeInv'
  <2>1. \A x \in written' : x.keys \subseteq Keys /\ x.batch \subseteq Keys
    BY <1>1, <1>2, <1>3 DEF TypeInv
  <2>2. /\ pc' \in [Callers -> {"Idle", "Lookup", "Run", "Validate", "Persist"}]
        /\ result' \in [Callers -> {"None", "Ok", "Err"}]
    BY <1>1, <1>2, Zenon DEF TypeInv
  <2>3. claims' = claims /\ job' = job /\ todo' = todo /\ emitted' = emitted /\ calls' = calls
    BY <1>1, Zenon
  <2> QED BY <2>1, <2>2, <2>3, <1>2, Zenon DEF TypeInv
<1>6. CallInvOf(c)'
  BY <1>1, <1>2, <1>4, Zenon DEF CallInvOf
<1>7. WholeBatchWritten'
  BY <1>1, <1>3 DEF BatchInv, WholeBatchWritten
<1>8. DurableIfOk(c)'
  <2>1. w \in written' /\ w.keys = BatchKeys(job[c]) /\ job' = job
    BY <1>1, <1>3, Zenon
  <2> QED BY <2>1, Zenon DEF DurableIfOk
<1> QED BY <1>1, <1>4, <1>5, <1>6, <1>7, <1>8, OneCall, Zenon

(* Every step keeps the invariant.                                         *)
LEMMA BatchInvStep ==
    ASSUME BatchInv, [Next]_vars PROVE BatchInv'
<1>1. ASSUME NEW c \in Callers, NEW j \in Jobs, NEW p \in Payloads, NEW durable \in BOOLEAN,
             Submit(c, j, p, durable)
      PROVE  BatchInv'
  BY <1>1, SubmitStep, Zenon
<1>2. ASSUME NEW c \in Callers, NEW n \in todo[c], Lookup(c, n) PROVE BatchInv'
  BY <1>2, LookupStep, Zenon
<1>3. ASSUME NEW c \in Callers, NEW n \in todo[c], Run(c, n) PROVE BatchInv'
  BY <1>3, RunStep
<1>4. ASSUME NEW c \in Callers, LegFails(c) \/ PersistFails(c) PROVE BatchInv'
  BY <1>4, LegFailsStep, Zenon
<1>5. ASSUME NEW c \in Callers, Validate(c) PROVE BatchInv'
  BY <1>5, ValidateStep, Zenon
<1>6. ASSUME NEW c \in Callers, Persist(c) PROVE BatchInv'
  BY <1>6, PersistStep
<1>7. CASE UNCHANGED vars
  <2>1. /\ claims' = claims /\ written' = written /\ pc' = pc /\ job' = job /\ todo' = todo
        /\ emitted' = emitted /\ result' = result /\ calls' = calls
    BY <1>7, Zenon DEF vars
  <2>2. \A c \in Callers : Consistent(c)' <=> Consistent(c)
    BY <2>1, Zenon DEF Consistent, SettleShape, TradeShape, Linked
  <2>3. CallInv'
    BY <2>1, <2>2, Zenon DEF BatchInv, CallInv, CallInvOf, KeyAt
  <2>4. TypeInv' /\ WholeBatchWritten' /\ SuccessIsDurable'
    BY <2>1, Zenon DEF BatchInv, TypeInv, WholeBatchWritten, SuccessIsDurable
  <2> QED BY <2>3, <2>4, Zenon DEF BatchInv
<1> QED BY <1>1, <1>2, <1>3, <1>4, <1>5, <1>6, <1>7, Zenon DEF Next

(* The invariant holds in every reachable state.                           *)
LEMMA BatchInvHolds == Spec => []BatchInv
<1>1. Init => BatchInv
  BY BatchInvInit, Zenon
<1>2. BatchInv /\ [Next]_vars => BatchInv'
  BY BatchInvStep, Zenon
<1> QED BY <1>1, <1>2, PTL DEF Spec

(* BatchesAreWhole: whatever calls run the same intents at the same time,  *)
(* fail half way and are tried again, the sink is given all of a batch or  *)
(* nothing of it, and a durable call that returned success has all of its  *)
(* intents written.                                                        *)
THEOREM BatchesStayWhole == Spec => []BatchesAreWhole
<1>1. BatchInv => BatchesAreWhole
  <2> SUFFICES ASSUME BatchInv PROVE TypeOK
    BY Zenon DEF BatchInv, BatchesAreWhole
  <2>1. ASSUME NEW c \in Callers
        PROVE  /\ job[c].route \in Routes /\ \A i \in IntentsOf(job[c]) : i.part \in Parts
               /\ todo[c] \subseteq DOMAIN job[c].intents
    <3>1. CallInvOf(c)
      BY Zenon DEF BatchInv, CallInv
    <3>2. CASE job[c] = NoJob
      <4>1. job[c].route = "batch" /\ job[c].intents = <<>>
        BY <3>2 DEF NoJob
      <4>2. IntentsOf(job[c]) = {}
        BY <4>1 DEF IntentsOf
      <4> QED BY <3>1, <4>1, <4>2, Zenon DEF Routes, CallInvOf
    <3>3. CASE IsJob(job[c])
      <4>1. PICK j \in Jobs : job[c].route = j.route /\ job[c].intents = j.intents
        BY <3>3, Zenon DEF IsJob
      <4>2. IntentsOf(job[c]) = IntentsOf(j)
        BY <4>1, Zenon DEF IntentsOf
      <4> QED BY <3>1, <4>1, <4>2, JobsAssumption, Zenon DEF CallInvOf
    <3> QED BY <3>1, <3>2, <3>3, Zenon DEF CallInvOf
  <2> QED BY <2>1, Zenon DEF BatchInv, TypeInv, TypeOK
<1> QED BY <1>1, BatchInvHolds, PTL

(* PlanningClaimsNothing: a claim appears or changes only in the step in   *)
(* which a durable call runs that intent; calls that plan leave the intent *)
(* store as it was.                                                        *)
THEOREM PlansClaimNothing == Spec => PlanningClaimsNothing
<1> DEFINE Claimed == \A k \in Keys : claims[k] # claims'[k] =>
               \E c \in Callers : job[c].durable /\ k \in {KeyAt(c, n) : n \in todo[c] \ todo'[c]}
<1>1. BatchInv /\ [Next]_vars => [Claimed]_vars
  <2> SUFFICES ASSUME BatchInv, Next, NEW k \in Keys, claims[k] # claims'[k]
               PROVE  \E c \in Callers :
                         job[c].durable /\ k \in {KeyAt(c, n) : n \in todo[c] \ todo'[c]}
    BY Zenon
  <2>1. PICK c \in Callers : \E n \in todo[c] : Run(c, n)
    <3>1. PICK c \in Callers :
             \/ \E j \in Jobs, p \in Payloads, durable \in BOOLEAN : Submit(c, j, p, durable)
             \/ \E n \in todo[c] : Lookup(c, n)
             \/ \E n \in todo[c] : Run(c, n)
             \/ LegFails(c) \/ Validate(c) \/ Persist(c) \/ PersistFails(c)
      BY Zenon DEF Next
    <3>2. \A j \in Jobs, p \in Payloads, durable \in BOOLEAN :
             Submit(c, j, p, durable) => claims' = claims
      BY Zenon DEF Submit
    <3>3. \A n \in todo[c] : Lookup(c, n) => claims' = claims
      BY Zenon DEF Lookup
    <3>4. LegFails(c) \/ Validate(c) \/ Persist(c) \/ PersistFails(c) => claims' = claims
      BY Zenon DEF LegFails, Validate, Persist, PersistFails
    <3> QED BY <3>1, <3>2, <3>3, <3>4, Zenon
  <2>2. PICK n \in todo[c] : Run(c, n)
    BY <2>1, Zenon
  <2>3. /\ job[c].durable /\ claims' = [claims EXCEPT ![KeyAt(c, n)] = job[c].payload]
        /\ NextLeg(c, n)
    BY <2>2, Zenon DEF Run
  <2>4. k = KeyAt(c, n)
    BY <2>3, Zenon DEF BatchInv, TypeInv
  <2>5. n \in todo[c] \ todo'[c]
    BY <2>2, <2>3, Zenon DEF NextLeg, BatchInv, TypeInv
  <2> QED BY <2>3, <2>4, <2>5, Zenon
<1> QED BY <1>1, BatchInvHolds, PTL DEF Spec, PlanningClaimsNothing
=============================================================================
