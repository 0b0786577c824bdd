---------------------------- MODULE TypedProfile ----------------------------
(***************************************************************************)
(* The ledger's own code for what the portable core does: the adapter      *)
(* TypedProfile of crates/statechronicle-profiles/src/custom.rs, which     *)
(* runs a consumer's profile in the pipeline and recomputes a committed    *)
(* transition, and the accumulator's keys and paths. The two sides share   *)
(* no code beyond the profile, and a device that runs the one must agree   *)
(* with the ledger that runs the other.                                    *)
(*                                                                         *)
(* BCS, which the ledger encodes with, is a library: a value has one       *)
(* encoding, and from_bytes gives back the value of an encoding.           *)
(***************************************************************************)
EXTENDS PortableCore

CONSTANTS MaxIntentBytes, EventSchema, PathKeys

Tree == INSTANCE StateTree WITH TreeDepth <- PathDepth, KeyBits <- PathKeys

BcsBool(value) == IF value THEN <<1>> ELSE <<0>>
BcsState ==
    [configuration |-> [s \in ConfigurationStates |-> LittleEndian(s.revision) \o BcsBool(s.enabled)],
     equipment |-> [s \in EquipmentStates |-> <<s.mode>> \o LittleEndian(s.cycles)]]
BcsCommand ==
    [configuration |-> [c \in ConfigurationCommands |-> <<c.kind>> \o BcsBool(c.enabled)],
     equipment |-> [c \in EquipmentCommands |-> <<c.kind>>]]
FromBytes(table, bytes) == {value \in DOMAIN table : table[value] = bytes}

(* canonicalize_and_digest of a custom state: the eighth variant of        *)
(* ResourceState, its domain, schema and payload.                          *)
DigestOf(state) ==
    Hash(UlebBytes(7) \o Prefixed(state.domain) \o LittleEndian(state.schema) \o Prefixed(state.payload))

(* StateKey::for_resource, for_subject_held: the bytes of a key.           *)
Named(tag, name) == <<tag>> \o LittleEndian(Len(name)) \o name
ForResourceBytes(tenant, resource) == Hash(Named(0, tenant) \o Named(1, resource))
ForSubjectHeldBytes(tenant, resource, subject) ==
    Hash(Named(0, tenant) \o Named(1, resource) \o Named(2, subject))
-----------------------------------------------------------------------------
(* The limit of bound, check_size, encode and BoundedBuffer.               *)
SizeLimit(p) == IF p.max < MaxIntentBytes THEN p.max ELSE MaxIntentBytes
CheckSize(p, size) == p.schema # 0 /\ p.max # 0 /\ size <= SizeLimit(p)

(* decode_state: the state, if it is one of this profile's.                *)
LedgerDecodeState(p, state) ==
    {value \in FromBytes(BcsState[p.name], state.payload) :
        /\ ValidDomain(p.domain) /\ state.domain = p.domain /\ state.schema = p.schema
        /\ CheckSize(p, Len(state.payload))
        /\ ValidateState(p, value)}

(* arguments: the command and the state an intent applies to.              *)
Arguments(p, current, intent) ==
    {[command |-> command, state |-> UNION {LedgerDecodeState(p, projection.state) : projection \in current}] :
        command \in {command \in FromBytes(BcsCommand[p.name], intent.command) :
            /\ intent.operation \in ToSet(Operations[p.name])
            /\ ValidDomain(intent.domain) /\ ValidDomain(p.domain)
            /\ intent.domain = p.domain /\ intent.schema = p.schema
            /\ CheckSize(p, Len(intent.command))
            /\ OperationOf(p, command) = intent.operation
            /\ \A projection \in current : LedgerDecodeState(p, projection.state) # {}}}

(* ProfileRules::apply of the adapter: the state after, or none.           *)
LedgerApply(p, current, intent) ==
    UNION {
        {[domain |-> p.domain, schema |-> p.schema, payload |-> BcsState[p.name][next]] :
            next \in {next \in ProfileApply(p, arguments.state, arguments.command) :
                /\ ProfileValidate(p, arguments.state, arguments.command)
                /\ ValidateState(p, next)
                /\ CheckSize(p, Len(BcsState[p.name][next]))}} :
        arguments \in Arguments(p, current, intent)}

(* verify_transition: does the event say what the intent did to the state? *)
VerifyTransition(p, current, intent, event) ==
    LET version == IF current = {} THEN 0 ELSE The(current).version
        after == The(LedgerApply(p, current, intent))
        before == IF current = {} THEN [after EXCEPT !.payload = <<>>] ELSE The(current).state
    IN /\ event.schema = EventSchema
       /\ event.scope = intent.scope /\ event.operation = intent.operation
       /\ current # {} => version # 0
       /\ intent.expected_version = version /\ event.before.version = version
       /\ version < MaxVersion /\ event.after.version = version + 1
       /\ LedgerApply(p, current, intent) # {}
       /\ \A projection \in current :
             projection.scope = intent.scope /\ DigestOf(projection.state) = projection.state_hash
       /\ event.before.state = before /\ event.after.state = after
       /\ DigestOf(before) = event.before.state_hash /\ DigestOf(after) = event.after.state_hash
-----------------------------------------------------------------------------
(* Agreement *)

(* The ledger's form of a request of the portable core, in one scope.      *)
IntentOf(request) ==
    [scope |-> "scope", domain |-> request.domain, schema |-> request.schema,
     expected_version |-> request.expected_version, operation |-> request.operation,
     command |-> request.command]
StateOf(encoded) == [domain |-> encoded.domain, schema |-> encoded.schema, payload |-> encoded.payload]
ProjectionsOf(request) ==
    {[scope |-> "scope", version |-> encoded.version, state |-> StateOf(encoded),
      state_hash |-> CustomStateHash(encoded.domain, encoded.schema, encoded.payload)] :
        encoded \in request.current}

(* The event a device would report for what execute answered.              *)
EventOf(p, request, result) ==
    LET after == [domain |-> p.domain, schema |-> p.schema, payload |-> result.payload]
        before == IF request.current = {} THEN [after EXCEPT !.payload = <<>>]
                  ELSE StateOf(The(request.current))
        side(state, version, hash) == [state |-> state, version |-> version, state_hash |-> hash]
    IN [schema |-> EventSchema, scope |-> "scope", operation |-> request.operation,
        before |-> side(before, request.expected_version,
                        CustomStateHash(before.domain, before.schema, before.payload)),
        after |-> side(after, result.version, result.state_hash)]

(* An event that says something else.                                      *)
Altered(event) ==
    {[event EXCEPT !.schema = "other"], [event EXCEPT !.scope = "other"],
     [event EXCEPT !.operation = "other"],
     [event EXCEPT !.before.version = @ + 1], [event EXCEPT !.after.version = @ + 1],
     [event EXCEPT !.before.state_hash = event.after.state_hash],
     [event EXCEPT !.after.state_hash = event.before.state_hash],
     [event EXCEPT !.after.state.payload = Append(@, 0)],
     [event EXCEPT !.before.state.schema = @ + 1]}

(* execute succeeds on exactly the requests whose transition the ledger    *)
(* verifies, with the ledger's state, version and hash; a smaller buffer   *)
(* makes it fail, and never answer something else.                         *)
RunnersAgree(p, request, sizes) ==
    LET intent == IntentOf(request)
        current == ProjectionsOf(request)
        after == LedgerApply(p, current, intent)
        fits == request.expected_version = (IF current = {} THEN 0 ELSE The(current).version)
                /\ request.expected_version < MaxVersion
                /\ \A projection \in current : projection.version # 0
        results(outputs) == {Execute(p, request, output, scratch) : output, scratch \in outputs}
    IN p.max <= MaxIntentBytes => \A result \in results({MaxIntentBytes}) :
       /\ result.error = Ok <=> after # {} /\ fits
       /\ result.error = Ok => \A event \in {EventOf(p, request, result)} :
             /\ The(after).payload = result.payload
             /\ \A other \in {event} \cup Altered(event) :
                   VerifyTransition(p, current, intent, other) <=> other = event
       /\ \A small \in results(sizes) : small = result \/ small.error = "Codec"

(* The hash binds the whole envelope and is the ledger's; a key binds the  *)
(* names it is made from, and the key of a resource is no holder's.        *)
HashesAgree(domains, schemas, payloads, names) ==
    /\ \A d1, d2 \in domains, s1, s2 \in schemas, p1, p2 \in payloads :
          LET mine == CustomStateHash(d1, s1, p1) IN
          /\ mine = DigestOf([domain |-> d1, schema |-> s1, payload |-> p1])
          /\ mine = CustomStateHash(d2, s2, p2) => <<d1, s1, p1>> = <<d2, s2, p2>>
    /\ \A t1, r1, t2, r2 \in names :
          /\ ResourceKey(t1, r1) = ForResourceBytes(t1, r1)
          /\ ResourceKey(t1, r1) = ResourceKey(t2, r2) => <<t1, r1>> = <<t2, r2>>
          /\ \A subject \in names : ResourceKey(t1, r1) # ForSubjectHeldBytes(t2, r2, subject)

(* The steps of a proof as the core takes them, and sequences that are not *)
(* a proof: out of order, repeated, one missing, one a level too high.     *)
StepsOf(proof) == SetToSortSeq(proof.steps, LAMBDA a, b : a.level < b.level)
Misshapen(steps) ==
    {Reverse(steps), steps \o steps, SubSeq(steps, 2, Len(steps)),
     [i \in DOMAIN steps |-> [steps[i] EXCEPT !.level = @ + 1]]}

(* The core accepts the accumulator's proofs, and no sequence of steps     *)
(* makes it accept a state that is not in the tree, or the absence of one  *)
(* that is.                                                                *)
PathsAgree(leaves, key, digests) ==
    LET root == Tree!Root(leaves)
        bits == PathBits(key)
        held == bits \in DOMAIN leaves
        proof == IF held THEN Tree!ProveInclusion(leaves, bits)
                 ELSE Tree!ProveNonMembership(leaves, bits)
        steps == StepsOf(proof)
    IN /\ IF held THEN PortableInclusion(root, key, leaves[bits], steps)
          ELSE PortableNonMembership(root, key, steps)
       /\ \A other \in Misshapen(steps) \cup {steps} :
             /\ \A digest \in digests :
                   PortableInclusion(root, key, digest, other) => held /\ leaves[bits] = digest
             /\ PortableNonMembership(root, key, other) => ~held
=============================================================================
