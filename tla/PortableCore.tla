---------------------------- MODULE PortableCore ----------------------------
(***************************************************************************)
(* The allocation-free core of crates/statechronicle-portable, which runs  *)
(* a consumer's profile and checks proofs away from the ledger. Its        *)
(* profiles are the two of statechronicle/examples/common/domains.rs.      *)
(*                                                                         *)
(* A string is its sequence of bytes, an optional value a set of at most   *)
(* one, a hash the bytes that were hashed.                                 *)
(***************************************************************************)
EXTENDS PortableCodec

CONSTANTS DomainLength,    \* MAX_ID_LENGTH, the 128 of execute
          ControlByte,     \* a control character
          MaxVersion,      \* u64::MAX
          PathDepth,       \* the 256 levels of a path
          KeyByteBits      \* the 8 bits of a byte of a key

The(option) == CHOOSE x \in option : TRUE

Hash(bytes) == <<"sha256", bytes>>
-----------------------------------------------------------------------------
(* The profiles: configuration has a revision and a switch, equipment a    *)
(* mode and a number of cycles. A command is its discriminator, and the    *)
(* value of the switch.                                                    *)

Idle == 0
Running == 1
Failed == 2

Operations ==
    [configuration |-> <<"configuration.create", "configuration.set_enabled">>,
     equipment |-> <<"equipment.install", "equipment.start", "equipment.stop",
                     "equipment.fail", "equipment.recover">>]

ConfigurationStates == [revision : Int32, enabled : BOOLEAN]
EquipmentStates == [mode : {Idle, Running, Failed}, cycles : Int32]
ConfigurationCommands == [kind : 0 .. 1, enabled : BOOLEAN]
EquipmentCommands == [kind : 0 .. 4]

EncodeState(p, state, out) ==
    IF p.name = "configuration" THEN Boolean(U32(out, state.revision), state.enabled)
    ELSE U32(Uleb(out, state.mode), state.cycles)

DecodeState(p, in) ==
    IF p.name = "configuration"
    THEN LET revision == TakeU32(in)  enabled == TakeBoolean(revision)
         IN Yield(enabled, [revision |-> revision.value, enabled |-> enabled.value])
    ELSE LET mode == TakeUleb(in)  cycles == TakeU32(mode)
         IN IF mode.error = Ok /\ mode.value > Failed THEN Stop(mode, "NonCanonical")
            ELSE Yield(cycles, [mode |-> mode.value, cycles |-> cycles.value])

EncodeCommand(p, command, out) ==
    IF p.name = "configuration" THEN Boolean(Uleb(out, command.kind), command.enabled)
    ELSE Uleb(out, command.kind)

DecodeCommand(p, in) ==
    LET kind == TakeUleb(in)  enabled == TakeBoolean(kind)
    IN IF kind.error = Ok /\ kind.value >= Len(Operations[p.name]) THEN Stop(kind, "NonCanonical")
       ELSE IF p.name = "configuration"
       THEN Yield(enabled, [kind |-> kind.value, enabled |-> enabled.value])
       ELSE Yield(kind, [kind |-> kind.value])

OperationOf(p, command) == Operations[p.name][command.kind + 1]

ProfileValidate(p, current, command) ==
    IF p.name = "configuration" THEN (current = {}) <=> (command.kind = 0)
    ELSE <<{state.mode : state \in current}, command.kind>> \in
             {<<{}, 0>>, <<{Idle}, 1>>, <<{Running}, 2>>, <<{Running}, 3>>, <<{Failed}, 4>>}

ValidateState(p, state) ==
    IF p.name = "configuration" THEN state.revision # 0
    ELSE state.mode = Idle \/ state.cycles # 0

(* apply: a counter that would overflow is an error.                       *)
ProfileApply(p, current, command) ==
    LET count == IF current = {} THEN 0
                 ELSE IF p.name = "configuration" THEN The(current).revision
                 ELSE The(current).cycles
        counts == p.name = "configuration" \/ command.kind = 1
        next == IF counts THEN count + 1 ELSE count
    IN IF ~ProfileValidate(p, current, command) \/ next \notin Int32 THEN {}
       ELSE IF p.name = "configuration" THEN {[revision |-> next, enabled |-> command.enabled]}
       ELSE {[mode |-> <<Idle, Running, Idle, Failed, Idle>>[command.kind + 1], cycles |-> next]}

(* The checks of execute and of ProfileId::new on a domain.                *)
ValidDomain(domain) ==
    domain # <<>> /\ Len(domain) <= DomainLength /\ ControlByte \notin ToSet(domain)
-----------------------------------------------------------------------------
(* integrity.rs, transition.rs *)

Prefixed(bytes) == UlebBytes(Len(bytes)) \o bytes

(* custom_state_hash: the bytes of the tagged envelope, hashed piecewise.  *)
CustomStateHash(domain, schema, payload) ==
    Hash(<<7>> \o Prefixed(domain) \o LittleEndian(schema) \o Prefixed(payload))

Decode(p, form, in) == IF form = "state" THEN DecodeState(p, in) ELSE DecodeCommand(p, in)
Encode(p, form, value, out) ==
    IF form = "state" THEN EncodeState(p, value, out) ELSE EncodeCommand(p, value, out)

Reencoded(p, form, in, bytes, out) ==
    LET again == Encode(p, form, in.value, out) IN
    IF in.error # Ok THEN in
    ELSE IF again.error # Ok THEN Stop(in, again.error)
    ELSE IF again.written # bytes THEN Stop(in, "NonCanonical") ELSE in

(* decode_canonical: what is decoded must encode to the bytes it came from *)
(* within the scratch buffer. The form is that of a state or of a command. *)
DecodeCanonical(p, form, bytes, scratch) ==
    IF Len(bytes) > p.max THEN Stop(NewDecoder(bytes), "Capacity")
    ELSE Reencoded(p, form, Finish(Decode(p, form, NewDecoder(bytes))), bytes,
                   NewEncoder(IF scratch < p.max THEN scratch ELSE p.max))

Refused(error) == [error |-> error]

(* Variant: the payload may fill the output buffer, whatever the profile   *)
(* allows.                                                                 *)
OutputRoomAll(p, output) == output

OutputRoom(p, output) == IF output < p.max THEN output ELSE p.max

(* The end of execute: reduce, validate, encode into the output, hash.     *)
Reduce(p, current, version, command, output) ==
    LET next == ProfileApply(p, current, command)
        out == EncodeState(p, The(next), NewEncoder(OutputRoom(p, output)))
    IN IF ~ProfileValidate(p, current, command) \/ next = {} \/ ~ValidateState(p, The(next))
       THEN Refused("Domain")
       ELSE IF out.error # Ok THEN Refused("Codec")
       ELSE [error |-> Ok, version |-> version, payload |-> out.written,
             state_hash |-> CustomStateHash(p.domain, p.schema, out.written)]

ExecuteDecoded(p, request, command, state, output) ==
    LET held == The(request.current)
        before == IF request.current = {} THEN 0 ELSE held.version
        reduce(current) == Reduce(p, current, before + 1, command.value, output)
    IN IF \/ ~ValidDomain(p.domain) \/ p.schema = 0 \/ p.max = 0
          \/ request.domain # p.domain \/ request.schema # p.schema THEN Refused("Identity")
       ELSE IF \/ before # request.expected_version
               \/ request.current # {} /\ before = 0
               \/ before = MaxVersion THEN Refused("Version")
       ELSE IF command.error # Ok THEN Refused("Codec")
       ELSE IF OperationOf(p, command.value) # request.operation THEN Refused("Operation")
       ELSE IF request.current = {} THEN reduce({})
       ELSE IF held.domain # p.domain \/ held.schema # p.schema THEN Refused("Identity")
       ELSE IF state.error # Ok THEN Refused("Codec")
       ELSE IF ~ValidateState(p, state.value) THEN Refused("Domain")
       ELSE reduce({state.value})

Execute(p, request, output, scratch) ==
    ExecuteDecoded(p, request, DecodeCanonical(p, "command", request.command, scratch),
                   DecodeCanonical(p, "state", The(request.current).payload, scratch), output)
-----------------------------------------------------------------------------
(* integrity.rs: keys and paths *)

(* resource_key: the bytes hashed for a resource, lengths before names.    *)
ResourceKey(tenant, resource) ==
    Hash(<<0>> \o LittleEndian(Len(tenant)) \o tenant
         \o <<1>> \o LittleEndian(Len(resource)) \o resource)

(* node_hash with the tag of a leaf or of an inner node. The bits of a key *)
(* are those of its bytes, the highest of a byte first.                    *)
PathNode(tag, left, right) == <<tag, left, right>>
PathBits(bytes) ==
    [i \in 1 .. PathDepth |->
        (bytes[(i - 1) \div KeyByteBits + 1] \div 2 ^ (KeyByteBits - 1 - ((i - 1) % KeyByteBits))) % 2]
EmptyNode == PathNode("leaf", [i \in 1 .. PathDepth |-> 0], <<"zeros">>)

Ordered(steps) == \A i \in 1 .. Len(steps) - 1 : steps[i].level < steps[i + 1].level

(* verify_path: the hash of each level, the default hash beside it and the *)
(* steps not used yet.                                                     *)
VerifyPortablePath(root, key, leaf, steps) ==
    LET walk[level \in 0 .. PathDepth] ==
            IF level = 0 THEN [current |-> leaf, default |-> EmptyNode, path |-> steps]
            ELSE LET below == walk[level - 1]
                     used == below.path # <<>> /\ below.path[1].level = level - 1
                     sibling == IF used THEN below.path[1].sibling ELSE below.default
                     byte == key[(PathDepth - level) \div KeyByteBits + 1]
                     right == (byte \div 2 ^ ((level - 1) % KeyByteBits)) % 2 = 1
                 IN [current |-> IF right THEN PathNode("internal", sibling, below.current)
                                 ELSE PathNode("internal", below.current, sibling),
                     default |-> PathNode("internal", below.default, below.default),
                     path |-> IF used THEN Tail(below.path) ELSE below.path]
    IN /\ Len(steps) <= PathDepth /\ Ordered(steps)
       /\ walk[PathDepth].path = <<>> /\ walk[PathDepth].current = root

PortableInclusion(root, key, state, steps) ==
    VerifyPortablePath(root, key, PathNode("leaf", PathBits(key), state), steps)

PortableNonMembership(root, key, steps) == VerifyPortablePath(root, key, EmptyNode, steps)
=============================================================================
