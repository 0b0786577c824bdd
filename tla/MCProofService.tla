--------------------------- MODULE MCProofService ---------------------------
(***************************************************************************)
(* Three tenants. The first has an asset (resource 1), which has an owner, *)
(* and a balance of a currency (resource 2); the second has two balances   *)
(* of one currency; the third has nothing, so that its root is that of the *)
(* empty tree. Trees have four slots. Batches are of one, two and three    *)
(* events: of two versions of one row, of two holders of one resource at   *)
(* one version, and of two resources.                                      *)
(*                                                                         *)
(* For the portable core a byte has four bits and an integer two bytes.    *)
(* Profiles are well formed and with a limit too small for their states,   *)
(* and with every fault execute looks for; requests have commands and      *)
(* states that are no encodings, and versions and names that do not match. *)
(***************************************************************************)
EXTENDS ProofService, TypedProfile

CONSTANTS E1, E2

Asset == [resource |-> 1, subject |-> 0]
Balance(holder) == [resource |-> 2, subject |-> holder]

MCExecutors == {E1, E2}
MCTenants == 1..3
MCRows == <<{Asset, Balance(1)}, {Balance(1), Balance(2)}, {}>>
MCSymmetry == Permutations(MCExecutors)
Own(row, owner) == [row |-> row, after |-> [owner |-> owner]]
Hold(holder) == [row |-> Balance(holder), after |-> [subject |-> holder, amount |-> 5]]
MCPlans ==
    <<{<<Own(Asset, 1)>>, <<Own(Asset, 1), Own(Asset, 2), Hold(1)>>},
      {<<Hold(1), Hold(2)>>}, {}>>
MCKeyBits ==
    (<<1, 1>> :> <<0, 1>>) @@ (<<1, 2, 1>> :> <<1, 1>>) @@
    (<<2, 2, 1>> :> <<0, 0>>) @@ (<<2, 2, 2>> :> <<1, 0>>)

-----------------------------------------------------------------------------
MCPathKeys == [row \in {} |-> {}]

Profile(name, domain, schema, max) ==
    [name |-> name, domain |-> domain, schema |-> schema, max |-> max]
WellFormed == {Profile("configuration", <<9, 10>>, 1, 3), Profile("equipment", <<9>>, 2, 3)}
Profiles ==
    WellFormed \cup {Profile("equipment", <<9>>, 1, 2), Profile("equipment", <<9>>, 0, 3),
                    Profile("equipment", <<9>>, 1, 0)}
    \cup {Profile("configuration", domain, 1, 3) : domain \in {<<>>, <<9, ControlByte>>, <<9, 9, 9, 9>>}}

Strings(alphabet, length) == UNION {[1 .. n -> alphabet] : n \in 0 .. length}
MCCommands == {<<0, 1>>, <<1, 0>>, <<1, 2>>, <<8, 0>>, <<8, 0, 1>>, <<2, 1>>, <<5>>}
    \cup {<<kind>> : kind \in 0 .. 4}
MCPayloads == Strings({0, 1, 2}, 3) \cup
    {<<15, 15, 1>>, <<14, 15, 0>>, <<0, 15, 15>>, <<3, 1, 0>>, <<1, 1, 0, 0>>, <<8, 1, 0>>}

Encoded(p, version, payload) ==
    [domain |-> p.domain, schema |-> p.schema, version |-> version, payload |-> payload]
Request(p, operation, command, current) ==
    [domain |-> p.domain, schema |-> p.schema, operation |-> operation, command |-> command,
     expected_version |-> IF current = {} THEN 0 ELSE The(current).version, current |-> current]
Requests(p) ==
    LET request(command, current) ==
            {Request(p, operation, command, current) : operation \in ToSet(Operations[p.name])}
        base == UNION {request(command, {Encoded(p, 1, payload)}) :
                        command \in MCCommands, payload \in {<<1, 0, 1>>, <<0, 1, 0>>}}
    IN UNION {request(command, {}) : command \in MCCommands}
       \cup UNION {request(command, {Encoded(p, 1, payload)}) :
                       command \in {<<1, 0>>, <<1>>, <<2>>, <<3>>, <<4>>}, payload \in MCPayloads}
       \cup base
       \cup UNION {{[r EXCEPT !.expected_version = 0], [r EXCEPT !.schema = @ + 1],
                     [r EXCEPT !.domain = <<10>>], [r EXCEPT !.operation = "other"]} : r \in base}
       \cup UNION {{[r EXCEPT !.current = {Encoded(p, version, payload)}, !.expected_version = version]
                        : version \in {0, MaxVersion - 1, MaxVersion}, payload \in {<<1, 0, 1>>, <<0, 1, 0>>}}
                    : r \in base}
       \cup {[r EXCEPT !.current = {[Encoded(p, 1, <<1, 0, 1>>) EXCEPT !.domain = <<10>>]}] : r \in base}

PathTrees ==
    LET keys == {<<0, 0, 0, 0>>, <<0, 0, 0, 1>>, <<0, 1, 1, 0>>, <<1, 0, 0, 1>>, <<1, 1, 1, 1>>}
    IN UNION {[some -> {<<"d1">>, <<"d2">>}] : some \in SUBSET keys}

CoreAgrees ==
    /\ CodecIsCanonical(Strings({0, 1, 4, 8, 9, 15}, 4), 0 .. 5)
    /\ \A p \in Profiles : \A request \in Requests(p) : RunnersAgree(p, request, {0, 2, 3})
    /\ HashesAgree({<<9>>, <<9, 1>>, <<9, 1, 0>>}, {0, 1}, Strings({0, 1, 9}, 2), Strings({0, 1, 2}, 1))
    /\ \A leaves \in PathTrees, high, low \in 0 .. 3 :
          PathsAgree(leaves, <<high, low>>, {<<"d1">>, <<"d2">>, <<"d3">>})

(* The core on a device, for keys of the length of the chain's trees.      *)
Device == INSTANCE PortableCore WITH PathDepth <- TreeDepth, KeyByteBits <- 1

(* A device that has the root of a stored commit accepts the ledger's      *)
(* proof of a row for the state the row had then, and for no state it had  *)
(* in another commit.                                                      *)
DeviceFollows ==
    \A s \in store : LET body == s.signed.body  root == body.next_state_root
                         t == body.tenant  leaves == LeavesAt(body)
        IN \A row \in Rows[t] :
              LET key == RowKey(t, row)  state == StateAt(body, row)
                  inclusion(claimed) ==
                      Device!PortableInclusion(root, key, Digest(claimed),
                                               StepsOf(ProveInclusion(leaves, key)))
              IN IF state = None
                 THEN Device!PortableNonMembership(root, key, StepsOf(ProveNonMembership(leaves, key)))
                 ELSE \A r \in store : r.signed.body.tenant = t =>
                         (inclusion(StateAt(r.signed.body, row)) <=> StateAt(r.signed.body, row) = state)

(* A device that runs the portable core agrees with the ledger: what it    *)
(* encodes and decodes is canonical; execute succeeds on exactly the       *)
(* transitions verify_transition accepts, with the same state, version and *)
(* hash, whatever the size of its buffers; and it accepts the paths of the *)
(* accumulator's proofs, and none for a state the tree does not hold: of   *)
(* trees of every shape, and of those of the commits stored so far. What   *)
(* does not depend on the chain is looked at before it begins.             *)
PortableAgrees == (Init => CoreAgrees) /\ DeviceFollows
=============================================================================
