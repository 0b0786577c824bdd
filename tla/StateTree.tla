----------------------------- MODULE StateTree -----------------------------
(***************************************************************************)
(* The Merkle trees of crates/statechronicle-accumulator, the event tree   *)
(* of crates/statechronicle-commit/src/roots.rs and the conversion between *)
(* a path and its wire form of crates/statechronicle-proof/src/            *)
(* inclusion.rs.                                                           *)
(*                                                                         *)
(* A hash is the term that was hashed: two hashes are equal when the same  *)
(* bytes went in, which is what the domain tags and the length prefixes of *)
(* the code are for. A key is its sequence of bits, from the root down;    *)
(* TreeDepth stands for the 256 of the code.                               *)
(***************************************************************************)
EXTENDS Naturals, Sequences, FiniteSets, SequencesExt

CONSTANTS TreeDepth,
          KeyBits    \* the bits of the key hashed from a row's identifiers

ASSUME TreeDepthAssumption == TreeDepth \in Nat \ {0}

(* SHA-256 images of different rows differ and have TreeDepth bits.        *)
ASSUME KeyBitsAssumption ==
    /\ \A row \in DOMAIN KeyBits : KeyBits[row] \in [1..TreeDepth -> {0, 1}]
    /\ \A r1, r2 \in DOMAIN KeyBits : KeyBits[r1] = KeyBits[r2] => r1 = r2

ForResource(tenant, resource) == KeyBits[<<tenant, resource>>]
ForSubjectHeld(tenant, resource, subject) == KeyBits[<<tenant, resource, subject>>]
BitAt(key, position) == key[position + 1] = 1

Digest(value) == <<"sha256", value>>
NodeOf(tag, left, right) == <<tag, left, right>>
InternalHash(left, right) == NodeOf("internal", left, right)
LeafHash(key, digest) == <<"leaf", key, digest>>
EmptyLeafHash == LeafHash([i \in 1..TreeDepth |-> 0], <<"zeros">>)

(* DEFAULT_SUBTREE_HASHES, default_hash: the hash of the empty subtree of  *)
(* every height.                                                           *)
DefaultHash[level \in 0..TreeDepth] ==
    IF level = 0 THEN EmptyLeafHash
    ELSE LET below == DefaultHash[level - 1] IN InternalHash(below, below)

-----------------------------------------------------------------------------
(* StateAccumulator: the leaves, a function from keys to state digests.    *)

(* insert_batch: the later of two updates of a key wins.                   *)
InsertBatch(leaves, updates) ==
    FoldLeft(LAMBDA acc, update : (update.key :> update.state_digest) @@ acc, leaves, updates)

EmptyAccumulator == [key \in {} |-> {}]

(* split_at: the keys of a subtree whose next bit is set, and the others.  *)
Side(keys, height, bit) == {key \in keys : BitAt(key, TreeDepth - height) = bit}

(* node_hash, of the subtree of a height that holds the given keys.        *)
NodeHash(leaves, subtree, height) ==
    LET hash[h \in 0..TreeDepth, keys \in SUBSET subtree] ==
            IF keys = {} THEN DefaultHash[h]
            ELSE IF h = 0
            THEN LET key == CHOOSE k \in keys : TRUE IN LeafHash(key, leaves[key])
            ELSE InternalHash(hash[h - 1, Side(keys, h, FALSE)],
                              hash[h - 1, Side(keys, h, TRUE)])
    IN hash[height, subtree]

Root(leaves) == NodeHash(leaves, DOMAIN leaves, TreeDepth)
EmptyRoot == DefaultHash[TreeDepth]

(* collect_steps: the sibling of the path at every level it is passed,     *)
(* unless the verifier would fill it in itself.                            *)
CollectSteps(leaves, key) ==
    LET onPath(level) ==
            {k \in DOMAIN leaves : \A p \in 0..(TreeDepth - level - 2) :
                                        BitAt(k, p) = BitAt(key, p)}
        sibling(level) ==
            NodeHash(leaves,
                     Side(onPath(level), level + 1, ~BitAt(key, TreeDepth - level - 1)),
                     level)
    IN {step \in {[level |-> l, sibling |-> sibling(l)] : l \in 0..(TreeDepth - 1)} :
            step.sibling # DefaultHash[step.level]}

ProveInclusion(leaves, key) ==
    [key |-> key, leaf_hash |-> LeafHash(key, leaves[key]),
     steps |-> CollectSteps(leaves, key)]

ProveNonMembership(leaves, key) ==
    [key |-> key, leaf_hash |-> EmptyLeafHash, steps |-> CollectSteps(leaves, key)]

(* verify_path: from the leaf up, with the default sibling at a level the  *)
(* proof has no step for.                                                  *)
VerifyPath(root, proof) ==
    LET siblingAt(level) ==
            IF \E step \in proof.steps : step.level = level
            THEN (CHOOSE step \in proof.steps : step.level = level).sibling
            ELSE DefaultHash[level]
        acc[level \in 0..TreeDepth] ==
            IF level = 0 THEN proof.leaf_hash
            ELSE IF BitAt(proof.key, TreeDepth - level)
            THEN InternalHash(siblingAt(level - 1), acc[level - 1])
            ELSE InternalHash(acc[level - 1], siblingAt(level - 1))
    IN acc[TreeDepth] = root

-----------------------------------------------------------------------------
(* The wire form: one sibling for every level, in order.                   *)

(* sparse_proof_from_inclusion, sparse_proof_from_non_membership           *)
DensePath(proof) ==
    [path |-> [i \in 1..TreeDepth |->
                  IF \E step \in proof.steps : step.level = i - 1
                  THEN (CHOOSE step \in proof.steps : step.level = i - 1).sibling
                  ELSE DefaultHash[i - 1]],
     leaf_hash |-> proof.leaf_hash]

WellFormedPath(sparse) == Len(sparse.path) = TreeDepth

StepsFromSparseProof(sparse) ==
    {[level |-> i - 1, sibling |-> sparse.path[i]] :
        i \in {i \in 1..TreeDepth : sparse.path[i] # DefaultHash[i - 1]}}

-----------------------------------------------------------------------------
(* The trees of events and of tenant roots: built pairwise from the        *)
(* leaves, the last node of an odd level paired with itself. Each tree has *)
(* the tag of its inner nodes.                                             *)

NextLevel(nodes, tag) ==
    [i \in 1..((Len(nodes) + 1) \div 2) |->
        NodeOf(tag, nodes[2 * i - 1],
               IF 2 * i <= Len(nodes) THEN nodes[2 * i] ELSE nodes[2 * i - 1])]

(* All levels, from the leaves up; the leaves of a level this small need   *)
(* no more than Len(leaves) of them.                                       *)
BuildLevels(leaves, tag) ==
    LET level[n \in 1..Len(leaves)] ==
            IF n = 1 THEN leaves ELSE NextLevel(level[n - 1], tag)
        last == CHOOSE n \in 1..Len(leaves) :
                    Len(level[n]) = 1 /\ \A m \in 1..(n - 1) : Len(level[m]) > 1
    IN [n \in 1..last |-> level[n]]

EventLeafHash(event) == <<"leaf", Digest(event)>>

EventRoot(events) ==
    Last(BuildLevels([i \in DOMAIN events |-> EventLeafHash(events[i])], "internal"))[1]

CheckpointLeaf(tenant, root) == <<"checkpoint_leaf", tenant, root>>
CheckpointInternal(left, right) == NodeOf("checkpoint_internal", left, right)

(* CheckpointRoot::from_tenant_roots, of the entries in the order of their *)
(* tenants; an empty set or a repeated tenant is an error.                 *)
WellFormedRoots(entries) ==
    entries # <<>> /\ \A i, j \in DOMAIN entries :
                          entries[i].tenant = entries[j].tenant => i = j

FromTenantRoots(entries) ==
    LET sorted == SortSeq(entries, LAMBDA a, b : a.tenant < b.tenant)
        levels == BuildLevels([i \in DOMAIN sorted |->
                                  CheckpointLeaf(sorted[i].tenant, sorted[i].root)],
                              "checkpoint_internal")
    IN [root |-> Last(levels)[1], entries |-> sorted, levels |-> levels]

(* The sibling of a node: its right neighbour, or itself at the end of an  *)
(* odd level, and its left neighbour.                                      *)
SiblingIndex(index, length) ==
    IF index % 2 = 1 THEN index - 1
    ELSE IF index + 1 < length THEN index + 1 ELSE index

ProveTenantRoot(checkpoint, tenant) ==
    LET index == (CHOOSE i \in DOMAIN checkpoint.entries :
                      checkpoint.entries[i].tenant = tenant) - 1
        levels == checkpoint.levels
    IN [tenant |-> tenant, tenant_root |-> checkpoint.entries[index + 1].root,
        index |-> index,
        steps |-> [l \in 1..(Len(levels) - 1) |->
                      levels[l][SiblingIndex(index \div 2 ^ (l - 1), Len(levels[l])) + 1]]]

VerifyTenantRoot(root, proof) ==
    LET acc[l \in 0..Len(proof.steps)] ==
            IF l = 0 THEN CheckpointLeaf(proof.tenant, proof.tenant_root)
            ELSE IF (proof.index \div 2 ^ (l - 1)) % 2 = 0
            THEN CheckpointInternal(acc[l - 1], proof.steps[l])
            ELSE CheckpointInternal(proof.steps[l], acc[l - 1])
    IN acc[Len(proof.steps)] = root
=============================================================================
