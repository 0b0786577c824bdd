---------------------------- MODULE ProofService ----------------------------
(***************************************************************************)
(* The proofs of crates/statechronicle-proof over the chains of            *)
(* CommitChain: bundles are assembled (bundle.rs) from a projection, a     *)
(* signed commit and a path of the state tree, verified (verify.rs), and   *)
(* served against the canonical head (service.rs) while the chain grows.   *)
(*                                                                         *)
(* The assemblers take what their caller gives them: a projection, a       *)
(* commit and a path that are not of the same moment make a bundle too.    *)
(***************************************************************************)
EXTENDS CommitChain

-----------------------------------------------------------------------------
(* Assembly *)

(* derive_state_key: of the claimed state, as infer_state_key.             *)
DeriveStateKey(proof) ==
    IF "subject" \in DOMAIN proof.claimed_state
    THEN ForSubjectHeld(proof.tenant, proof.resource, proof.claimed_state.subject)
    ELSE ForResource(proof.tenant, proof.resource)

CommitRef(signed) ==
    [commit_id |-> signed.body.commit_id, sequence |-> signed.body.sequence,
     state_root |-> signed.body.next_state_root]

(* build_state_proof: the path must be one of the projection's state.      *)
StateProofFits(projection, inclusion, key) ==
    inclusion.leaf_hash = LeafHash(key, Digest(projection.state))

BuildStateProof(projection, signed, inclusion) ==
    [tenant |-> projection.tenant, resource |-> projection.resource,
     claimed_state |-> projection.state, commit |-> CommitRef(signed),
     sparse |-> DensePath(inclusion)]

BuildNonMembershipProof(tenant, key, signed, nonMembership) ==
    [tenant |-> tenant, claimed_key |-> key, commit |-> CommitRef(signed),
     sparse |-> DensePath(nonMembership)]

-----------------------------------------------------------------------------
(* Verification *)

VerifyCommitEnvelope(tenant, commit, signed, key) ==
    /\ signed.body.tenant = tenant
    /\ commit.commit_id = signed.body.commit_id
    /\ commit.sequence = signed.body.sequence
    /\ commit.state_root = signed.body.next_state_root
    /\ VerifyCommit(signed, key)

VerifySparseMerkle(root, key, sparse) ==
    /\ WellFormedPath(sparse)
    /\ VerifyPath(root, [key |-> key, leaf_hash |-> sparse.leaf_hash,
                         steps |-> StepsFromSparseProof(sparse)])

VerifyClaimedState(proof, key) ==
    LeafHash(key, Digest(proof.claimed_state)) = proof.sparse.leaf_hash

(* Variant: the path is checked against the root the bundle names.         *)
VerifyBundleOwnRoot(proof, signed, verifyingKey, key) ==
    /\ signed.body.tenant = proof.tenant
    /\ VerifyCommit(signed, verifyingKey)
    /\ VerifyClaimedState(proof, key)

VerifyBundle(proof, signed, verifyingKey, key) ==
    /\ VerifyCommitEnvelope(proof.tenant, proof.commit, signed, verifyingKey)
    /\ VerifySparseMerkle(signed.body.next_state_root, key, proof.sparse)
    /\ VerifyClaimedState(proof, key)

(* verify_non_membership_bundle, verify_non_membership: the slot of the    *)
(* key holds the empty leaf.                                               *)
VerifyNonMembership(bundle, signed, verifyingKey, key) ==
    /\ VerifyCommitEnvelope(bundle.tenant, bundle.commit, signed, verifyingKey)
    /\ bundle.claimed_key = key
    /\ bundle.sparse.leaf_hash = EmptyLeafHash
    /\ VerifySparseMerkle(signed.body.next_state_root, key, bundle.sparse)

-----------------------------------------------------------------------------
(* The state a commit stands for, from the events alone.                   *)

Parent(body) == CHOOSE c \in {s.signed.body : s \in store} : c.commit_id = body.parent
History(body) ==
    LET back[n \in 0..body.sequence] ==
            IF n = 0 THEN <<body>>
            ELSE LET later == back[n - 1]
                 IN IF later[1].parent = None THEN later ELSE <<Parent(later[1])>> \o later
    IN back[body.sequence]
EventsUpTo(body) == UNION {ToSet(EventsOf(c)) : c \in ToSet(History(body))}
StateAt(body, row) ==
    LET mine == {event \in EventsUpTo(body) : OnRow(row, event)}
    IN IF mine = {} THEN None
       ELSE (CHOOSE a \in mine : \A b \in mine : b.version <= a.version).after

(* The tree the composition root keeps for a commit.                       *)
LeavesAt(body) == InsertBatch(EmptyAccumulator, UpdatesOf(History(body)))
RowKey(t, row) ==
    IF row.subject = 0 THEN ForResource(t, row.resource)
    ELSE ForSubjectHeld(t, row.resource, row.subject)

-----------------------------------------------------------------------------
(* The service *)

(* A proof of a row's state, as the composition root assembles it.         *)
GenuineProof(signed, t, row) ==
    BuildStateProof([tenant |-> t, resource |-> row.resource,
                     state |-> StateAt(signed.body, row)],
                    signed, ProveInclusion(LeavesAt(signed.body), RowKey(t, row)))

(* Variant: a proof of any accepted commit is canonical.                   *)
EnsureCanonicalAccepted(tenant, signed) ==
    signed.body \in ToSet(chain[tenant])

(* ensure_canonical: the head is the commit, its sequence and its root.    *)
EnsureCanonical(tenant, signed) ==
    /\ Tip(tenant) # None
    /\ Tip(tenant).commit_id = signed.body.commit_id
    /\ Tip(tenant).sequence = signed.body.sequence
    /\ Tip(tenant).next_state_root = signed.body.next_state_root

CommitById(tenant, id) ==
    {s.signed : s \in {s \in store : s.signed.body.tenant = tenant /\ s.signed.body.commit_id = id}}

(* verify, verify_with_key: the bundle against the stored commit.          *)
Verify(proof, key) ==
    \E signed \in CommitById(proof.tenant, proof.commit.commit_id) :
        VerifyBundle(proof, signed, KeyOf(proof.tenant), key)

(* verify_canonical, verify_with_key_canonical: also against the head.     *)
VerifyCanonical(proof, key) ==
    \E signed \in CommitById(proof.tenant, proof.commit.commit_id) :
        /\ EnsureCanonical(proof.tenant, signed)
        /\ VerifyBundle(proof, signed, KeyOf(proof.tenant), key)

(* The service's verify_non_membership takes the key from the bundle.      *)
VerifyAbsence(bundle) ==
    \E signed \in CommitById(bundle.tenant, bundle.commit.commit_id) :
        VerifyNonMembership(bundle, signed, KeyOf(bundle.tenant), bundle.claimed_key)

-----------------------------------------------------------------------------
(* Global checkpoints (commit/src/checkpoint.rs) *)

(* A tenant is anchored with its tip: the root enters the checkpoint's     *)
(* Merkle root, the commit id stands beside it.                            *)
TenantRootEntry(t) ==
    [tenant |-> t, root |-> TipRoot(t),
     commit_id |-> IF Tip(t) = None THEN None ELSE Tip(t).commit_id]

GlobalCheckpoint(sequence, entries, merkleRoot) ==
    [sequence |-> sequence, tenant_roots |-> entries, tenant_merkle_root |-> merkleRoot]

BuildGlobalCheckpoint(entries, sequence) ==
    GlobalCheckpoint(sequence, entries, FromTenantRoots(entries).root)

SignGlobalCheckpoint(checkpoint, key) ==
    [body |-> checkpoint, signature |-> [key |-> key, over |-> checkpoint]]

VerifyGlobalCheckpoint(signed, key) ==
    signed.signature.key = key /\ signed.signature.over = signed.body

-----------------------------------------------------------------------------
(* Properties *)

Bodies == {s.signed.body : s \in store}

(* The chains hold announced commits, the announced commits are stored and *)
(* evidence and event batches are about stored commits.                    *)
TypeOK ==
    /\ \A t \in Tenants : chain[t] \in Seq(published)
    /\ published \subseteq Bodies
    /\ \A a \in appended : \E body \in Bodies : body.commit_id = a.commit
    /\ \A e \in Executors : work[e] # None => work[e].step \in {"put", "append", "publish"}

(* The event root of a commit stands for its events: the same events have  *)
(* the same root whatever order they arrived in, different events have     *)
(* different roots, also when an odd level pairs a node with itself, the   *)
(* events appended for a commit are the ones its root covers, and          *)
(* validate_order takes them unless two holders' rows share a version.     *)
EventRootsBind ==
    /\ \A s \in store : ValidateOrder(s.covers) <=>
          \A a, b \in ToSet(s.covers) :
              a.resource = b.resource /\ a.version = b.version => a = b
    /\ \A s, r \in store : (ToSet(s.covers) = ToSet(r.covers)) <=>
          (s.signed.body.event_merkle_root = r.signed.body.event_merkle_root)
    /\ \A s \in store, a \in appended :
          a.commit = s.signed.body.commit_id => a.entries = s.covers

(* What is announced is stored: persist stores the commit, then its        *)
(* events, and announces them last, whatever fails or is tried again.      *)
AnnouncedIsStored ==
    \A body \in published :
        /\ body \in Bodies
        /\ \E a \in appended : a.commit = body.commit_id

(* An accepted chain is its history: positions are sequence numbers, every *)
(* commit starts from the root the one before it ended with, and its root  *)
(* is that of the newest state of every row, whichever batches, in         *)
(* whatever order, brought it there.                                       *)
ChainIsHistory ==
    \A t \in Tenants : \A i \in DOMAIN chain[t] :
        LET body == chain[t][i]
            present == {row \in Rows[t] : StateAt(body, row) # None}
            keyed == [key \in {RowKey(t, row) : row \in present} |->
                        Digest(StateAt(body, CHOOSE row \in present : RowKey(t, row) = key))]
        IN /\ body.sequence = i
           /\ body.previous_state_root =
                  IF i = 1 THEN EmptyRoot ELSE chain[t][i - 1].next_state_root
           /\ body.next_state_root = Root(keyed)

(* An event id names one accepted event, although id generators start over *)
(* (validate_no_event_rewrite).                                            *)
IdsNameOneEvent ==
    \A t \in Tenants : \A a, b \in AcceptedEvents(t) : a.event_id = b.event_id => a = b

(* Evidence of a fork names a commit of the chain and a stored commit      *)
(* outside it that claim the same parent and position.                     *)
EvidenceIsOfForks ==
    \A record \in evidence : \E t \in Tenants, a, b \in Bodies :
        /\ a \in ToSet(chain[t]) /\ b \notin ToSet(chain[t])
        /\ a.commit_id = record.accepted /\ b.commit_id = record.rejected
        /\ a.parent = b.parent /\ a.parent = record.parent /\ a.parent # None
        /\ a.sequence = b.sequence /\ a.tenant = b.tenant

(* The accepted chain is the one history: what is announced is stored,     *)
(* every commit continues the one before it, an event id names one event,  *)
(* and what is held against a commit is a fork.                            *)
ChainsAreTrue ==
    TypeOK /\ AnnouncedIsStored /\ ChainIsHistory /\ IdsNameOneEvent /\ EvidenceIsOfForks

Changes(t) == UNION {ToSet(plan) : plan \in Plans[t]}

(* A bundle verifies exactly when its claim is true: of the bundles that   *)
(* can be put together from a claimed state, any stored commit s and the   *)
(* path to the row in the tree of any stored commit r, verify_bundle takes *)
(* those whose row had that state at s (ProofService::verify).             *)
ProofsTellTheTruth ==
    \A r \in store : LET leaves == LeavesAt(r.signed.body) IN
    \A t \in Tenants : \A change \in Changes(t) :
        LET key == RowKey(t, change.row)
            projection == [tenant |-> t, resource |-> change.row.resource,
                           state |-> change.after]
            inclusion == ProveInclusion(leaves, key)
        IN key \in DOMAIN leaves /\ StateProofFits(projection, inclusion, key) =>
           LET own == BuildStateProof(projection, r.signed, inclusion)
           IN \A s \in store :
             LET proof == [own EXCEPT !.commit = CommitRef(s.signed)]
                 true == /\ s.signed.body.tenant = t
                         /\ StateAt(s.signed.body, change.row) = change.after
             IN IF true THEN s = r => Verify(proof, DeriveStateKey(proof))
                ELSE ~Verify(proof, DeriveStateKey(proof))

(* A slot is shown empty exactly when it is: of the absence bundles that   *)
(* can be put together from any stored commit s and a path to the key in   *)
(* the tree of any stored commit r, whether the key is in that tree or     *)
(* not, verify_non_membership_bundle takes those of a row s has not.       *)
AbsencesTellTheTruth ==
    \A r \in store : LET leaves == LeavesAt(r.signed.body) IN
    \A t \in Tenants : \A row \in Rows[t] :
        LET key == RowKey(t, row)
            path == IF key \in DOMAIN leaves THEN ProveInclusion(leaves, key)
                    ELSE ProveNonMembership(leaves, key)
            own == BuildNonMembershipProof(t, key, r.signed, path)
        IN \A s \in store :
             LET bundle == [own EXCEPT !.commit = CommitRef(s.signed)]
                 absent == s.signed.body.tenant = t /\ StateAt(s.signed.body, row) = None
             IN IF absent THEN s = r => VerifyAbsence(bundle) ELSE ~VerifyAbsence(bundle)

(* Bundles tell the truth, of presence and of absence.                     *)
BundlesTellTheTruth == ProofsTellTheTruth /\ AbsencesTellTheTruth

(* A checkpoint over any tenants, an odd number of them included, in       *)
(* whatever order they are named, proves the root of each of them and no   *)
(* other root; and its signature also holds the commits it names, which    *)
(* its root does not (build_global_checkpoint, prove_tenant_root,          *)
(* verify_tenant_root, verify_global_checkpoint). Every chain is met with  *)
(* no executor at work, and what executors do makes no difference.         *)
CheckpointsBind == (\A e \in Executors : work[e] = None) =>
    \A S \in SUBSET Tenants \ {{}} :
        LET named == SetToSeq(S)
            entries == [i \in DOMAIN named |-> TenantRootEntry(named[i])]
            body == BuildGlobalCheckpoint(entries, 1)
            signed == SignGlobalCheckpoint(body, "anchor")
        IN /\ WellFormedRoots(entries) /\ VerifyGlobalCheckpoint(signed, "anchor")
           /\ BuildGlobalCheckpoint(Reverse(entries), 1).tenant_merkle_root = body.tenant_merkle_root
           /\ \A i \in DOMAIN entries :
                 LET moved == [entries EXCEPT ![i].commit_id = 0] IN
                 /\ BuildGlobalCheckpoint(moved, 1).tenant_merkle_root = body.tenant_merkle_root
                 /\ ~VerifyGlobalCheckpoint([signed EXCEPT !.body.tenant_roots = moved], "anchor")
           /\ \A t \in S : LET proof == ProveTenantRoot(FromTenantRoots(entries), t) IN
                 \A u \in Tenants :
                     VerifyTenantRoot(body.tenant_merkle_root,
                         [proof EXCEPT !.tenant = u, !.tenant_root = TipRoot(u)]) <=> (t = u)

(* Roots bind what they are the roots of: a commit its events, a           *)
(* checkpoint the states of its tenants.                                   *)
RootsBind == EventRootsBind /\ CheckpointsBind

(* A proof verified against the canonical head is of the current state: of *)
(* the proofs assembled for any stored commit, verify_canonical refuses    *)
(* those whose row has moved since, or that are of a chain that lost.      *)
CanonicalMeansCurrent ==
    \A s \in store : LET t == s.signed.body.tenant IN \A row \in Rows[t] :
        LET claimed == StateAt(s.signed.body, row)
            current == IF Tip(t) = None THEN None ELSE StateAt(Tip(t), row)
        IN claimed # None /\ claimed # current =>
               ~VerifyCanonical(GenuineProof(s.signed, t, row), RowKey(t, row))
=============================================================================
