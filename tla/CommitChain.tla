---------------------------- MODULE CommitChain ----------------------------
(***************************************************************************)
(* The formation of commits in crates/statechronicle-commit: a batch of    *)
(* events is ordered (ordering.rs), checked (batch.rs), hashed (roots.rs), *)
(* built into a commit on top of the chain its executor knows (builder.rs),*)
(* signed (sign.rs) and written to the stores and published by persist     *)
(* (persist.rs). The checks of fork.rs and roots.rs decide which of the    *)
(* stored commits continue a tenant's chain, and which are evidence of a   *)
(* fork.                                                                   *)
(*                                                                         *)
(* Executors work side by side and do not know of each other: what one     *)
(* read of the chain may be stale when its commit is stored. Any port call *)
(* may fail, and an executor may stop between any two of them.             *)
(***************************************************************************)
EXTENDS StateTree

CONSTANTS Tenants,      \* 1, 2, ... in the order of their names
          Executors,
          Rows,         \* of a tenant: a resource and its holder, 0 if it has none
          Plans,        \* of a tenant: what a batch does, a sequence of [row, after]
          MaxCommits, MaxStored,
          None

VARIABLES chain,      \* of a tenant: the commits accepted, in order
          store,      \* the commit store: every signed commit put
          appended,   \* the event store
          published,  \* the commits announced
          work,       \* of an executor: the commit it is persisting
          evidence    \* ForkEvidence

vars == <<chain, store, appended, published, work, evidence>>

Init == /\ chain = [t \in Tenants |-> <<>>]
        /\ store = {} /\ appended = {} /\ published = {} /\ evidence = {}
        /\ work = [e \in Executors |-> None]

-----------------------------------------------------------------------------
(* Batches *)

(* sort_events: by resource, version and event id.                         *)
Before(a, b) ==
    \/ a.resource < b.resource
    \/ a.resource = b.resource /\ a.version < b.version
    \/ /\ a.resource = b.resource /\ a.version = b.version
       /\ a.event_id[2] < b.event_id[2]

OrderEvents(events) == SortSeq(events, Before)

(* validate_order: no event id and no (resource, version) twice, in order. *)
ValidateOrder(events) ==
    \A i, j \in DOMAIN events : i < j =>
        /\ events[i].event_id # events[j].event_id
        /\ <<events[i].resource, events[i].version>> #
               <<events[j].resource, events[j].version>>
        /\ Before(events[i], events[j])

(* CommitBatch::add_event for every event, and validate: one tenant, every *)
(* event once, at least one event.                                         *)
ValidBatch(tenant, events) ==
    /\ events # <<>>
    /\ \A i \in DOMAIN events : events[i].tenant = tenant
    /\ \A i, j \in DOMAIN events : events[i].event_id = events[j].event_id => i = j

(* infer_state_key, event_subject: a state with a subject is keyed by it.  *)
InferStateKey(event) ==
    IF "subject" \in DOMAIN event.after
    THEN ForSubjectHeld(event.tenant, event.resource, event.after.subject)
    ELSE ForResource(event.tenant, event.resource)

(* The stable sort by key.                                                 *)
KeyBefore(a, b) == \E p \in 1..TreeDepth : a[p] < b[p] /\ \A q \in 1..(p - 1) : a[q] = b[q]
SortByKey(updates) ==
    LET placed == [i \in DOMAIN updates |-> [update |-> updates[i], at |-> i]]
        before(a, b) == \/ KeyBefore(a.update.key, b.update.key)
                        \/ a.update.key = b.update.key /\ a.at < b.at
        sorted == SortSeq(placed, before)
    IN [i \in DOMAIN sorted |-> sorted[i].update]

StateRootUpdates(events) ==
    SortByKey([i \in DOMAIN events |->
                  [key |-> InferStateKey(events[i]),
                   state_digest |-> Digest(events[i].after)]])

ComputeStateRoot(updates) == Root(InsertBatch(EmptyAccumulator, updates))

-----------------------------------------------------------------------------
(* Commits *)

(* CommitBuilder::build: the next root is that of everything committed     *)
(* before and the batch, the later update of a key last.                   *)
Build(tenant, parent, id, events, previousRoot, prior) ==
    [tenant |-> tenant, commit_id |-> id,
     parent |-> IF parent = None THEN None ELSE parent.commit_id,
     sequence |-> IF parent = None THEN 1 ELSE parent.sequence + 1,
     event_count |-> Len(events), event_merkle_root |-> EventRoot(events),
     previous_state_root |-> previousRoot,
     next_state_root |-> ComputeStateRoot(SortByKey(prior \o StateRootUpdates(events)))]

(* sign_commit, verify_commit: the signature is over the body.             *)
SignCommit(body, key) == [body |-> body, signature |-> [key |-> key, over |-> body]]
VerifyCommit(signed, key) ==
    signed.signature.key = key /\ signed.signature.over = signed.body
KeyOf(tenant) == tenant

EventsOf(commit) == (CHOOSE s \in store : s.signed.body.commit_id = commit.commit_id).covers
UpdatesOf(commits) ==
    FlattenSeq([i \in DOMAIN commits |-> StateRootUpdates(EventsOf(commits[i]))])
AcceptedEvents(t) == UNION {ToSet(EventsOf(c)) : c \in ToSet(chain[t])}
Tip(t) == IF chain[t] = <<>> THEN None ELSE Last(chain[t])
TipRoot(t) == IF chain[t] = <<>> THEN EmptyRoot ELSE Last(chain[t]).next_state_root

-----------------------------------------------------------------------------
(* Executors *)

(* The versions a row has been through in a set of events.                 *)
OnRow(row, event) ==
    /\ event.resource = row.resource
    /\ ("subject" \in DOMAIN event.after) => event.after.subject = row.subject
Version(row, events) ==
    Cardinality({event.version : event \in {x \in events : OnRow(row, x)}})

(* The events of a plan: each takes its row a version further. An id       *)
(* generator that started over gives the first id of the chain again.      *)
Batches(t) ==
    LET version(plan, i) == Version(plan[i].row, AcceptedEvents(t)) +
                            Cardinality({j \in 1..i : plan[j].row = plan[i].row})
        fresh(plan, i) == <<plan[i].row.resource, plan[i].row.subject, version(plan, i)>>
        used(plan) == IF Len(plan) = 1 /\ chain[t] # <<>>
                      THEN {EventsOf(chain[t][1])[1].event_id} ELSE {}
    IN UNION {{[i \in DOMAIN plan |->
                   [event_id |-> IF id = None THEN fresh(plan, i) ELSE id, tenant |-> t,
                    resource |-> plan[i].row.resource, version |-> version(plan, i),
                    after |-> plan[i].after]] : id \in used(plan) \cup {None}} :
              plan \in Plans[t]}
Arrivals(batch) == {batch, Reverse(batch)}

(* A commit id nobody has.                                                 *)
FreshId ==
    LET pending == {work[x] : x \in {x \in Executors : work[x] # None}}
    IN CHOOSE n \in 1..MaxStored : \A c \in store \cup pending : c.signed.body.commit_id # n

(* Form: an executor orders the events of a batch as they arrived, builds  *)
(* a commit on the chain as it is now, signs it and hands it to persist,   *)
(* with the events in one of the two orders it has them in.                *)
Form(e, t) ==
    /\ work[e] = None
    /\ Len(chain[t]) < MaxCommits
    /\ Cardinality(store) + Cardinality({x \in Executors : work[x] # None}) < MaxStored
    /\ \E batch \in Batches(t) : \E arrived \in Arrivals(batch) :
        LET events == OrderEvents(arrived)
            body == Build(t, Tip(t), FreshId, events, TipRoot(t),
                          UpdatesOf(chain[t]))
        IN /\ ValidBatch(t, arrived)
           /\ \E entries \in {events, arrived} :
                work' = [work EXCEPT ![e] =
                    [step |-> "put", entries |-> entries, covers |-> events,
                     signed |-> SignCommit(body, KeyOf(t))]]
    /\ UNCHANGED <<chain, store, appended, published, evidence>>

-----------------------------------------------------------------------------
(* persist: the commit must declare the entries; then the port calls.      *)

(* Variant: the declared event root is not compared.                       *)
PersistValidUnrooted(w) ==
    /\ Len(w.entries) = w.signed.body.event_count
    /\ \A i \in DOMAIN w.entries : w.entries[i].tenant = w.signed.body.tenant

PersistValid(w) ==
    /\ Len(w.entries) = w.signed.body.event_count
    /\ \A i, j \in DOMAIN w.entries : w.entries[i].event_id = w.entries[j].event_id => i = j
    /\ \A i \in DOMAIN w.entries : w.entries[i].tenant = w.signed.body.tenant
    /\ EventRoot(w.entries) = w.signed.body.event_merkle_root

(* CommitStore::put_commit refuses a commit id it has.                     *)
Storable(w) == \A s \in store : s.signed.body.commit_id # w.signed.body.commit_id

At(e, step) == work[e] # None /\ work[e].step = step

PutCommit(e) ==
    /\ At(e, "put") /\ PersistValid(work[e]) /\ Storable(work[e])
    /\ store' = store \cup {[signed |-> work[e].signed, covers |-> work[e].covers]}
    /\ work' = [work EXCEPT ![e].step = "append"]
    /\ UNCHANGED <<chain, appended, published, evidence>>

AppendEvents(e) ==
    /\ At(e, "append")
    /\ appended' = appended \cup {[commit |-> work[e].signed.body.commit_id,
                                   entries |-> work[e].entries]}
    /\ work' = [work EXCEPT ![e].step = "publish"]
    /\ UNCHANGED <<chain, store, published, evidence>>

(* publish_events, then publish_commit: announced when both are.           *)
Publish(e) ==
    /\ At(e, "publish")
    /\ published' = published \cup {work[e].signed.body}
    /\ work' = [work EXCEPT ![e] = None]
    /\ UNCHANGED <<chain, store, appended, evidence>>

(* The early returns of persist.                                           *)
Refuse(e) ==
    /\ At(e, "put") /\ ~(PersistValid(work[e]) /\ Storable(work[e]))
    /\ work' = [work EXCEPT ![e] = None]
    /\ UNCHANGED <<chain, store, appended, published, evidence>>

(* A port call fails, or the executor stops: the commit is given up, or    *)
(* persist is called again from the start.                                 *)
Fail(e) ==
    /\ work[e] # None
    /\ \/ work' = [work EXCEPT ![e] = None]
       \/ work' = [work EXCEPT ![e].step = "put"]
    /\ UNCHANGED <<chain, store, appended, published, evidence>>

-----------------------------------------------------------------------------
(* Acceptance: which announced commit continues the chain of its tenant.   *)

(* Variant: a commit continues any earlier one.                            *)
CheckChainContinuitySequence(previous, next) ==
    IF previous = None THEN next.parent = None
    ELSE next.parent # None /\ next.sequence <= previous.sequence + 1

CheckChainContinuity(previous, next) ==
    IF previous = None THEN next.parent = None
    ELSE next.parent = previous.commit_id /\ next.sequence = previous.sequence + 1

VerifyStateRootContinuity(commit, prior, current) ==
    /\ ComputeStateRoot(prior) = commit.previous_state_root
    /\ ComputeStateRoot(SortByKey(prior \o current)) = commit.next_state_root

(* validate_no_event_rewrite                                               *)
NoEventRewrite(accepted, candidates) ==
    \A a \in accepted, c \in candidates : a.event_id = c.event_id => a = c

DetectFork(previous, a, b) ==
    /\ a.parent = previous.commit_id /\ b.parent = previous.commit_id
    /\ a.sequence = b.sequence /\ a.commit_id # b.commit_id

Accept(t) ==
    \E s \in store :
        LET body == s.signed.body IN
        /\ body \in published /\ body.tenant = t /\ body \notin ToSet(chain[t])
        /\ VerifyCommit(s.signed, KeyOf(t))
        /\ CheckChainContinuity(Tip(t), body)
        /\ VerifyStateRootContinuity(body, UpdatesOf(chain[t]), StateRootUpdates(s.covers))
        /\ NoEventRewrite(AcceptedEvents(t), ToSet(s.covers))
        /\ chain' = [chain EXCEPT ![t] = Append(@, body)]
        /\ UNCHANGED <<store, appended, published, work, evidence>>

Contest(t) ==
    \E s \in store, i \in 2..Len(chain[t]) :
        LET body == s.signed.body
            record == [accepted |-> chain[t][i].commit_id, rejected |-> body.commit_id,
                       parent |-> chain[t][i - 1].commit_id, sequence |-> body.sequence]
        IN /\ body \in published /\ body.tenant = t /\ record \notin evidence
           /\ DetectFork(chain[t][i - 1], chain[t][i], body)
           /\ evidence' = evidence \cup {record}
           /\ UNCHANGED <<chain, store, appended, published, work>>

Next ==
    \/ \E e \in Executors : \/ \E t \in Tenants : Form(e, t)
                           \/ PutCommit(e) \/ AppendEvents(e) \/ Publish(e)
                           \/ Refuse(e) \/ Fail(e)
    \/ \E t \in Tenants : Accept(t) \/ Contest(t)

Spec == Init /\ [][Next]_vars
=============================================================================
