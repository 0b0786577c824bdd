--------------------------- MODULE DurableRequest ---------------------------
(***************************************************************************)
(* The checks persist_durable_verified makes of a request before it asks   *)
(* the ledger anything (crates/statechronicle-commit/src/persist.rs): the  *)
(* signed commit, the principal, the intent, the events, the projections   *)
(* and the outbox rows come from the caller side by side, and have to be   *)
(* those of one mutation.                                                  *)
(*                                                                         *)
(* A digest, a root and a signature are the terms they are made of. Sizes  *)
(* in bytes are left out.                                                  *)
(***************************************************************************)
EXTENDS ProfileVocabulary, Sequences

CONSTANT MaxEventsPerCommit   \* MAX_EVENTS_PER_COMMIT

Digest(x) == <<"digest", x>>

(* StateCommitment: a state, its version and its digest. Of a resource     *)
(* that does not exist the state is the empty one of its type.             *)
Commitment(type, version, state) ==
    [type |-> type, version |-> version, state |-> state, state_hash |-> Digest(<<type, state>>)]

(* The SignedCommitVerifier a composition root supplies.                   *)
Verified(signed) == signed.signature = Digest(signed.body)

(* commit_tenant: a commit of one tenant, with well-formed names.          *)
CommitTenant(body) ==
    /\ body.schema = "commit" /\ body.scope = "tenant"
    /\ Given(body.commit_id) /\ Given(body.profile) /\ Given(body.executor) /\ Given(body.tenant)
    /\ body.parent # Malformed

(* validate_durable_scope: principal, intent and commit are one tenant's,  *)
(* and the principal is the actor.                                         *)
ValidateDurableScope(intent, principal, tenant) ==
    /\ intent.tenant = tenant /\ principal.tenant = tenant
    /\ principal.subject = intent.actor

(* validate_committed_event: the event by itself.                          *)
ValidateCommittedEvent(entry) ==
    LET event == entry.event IN
    /\ event.schema = "event" /\ Given(event.event_id) /\ Given(event.intent_id)
    /\ event.after.version = event.before.version + 1
    /\ entry.state_type = event.before.type /\ entry.state_type = event.after.type
    /\ entry.state_type = "custom" =>
          /\ event.after.state.schema # 0
          /\ event.before.state # NoState =>
                /\ event.before.state.domain = event.after.state.domain
                /\ event.before.state.schema = event.after.state.schema
    /\ event.before.state_hash = Digest(<<event.before.type, event.before.state>>)
    /\ event.after.state_hash = Digest(<<event.after.type, event.after.state>>)

(* validate_committed_events: and no event id twice.                       *)
ValidateCommittedEvents(entries) ==
    /\ \A n \in DOMAIN entries : ValidateCommittedEvent(entries[n])
    /\ \A n, m \in DOMAIN entries :
          entries[n].event.event_id = entries[m].event.event_id => n = m

(* validate_event_binding: the event is what the intent asked for.         *)
ValidateEventBinding(event, intent, tenant) ==
    /\ event.tenant = tenant /\ event.intent_id = intent.intent_id
    /\ event.actor = intent.actor /\ event.operation = intent.op
    /\ event.resource = intent.resource
    /\ intent.state_type = event.after.type
    /\ event.after.type = "custom" =>
          /\ Given(intent.domain) /\ event.after.state.domain = intent.domain
          /\ event.after.state.schema = intent.schema

(* projections_for: one of every event, in the order of the events.        *)
ProjectionsFor(commit_id, entries) ==
    [n \in DOMAIN entries |->
        LET event == entries[n].event IN
        [tenant |-> event.tenant, resource |-> event.resource,
         state_type |-> entries[n].state_type, version |-> event.after.version,
         last_event |-> event.event_id, last_commit |-> commit_id,
         state_hash |-> event.after.state_hash, state |-> event.after.state]]

(* validate_projection_bindings: none, for a ledger that derives them, or  *)
(* exactly those of the events; and those are of the commit.               *)
ValidateProjectionBindings(body, entries, projections) ==
    /\ \A n \in DOMAIN entries : entries[n].state_type = entries[n].event.after.type
    /\ projections \in {<<>>, ProjectionsFor(body.commit_id, entries)}
    /\ \A n \in DOMAIN projections : /\ projections[n].tenant = body.tenant
                                     /\ projections[n].last_commit = body.commit_id

(* validate_outbox_record: a delivery key, and the payload it was made for.*)
ValidateOutboxRecord(record) ==
    Given(record.delivery_key) /\ Digest(record.payload) = record.payload_digest

(* validate_outbox_records: no delivery key twice; and every row is of the *)
(* commit.                                                                 *)
ValidateOutboxRecords(body, records) ==
    /\ \A n \in DOMAIN records : /\ ValidateOutboxRecord(records[n])
                                 /\ records[n].tenant = body.tenant
                                 /\ records[n].commit_id = body.commit_id
    /\ \A n, m \in DOMAIN records :
          records[n].delivery_key = records[m].delivery_key => n = m

EventsIn(entries) == [n \in DOMAIN entries |-> entries[n].event]

(* persist_durable_verified and persist_durable, up to begin.              *)
Takes(r) ==
    LET body == r.commit.body IN
    /\ Verified(r.commit)
    /\ CommitTenant(body)
    /\ r.payload_digest = Digest(r.intent)
    /\ ValidateDurableScope(r.intent, r.principal, body.tenant)
    /\ Len(r.entries) \in 1 .. MaxEventsPerCommit
    /\ ValidateCommittedEvents(r.entries)
    /\ \A n \in DOMAIN r.entries :
          ValidateEventBinding(r.entries[n].event, r.intent, body.tenant)
    /\ ValidateProjectionBindings(body, r.entries, r.projections)
    /\ ValidateOutboxRecords(body, r.outbox)
    /\ body.event_count = Len(r.entries)
    /\ body.event_merkle_root = Digest(EventsIn(r.entries))
-----------------------------------------------------------------------------
(* A request of one mutation: the commit of the events of an intent, their *)
(* projections or none, and an outbox row for each event.                  *)
RequestOf(intent, events, commit_id, derived) ==
    LET entries == [n \in DOMAIN events |->
                       [event |-> events[n], state_type |-> events[n].after.type]]
        body == [schema |-> "commit", scope |-> "tenant", tenant |-> intent.tenant,
                 commit_id |-> commit_id, parent |-> None, profile |-> intent.state_type,
                 executor |-> "executor", event_count |-> Len(events),
                 event_merkle_root |-> Digest(events)]
    IN [principal |-> [tenant |-> intent.tenant, subject |-> intent.actor],
        intent |-> intent, payload_digest |-> Digest(intent), entries |-> entries,
        commit |-> [body |-> body, signature |-> Digest(body)],
        projections |-> IF derived THEN <<>> ELSE ProjectionsFor(commit_id, entries),
        outbox |-> [n \in DOMAIN events |->
            [delivery_key |-> events[n].event_id, tenant |-> intent.tenant,
             commit_id |-> commit_id, payload |-> events[n],
             payload_digest |-> Digest(events[n])]]]

(* What a caller sends that takes some parts of a request from another.    *)
Mixed(r, q, parts) == [p \in DOMAIN r |-> IF p \in parts THEN q[p] ELSE r[p]]
Parts == {{"principal"}, {"intent", "payload_digest"}, {"entries"}, {"commit"}, {"projections"},
          {"outbox"}, {"commit", "projections", "outbox"}}
=============================================================================
