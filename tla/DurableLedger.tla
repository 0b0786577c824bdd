---------------------------- MODULE DurableLedger ----------------------------
(***************************************************************************)
(* The durable write path of one tenant: requests are prepared from what   *)
(* the executor and the commit builder read, and persist_durable_verified  *)
(* (crates/statechronicle-commit/src/persist.rs) drives a LedgerStore      *)
(* transaction through them, one awaited call at a time.                   *)
(*                                                                         *)
(* Several callers run at once.  Any awaited call may fail, any caller may *)
(* crash at any await, a commit may be applied and its answer lost, a      *)
(* reservation may lapse under its owner, and callers retry, with the      *)
(* request they had or with one prepared anew.                             *)
(*                                                                         *)
(* The store is the transactional adapter the repository's own tests run   *)
(* persist_durable against (tests/support/durable.rs); leases that lapse   *)
(* come from the LedgerStore contract (IdempotencyClaim::InProgress).      *)
(***************************************************************************)
EXTENDS Naturals, Sequences, FiniteSets

CONSTANTS Intents,    \* idempotency keys (tenant_id, intent_id) of the tenant
          Payloads,   \* canonical payloads an intent id may come with
          Keys,       \* projection keys of the tenant
          Callers,    \* concurrent callers of persist_durable_verified
          CommitIds,  \* identifiers the platform sequencer may hand out
          Soundness,  \* whether requests may be defective: TRUE for the sound ones
          Footprint,  \* Footprint[i]: the projections the events of i touch
          None,       \* an absent value
          Orphan,     \* the holder of a reservation whose transaction is gone
          MaxFaults   \* how many calls may fail and callers crash

ASSUME FootprintAssumption == Footprint \in [Intents -> (SUBSET Keys) \ {{}}]
ASSUME SoundnessAssumption == Soundness \subseteq BOOLEAN
ASSUME FaultsAssumption == MaxFaults \in Nat

VARIABLES
    \* the durable ledger (Stored)
    commits,      \* signed commits, in commit order
    events,       \* the event log
    projections,  \* the stored projection of every key
    outbox,       \* commits that have a delivery row
    identities,   \* finalized idempotency claims
    reserved,     \* who holds the live reservation of an intent
    \* the callers
    pc,           \* the await each caller is at
    job,          \* the intent and payload each caller must get accepted
    loaded,       \* the projections the executor has read for the job
    prepared,     \* the request built for the job (DurableCommitRequest)
    staged,       \* the calls whose writes the open transaction holds
    reply,        \* what persist_durable is about to return
    acks,         \* every success returned to a caller
    faults        \* failures injected so far

ledger == <<commits, events, projections, outbox, identities>>
vars == <<commits, events, projections, outbox, identities, reserved,
          pc, job, loaded, prepared, staged, reply, acks, faults>>

-----------------------------------------------------------------------------
(* A projected state is its version and the commit whose event wrote it:   *)
(* two states of one key are equal exactly when their hashes are.          *)
State == [version : Nat, writer : CommitIds \cup {None}]
Unborn == [version |-> 0, writer |-> None]

(* A state root is the accumulated leaf of every key (an injective hash).  *)
Root == [Keys -> State]

Commit == [id : CommitIds, parent : CommitIds \cup {None}, sequence : Nat,
           previous_state_root : Root, next_state_root : Root,
           intent : Intents, payload : Payloads]

Event == [commit : CommitIds, intent : Intents, key : Keys,
          before : State, after : State]

(* digest is the request's payload_digest; sound stands for everything the *)
(* request is checked against before a transaction opens: the commit's     *)
(* signature, signer and scope, the caller's authorization, the bindings   *)
(* of events, projections and outbox rows to the intent and the commit.    *)
Request == [commit : Commit, before : Root, digest : Payloads, sound : BOOLEAN]

Identity == [digest : Payloads, commit : CommitIds]

Job == [intent : Intents, payload : Payloads]

ASSUME NoneAssumption ==
    /\ Orphan # None /\ Orphan \notin Callers
    /\ None \notin Callers /\ None \notin CommitIds /\ None \notin State
    /\ None \notin Request /\ None \notin Identity /\ None \notin Job

(* The write calls of a transaction, in the order persist_durable makes    *)
(* them.                                                                   *)
Writes == {"Events", "CommitRow", "Projection", "Outbox", "Finalize"}
Awaits == {"Begin", "Claim", "Commit", "Rollback"} \cup Writes

Reply == [status : {"None", "Committed", "Replay", "Err"},
          commit : CommitIds \cup {None},
          kind : {"None", "Unavailable", "Conflict", "Invariant",
                  "InProgress", "PayloadConflict", "Rejected"}]
NoReply == [status |-> "None", commit |-> None, kind |-> "None"]
Success(s, c) == [status |-> s, commit |-> c, kind |-> "None"]

(* Variant: an error is reported as a replay.                              *)
FailureAsReplay(k) == [status |-> "Replay", commit |-> None, kind |-> k]

Failure(k) == [status |-> "Err", commit |-> None, kind |-> k]

(* The errors after which the same intent may still succeed; the others    *)
(* end the job.                                                            *)
Retryable == {"Unavailable", "Conflict", "InProgress"}

-----------------------------------------------------------------------------
Init == /\ commits = <<>>
        /\ events = {}
        /\ projections = [k \in Keys |-> Unborn]
        /\ outbox = {}
        /\ identities = [i \in Intents |-> None]
        /\ reserved = [i \in Intents |-> None]
        /\ pc = [c \in Callers |-> "Idle"]
        /\ job = [c \in Callers |-> None]
        /\ loaded = [c \in Callers |-> [k \in Keys |-> None]]
        /\ prepared = [c \in Callers |-> None]
        /\ staged = [c \in Callers |-> {}]
        /\ reply = [c \in Callers |-> NoReply]
        /\ acks = {}
        /\ faults = 0

(* The head row: the last commit, or the empty accumulator before any.     *)
CanonicalHead ==
    IF commits = <<>>
    THEN [id |-> None, sequence |-> 0, next_state_root |-> [k \in Keys |-> Unborn]]
    ELSE LET last == commits[Len(commits)] IN
         [id |-> last.id, sequence |-> last.sequence,
          next_state_root |-> last.next_state_root]

(* The commit ids some commit or some outstanding request already uses.    *)
(* The platform sequencer hands out another; which one makes no difference.*)
UsedIds == {commits[n].id : n \in DOMAIN commits}
           \cup {prepared[c].commit.id : c \in {d \in Callers : prepared[d] # None}}

(* Variant: the sequencer hands out one identifier again and again.        *)
MintRepeats == CHOOSE id \in CommitIds : id \in CommitIds

Mint == CHOOSE id \in CommitIds : id \notin UsedIds

Goto(c, label) == pc' = [pc EXCEPT ![c] = label]

(* A caller accepts a new intent to see through.                           *)
Submit(c, i, p) ==
    /\ pc[c] = "Idle" /\ job[c] = None
    /\ job' = [job EXCEPT ![c] = [intent |-> i, payload |-> p]]
    /\ UNCHANGED <<ledger, reserved, pc, loaded, prepared, staged, reply, acks, faults>>

(* The executor starts (again) on the job: whatever was read or prepared   *)
(* before is forgotten.                                                    *)
Execute(c) ==
    /\ pc[c] = "Idle" /\ job[c] # None
    /\ Goto(c, "Load")
    /\ loaded' = [loaded EXCEPT ![c] = [k \in Keys |-> None]]
    /\ prepared' = [prepared EXCEPT ![c] = None]
    /\ reply' = [reply EXCEPT ![c] = NoReply]
    /\ UNCHANGED <<ledger, reserved, job, staged, acks, faults>>

(* The executor reads one projection: the primary state and the companion  *)
(* state are loaded by separate awaits.                                    *)
LoadState(c, k) ==
    /\ pc[c] = "Load"
    /\ k \in Footprint[job[c].intent] /\ loaded[c][k] = None
    /\ loaded' = [loaded EXCEPT ![c][k] = projections[k]]
    /\ UNCHANGED <<ledger, reserved, pc, job, prepared, staged, reply, acks, faults>>

(* The after-state of a key under a commit: StateCommitment with the next  *)
(* version.                                                                *)
After(before, id) == [version |-> before.version + 1, writer |-> id]

(* The leaves of a head after the events of a request.                     *)
Overlay(root, keys, before, id) ==
    [k \in Keys |-> IF k \in keys THEN After(before[k], id) ELSE root[k]]

(* CommitBuilder::build on the events and the head the caller reads now.   *)
Build(c, digest, sound) ==
    LET id == Mint
        keys == Footprint[job[c].intent]
        before == [k \in Keys |-> IF k \in keys THEN loaded[c][k] ELSE Unborn]
    IN  /\ pc[c] = "Load"
        /\ \A k \in keys : loaded[c][k] # None
        /\ CommitIds \ UsedIds # {}
        /\ prepared' = [prepared EXCEPT ![c] =
              [commit |-> [id |-> id, parent |-> CanonicalHead.id,
                           sequence |-> CanonicalHead.sequence + 1,
                           previous_state_root |-> CanonicalHead.next_state_root,
                           next_state_root |-> Overlay(CanonicalHead.next_state_root, keys, before, id),
                           intent |-> job[c].intent, payload |-> job[c].payload],
               before |-> before, digest |-> digest, sound |-> sound]]
        /\ loaded' = [loaded EXCEPT ![c] = [k \in Keys |-> None]]
        /\ Goto(c, "Begin")
        /\ UNCHANGED <<ledger, reserved, job, staged, reply, acks, faults>>

(* The caller hands in the request it already has once more.               *)
Resubmit(c) ==
    /\ pc[c] = "Idle" /\ job[c] # None /\ prepared[c] # None
    /\ Goto(c, "Begin")
    /\ reply' = [reply EXCEPT ![c] = NoReply]
    /\ UNCHANGED <<ledger, reserved, job, loaded, prepared, staged, acks, faults>>

-----------------------------------------------------------------------------
(* persist_durable, up to the transaction: every check is made, and none   *)
(* of them touches the store.                                              *)
Admissible(r) == r.sound /\ r.digest = r.commit.payload

Answer(c, r) == reply' = [reply EXCEPT ![c] = r]

Begin(c) ==
    /\ pc[c] = "Begin"
    /\ IF Admissible(prepared[c])
       THEN Goto(c, "Claim") /\ UNCHANGED reply
       ELSE Goto(c, "Return") /\ Answer(c, Failure("Rejected"))
    /\ UNCHANGED <<ledger, reserved, job, loaded, prepared, staged, acks, faults>>

(* Variant: only live reservations are looked at, not finalized claims.    *)
ClaimIgnoresFinalized(c) ==
    LET i == prepared[c].commit.intent IN
    /\ pc[c] = "Claim"
    /\ \/ reserved[i] # None /\ Answer(c, Failure("InProgress"))
          /\ Goto(c, "Rollback") /\ UNCHANGED reserved
       \/ reserved[i] = None /\ reserved' = [reserved EXCEPT ![i] = c]
          /\ Goto(c, "Events") /\ UNCHANGED reply
    /\ UNCHANGED <<ledger, job, loaded, prepared, staged, acks, faults>>

(* Variant: a finalized claim is replayed whatever its payload was.        *)
ClaimIgnoresDigest(c) ==
    LET i == prepared[c].commit.intent IN
    /\ pc[c] = "Claim"
    /\ \/ identities[i] # None /\ Answer(c, Success("Replay", identities[i].commit))
          /\ Goto(c, "Rollback") /\ UNCHANGED reserved
       \/ identities[i] = None /\ reserved[i] = None
          /\ reserved' = [reserved EXCEPT ![i] = c]
          /\ Goto(c, "Events") /\ UNCHANGED reply
    /\ UNCHANGED <<ledger, job, loaded, prepared, staged, acks, faults>>

(* claim_idempotency and the four arms that follow it.                     *)
Claim(c) ==
    LET i == prepared[c].commit.intent IN
    /\ pc[c] = "Claim"
    /\ \/ /\ identities[i] # None
          /\ Answer(c, IF identities[i].digest = prepared[c].digest
                       THEN Success("Replay", identities[i].commit)
                       ELSE Failure("PayloadConflict"))
          /\ Goto(c, "Rollback")
          /\ UNCHANGED reserved
       \/ /\ identities[i] = None /\ reserved[i] # None
          /\ Answer(c, Failure("InProgress"))
          /\ Goto(c, "Rollback")
          /\ UNCHANGED reserved
       \/ /\ identities[i] = None /\ reserved[i] = None
          /\ reserved' = [reserved EXCEPT ![i] = c]
          /\ Goto(c, "Events")
          /\ UNCHANGED reply
    /\ UNCHANGED <<ledger, job, loaded, prepared, staged, acks, faults>>

(* One write call succeeds: its rows are staged in the transaction.        *)
Stage(c, step, next) ==
    /\ pc[c] = step
    /\ staged' = [staged EXCEPT ![c] = @ \cup {step}]
    /\ Goto(c, next)
    /\ UNCHANGED <<ledger, reserved, job, loaded, prepared, reply, acks, faults>>

(* Variant: the write call is answered without staging anything.           *)
EnqueueSkipped(c) ==
    /\ pc[c] = "Outbox" /\ Goto(c, "Finalize")
    /\ UNCHANGED <<ledger, reserved, job, loaded, prepared, staged, reply, acks, faults>>

AppendEvents(c) == Stage(c, "Events", "CommitRow")
AppendCommit(c) == Stage(c, "CommitRow", "Projection")
UpsertProjections(c) == Stage(c, "Projection", "Outbox")
EnqueueOutbox(c) == Stage(c, "Outbox", "Finalize")
FinalizeIdempotency(c) == Stage(c, "Finalize", "Commit")

(* The transaction of c is over: what it still has reserved is released,   *)
(* or left to lapse when the store was not told.                           *)
Reassign(c, holder) ==
    reserved' = [i \in Intents |-> IF reserved[i] = c THEN holder ELSE reserved[i]]
Release(c) == Reassign(c, None)
Abandon(c) == Reassign(c, Orphan)

(* An awaited call before the commit fails: persist_durable rolls back and *)
(* returns the error.  A failed begin leaves nothing to roll back.         *)
CallFails(c, kind) ==
    /\ faults < MaxFaults /\ faults' = faults + 1
    /\ pc[c] \in {"Begin", "Claim"} \cup Writes
    /\ pc[c] = "Begin" => Admissible(prepared[c])
    /\ Answer(c, Failure(kind))
    /\ Goto(c, IF pc[c] = "Begin" THEN "Return" ELSE "Rollback")
    /\ UNCHANGED <<ledger, reserved, job, loaded, prepared, staged, acks>>

(* Variant: the rollback forgets the reservation.                          *)
RollbackKeepsReservation(c) ==
    /\ pc[c] = "Rollback"
    /\ staged' = [staged EXCEPT ![c] = {}]
    /\ Goto(c, "Return")
    /\ UNCHANGED <<ledger, reserved, job, loaded, prepared, reply, acks, faults>>

Rollback(c) ==
    /\ pc[c] = "Rollback"
    /\ staged' = [staged EXCEPT ![c] = {}]
    /\ Release(c)
    /\ Goto(c, "Return")
    /\ UNCHANGED <<ledger, job, loaded, prepared, reply, acks, faults>>

(* The rollback itself fails: after an error it is best effort, in the     *)
(* arms of the claim its error is the answer.  The store drops the         *)
(* transaction; its reservation lapses later.                              *)
RollbackFails(c) ==
    /\ faults < MaxFaults /\ faults' = faults + 1
    /\ pc[c] = "Rollback"
    /\ staged' = [staged EXCEPT ![c] = {}]
    /\ IF reply[c].status = "Replay" \/ reply[c].kind \in {"InProgress", "PayloadConflict"}
       THEN Answer(c, Failure("Unavailable"))
       ELSE UNCHANGED reply
    /\ Abandon(c)
    /\ Goto(c, "Return")
    /\ UNCHANGED <<ledger, job, loaded, prepared, acks>>

-----------------------------------------------------------------------------
(* The checks of the store's commit against the rows it holds now.         *)
HeadUnchanged(r) == /\ r.commit.sequence = CanonicalHead.sequence + 1
                    /\ r.commit.parent = CanonicalHead.id
                    /\ r.commit.previous_state_root = CanonicalHead.next_state_root

(* Variant: the prior states are not compared.                             *)
StatesUnchecked(r) == r # None

StatesUnchanged(r) == \A k \in Footprint[r.commit.intent] : r.before[k] = projections[k]

RootMatches(r) ==
    r.commit.next_state_root =
        Overlay(projections, Footprint[r.commit.intent], r.before, r.commit.id)

EventsOf(r) == {[commit |-> r.commit.id, intent |-> r.commit.intent, key |-> k,
                 before |-> r.before[k], after |-> After(r.before[k], r.commit.id)]
                : k \in Footprint[r.commit.intent]}

(* The staged rows become visible, all at once.                            *)
Apply(c) ==
    LET r == prepared[c] IN
    /\ events' = IF "Events" \in staged[c] THEN events \cup EventsOf(r) ELSE events
    /\ commits' = IF "CommitRow" \in staged[c] THEN Append(commits, r.commit) ELSE commits
    /\ projections' = IF "Projection" \in staged[c]
                      THEN Overlay(projections, Footprint[r.commit.intent], r.before, r.commit.id)
                      ELSE projections
    /\ outbox' = IF "Outbox" \in staged[c] THEN outbox \cup {r.commit.id} ELSE outbox
    /\ identities' = IF "Finalize" \in staged[c]
                     THEN [identities EXCEPT ![r.commit.intent] =
                              [digest |-> r.digest, commit |-> r.commit.id]]
                     ELSE identities

(* The transaction commits.  answered = FALSE: the store applied it, but   *)
(* the caller gets an error instead.                                       *)
CommitTransaction(c, answered) ==
    LET r == prepared[c] IN
    /\ pc[c] = "Commit"
    /\ HeadUnchanged(r) /\ StatesUnchanged(r) /\ RootMatches(r)
    /\ Apply(c)
    /\ Release(c)
    /\ staged' = [staged EXCEPT ![c] = {}]
    /\ Goto(c, "Return")
    /\ IF answered
       THEN Answer(c, Success("Committed", r.commit.id)) /\ UNCHANGED faults
       ELSE /\ Answer(c, Failure("Unavailable"))
            /\ faults < MaxFaults /\ faults' = faults + 1
    /\ UNCHANGED <<job, loaded, prepared, acks>>

(* The transaction is refused: nothing is applied.                         *)
CommitRefused(c) ==
    LET r == prepared[c] IN
    /\ pc[c] = "Commit"
    /\ ~(HeadUnchanged(r) /\ StatesUnchanged(r) /\ RootMatches(r))
    /\ Answer(c, Failure(IF HeadUnchanged(r) /\ StatesUnchanged(r)
                         THEN "Invariant" ELSE "Conflict"))
    /\ staged' = [staged EXCEPT ![c] = {}]
    /\ Release(c)
    /\ Goto(c, "Return")
    /\ UNCHANGED <<ledger, job, loaded, prepared, acks, faults>>

(* The commit call fails before the store does anything.  persist_durable  *)
(* does not roll back: the transaction is gone with the call.              *)
CommitFails(c) ==
    /\ faults < MaxFaults /\ faults' = faults + 1
    /\ pc[c] = "Commit"
    /\ Answer(c, Failure("Unavailable"))
    /\ staged' = [staged EXCEPT ![c] = {}]
    /\ Abandon(c)
    /\ Goto(c, "Return")
    /\ UNCHANGED <<ledger, job, loaded, prepared, acks>>

-----------------------------------------------------------------------------
(* persist_durable returns.  A success or a permanent refusal ends the     *)
(* job; after anything else the caller still has it, and its request.      *)
Return(c) ==
    LET done == reply[c].kind \notin Retryable IN
    /\ pc[c] = "Return"
    /\ acks' = IF reply[c].status \in {"Committed", "Replay"}
               THEN acks \cup {[intent |-> job[c].intent, payload |-> job[c].payload,
                                commit |-> reply[c].commit]}
               ELSE acks
    /\ job' = IF done THEN [job EXCEPT ![c] = None] ELSE job
    /\ prepared' = IF done THEN [prepared EXCEPT ![c] = None] ELSE prepared
    /\ Goto(c, "Idle")
    /\ reply' = [reply EXCEPT ![c] = NoReply]
    /\ UNCHANGED <<ledger, reserved, loaded, staged, faults>>

(* The process of a caller dies, or its future is dropped, at any await.   *)
(* Its transaction is never committed; its reservation lapses later; the   *)
(* client still wants its intent accepted.                                 *)
Crash(c) ==
    /\ faults < MaxFaults /\ faults' = faults + 1
    /\ pc[c] # "Idle"
    /\ staged' = [staged EXCEPT ![c] = {}]
    /\ loaded' = [loaded EXCEPT ![c] = [k \in Keys |-> None]]
    /\ reply' = [reply EXCEPT ![c] = NoReply]
    /\ Abandon(c)
    /\ Goto(c, "Idle")
    /\ UNCHANGED <<ledger, job, prepared, acks>>

(* Variant: only the reservation of a live transaction ever ends.          *)
ExpireOnlyLive(i) ==
    /\ reserved[i] \in Callers
    /\ reserved' = [reserved EXCEPT ![i] = None]
    /\ UNCHANGED <<ledger, pc, job, loaded, prepared, staged, reply, acks, faults>>

(* A reservation reaches lease_expires_at, whether or not its holder is    *)
(* still running.                                                          *)
ExpireLease(i) ==
    /\ reserved[i] # None
    /\ reserved' = [reserved EXCEPT ![i] = None]
    /\ UNCHANGED <<ledger, pc, job, loaded, prepared, staged, reply, acks, faults>>

Prepare(c) == \/ Execute(c)
              \/ \E k \in Keys : LoadState(c, k)
              \/ \E d \in Payloads, s \in Soundness : Build(c, d, s)

Persist(c) == \/ Begin(c) \/ Claim(c)
              \/ AppendEvents(c) \/ AppendCommit(c) \/ UpsertProjections(c)
              \/ EnqueueOutbox(c) \/ FinalizeIdempotency(c)
              \/ CommitTransaction(c, TRUE) \/ CommitRefused(c)
              \/ Rollback(c) \/ Return(c)

Fault(c) == \/ \E kind \in {"Unavailable", "Conflict"} : CallFails(c, kind)
            \/ RollbackFails(c) \/ CommitFails(c) \/ CommitTransaction(c, FALSE)
            \/ Crash(c)

Next == \/ \E c \in Callers : \/ \E i \in Intents, p \in Payloads : Submit(c, i, p)
                              \/ Prepare(c) \/ Resubmit(c) \/ Persist(c) \/ Fault(c)
        \/ \E i \in Intents : ExpireLease(i)

Spec == Init /\ [][Next]_vars

(* Fairness: a running caller keeps running (an async runtime polls every  *)
(* task), a client with an unanswered intent keeps asking and does not     *)
(* resend one prepared request forever, and leases end.  Faults are not    *)
(* fair and there are at most MaxFaults of them.                           *)
Fairness ==
    /\ \A c \in Callers :
          /\ SF_vars(Execute(c))
          /\ WF_vars(\E k \in Keys : LoadState(c, k))
          /\ SF_vars(\E d \in Payloads, s \in Soundness : Build(c, d, s))
          /\ WF_vars(Persist(c))
    /\ \A i \in Intents : WF_vars(ExpireLease(i))

FairSpec == Spec /\ Fairness

-----------------------------------------------------------------------------
(* Type correctness.                                                       *)
TypeOK == /\ commits \in Seq(Commit)
          /\ events \in SUBSET Event
          /\ projections \in Root
          /\ outbox \in SUBSET CommitIds
          /\ identities \in [Intents -> Identity \cup {None}]
          /\ reserved \in [Intents -> Callers \cup {None, Orphan}]
          /\ pc \in [Callers -> {"Idle", "Load", "Return"} \cup Awaits]
          /\ job \in [Callers -> Job \cup {None}]
          /\ loaded \in [Callers -> [Keys -> State \cup {None}]]
          /\ prepared \in [Callers -> Request \cup {None}]
          /\ staged \in [Callers -> SUBSET Writes]
          /\ reply \in [Callers -> Reply]
          /\ acks \in SUBSET [intent : Intents, payload : Payloads, commit : CommitIds]
          /\ faults \in 0 .. MaxFaults

(* ADR-008: "the command is never executed a second time".  No intent is   *)
(* in two commits, however its attempts overlap: an attempt whose lease    *)
(* lapsed and the one that took over cannot both commit, although the      *)
(* store fences neither of them, because the later one prepared its        *)
(* request before it claimed and the head it was built on is gone.         *)
ExactlyOnce ==
    \A m, n \in DOMAIN commits : commits[m].intent = commits[n].intent => m = n

(* A retry is answered with the original result: every success a caller    *)
(* ever got for an intent names the same commit, which is in the ledger,   *)
(* for that intent and the payload the caller sent - lost answers,         *)
(* takeovers and competing payloads included.                              *)
StableReplay ==
    /\ \A a, b \in acks : a.intent = b.intent => a = b
    /\ \A a \in acks : \E n \in DOMAIN commits :
          /\ commits[n].id = a.commit
          /\ commits[n].intent = a.intent /\ commits[n].payload = a.payload

(* Process termination at every write boundary yields the complete commit  *)
(* or nothing: the rows of a commit, its events, its delivery row and the  *)
(* finalized claim of its intent stand or fall together.                   *)
AllOrNothing ==
    /\ {commits[n].id : n \in DOMAIN commits} = outbox
    /\ {e.commit : e \in events} = outbox
    /\ {identities[i].commit : i \in {j \in Intents : identities[j] # None}} = outbox
    /\ \A n \in DOMAIN commits :
          /\ identities[commits[n].intent] =
                [digest |-> commits[n].payload, commit |-> commits[n].id]
          /\ \A k \in Footprint[commits[n].intent] :
                \E e \in events : e.commit = commits[n].id /\ e.key = k

(* One canonical chain: every commit names its predecessor, its sequence   *)
(* number and the root its predecessor left (check_chain_continuity and    *)
(* verify_state_root_continuity hold of the stored commits), and the head  *)
(* root is the root of the stored projections.                             *)
CanonicalChain ==
    /\ \A n \in DOMAIN commits :
          /\ commits[n].sequence = n
          /\ commits[n].parent = IF n = 1 THEN None ELSE commits[n-1].id
          /\ commits[n].previous_state_root =
                IF n = 1 THEN [k \in Keys |-> Unborn] ELSE commits[n-1].next_state_root
    /\ CanonicalHead.next_state_root = projections

(* No update is lost although states are loaded long before the commit and *)
(* apart from the head: no two events of a key start from the same state,  *)
(* each starts where another ended, and the projection is where the last   *)
(* one ended, so that replaying the events gives the projections.          *)
NoLostUpdate ==
    /\ \A e, f \in events : e.key = f.key /\ e.before = f.before => e = f
    /\ \A e \in events :
          /\ e.before = Unborn \/ \E f \in events : f.key = e.key /\ f.after = e.before
          /\ e.after.version = e.before.version + 1
          /\ e.after.version <= projections[e.key].version
    /\ \A k \in Keys :
          projections[k] = Unborn \/ \E e \in events : e.key = k /\ e.after = projections[k]

(* The ledger is one history: a chain of commits each of which starts      *)
(* where the one before it ended, and events that replay to the stored     *)
(* projections.                                                            *)
LedgerIsHistory == CanonicalChain /\ NoLostUpdate

(* ADR-008: "An aborted transaction must not leave a permanent claimed     *)
(* intent", and a request that fails its checks reserves nothing.  Every   *)
(* reservation belongs to a transaction still at work on an admissible     *)
(* request for that intent, or has lost its transaction to a crash or an   *)
(* unreachable store and waits for its lease to end.                       *)
NoStrandedReservation ==
    \A i \in Intents, c \in Callers : reserved[i] = c =>
        /\ pc[c] \in Writes \cup {"Commit", "Rollback"}
        /\ prepared[c].commit.intent = i /\ Admissible(prepared[c])

(* Nobody waits forever: a client that keeps retrying gets a final answer, *)
(* though attempts conflict on the head, answer "in progress" to each      *)
(* other and die holding reservations.                                     *)
EventuallyAnswered == \A c \in Callers : job[c] # None ~> job[c] = None

(* The ledger as its callers see it: DurableLedger implements AtomicLedger.*)
Atomic == INSTANCE AtomicLedger WITH
    log <- [n \in DOMAIN commits |-> [intent |-> commits[n].intent,
                                      payload |-> commits[n].payload,
                                      commit |-> commits[n].id]],
    version <- [k \in Keys |-> projections[k].version],
    acked <- acks

(* Every concurrent, faulty execution looks to its callers like one in     *)
(* which each intent is executed atomically at most once.                  *)
ImplementsAtomicLedger == Atomic!Spec
=============================================================================
