----------------------------- MODULE Admission ------------------------------
(***************************************************************************)
(* From a request to an event: the ingress routes and the checks of        *)
(* execute_inner in crates/statechronicle-executor/src/pipeline.rs, with   *)
(* the rate limiter, the key registry and the validation of intents in     *)
(* front of them.                                                          *)
(*                                                                         *)
(* A call is answered in steps, one for each await, between which the time *)
(* passes, other calls run, keys are retired or revoked and the members of *)
(* the authority set revoke what they granted. What the profile and the    *)
(* state decide is one outcome, the subject of ProfilePipeline.            *)
(***************************************************************************)
EXTENDS RateLimiter, KeyRegistry, IntentForms, Sequences

CONSTANTS Callers,     \* concurrent calls
          Requests,    \* what may be submitted: a route, a document and who sends it
          Evaluators,  \* how many members the authority set has; the first is the primary
          Policy,      \* the profile's aggregation policy
          InitialKeys, \* the key registry at the start
          LateKey,     \* the id and the record of a key registered later
          Managed,     \* the keys an operator may retire or revoke
          MaxTime, MaxCalls, MaxRevocations

Routes == {"internal", "service", "player", "keyed", "batch"}
IsKeyRecord(k) ==
    k = [tenant |-> k.tenant, subject |-> k.subject, status |-> k.status,
         operations |-> k.operations, valid_from |-> k.valid_from, valid_until |-> k.valid_until]

ASSUME AdmissionAssumption ==
    /\ None \notin Nat /\ Evaluators \in Nat
    /\ \A r \in Requests : r.route \in Routes /\ r.doc.payload # None
    /\ \A k \in DOMAIN InitialKeys : IsKeyRecord(InitialKeys[k]) /\ InitialKeys[k].status # Revoked
    /\ IsKeyRecord(LateKey.record)

Primary == 1
Members == 1 .. Evaluators
Ids == {r.doc.id : r \in Requests}
Payloads == {r.doc.payload : r \in Requests}

VARIABLES now,         \* the clock
          limiter,     \* the buckets of the rate limiter
          granted,     \* ghost: the tokens each dimension has been granted
          keys,        \* the key registry
          everRevoked, \* ghost: the keys that have been revoked
          revokedAt,   \* when each member revoked its grant
          claims,      \* the intent store: the payload each id is claimed with
          call,        \* the call each caller is making; ghosts: withdrawn and revoked, whether
                       \* its key had been withdrawn and the primary had revoked when it began
          emitted,     \* the events of calls that succeeded
          calls

vars == <<now, limiter, granted, keys, everRevoked, revokedAt, claims, call, emitted, calls>>

Dims == UNION {r.dims : r \in Requests}
Charges == {<<r.dims, r.cost>> : r \in Requests}
NoCall == [pc |-> "Idle", req |-> None, gate |-> 0, withdrawn |-> FALSE, revoked |-> FALSE,
           answers |-> <<>>, authority |-> None]

Init == /\ now = 0
        /\ limiter = NewLimiter /\ granted = [d \in Dims |-> 0]
        /\ keys = InitialKeys /\ everRevoked = {}
        /\ revokedAt = [m \in Members |-> None]
        /\ claims = [i \in Ids |-> None]
        /\ call = [c \in Callers |-> NoCall]
        /\ emitted = {}
        /\ calls = 0

(* Variant: the batch route trusts the session for the actor.              *)
GatesUnboundBatch(route) ==
    CASE route = "internal" -> <<{}>>
      [] route = "service"  -> <<{"bind", "authorize"}>>
      [] route = "player"   -> <<{"signed", "bind", "authorize"}>>
      [] route = "keyed"    -> <<{"signed", "key"}, {"bind", "authorize"}>>
      [] route = "batch"    -> <<{"signed", "authorize"}, {"key"}>>

(* What each route asks of a call before the pipeline, in order, one set   *)
(* for each await: execute, execute_authenticated, execute_player (and     *)
(* execute_player_durable), the variants of both with a key registry, and  *)
(* the items of execute_player_batch_durable_with_key_registry.            *)
Gates(route) ==
    CASE route = "internal" -> <<{}>>
      [] route = "service"  -> <<{"bind", "authorize"}>>
      [] route = "player"   -> <<{"signed", "bind", "authorize"}>>
      [] route = "keyed"    -> <<{"signed", "key"}, {"bind", "authorize"}>>
      [] route = "batch"    -> <<{"signed", "bind", "authorize"}, {"key"}>>

KeyPermits(r) ==
    /\ r.signature # None
    /\ ResolveIntentKey(keys, r.doc.tenantId, r.principal.subject, r.signature.key,
                        r.doc.op, r.doc.created_at)

(* The key a request is signed with has been retired or revoked.           *)
Withdrawn(r) == /\ r.signature # None /\ r.signature.key \in DOMAIN keys
                /\ keys[r.signature.key].status # Active

(* The gates that are decided here; the authorizer answers as it likes.    *)
GatePasses(r, gate) ==
    CASE gate = "signed"    -> r.signature # None
      [] gate = "bind"      -> r.principal = [tenant |-> r.doc.tenantId, subject |-> r.doc.actorId]
      [] gate = "key"       -> KeyPermits(r)

Goto(c, pc) == call' = [call EXCEPT ![c].pc = pc]

(* The call returns; what it returned is only written here.                *)
Answer(c, result) == call' = [call EXCEPT ![c] = NoCall]

Admissible(r) == IF r.wire THEN ParseIntent(r.doc) /\ Validate(r.doc) ELSE TryFromIntent(r.doc)

(* A request arrives at the composition root, which charges its account,   *)
(* its tenant and its operation, validates the document and calls a route. *)
Submit(c, r) ==
    /\ call[c].pc = "Idle" /\ calls < MaxCalls
    /\ calls' = calls + 1
    /\ LET charged == TryAcquireManyValidated(limiter, r.dims, now, r.cost)
           paid == charged # None /\ charged.decision.allowed
       IN /\ limiter' = IF charged = None THEN limiter ELSE charged.limiter
          /\ granted' = IF paid THEN [d \in Dims |-> granted[d] + IF d \in r.dims THEN r.cost ELSE 0]
                        ELSE granted
          /\ IF ~paid THEN Answer(c, "RateLimited")
             ELSE IF ~Admissible(r) THEN Answer(c, "Malformed")
             ELSE call' = [call EXCEPT ![c] =
                     [NoCall EXCEPT !.pc = "Gate", !.req = r, !.gate = 1, !.withdrawn = Withdrawn(r),
                                    !.revoked = revokedAt[Primary] # None]]
    /\ UNCHANGED <<now, keys, everRevoked, revokedAt, claims, emitted>>

(* The gates up to the next await and, after the last one, the expiry.     *)
Gate(c) ==
    LET r == call[c].req  n == call[c].gate
        passes == \A g \in Gates(r.route)[n] \ {"authorize"} : GatePasses(r, g)
    IN /\ call[c].pc = "Gate"
       /\ \/ /\ passes /\ n < Len(Gates(r.route))
             /\ call' = [call EXCEPT ![c].gate = n + 1]
          \/ /\ passes /\ n = Len(Gates(r.route))
             /\ IF IsExpired(r.doc, now) THEN Answer(c, "Expired") ELSE Goto(c, "Lookup")
          \/ /\ ~passes \/ "authorize" \in Gates(r.route)[n]
             /\ Answer(c, "ActorAuthenticationFailed")
       /\ UNCHANGED <<now, limiter, granted, keys, everRevoked, revokedAt, claims, emitted, calls>>

(* get_intent: a replay is answered at once, before the signature is       *)
(* looked at. Then the signature, when there is one, is verified.          *)
Lookup(c) ==
    LET r == call[c].req  existing == claims[r.doc.id] IN
    /\ call[c].pc = "Lookup"
    /\ IF existing = r.doc.payload THEN Answer(c, "Replay")
       ELSE IF existing # None THEN Answer(c, "DuplicateIntent")
       ELSE IF r.signature # None /\ ~r.signature.valid THEN Answer(c, "ActorAuthenticationFailed")
       ELSE Goto(c, IF r.doc.authority = None THEN "Load" ELSE "ClientProof")
    /\ UNCHANGED <<now, limiter, granted, keys, everRevoked, revokedAt, claims, emitted, calls>>

(* check_revocation_freshness of the primary member: it knows its own      *)
(* revocations, and a proof that is older than one is stale.               *)
IsFresh(at) == revokedAt[Primary] # None => at >= revokedAt[Primary]

(* The freshness of the proof the client sent.                             *)
ClientProof(c) ==
    /\ call[c].pc = "ClientProof"
    /\ IF IsFresh(call[c].req.doc.authority) THEN Goto(c, "Load") ELSE Answer(c, "AuthorityStale")
    /\ UNCHANGED <<now, limiter, granted, keys, everRevoked, revokedAt, claims, emitted, calls>>

(* The tenant, the profile and the current state are loaded and gated;     *)
(* whatever they refuse ends the call. A binding is evaluated when there   *)
(* is one, and missing when the operation requires it.                     *)
Load(c) ==
    LET r == call[c].req IN
    /\ call[c].pc = "Load"
    /\ \/ Answer(c, "Refused")
       \/ IF r.doc.authority # None
          THEN IF Members = {} THEN Answer(c, "AuthorityUnavailable") ELSE Goto(c, "Evaluate")
          ELSE IF r.required THEN Answer(c, "AuthorityMissing") ELSE Goto(c, "Claim")
    /\ UNCHANGED <<now, limiter, granted, keys, everRevoked, revokedAt, claims, emitted, calls>>

(* What a member may answer: an allowance evaluated now or a little        *)
(* earlier, when its grant had not been revoked; a denial; or nothing.     *)
Outcomes(m) ==
    {[result |-> "allow", at |-> t] :
        t \in {u \in {now - 1, now} : u >= 0 /\ (revokedAt[m] = None \/ u < revokedAt[m])}}
    \cup {[result |-> x, at |-> None] : x \in {"deny", "stale", "unavailable"}}

Allowing(answers) == {m \in DOMAIN answers : answers[m].result = "allow"}
Saying(answers, x) == \E m \in DOMAIN answers : answers[m].result = x

(* The aggregation policy; one that is not known is read as the stricter.  *)
Passes(answers) ==
    IF Policy = "AnyOf" THEN Allowing(answers) # {}
    ELSE \A x \in {"deny", "stale", "unavailable"} : ~Saying(answers, x)

Refusal(answers) ==
    IF Saying(answers, "unavailable") THEN "AuthorityUnavailable"
    ELSE IF Saying(answers, "stale") THEN "AuthorityStale" ELSE "AuthorityDenied"

(* aggregate_evaluation_digest: of a set; a single one stands for itself.  *)
AggregateEvaluationDigest(digests) ==
    IF Cardinality(digests) = 1 THEN CHOOSE d \in digests : TRUE ELSE [policy |-> Policy, of |-> digests]

(* Variant: as of the newest evaluation.                                   *)
AggregateNewest(answers) ==
    [digest |-> AggregateEvaluationDigest({<<m, answers[m].at>> : m \in Allowing(answers)}),
     evaluated_at |-> Max({answers[m].at : m \in Allowing(answers)})]

(* The proof an event carries is as old as its stalest member.             *)
Aggregate(answers) ==
    [digest |-> AggregateEvaluationDigest({<<m, answers[m].at>> : m \in Allowing(answers)}),
     evaluated_at |-> Min({answers[m].at : m \in Allowing(answers)})]

(* evaluate, one member after the other; all of them are asked.            *)
Evaluate(c) ==
    LET m == Len(call[c].answers) + 1 IN
    /\ call[c].pc = "Evaluate"
    /\ \E outcome \in Outcomes(m) :
          LET answers == Append(call[c].answers, outcome) IN
          IF m < Evaluators THEN call' = [call EXCEPT ![c].answers = answers]
          ELSE IF Passes(answers)
          THEN call' = [call EXCEPT ![c].pc = "Recheck", ![c].answers = <<>>,
                                    ![c].authority = Aggregate(answers)]
          ELSE Answer(c, Refusal(answers))
    /\ UNCHANGED <<now, limiter, granted, keys, everRevoked, revokedAt, claims, emitted, calls>>

(* The freshness of the aggregate, asked of the primary.                   *)
Recheck(c) ==
    /\ call[c].pc = "Recheck"
    /\ IF IsFresh(call[c].authority.evaluated_at) THEN Goto(c, "Claim")
       ELSE Answer(c, "AuthorityStale")
    /\ UNCHANGED <<now, limiter, granted, keys, everRevoked, revokedAt, claims, emitted, calls>>

EventOf(c) == [req |-> call[c].req, authority |-> call[c].authority,
               withdrawn |-> call[c].withdrawn, revoked |-> call[c].revoked]

(* Variant: an intent is claimed though the profile refused it.            *)
ClaimFirst(c) ==
    LET doc == call[c].req.doc IN
    /\ call[c].pc = "Claim"
    /\ claims[doc.id] \in {None, doc.payload}
    /\ claims' = [claims EXCEPT ![doc.id] = doc.payload]
    /\ \/ emitted' = emitted \cup {EventOf(c)} /\ Answer(c, "Events")
       \/ emitted' = emitted /\ Answer(c, "TransitionInvalid")
    /\ UNCHANGED <<now, limiter, granted, keys, everRevoked, revokedAt, calls>>

(* The profile's rules and reducer, then put_intent, which accepts an      *)
(* equal claim made since the lookup. A durable route leaves the claim to  *)
(* its sink, which answers an equal one without writing again.             *)
Claim(c) ==
    LET doc == call[c].req.doc  existing == claims[doc.id] IN
    /\ call[c].pc = "Claim"
    /\ \/ Answer(c, "TransitionInvalid") /\ UNCHANGED <<claims, emitted>>
       \/ /\ existing \notin {None, doc.payload}
          /\ Answer(c, "DuplicateIntent") /\ UNCHANGED <<claims, emitted>>
       \/ /\ existing = None \/ (existing = doc.payload /\ ~call[c].req.durable)
          /\ claims' = [claims EXCEPT ![doc.id] = doc.payload]
          /\ emitted' = emitted \cup {EventOf(c)}
          /\ Answer(c, "Events")
       \/ /\ existing = doc.payload /\ call[c].req.durable
          /\ Answer(c, "Replay") /\ UNCHANGED <<claims, emitted>>
    /\ UNCHANGED <<now, limiter, granted, keys, everRevoked, revokedAt, calls>>

(* A port the call awaits fails: the authorizer, the key registry, the     *)
(* intent store, the tenant and state indexes or an authority.             *)
PortFails(c) ==
    /\ call[c].pc \notin {"Idle", "Evaluate"}
    /\ Answer(c, "Unavailable")
    /\ UNCHANGED <<now, limiter, granted, keys, everRevoked, revokedAt, claims, emitted, calls>>

(* A member of the authority set revokes its grant.                        *)
RevokeGrant(m) ==
    /\ revokedAt[m] = None
    /\ Cardinality({x \in Members : revokedAt[x] # None}) < MaxRevocations
    /\ revokedAt' = [revokedAt EXCEPT ![m] = now]
    /\ UNCHANGED <<now, limiter, granted, keys, everRevoked, claims, call, emitted, calls>>

(* An operator registers, retires or revokes a key.                        *)
KeyEvent ==
    /\ \/ /\ keys' = Register(keys, LateKey.id, LateKey.record)
          /\ UNCHANGED everRevoked
       \/ \E k \in Managed \cap DOMAIN keys :
             \/ keys' = SetStatus(keys, k, Retired) /\ UNCHANGED everRevoked
             \/ keys' = SetStatus(keys, k, Revoked) /\ everRevoked' = everRevoked \cup {k}
    /\ UNCHANGED <<now, limiter, granted, revokedAt, claims, call, emitted, calls>>

Tick == /\ now < MaxTime /\ now' = now + 1
        /\ UNCHANGED <<limiter, granted, keys, everRevoked, revokedAt, claims, call, emitted, calls>>

Next == \/ \E c \in Callers : \/ \E r \in Requests : Submit(c, r)
                              \/ Gate(c) \/ Lookup(c) \/ ClientProof(c) \/ Load(c)
                              \/ Evaluate(c) \/ Recheck(c) \/ Claim(c) \/ PortFails(c)
        \/ \E m \in Members : RevokeGrant(m)
        \/ KeyEvent \/ Tick

Spec == Init /\ [][Next]_vars
-----------------------------------------------------------------------------
(* The variables hold what the code's types allow.                         *)
TypeOK ==
    /\ now \in 0 .. MaxTime
    /\ DOMAIN limiter \subseteq Dims /\ Cardinality(DOMAIN limiter) <= MaxKeys
    /\ \A k \in DOMAIN limiter : limiter[k].tokens \in 0 .. Capacity
    /\ \A c \in Callers : call[c].pc = "Idle" \/ call[c].req \in Requests
    /\ \A i \in Ids : claims[i] \in {None} \cup Payloads

(* An id is claimed exactly when events were emitted for it, and all of    *)
(* them for the payload it is claimed with: a request that is refused, at  *)
(* whatever step, leaves nothing that would block or answer a later one    *)
(* ("prevents malformed or unauthorized requests from poisoning the        *)
(* idempotency namespace", execute_inner).                                 *)
ClaimsAreEvents ==
    /\ \A e \in emitted : claims[e.req.doc.id] = e.req.doc.payload
    /\ \A i \in Ids : claims[i] # None => \E e \in emitted : e.req.doc.id = i

(* An event that came in through a player's route was sent by its actor,   *)
(* with a signature that verified; where the route looks at the registry,  *)
(* a key retired or revoked before the call began never carries it         *)
(* through.                                                                *)
PlayersAreTrusted ==
    \A e \in emitted :
        LET r == e.req IN
        /\ r.route \in {"service", "player", "keyed", "batch"} =>
              r.principal = [tenant |-> r.doc.tenantId, subject |-> r.doc.actorId]
        /\ r.route \in {"player", "keyed", "batch"} => r.signature # None /\ r.signature.valid
        /\ r.route \in {"keyed", "batch"} => ~e.withdrawn

(* The authority bound into an event held at the time it names: every      *)
(* member it needs under the policy had not revoked its grant by then, and *)
(* a revocation by the primary that was made before the call began stops   *)
(* it, however old the answers of the members are.                         *)
AuthorityHolds ==
    \A e \in emitted : e.authority # None =>
        LET at == e.authority.evaluated_at
            standing(m) == revokedAt[m] = None \/ revokedAt[m] >= at
        IN IF Policy = "AnyOf" THEN \E m \in Members : standing(m)
           ELSE /\ \A m \in Members : standing(m)
                /\ ~e.revoked

(* A key that was ever revoked is trusted for nothing again, neither for a *)
(* new intent nor for a commit it signed in the past, whatever an operator *)
(* does with it; one that is only retired still vouches for its commits.   *)
RevocationIsTerminal ==
    \A k \in DOMAIN keys : \A at \in 0 .. MaxTime :
        ResolveCommitKey(keys, keys[k].tenant, k, at)
            <=> k \notin everRevoked /\ InWindow(keys[k], at)

(* Only trusted signers get through, and trust that was revoked does not   *)
(* come back.                                                              *)
SignersAreTrusted == PlayersAreTrusted /\ RevocationIsTerminal

(* However calls fall, a dimension is never granted more than a full       *)
(* bucket and what flows into one since the start.                         *)
RateIsBounded ==
    \A d \in Dims : granted[d] <= Capacity + (now * RefillPerSecond) \div Second

(* A denied charge takes nothing: whatever a request asks for now, when it *)
(* is denied each dimension has as much available as before, those that    *)
(* could have paid included ("a denial on one dimension cannot partially   *)
(* debit the others", try_acquire_many).                                   *)
DenialsTakeNothing ==
    \A charge \in Charges :
        LET charged == TryAcquireMany(limiter, charge[1], now, charge[2]) IN
        ~charged.decision.allowed =>
            \A d \in Dims : Available(Bucket(charged.limiter, d), now) = Available(Bucket(limiter, d), now)

(* A caller that waits as long as it was told to finds the tokens it asked *)
(* for, when nobody else charged the dimension in between.                 *)
RetryAfterIsEnough ==
    \A d \in DOMAIN limiter : \A n \in 1 .. Capacity :
        LET full == RefillState(limiter[d], now) IN
        full.tokens < n => Available(full, now + RetryAfter(full, n)) >= n

(* A charge of one dimension comes out the same by either of the two code  *)
(* paths (try_acquire_n, try_acquire_many).                                *)
ChargesAgree ==
    \A d \in Dims : \A n \in {1, Capacity} :
        TryAcquireN(limiter, d, now, n) = TryAcquireMany(limiter, {d}, now, n)

(* The limiter keeps its word: it never grants more than the rate, a       *)
(* denial takes nothing, and who waits as told is served.                  *)
LimitsHold ==
    /\ TypeOK /\ RateIsBounded /\ DenialsTakeNothing /\ RetryAfterIsEnough
    /\ ChargesAgree
=============================================================================
