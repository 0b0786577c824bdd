---------------------------- MODULE RateLimiter -----------------------------
(***************************************************************************)
(* Token buckets keyed by account, tenant or operation:                    *)
(* crates/statechronicle-core/src/rate_limit.rs, and the validated quota   *)
(* calls of crates/statechronicle-ports/src/quota.rs.                      *)
(*                                                                         *)
(* A limiter is a function from the keys it knows to buckets; a bucket has *)
(* its tokens and the time of its last refill. Every call runs under the   *)
(* lock of the limiter, so a call is a function from a limiter to a        *)
(* limiter and a decision. Times are in ticks, Second of them a second.    *)
(***************************************************************************)
EXTENDS Integers, FiniteSets, FiniteSetsExt

CONSTANTS Capacity,         \* the tokens of a full bucket
          RefillPerSecond,  \* the tokens a bucket gains in a second
          Second,           \* the ticks of a second
          MaxKeys,          \* the buckets a limiter may hold
          BadKeys,          \* keys that are empty or too long
          None              \* no decision

ASSUME LimiterAssumption ==
    /\ Capacity \in Nat \ {0} /\ RefillPerSecond \in Nat \ {0}
    /\ Second \in Nat \ {0} /\ MaxKeys \in Nat \ {0}

(* u64::MAX, the wait of a charge no bucket can ever pay.                  *)
Never == -1

Decision(allowed, remaining, retry) ==
    [allowed |-> allowed, remaining |-> remaining, retry_after |-> retry]

(* The bucket of a key that is seen for the first time.                    *)
NewBucket == [tokens |-> Capacity, refilled |-> 0]
NewLimiter == [k \in {} |-> NewBucket]

(* saturating_sub: a clock that steps back refills nothing.                *)
Elapsed(bucket, now) == IF now > bucket.refilled THEN now - bucket.refilled ELSE 0

Refill(bucket, now) == (Elapsed(bucket, now) * RefillPerSecond) \div Second

(* available                                                               *)
Available(bucket, now) ==
    LET tokens == bucket.tokens + Refill(bucket, now)
    IN IF tokens < Capacity THEN tokens ELSE Capacity

(* refill_state: the time moves only when tokens are gained.               *)
RefillState(bucket, now) ==
    IF Refill(bucket, now) > 0
    THEN [tokens |-> Available(bucket, now), refilled |-> now]
    ELSE bucket

(* The wait until a refilled bucket can pay, rounded up.                   *)
RetryAfter(bucket, tokens) ==
    ((tokens - bucket.tokens) * Second + RefillPerSecond - 1) \div RefillPerSecond

(* TokenBucket::try_acquire_n                                             *)
BucketTryAcquireN(bucket, now, tokens) ==
    LET full == RefillState(bucket, now)
        answer(b, d) == [bucket |-> b, decision |-> d]
    IN IF tokens = 0 THEN answer(bucket, Decision(TRUE, Available(bucket, now), 0))
       ELSE IF tokens > Capacity THEN answer(bucket, Decision(FALSE, Capacity, Never))
       ELSE IF full.tokens < tokens
       THEN answer(full, Decision(FALSE, full.tokens, RetryAfter(full, tokens)))
       ELSE answer([full EXCEPT !.tokens = @ - tokens], Decision(TRUE, full.tokens - tokens, 0))

(* What both charges of a keyed limiter answer without looking at a        *)
(* bucket; None when a bucket decides.                                     *)
Early(limiter, keys, tokens) ==
    IF keys = {} \/ keys \cap BadKeys # {} THEN Decision(FALSE, 0, Second)
    ELSE IF tokens = 0 THEN Decision(TRUE, Capacity, 0)
    ELSE IF tokens > Capacity THEN Decision(FALSE, Capacity, Never)
    ELSE IF Cardinality(DOMAIN limiter \cup keys) > MaxKeys
    THEN Decision(FALSE, 0, Second)
    ELSE None

Bucket(limiter, key) == IF key \in DOMAIN limiter THEN limiter[key] ELSE NewBucket

(* KeyedRateLimiter::try_acquire_n                                         *)
TryAcquireN(limiter, key, now, tokens) ==
    LET early == Early(limiter, {key}, tokens)
        charged == BucketTryAcquireN(Bucket(limiter, key), now, tokens)
    IN IF early # None THEN [limiter |-> limiter, decision |-> early]
       ELSE [limiter |-> [k \in DOMAIN limiter \cup {key} |->
                             IF k = key THEN charged.bucket ELSE limiter[k]],
             decision |-> charged.decision]

(* The buckets of a charge, refilled, next to the others.                  *)
Refilled(limiter, keys, now) ==
    [k \in DOMAIN limiter \cup keys |->
        IF k \in keys THEN RefillState(Bucket(limiter, k), now) ELSE limiter[k]]

Pay(limiter, keys, tokens) ==
    [k \in DOMAIN limiter |->
        IF k \in keys THEN [limiter[k] EXCEPT !.tokens = @ - tokens] ELSE limiter[k]]

(* Variant: each bucket that can pay does, whatever the others say.        *)
TryAcquireManyPiecemeal(limiter, keys, now, tokens) ==
    LET early == Early(limiter, keys, tokens)
        full == Refilled(limiter, keys, now)
        short == {k \in keys : full[k].tokens < tokens}
    IN IF early # None THEN [limiter |-> limiter, decision |-> early]
       ELSE [limiter |-> Pay(full, keys \ short, tokens), decision |-> Decision(short = {}, 0, 0)]

(* KeyedRateLimiter::try_acquire_many: the keys are a set, new ones get a  *)
(* bucket, all are refilled, and all of them pay or none does.             *)
TryAcquireMany(limiter, keys, now, tokens) ==
    LET early == Early(limiter, keys, tokens)
        full == Refilled(limiter, keys, now)
        short == {k \in keys : full[k].tokens < tokens}
        least == Min({full[k].tokens : k \in keys})
    IN IF early # None THEN [limiter |-> limiter, decision |-> early]
       ELSE IF short = {}
       THEN [limiter |-> Pay(full, keys, tokens), decision |-> Decision(TRUE, least - tokens, 0)]
       ELSE [limiter |-> full,
             decision |-> Decision(FALSE, least, Max({RetryAfter(full[k], tokens) : k \in short}))]

(* validate_request: a shared quota is never asked for nothing, or for a   *)
(* key or a time that is malformed.                                        *)
ValidateRequest(key, cost, now) == key \notin BadKeys /\ cost > 0 /\ now >= 0

(* try_acquire_validated and try_acquire_many_validated, over a provider   *)
(* that is the limiter; None is the error of an invalid request.           *)
TryAcquireManyValidated(limiter, keys, now, cost) ==
    IF keys = {} \/ \E k \in keys : ~ValidateRequest(k, cost, now) THEN None
    ELSE TryAcquireMany(limiter, keys, now, cost)
=============================================================================
