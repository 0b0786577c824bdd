---------------------------- MODULE ConsumerDedup ----------------------------
(***************************************************************************)
(* A downstream consumer of outbox deliveries: consume_once over a durable *)
(* ConsumerDedupStore (crates/statechronicle-ports/src/outbox.rs).  The    *)
(* broker hands a published row to any consumer instance, any number of    *)
(* times.  The store gives each attempt on a key a lease; the callback is  *)
(* not in the store's transaction, so it and mark_delivery_applied are two *)
(* steps.                                                                  *)
(***************************************************************************)
EXTENDS Naturals

CONSTANTS Rows,         \* delivery keys
          Consumers,    \* consumer instances
          Nobody,       \* no consumer
          MaxLapses     \* failures: refused calls, crashes, leases ending early

VARIABLES copies,    \* how often each row has reached the broker
          record,    \* the dedup record of every key
          holder,    \* the attempt whose lease a claimed key is under
          kpc,       \* the await each consumer is at
          message,   \* the delivery it is handling
          applied,   \* how often the callback has taken effect for a key
          reruns,    \* the failures that justify a further callback
          lapses     \* failures injected so far

attempt == <<kpc, message>>
kvars == <<record, holder, kpc, message, applied, reruns, lapses>>
vars == <<copies, kvars>>

NoMessage == "no message"

Init == /\ record = [r \in Rows |-> "New"]
        /\ holder = [r \in Rows |-> Nobody]
        /\ kpc = [k \in Consumers |-> "Idle"]
        /\ message = [k \in Consumers |-> NoMessage]
        /\ applied = [r \in Rows |-> 0]
        /\ reruns = [r \in Rows |-> 0]
        /\ lapses = 0

Lapse == lapses < MaxLapses /\ lapses' = lapses + 1

Done(k) == /\ kpc' = [kpc EXCEPT ![k] = "Idle"]
           /\ message' = [message EXCEPT ![k] = NoMessage]

(* Variant: the claim of a key that is in progress is granted.             *)
ConsumeTakesOver(k, r) ==
    /\ kpc[k] = "Idle" /\ copies[r] > 0
    /\ record[r] # "Applied"
    /\ record' = [record EXCEPT ![r] = "Claimed"]
    /\ holder' = [holder EXCEPT ![r] = k]
    /\ kpc' = [kpc EXCEPT ![k] = "Apply"]
    /\ message' = [message EXCEPT ![k] = r]
    /\ UNCHANGED <<applied, reruns, lapses>>

(* A delivery arrives and its key is claimed for a new attempt.  A key     *)
(* that is applied already is acknowledged and one that is in progress is  *)
(* left for later; neither call changes anything.                          *)
Consume(k, r) ==
    /\ kpc[k] = "Idle" /\ copies[r] > 0
    /\ record[r] = "New"
    /\ record' = [record EXCEPT ![r] = "Claimed"]
    /\ holder' = [holder EXCEPT ![r] = k]
    /\ kpc' = [kpc EXCEPT ![k] = "Apply"]
    /\ message' = [message EXCEPT ![k] = r]
    /\ UNCHANGED <<applied, reruns, lapses>>

(* The callback takes effect.                                              *)
Apply(k) ==
    /\ kpc[k] = "Apply"
    /\ applied' = [applied EXCEPT ![message[k]] = @ + 1]
    /\ kpc' = [kpc EXCEPT ![k] = "MarkApplied"]
    /\ UNCHANGED <<record, holder, message, reruns, lapses>>

(* Variant: a failed callback is recorded as applied.                      *)
ApplyFailureIgnored(k) ==
    /\ Lapse
    /\ kpc[k] = "Apply"
    /\ kpc' = [kpc EXCEPT ![k] = "MarkApplied"]
    /\ UNCHANGED <<record, holder, message, applied, reruns>>

(* The callback fails without effect.                                      *)
ApplyFails(k) ==
    /\ Lapse
    /\ kpc[k] = "Apply"
    /\ kpc' = [kpc EXCEPT ![k] = "Release"]
    /\ UNCHANGED <<record, holder, message, applied, reruns>>

Holds(k, r) == record[r] = "Claimed" /\ holder[r] = k

MarkApplied(k) ==
    /\ kpc[k] = "MarkApplied" /\ Holds(k, message[k])
    /\ record' = [record EXCEPT ![message[k]] = "Applied"]
    /\ holder' = [holder EXCEPT ![message[k]] = Nobody]
    /\ Done(k)
    /\ UNCHANGED <<applied, reruns, lapses>>

Release(k) ==
    /\ kpc[k] = "Release" /\ Holds(k, message[k])
    /\ record' = [record EXCEPT ![message[k]] = "New"]
    /\ holder' = [holder EXCEPT ![message[k]] = Nobody]
    /\ Done(k)
    /\ UNCHANGED <<applied, reruns, lapses>>

(* The attempt is no longer the one the record is claimed for.             *)
Refused(k) ==
    /\ kpc[k] \in {"MarkApplied", "Release"} /\ ~Holds(k, message[k])
    /\ Done(k)
    /\ UNCHANGED <<record, holder, applied, reruns, lapses>>

(* The store cannot record the outcome, or the consumer dies: the claim    *)
(* stays until its lease ends.                                             *)
Interrupted(k) ==
    /\ Lapse
    /\ kpc[k] # "Idle"
    /\ reruns' = IF kpc[k] = "MarkApplied" /\ Holds(k, message[k])
                 THEN [reruns EXCEPT ![message[k]] = @ + 1] ELSE reruns
    /\ Done(k)
    /\ UNCHANGED <<record, holder, applied>>

(* A lease ends: of an attempt that is over, or of one still running.      *)
Running(r) == record[r] = "Claimed" /\ message[holder[r]] = r

EndLease(r) == /\ record[r] = "Claimed"
               /\ record' = [record EXCEPT ![r] = "New"]
               /\ holder' = [holder EXCEPT ![r] = Nobody]

ExpireDead(r) == /\ EndLease(r) /\ ~Running(r)
                 /\ UNCHANGED <<attempt, applied, reruns, lapses>>

ExpireRunning(r) == /\ EndLease(r) /\ Running(r) /\ Lapse
                    /\ reruns' = [reruns EXCEPT ![r] = @ + 1]
                    /\ UNCHANGED <<attempt, applied>>

Attempt(k) == Apply(k) \/ MarkApplied(k) \/ Release(k) \/ Refused(k)

Next == \/ \E k \in Consumers : \/ Attempt(k) \/ ApplyFails(k) \/ Interrupted(k)
                                \/ \E r \in Rows : Consume(k, r)
        \/ \E r \in Rows : ExpireDead(r) \/ ExpireRunning(r)

Spec == Init /\ [][Next /\ UNCHANGED copies]_vars
-----------------------------------------------------------------------------
(* Type correctness of the consumer's own state.                           *)
TypeOK == /\ record \in [Rows -> {"New", "Claimed", "Applied"}]
          /\ holder \in [Rows -> Consumers \cup {Nobody}]
          /\ kpc \in [Consumers -> {"Idle", "Apply", "MarkApplied", "Release"}]
          /\ message \in [Consumers -> Rows \cup {NoMessage}]
          /\ applied \in [Rows -> Nat] /\ reruns \in [Rows -> Nat]
          /\ lapses \in 0 .. MaxLapses

(* However many copies of a delivery arrive, its callback takes effect at  *)
(* most once, plus once for each lease that ended under a running attempt  *)
(* and each attempt that was cut off between apply and                     *)
(* mark_delivery_applied.                                                  *)
RerunsAreExcused == \A r \in Rows : applied[r] <= 1 + reruns[r]

(* A key is recorded as applied only after its callback took effect.       *)
AppliedMeansApplied == \A r \in Rows : record[r] = "Applied" => applied[r] > 0
=============================================================================
