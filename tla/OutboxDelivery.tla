--------------------------- MODULE OutboxDelivery ---------------------------
(***************************************************************************)
(* End-to-end delivery: the outbox workers publish rows to the broker and  *)
(* the consumers apply what the broker has.  The two sides share only the  *)
(* number of copies of each row that reached the broker.                   *)
(***************************************************************************)
EXTENDS OutboxDispatch

CONSTANTS Consumers,   \* consumer instances
          MaxLapses    \* failures on the consumer side

ASSUME DeliveryAssumption == Nobody \notin Consumers /\ MaxLapses \in Nat

VARIABLES record, holder, kpc, message, applied, reruns, lapses

consumerVars == <<record, holder, kpc, message, applied, reruns, lapses>>
deliveryVars == <<vars, consumerVars>>

Consumer == INSTANCE ConsumerDedup

DeliveryInit == Init /\ Consumer!Init

Dispatch == Next /\ UNCHANGED consumerVars
Consumption == Consumer!Next /\ UNCHANGED vars

DeliveryNext == Dispatch \/ Consumption

(* Fairness: the broker redelivers what is not acknowledged, an attempt    *)
(* that began goes on, and leases of attempts that are over end.           *)
ConsumerFairness ==
    /\ \A k \in Consumers : WF_consumerVars(Consumer!Attempt(k))
    /\ \A r \in Rows : /\ SF_consumerVars(\E k \in Consumers : Consumer!Consume(k, r))
                       /\ WF_consumerVars(Consumer!ExpireDead(r))

DeliverySpec == /\ DeliveryInit /\ [][DeliveryNext]_deliveryVars
                /\ Fairness /\ ConsumerFairness
-----------------------------------------------------------------------------
(* However many copies of a delivery the broker hands on, its callback     *)
(* runs at most once more than leases ended and attempts died under it.    *)
RerunsAreExcused == Consumer!RerunsAreExcused

(* No consumer ever acts on a delivery that no commit enqueued, or whose   *)
(* payload failed its digest.                                              *)
NothingInvented ==
    \A r \in Rows : applied[r] > 0 => r \notin Poison /\ row[r] # "absent"

(* What a consumer recorded as applied was applied, enqueued by a commit   *)
(* and intact, with its dispatchers and its broker around it.              *)
AppliedIsReal ==
    Consumer!TypeOK /\ Consumer!AppliedMeansApplied /\ NothingInvented

(* A delivery that is complete for the ledger may still be pending for the *)
(* consumer, but it is never lost: every healthy row that was enqueued is  *)
(* recorded as applied in the end.                                         *)
EnqueuedIsApplied ==
    \A r \in Rows \ Poison : row[r] = "pending" ~> record[r] = "Applied"

(* Every row comes to its end: a healthy one is delivered and applied, a   *)
(* corrupt one quarantined, though passes are cut short, leases end and    *)
(* workers and consumers die.                                              *)
DeliveriesComplete ==
    HealthyRowsDelivered /\ PoisonQuarantined /\ EnqueuedIsApplied
=============================================================================
