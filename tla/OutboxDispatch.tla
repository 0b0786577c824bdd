--------------------------- MODULE OutboxDispatch ---------------------------
(***************************************************************************)
(* The outbox side of the ledger (crates/statechronicle-ports/src/         *)
(* outbox.rs): workers run bounded passes (dispatch_once_with_policy under *)
(* run_outbox_worker) over the delivery rows that commits leave behind.    *)
(* A pass claims rows under a lease, publishes them and marks them; every  *)
(* await may fail, a worker may die in a pass, and a lease may end while   *)
(* its owner is still publishing.                                          *)
(*                                                                         *)
(* The store is the OutboxStore contract: claims take pending rows only,   *)
(* and completion, release and quarantine are refused to a worker that no  *)
(* longer owns the row.  Reports are counted in OutboxDrain; backoff times *)
(* and error texts are left out.                                           *)
(***************************************************************************)
EXTENDS Naturals, FiniteSets

CONSTANTS Rows,        \* delivery keys
          Poison,      \* the rows whose stored payload fails its digest
          Workers,     \* worker ids
          BatchSize,   \* config.batch_size
          MaxTicks,    \* config.max_ticks
          Policy,      \* config.poison_policy of each worker
          Nobody,      \* no worker
          MaxFaults    \* how many calls fail, workers die, live leases end

ASSUME DispatchAssumption ==
    /\ Poison \subseteq Rows /\ Nobody \notin Workers
    /\ BatchSize \in Nat \ {0} /\ MaxTicks \in Nat \ {0} /\ MaxFaults \in Nat
    /\ Policy \in [Workers -> {"Retry", "Quarantine"}]

VARIABLES row,      \* the state of every delivery row
          owner,    \* the worker whose lease a leased row is under
          copies,   \* how often each row has reached the broker
          excuses,  \* the faults that justify a further copy of a row
          wpc,      \* the await each worker is at
          batch,    \* the claimed rows a pass has still to settle
          current,  \* the row being settled
          ticks,    \* ticks the worker has attempted
          outcome,  \* what the last pass returned
          corrupt,  \* whether the last pass met a corrupt row
          faults    \* failures injected so far

store == <<row, owner>>
vars == <<row, owner, copies, excuses, wpc, batch, current, ticks, outcome, corrupt, faults>>

NoRow == "no row"

Init == /\ row = [r \in Rows |-> "absent"]
        /\ owner = [r \in Rows |-> Nobody]
        /\ copies = [r \in Rows |-> 0]
        /\ excuses = [r \in Rows |-> 0]
        /\ wpc = [w \in Workers |-> "Stopped"]
        /\ batch = [w \in Workers |-> {}]
        /\ current = [w \in Workers |-> NoRow]
        /\ ticks = [w \in Workers |-> 0]
        /\ outcome = [w \in Workers |-> "None"]
        /\ corrupt = [w \in Workers |-> FALSE]
        /\ faults = 0

Goto(w, label) == wpc' = [wpc EXCEPT ![w] = label]
Fail == faults < MaxFaults /\ faults' = faults + 1

(* Variant: a quarantined row is enqueued again.                           *)
EnqueueAgain(r) == /\ row[r] \in {"absent", "quarantined"}
                   /\ row' = [row EXCEPT ![r] = "pending"]
                   /\ UNCHANGED <<owner, copies, excuses, wpc, batch, current, ticks, outcome, corrupt, faults>>

(* A ledger commit makes its row visible (enqueue_outbox, committed).      *)
Enqueue(r) == /\ row[r] = "absent"
              /\ row' = [row EXCEPT ![r] = "pending"]
              /\ UNCHANGED <<owner, copies, excuses, wpc, batch, current, ticks, outcome, corrupt, faults>>

(* The deployment's supervisor calls run_outbox_worker (again).            *)
Start(w) == /\ wpc[w] \in {"Stopped", "Failed", "Dead"}
            /\ Goto(w, "Tick")
            /\ ticks' = [ticks EXCEPT ![w] = 0]
            /\ UNCHANGED <<store, copies, excuses, batch, current, outcome, corrupt, faults>>

(* The worker leaves its loop, out of ticks or told to stop, and returns   *)
(* its report.                                                             *)
Stop(w) == /\ wpc[w] = "Tick"
           /\ Goto(w, "Stopped")
           /\ UNCHANGED <<store, copies, excuses, batch, current, ticks, outcome, corrupt, faults>>

(* Variant: a row under another worker's lease is claimed too.             *)
PendingIgnoresLeases == {r \in Rows : row[r] \in {"pending", "leased"}}

Pending == {r \in Rows : row[r] = "pending"}

(* Variant: the tick limit is off by one.                                  *)
ClaimOneTickMore(w, claimed) ==
    /\ wpc[w] = "Tick" /\ ticks[w] <= MaxTicks
    /\ claimed \subseteq Pending
    /\ Cardinality(claimed) = IF Cardinality(Pending) < BatchSize
                              THEN Cardinality(Pending) ELSE BatchSize
    /\ row' = [r \in Rows |-> IF r \in claimed THEN "leased" ELSE row[r]]
    /\ owner' = [r \in Rows |-> IF r \in claimed THEN w ELSE owner[r]]
    /\ batch' = [batch EXCEPT ![w] = claimed]
    /\ ticks' = [ticks EXCEPT ![w] = @ + 1]
    /\ corrupt' = [corrupt EXCEPT ![w] = FALSE]
    /\ outcome' = [outcome EXCEPT ![w] = "None"]
    /\ Goto(w, "Loop")
    /\ UNCHANGED <<copies, excuses, current, faults>>

(* A tick claims as many pending rows as the limit allows.                 *)
Claim(w, claimed) ==
    /\ wpc[w] = "Tick" /\ ticks[w] < MaxTicks
    /\ claimed \subseteq Pending
    /\ Cardinality(claimed) = IF Cardinality(Pending) < BatchSize
                              THEN Cardinality(Pending) ELSE BatchSize
    /\ row' = [r \in Rows |-> IF r \in claimed THEN "leased" ELSE row[r]]
    /\ owner' = [r \in Rows |-> IF r \in claimed THEN w ELSE owner[r]]
    /\ batch' = [batch EXCEPT ![w] = claimed]
    /\ ticks' = [ticks EXCEPT ![w] = @ + 1]
    /\ corrupt' = [corrupt EXCEPT ![w] = FALSE]
    /\ outcome' = [outcome EXCEPT ![w] = "None"]
    /\ Goto(w, "Loop")
    /\ UNCHANGED <<copies, excuses, current, faults>>

(* The pass is over.  Rows it has not settled stay leased to the worker    *)
(* until their lease ends.  A transient error costs the tick, corruption   *)
(* ends the worker.                                                        *)
EndPass(w, result) ==
    /\ outcome' = [outcome EXCEPT ![w] = result]
    /\ batch' = [batch EXCEPT ![w] = {}]
    /\ current' = [current EXCEPT ![w] = NoRow]
    /\ Goto(w, IF result = "Corrupt" THEN "Failed" ELSE "Tick")

ClaimFails(w) ==
    /\ Fail
    /\ wpc[w] = "Tick" /\ ticks[w] < MaxTicks
    /\ ticks' = [ticks EXCEPT ![w] = @ + 1]
    /\ corrupt' = [corrupt EXCEPT ![w] = FALSE]
    /\ EndPass(w, "Unavailable")
    /\ UNCHANGED <<store, copies, excuses>>

(* Variant: the poison policy is ignored and a corrupt row is released.    *)
NextRowReleasesPoison(w, r) ==
    /\ wpc[w] = "Loop" /\ r \in batch[w]
    /\ current' = [current EXCEPT ![w] = r]
    /\ corrupt' = IF r \in Poison THEN [corrupt EXCEPT ![w] = TRUE] ELSE corrupt
    /\ Goto(w, IF r \notin Poison THEN "Publish" ELSE "Release")
    /\ UNCHANGED <<store, copies, excuses, batch, ticks, outcome, faults>>

(* The next row of the batch: its digest is checked before it is published.*)
NextRow(w, r) ==
    /\ wpc[w] = "Loop" /\ r \in batch[w]
    /\ current' = [current EXCEPT ![w] = r]
    /\ corrupt' = IF r \in Poison THEN [corrupt EXCEPT ![w] = TRUE] ELSE corrupt
    /\ Goto(w, IF r \notin Poison THEN "Publish"
               ELSE IF Policy[w] = "Quarantine" THEN "Quarantine" ELSE "Release")
    /\ UNCHANGED <<store, copies, excuses, batch, ticks, outcome, faults>>

BatchDone(w) ==
    /\ wpc[w] = "Loop" /\ batch[w] = {}
    /\ EndPass(w, "Ok")
    /\ UNCHANGED <<store, copies, excuses, ticks, corrupt, faults>>

Publish(w) ==
    /\ wpc[w] = "Publish"
    /\ copies' = [copies EXCEPT ![current[w]] = @ + 1]
    /\ Goto(w, "MarkDelivered")
    /\ UNCHANGED <<store, excuses, batch, current, ticks, outcome, corrupt, faults>>

(* Variant: the publisher's error is dropped.                              *)
PublishErrorDropped(w, arrived) ==
    /\ Fail
    /\ wpc[w] = "Publish"
    /\ copies' = IF arrived THEN [copies EXCEPT ![current[w]] = @ + 1] ELSE copies
    /\ Goto(w, "MarkDelivered")
    /\ UNCHANGED <<store, excuses, batch, current, ticks, outcome, corrupt>>

(* The publisher reports an error; the broker may have the message all the *)
(* same.                                                                   *)
PublishFails(w, arrived) ==
    /\ Fail
    /\ wpc[w] = "Publish"
    /\ copies' = IF arrived THEN [copies EXCEPT ![current[w]] = @ + 1] ELSE copies
    /\ excuses' = IF arrived THEN [excuses EXCEPT ![current[w]] = @ + 1] ELSE excuses
    /\ Goto(w, "Release")
    /\ UNCHANGED <<store, batch, current, ticks, outcome, corrupt>>

(* The row of a call that settles it: refused unless w's lease still       *)
(* stands.                                                                 *)
Owns(w, r) == row[r] = "leased" /\ owner[r] = w

Settle(w, status) ==
    LET r == current[w] IN
    /\ row' = [row EXCEPT ![r] = status]
    /\ owner' = [owner EXCEPT ![r] = Nobody]
    /\ batch' = [batch EXCEPT ![w] = @ \ {r}]
    /\ current' = [current EXCEPT ![w] = NoRow]
    /\ Goto(w, "Loop")
    /\ UNCHANGED <<copies, excuses, ticks, outcome, corrupt, faults>>

MarkDelivered(w) == wpc[w] = "MarkDelivered" /\ Owns(w, current[w]) /\ Settle(w, "delivered")

Quarantine(w) == wpc[w] = "Quarantine" /\ Owns(w, current[w]) /\ Settle(w, "quarantined")

(* release_by after a publisher error keeps the pass going; after a digest *)
(* mismatch the pass returns Corrupt.                                      *)
Release(w) ==
    /\ wpc[w] = "Release" /\ Owns(w, current[w])
    /\ \/ current[w] \notin Poison /\ Settle(w, "pending")
       \/ /\ current[w] \in Poison
          /\ row' = [row EXCEPT ![current[w]] = "pending"]
          /\ owner' = [owner EXCEPT ![current[w]] = Nobody]
          /\ EndPass(w, "Corrupt")
          /\ UNCHANGED <<copies, excuses, ticks, corrupt, faults>>

(* The worker's lease was taken over: the call is refused and ends the     *)
(* pass.                                                                   *)
Refused(w) ==
    /\ wpc[w] \in {"MarkDelivered", "Quarantine", "Release"} /\ ~Owns(w, current[w])
    /\ EndPass(w, "Unavailable")
    /\ UNCHANGED <<store, copies, excuses, ticks, corrupt, faults>>

(* A published row that is not marked will be published again.             *)
Excuse(w) == excuses' = IF wpc[w] = "MarkDelivered" /\ Owns(w, current[w])
                        THEN [excuses EXCEPT ![current[w]] = @ + 1] ELSE excuses

(* The store cannot be reached: nothing is settled and the pass ends.      *)
SettleFails(w) ==
    /\ Fail
    /\ wpc[w] \in {"MarkDelivered", "Quarantine", "Release"}
    /\ Excuse(w)
    /\ EndPass(w, "Unavailable")
    /\ UNCHANGED <<store, copies, ticks, corrupt>>

(* The worker's process dies anywhere in its loop.                         *)
Die(w) ==
    /\ Fail
    /\ wpc[w] \notin {"Stopped", "Failed", "Dead"}
    /\ Excuse(w)
    /\ batch' = [batch EXCEPT ![w] = {}]
    /\ current' = [current EXCEPT ![w] = NoRow]
    /\ Goto(w, "Dead")
    /\ UNCHANGED <<store, copies, ticks, outcome, corrupt>>

(* A lease ends and the row can be claimed again: the lease of a pass that *)
(* is over, or of one still running, whose owner does not notice.          *)
Live(r) == row[r] = "leased" /\ r \in batch[owner[r]]

EndLease(r) == /\ row[r] = "leased"
               /\ row' = [row EXCEPT ![r] = "pending"]
               /\ owner' = [owner EXCEPT ![r] = Nobody]

ExpireDead(r) == /\ EndLease(r) /\ ~Live(r)
                 /\ UNCHANGED <<copies, excuses, wpc, batch, current, ticks, outcome, corrupt, faults>>

ExpireLive(r) == /\ EndLease(r) /\ Live(r) /\ Fail
                 /\ excuses' = [excuses EXCEPT ![r] = @ + 1]
                 /\ UNCHANGED <<copies, wpc, batch, current, ticks, outcome, corrupt>>

Pass(w) == \/ \E r \in Rows : NextRow(w, r)
           \/ BatchDone(w) \/ Publish(w) \/ MarkDelivered(w) \/ Quarantine(w)
           \/ Release(w) \/ Refused(w)

Next == \/ \E r \in Rows : Enqueue(r) \/ ExpireDead(r) \/ ExpireLive(r)
        \/ \E w \in Workers :
              \/ Start(w) \/ Stop(w) \/ Pass(w)
              \/ \E claimed \in SUBSET Rows : Claim(w, claimed)
              \/ ClaimFails(w) \/ SettleFails(w) \/ Die(w)
              \/ \E arrived \in BOOLEAN : PublishFails(w, arrived)

Spec == Init /\ [][Next]_vars

(* Fairness: a pass that has begun runs on, the supervisor restarts its    *)
(* workers and does not stop every one of them before it claims, and       *)
(* leases of passes that are over end.  Failures are not fair.             *)
Fairness ==
    /\ \A w \in Workers :
          /\ WF_vars(Start(w)) /\ WF_vars(Pass(w))
          /\ WF_vars(ticks[w] = MaxTicks /\ Stop(w))
          /\ SF_vars(\E claimed \in SUBSET Rows : Claim(w, claimed))
    /\ \A r \in Rows : WF_vars(ExpireDead(r))

FairSpec == Spec /\ Fairness
-----------------------------------------------------------------------------
(* Type correctness.                                                       *)
TypeOK == /\ row \in [Rows -> {"absent", "pending", "leased", "delivered", "quarantined"}]
          /\ owner \in [Rows -> Workers \cup {Nobody}]
          /\ copies \in [Rows -> Nat] /\ excuses \in [Rows -> Nat]
          /\ wpc \in [Workers -> {"Stopped", "Failed", "Dead", "Tick", "Loop",
                                  "Publish", "MarkDelivered", "Quarantine", "Release"}]
          /\ batch \in [Workers -> SUBSET Rows]
          /\ current \in [Workers -> Rows \cup {NoRow}]
          /\ ticks \in [Workers -> 0 .. MaxTicks]
          /\ outcome \in [Workers -> {"None", "Ok", "Unavailable", "Corrupt"}]
          /\ corrupt \in [Workers -> BOOLEAN]
          /\ faults \in 0 .. MaxFaults

(* Delivery is at least once, and more than once only for a reason: every  *)
(* copy of a row after its first is paid for by a lease that ended under a *)
(* running pass, a publish or a completion whose answer was lost, or a     *)
(* worker that died between publish and mark_delivered_by.                 *)
DuplicatesAreExcused == \A r \in Rows : copies[r] <= 1 + excuses[r]

(* "A publisher failure never marks a row delivered": a row is completed   *)
(* only when the broker has it, and a row whose payload fails its digest   *)
(* never reaches the broker, whichever workers held it in between.         *)
DeliveredWasPublished ==
    \A r \in Rows : /\ row[r] = "delivered" => copies[r] > 0
                    /\ r \in Poison => copies[r] = 0
                    /\ row[r] = "quarantined" => r \in Poison

(* A settled row stays settled: no stale worker, retry or late release     *)
(* puts a delivered or quarantined row back into the queue.                *)
SettledIsFinal ==
    [][\A r \in Rows : row[r] \in {"delivered", "quarantined"} => row'[r] = row[r]]_vars

(* Every healthy row is delivered in the end, though passes are cut short, *)
(* leases end and workers die, and corrupt rows do not stand in the way.   *)
HealthyRowsDelivered ==
    \A r \in Rows \ Poison : row[r] = "pending" ~> row[r] = "delivered"

(* Under the quarantine policy, for every worker, a corrupt row leaves the *)
(* queue.                                                                  *)
PoisonQuarantined ==
    \A r \in Poison : row[r] = "pending" ~> row[r] = "quarantined"
=============================================================================
