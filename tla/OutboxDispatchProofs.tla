------------------------ MODULE OutboxDispatchProofs ------------------------
(***************************************************************************)
(* Theorems about the outbox workers, for any number of rows, workers,     *)
(* faults and ticks and for either poison policy.                          *)
(***************************************************************************)
EXTENDS OutboxDispatch, FiniteSetTheorems, TLAPS

USE DEF store

(* The row a worker is settling, as far as its place in the pass tells.    *)
HandlingOf(w) ==
    /\ wpc[w] \in {"Publish", "MarkDelivered", "Quarantine", "Release"} => current[w] \in Rows
    /\ wpc[w] \in {"Publish", "MarkDelivered"} => current[w] \notin Poison
    /\ wpc[w] = "MarkDelivered" => copies[current[w]] > 0
    /\ wpc[w] = "Quarantine" => current[w] \in Poison

Handling == \A w \in Workers : HandlingOf(w)

(* The inductive invariant: types, what a worker knows of its row, and the *)
(* property itself.                                                        *)
DispatchInv == TypeOK /\ Handling /\ DeliveredWasPublished

(* The invariant holds of the empty queue.                                 *)
LEMMA DispatchInvInit == Init => DispatchInv
<1> SUFFICES ASSUME Init PROVE DispatchInv
  BY Zenon
<1>1. TypeOK
  <2>1. current \in [Workers -> Rows \cup {NoRow}] /\ batch \in [Workers -> SUBSET Rows]
    BY Zenon DEF Init
  <2>2. ticks \in [Workers -> 0 .. MaxTicks] /\ faults \in 0 .. MaxFaults
    BY DispatchAssumption DEF Init
  <2>3. copies \in [Rows -> Nat] /\ excuses \in [Rows -> Nat]
    BY Zenon DEF Init
  <2> QED
    BY <2>1, <2>2, <2>3, Zenon DEF Init, TypeOK
<1>2. Handling /\ DeliveredWasPublished
  BY Zenon DEF Init, Handling, HandlingOf, DeliveredWasPublished
<1> QED
  BY <1>1, <1>2, Zenon DEF DispatchInv

(* What the end of a pass assigns has its type.                            *)
LEMMA EndPassType ==
    ASSUME TypeOK, NEW w \in Workers, NEW result \in {"Ok", "Unavailable", "Corrupt"},
           EndPass(w, result)
    PROVE  /\ outcome' \in [Workers -> {"None", "Ok", "Unavailable", "Corrupt"}]
           /\ batch' \in [Workers -> SUBSET Rows]
           /\ current' \in [Workers -> Rows \cup {NoRow}]
           /\ wpc' \in [Workers -> {"Stopped", "Failed", "Dead", "Tick", "Loop",
                                    "Publish", "MarkDelivered", "Quarantine", "Release"}]
BY Zenon DEF EndPass, Goto, TypeOK

(* Counting one more keeps a count per row.                                *)
LEMMA CountOne ==
    ASSUME NEW f \in [Rows -> Nat], NEW x, NEW g, g = [f EXCEPT ![x] = @ + 1]
    PROVE  g \in [Rows -> Nat] /\ \A r \in Rows : g[r] >= f[r]
<1>1. CASE x \in Rows
  BY <1>1
<1>2. CASE x \notin Rows
  <2>1. g = f
    BY <1>2, Zenon
  <2>2. ASSUME NEW n \in Nat PROVE n >= n
    OBVIOUS
  <2> QED
    BY <2>1, <2>2, Zenon
<1> QED
  BY <1>1, <1>2, Zenon

(* A fault keeps the fault counter in its range.                           *)
LEMMA FaultType ==
    ASSUME TypeOK, Fail
    PROVE  faults' \in 0 .. MaxFaults
BY DispatchAssumption DEF Fail, TypeOK

(* Settling a row keeps every type.                                        *)
LEMMA SettleType ==
    ASSUME TypeOK, NEW w \in Workers, Settle(w, "delivered") \/ Settle(w, "quarantined")
                                      \/ Settle(w, "pending")
    PROVE  TypeOK'
BY DEF Settle, Goto, TypeOK

(* Types are preserved by every step.                                      *)
LEMMA DispatchTypeStep ==
    ASSUME TypeOK, [Next]_vars
    PROVE  TypeOK'
<1>1. ASSUME NEW r \in Rows, Enqueue(r) PROVE TypeOK'
  BY <1>1, Zenon DEF Enqueue, TypeOK
<1>2. ASSUME NEW w \in Workers, Start(w) \/ Stop(w) PROVE TypeOK'
  BY <1>2, DispatchAssumption DEF Start, Stop, Goto, TypeOK
<1>3. ASSUME NEW w \in Workers, NEW claimed \in SUBSET Rows, Claim(w, claimed) PROVE TypeOK'
  <2>1. ticks' \in [Workers -> 0 .. MaxTicks]
    BY <1>3, DispatchAssumption DEF Claim, TypeOK
  <2>2. row' \in [Rows -> {"absent", "pending", "leased", "delivered", "quarantined"}]
        /\ owner' \in [Rows -> Workers \cup {Nobody}]
    BY <1>3, Zenon DEF Claim, TypeOK
  <2>3. /\ batch' \in [Workers -> SUBSET Rows]
        /\ corrupt' \in [Workers -> BOOLEAN]
        /\ outcome' \in [Workers -> {"None", "Ok", "Unavailable", "Corrupt"}]
        /\ wpc' \in [Workers -> {"Stopped", "Failed", "Dead", "Tick", "Loop",
                                 "Publish", "MarkDelivered", "Quarantine", "Release"}]
    BY <1>3, Zenon DEF Claim, Goto, TypeOK
  <2> QED
    BY <1>3, <2>1, <2>2, <2>3, Zenon DEF Claim, TypeOK
<1>4. ASSUME NEW w \in Workers, ClaimFails(w) PROVE TypeOK'
  <2>1. ticks' \in [Workers -> 0 .. MaxTicks] /\ corrupt' \in [Workers -> BOOLEAN]
    BY <1>4, DispatchAssumption DEF ClaimFails, TypeOK
  <2> QED
    BY <1>4, <2>1, EndPassType, FaultType, Zenon DEF ClaimFails, TypeOK
<1>5. ASSUME NEW w \in Workers, NEW r \in Rows, NextRow(w, r) PROVE TypeOK'
  BY <1>5, Zenon DEF NextRow, Goto, TypeOK
<1>6. ASSUME NEW w \in Workers, BatchDone(w) \/ Refused(w) PROVE TypeOK'
  BY <1>6, EndPassType, Zenon DEF BatchDone, Refused, TypeOK
<1>7. ASSUME NEW w \in Workers, Publish(w) PROVE TypeOK'
  <2>1. copies' \in [Rows -> Nat]
    BY <1>7, CountOne, Zenon DEF Publish, TypeOK
  <2> QED
    BY <1>7, <2>1, Zenon DEF Publish, Goto, TypeOK
<1>8. ASSUME NEW w \in Workers, NEW arrived \in BOOLEAN, PublishFails(w, arrived) PROVE TypeOK'
  <2>1. copies' \in [Rows -> Nat] /\ excuses' \in [Rows -> Nat]
    BY <1>8, CountOne, Zenon DEF PublishFails, TypeOK
  <2> QED
    BY <1>8, <2>1, FaultType, Zenon DEF PublishFails, Goto, TypeOK
<1>9. ASSUME NEW w \in Workers, MarkDelivered(w) \/ Quarantine(w) PROVE TypeOK'
  BY <1>9, SettleType, Zenon DEF MarkDelivered, Quarantine
<1>10. ASSUME NEW w \in Workers, Release(w) PROVE TypeOK'
  <2>1. CASE Settle(w, "pending")
    BY <2>1, SettleType, Zenon
  <2>2. CASE EndPass(w, "Corrupt") /\ ~Settle(w, "pending")
    BY <1>10, <2>2, EndPassType DEF Release, TypeOK
  <2> QED
    BY <1>10, <2>1, <2>2, Zenon DEF Release
<1>11. ASSUME NEW w \in Workers, SettleFails(w) PROVE TypeOK'
  <2>1. excuses' \in [Rows -> Nat]
    BY <1>11, CountOne, Zenon DEF SettleFails, Excuse, TypeOK
  <2> QED
    BY <1>11, <2>1, EndPassType, FaultType, Zenon DEF SettleFails, TypeOK
<1>12. ASSUME NEW w \in Workers, Die(w) PROVE TypeOK'
  <2>1. excuses' \in [Rows -> Nat]
    BY <1>12, CountOne, Zenon DEF Die, Excuse, TypeOK
  <2> QED
    BY <1>12, <2>1, FaultType, Zenon DEF Die, Goto, TypeOK
<1>13. ASSUME NEW r \in Rows, ExpireDead(r) \/ ExpireLive(r) PROVE TypeOK'
  BY <1>13, FaultType DEF ExpireDead, ExpireLive, EndLease, TypeOK
<1>14. CASE UNCHANGED vars
  BY <1>14, Zenon DEF vars, TypeOK
<1> QED
  BY <1>1, <1>2, <1>3, <1>4, <1>5, <1>6, <1>7, <1>8, <1>9, <1>10, <1>11, <1>12, <1>13, <1>14
    , Zenon DEF Next, Pass

-----------------------------------------------------------------------------
(* A step of one worker leaves what the others know of their rows true:    *)
(* copies are only ever added.                                             *)
LEMMA HandlingFrame ==
    ASSUME TypeOK, TypeOK', Handling, NEW w \in Workers, HandlingOf(w)',
           \A v \in Workers \ {w} : wpc'[v] = wpc[v] /\ current'[v] = current[v],
           \A r \in Rows : copies'[r] >= copies[r]
    PROVE  Handling'
<1> SUFFICES ASSUME NEW v \in Workers, v # w PROVE HandlingOf(v)'
  BY Zenon DEF Handling
<1>1. HandlingOf(v) /\ wpc'[v] = wpc[v] /\ current'[v] = current[v]
  BY Zenon DEF Handling
<1>2. wpc[v] = "MarkDelivered" => copies'[current[v]] > 0
  <2>1. \A r \in Rows : copies[r] \in Nat /\ copies'[r] \in Nat
    BY DEF TypeOK
  <2> QED
    BY <1>1, <2>1 DEF HandlingOf
<1> QED
  BY <1>1, <1>2, Zenon DEF HandlingOf

(* What a worker knows of its row survives every step.                     *)
LEMMA HandlingStep ==
    ASSUME DispatchInv, TypeOK', [Next]_vars
    PROVE  Handling'
<1> USE DEF DispatchInv
<1>0. \A r \in Rows : copies[r] \in Nat /\ copies[r] >= copies[r]
  BY DEF TypeOK
<1>1. ASSUME UNCHANGED <<wpc, current, copies>> PROVE Handling'
  BY <1>1, Zenon DEF Handling, HandlingOf
<1>2. ASSUME NEW w \in Workers, UNCHANGED copies,
             \A v \in Workers \ {w} : wpc'[v] = wpc[v] /\ current'[v] = current[v],
             wpc'[w] \in {"Stopped", "Failed", "Dead", "Tick", "Loop"}
      PROVE  Handling'
  <2>1. HandlingOf(w)'
    BY <1>2, Zenon DEF HandlingOf
  <2> QED
    BY <1>0, <1>2, <2>1, HandlingFrame, Zenon
<1>3. ASSUME NEW w \in Workers, NEW result \in {"Ok", "Unavailable", "Corrupt"},
             EndPass(w, result), UNCHANGED copies
      PROVE  Handling'
  <2>1. /\ wpc'[w] \in {"Failed", "Tick"}
        /\ \A v \in Workers \ {w} : wpc'[v] = wpc[v] /\ current'[v] = current[v]
    BY <1>3 DEF EndPass, Goto, TypeOK
  <2> QED
    BY <1>2, <1>3, <2>1, Zenon
<1>4. ASSUME NEW w \in Workers, NEW status, Settle(w, status) PROVE Handling'
  <2>1. /\ wpc'[w] = "Loop" /\ UNCHANGED copies
        /\ \A v \in Workers \ {w} : wpc'[v] = wpc[v] /\ current'[v] = current[v]
    BY <1>4 DEF Settle, Goto, TypeOK
  <2> QED
    BY <1>2, <2>1, Zenon
<1>5. ASSUME NEW w \in Workers, NEW claimed \in SUBSET Rows,
             Start(w) \/ Stop(w) \/ Claim(w, claimed) \/ Die(w)
      PROVE  Handling'
  <2>1. /\ wpc'[w] \in {"Stopped", "Dead", "Tick", "Loop"} /\ UNCHANGED copies
        /\ \A v \in Workers \ {w} : wpc'[v] = wpc[v] /\ current'[v] = current[v]
    BY <1>5 DEF Start, Stop, Claim, Die, Goto, TypeOK
  <2> QED
    BY <1>2, <2>1, Zenon
<1>6. ASSUME NEW w \in Workers, NEW r \in Rows, NextRow(w, r) PROVE Handling'
  <2>1. /\ UNCHANGED copies /\ current'[w] = r
        /\ wpc'[w] = IF r \notin Poison THEN "Publish"
                     ELSE IF Policy[w] = "Quarantine" THEN "Quarantine" ELSE "Release"
        /\ \A v \in Workers \ {w} : wpc'[v] = wpc[v] /\ current'[v] = current[v]
    BY <1>6 DEF NextRow, Goto, TypeOK
  <2>2. HandlingOf(w)'
    BY <2>1, Zenon DEF HandlingOf
  <2> QED
    BY <1>0, <2>1, <2>2, HandlingFrame, Zenon
<1>7. ASSUME NEW w \in Workers, Publish(w) PROVE Handling'
  <2>1. current[w] \in Rows /\ current[w] \notin Poison
    BY <1>7, Zenon DEF Publish, Handling, HandlingOf
  <2>2. /\ wpc'[w] = "MarkDelivered" /\ current' = current
        /\ \A v \in Workers \ {w} : wpc'[v] = wpc[v] /\ current'[v] = current[v]
    BY <1>7 DEF Publish, Goto, TypeOK
  <2>3. copies'[current[w]] > 0 /\ \A r \in Rows : copies'[r] >= copies[r]
    BY <1>7, <2>1 DEF Publish, TypeOK
  <2>4. HandlingOf(w)'
    BY <2>1, <2>2, <2>3, Zenon DEF HandlingOf
  <2> QED
    BY <2>2, <2>3, <2>4, HandlingFrame, Zenon
<1>8. ASSUME NEW w \in Workers, NEW arrived \in BOOLEAN, PublishFails(w, arrived)
      PROVE  Handling'
  <2>1. current[w] \in Rows
    BY <1>8, Zenon DEF PublishFails, Handling, HandlingOf
  <2>2. /\ wpc'[w] = "Release" /\ current' = current
        /\ \A v \in Workers \ {w} : wpc'[v] = wpc[v] /\ current'[v] = current[v]
    BY <1>8 DEF PublishFails, Goto, TypeOK
  <2>3. \A r \in Rows : copies'[r] >= copies[r]
    BY <1>8, <2>1 DEF PublishFails, TypeOK
  <2>4. HandlingOf(w)'
    BY <2>1, <2>2, Zenon DEF HandlingOf
  <2> QED
    BY <2>2, <2>3, <2>4, HandlingFrame, Zenon
<1>9. ASSUME NEW w \in Workers, Release(w) PROVE Handling'
  BY <1>3, <1>4, <1>9, Zenon DEF Release
<1>10. ASSUME NEW w \in Workers,
              ClaimFails(w) \/ BatchDone(w) \/ Refused(w) \/ SettleFails(w)
       PROVE  Handling'
  BY <1>3, <1>10, Zenon DEF ClaimFails, BatchDone, Refused, SettleFails
<1>11. ASSUME NEW w \in Workers, MarkDelivered(w) \/ Quarantine(w) PROVE Handling'
  BY <1>4, <1>11, Zenon DEF MarkDelivered, Quarantine
<1>12. CASE (\E r \in Rows : Enqueue(r) \/ ExpireDead(r) \/ ExpireLive(r)) \/ UNCHANGED vars
  BY <1>1, <1>12, Zenon DEF Enqueue, ExpireDead, ExpireLive, vars
<1> QED
  BY <1>5, <1>6, <1>7, <1>8, <1>9, <1>10, <1>11, <1>12, Zenon DEF Next, Pass

-----------------------------------------------------------------------------
(* A step that settles no row and publishes none keeps the property.       *)
LEMMA PublishedFrame ==
    ASSUME DeliveredWasPublished, UNCHANGED copies,
           \A r \in Rows : row'[r] \in {"delivered", "quarantined"} => row'[r] = row[r]
    PROVE  DeliveredWasPublished'
BY Zenon DEF DeliveredWasPublished

(* Only rows the broker has are completed, and corrupt rows never reach it:*)
(* preserved by every step.                                                *)
LEMMA PublishedStep ==
    ASSUME DispatchInv, TypeOK', [Next]_vars
    PROVE  DeliveredWasPublished'
<1> USE DEF DispatchInv
<1>1. ASSUME UNCHANGED <<row, copies>> PROVE DeliveredWasPublished'
  BY <1>1, Zenon DEF DeliveredWasPublished
<1>2. ASSUME NEW r \in Rows, row' = [row EXCEPT ![r] = "pending"], UNCHANGED copies
      PROVE  DeliveredWasPublished'
  <2>1. \A s \in Rows : row'[s] \in {"delivered", "quarantined"} => row'[s] = row[s]
    BY <1>2 DEF TypeOK
  <2> QED
    BY <1>2, <2>1, PublishedFrame, Zenon
<1>3. ASSUME NEW w \in Workers, NEW claimed \in SUBSET Rows, Claim(w, claimed)
      PROVE  DeliveredWasPublished'
  <2>1. \A s \in Rows : row'[s] \in {"delivered", "quarantined"} => row'[s] = row[s]
    BY <1>3, Zenon DEF Claim
  <2> QED
    BY <1>3, <2>1, PublishedFrame, Zenon DEF Claim
<1>4. ASSUME NEW w \in Workers, NEW arrived \in BOOLEAN, Publish(w) \/ PublishFails(w, arrived)
      PROVE  DeliveredWasPublished'
  <2>1. current[w] \in Rows /\ current[w] \notin Poison /\ UNCHANGED row
    BY <1>4, Zenon DEF Publish, PublishFails, Handling, HandlingOf
  <2>2. \A s \in Rows : /\ copies[s] \in Nat /\ copies'[s] \in Nat
                        /\ copies'[s] >= copies[s]
                        /\ s \in Poison => copies'[s] = copies[s]
    BY <1>4, <2>1 DEF Publish, PublishFails, TypeOK
  <2> QED
    BY <2>1, <2>2 DEF DeliveredWasPublished
<1>5. ASSUME NEW w \in Workers, MarkDelivered(w) PROVE DeliveredWasPublished'
  <2>1. current[w] \in Rows /\ copies[current[w]] > 0 /\ UNCHANGED copies
    BY <1>5, Zenon DEF MarkDelivered, Settle, Handling, HandlingOf
  <2>2. row' = [row EXCEPT ![current[w]] = "delivered"]
    BY <1>5, Zenon DEF MarkDelivered, Settle
  <2> QED
    BY <2>1, <2>2 DEF DeliveredWasPublished, TypeOK
<1>6. ASSUME NEW w \in Workers, Quarantine(w) PROVE DeliveredWasPublished'
  <2>1. current[w] \in Poison /\ current[w] \in Rows /\ UNCHANGED copies
    BY <1>6, Zenon DEF Quarantine, Settle, Handling, HandlingOf
  <2>2. row' = [row EXCEPT ![current[w]] = "quarantined"]
    BY <1>6, Zenon DEF Quarantine, Settle
  <2> QED
    BY <2>1, <2>2 DEF DeliveredWasPublished, TypeOK
<1>7. ASSUME NEW w \in Workers, Release(w) PROVE DeliveredWasPublished'
  <2>1. current[w] \in Rows
    BY <1>7, Zenon DEF Release, Handling, HandlingOf
  <2>2. row' = [row EXCEPT ![current[w]] = "pending"] /\ UNCHANGED copies
    BY <1>7, Zenon DEF Release, Settle
  <2> QED
    BY <1>2, <2>1, <2>2, Zenon
<1>8. ASSUME NEW r \in Rows, Enqueue(r) \/ ExpireDead(r) \/ ExpireLive(r)
      PROVE  DeliveredWasPublished'
  BY <1>2, <1>8, Zenon DEF Enqueue, ExpireDead, ExpireLive, EndLease
<1>9. ASSUME NEW w \in Workers, NEW r \in Rows, NextRow(w, r) PROVE DeliveredWasPublished'
  BY <1>1, <1>9, Zenon DEF NextRow
<1>10. ASSUME NEW w \in Workers,
              \/ Start(w) \/ Stop(w) \/ ClaimFails(w) \/ BatchDone(w)
              \/ Refused(w) \/ SettleFails(w) \/ Die(w)
       PROVE  DeliveredWasPublished'
  BY <1>1, <1>10, Zenon DEF Start, Stop, ClaimFails, BatchDone, Refused, SettleFails, Die
<1>11. CASE UNCHANGED vars
  BY <1>1, <1>11, Zenon DEF vars
<1> QED
  BY <1>3, <1>4, <1>5, <1>6, <1>7, <1>8, <1>9, <1>10, <1>11, Zenon DEF Next, Pass

(* The invariant is inductive.                                             *)
LEMMA DispatchInvStep == DispatchInv /\ [Next]_vars => DispatchInv'
<1> SUFFICES ASSUME DispatchInv, [Next]_vars PROVE DispatchInv'
  BY Zenon
<1>1. TypeOK'
  BY DispatchTypeStep, Zenon DEF DispatchInv
<1> QED
  BY <1>1, HandlingStep, PublishedStep, Zenon DEF DispatchInv

(* The types of the dispatcher's state hold for any number of rows,        *)
(* workers and faults.                                                     *)
THEOREM DispatchTypeCorrect == Spec => []TypeOK
<1>1. DispatchInv => TypeOK
  BY Zenon DEF DispatchInv
<1> QED
  BY <1>1, DispatchInvInit, DispatchInvStep, PTL DEF Spec

(* dispatch_once_with_policy completes a row only after the broker has it, *)
(* and never hands a corrupt row to the broker, whatever workers, lapsed   *)
(* leases and failed calls came in between.                                *)
THEOREM CompletedMeansPublished == Spec => []DeliveredWasPublished
<1>1. DispatchInv => DeliveredWasPublished
  BY Zenon DEF DispatchInv
<1> QED
  BY <1>1, DispatchInvInit, DispatchInvStep, PTL DEF Spec

(* mark_delivered_by, release_by and quarantine_by check the lease owner,  *)
(* so a stale worker never moves a row that another one settled.           *)
THEOREM SettledRowsStay == Spec => SettledIsFinal
<1> DEFINE Stays == \A r \in Rows : row[r] \in {"delivered", "quarantined"} => row'[r] = row[r]
<1>1. ASSUME DispatchInv, [Next]_vars PROVE Stays
  <2>1. ASSUME NEW r \in Rows, NEW status, row[r] \notin {"delivered", "quarantined"},
               row' = [row EXCEPT ![r] = status]
        PROVE  Stays
    BY <1>1, <2>1, Zenon DEF DispatchInv, TypeOK
  <2>2. ASSUME UNCHANGED row PROVE Stays
    BY <2>2, Zenon
  <2>3. ASSUME NEW w \in Workers, NEW claimed \in SUBSET Rows, Claim(w, claimed) PROVE Stays
    BY <2>3, Zenon DEF Claim, Pending
  <2>4. ASSUME NEW w \in Workers, MarkDelivered(w) \/ Quarantine(w) \/ Release(w) PROVE Stays
    <3>1. current[w] \in Rows
      BY <1>1, <2>4, Zenon DEF DispatchInv, Handling, HandlingOf, MarkDelivered, Quarantine, Release
    <3>2. row[current[w]] = "leased"
      BY <2>4, Zenon DEF MarkDelivered, Quarantine, Release, Owns
    <3>3. \E status : row' = [row EXCEPT ![current[w]] = status]
      BY <2>4, Zenon DEF MarkDelivered, Quarantine, Release, Settle
    <3> QED
      BY <2>1, <3>1, <3>2, <3>3, Zenon
  <2>5. ASSUME NEW r \in Rows, Enqueue(r) \/ ExpireDead(r) \/ ExpireLive(r) PROVE Stays
    <3>1. row[r] \notin {"delivered", "quarantined"} /\ row' = [row EXCEPT ![r] = "pending"]
      BY <2>5, Zenon DEF Enqueue, ExpireDead, ExpireLive, EndLease
    <3> QED
      BY <2>1, <3>1, Zenon
  <2>6. ASSUME NEW w \in Workers, NEW arrived \in BOOLEAN,
               \/ Start(w) \/ Stop(w) \/ ClaimFails(w) \/ BatchDone(w) \/ Refused(w)
               \/ SettleFails(w) \/ Die(w) \/ Publish(w) \/ PublishFails(w, arrived)
               \/ \E r \in Rows : NextRow(w, r)
        PROVE  Stays
    <3>1. UNCHANGED row
      BY <2>6, Zenon DEF Start, Stop, ClaimFails, NextRow, BatchDone, Refused, SettleFails, Die,
                         Publish, PublishFails
    <3> QED
      BY <2>2, <3>1, Zenon
  <2>7. CASE UNCHANGED vars
    BY <2>2, <2>7, Zenon DEF vars
  <2> QED
    BY <1>1, <2>3, <2>4, <2>5, <2>6, <2>7, Zenon DEF Next, Pass
<1>2. DispatchInv /\ [Next]_vars => [Stays]_vars
  BY <1>1, Zenon
<1> QED
  BY <1>2, DispatchInvInit, DispatchInvStep, PTL DEF Spec, SettledIsFinal

-----------------------------------------------------------------------------
(* Duplicates.  A worker whose lease ended under it does not notice and    *)
(* may still publish the row, so "copies[r] <= 1 + excuses[r]" alone is    *)
(* not inductive: the stale workers are counted in advance, and the one    *)
(* copy that needs no excuse is there only once the row is delivered or    *)
(* its owner is about to say so.                                           *)
MayPublish(w, r) ==
    /\ r \in batch[w]
    /\ ~(current[w] = r /\ wpc[w] \in {"MarkDelivered", "Release", "Quarantine"})

Stale(r) == {w \in Workers : MayPublish(w, r) /\ ~Owns(w, r)}

Completing(w, r) == Owns(w, r) /\ wpc[w] = "MarkDelivered" /\ current[w] = r

Completed(r) == row[r] = "delivered" \/ \E w \in Workers : Completing(w, r)

(* n copies so far and one more for each member of S are paid for by m     *)
(* excuses and, when b, by completion.                                     *)
Balanced(n, S, m, b) ==
    IsFiniteSet(S) /\ n + Cardinality(S) <= m + (IF b THEN 1 ELSE 0)

Accounted(r) == Balanced(copies[r], Stale(r), excuses[r], Completed(r))

(* What a worker holds at each place of its pass, and who holds a lease.   *)
PassOf(w) ==
    /\ wpc[w] \in {"Stopped", "Failed", "Dead", "Tick"} => batch[w] = {}
    /\ wpc[w] \in {"Publish", "MarkDelivered", "Quarantine", "Release"} => current[w] \in batch[w]

Passes == /\ \A w \in Workers : PassOf(w)
          /\ \A r \in Rows : row[r] = "leased" => owner[r] \in Workers

AccountInv == DispatchInv /\ Passes /\ \A r \in Rows : Accounted(r)

(* Nobody is stale in the empty queue.                                     *)
LEMMA AccountInvInit == Init => AccountInv
<1> SUFFICES ASSUME Init PROVE AccountInv
  OBVIOUS
<1>1. DispatchInv
  BY DispatchInvInit, Zenon
<1>2. Passes
  BY Zenon DEF Init, Passes, PassOf
<1>3. ASSUME NEW r \in Rows PROVE Accounted(r)
  <2>1. Stale(r) = {}
    BY Zenon DEF Init, Stale, MayPublish
  <2>2. copies[r] = 0 /\ excuses[r] = 0
    BY Zenon DEF Init
  <2> QED
    BY <2>1, <2>2, FS_EmptySet DEF Accounted, Balanced
<1> QED
  BY <1>1, <1>2, <1>3, Zenon DEF AccountInv

(* The places of the passes fit together after every step.                 *)
LEMMA PassesStep ==
    ASSUME DispatchInv, Passes, [Next]_vars
    PROVE  Passes'
<1> USE DEF DispatchInv
<1>0. /\ wpc \in [Workers -> {"Stopped", "Failed", "Dead", "Tick", "Loop",
                              "Publish", "MarkDelivered", "Quarantine", "Release"}]
      /\ batch \in [Workers -> SUBSET Rows] /\ current \in [Workers -> Rows \cup {NoRow}]
  BY Zenon DEF TypeOK
<1>1. ASSUME NEW w \in Workers, PassOf(w)',
             \A v \in Workers \ {w} : /\ wpc'[v] = wpc[v] /\ batch'[v] = batch[v]
                                      /\ current'[v] = current[v],
             \A r \in Rows : row'[r] = "leased" => owner'[r] \in Workers
      PROVE  Passes'
  BY <1>1, Zenon DEF Passes, PassOf
<1>2. ASSUME NEW r \in Rows, Enqueue(r) \/ ExpireDead(r) \/ ExpireLive(r) PROVE Passes'
  <2>1. UNCHANGED <<wpc, batch, current>>
    BY <1>2, Zenon DEF Enqueue, ExpireDead, ExpireLive
  <2>2. \A s \in Rows : row'[s] = "leased" => row[s] = "leased" /\ owner'[s] = owner[s]
    BY <1>2, Zenon DEF Enqueue, ExpireDead, ExpireLive, EndLease, TypeOK
  <2> QED
    BY <2>1, <2>2, Zenon DEF Passes, PassOf
<1>3. ASSUME NEW w \in Workers, Start(w) \/ Stop(w) PROVE Passes'
  <2>1. PassOf(w)'
    BY <1>0, <1>3, Zenon DEF Start, Stop, Goto, Passes, PassOf
  <2> QED
    BY <1>0, <1>1, <1>3, <2>1, Zenon DEF Start, Stop, Goto, Passes
<1>4. ASSUME NEW w \in Workers, NEW claimed \in SUBSET Rows, Claim(w, claimed) PROVE Passes'
  <2>1. PassOf(w)'
    BY <1>0, <1>4, Zenon DEF Claim, Goto, PassOf
  <2>2. \A r \in Rows : row'[r] = "leased" => owner'[r] \in Workers
    BY <1>4, Zenon DEF Claim, Passes, TypeOK
  <2> QED
    BY <1>0, <1>1, <1>4, <2>1, <2>2, Zenon DEF Claim, Goto
<1>5. ASSUME NEW w \in Workers, NEW result \in {"Ok", "Unavailable", "Corrupt"},
             EndPass(w, result),
             \A r \in Rows : row'[r] = "leased" => row[r] = "leased" /\ owner'[r] = owner[r]
      PROVE  Passes'
  <2>1. PassOf(w)'
    BY <1>0, <1>5, Zenon DEF EndPass, Goto, PassOf
  <2>2. \A v \in Workers \ {w} : /\ wpc'[v] = wpc[v] /\ batch'[v] = batch[v]
                                 /\ current'[v] = current[v]
    BY <1>0, <1>5, Zenon DEF EndPass, Goto
  <2> QED
    BY <1>1, <1>5, <2>1, <2>2, Zenon DEF Passes
<1>6. ASSUME NEW w \in Workers, ClaimFails(w) \/ BatchDone(w) \/ Refused(w) \/ SettleFails(w)
      PROVE  Passes'
  <2>1. UNCHANGED <<row, owner>>
    BY <1>6, Zenon DEF ClaimFails, BatchDone, Refused, SettleFails
  <2>2. EndPass(w, "Ok") \/ EndPass(w, "Unavailable")
    BY <1>6, Zenon DEF ClaimFails, BatchDone, Refused, SettleFails
  <2> QED
    BY <1>5, <2>1, <2>2, Zenon
<1>7. ASSUME NEW w \in Workers, Die(w) PROVE Passes'
  <2>1. PassOf(w)'
    BY <1>0, <1>7, Zenon DEF Die, Goto, PassOf
  <2> QED
    BY <1>0, <1>1, <1>7, <2>1, Zenon DEF Die, Goto, Passes
<1>8. ASSUME NEW w \in Workers, NEW r \in Rows, NextRow(w, r) PROVE Passes'
  <2>1. PassOf(w)'
    BY <1>0, <1>8, Zenon DEF NextRow, Goto, PassOf
  <2> QED
    BY <1>0, <1>1, <1>8, <2>1, Zenon DEF NextRow, Goto, Passes
<1>9. ASSUME NEW w \in Workers, NEW arrived \in BOOLEAN, Publish(w) \/ PublishFails(w, arrived)
      PROVE  Passes'
  <2>1. UNCHANGED <<row, owner, batch, current>>
    BY <1>9, Zenon DEF Publish, PublishFails
  <2>2. /\ wpc[w] = "Publish" /\ wpc'[w] \in {"MarkDelivered", "Release"}
        /\ \A v \in Workers \ {w} : wpc'[v] = wpc[v]
    BY <1>0, <1>9, Zenon DEF Publish, PublishFails, Goto
  <2>3. PassOf(w)'
    BY <2>1, <2>2, Zenon DEF Passes, PassOf
  <2> QED
    BY <1>1, <2>1, <2>2, <2>3, Zenon DEF Passes
<1>10. ASSUME NEW w \in Workers, NEW status \in {"delivered", "quarantined", "pending"},
              Settle(w, status), current[w] \in Rows
       PROVE  Passes'
  <2>1. PassOf(w)'
    BY <1>0, <1>10, Zenon DEF Settle, Goto, PassOf
  <2>2. \A r \in Rows : row'[r] = "leased" => row[r] = "leased" /\ owner'[r] = owner[r]
    BY <1>10, Zenon DEF Settle, TypeOK
  <2>3. \A v \in Workers \ {w} : /\ wpc'[v] = wpc[v] /\ batch'[v] = batch[v]
                                 /\ current'[v] = current[v]
    BY <1>0, <1>10, Zenon DEF Settle, Goto
  <2> QED
    BY <1>1, <2>1, <2>2, <2>3, Zenon DEF Passes
<1>11. ASSUME NEW w \in Workers, MarkDelivered(w) \/ Quarantine(w) \/ Release(w) PROVE Passes'
  <2>1. current[w] \in Rows
    BY <1>11, Zenon DEF MarkDelivered, Quarantine, Release, Handling, HandlingOf
  <2>2. CASE \E status \in {"delivered", "quarantined", "pending"} : Settle(w, status)
    BY <1>10, <2>1, <2>2, Zenon
  <2>3. CASE EndPass(w, "Corrupt") /\ row' = [row EXCEPT ![current[w]] = "pending"]
                                   /\ owner' = [owner EXCEPT ![current[w]] = Nobody]
    <3>1. \A r \in Rows : row'[r] = "leased" => row[r] = "leased" /\ owner'[r] = owner[r]
      BY <2>1, <2>3, Zenon DEF TypeOK
    <3> QED
      BY <1>5, <2>3, <3>1, Zenon
  <2> QED
    BY <1>11, <2>2, <2>3, Zenon DEF MarkDelivered, Quarantine, Release
<1>12. CASE UNCHANGED vars
  BY <1>12, Zenon DEF vars, Passes, PassOf
<1> QED
  BY <1>2, <1>3, <1>4, <1>6, <1>7, <1>8, <1>9, <1>11, <1>12, Zenon DEF Next, Pass


(* No copy: nobody becomes stale, and a completion that is lost is excused.*)
LEMMA NoCopy ==
    ASSUME NEW n \in Nat, NEW m \in Nat, NEW m1 \in Nat, NEW S, NEW T, NEW b, NEW b1,
           Balanced(n, S, m, b), T \subseteq S, m1 >= m, b => b1 \/ m1 >= m + 1
    PROVE  Balanced(n, T, m1, b1)
<1>1. IsFiniteSet(T) /\ Cardinality(T) <= Cardinality(S)
  BY FS_Subset, Zenon DEF Balanced
<1>2. Cardinality(S) \in Nat /\ Cardinality(T) \in Nat
  BY <1>1, FS_CardinalityType, Zenon DEF Balanced
<1> QED
  BY <1>1, <1>2 DEF Balanced

(* The owner's copy: it completes the row, or it is excused.               *)
LEMMA OwnersCopy ==
    ASSUME NEW n \in Nat, NEW m \in Nat, NEW m1 \in Nat, NEW S, NEW T, NEW b, NEW b1,
           Balanced(n, S, m, b), T \subseteq S,
           (m1 = m /\ ~b /\ b1) \/ (m1 = m + 1 /\ (b => b1))
    PROVE  Balanced(n + 1, T, m1, b1)
<1>1. IsFiniteSet(T) /\ Cardinality(T) <= Cardinality(S)
  BY FS_Subset, Zenon DEF Balanced
<1>2. Cardinality(S) \in Nat /\ Cardinality(T) \in Nat
  BY <1>1, FS_CardinalityType, Zenon DEF Balanced
<1> QED
  BY <1>1, <1>2 DEF Balanced

(* A stale worker's copy was counted when its lease ended.                 *)
LEMMA StaleCopy ==
    ASSUME NEW n \in Nat, NEW m \in Nat, NEW S, NEW b, NEW w \in S, Balanced(n, S, m, b)
    PROVE  Balanced(n, S \ {w}, m, b) /\ Balanced(n + 1, S \ {w}, m, b)
<1>1. IsFiniteSet(S \ {w}) /\ Cardinality(S \ {w}) = Cardinality(S) - 1
  BY FS_RemoveElement, Zenon DEF Balanced
<1>2. Cardinality(S) \in Nat
  BY FS_CardinalityType, Zenon DEF Balanced
<1> QED
  BY <1>1, <1>2 DEF Balanced

(* A lease ends under a running pass: one excuse, for one more stale       *)
(* worker or for the copy of an owner about to complete the row.           *)
LEMMA LeaseEnds ==
    ASSUME NEW n \in Nat, NEW m \in Nat, NEW S, NEW T, NEW b, NEW b1, NEW w,
           Balanced(n, S, m, b), T \subseteq S \cup {w}, b => T \subseteq S
    PROVE  Balanced(n, T, m + 1, b1)
<1>1. CASE T \subseteq S
  BY <1>1, NoCopy
<1>2. CASE ~b
  <2>1. /\ IsFiniteSet(S \cup {w})
        /\ Cardinality(S \cup {w}) \in {Cardinality(S), Cardinality(S) + 1}
    BY FS_AddElement, Zenon DEF Balanced
  <2>2. IsFiniteSet(T) /\ Cardinality(T) <= Cardinality(S \cup {w})
    BY <2>1, FS_Subset, Zenon
  <2>3. Cardinality(S) \in Nat /\ Cardinality(T) \in Nat
    BY <2>2, FS_CardinalityType, Zenon DEF Balanced
  <2> QED
    BY <1>2, <2>1, <2>2, <2>3 DEF Balanced
<1> QED
  BY <1>1, <1>2, Zenon

(* What one worker does leaves the others as stale as they were.           *)
LEMMA StaleFrame ==
    ASSUME NEW r \in Rows, NEW w \in Workers,
           \A v \in Workers \ {w} :
              /\ wpc'[v] = wpc[v] /\ batch'[v] = batch[v] /\ current'[v] = current[v]
              /\ Owns(v, r)' <=> Owns(v, r)
    PROVE  /\ Stale(r)' \subseteq Stale(r) \cup {w}
           /\ \A v \in Workers \ {w} : Completing(v, r)' <=> Completing(v, r)
BY Zenon DEF Stale, MayPublish, Completing


(* Every row's account balances after every step.                          *)
LEMMA AccountStep ==
    ASSUME AccountInv, TypeOK', [Next]_vars, NEW r \in Rows
    PROVE  Accounted(r)'
<1> USE DEF AccountInv, DispatchInv
<1>0. /\ wpc \in [Workers -> {"Stopped", "Failed", "Dead", "Tick", "Loop",
                              "Publish", "MarkDelivered", "Quarantine", "Release"}]
      /\ batch \in [Workers -> SUBSET Rows] /\ current \in [Workers -> Rows \cup {NoRow}]
      /\ copies \in [Rows -> Nat] /\ excuses \in [Rows -> Nat]
      /\ copies[r] \in Nat /\ excuses[r] \in Nat /\ excuses'[r] \in Nat
      /\ excuses[r] >= excuses[r] /\ Accounted(r)
  BY DEF TypeOK
\* a step of the queue alone
<1>1. ASSUME UNCHANGED <<wpc, batch, current, copies>>,
             excuses'[r] = excuses[r], row'[r] = row[r], owner'[r] = owner[r]
      PROVE  Accounted(r)'
  <2>1. Stale(r)' = Stale(r) /\ (Completed(r) => Completed(r)')
    BY <1>1, Zenon DEF Stale, MayPublish, Owns, Completed, Completing
  <2> QED
    BY <1>0, <1>1, <2>1, NoCopy DEF Accounted
<1>2. ASSUME NEW s \in Rows, Enqueue(s) PROVE Accounted(r)'
  <2>1. UNCHANGED <<wpc, batch, current, copies, excuses, owner>>
    BY <1>2, Zenon DEF Enqueue
  <2>2. CASE s = r
    <3>1. row[r] = "absent" /\ row'[r] = "pending"
      BY <1>2, <2>2 DEF Enqueue, TypeOK
    <3>2. Stale(r)' = Stale(r) /\ ~Completed(r)
      BY <2>1, <3>1, Zenon DEF Stale, MayPublish, Owns, Completed, Completing
    <3> QED
      BY <1>0, <2>1, <3>2, NoCopy DEF Accounted
  <2>3. CASE s # r
    BY <1>1, <1>2, <2>1, <2>3 DEF Enqueue, TypeOK
  <2> QED
    BY <2>2, <2>3, Zenon
<1>3. ASSUME NEW s \in Rows, ExpireDead(s) PROVE Accounted(r)'
  <2>1. UNCHANGED <<wpc, batch, current, copies, excuses>>
    BY <1>3, Zenon DEF ExpireDead
  <2>2. CASE s = r
    <3>1. /\ row[r] = "leased" /\ row'[r] = "pending" /\ r \notin batch[owner[r]]
      BY <1>3, <2>2 DEF ExpireDead, EndLease, Live, TypeOK
    <3>2. ~Completed(r)
      BY <3>1, Zenon DEF Completed, Completing, Owns, Passes, PassOf
    <3>3. Stale(r)' \subseteq Stale(r)
      BY <2>1, <3>1, Zenon DEF Stale, MayPublish, Owns
    <3> QED
      BY <1>0, <2>1, <3>2, <3>3, NoCopy, Zenon DEF Accounted
  <2>3. CASE s # r
    BY <1>1, <1>3, <2>1, <2>3 DEF ExpireDead, EndLease, TypeOK
  <2> QED
    BY <2>2, <2>3
<1>4. ASSUME NEW s \in Rows, ExpireLive(s) PROVE Accounted(r)'
  <2>1. UNCHANGED <<wpc, batch, current, copies>>
    BY <1>4, Zenon DEF ExpireLive
  <2>2. CASE s = r
    <3>1. row[r] = "leased" /\ row'[r] = "pending" /\ excuses'[r] = excuses[r] + 1
      BY <1>0, <1>4, <2>2 DEF ExpireLive, EndLease, TypeOK
    <3>2. Stale(r)' \subseteq Stale(r) \cup {owner[r]}
      BY <2>1, <3>1, Zenon DEF Stale, MayPublish, Owns
    <3>3. ASSUME Completed(r) PROVE Stale(r)' \subseteq Stale(r)
      BY <2>1, <3>1, <3>3, Zenon DEF Completed, Completing, Stale, MayPublish, Owns
    <3>4. Balanced(copies[r], Stale(r)', excuses[r] + 1, Completed(r)')
      <4>1. Balanced(copies[r], Stale(r), excuses[r], Completed(r))
        BY <1>0, Zenon DEF Accounted
      <4> QED
        BY <1>0, <3>2, <3>3, <4>1, LeaseEnds, Zenon
    <3> QED
      BY <2>1, <3>1, <3>4, Zenon DEF Accounted
  <2>3. CASE s # r
    BY <1>0, <1>1, <1>4, <2>1, <2>3 DEF ExpireLive, EndLease, TypeOK
  <2> QED
    BY <2>2, <2>3
\* a step of a worker
<1>5. ASSUME NEW w \in Workers, copies'[r] = copies[r], excuses'[r] >= excuses[r],
             \A v \in Workers \ {w} :
                /\ wpc'[v] = wpc[v] /\ batch'[v] = batch[v] /\ current'[v] = current[v]
                /\ Owns(v, r)' <=> Owns(v, r),
             MayPublish(w, r)' => Owns(w, r)' \/ (MayPublish(w, r) /\ ~Owns(w, r)),
             row[r] = "delivered" => row'[r] = "delivered",
             Completing(w, r) => Completed(r)' \/ excuses'[r] >= excuses[r] + 1
      PROVE  Accounted(r)'
  <2>1. Stale(r)' \subseteq Stale(r)
    BY <1>5, StaleFrame, Zenon DEF Stale
  <2>2. Completed(r) => Completed(r)' \/ excuses'[r] >= excuses[r] + 1
    BY <1>5, StaleFrame, Zenon DEF Completed
  <2> QED
    BY <1>0, <1>5, <2>1, <2>2, NoCopy, Zenon DEF Accounted
<1>6. ASSUME NEW w \in Workers, Start(w) \/ Stop(w) PROVE Accounted(r)'
  <2>1. UNCHANGED <<row, owner, copies, excuses, batch, current>>
    BY <1>6, Zenon DEF Start, Stop
  <2>2. /\ wpc[w] # "MarkDelivered" /\ batch'[w] = {}
        /\ \A v \in Workers \ {w} : wpc'[v] = wpc[v]
    BY <1>0, <1>6, <2>1, Zenon DEF Start, Stop, Goto, Passes, PassOf
  <2> QED
    BY <1>0, <1>5, <2>1, <2>2, Zenon DEF Owns, MayPublish, Completing
<1>7. ASSUME NEW w \in Workers, NEW claimed \in SUBSET Rows, Claim(w, claimed)
      PROVE  Accounted(r)'
  <2>1. /\ UNCHANGED <<copies, excuses, current>> /\ batch'[w] = claimed
        /\ \A v \in Workers \ {w} : wpc'[v] = wpc[v] /\ batch'[v] = batch[v]
        /\ wpc[w] = "Tick"
    BY <1>0, <1>7, Zenon DEF Claim, Goto
  <2>2. /\ r \in claimed => row[r] = "pending" /\ row'[r] = "leased" /\ owner'[r] = w
        /\ r \notin claimed => row'[r] = row[r] /\ owner'[r] = owner[r]
    BY <1>7, Zenon DEF Claim, Pending
  <2> QED
    BY <1>0, <1>5, <2>1, <2>2 DEF Owns, MayPublish, Completing
<1>8. ASSUME NEW w \in Workers, NEW result, EndPass(w, result), UNCHANGED copies,
             excuses'[r] >= excuses[r], row'[r] = row[r], owner'[r] = owner[r],
             Completing(w, r) => excuses'[r] >= excuses[r] + 1
      PROVE  Accounted(r)'
  <2>1. /\ batch'[w] = {}
        /\ \A v \in Workers \ {w} : /\ wpc'[v] = wpc[v] /\ batch'[v] = batch[v]
                                    /\ current'[v] = current[v]
    BY <1>0, <1>8, Zenon DEF EndPass, Goto
  <2> QED
    BY <1>0, <1>5, <1>8, <2>1, Zenon DEF Owns, MayPublish
<1>9. ASSUME NEW w \in Workers, ClaimFails(w) \/ BatchDone(w) \/ Refused(w) PROVE Accounted(r)'
  <2>1. UNCHANGED <<row, owner, copies, excuses>>
    BY <1>9, Zenon DEF ClaimFails, BatchDone, Refused
  <2>2. \E result : EndPass(w, result)
    BY <1>9, Zenon DEF ClaimFails, BatchDone, Refused
  <2>3. ~Completing(w, r)
    BY <1>9, Zenon DEF ClaimFails, BatchDone, Refused, Completing
  <2> QED
    BY <1>0, <1>8, <2>1, <2>2, <2>3, Zenon
<1>10. ASSUME NEW w \in Workers, Excuse(w)
       PROVE  excuses'[r] >= excuses[r] /\ (Completing(w, r) => excuses'[r] >= excuses[r] + 1)
  BY <1>0, <1>10 DEF Excuse, Completing
<1>11. ASSUME NEW w \in Workers, SettleFails(w) PROVE Accounted(r)'
  BY <1>8, <1>10, <1>11, Zenon DEF SettleFails
<1>12. ASSUME NEW w \in Workers, Die(w) PROVE Accounted(r)'
  <2>1. /\ batch'[w] = {} /\ UNCHANGED <<row, owner, copies>> /\ Excuse(w)
        /\ \A v \in Workers \ {w} : /\ wpc'[v] = wpc[v] /\ batch'[v] = batch[v]
                                    /\ current'[v] = current[v]
    BY <1>0, <1>12, Zenon DEF Die, Goto
  <2> QED
    BY <1>5, <1>10, <2>1, Zenon DEF Owns, MayPublish
<1>13. ASSUME NEW w \in Workers, NEW s \in Rows, NextRow(w, s) PROVE Accounted(r)'
  <2>1. /\ UNCHANGED <<row, owner, copies, excuses, batch>> /\ wpc[w] = "Loop"
        /\ \A v \in Workers \ {w} : wpc'[v] = wpc[v] /\ current'[v] = current[v]
    BY <1>0, <1>13, Zenon DEF NextRow, Goto
  <2> QED
    BY <1>0, <1>5, <2>1, Zenon DEF Owns, MayPublish, Completing
<1>14. ASSUME NEW w \in Workers, NEW arrived \in BOOLEAN, Publish(w) \/ PublishFails(w, arrived)
       PROVE  Accounted(r)'
  <2>1. /\ UNCHANGED <<row, owner, batch, current>> /\ wpc[w] = "Publish"
        /\ wpc'[w] \in {"MarkDelivered", "Release"}
        /\ \A v \in Workers \ {w} : wpc'[v] = wpc[v]
    BY <1>0, <1>14, Zenon DEF Publish, PublishFails, Goto
  <2>2. CASE current[w] # r
    <3>1. copies'[r] = copies[r] /\ excuses'[r] = excuses[r]
      BY <1>0, <1>14, <2>2, Zenon DEF Publish, PublishFails
    <3> QED
      BY <1>0, <1>5, <2>1, <2>2, <3>1, Zenon DEF Owns, MayPublish, Completing
  <2>3. CASE current[w] = r
    <3>1. /\ copies'[r] \in {copies[r], copies[r] + 1}
          /\ \/ excuses'[r] = excuses[r] + 1
             \/ excuses'[r] = excuses[r] /\ copies'[r] = copies[r]
             \/ excuses'[r] = excuses[r] /\ wpc'[w] = "MarkDelivered" /\ copies'[r] = copies[r] + 1
          /\ excuses'[r] = excuses[r] + 1 => copies'[r] = copies[r] + 1
      BY <1>0, <1>14, <2>3 DEF Publish, PublishFails, Goto
    <3>2. ~MayPublish(w, r)' /\ Stale(r)' \subseteq Stale(r) \ {w} /\ r \in batch[w]
      BY <2>1, <2>3, StaleFrame, Zenon DEF MayPublish, Stale, Owns, Passes, PassOf
    <3>3. Completed(r) => Completed(r)'
      BY <2>1, Zenon DEF Completed, Completing, Owns
    <3>4. excuses'[r] >= excuses[r]
      BY <1>0, <3>1
    <3>5. CASE ~Owns(w, r)
      <4>1. w \in Stale(r)
        BY <2>1, <3>2, <3>5, Zenon DEF Stale, MayPublish
      <4>2. Balanced(copies[r], Stale(r), excuses[r], Completed(r))
        BY <1>0, Zenon DEF Accounted
      <4>3. /\ Balanced(copies[r], Stale(r) \ {w}, excuses[r], Completed(r))
            /\ Balanced(copies[r] + 1, Stale(r) \ {w}, excuses[r], Completed(r))
        BY <1>0, <4>1, <4>2, StaleCopy, Zenon
      <4>4. copies'[r] \in Nat /\ Balanced(copies'[r], Stale(r) \ {w}, excuses[r], Completed(r))
        BY <1>0, <3>1, <4>3
      <4> QED
        BY <1>0, <3>2, <3>3, <3>4, <4>4, NoCopy DEF Accounted
    <3>6. CASE Owns(w, r)
      <4>1. ~Completed(r)
        BY <2>1, <3>6, Zenon DEF Completed, Completing, Owns
      <4>2. Stale(r)' \subseteq Stale(r)
        BY <3>2, Zenon
      <4>3. CASE excuses'[r] = excuses[r] + 1
        <5>1. copies'[r] = copies[r] + 1 /\ excuses[r] + 1 \in Nat
          BY <1>0, <3>1, <4>3, Zenon
        <5>2. Balanced(copies[r] + 1, Stale(r)', excuses[r] + 1, Completed(r)')
          <6>1. Balanced(copies[r], Stale(r), excuses[r], Completed(r))
            BY <1>0 DEF Accounted
          <6> QED
            BY <1>0, <3>3, <4>2, <5>1, <6>1, OwnersCopy, Zenon
        <5> QED
          BY <4>3, <5>1, <5>2, Zenon DEF Accounted
      <4>4. CASE excuses'[r] = excuses[r] /\ copies'[r] = copies[r]
        BY <1>0, <3>4, <4>1, <4>2, <4>4, NoCopy, Zenon DEF Accounted
      <4>5. CASE excuses'[r] = excuses[r] /\ wpc'[w] = "MarkDelivered" /\ copies'[r] = copies[r] + 1
        <5>1. Completed(r)'
          BY <2>1, <2>3, <3>6, <4>5, Zenon DEF Completed, Completing, Owns
        <5>2. Balanced(copies[r] + 1, Stale(r)', excuses[r], Completed(r)')
          <6>1. Balanced(copies[r], Stale(r), excuses[r], Completed(r))
            BY <1>0 DEF Accounted
          <6> QED
            BY <1>0, <4>1, <4>2, <5>1, <6>1, OwnersCopy, Zenon
        <5> QED
          BY <4>5, <5>2, Zenon DEF Accounted
      <4> QED
        BY <3>1, <4>3, <4>4, <4>5, Zenon
    <3> QED
      BY <3>5, <3>6, Zenon
  <2> QED
    BY <2>2, <2>3, Zenon
<1>15. ASSUME NEW w \in Workers, NEW status \in {"delivered", "quarantined", "pending"},
              Owns(w, current[w]), current[w] \in Rows,
              wpc[w] = "MarkDelivered" => status = "delivered",
              row' = [row EXCEPT ![current[w]] = status],
              owner' = [owner EXCEPT ![current[w]] = Nobody],
              UNCHANGED <<copies, excuses>>,
              wpc'[w] \in {"Loop", "Failed"},
              batch'[w] \subseteq batch[w] \ {current[w]},
              \A v \in Workers \ {w} : /\ wpc'[v] = wpc[v] /\ batch'[v] = batch[v]
                                       /\ current'[v] = current[v]
       PROVE  Accounted(r)'
  <2>1. CASE current[w] # r
    <3>1. row'[r] = row[r] /\ owner'[r] = owner[r]
      BY <1>15, <2>1 DEF TypeOK
    <3>2. \A v \in Workers : Owns(v, r)' <=> Owns(v, r)
      BY <3>1, Zenon DEF Owns
    <3>3. MayPublish(w, r)' => MayPublish(w, r)
      BY <1>15, <2>1, Zenon DEF MayPublish
    <3>4. ~Completing(w, r)
      BY <2>1, Zenon DEF Completing
    <3>5. copies'[r] = copies[r] /\ excuses'[r] >= excuses[r]
      BY <1>0, <1>15, Zenon
    <3> QED
      BY <1>5, <1>15, <3>1, <3>2, <3>3, <3>4, <3>5, Zenon
  <2>2. CASE current[w] = r
    <3>1. row[r] = "leased" /\ owner[r] = w /\ row'[r] = status /\ r \notin batch'[w]
      BY <1>15, <2>2 DEF TypeOK, Owns
    <3>2. \A v \in Workers \ {w} : ~Owns(v, r) /\ ~Owns(v, r)'
      BY <3>1, Zenon DEF Owns
    <3>3. Completing(w, r) => Completed(r)'
      BY <1>15, <3>1, Zenon DEF Completing, Completed
    <3> QED
      BY <1>0, <1>5, <1>15, <3>1, <3>2, <3>3, Zenon DEF MayPublish
  <2> QED
    BY <2>1, <2>2, Zenon
<1>16. ASSUME NEW w \in Workers, MarkDelivered(w) \/ Quarantine(w) \/ Release(w)
       PROVE  Accounted(r)'
  <2>1. Owns(w, current[w]) /\ current[w] \in Rows
    BY <1>16, Zenon DEF MarkDelivered, Quarantine, Release, Handling, HandlingOf
  <2>2. ASSUME NEW status \in {"delivered", "quarantined", "pending"}, Settle(w, status),
               wpc[w] = "MarkDelivered" => status = "delivered"
        PROVE  Accounted(r)'
    BY <1>0, <1>15, <2>1, <2>2, Zenon DEF Settle, Goto
  <2>3. ASSUME EndPass(w, "Corrupt"), row' = [row EXCEPT ![current[w]] = "pending"],
               owner' = [owner EXCEPT ![current[w]] = Nobody], wpc[w] = "Release",
               UNCHANGED <<copies, excuses>>
        PROVE  Accounted(r)'
    BY <1>0, <1>15, <2>1, <2>3, Zenon DEF EndPass, Goto
  <2>4. CASE MarkDelivered(w)
    BY <2>2, <2>4, Zenon DEF MarkDelivered
  <2>5. CASE Quarantine(w)
    BY <2>2, <2>5, Zenon DEF Quarantine
  <2>6. CASE Release(w)
    BY <2>2, <2>3, <2>6, ZenonT(30) DEF Release
  <2> QED
    BY <1>16, <2>4, <2>5, <2>6, Zenon
<1>17. CASE UNCHANGED vars
  BY <1>1, <1>17, Zenon DEF vars
<1> QED
  BY <1>2, <1>3, <1>4, <1>6, <1>7, <1>9, <1>11, <1>12, <1>13, <1>14, <1>16, <1>17, ZenonT(30)
     DEF Next, Pass

(* The accounts are inductive.                                             *)
LEMMA AccountInvStep == AccountInv /\ [Next]_vars => AccountInv'
<1> SUFFICES ASSUME AccountInv, [Next]_vars PROVE AccountInv'
  OBVIOUS
<1>1. DispatchInv' /\ TypeOK'
  BY DispatchInvStep, Zenon DEF AccountInv, DispatchInv
<1>2. Passes'
  BY PassesStep, Zenon DEF AccountInv
<1>3. \A r \in Rows : Accounted(r)'
  BY <1>1, AccountStep, Zenon
<1> QED
  BY <1>1, <1>2, <1>3, Zenon DEF AccountInv

(* At-least-once delivery with a price on every duplicate: of any number   *)
(* of workers with lapsed leases, crashes and lost answers, no row reaches *)
(* the broker a second time without a fault that accounts for it.          *)
THEOREM DuplicatesHaveACause == Spec => []DuplicatesAreExcused
<1>1. AccountInv => DuplicatesAreExcused
  <2> SUFFICES ASSUME AccountInv, NEW r \in Rows PROVE copies[r] <= 1 + excuses[r]
    BY Zenon DEF DuplicatesAreExcused
  <2>1. Cardinality(Stale(r)) \in Nat /\ copies[r] \in Nat /\ excuses[r] \in Nat
    BY FS_CardinalityType, Zenon DEF AccountInv, DispatchInv, TypeOK, Accounted, Balanced
  <2>2. copies[r] + Cardinality(Stale(r)) <= excuses[r] + 1
    BY <2>1 DEF AccountInv, Accounted, Balanced
  <2> QED
    BY <2>1, <2>2
<1> QED
  BY <1>1, AccountInvInit, AccountInvStep, PTL DEF Spec
=============================================================================
