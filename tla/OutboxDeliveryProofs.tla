------------------------ MODULE OutboxDeliveryProofs ------------------------
(***************************************************************************)
(* Theorems about those who live with the outbox workers, for any number   *)
(* of rows, workers, consumers, faults and ticks: the callers of dispatch  *)
(* passes (what dispatch_until_idle and run_outbox_worker report), and the *)
(* consumers behind the broker.                                            *)
(***************************************************************************)
EXTENDS OutboxDrain, OutboxDelivery, OutboxDispatchProofs

USE DEF store
-----------------------------------------------------------------------------
(* Drains *)

(* Counting changes nothing that a worker does.                            *)
LEMMA DrainStepIsDispatch == [DrainNext]_allVars => [Next]_vars
<1> SUFFICES ASSUME [DrainNext]_allVars PROVE [Next]_vars
  BY Zenon
<1>1. CASE UNCHANGED allVars
  BY <1>1, Zenon DEF allVars
<1>2. CASE \E r \in Rows : Enqueue(r) \/ ExpireDead(r) \/ ExpireLive(r)
  BY <1>2, Zenon DEF Next
<1>3. ASSUME NEW w \in Workers,
             \/ Begin(w) \/ Return(w) \/ PassDone(w) \/ PassFails(w) \/ Lost(w) \/ Elsewhere(w)
             \/ CountDelivered(w) \/ CountQuarantined(w) \/ CountRetried(w)
             \/ \E claimed \in SUBSET Rows : NextPass(w, claimed)
      PROVE  Next
  BY <1>3, Zenon DEF Begin, Return, PassDone, PassFails, Lost, Elsewhere, CountDelivered,
     CountQuarantined, CountRetried, NextPass, Next, Pass
<1> QED
  BY <1>1, <1>2, <1>3, Zenon DEF DrainNext

(* Workers whose reports are counted, drains among them, are workers: what *)
(* is proved of dispatch passes holds under dispatch_until_idle and        *)
(* run_outbox_worker.                                                      *)
THEOREM DrainsAreDispatch == DrainSpec => Spec
<1>1. DrainInit => Init
  BY Zenon DEF DrainInit
<1> QED
  BY <1>1, DrainStepIsDispatch, PTL DEF DrainSpec, Spec

(* The rows that commits have enqueued so far, always finitely many.       *)
Known == {r \in Rows : row[r] # "absent"}

Reports == [delivered : Nat, retried : Nat, quarantined : Nat]

CountsOK == /\ pass \in [Workers -> Reports] /\ report \in [Workers -> Reports]
            /\ leaving \in [Workers -> {"no", "idle", "error"}]
            /\ waiting \in [Workers -> SUBSET Rows]
            /\ IsFiniteSet(Known)

(* A drain never quarantines, and a pass of it that has counted nothing    *)
(* and has no row left to settle found nothing to claim.                   *)
PassIsHonest(w) ==
    /\ wpc[w] = "Quarantine" => w \notin Drains
    /\ /\ w \in Drains /\ Idle(pass[w]) /\ batch[w] = {}
       /\ wpc[w] \in {"Loop", "Publish", "MarkDelivered", "Quarantine", "Release"}
       => waiting[w] = {}
    /\ leaving[w] = "idle" => waiting[w] = {}

DrainInv == DispatchInv /\ CountsOK /\ (\A w \in Workers : PassIsHonest(w)) /\ ReportsAreTrue
(* The invariant holds before the first call.                              *)
LEMMA DrainInvInit == DrainInit => DrainInv
<1> SUFFICES ASSUME DrainInit PROVE DrainInv
  BY Zenon
<1>1. DispatchInv
  BY DispatchInvInit, Zenon DEF DrainInit
<1>2. CountsOK
  <2>1. Known = {}
    BY Zenon DEF DrainInit, Init, Known
  <2>2. NoReport \in Reports
    BY Zenon DEF NoReport, Reports
  <2>3. IsFiniteSet(Known)
    BY <2>1, FS_EmptySet, Zenon
  <2>4. /\ pass \in [Workers -> Reports] /\ report \in [Workers -> Reports]
        /\ leaving \in [Workers -> {"no", "idle", "error"}]
        /\ waiting \in [Workers -> SUBSET Rows]
    BY <2>2, Zenon DEF DrainInit
  <2> QED
    BY <2>3, <2>4, Zenon DEF CountsOK
<1>3. \A w \in Workers : PassIsHonest(w)
  BY Zenon DEF DrainInit, Init, PassIsHonest
<1>4. ReportsAreTrue
  <2> DEFINE credit == [r \in Rows |-> Nobody]
  <2>1. ASSUME NEW w \in Workers
        PROVE  report[w].delivered + pass[w].delivered
                   <= Cardinality({r \in Rows : row[r] = "delivered" /\ credit[r] = w})
    <3>1. {r \in Rows : row[r] = "delivered" /\ credit[r] = w} = {}
      BY Zenon DEF DrainInit, Init
    <3>2. report[w].delivered = 0 /\ pass[w].delivered = 0
      BY Zenon DEF DrainInit, NoReport
    <3> QED
      BY <3>1, <3>2, FS_EmptySet
  <2> QED
    BY <2>1, Zenon DEF ReportsAreTrue
<1> QED
  BY <1>1, <1>2, <1>3, <1>4, Zenon DEF DrainInv

(* A step enqueues at most one row, and delivers at most the one that its  *)
(* worker marks.                                                           *)
LEMMA RowsStep ==
    ASSUME DispatchInv, [Next]_vars
    PROVE  /\ \E x \in Rows \cup {NoRow} : Known' \subseteq Known \cup {x}
           /\ \A r \in Rows : row[r] = "delivered" => row'[r] = "delivered"
<1> USE DEF DispatchInv
<1>1. ASSUME NEW r \in Rows, Enqueue(r) \/ ExpireDead(r) \/ ExpireLive(r)
      PROVE  Known' \subseteq Known \cup {r} /\ \A s \in Rows : row[s] = "delivered" => row'[s] = "delivered"
  BY <1>1, Zenon DEF Enqueue, ExpireDead, ExpireLive, EndLease, TypeOK, Known
<1>2. ASSUME NEW w \in Workers, NEW claimed \in SUBSET Rows, Claim(w, claimed)
      PROVE  Known' \subseteq Known /\ \A s \in Rows : row[s] = "delivered" => row'[s] = "delivered"
  BY <1>2, Zenon DEF Claim, Pending, TypeOK, Known
<1>3. ASSUME NEW w \in Workers, MarkDelivered(w) \/ Quarantine(w) \/ Release(w)
      PROVE  Known' \subseteq Known /\ \A s \in Rows : row[s] = "delivered" => row'[s] = "delivered"
  <2>1. Owns(w, current[w]) /\ current[w] \in Rows
    BY <1>3, Zenon DEF MarkDelivered, Quarantine, Release, Handling, HandlingOf
  <2>2. \A s \in Rows : s # current[w] => row'[s] = row[s]
    BY <1>3, <2>1, Zenon DEF MarkDelivered, Quarantine, Release, Settle, TypeOK
  <2> QED
    BY <2>1, <2>2, Zenon DEF Owns, Known
<1>4. ASSUME UNCHANGED row
      PROVE  Known' \subseteq Known /\ \A s \in Rows : row[s] = "delivered" => row'[s] = "delivered"
  BY <1>4, Zenon DEF Known
<1>5. CASE UNCHANGED row
  BY <1>4, <1>5, Zenon
<1>6. CASE \E r \in Rows : Enqueue(r) \/ ExpireDead(r) \/ ExpireLive(r)
  BY <1>1, <1>6, Zenon
<1>7. CASE ~(UNCHANGED row) /\ \E w \in Workers :
               \/ MarkDelivered(w) \/ Quarantine(w) \/ Release(w)
               \/ \E claimed \in SUBSET Rows : Claim(w, claimed)
  BY <1>2, <1>3, <1>7, Zenon
<1> QED
  <2>1. UNCHANGED vars => UNCHANGED row
    BY Zenon DEF vars
  <2>2. ASSUME NEW w \in Workers, Start(w) \/ Stop(w) \/ ClaimFails(w) \/ SettleFails(w) \/ Die(w)
                                  \/ BatchDone(w) \/ Publish(w) \/ Refused(w)
        PROVE  UNCHANGED row
    BY <2>2, Zenon DEF Start, Stop, ClaimFails, BatchDone, Refused, SettleFails, Die, Publish
  <2>3. ASSUME NEW w \in Workers, NEW arrived \in BOOLEAN, PublishFails(w, arrived) PROVE UNCHANGED row
    BY <2>3, Zenon DEF PublishFails
  <2>4. ASSUME NEW w \in Workers, NEW r \in Rows, NextRow(w, r) PROVE UNCHANGED row
    BY <2>4, Zenon DEF NextRow
  <2> QED
    BY <1>5, <1>6, <1>7, <2>1, <2>2, <2>3, <2>4, Zenon DEF Next, Pass
(* The counters keep their types, and the queue stays finite.              *)
LEMMA CountsStep ==
    ASSUME DispatchInv, TypeOK', CountsOK, [DrainNext]_allVars
    PROVE  CountsOK'
<1> DEFINE Kept == /\ pass' \in [Workers -> Reports] /\ report' \in [Workers -> Reports]
                   /\ leaving' \in [Workers -> {"no", "idle", "error"}]
                   /\ waiting' \in [Workers -> SUBSET Rows]
<1>0. /\ pass \in [Workers -> Reports] /\ report \in [Workers -> Reports]
      /\ leaving \in [Workers -> {"no", "idle", "error"}]
      /\ waiting \in [Workers -> SUBSET Rows] /\ NoReport \in Reports
  BY Zenon DEF CountsOK, NoReport, Reports
<1>1. Watch => waiting' \in [Workers -> SUBSET Rows]
  BY <1>0, Zenon DEF Watch
<1>2. ASSUME Watch, UNCHANGED <<pass, report, leaving>> PROVE Kept
  BY <1>0, <1>1, <1>2, Zenon
<1>3. ASSUME NEW w \in Workers, Begin(w) \/ Lost(w) \/ PassFails(w) PROVE Kept
  <2>1. Watch /\ leaving' \in [Workers -> {"no", "idle", "error"}]
    BY <1>0, <1>3, Zenon DEF Begin, Lost, PassFails
  <2>2. pass' \in [Workers -> Reports] /\ report' \in [Workers -> Reports]
    BY <1>0, <1>3 DEF Begin, Lost, PassFails
  <2> QED
    BY <1>1, <2>1, <2>2, Zenon
<1>4. ASSUME NEW w \in Workers, PassDone(w) PROVE Kept
  <2>1. Watch /\ leaving' \in [Workers -> {"no", "idle", "error"}] /\ pass' \in [Workers -> Reports]
    BY <1>0, <1>4, Zenon DEF PassDone
  <2>2. Add(report[w], pass[w]) \in Reports
    BY <1>0 DEF Add, NoReport, Reports
  <2>3. report' \in [Workers -> Reports]
    BY <1>0, <1>4, <2>2, Zenon DEF PassDone
  <2> QED
    BY <1>1, <2>1, <2>3, Zenon
<1>5. ASSUME NEW w \in Workers, NEW field \in {"delivered", "retried", "quarantined"}, Count(w, field)
      PROVE  Kept
  <2>1. Watch /\ UNCHANGED <<report, leaving>>
    BY <1>5, Zenon DEF Count
  <2>2. pass' \in [Workers -> Reports]
    BY <1>0, <1>5 DEF Count, Reports
  <2> QED
    BY <1>0, <1>1, <2>1, <2>2, Zenon
<1>6. ASSUME NEW w \in Workers, NEW claimed \in SUBSET Rows, NextPass(w, claimed) PROVE Kept
  <2>1. Pending' \subseteq Rows
    BY Zenon DEF Pending
  <2> QED
    BY <1>0, <1>6, <2>1, Zenon DEF NextPass
<1>7. ASSUME UNCHANGED allVars PROVE Kept
  BY <1>0, <1>7, Zenon DEF allVars, drainVars
<1>8. Kept
  <2> HIDE DEF Kept
  <2> QED
    BY <1>2, <1>3, <1>4, <1>5, <1>6, <1>7, Zenon
       DEF DrainNext, Return, Elsewhere, CountDelivered, CountRetried, CountQuarantined
<1>9. IsFiniteSet(Known')
  <2>1. PICK x \in Rows \cup {NoRow} : Known' \subseteq Known \cup {x}
    BY RowsStep, DrainStepIsDispatch, Zenon
  <2>2. IsFiniteSet(Known \cup {x})
    BY FS_AddElement, Zenon DEF CountsOK
  <2> QED
    BY <2>1, <2>2, FS_Subset, Zenon
<1> QED
  BY <1>8, <1>9, Zenon DEF CountsOK, Known
(* A delivered row is credited to the worker whose call delivered it: a    *)
(* step that delivers nothing, or is not counted, changes no credit.       *)
LEMMA CreditStep ==
    ASSUME DrainInv, CountsOK', [DrainNext]_allVars
    PROVE  ReportsAreTrue'
<1> DEFINE By(rows, credit, w) == {r \in Rows : rows[r] = "delivered" /\ credit[r] = w}
           Counted(w) == report[w].delivered + pass[w].delivered
<1>0. /\ \A w \in Workers : Counted(w) \in Nat /\ Counted(w)' \in Nat
      /\ IsFiniteSet(Known') /\ IsFiniteSet(Known)
  BY DEF DrainInv, CountsOK, Reports
<1>1. PICK credit \in [Rows -> Workers \cup {Nobody}] :
         \A w \in Workers : Counted(w) <= Cardinality(By(row, credit, w))
  BY Zenon DEF DrainInv, ReportsAreTrue
<1>2. \A r \in Rows : row[r] = "delivered" => row'[r] = "delivered"
  BY RowsStep, DrainStepIsDispatch, Zenon DEF DrainInv
<1>3. \A w \in Workers : /\ By(row, credit, w) \subseteq By(row', credit, w)
                         /\ By(row', credit, w) \subseteq Known'
  BY <1>2, Zenon DEF Known
<1>4. \A w \in Workers : /\ IsFiniteSet(By(row, credit, w)) /\ IsFiniteSet(By(row', credit, w))
                         /\ Cardinality(By(row, credit, w)) <= Cardinality(By(row', credit, w))
                         /\ Cardinality(By(row, credit, w)) \in Nat
                         /\ Cardinality(By(row', credit, w)) \in Nat
  BY <1>0, <1>3, FS_Subset, FS_CardinalityType, Zenon
<1>5. ASSUME \A w \in Workers : Counted(w)' <= Counted(w)
      PROVE  ReportsAreTrue'
  <2>1. \A w \in Workers : Counted(w)' <= Cardinality(By(row', credit, w))
    <3> HIDE DEF By, Counted
    <3> QED
      BY <1>0, <1>1, <1>4, <1>5
  <2> QED
    BY <2>1, Zenon DEF ReportsAreTrue
<1>6. ASSUME NEW w \in Workers, Begin(w) \/ Lost(w) \/ PassFails(w)
      PROVE  ReportsAreTrue'
  <2>1. ASSUME NEW v \in Workers PROVE Counted(v)' <= Counted(v)
    BY <1>6 DEF Begin, Lost, PassFails, NoReport, DrainInv, CountsOK, Reports
  <2> QED
    BY <1>5, <2>1, Zenon
<1>7. ASSUME NEW w \in Workers, PassDone(w) PROVE ReportsAreTrue'
  <2>1. ASSUME NEW v \in Workers PROVE Counted(v)' <= Counted(v)
    BY <1>7 DEF PassDone, Add, NoReport, DrainInv, CountsOK, Reports
  <2> QED
    BY <1>5, <2>1
<1>8. ASSUME NEW w \in Workers, NEW claimed \in SUBSET Rows,
             NextPass(w, claimed) \/ CountQuarantined(w) \/ CountRetried(w)
      PROVE  ReportsAreTrue'
  <2>1. UNCHANGED report
    BY <1>8, Zenon DEF NextPass, CountQuarantined, CountRetried, Count
  <2>2. \A v \in Workers : pass[v].delivered \in Nat /\ report[v].delivered \in Nat
    BY Zenon DEF DrainInv, CountsOK, Reports
  <2>3. CASE NextPass(w, claimed)
    <3>1. \A v \in Workers : pass'[v].delivered \in {0, pass[v].delivered}
      BY <2>3, Zenon DEF NextPass, NoReport, DrainInv, CountsOK
    <3> QED
      BY <1>5, <2>1, <2>2, <3>1
  <2>4. CASE CountQuarantined(w) \/ CountRetried(w)
    <3>1. \A v \in Workers : pass'[v].delivered = pass[v].delivered
      BY <2>4 DEF CountQuarantined, CountRetried, Count, DrainInv, CountsOK, Reports
    <3> QED
      BY <1>5, <2>1, <2>2, <3>1
  <2> QED
    BY <1>8, <2>3, <2>4, Zenon
<1>9. ASSUME UNCHANGED <<pass, report>> PROVE ReportsAreTrue'
  <2>1. ASSUME NEW v \in Workers PROVE Counted(v)' <= Counted(v)
    BY <1>0, <1>9
  <2> QED
    BY <1>5, <2>1, Zenon
<1>10. ASSUME NEW w \in Workers, CountDelivered(w) PROVE ReportsAreTrue'
  <2> DEFINE r == current[w]
             given == [credit EXCEPT ![r] = w]
  <2>1. r \in Rows /\ row[r] = "leased" /\ row' = [row EXCEPT ![r] = "delivered"]
    BY <1>10, Zenon DEF CountDelivered, MarkDelivered, Owns, Settle, DrainInv, DispatchInv, Handling, HandlingOf
  <2>2. Counted(w)' = Counted(w) + 1 /\ \A v \in Workers \ {w} : Counted(v)' = Counted(v)
    BY <1>10 DEF CountDelivered, Count, DrainInv, CountsOK, Reports
  <2>3. \A v \in Workers \ {w} : By(row', given, v) = By(row, credit, v)
    BY <2>1, Zenon DEF DrainInv, DispatchInv, TypeOK
  <2>4. By(row', given, w) = By(row, credit, w) \cup {r} /\ r \notin By(row, credit, w)
    BY <2>1 DEF DrainInv, DispatchInv, TypeOK
  <2>5. given \in [Rows -> Workers \cup {Nobody}]
    BY <2>1, Zenon
  <2>6. \A v \in Workers : Counted(v)' <= Cardinality(By(row', given, v))
    <3> HIDE DEF By, Counted, given, r
    <3>1. Cardinality(By(row', given, w)) = Cardinality(By(row, credit, w)) + 1
      BY <1>4, <2>4, FS_AddElement, Zenon
    <3> QED
      BY <1>0, <1>1, <1>4, <2>2, <2>3, <3>1
  <2> QED
    BY <2>5, <2>6, Zenon DEF ReportsAreTrue
<1> QED
  <2> HIDE DEF By, Counted
  <2>1. UNCHANGED allVars => UNCHANGED <<pass, report>>
    BY Zenon DEF allVars, drainVars
  <2> QED
    BY <1>6, <1>7, <1>8, <1>9, <1>10, <2>1, Zenon DEF DrainNext, Return, Elsewhere
(* A pass tells the truth about the rows its claim could have taken, after *)
(* every step of its own worker or of another.                             *)
LEMMA HonestStep ==
    ASSUME DrainInv, CountsOK', [DrainNext]_allVars, NEW v \in Workers
    PROVE  PassIsHonest(v)'
<1> DEFINE InPass == {"Loop", "Publish", "MarkDelivered", "Quarantine", "Release"}
<1>0. /\ wpc \in [Workers -> {"Stopped", "Failed", "Dead", "Tick", "Loop", "Publish",
                              "MarkDelivered", "Quarantine", "Release"}]
      /\ batch \in [Workers -> SUBSET Rows]
      /\ pass \in [Workers -> Reports] /\ leaving \in [Workers -> {"no", "idle", "error"}]
      /\ waiting \in [Workers -> SUBSET Rows]
      /\ PassIsHonest(v)
  BY Zenon DEF DrainInv, DispatchInv, TypeOK, CountsOK
<1>1. Watch => waiting'[v] \subseteq waiting[v]
  BY Zenon DEF Watch
\* a step in which this worker's pass does not move on
<1>2. ASSUME wpc'[v] = wpc[v], batch'[v] = batch[v], pass'[v] = pass[v], leaving'[v] = leaving[v],
             waiting'[v] \subseteq waiting[v]
      PROVE  PassIsHonest(v)'
  BY <1>0, <1>2, Zenon DEF PassIsHonest, Idle
\* a step of this worker outside a pass, or that ends one
<1>3. ASSUME wpc'[v] \in {"Stopped", "Failed", "Dead", "Tick"}, waiting'[v] \subseteq waiting[v],
             leaving'[v] = "idle" => leaving[v] = "idle" \/ waiting[v] = {}
      PROVE  PassIsHonest(v)'
  BY <1>0, <1>3, Zenon DEF PassIsHonest
<1>4. ASSUME NEW w \in Workers, w # v,
             \/ Begin(w) \/ Return(w) \/ PassDone(w) \/ PassFails(w) \/ Lost(w)
      PROVE  PassIsHonest(v)'
  <2>1. Watch /\ pass'[v] = pass[v] /\ leaving'[v] = leaving[v]
    BY <1>0, <1>4, Zenon DEF Begin, Return, PassDone, PassFails, Lost
  <2>2. wpc'[v] = wpc[v] /\ batch'[v] = batch[v]
    BY <1>0, <1>4, Zenon DEF Begin, Return, PassDone, PassFails, Lost, Start, Stop, BatchDone, ClaimFails,
       SettleFails, Refused, Release, Settle, Die, EndPass, Goto
  <2> QED
    BY <1>1, <1>2, <2>1, <2>2
<1>5. ASSUME NEW w \in Workers, w # v,
             \/ CountDelivered(w) \/ CountQuarantined(w) \/ CountRetried(w)
             \/ \E claimed \in SUBSET Rows : NextPass(w, claimed)
      PROVE  PassIsHonest(v)'
  <2>1. pass'[v] = pass[v] /\ leaving'[v] = leaving[v] /\ waiting'[v] \subseteq waiting[v]
    BY <1>0, <1>1, <1>5 DEF CountDelivered, CountQuarantined, CountRetried, Count, NextPass
  <2>2. wpc'[v] = wpc[v] /\ batch'[v] = batch[v]
    BY <1>0, <1>5, Zenon DEF CountDelivered, CountQuarantined, CountRetried, NextPass, MarkDelivered,
       Quarantine, Release, Settle, Claim, Goto
  <2> QED
    BY <1>2, <2>1, <2>2, Zenon
<1>6. ASSUME NEW w \in Workers, Elsewhere(w) PROVE PassIsHonest(v)'
  <2>1. Watch /\ UNCHANGED <<pass, leaving, batch>>
    BY <1>6, Zenon DEF Elsewhere, NextRow, Publish, PublishFails
  <2>2. \/ wpc'[v] = wpc[v]
        \/ /\ wpc[v] \in InPass /\ wpc'[v] \in InPass
           /\ wpc'[v] = "Quarantine" => Policy[v] = "Quarantine"
    BY <1>0, <1>6 DEF Elsewhere, NextRow, Publish, PublishFails, Goto
  <2>3. v \in Drains => Policy[v] = "Retry"
    BY DrainAssumption, Zenon
  <2> QED
    BY <1>0, <1>1, <2>1, <2>2, <2>3, Zenon DEF PassIsHonest, Idle
<1>7. ASSUME Begin(v) \/ Return(v) \/ PassFails(v) \/ Lost(v) PROVE PassIsHonest(v)'
  <2>1. Watch /\ (leaving'[v] = "idle" => leaving[v] = "idle")
    BY <1>0, <1>7, Zenon DEF Begin, Return, PassFails, Lost
  <2>2. wpc'[v] \in {"Stopped", "Failed", "Dead", "Tick"}
    BY <1>0, <1>7, Zenon DEF Begin, Return, PassFails, Lost, Start, Stop, ClaimFails, SettleFails,
       Refused, Release, Die, EndPass, Goto
  <2> QED
    BY <1>1, <1>3, <2>1, <2>2
<1>8. ASSUME PassDone(v) PROVE PassIsHonest(v)'
  <2>1. Watch /\ wpc[v] = "Loop" /\ batch[v] = {} /\ wpc'[v] = "Tick"
    BY <1>0, <1>8, Zenon DEF PassDone, BatchDone, EndPass, Goto
  <2>2. leaving'[v] = "idle" => leaving[v] = "idle" \/ waiting[v] = {}
    BY <1>0, <1>8, <2>1, Zenon DEF PassDone, PassIsHonest
  <2> QED
    BY <1>1, <1>3, <2>1, <2>2, Zenon
<1>9. ASSUME CountDelivered(v) \/ CountQuarantined(v) \/ CountRetried(v) PROVE PassIsHonest(v)'
  <2>1. Watch /\ UNCHANGED leaving
    BY <1>9, Zenon DEF CountDelivered, CountQuarantined, CountRetried, Count
  <2>2. wpc'[v] = "Loop"
    BY <1>0, <1>9, Zenon DEF CountDelivered, CountQuarantined, CountRetried, MarkDelivered, Quarantine,
       Release, Settle, Goto
  <2>3. CASE v \notin Drains
    BY <1>0, <1>1, <2>1, <2>2, <2>3, Zenon DEF PassIsHonest
  <2>4. CASE v \in Drains
    <3>1. CountDelivered(v) \/ CountRetried(v)
      BY <1>0, <1>9, <2>4, Zenon DEF CountQuarantined, Quarantine, PassIsHonest
    <3>2. ~Idle(pass'[v])
      BY <1>0, <3>1 DEF CountDelivered, CountRetried, Count, Reports, Idle
    <3> QED
      BY <1>0, <1>1, <2>1, <2>2, <3>2, Zenon DEF PassIsHonest
  <2> QED
    BY <2>3, <2>4, Zenon
<1>10. ASSUME NEW claimed \in SUBSET Rows, NextPass(v, claimed) PROVE PassIsHonest(v)'
  <2>1. /\ leaving[v] = "no" /\ leaving'[v] = "no" /\ waiting'[v] = Pending'
        /\ wpc'[v] = "Loop" /\ batch'[v] = claimed
        /\ claimed \subseteq Pending
        /\ Cardinality(claimed) = IF Cardinality(Pending) < BatchSize
                                  THEN Cardinality(Pending) ELSE BatchSize
        /\ row' = [r \in Rows |-> IF r \in claimed THEN "leased" ELSE row[r]]
    BY <1>0, <1>10, Zenon DEF NextPass, Claim, Goto
  <2>2. Pending' \subseteq Pending
    BY <2>1, Zenon DEF Pending
  <2>3. claimed = {} => Pending = {}
    <3>1. IsFiniteSet(Pending) /\ Cardinality(Pending) \in Nat
      <4>1. Pending \subseteq Known /\ IsFiniteSet(Known)
        BY Zenon DEF Pending, Known, DrainInv, CountsOK
      <4> QED
        BY <4>1, FS_Subset, FS_CardinalityType, Zenon
    <3>2. claimed = {} => Cardinality(claimed) = 0
      BY FS_EmptySet, Zenon
    <3>3. Cardinality(Pending) = 0 => Pending = {}
      BY <3>1, FS_EmptySet, Zenon
    <3> QED
      BY <2>1, <3>1, <3>2, <3>3, DispatchAssumption, Zenon
  <2> QED
    BY <2>1, <2>2, <2>3, Zenon DEF PassIsHonest
<1>11. ASSUME NEW r \in Rows, Enqueue(r) \/ ExpireDead(r) \/ ExpireLive(r), Watch,
              UNCHANGED <<pass, report, leaving>>
       PROVE  PassIsHonest(v)'
  BY <1>1, <1>2, <1>11, Zenon DEF Enqueue, ExpireDead, ExpireLive
<1>12. ASSUME UNCHANGED allVars PROVE PassIsHonest(v)'
  BY <1>2, <1>12, Zenon DEF allVars, drainVars, vars
<1> QED
  BY <1>4, <1>5, <1>6, <1>7, <1>8, <1>9, <1>10, <1>11, <1>12, Zenon DEF DrainNext

(* The invariant is inductive.                                             *)
LEMMA DrainInvStep == DrainInv /\ [DrainNext]_allVars => DrainInv'
<1> SUFFICES ASSUME DrainInv, [DrainNext]_allVars PROVE DrainInv'
  BY Zenon
<1>1. DispatchInv'
  BY DrainStepIsDispatch, DispatchInvStep, Zenon DEF DrainInv
<1>2. CountsOK'
  BY <1>1, CountsStep, Zenon DEF DrainInv, DispatchInv
<1> QED
  BY <1>1, <1>2, CreditStep, HonestStep, Zenon DEF DrainInv

(* dispatch_until_idle and run_outbox_worker tell the truth: a drain that  *)
(* returns because the queue was idle left behind no row that its last     *)
(* claim could have taken, and every delivery counted by any of any number *)
(* of workers is a delivered row of its own.                               *)
THEOREM DrainsTellTheTruth == DrainSpec => []DrainsAreTrue
<1>1. DrainInv => DrainsAreTrue
  BY Zenon DEF DrainInv, PassIsHonest, DrainsAreTrue, IdleMeansDrained
<1> QED
  BY <1>1, DrainInvInit, DrainInvStep, PTL DEF DrainSpec

-----------------------------------------------------------------------------
(* Consumers *)

(* What a step of the workers does to rows and copies, for all who look on:*)
(* a row that was enqueued stays enqueued, a batch holds enqueued rows,    *)
(* and copies are only added, of rows in a batch.                          *)
LEMMA DispatchEffect ==
    ASSUME DispatchInv, Passes, [Next]_vars
    PROVE  /\ \A r \in Rows : row'[r] = "absent" => row[r] = "absent"
           /\ \A w \in Workers, r \in Rows :
                 r \in batch'[w] => r \in batch[w] \/ row'[r] = "leased"
           /\ \A r \in Rows :
                 \/ copies'[r] = copies[r]
                 \/ copies'[r] = copies[r] + 1 /\ \E w \in Workers : r \in batch[w]
<1> USE DEF DispatchInv
<1> DEFINE Kept == \A r \in Rows : row'[r] = "absent" => row[r] = "absent"
           Batched == \A w \in Workers, r \in Rows :
                         r \in batch'[w] => r \in batch[w] \/ row'[r] = "leased"
           Copied == \A r \in Rows :
                        \/ copies'[r] = copies[r]
                        \/ copies'[r] = copies[r] + 1 /\ \E w \in Workers : r \in batch[w]
<1>0. /\ row \in [Rows -> {"absent", "pending", "leased", "delivered", "quarantined"}]
      /\ batch \in [Workers -> SUBSET Rows] /\ copies \in [Rows -> Nat]
  BY Zenon DEF TypeOK
<1>1. ASSUME NEW r \in Rows, Enqueue(r) \/ ExpireDead(r) \/ ExpireLive(r)
      PROVE  Kept /\ Batched /\ Copied
  <2>1. UNCHANGED <<batch, copies>> /\ row' = [row EXCEPT ![r] = "pending"]
    BY <1>1, Zenon DEF Enqueue, ExpireDead, ExpireLive, EndLease
  <2> QED
    BY <1>0, <2>1, Zenon
<1>2. ASSUME NEW w \in Workers, NEW claimed \in SUBSET Rows, Claim(w, claimed)
      PROVE  Kept /\ Batched /\ Copied
  <2>1. /\ row' = [r \in Rows |-> IF r \in claimed THEN "leased" ELSE row[r]]
        /\ batch' = [batch EXCEPT ![w] = claimed] /\ UNCHANGED copies
    BY <1>2, Zenon DEF Claim
  <2> QED
    BY <1>0, <2>1, Zenon
<1>3. ASSUME NEW w \in Workers,
             UNCHANGED <<row, copies>>,
             batch' = batch \/ batch' = [batch EXCEPT ![w] = {}]
      PROVE  Kept /\ Batched /\ Copied
  BY <1>0, <1>3, Zenon
<1>4. ASSUME NEW w \in Workers,
             \/ Start(w) \/ Stop(w) \/ ClaimFails(w) \/ BatchDone(w) \/ Refused(w)
             \/ SettleFails(w) \/ Die(w) \/ \E r \in Rows : NextRow(w, r)
      PROVE  Kept /\ Batched /\ Copied
  <2>1. UNCHANGED <<row, copies>> /\ (batch' = batch \/ batch' = [batch EXCEPT ![w] = {}])
    BY <1>4, ZenonT(30) DEF Start, Stop, ClaimFails, BatchDone, Refused, SettleFails, Die,
       NextRow, EndPass
  <2> QED
    BY <1>3, <2>1, Zenon
<1>5. ASSUME NEW w \in Workers, NEW arrived \in BOOLEAN, Publish(w) \/ PublishFails(w, arrived)
      PROVE  Kept /\ Batched /\ Copied
  <2>1. /\ UNCHANGED <<row, batch>> /\ current[w] \in batch[w]
        /\ copies' = copies \/ copies' = [copies EXCEPT ![current[w]] = @ + 1]
    BY <1>5, Zenon DEF Publish, PublishFails, Passes, PassOf
  <2> QED
    BY <1>0, <2>1
<1>6. ASSUME NEW w \in Workers, MarkDelivered(w) \/ Quarantine(w) \/ Release(w)
      PROVE  Kept /\ Batched /\ Copied
  <2>1. PICK status \in {"delivered", "quarantined", "pending"} :
           /\ row' = [row EXCEPT ![current[w]] = status] /\ UNCHANGED copies
           /\ \/ batch' = [batch EXCEPT ![w] = @ \ {current[w]}]
              \/ batch' = [batch EXCEPT ![w] = {}]
    BY <1>6, ZenonT(30) DEF MarkDelivered, Quarantine, Release, Settle, EndPass
  <2> QED
    BY <1>0, <2>1, Zenon
<1>7. ASSUME UNCHANGED vars PROVE Kept /\ Batched /\ Copied
  BY <1>7, Zenon DEF vars
<1> HIDE DEF Kept, Batched, Copied
<1>8. Kept /\ Batched /\ Copied
  BY <1>1, <1>2, <1>4, <1>5, <1>6, <1>7, ZenonT(30) DEF Next, Pass
<1> QED
  BY <1>8, Zenon DEF Kept, Batched, Copied

-----------------------------------------------------------------------------
(* The consumers.  A copy at the broker is of an enqueued row, and so is   *)
(* every row in a batch.                                                   *)
Enqueued ==
    /\ \A r \in Rows : row[r] = "absent" => copies[r] = 0
    /\ \A w \in Workers, r \in Rows : r \in batch[w] => row[r] # "absent"

(* What a consumer knows of the delivery it handles.                       *)
AttemptOf(k) ==
    /\ kpc[k] # "Idle" => message[k] \in Rows /\ copies[message[k]] > 0
    /\ kpc[k] = "MarkApplied" => applied[message[k]] > 0

(* An attempt that lost its lease may still run its callback; as for the   *)
(* workers, such attempts are counted in advance.                          *)
Overtaken(r) ==
    {k \in Consumers : kpc[k] = "Apply" /\ message[k] = r /\ ~Consumer!Holds(k, r)}

Recording(k, r) == Consumer!Holds(k, r) /\ kpc[k] = "MarkApplied" /\ message[k] = r

Recorded(r) == record[r] = "Applied" \/ \E k \in Consumers : Recording(k, r)

CallbacksOf(r) == Balanced(applied[r], Overtaken(r), reruns[r], Recorded(r))

ConsumerInv == /\ Consumer!TypeOK /\ Consumer!AppliedMeansApplied
               /\ \A k \in Consumers : AttemptOf(k)
               /\ \A r \in Rows : CallbacksOf(r) /\ (applied[r] > 0 => copies[r] > 0)

DeliveryInv == DispatchInv /\ Passes /\ Enqueued /\ ConsumerInv

(* Nothing is claimed, applied or recorded at first.                       *)
LEMMA DeliveryInvInit == DeliveryInit => DeliveryInv
<1> SUFFICES ASSUME DeliveryInit PROVE DeliveryInv
  OBVIOUS
<1> USE DEF DeliveryInit
<1>1. DispatchInv /\ Passes
  BY AccountInvInit, Zenon DEF AccountInv
<1>2. Enqueued
  BY Zenon DEF Init, Enqueued
<1>3. Consumer!TypeOK
  <2>1. lapses \in 0 .. MaxLapses
    BY DeliveryAssumption DEF Consumer!Init
  <2>2. applied \in [Rows -> Nat] /\ reruns \in [Rows -> Nat]
    BY Zenon DEF Consumer!Init
  <2> QED
    BY <2>1, <2>2, Zenon DEF Consumer!Init, Consumer!TypeOK, Consumer!NoMessage
<1>4. Consumer!AppliedMeansApplied /\ \A k \in Consumers : AttemptOf(k)
  BY Zenon DEF Consumer!Init, Consumer!AppliedMeansApplied, AttemptOf
<1>5. ASSUME NEW r \in Rows PROVE CallbacksOf(r) /\ (applied[r] > 0 => copies[r] > 0)
  <2>1. Overtaken(r) = {}
    BY Zenon DEF Consumer!Init, Overtaken
  <2>2. applied[r] = 0 /\ reruns[r] = 0
    BY Zenon DEF Consumer!Init
  <2> QED
    BY <2>1, <2>2, FS_EmptySet DEF CallbacksOf, Balanced
<1> QED
  BY <1>1, <1>2, <1>3, <1>4, <1>5, Zenon DEF DeliveryInv, ConsumerInv

(* A step of the workers: only copies reach the consumers, and never fewer.*)
LEMMA WorkersStep ==
    ASSUME DeliveryInv, [Next]_vars, UNCHANGED consumerVars
    PROVE  DeliveryInv'
<1> USE DEF DeliveryInv
<1>1. DispatchInv' /\ Passes'
  BY DispatchInvStep, PassesStep, Zenon
<1>2. TypeOK /\ TypeOK'
  BY <1>1, Zenon DEF DispatchInv
<1>3. /\ \A r \in Rows : row'[r] = "absent" => row[r] = "absent"
      /\ \A w \in Workers, r \in Rows : r \in batch'[w] => r \in batch[w] \/ row'[r] = "leased"
      /\ \A r \in Rows : \/ copies'[r] = copies[r]
                         \/ copies'[r] = copies[r] + 1 /\ \E w \in Workers : r \in batch[w]
  BY DispatchEffect, Zenon
<1>4. \A r \in Rows : copies[r] \in Nat /\ copies'[r] \in Nat /\ copies'[r] >= copies[r]
  BY <1>2, <1>3 DEF TypeOK
<1>5. Enqueued'
  <2>1. ASSUME NEW r \in Rows, row'[r] = "absent" PROVE copies'[r] = 0
    <3>1. row[r] = "absent" /\ copies[r] = 0 /\ ~\E w \in Workers : r \in batch[w]
      BY <1>3, <2>1, Zenon DEF Enqueued
    <3> QED
      BY <1>3, <3>1, Zenon
  <2>2. ASSUME NEW w \in Workers, NEW r \in Rows, r \in batch'[w] PROVE row'[r] # "absent"
    BY <1>3, <2>2, Zenon DEF Enqueued
  <2> QED
    BY <2>1, <2>2, Zenon DEF Enqueued
<1>6. UNCHANGED <<record, holder, kpc, message, applied, reruns, lapses>>
  BY Zenon DEF consumerVars
<1>7. Consumer!TypeOK' /\ Consumer!AppliedMeansApplied'
  BY <1>6, Zenon DEF ConsumerInv, Consumer!TypeOK, Consumer!AppliedMeansApplied
<1>8. ASSUME NEW k \in Consumers PROVE AttemptOf(k)'
  <2>1. AttemptOf(k)
    BY Zenon DEF ConsumerInv
  <2> QED
    BY <1>4, <1>6, <2>1 DEF AttemptOf
<1>9. ASSUME NEW r \in Rows PROVE CallbacksOf(r)' /\ (applied'[r] > 0 => copies'[r] > 0)
  <2>1. CallbacksOf(r) /\ (applied[r] > 0 => copies[r] > 0)
    BY Zenon DEF ConsumerInv
  <2>2. CallbacksOf(r)'
    BY <1>6, <2>1, Zenon DEF CallbacksOf, Overtaken, Recorded, Recording, Consumer!Holds
  <2>3. applied'[r] > 0 => copies'[r] > 0
    BY <1>4, <1>6, <2>1
  <2> QED
    BY <2>2, <2>3, Zenon
<1> QED
  BY <1>1, <1>5, <1>7, <1>8, <1>9, Zenon DEF ConsumerInv

(* What a consumer assigns has its type.                                   *)
LEMMA ConsumerTypes ==
    ASSUME ConsumerInv, Consumer!Next
    PROVE  Consumer!TypeOK'
<1> USE DEF ConsumerInv, Consumer!TypeOK
<1>1. ASSUME NEW k \in Consumers, NEW r \in Rows, Consumer!Consume(k, r) PROVE Consumer!TypeOK'
  BY <1>1, Zenon DEF Consumer!Consume
<1>2. ASSUME NEW k \in Consumers, Consumer!Apply(k) PROVE Consumer!TypeOK'
  <2>1. message[k] \in Rows
    BY <1>2, Zenon DEF Consumer!Apply, AttemptOf
  <2> QED
    BY <1>2, <2>1 DEF Consumer!Apply
<1>3. ASSUME NEW k \in Consumers, Consumer!ApplyFails(k) PROVE Consumer!TypeOK'
  BY <1>3, DeliveryAssumption DEF Consumer!ApplyFails, Consumer!Lapse
<1>4. ASSUME NEW k \in Consumers, Consumer!MarkApplied(k) \/ Consumer!Release(k)
      PROVE  Consumer!TypeOK'
  BY <1>4 DEF Consumer!MarkApplied, Consumer!Release, Consumer!Done
<1>5. ASSUME NEW k \in Consumers, Consumer!Refused(k) PROVE Consumer!TypeOK'
  BY <1>5, Zenon DEF Consumer!Refused, Consumer!Done
<1>6. ASSUME NEW k \in Consumers, Consumer!Interrupted(k) PROVE Consumer!TypeOK'
  <2>1. message[k] \in Rows
    BY <1>6, Zenon DEF Consumer!Interrupted, AttemptOf
  <2>2. reruns' \in [Rows -> Nat] /\ lapses' \in 0 .. MaxLapses
    BY <1>6, <2>1, DeliveryAssumption DEF Consumer!Interrupted, Consumer!Lapse
  <2> QED
    BY <1>6, <2>2, Zenon DEF Consumer!Interrupted, Consumer!Done
<1>7. ASSUME NEW r \in Rows, Consumer!ExpireDead(r) \/ Consumer!ExpireRunning(r)
      PROVE  Consumer!TypeOK'
  BY <1>7, DeliveryAssumption DEF Consumer!ExpireDead, Consumer!ExpireRunning,
     Consumer!EndLease, Consumer!Lapse, Consumer!attempt
<1> HIDE DEF Consumer!TypeOK
<1> QED
  BY <1>1, <1>2, <1>3, <1>4, <1>5, <1>6, <1>7, Zenon DEF Consumer!Next, Consumer!Attempt

(* What a consumer knows of its delivery, and that only applied keys are   *)
(* recorded as applied, survives every step of the consumers.              *)
LEMMA AttemptsStep ==
    ASSUME ConsumerInv, Consumer!TypeOK', Consumer!Next, UNCHANGED copies
    PROVE  /\ Consumer!AppliedMeansApplied' /\ \A k \in Consumers : AttemptOf(k)'
           /\ \A r \in Rows : applied'[r] > 0 => copies'[r] > 0
<1> DEFINE Consumed == /\ Consumer!AppliedMeansApplied /\ \A k \in Consumers : AttemptOf(k)
                    /\ \A r \in Rows : applied[r] > 0 => copies[r] > 0
<1>0. /\ kpc \in [Consumers -> {"Idle", "Apply", "MarkApplied", "Release"}]
      /\ message \in [Consumers -> Rows \cup {Consumer!NoMessage}]
      /\ record \in [Rows -> {"New", "Claimed", "Applied"}]
      /\ applied \in [Rows -> Nat] /\ Consumed
  BY Zenon DEF ConsumerInv, Consumer!TypeOK
<1>1. ASSUME UNCHANGED applied, NEW k \in Consumers, AttemptOf(k)',
             \A j \in Consumers \ {k} : kpc'[j] = kpc[j] /\ message'[j] = message[j],
             \A r \in Rows : record'[r] = "Applied" => record[r] = "Applied" \/ applied[r] > 0
      PROVE  Consumed'
  <2>1. ASSUME NEW j \in Consumers, j # k PROVE AttemptOf(j)'
    <3>1. AttemptOf(j)
      BY <1>0, Zenon
    <3> QED
      BY <1>1, <2>1, <3>1, Zenon DEF AttemptOf
  <2> QED
    BY <1>0, <1>1, <2>1, Zenon DEF Consumer!AppliedMeansApplied
<1>2. ASSUME NEW k \in Consumers, NEW r \in Rows, Consumer!Consume(k, r) PROVE Consumed'
  <2>1. AttemptOf(k)'
    BY <1>0, <1>2, Zenon DEF Consumer!Consume, AttemptOf
  <2> QED
    BY <1>0, <1>1, <1>2, <2>1, Zenon DEF Consumer!Consume
<1>3. ASSUME NEW k \in Consumers, Consumer!Apply(k) PROVE Consumed'
  <2>1. message[k] \in Rows /\ copies[message[k]] > 0
    BY <1>0, <1>3, Zenon DEF Consumer!Apply, AttemptOf
  <2>2. /\ applied'[message[k]] = applied[message[k]] + 1
        /\ \A r \in Rows : r # message[k] => applied'[r] = applied[r]
        /\ \A r \in Rows : applied[r] \in Nat /\ applied'[r] \in Nat
        /\ UNCHANGED <<message, record>> /\ kpc' = [kpc EXCEPT ![k] = "MarkApplied"]
    BY <1>0, <1>3, <2>1 DEF Consumer!Apply
  <2>3. \A r \in Rows : applied'[r] >= applied[r]
    BY <2>1, <2>2
  <2>4. ASSUME NEW j \in Consumers PROVE AttemptOf(j)'
    <3>1. AttemptOf(j)
      BY <1>0
    <3>2. CASE j = k
      BY <1>0, <2>1, <2>2, <3>2 DEF AttemptOf
    <3>3. CASE j # k
      BY <1>0, <2>1, <2>2, <2>3, <3>1, <3>3 DEF AttemptOf
    <3> QED
      BY <3>2, <3>3, Zenon
  <2> QED
    BY <1>0, <2>1, <2>2, <2>3, <2>4 DEF Consumer!AppliedMeansApplied
<1>4. ASSUME NEW k \in Consumers, Consumer!ApplyFails(k) PROVE Consumed'
  <2>1. AttemptOf(k)'
    BY <1>0, <1>4, Zenon DEF Consumer!ApplyFails, AttemptOf
  <2> QED
    BY <1>0, <1>1, <1>4, <2>1, Zenon DEF Consumer!ApplyFails
<1>5. ASSUME NEW k \in Consumers, Consumer!Done(k), UNCHANGED applied,
             \A r \in Rows : record'[r] = "Applied" => record[r] = "Applied" \/ applied[r] > 0
      PROVE  Consumed'
  <2>1. AttemptOf(k)'
    BY <1>0, <1>5, Zenon DEF Consumer!Done, AttemptOf
  <2> QED
    BY <1>0, <1>1, <1>5, <2>1, Zenon DEF Consumer!Done
<1>6. ASSUME NEW k \in Consumers, Consumer!MarkApplied(k) \/ Consumer!Release(k) PROVE Consumed'
  <2>1. \A r \in Rows : record'[r] = "Applied" => record[r] = "Applied" \/ applied[r] > 0
    BY <1>0, <1>6, Zenon DEF Consumer!MarkApplied, Consumer!Release, AttemptOf
  <2> QED
    BY <1>5, <1>6, <2>1, Zenon DEF Consumer!MarkApplied, Consumer!Release
<1>7. ASSUME NEW k \in Consumers, Consumer!Refused(k) \/ Consumer!Interrupted(k) PROVE Consumed'
  BY <1>5, <1>7, Zenon DEF Consumer!Refused, Consumer!Interrupted
<1>8. ASSUME NEW r \in Rows, Consumer!ExpireDead(r) \/ Consumer!ExpireRunning(r) PROVE Consumed'
  <2>1. UNCHANGED <<kpc, message, applied>>
    BY <1>8, Zenon DEF Consumer!ExpireDead, Consumer!ExpireRunning, Consumer!attempt
  <2>2. \A s \in Rows : record'[s] = "Applied" => record[s] = "Applied"
    BY <1>0, <1>8, Zenon DEF Consumer!ExpireDead, Consumer!ExpireRunning, Consumer!EndLease
  <2> QED
    BY <1>0, <2>1, <2>2, Zenon DEF Consumer!AppliedMeansApplied, AttemptOf
<1> HIDE DEF Consumed
<1>9. Consumed'
  BY <1>2, <1>3, <1>4, <1>6, <1>7, <1>8, Zenon DEF Consumer!Next, Consumer!Attempt
<1> QED
  BY <1>9, Zenon DEF Consumed

(* Every callback after the first is paid for, after every step of the     *)
(* consumers.                                                              *)
LEMMA CallbacksStep ==
    ASSUME ConsumerInv, Consumer!TypeOK', Consumer!Next, NEW r \in Rows
    PROVE  CallbacksOf(r)'
<1>0. /\ kpc \in [Consumers -> {"Idle", "Apply", "MarkApplied", "Release"}]
      /\ message \in [Consumers -> Rows \cup {Consumer!NoMessage}]
      /\ record \in [Rows -> {"New", "Claimed", "Applied"}]
      /\ holder \in [Rows -> Consumers \cup {Nobody}]
      /\ applied \in [Rows -> Nat] /\ reruns \in [Rows -> Nat]
      /\ applied[r] \in Nat /\ reruns[r] \in Nat /\ applied'[r] \in Nat /\ reruns'[r] \in Nat
      /\ reruns[r] >= reruns[r]
      /\ \A k \in Consumers : AttemptOf(k)
  BY DEF ConsumerInv, Consumer!TypeOK
<1>a. Balanced(applied[r], Overtaken(r), reruns[r], Recorded(r))
  BY Zenon DEF ConsumerInv, CallbacksOf
<1> USE DEF Consumer!Holds
\* a step of one consumer that is not its callback
<1>1. ASSUME NEW k \in Consumers, applied'[r] = applied[r], reruns'[r] >= reruns[r],
             \A j \in Consumers \ {k} :
                /\ kpc'[j] = kpc[j] /\ message'[j] = message[j]
                /\ Consumer!Holds(j, r)' <=> Consumer!Holds(j, r),
             k \in Overtaken(r)' => k \in Overtaken(r),
             record[r] = "Applied" => record'[r] = "Applied",
             Recording(k, r) => Recorded(r)' \/ reruns'[r] >= reruns[r] + 1
      PROVE  CallbacksOf(r)'
  <2>1. Overtaken(r)' \subseteq Overtaken(r)
    BY <1>1, Zenon DEF Overtaken
  <2>2. \A j \in Consumers \ {k} : Recording(j, r) => Recording(j, r)'
    BY <1>1, Zenon DEF Recording
  <2>3. Recorded(r) => Recorded(r)' \/ reruns'[r] >= reruns[r] + 1
    BY <1>1, <2>2, Zenon DEF Recorded
  <2> QED
    BY <1>0, <1>a, <1>1, <2>1, <2>3, NoCopy, Zenon DEF CallbacksOf
<1>2. ASSUME NEW k \in Consumers, NEW s \in Rows, Consumer!Consume(k, s) PROVE CallbacksOf(r)'
  <2>1. /\ UNCHANGED <<applied, reruns>> /\ kpc[k] = "Idle" /\ message'[k] = s
        /\ \A j \in Consumers \ {k} : kpc'[j] = kpc[j] /\ message'[j] = message[j]
    BY <1>0, <1>2, Zenon DEF Consumer!Consume
  <2>2. /\ s = r => record[r] = "New" /\ record'[r] = "Claimed" /\ holder'[r] = k
        /\ s # r => record'[r] = record[r] /\ holder'[r] = holder[r]
    BY <1>0, <1>2, Zenon DEF Consumer!Consume
  <2> QED
    BY <1>0, <1>1, <2>1, <2>2, Zenon DEF Overtaken, Recording
<1>3. ASSUME NEW k \in Consumers, Consumer!ApplyFails(k) PROVE CallbacksOf(r)'
  <2>1. /\ UNCHANGED <<record, holder, message, applied, reruns>> /\ kpc[k] = "Apply"
        /\ kpc'[k] = "Release" /\ \A j \in Consumers \ {k} : kpc'[j] = kpc[j]
    BY <1>0, <1>3, Zenon DEF Consumer!ApplyFails
  <2> QED
    BY <1>0, <1>1, <2>1, Zenon DEF Overtaken, Recording
<1>4. ASSUME NEW k \in Consumers, Consumer!Apply(k) PROVE CallbacksOf(r)'
  <2>1. /\ UNCHANGED <<record, holder, message, reruns>> /\ kpc[k] = "Apply"
        /\ kpc'[k] = "MarkApplied" /\ \A j \in Consumers \ {k} : kpc'[j] = kpc[j]
    BY <1>0, <1>4, Zenon DEF Consumer!Apply
  <2>2. CASE message[k] # r
    <3>1. applied'[r] = applied[r]
      BY <1>0, <1>4, <2>2, Zenon DEF Consumer!Apply
    <3> QED
      BY <1>0, <1>1, <2>1, <2>2, <3>1 DEF Overtaken, Recording
  <2>3. CASE message[k] = r
    <3>1. applied'[r] = applied[r] + 1
      BY <1>0, <1>4, <2>3, Zenon DEF Consumer!Apply
    <3>2. Overtaken(r)' \subseteq Overtaken(r) \ {k}
      BY <2>1, Zenon DEF Overtaken
    <3>3. Recorded(r) => Recorded(r)'
      BY <2>1, Zenon DEF Recorded, Recording
    <3>4. CASE Consumer!Holds(k, r)
      <4>1. ~Recorded(r)
        BY <2>1, <3>4, Zenon DEF Recorded, Recording
      <4>2. Recorded(r)'
        BY <2>1, <2>3, <3>4, Zenon DEF Recorded, Recording
      <4>3. Overtaken(r)' \subseteq Overtaken(r)
        BY <3>2, Zenon
      <4>4. Balanced(applied[r] + 1, Overtaken(r)', reruns[r], Recorded(r)')
        BY <1>0, <1>a, <4>1, <4>2, <4>3, OwnersCopy, Zenon
      <4> QED
        BY <2>1, <3>1, <4>4, Zenon DEF CallbacksOf
    <3>5. CASE ~Consumer!Holds(k, r)
      <4>1. k \in Overtaken(r)
        BY <2>1, <2>3, <3>5, Zenon DEF Overtaken
      <4>2. Balanced(applied[r] + 1, Overtaken(r) \ {k}, reruns[r], Recorded(r))
        BY <1>0, <1>a, <4>1, StaleCopy, Zenon
      <4>3. Balanced(applied'[r], Overtaken(r)', reruns'[r], Recorded(r)')
        BY <1>0, <2>1, <3>1, <3>2, <3>3, <4>2, NoCopy
      <4> QED
        BY <4>3, Zenon DEF CallbacksOf
    <3> QED
      BY <3>4, <3>5, Zenon
  <2> QED
    BY <2>2, <2>3, Zenon
<1>5. ASSUME NEW k \in Consumers, Consumer!MarkApplied(k) \/ Consumer!Release(k)
      PROVE  CallbacksOf(r)'
  <2>1. /\ UNCHANGED <<applied, reruns>> /\ kpc'[k] = "Idle" /\ message[k] \in Rows
        /\ \A j \in Consumers \ {k} : kpc'[j] = kpc[j] /\ message'[j] = message[j]
        /\ record[message[k]] = "Claimed" /\ holder[message[k]] = k
    BY <1>0, <1>5, Zenon DEF Consumer!MarkApplied, Consumer!Release, Consumer!Done, AttemptOf
  <2>2. CASE message[k] # r
    <3>1. record'[r] = record[r] /\ holder'[r] = holder[r]
      BY <1>0, <1>5, <2>2, Zenon DEF Consumer!MarkApplied, Consumer!Release
    <3> QED
      BY <1>0, <1>1, <2>1, <2>2, <3>1, Zenon DEF Overtaken, Recording
  <2>3. CASE message[k] = r
    <3>1. record'[r] = IF kpc[k] = "MarkApplied" THEN "Applied" ELSE "New"
      BY <1>0, <1>5, <2>3, Zenon DEF Consumer!MarkApplied, Consumer!Release, AttemptOf
    <3>2. Recording(k, r) => Recorded(r)'
      BY <3>1, Zenon DEF Recording, Recorded
    <3> QED
      BY <1>0, <1>1, <2>1, <2>3, <3>1, <3>2, Zenon DEF Overtaken
  <2> QED
    BY <2>2, <2>3
<1>6. ASSUME NEW k \in Consumers, Consumer!Refused(k) \/ Consumer!Interrupted(k)
      PROVE  CallbacksOf(r)'
  <2>1. /\ UNCHANGED <<record, holder, applied>> /\ kpc'[k] = "Idle"
        /\ \A j \in Consumers \ {k} : kpc'[j] = kpc[j] /\ message'[j] = message[j]
    BY <1>0, <1>6, Zenon DEF Consumer!Refused, Consumer!Interrupted, Consumer!Done
  <2>2. reruns'[r] >= reruns[r] /\ (Recording(k, r) => reruns'[r] >= reruns[r] + 1)
    BY <1>0, <1>6 DEF Consumer!Refused, Consumer!Interrupted, Recording
  <2> QED
    BY <1>0, <1>1, <2>1, <2>2, Zenon DEF Overtaken
<1>7. ASSUME NEW s \in Rows, Consumer!ExpireDead(s) \/ Consumer!ExpireRunning(s)
      PROVE  CallbacksOf(r)'
  <2>1. UNCHANGED <<kpc, message, applied>>
    BY <1>7, Zenon DEF Consumer!ExpireDead, Consumer!ExpireRunning, Consumer!attempt
  <2>2. CASE s # r
    <3>1. record'[r] = record[r] /\ holder'[r] = holder[r] /\ reruns'[r] = reruns[r]
      BY <1>0, <1>7, <2>2 DEF Consumer!ExpireDead, Consumer!ExpireRunning, Consumer!EndLease
    <3>2. Overtaken(r)' = Overtaken(r) /\ (Recorded(r) => Recorded(r)')
      BY <2>1, <3>1, Zenon DEF Overtaken, Recorded, Recording
    <3>3. /\ applied[r] \in Nat /\ reruns[r] \in Nat /\ reruns'[r] = reruns[r]
          /\ Overtaken(r)' \subseteq Overtaken(r)
      BY <1>0, <3>1, <3>2, Zenon
    <3>4. Balanced(applied[r], Overtaken(r)', reruns'[r], Recorded(r)')
      BY <1>a, <3>2, <3>3, NoCopy
    <3> QED
      BY <2>1, <3>4, Zenon DEF CallbacksOf
  <2>3. CASE s = r
    <3>1. record[r] = "Claimed" /\ record'[r] = "New"
      BY <1>0, <1>7, <2>3, Zenon DEF Consumer!ExpireDead, Consumer!ExpireRunning, Consumer!EndLease
    <3>2. CASE Consumer!ExpireDead(r)
      <4>1. message[holder[r]] # r /\ UNCHANGED reruns
        BY <3>1, <3>2, Zenon DEF Consumer!ExpireDead, Consumer!Running
      <4>2. Overtaken(r)' \subseteq Overtaken(r) /\ ~Recorded(r)
        BY <2>1, <3>1, <4>1, Zenon DEF Overtaken, Recorded, Recording
      <4> QED
        BY <1>0, <1>a, <2>1, <4>1, <4>2, NoCopy DEF CallbacksOf
    <3>3. CASE Consumer!ExpireRunning(r)
      <4>1. reruns'[r] = reruns[r] + 1
        BY <1>0, <3>3, Zenon DEF Consumer!ExpireRunning
      <4>2. Overtaken(r)' \subseteq Overtaken(r) \cup {holder[r]}
        BY <2>1, <3>1, Zenon DEF Overtaken
      <4>3. Recorded(r) => Overtaken(r)' \subseteq Overtaken(r)
        BY <2>1, <3>1, Zenon DEF Overtaken, Recorded, Recording
      <4>4. Balanced(applied[r], Overtaken(r)', reruns[r] + 1, Recorded(r)')
        BY <1>0, <1>a, <4>2, <4>3, LeaseEnds, Zenon
      <4> QED
        BY <2>1, <4>1, <4>4, Zenon DEF CallbacksOf
    <3> QED
      BY <1>7, <2>3, <3>2, <3>3, Zenon
  <2> QED
    BY <2>2, <2>3, Zenon
<1> QED
  BY <1>2, <1>3, <1>4, <1>5, <1>6, <1>7, Zenon DEF Consumer!Next, Consumer!Attempt

(* Every step of workers and consumers together.                           *)
LEMMA DeliveryInvStep == DeliveryInv /\ [DeliveryNext]_deliveryVars => DeliveryInv'
<1> SUFFICES ASSUME DeliveryInv, [DeliveryNext]_deliveryVars PROVE DeliveryInv'
  OBVIOUS
<1>1. CASE Dispatch \/ UNCHANGED deliveryVars
  <2>1. [Next]_vars /\ UNCHANGED consumerVars
    BY <1>1, Zenon DEF Dispatch, deliveryVars
  <2> QED
    BY <2>1, WorkersStep, Zenon
<1>2. CASE Consumption
  <2>1. Consumer!Next /\ UNCHANGED vars
    BY <1>2, Zenon DEF Consumption
  <2>2. ConsumerInv'
    <3>1. Consumer!TypeOK' /\ ConsumerInv
      BY <2>1, ConsumerTypes, Zenon DEF DeliveryInv
    <3>2. UNCHANGED copies
      BY <2>1, Zenon DEF vars
    <3> QED
      BY <2>1, <3>1, <3>2, AttemptsStep, CallbacksStep, Zenon DEF ConsumerInv
  <2>3. DispatchInv' /\ Passes'
    BY <2>1, DispatchInvStep, PassesStep, Zenon DEF DeliveryInv
  <2>4. Enqueued'
    BY <2>1, Zenon DEF DeliveryInv, Enqueued, vars
  <2> QED
    BY <2>2, <2>3, <2>4, Zenon DEF DeliveryInv
<1> QED
  BY <1>1, <1>2, Zenon DEF DeliveryNext

(* consume_once over the dedup store: of any number of consumers and       *)
(* redeliveries, a callback runs again only for a lease that ended under   *)
(* it or an attempt cut off before mark_delivery_applied.                  *)
THEOREM CallbacksHaveACause == DeliverySpec => []RerunsAreExcused
<1>1. DeliveryInv => RerunsAreExcused
  <2> SUFFICES ASSUME DeliveryInv, NEW r \in Rows PROVE applied[r] <= 1 + reruns[r]
    BY Zenon DEF RerunsAreExcused, Consumer!RerunsAreExcused
  <2>1. Balanced(applied[r], Overtaken(r), reruns[r], Recorded(r))
    BY Zenon DEF DeliveryInv, ConsumerInv, CallbacksOf
  <2>2. Cardinality(Overtaken(r)) \in Nat /\ applied[r] \in Nat /\ reruns[r] \in Nat
    BY <2>1, FS_CardinalityType, Zenon DEF Balanced, DeliveryInv, ConsumerInv, Consumer!TypeOK
  <2> QED
    BY <2>1, <2>2 DEF Balanced
<1> QED
  BY <1>1, DeliveryInvInit, DeliveryInvStep, PTL DEF DeliverySpec

(* End to end: what a consumer recorded was applied, and what it applied   *)
(* was enqueued by a commit and passed its digest check, through workers,  *)
(* broker and consumers of any number that fail and overtake each other.   *)
THEOREM ConsumersActOnCommits == DeliverySpec => []AppliedIsReal
<1>1. DeliveryInv => AppliedIsReal
  <2> SUFFICES ASSUME DeliveryInv PROVE NothingInvented
    BY Zenon DEF AppliedIsReal, DeliveryInv, ConsumerInv
  <2> SUFFICES ASSUME NEW r \in Rows, applied[r] > 0 PROVE r \notin Poison /\ row[r] # "absent"
    BY Zenon DEF NothingInvented
  <2>1. copies[r] > 0
    BY Zenon DEF DeliveryInv, ConsumerInv
  <2> QED
    BY <2>1 DEF DeliveryInv, DispatchInv, DeliveredWasPublished, Enqueued
<1> QED
  BY <1>1, DeliveryInvInit, DeliveryInvStep, PTL DEF DeliverySpec
=============================================================================
