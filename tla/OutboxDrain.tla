---------------------------- MODULE OutboxDrain -----------------------------
(***************************************************************************)
(* What the callers of a dispatch pass make of its report: the loop of     *)
(* dispatch_until_idle and the totals of run_outbox_worker, both in        *)
(* crates/statechronicle-ports/src/outbox.rs. Every step is a step of      *)
(* OutboxDispatch that also counts; a drain's max_passes is MaxTicks, and  *)
(* a drain leaves its loop where a worker goes on.                         *)
(***************************************************************************)
EXTENDS OutboxDispatch

CONSTANT Drains  \* the workers that run dispatch_until_idle

ASSUME DrainAssumption == Drains \subseteq Workers /\ \A w \in Drains : Policy[w] = "Retry"

VARIABLES pass,    \* the DispatchReport of the pass under way
          report,  \* the totals of the call
          leaving, \* why a drain returns: "no", "idle" or "error"
          waiting  \* ghost: the rows pending ever since a worker's last claim

drainVars == <<pass, report, leaving, waiting>>
allVars == <<vars, drainVars>>

NoReport == [delivered |-> 0, retried |-> 0, quarantined |-> 0]

Add(a, b) == [f \in DOMAIN NoReport |-> a[f] + b[f]]

DrainInit == /\ Init
             /\ pass = [w \in Workers |-> NoReport] /\ report = [w \in Workers |-> NoReport]
             /\ leaving = [w \in Workers |-> "no"]
             /\ waiting = [w \in Workers |-> {}]

Watch == waiting' = [w \in Workers |-> waiting[w] \cap Pending']

(* Both calls start with empty totals.                                     *)
Begin(w) == /\ Start(w) /\ Watch
            /\ report' = [report EXCEPT ![w] = NoReport]
            /\ leaving' = [leaving EXCEPT ![w] = "no"]
            /\ UNCHANGED pass

(* A worker stops when it is told to, a drain when its loop is over.       *)
Return(w) == /\ Stop(w) /\ Watch
             /\ w \in Drains => leaving[w] # "no" \/ ticks[w] = MaxTicks
             /\ UNCHANGED <<pass, report, leaving>>

NextPass(w, claimed) ==
    /\ leaving[w] = "no" /\ Claim(w, claimed)
    /\ pass' = [pass EXCEPT ![w] = NoReport]
    /\ waiting' = [x \in Workers |-> IF x = w THEN Pending' ELSE waiting[x] \cap Pending']
    /\ UNCHANGED <<report, leaving>>

(* A settled row is counted once its call has succeeded.                   *)
Count(w, field) == /\ pass' = [pass EXCEPT ![w][field] = @ + 1]
                   /\ Watch /\ UNCHANGED <<report, leaving>>

CountDelivered(w) == MarkDelivered(w) /\ Count(w, "delivered")
CountQuarantined(w) == Quarantine(w) /\ Count(w, "quarantined")

CountRetried(w) == current[w] \notin Poison /\ Release(w) /\ Count(w, "retried")

(* Variant: a pass that only gave rows back counts as idle.                *)
IdleUnlessDelivered(r) == r.delivered = 0

Idle(r) == r.delivered = 0 /\ r.retried = 0

(* The pass returned its report, which is added up; a drain that found the *)
(* queue idle leaves its loop.                                             *)
PassDone(w) ==
    /\ BatchDone(w) /\ Watch
    /\ report' = [report EXCEPT ![w] = Add(report[w], pass[w])]
    /\ leaving' = [leaving EXCEPT ![w] = IF w \in Drains /\ Idle(pass[w]) THEN "idle" ELSE @]
    /\ pass' = [pass EXCEPT ![w] = NoReport]

(* The pass returned an error: its own counts are lost, and a drain        *)
(* returns the error in place of its totals.                               *)
PassFails(w) ==
    /\ \/ ClaimFails(w) /\ leaving[w] = "no"
       \/ SettleFails(w) \/ Refused(w)
       \/ current[w] \in Poison /\ Release(w)
    /\ Watch
    /\ leaving' = [leaving EXCEPT ![w] = IF w \in Drains THEN "error" ELSE @]
    /\ pass' = [pass EXCEPT ![w] = NoReport]
    /\ report' = [report EXCEPT ![w] = IF w \in Drains THEN NoReport ELSE @]

(* What a process that dies has counted dies with it.                      *)
Lost(w) == /\ Die(w) /\ Watch
           /\ pass' = [pass EXCEPT ![w] = NoReport]
           /\ report' = [report EXCEPT ![w] = NoReport]
           /\ UNCHANGED leaving

Elsewhere(w) ==
    /\ \/ \E r \in Rows : NextRow(w, r)
       \/ Publish(w)
       \/ \E arrived \in BOOLEAN : PublishFails(w, arrived)
    /\ Watch /\ UNCHANGED <<pass, report, leaving>>

DrainNext ==
    \/ /\ \E r \in Rows : Enqueue(r) \/ ExpireDead(r) \/ ExpireLive(r)
       /\ Watch /\ UNCHANGED <<pass, report, leaving>>
    \/ \E w \in Workers :
          \/ Begin(w) \/ Return(w) \/ PassDone(w) \/ PassFails(w) \/ Lost(w) \/ Elsewhere(w)
          \/ CountDelivered(w) \/ CountQuarantined(w) \/ CountRetried(w)
          \/ \E claimed \in SUBSET Rows : NextPass(w, claimed)

DrainSpec == DrainInit /\ [][DrainNext]_allVars
-----------------------------------------------------------------------------
(* A drain that returns because the queue was idle has left no row behind: *)
(* none is pending that was there for its last claim to take               *)
(* ("Drains currently available outbox rows", dispatch_until_idle).        *)
IdleMeansDrained == \A w \in Workers : leaving[w] = "idle" => waiting[w] = {}

(* What workers report as delivered is delivered: every delivery that is   *)
(* counted is a delivered row of its own, credited to the worker that      *)
(* counted it, however leases ended and whoever settled them.              *)
ReportsAreTrue ==
    \E credit \in [Rows -> Workers \cup {Nobody}] : \A w \in Workers :
        report[w].delivered + pass[w].delivered
            <= Cardinality({r \in Rows : row[r] = "delivered" /\ credit[r] = w})

(* A drain tells the truth about what it did: the deliveries it counted    *)
(* are deliveries, and when it calls the queue idle it has left nothing    *)
(* behind.                                                                 *)
DrainsAreTrue == IdleMeansDrained /\ ReportsAreTrue
=============================================================================
