------------------------ MODULE DurableLedgerTyping ------------------------
(***************************************************************************)
(* Types and control of DurableLedger, for any number of callers, intents, *)
(* keys and faults: what a caller holds at each step of the write path,    *)
(* and that no reservation outlives its transaction.                       *)
(***************************************************************************)
EXTENDS DurableLedger, TLAPS

USE DEF ledger

(* The head is a row of the right type, whatever the ledger holds.         *)
LEMMA HeadType ==
    ASSUME TypeOK
    PROVE  /\ CanonicalHead.id \in CommitIds \cup {None}
           /\ CanonicalHead.sequence \in Nat
           /\ CanonicalHead.next_state_root \in Root
<1>1. CASE commits = <<>>
  <2>1. Unborn \in State
    BY Zenon DEF Unborn, State
  <2> QED
    BY <1>1, <2>1, Zenon DEF CanonicalHead, Root
<1>2. CASE commits # <<>>
  <2>1. commits[Len(commits)] \in Commit
    BY <1>2 DEF TypeOK
  <2> QED
    BY <1>2, <2>1, Zenon DEF CanonicalHead, Commit
<1> QED
  BY <1>1, <1>2, Zenon

(* Overlaying well-typed leaves on a root gives a root.                    *)
LEMMA OverlayType ==
    ASSUME NEW root \in Root, NEW keys \in SUBSET Keys, NEW id \in CommitIds,
           NEW before \in Root
    PROVE  Overlay(root, keys, before, id) \in Root
<1>1. \A k \in Keys : After(before[k], id) \in State
  BY DEF After, Root, State
<1> QED
  BY <1>1, Zenon DEF Overlay, Root

(* The sequencer hands out an unused id when there is one.                 *)
LEMMA MintUnused ==
    ASSUME CommitIds \ UsedIds # {}
    PROVE  Mint \in CommitIds /\ Mint \notin UsedIds
BY Zenon DEF Mint

(* A fresh request is well typed.                                          *)
LEMMA BuildType ==
    ASSUME TypeOK, NEW c \in Callers, NEW d \in Payloads, NEW s \in Soundness,
           job[c] # None, Build(c, d, s)
    PROVE  /\ prepared' \in [Callers -> Request \cup {None}]
           /\ prepared'[c] \in Request
           /\ prepared'[c].commit.intent = job[c].intent
           /\ prepared'[c].commit.payload = job[c].payload
<1> DEFINE keys == Footprint[job[c].intent]
           before == [k \in Keys |-> IF k \in keys THEN loaded[c][k] ELSE Unborn]
           new == [id |-> Mint, parent |-> CanonicalHead.id,
                   sequence |-> CanonicalHead.sequence + 1,
                   previous_state_root |-> CanonicalHead.next_state_root,
                   next_state_root |-> Overlay(CanonicalHead.next_state_root, keys, before, Mint),
                   intent |-> job[c].intent, payload |-> job[c].payload]
<1>1. job[c] \in Job /\ job[c].intent \in Intents /\ job[c].payload \in Payloads
  BY Zenon DEF TypeOK, Job
<1>2. keys \in SUBSET Keys
  BY <1>1, FootprintAssumption, Zenon
<1>3. before \in Root
  <2>1. \A k \in keys : loaded[c][k] \in State
    BY <1>2 DEF Build, TypeOK
  <2>2. Unborn \in State
    BY Zenon DEF Unborn, State
  <2> QED
    BY <2>1, <2>2, Zenon DEF Root
<1>4. Mint \in CommitIds
  BY MintUnused, Zenon DEF Build
<1>5. Overlay(CanonicalHead.next_state_root, keys, before, Mint) \in Root
  BY <1>2, <1>3, <1>4, HeadType, OverlayType, Zenon
<1>6. new \in Commit
  BY <1>1, <1>4, <1>5, HeadType DEF Commit
<1>7. [commit |-> new, before |-> before, digest |-> d, sound |-> s] \in Request
  BY <1>3, <1>6, SoundnessAssumption, Zenon DEF Request
<1>8. prepared' = [prepared EXCEPT ![c] =
                     [commit |-> new, before |-> before, digest |-> d, sound |-> s]]
  BY Zenon DEF Build
<1> QED
  BY <1>7, <1>8, Zenon DEF TypeOK

-----------------------------------------------------------------------------
(* Where a caller is tells what it has: the request of a running call is   *)
(* there, it is for the caller's job, and it passed the checks once the    *)
(* transaction is open.                                                    *)
ControlOf(c) ==
    /\ pc[c] \in Awaits \cup {"Return"} => prepared[c] # None
    /\ pc[c] = "Load" => job[c] # None
    /\ prepared[c] # None =>
          /\ job[c] # None
          /\ prepared[c].commit.intent = job[c].intent
          /\ prepared[c].commit.payload = job[c].payload
    /\ pc[c] \in Writes \cup {"Claim", "Commit", "Rollback"} => Admissible(prepared[c])
    /\ reply[c].status \in {"Committed", "Replay"} =>
          pc[c] \in {"Rollback", "Return"} /\ reply[c].commit \in CommitIds
    /\ reply[c].status = "Committed" => pc[c] = "Return"

Control == \A c \in Callers : ControlOf(c)

Typed == TypeOK /\ Control

(* Types and control hold initially.                                       *)
LEMMA TypedInit == Init => Typed
<1> SUFFICES ASSUME Init PROVE Typed
  BY Zenon
<1>1. Unborn \in State
  BY DEF Unborn, State
<1>2. NoReply \in Reply
  BY Zenon DEF NoReply, Reply
<1>3. TypeOK
  BY <1>1, <1>2, FaultsAssumption DEF Init, TypeOK, Root
<1>4. Control
  BY NoneAssumption, Zenon DEF Init, Control, ControlOf, NoReply, Awaits, Writes
<1> QED
  BY <1>3, <1>4, Zenon DEF Typed

(* The replies the write path gives are replies.                           *)
LEMMA ReplyType ==
    /\ \A k \in {"Unavailable", "Conflict", "Invariant", "InProgress",
                 "PayloadConflict", "Rejected"} : Failure(k) \in Reply
    /\ \A st \in {"Committed", "Replay"}, id \in CommitIds : Success(st, id) \in Reply
    /\ NoReply \in Reply
BY Zenon DEF Failure, Success, NoReply, Reply

(* A step of one caller leaves the others where they were.                 *)
LEMMA ControlFrame ==
    ASSUME Control, NEW c \in Callers, ControlOf(c)',
           \A d \in Callers \ {c} : /\ pc'[d] = pc[d] /\ job'[d] = job[d]
                                    /\ prepared'[d] = prepared[d] /\ reply'[d] = reply[d]
    PROVE  Control'
<1> SUFFICES ASSUME NEW d \in Callers, d # c PROVE ControlOf(d)'
  BY Zenon DEF Control
<1>1. ControlOf(d)
  BY Zenon DEF Control
<1> QED
  BY <1>1 DEF ControlOf, Admissible

(* Every step preserves types and control, one case per action.            *)
LEMMA TypedStep == Typed /\ [Next]_vars => Typed'
<1> SUFFICES ASSUME Typed, [Next]_vars PROVE Typed'
  BY Zenon
<1> USE ReplyType DEF Typed
<1>1. ASSUME NEW c \in Callers, NEW i \in Intents, NEW p \in Payloads, Submit(c, i, p)
      PROVE  Typed'
  <2>1. TypeOK'
    BY <1>1, Zenon DEF Submit, TypeOK, Job
  <2>2. ControlOf(c)'
    BY <1>1, NoneAssumption, Zenon DEF Submit, TypeOK, Control, ControlOf, Job, Admissible, Awaits, Writes
  <2> QED
    BY <1>1, <2>1, <2>2, ControlFrame, Zenon DEF Submit, TypeOK
<1>2. ASSUME NEW c \in Callers, Execute(c) PROVE Typed'
  <2>1. TypeOK'
    BY <1>2, Zenon DEF Execute, Goto, TypeOK
  <2>2. ControlOf(c)'
    BY <1>2, Zenon DEF Execute, Goto, TypeOK, ControlOf, NoReply, Awaits, Writes
  <2> QED
    BY <1>2, <2>1, <2>2, ControlFrame, Zenon DEF Execute, Goto, TypeOK
<1>3. ASSUME NEW c \in Callers, NEW k \in Keys, LoadState(c, k) PROVE Typed'
  <2>1. TypeOK'
    BY <1>3, Zenon DEF LoadState, TypeOK, Root
  <2>2. Control'
    BY <1>3 DEF LoadState, Control, ControlOf, Admissible
  <2> QED
    BY <2>1, <2>2, Zenon
<1>4. ASSUME NEW c \in Callers, NEW d \in Payloads, NEW s \in Soundness, Build(c, d, s)
      PROVE  Typed'
  <2>1. job[c] # None
    BY <1>4, Zenon DEF Build, Control, ControlOf
  <2>2. TypeOK'
    BY <1>4, <2>1, BuildType, ZenonT(30) DEF Build, Goto, TypeOK, Awaits
  <2>3. prepared'[c] # None /\ prepared'[c].commit.intent = job[c].intent
        /\ prepared'[c].commit.payload = job[c].payload
    BY <1>4, <2>1, BuildType, NoneAssumption, Zenon
  <2>4. ControlOf(c)'
    BY <1>4, <2>1, <2>3, Zenon DEF Build, Goto, TypeOK, Control, ControlOf, Awaits, Writes
  <2> QED
    BY <1>4, <2>2, <2>4, ControlFrame, ZenonT(30) DEF Build, Goto, TypeOK
<1>5. ASSUME NEW c \in Callers, Resubmit(c) PROVE Typed'
  <2>1. TypeOK'
    BY <1>5, Zenon DEF Resubmit, Goto, TypeOK, Awaits
  <2>2. ControlOf(c)'
    BY <1>5, Zenon DEF Resubmit, Goto, TypeOK, Control, ControlOf, NoReply, Awaits, Writes
  <2> QED
    BY <1>5, <2>1, <2>2, ControlFrame, Zenon DEF Resubmit, Goto, TypeOK
<1>6. ASSUME NEW c \in Callers, Begin(c) PROVE Typed'
  <2>1. TypeOK'
    BY <1>6, ZenonT(30) DEF Begin, Answer, Goto, TypeOK, Awaits
  <2>2. ControlOf(c)'
    BY <1>6 DEF Begin, Answer, Failure, Goto, TypeOK, Control, ControlOf, Admissible, Awaits, Writes
  <2> QED
    BY <1>6, <2>1, <2>2, ControlFrame, Zenon DEF Begin, Answer, Goto, TypeOK
<1>7. ASSUME NEW c \in Callers, Claim(c) PROVE Typed'
  <2> DEFINE i == prepared[c].commit.intent
  <2>0. prepared[c] \in Request /\ i \in Intents
    BY <1>7 DEF Claim, Control, ControlOf, Awaits, TypeOK, Request, Commit
  <2>1. CASE identities[i] # None
    <3>1. identities[i].commit \in CommitIds
      BY <2>0, <2>1, Zenon DEF TypeOK, Identity
    <3>2. PICK r \in Reply : /\ reply' = [reply EXCEPT ![c] = r]
                             /\ r.status \in {"Replay", "Err"}
                             /\ r.status = "Replay" => r.commit \in CommitIds
      BY <1>7, <2>1, <3>1, Zenon DEF Claim, Answer, Success, Failure
    <3>3. pc' = [pc EXCEPT ![c] = "Rollback"] /\ pc[c] = "Claim"
          /\ UNCHANGED <<ledger, reserved, job, loaded, prepared, staged, acks, faults>>
      BY <1>7, <2>1, Zenon DEF Claim, Goto
    <3>4. TypeOK'
      BY <3>2, <3>3, Zenon DEF TypeOK, Awaits
    <3>5. ControlOf(c)'
      BY <3>2, <3>3 DEF TypeOK, Control, ControlOf, Admissible, Awaits, Writes
    <3> QED
      BY <3>2, <3>3, <3>4, <3>5, ControlFrame, Zenon DEF TypeOK
  <2>2. CASE identities[i] = None /\ reserved[i] # None
    <3>1. /\ reply' = [reply EXCEPT ![c] = Failure("InProgress")]
          /\ pc' = [pc EXCEPT ![c] = "Rollback"] /\ pc[c] = "Claim"
          /\ UNCHANGED <<ledger, reserved, job, loaded, prepared, staged, acks, faults>>
      BY <1>7, <2>2, Zenon DEF Claim, Goto, Answer
    <3>2. TypeOK'
      BY <3>1, Zenon DEF TypeOK, Awaits
    <3>3. ControlOf(c)'
      BY <3>1 DEF TypeOK, Control, ControlOf, Admissible, Awaits, Writes, Failure
    <3> QED
      BY <3>1, <3>2, <3>3, ControlFrame, Zenon DEF TypeOK
  <2>3. CASE identities[i] = None /\ reserved[i] = None
    <3>1. /\ reserved' = [reserved EXCEPT ![i] = c]
          /\ pc' = [pc EXCEPT ![c] = "Events"] /\ pc[c] = "Claim"
          /\ UNCHANGED <<ledger, job, loaded, prepared, staged, reply, acks, faults>>
      BY <1>7, <2>3, Zenon DEF Claim, Goto
    <3>2. TypeOK'
      BY <3>1, <2>0, Zenon DEF TypeOK, Awaits, Writes
    <3>3. ControlOf(c)'
      BY <3>1, Zenon DEF TypeOK, Control, ControlOf, Admissible, Awaits, Writes
    <3> QED
      BY <3>1, <3>2, <3>3, ControlFrame, Zenon DEF TypeOK
  <2> QED
    BY <2>1, <2>2, <2>3, Zenon
<1>8. ASSUME NEW c \in Callers, NEW step \in Writes, NEW next \in Writes \cup {"Commit"},
             Stage(c, step, next)
      PROVE  Typed'
  <2>1. TypeOK'
    BY <1>8, Zenon DEF Stage, Goto, TypeOK, Awaits
  <2>2. ControlOf(c)'
    BY <1>8, Zenon DEF Stage, Goto, TypeOK, Control, ControlOf, Admissible, Awaits, Writes
  <2> QED
    BY <1>8, <2>1, <2>2, ControlFrame, Zenon DEF Stage, Goto, TypeOK
<1>9. ASSUME NEW c \in Callers, NEW kind \in {"Unavailable", "Conflict"}, CallFails(c, kind)
      PROVE  Typed'
  <2>1. TypeOK'
    BY <1>9, FaultsAssumption DEF CallFails, Goto, Answer, TypeOK, Awaits
  <2>2. ControlOf(c)'
    BY <1>9 DEF CallFails, Goto, Answer, Failure, TypeOK, Control, ControlOf, Admissible, Awaits, Writes
  <2> QED
    BY <1>9, <2>1, <2>2, ControlFrame, Zenon DEF CallFails, Goto, Answer, TypeOK
<1>10. ASSUME NEW c \in Callers, Rollback(c) PROVE Typed'
  <2>1. TypeOK'
    BY <1>10, Zenon DEF Rollback, Release, Reassign, Goto, TypeOK, Awaits
  <2>2. ControlOf(c)'
    BY <1>10, Zenon DEF Rollback, Goto, TypeOK, Control, ControlOf, Admissible, Awaits, Writes
  <2> QED
    BY <1>10, <2>1, <2>2, ControlFrame, Zenon DEF Rollback, Goto, TypeOK
<1>11. ASSUME NEW c \in Callers, RollbackFails(c) PROVE Typed'
  <2>1. TypeOK'
    BY <1>11, FaultsAssumption DEF RollbackFails, Abandon, Reassign, Goto, Answer, TypeOK, Awaits
  <2>2. ControlOf(c)'
    BY <1>11 DEF RollbackFails, Goto, Answer, Failure, TypeOK, Control, ControlOf, Admissible, Awaits, Writes
  <2> QED
    BY <1>11, <2>1, <2>2, ControlFrame DEF RollbackFails, Goto, Answer, TypeOK
<1>12. ASSUME NEW c \in Callers, NEW answered \in BOOLEAN, CommitTransaction(c, answered)
       PROVE  Typed'
  <2> DEFINE r == prepared[c]
             i == r.commit.intent
  <2>1. r \in Request /\ i \in Intents /\ r.commit \in Commit /\ r.before \in Root
        /\ r.digest \in Payloads /\ r.commit.id \in CommitIds
    BY <1>12 DEF CommitTransaction, Control, ControlOf, Awaits, TypeOK, Request, Commit
  <2>2. Footprint[i] \in SUBSET Keys
    BY <2>1, FootprintAssumption, Zenon
  <2>3. events' \in SUBSET Event
    <3>1. EventsOf(r) \in SUBSET Event
      BY <2>1, <2>2 DEF EventsOf, Event, After, Root, State
    <3> QED
      BY <1>12, <3>1, Zenon DEF CommitTransaction, Apply, TypeOK
  <2>4. commits' \in Seq(Commit)
    BY <1>12, <2>1 DEF CommitTransaction, Apply, TypeOK
  <2>5. projections' \in Root
    BY <1>12, <2>1, <2>2, OverlayType, Zenon DEF CommitTransaction, Apply, TypeOK
  <2>6. outbox' \in SUBSET CommitIds
    BY <1>12, <2>1, Zenon DEF CommitTransaction, Apply, TypeOK
  <2>7. identities' \in [Intents -> Identity \cup {None}]
    BY <1>12, <2>1, ZenonT(30) DEF CommitTransaction, Apply, TypeOK, Identity
  <2>8. reserved' \in [Intents -> Callers \cup {None, Orphan}]
    BY <1>12, Zenon DEF CommitTransaction, Release, Reassign, TypeOK
  <2>9. reply' \in [Callers -> Reply] /\ faults' \in 0 .. MaxFaults
    <3>1. CASE answered
      <4>1. reply' = [reply EXCEPT ![c] = Success("Committed", r.commit.id)] /\ UNCHANGED faults
        BY <1>12, <3>1, Zenon DEF CommitTransaction, Answer
      <4> QED
        BY <4>1, <2>1, ReplyType, ZenonT(30) DEF TypeOK
    <3>2. CASE ~answered
      <4>1. /\ reply' = [reply EXCEPT ![c] = Failure("Unavailable")]
            /\ faults < MaxFaults /\ faults' = faults + 1
        BY <1>12, <3>2, Zenon DEF CommitTransaction, Answer
      <4> QED
        BY <4>1, FaultsAssumption DEF TypeOK
    <3> QED
      BY <3>1, <3>2, Zenon
  <2>10. TypeOK'
    BY ZenonT(30), <1>12, <2>3, <2>4, <2>5, <2>6, <2>7, <2>8, <2>9
       DEF CommitTransaction, Goto, TypeOK, Awaits
  <2>11. ControlOf(c)'
    BY <1>12, <2>1 DEF CommitTransaction, Answer, Goto, Success, Failure, TypeOK, Control,
       ControlOf, Awaits, Writes
  <2> QED
    BY <1>12, <2>10, <2>11, ControlFrame DEF CommitTransaction, Answer, Goto, TypeOK
<1>13. ASSUME NEW c \in Callers, CommitRefused(c) PROVE Typed'
  <2>1. TypeOK'
    BY <1>13, Zenon DEF CommitRefused, Release, Reassign, Goto, Answer, TypeOK, Awaits
  <2>2. ControlOf(c)'
    BY <1>13, ZenonT(30) DEF CommitRefused, Goto, Answer, Failure, TypeOK, Control, ControlOf, Awaits, Writes
  <2> QED
    BY <1>13, <2>1, <2>2, ControlFrame, ZenonT(30) DEF CommitRefused, Goto, Answer, TypeOK
<1>14. ASSUME NEW c \in Callers, CommitFails(c) PROVE Typed'
  <2>1. TypeOK'
    BY <1>14, FaultsAssumption
       DEF CommitFails, Abandon, Reassign, Goto, Answer, TypeOK, Awaits
  <2>2. ControlOf(c)'
    BY <1>14, ZenonT(30) DEF CommitFails, Goto, Answer, Failure, TypeOK, Control, ControlOf, Awaits, Writes
  <2> QED
    BY <1>14, <2>1, <2>2, ControlFrame, ZenonT(30) DEF CommitFails, Goto, Answer, TypeOK
<1>15. ASSUME NEW c \in Callers, Return(c) PROVE Typed'
  <2>1. prepared[c] # None /\ job[c] \in Job
    BY <1>15, ZenonT(30) DEF Return, Control, ControlOf, TypeOK
  <2>2. acks' \in SUBSET [intent : Intents, payload : Payloads, commit : CommitIds]
    BY <1>15, <2>1 DEF Return, Control, ControlOf, TypeOK, Job
  <2>3. TypeOK'
    BY <1>15, <2>2, ZenonT(30) DEF Return, Goto, TypeOK
  <2>4. ControlOf(c)'
    BY <1>15, ZenonT(30) DEF Return, Goto, NoReply, TypeOK, Control, ControlOf, Awaits, Writes
  <2> QED
    BY <1>15, <2>3, <2>4, ControlFrame, ZenonT(30) DEF Return, Goto, TypeOK
<1>16. ASSUME NEW c \in Callers, Crash(c) PROVE Typed'
  <2>1. TypeOK'
    BY <1>16, FaultsAssumption DEF Crash, Abandon, Reassign, Goto, TypeOK
  <2>2. ControlOf(c)'
    BY <1>16, ZenonT(30) DEF Crash, Goto, NoReply, TypeOK, Control, ControlOf, Awaits, Writes
  <2> QED
    BY <1>16, <2>1, <2>2, ControlFrame, Zenon DEF Crash, Goto, TypeOK
<1>17. ASSUME NEW i \in Intents, ExpireLease(i) PROVE Typed'
  <2>1. TypeOK'
    BY <1>17, Zenon DEF ExpireLease, TypeOK
  <2>2. Control'
    BY <1>17, Zenon DEF ExpireLease, Control, ControlOf, Admissible
  <2> QED
    BY <2>1, <2>2, Zenon
<1>18. CASE UNCHANGED vars
  <2>1. TypeOK'
    BY <1>18, Zenon DEF vars, TypeOK
  <2>2. Control'
    BY <1>18, Zenon DEF vars, Control, ControlOf, Admissible
  <2> QED
    BY <2>1, <2>2, Zenon
<1> QED
  <2>1. \A c \in Callers : AppendEvents(c) \/ AppendCommit(c) \/ UpsertProjections(c)
                           \/ EnqueueOutbox(c) \/ FinalizeIdempotency(c) => Typed'
    BY <1>8, Zenon DEF AppendEvents, AppendCommit, UpsertProjections, EnqueueOutbox,
                FinalizeIdempotency, Writes
  <2> QED
    BY ZenonT(30), <2>1, <1>1, <1>2, <1>3, <1>4, <1>5, <1>6, <1>7, <1>9, <1>10, <1>11, <1>12,
       <1>13, <1>14, <1>15, <1>16, <1>17, <1>18
       DEF Next, Prepare, Persist, Fault

(* Every variable of the write path keeps its type, for any number of      *)
(* callers, intents, keys and faults.                                      *)
THEOREM TypeCorrect == Spec => []TypeOK
<1>1. Typed => TypeOK
  BY Zenon DEF Typed
<1> QED
  BY <1>1, TypedInit, TypedStep, PTL DEF Spec

-----------------------------------------------------------------------------
(* Reservations: a step of c that ends its transaction takes c's           *)
(* reservations with it; a step that does not leaves it inside.            *)
LEMMA ReservationFrame ==
    ASSUME NoStrandedReservation, NEW c \in Callers,
           \A d \in Callers \ {c} : pc'[d] = pc[d] /\ prepared'[d] = prepared[d],
           \A i \in Intents, d \in Callers \ {c} : reserved'[i] = d => reserved[i] = d,
           \A i \in Intents : reserved'[i] = c =>
              /\ pc'[c] \in Writes \cup {"Commit", "Rollback"}
              /\ prepared'[c].commit.intent = i /\ Admissible(prepared'[c])
    PROVE  NoStrandedReservation'
BY DEF NoStrandedReservation, Admissible

(* Every step keeps reservations inside running transactions.              *)
LEMMA ReservationStep ==
    ASSUME Typed, NoStrandedReservation, [Next]_vars
    PROVE  NoStrandedReservation'
<1> USE DEF Typed
<1> DEFINE Nothing(c) == \A i \in Intents : reserved[i] # c
<1>1. ASSUME NEW c \in Callers, pc[c] \notin Writes \cup {"Commit", "Rollback"} PROVE Nothing(c)
  BY <1>1, Zenon DEF NoStrandedReservation
<1>2. ASSUME NEW c \in Callers, UNCHANGED reserved, Nothing(c),
             \A d \in Callers \ {c} : pc'[d] = pc[d] /\ prepared'[d] = prepared[d]
      PROVE  NoStrandedReservation'
  BY <1>2, ReservationFrame, Zenon
<1>3. ASSUME NEW c \in Callers, Release(c) \/ Abandon(c),
             \A d \in Callers \ {c} : pc'[d] = pc[d] /\ prepared'[d] = prepared[d]
      PROVE  NoStrandedReservation'
  <2>1. \A i \in Intents : /\ reserved'[i] # c
                           /\ \A d \in Callers \ {c} : reserved'[i] = d => reserved[i] = d
    BY <1>3, NoneAssumption, Zenon DEF Release, Abandon, Reassign
  <2> QED
    BY <1>3, <2>1, ReservationFrame, Zenon
<1>4. ASSUME NEW c \in Callers, NEW i \in Intents, NEW p \in Payloads, Submit(c, i, p)
      PROVE  NoStrandedReservation'
  BY <1>4 DEF Submit, NoStrandedReservation, Admissible
<1>5. ASSUME NEW c \in Callers, Execute(c) \/ Resubmit(c) PROVE NoStrandedReservation'
  <2>1. Nothing(c)
    BY <1>1, <1>5, Zenon DEF Execute, Resubmit, Writes
  <2> QED
    BY <1>2, <1>5, <2>1, Zenon DEF Execute, Resubmit, Goto, TypeOK
<1>6. ASSUME NEW c \in Callers, NEW k \in Keys, LoadState(c, k) PROVE NoStrandedReservation'
  BY <1>6 DEF LoadState, NoStrandedReservation, Admissible
<1>7. ASSUME NEW c \in Callers, NEW d \in Payloads, NEW s \in Soundness, Build(c, d, s)
      PROVE  NoStrandedReservation'
  <2>1. Nothing(c)
    BY <1>1, <1>7, Zenon DEF Build, Writes
  <2> QED
    BY <1>2, <1>7, <2>1, Zenon DEF Build, Goto, TypeOK
<1>8. ASSUME NEW c \in Callers, Begin(c) \/ Return(c) PROVE NoStrandedReservation'
  <2>1. Nothing(c)
    BY <1>1, <1>8, Zenon DEF Begin, Return, Writes
  <2> QED
    BY <1>2, <1>8, <2>1, ZenonT(30) DEF Begin, Return, Goto, TypeOK
<1>9. ASSUME NEW c \in Callers, Claim(c) PROVE NoStrandedReservation'
  <2> DEFINE i == prepared[c].commit.intent
  <2>1. Nothing(c) /\ Admissible(prepared[c]) /\ prepared' = prepared
    BY <1>1, <1>9, Zenon DEF Claim, Control, ControlOf, Writes
  <2>2. \A d \in Callers \ {c} : pc'[d] = pc[d]
    BY <1>9, Zenon DEF Claim, Goto, TypeOK
  <2>3. CASE UNCHANGED reserved
    BY <1>2, <2>1, <2>2, <2>3, Zenon
  <2>4. CASE reserved' = [reserved EXCEPT ![i] = c] /\ pc' = [pc EXCEPT ![c] = "Events"]
    <3>1. \A j \in Intents : reserved'[j] = c => j = i
      BY <2>1, <2>4, Zenon DEF TypeOK
    <3>2. \A j \in Intents, d \in Callers \ {c} : reserved'[j] = d => reserved[j] = d
      BY <2>4, Zenon DEF TypeOK
    <3>3. pc'[c] \in Writes
      BY <2>4, Zenon DEF TypeOK, Writes
    <3> QED
      BY <2>1, <2>2, <3>1, <3>2, <3>3, ReservationFrame, Zenon
  <2> QED
    BY <1>9, <2>3, <2>4, Zenon DEF Claim, Goto
<1>10. ASSUME NEW c \in Callers, NEW step \in Writes, NEW next \in Writes \cup {"Commit"},
              Stage(c, step, next)
       PROVE  NoStrandedReservation'
  <2>1. pc'[c] \in Writes \cup {"Commit", "Rollback"} /\ UNCHANGED <<reserved, prepared>>
        /\ \A d \in Callers \ {c} : pc'[d] = pc[d]
    BY <1>10, Zenon DEF Stage, Goto, TypeOK
  <2> QED
    BY <2>1, ReservationFrame DEF NoStrandedReservation
<1>11. ASSUME NEW c \in Callers, NEW kind \in {"Unavailable", "Conflict"}, CallFails(c, kind)
       PROVE  NoStrandedReservation'
  <2>1. UNCHANGED <<reserved, prepared>> /\ \A d \in Callers \ {c} : pc'[d] = pc[d]
    BY <1>11, Zenon DEF CallFails, Goto, TypeOK
  <2>2. CASE pc[c] = "Begin"
    <3>1. Nothing(c)
      BY <1>1, <2>2, Zenon DEF Writes
    <3> QED
      BY <1>2, <2>1, <3>1, Zenon
  <2>3. CASE pc[c] # "Begin"
    <3>1. pc'[c] = "Rollback"
      BY <1>11, <2>3, Zenon DEF CallFails, Goto, TypeOK
    <3> QED
      BY <2>1, <3>1, ReservationFrame DEF NoStrandedReservation
  <2> QED
    BY <2>2, <2>3, Zenon
<1>12. ASSUME NEW c \in Callers,
              Rollback(c) \/ RollbackFails(c) \/ CommitRefused(c) \/ CommitFails(c) \/ Crash(c)
       PROVE  NoStrandedReservation'
  BY <1>3, <1>12, Zenon DEF Rollback, RollbackFails, CommitRefused, CommitFails, Crash, Goto, TypeOK
<1>13. ASSUME NEW c \in Callers, NEW answered \in BOOLEAN, CommitTransaction(c, answered)
       PROVE  NoStrandedReservation'
  BY <1>3, <1>13, Zenon DEF CommitTransaction, Goto, TypeOK
<1>14. ASSUME NEW i \in Intents, ExpireLease(i) PROVE NoStrandedReservation'
  <2>1. \A j \in Intents, c \in Callers : reserved'[j] = c => reserved[j] = c
    BY <1>14, NoneAssumption, Zenon DEF ExpireLease, TypeOK
  <2>2. UNCHANGED <<pc, prepared>>
    BY <1>14, Zenon DEF ExpireLease
  <2>3. \A c \in Callers : Admissible(prepared[c]) => Admissible(prepared[c])'
    BY <2>2, Zenon DEF Admissible
  <2>4. SUFFICES ASSUME NEW j \in Intents, NEW c \in Callers, reserved'[j] = c
                 PROVE  /\ pc[c] \in Writes \cup {"Commit", "Rollback"}
                        /\ prepared[c].commit.intent = j /\ Admissible(prepared[c])
    BY <2>2, <2>3, Zenon DEF NoStrandedReservation
  <2> QED
    BY <2>1, <2>4 DEF NoStrandedReservation
<1>15. CASE UNCHANGED vars
  BY <1>15, Zenon DEF vars, NoStrandedReservation, Admissible
<1> QED
  <2>1. \A c \in Callers : AppendEvents(c) \/ AppendCommit(c) \/ UpsertProjections(c)
                           \/ EnqueueOutbox(c) \/ FinalizeIdempotency(c) => NoStrandedReservation'
    BY <1>10, Zenon DEF AppendEvents, AppendCommit, UpsertProjections, EnqueueOutbox,
                 FinalizeIdempotency, Writes
  <2> QED
    BY ZenonT(30), <2>1, <1>4, <1>5, <1>6, <1>7, <1>8, <1>9, <1>11, <1>12, <1>13, <1>14, <1>15
       DEF Next, Prepare, Persist, Fault

(* ADR-008: "An aborted transaction must not leave a permanent claimed     *)
(* intent".  A reservation is held by a transaction at work on a checked   *)
(* request for that very intent, or waits for the end of its lease.        *)
THEOREM AbortReleasesClaim == Spec => []NoStrandedReservation
<1>1. Init => NoStrandedReservation
  BY NoneAssumption DEF Init, NoStrandedReservation
<1>2. Typed /\ NoStrandedReservation /\ [Next]_vars => NoStrandedReservation'
  BY ReservationStep, Zenon
<1> QED
  BY <1>1, <1>2, TypedInit, TypedStep, PTL DEF Spec
=============================================================================
