------------------------ MODULE DurableLedgerProofs ------------------------
(***************************************************************************)
(* Proofs that DurableLedger executes an intent at most once and answers   *)
(* every retry with the commit that did, that what it stores is one        *)
(* history, all of it or nothing, and that to its callers it is            *)
(* AtomicLedger.                                                           *)
(***************************************************************************)
EXTENDS DurableLedgerTyping, TLAPS

USE DEF ledger
-----------------------------------------------------------------------------
(* Exactly once *)

(* The inductive invariant behind exactly-once execution.  The ledger and  *)
(* the finalized claims tell the same story ...                            *)
LedgerInv ==
    /\ \A n \in DOMAIN commits :
          /\ commits[n].sequence = n
          /\ identities[commits[n].intent] =
                [digest |-> commits[n].payload, commit |-> commits[n].id]
    /\ \A i \in Intents : identities[i] # None =>
          \E n \in DOMAIN commits : commits[n].intent = i
    /\ ExactlyOnce

(* ... a request was built on a head the ledger has had, and if its intent *)
(* is finalized although its own claim was answered with a reservation,    *)
(* that head is gone (the heart of the argument: the store's check of the  *)
(* head then refuses the commit) ...                                       *)
CallerInvOf(c) ==
    /\ pc[c] \in {"CommitRow", "Projection", "Outbox", "Finalize", "Commit"} => "Events" \in staged[c]
    /\ pc[c] \in {"Projection", "Outbox", "Finalize", "Commit"} => "CommitRow" \in staged[c]
    /\ pc[c] \in {"Outbox", "Finalize", "Commit"} => "Projection" \in staged[c]
    /\ pc[c] \in {"Finalize", "Commit"} => "Outbox" \in staged[c]
    /\ pc[c] = "Commit" => "Finalize" \in staged[c]
    /\ prepared[c] # None => prepared[c].commit.sequence <= Len(commits) + 1
    /\ pc[c] \in Writes \cup {"Commit"} /\ identities[prepared[c].commit.intent] # None =>
          prepared[c].commit.sequence <= Len(commits)
    /\ reply[c].status \in {"Committed", "Replay"} =>
          identities[prepared[c].commit.intent] =
              [digest |-> prepared[c].commit.payload, commit |-> reply[c].commit]

CallerInv == \A c \in Callers : CallerInvOf(c)

(* ... and every acknowledged success is the finalized claim.              *)
AckInv == \A a \in acks : identities[a.intent] = [digest |-> a.payload, commit |-> a.commit]

Inv == Typed /\ LedgerInv /\ CallerInv /\ AckInv

(* The invariant holds of the empty ledger.                                *)
LEMMA InvInit == Init => Inv
<1> SUFFICES ASSUME Init PROVE Inv
  BY Zenon
<1>1. Typed
  BY TypedInit, Zenon
<1>2. LedgerInv
  BY DEF Init, LedgerInv, ExactlyOnce
<1>3. CallerInv
  BY Zenon DEF Init, CallerInv, CallerInvOf, NoReply, Writes
<1>4. AckInv
  BY Zenon DEF Init, AckInv
<1> QED
  BY <1>1, <1>2, <1>3, <1>4, Zenon DEF Inv

(* The head's sequence number is the number of commits.                    *)
LEMMA HeadSequence ==
    ASSUME TypeOK, LedgerInv
    PROVE  CanonicalHead.sequence = Len(commits)
<1>1. CASE commits = <<>>
  BY <1>1, Zenon DEF CanonicalHead
<1>2. CASE commits # <<>>
  <2>1. Len(commits) \in DOMAIN commits
    BY <1>2 DEF TypeOK
  <2> QED
    BY <1>2, <2>1, ZenonT(30) DEF CanonicalHead, LedgerInv
<1> QED
  BY <1>1, <1>2, Zenon

(* A step of one caller that leaves the ledger alone.                      *)
LEMMA CallerFrame ==
    ASSUME CallerInv, LedgerInv, AckInv, NEW c \in Callers,
           UNCHANGED ledger, UNCHANGED acks, CallerInvOf(c)',
           \A d \in Callers \ {c} : /\ pc'[d] = pc[d] /\ staged'[d] = staged[d]
                                    /\ prepared'[d] = prepared[d] /\ reply'[d] = reply[d]
    PROVE  LedgerInv' /\ CallerInv' /\ AckInv'
<1>1. LedgerInv' /\ AckInv'
  BY DEF LedgerInv, ExactlyOnce, AckInv
<1>2. ASSUME NEW d \in Callers, d # c PROVE CallerInvOf(d)'
  <2>1. CallerInvOf(d)
    BY Zenon DEF CallerInv
  <2> QED
    BY <1>2, <2>1 DEF CallerInvOf
<1> QED
  BY <1>1, <1>2, Zenon DEF CallerInv

(* A finalized claim is not the absent value.                              *)
LEMMA FinalizedIsSomething ==
    ASSUME NEW d \in Payloads, NEW id \in CommitIds
    PROVE  [digest |-> d, commit |-> id] # None
BY NoneAssumption DEF Identity

(* The one step that changes the ledger.                                   *)
LEMMA CommitStep ==
    ASSUME Inv, NEW c \in Callers, NEW answered \in BOOLEAN, CommitTransaction(c, answered)
    PROVE  LedgerInv' /\ CallerInv' /\ AckInv'
<1> DEFINE r == prepared[c]
           i == r.commit.intent
           id == [digest |-> r.digest, commit |-> r.commit.id]
<1> USE DEF Inv, Typed
<1>1. /\ r \in Request /\ i \in Intents /\ r.commit \in Commit /\ r.commit.id \in CommitIds
      /\ r.digest \in Payloads /\ r.digest = r.commit.payload /\ r.commit.sequence \in Nat
  BY DEF CommitTransaction, Control, ControlOf, Admissible, Awaits, TypeOK, Request, Commit
<1>2. /\ commits' = Append(commits, r.commit)
      /\ identities' = [identities EXCEPT ![i] = id]
  BY ZenonT(30) DEF CommitTransaction, CallerInv, CallerInvOf, Apply
<1>3. r.commit.sequence = Len(commits) + 1
  BY HeadSequence, Zenon DEF CommitTransaction, HeadUnchanged
<1>4. identities[i] = None
  <2>1. pc[c] = "Commit" /\ CallerInvOf(c)
    BY Zenon DEF CommitTransaction, CallerInv
  <2>2. Len(commits) \in Nat
    BY DEF TypeOK
  <2> QED
    BY <2>1, <2>2, <1>3 DEF CallerInvOf
<1>5. id # None
  BY <1>1, FinalizedIsSomething, Zenon
<1>6. \A n \in DOMAIN commits : commits[n] \in Commit /\ commits[n].intent \in Intents
                                /\ commits[n].payload \in Payloads /\ commits[n].id \in CommitIds
  <2>1. \A n \in DOMAIN commits : commits[n] \in Commit
    BY DEF TypeOK
  <2> QED
    BY <2>1, Zenon DEF Commit
<1>7. \A n \in DOMAIN commits : commits[n].intent # i
  <2> SUFFICES ASSUME NEW n \in DOMAIN commits PROVE commits[n].intent # i
    BY Zenon
  <2>1. [digest |-> commits[n].payload, commit |-> commits[n].id] # None
    BY <1>6, FinalizedIsSomething, Zenon
  <2> QED
    BY <2>1, <1>4, ZenonT(30) DEF LedgerInv
<1>8. /\ Len(commits') = Len(commits) + 1 /\ Len(commits) \in Nat
      /\ DOMAIN commits' = 1 .. Len(commits) + 1 /\ DOMAIN commits = 1 .. Len(commits)
      /\ \A n \in DOMAIN commits : commits'[n] = commits[n]
      /\ commits'[Len(commits) + 1] = r.commit
  BY <1>1, <1>2 DEF TypeOK
<1>9. \A n \in DOMAIN commits' : n \in DOMAIN commits \/ n = Len(commits) + 1
  BY <1>8
<1>10. \A j \in Intents : j # i => identities'[j] = identities[j]
  BY <1>2, Zenon DEF TypeOK
<1>11. identities'[i] = id
  BY <1>1, <1>2, Zenon DEF TypeOK
<1>12. LedgerInv'
  <2>1. ASSUME NEW n \in DOMAIN commits'
        PROVE  /\ commits'[n].sequence = n
               /\ identities'[commits'[n].intent] =
                     [digest |-> commits'[n].payload, commit |-> commits'[n].id]
    <3>1. CASE n \in DOMAIN commits
      BY <3>1, <1>6, <1>7, <1>8, <1>10 DEF LedgerInv
    <3>2. CASE n = Len(commits) + 1
      BY <3>2, <1>1, <1>3, <1>8, <1>11, Zenon
    <3> QED
      BY <3>1, <3>2, <1>9, Zenon
  <2>2. ASSUME NEW j \in Intents, identities'[j] # None
        PROVE  \E n \in DOMAIN commits' : commits'[n].intent = j
    <3>1. CASE j = i
      BY <3>1, <1>8
    <3>2. CASE j # i
      <4>1. PICK n \in DOMAIN commits : commits[n].intent = j
        BY <2>2, <3>2, <1>10, Zenon DEF LedgerInv
      <4> QED
        BY <4>1, <1>8
    <3> QED
      BY <3>1, <3>2, Zenon
  <2>3. ExactlyOnce'
    BY <1>7, <1>8, <1>9 DEF LedgerInv, ExactlyOnce
  <2> QED
    BY <2>1, <2>2, <2>3, Zenon DEF LedgerInv
<1>13. CallerInv'
  <2>1. CallerInvOf(c)'
    <3>1. pc'[c] = "Return" /\ prepared'[c] = r
      BY Zenon DEF CommitTransaction, Goto, TypeOK
    <3>2. reply'[c].status \in {"Committed", "Replay"} => reply'[c].commit = r.commit.id
      BY DEF CommitTransaction, Answer, Success, Failure, TypeOK
    <3> QED
      BY <3>1, <3>2, <1>1, <1>3, <1>8, <1>11 DEF CallerInvOf, Writes
  <2>2. ASSUME NEW d \in Callers, d # c PROVE CallerInvOf(d)'
    <3>1. /\ pc'[d] = pc[d] /\ staged'[d] = staged[d]
          /\ prepared'[d] = prepared[d] /\ reply'[d] = reply[d]
      BY <2>2, Zenon DEF CommitTransaction, Goto, Answer, TypeOK
    <3>2. CallerInvOf(d) /\ ControlOf(d)
      BY Zenon DEF CallerInv, Control
    <3>3. ASSUME prepared[d] # None
          PROVE  /\ prepared[d].commit.intent \in Intents /\ prepared[d].commit.payload \in Payloads
                 /\ prepared[d].commit.sequence \in Nat
                 /\ prepared[d].commit.sequence <= Len(commits')
      BY <3>2, <3>3, <1>8 DEF CallerInvOf, TypeOK, Request, Commit
    <3>4. ASSUME reply[d].status \in {"Committed", "Replay"}
          PROVE  identities'[prepared[d].commit.intent] =
                   [digest |-> prepared[d].commit.payload, commit |-> reply[d].commit]
      <4>1. prepared[d] # None /\ reply[d].commit \in CommitIds
        BY <3>2, <3>4, Zenon DEF ControlOf, Awaits
      <4>2. prepared[d].commit.intent # i
        BY <3>2, <3>3, <3>4, <4>1, <1>4, FinalizedIsSomething, Zenon DEF CallerInvOf
      <4> QED
        BY <3>2, <3>3, <3>4, <4>1, <4>2, <1>10, Zenon DEF CallerInvOf
    <3>5. pc[d] \in Writes \cup {"Commit"} => prepared[d] # None
      BY <3>2, Zenon DEF ControlOf, Awaits
    <3> QED
      BY <3>1, <3>2, <3>3, <3>4, <3>5, <1>8 DEF CallerInvOf
  <2> QED
    BY <2>1, <2>2, Zenon DEF CallerInv
<1>14. AckInv'
  <2>1. ASSUME NEW a \in acks
        PROVE  identities'[a.intent] = [digest |-> a.payload, commit |-> a.commit]
    <3>1. a.intent \in Intents /\ a.payload \in Payloads /\ a.commit \in CommitIds
      BY Zenon DEF TypeOK
    <3>2. a.intent # i
      <4>1. [digest |-> a.payload, commit |-> a.commit] # None
        BY <3>1, FinalizedIsSomething, Zenon
      <4> QED
        BY <4>1, <1>4, ZenonT(30) DEF AckInv
    <3> QED
      BY <3>1, <3>2, <1>10, Zenon DEF AckInv
  <2>2. acks' = acks
    BY Zenon DEF CommitTransaction
  <2> QED
    BY <2>1, <2>2, ZenonT(30) DEF AckInv
<1> QED
  BY <1>12, <1>13, <1>14, Zenon

(* Every step preserves the invariant; only CommitStep needs its ledger    *)
(* half.                                                                   *)
LEMMA InvStep == Inv /\ [Next]_vars => Inv'
<1> SUFFICES ASSUME Inv, [Next]_vars PROVE LedgerInv' /\ CallerInv' /\ AckInv'
  BY TypedStep, Zenon DEF Inv
<1> DEFINE Safe == LedgerInv /\ CallerInv /\ AckInv
<1> USE DEF Inv, Typed
<1>0. /\ Len(commits) \in Nat
      /\ pc \in [Callers -> {"Idle", "Load", "Return"} \cup Awaits]
      /\ reply \in [Callers -> Reply]
  BY DEF TypeOK
<1>1. ASSUME NEW c \in Callers, NEW i \in Intents, NEW p \in Payloads, Submit(c, i, p)
      PROVE  Safe'
  <2>1. CallerInvOf(c)'
    BY <1>1, Zenon DEF Submit, CallerInv, CallerInvOf
  <2> QED
    BY <1>1, <2>1, CallerFrame, Zenon DEF Submit
<1>2. ASSUME NEW c \in Callers, Execute(c) PROVE Safe'
  <2>1. CallerInvOf(c)'
    BY <1>2, Zenon DEF Execute, Goto, NoReply, TypeOK, CallerInvOf, Writes
  <2> QED
    BY <1>2, <2>1, CallerFrame, Zenon DEF Execute, Goto, TypeOK
<1>3. ASSUME NEW c \in Callers, NEW k \in Keys, LoadState(c, k) PROVE Safe'
  <2>1. CallerInvOf(c)'
    BY <1>3, Zenon DEF LoadState, CallerInv, CallerInvOf
  <2> QED
    BY <1>3, <2>1, CallerFrame, Zenon DEF LoadState
<1>4. ASSUME NEW c \in Callers, NEW d \in Payloads, NEW s \in Soundness, Build(c, d, s)
      PROVE  Safe'
  <2>1. pc'[c] = "Begin" /\ prepared'[c].commit.sequence = Len(commits) + 1
    BY <1>4, HeadSequence, Zenon DEF Build, Goto, TypeOK
  <2>2. reply'[c].status \notin {"Committed", "Replay"}
    BY <1>4, Zenon DEF Build, Control, ControlOf
  <2>3. UNCHANGED ledger
    BY <1>4, Zenon DEF Build
  <2>4. CallerInvOf(c)'
    BY <1>0, <2>1, <2>2, <2>3 DEF CallerInvOf, Writes
  <2> QED
    BY <1>4, <2>4, CallerFrame, ZenonT(30) DEF Build, Goto, TypeOK
<1>5. ASSUME NEW c \in Callers, Resubmit(c) PROVE Safe'
  <2>1. CallerInvOf(c)'
    BY <1>5, ZenonT(30) DEF Resubmit, Goto, NoReply, TypeOK, CallerInv, CallerInvOf, Writes
  <2> QED
    BY <1>5, <2>1, CallerFrame, Zenon DEF Resubmit, Goto, TypeOK
<1>6. ASSUME NEW c \in Callers, Begin(c) PROVE Safe'
  <2>1. reply'[c].status \notin {"Committed", "Replay"} /\ pc'[c] \in {"Claim", "Return"}
    BY <1>6, <1>0 DEF Begin, Goto, Answer, Failure, Control, ControlOf
  <2>2. CallerInvOf(c)'
    BY <1>6, <2>1, ZenonT(30) DEF Begin, CallerInv, CallerInvOf, Writes
  <2> QED
    BY <1>6, <2>2, CallerFrame, Zenon DEF Begin, Goto, Answer, TypeOK
<1>7. ASSUME NEW c \in Callers, Claim(c) PROVE Safe'
  <2> DEFINE r == prepared[c]
             i == r.commit.intent
  <2>1. /\ r \in Request /\ i \in Intents /\ r.digest = r.commit.payload
        /\ reply[c].status \notin {"Committed", "Replay"}
    BY <1>7 DEF Claim, Control, ControlOf, Admissible, Awaits, TypeOK, Request, Commit
  <2>2. CASE identities[i] # None
    <3>1. identities[i] \in Identity
      BY <2>1, <2>2, Zenon DEF TypeOK
    <3>2. pc'[c] = "Rollback" /\ UNCHANGED <<ledger, prepared, staged, acks>>
      BY <1>7, <2>2, Zenon DEF Claim, Goto, TypeOK
    <3>3. reply'[c].status \in {"Committed", "Replay"} =>
             identities[i].digest = r.digest /\ reply'[c].commit = identities[i].commit
      <4>1. reply' = [reply EXCEPT ![c] = IF identities[i].digest = r.digest
                                          THEN Success("Replay", identities[i].commit)
                                          ELSE Failure("PayloadConflict")]
        BY <1>7, <2>2, Zenon DEF Claim, Answer
      <4> QED
        BY <4>1, <1>0, Zenon DEF Success, Failure
    <3>4. reply'[c].status \in {"Committed", "Replay"} =>
             identities[i] = [digest |-> r.commit.payload, commit |-> reply'[c].commit]
      BY <2>1, <3>1, <3>3, Zenon DEF Identity
    <3>5. CallerInvOf(c)'
      BY <3>2, <3>4, ZenonT(30) DEF CallerInv, CallerInvOf, Writes
    <3> QED
      BY <1>7, <3>2, <3>5, CallerFrame, Zenon DEF Claim, Goto, Answer, TypeOK
  <2>3. CASE identities[i] = None
    <3>1. /\ pc'[c] \in {"Rollback", "Events"} /\ UNCHANGED <<ledger, prepared, staged, acks>>
          /\ reply'[c].status \notin {"Committed", "Replay"}
      BY <1>7, <2>1, <2>3, <1>0 DEF Claim, Goto, Answer, Failure
    <3>2. CallerInvOf(c)'
      BY <3>1, <2>3, ZenonT(30) DEF CallerInv, CallerInvOf, Writes
    <3> QED
      BY <1>7, <3>1, <3>2, CallerFrame, Zenon DEF Claim, Goto, Answer, TypeOK
  <2> QED
    BY <2>2, <2>3, Zenon
<1>8. ASSUME NEW c \in Callers,
             AppendEvents(c) \/ AppendCommit(c) \/ UpsertProjections(c)
             \/ EnqueueOutbox(c) \/ FinalizeIdempotency(c)
      PROVE  Safe'
  <2>1. CallerInvOf(c)'
    BY <1>8 DEF AppendEvents, AppendCommit, UpsertProjections, EnqueueOutbox,
       FinalizeIdempotency, Stage, Goto, TypeOK, CallerInv, CallerInvOf, Writes
  <2>2. PICK step \in Writes, next \in Writes \cup {"Commit"} : Stage(c, step, next)
    BY <1>8, Zenon DEF AppendEvents, AppendCommit, UpsertProjections, EnqueueOutbox,
       FinalizeIdempotency, Writes
  <2> QED
    BY <2>1, <2>2, CallerFrame, Zenon DEF Stage, Goto, TypeOK
<1>9. ASSUME NEW c \in Callers, NEW kind \in {"Unavailable", "Conflict"}, CallFails(c, kind)
      PROVE  Safe'
  <2>1. pc'[c] \in {"Return", "Rollback"} /\ reply'[c].status \notin {"Committed", "Replay"}
    BY <1>9, Zenon DEF CallFails, Goto, Answer, Failure, TypeOK
  <2>2. CallerInvOf(c)'
    BY <1>9, <2>1, ZenonT(30) DEF CallFails, CallerInv, CallerInvOf, Writes
  <2> QED
    BY <1>9, <2>2, CallerFrame, Zenon DEF CallFails, Goto, Answer, TypeOK
<1>10. ASSUME NEW c \in Callers, Rollback(c) PROVE Safe'
  <2>1. CallerInvOf(c)'
    BY <1>10, Zenon DEF Rollback, Goto, TypeOK, CallerInv, CallerInvOf, Writes
  <2> QED
    BY <1>10, <2>1, CallerFrame, Zenon DEF Rollback, Goto, TypeOK
<1>11. ASSUME NEW c \in Callers, RollbackFails(c) PROVE Safe'
  <2>1. reply'[c] = reply[c] \/ reply'[c].status = "Err"
    BY <1>11 DEF RollbackFails, Answer, Failure, TypeOK
  <2>2. CallerInvOf(c)'
    BY <1>11, <2>1, ZenonT(30) DEF RollbackFails, Goto, TypeOK, CallerInv, CallerInvOf, Writes
  <2> QED
    BY <1>11, <2>2, CallerFrame, Zenon DEF RollbackFails, Goto, Answer, TypeOK
<1>12. ASSUME NEW c \in Callers, NEW answered \in BOOLEAN, CommitTransaction(c, answered)
       PROVE  Safe'
  BY <1>12, CommitStep, Zenon
<1>13. ASSUME NEW c \in Callers, CommitRefused(c) \/ CommitFails(c) PROVE Safe'
  <2>1. pc'[c] = "Return" /\ reply'[c].status = "Err"
    BY <1>13 DEF CommitRefused, CommitFails, Goto, Answer, Failure, TypeOK
  <2>2. CallerInvOf(c)'
    BY <1>13, <2>1, ZenonT(30) DEF CommitRefused, CommitFails, CallerInv, CallerInvOf, Writes
  <2> QED
    BY <1>13, <2>2, CallerFrame, Zenon DEF CommitRefused, CommitFails, Goto, Answer, TypeOK
<1>14. ASSUME NEW c \in Callers, Return(c) PROVE Safe'
  <2>1. CallerInvOf(c)'
    BY <1>14, ZenonT(30) DEF Return, Goto, NoReply, TypeOK, CallerInv, CallerInvOf, Writes
  <2>2. CallerInvOf(c) /\ ControlOf(c) /\ prepared[c] # None
    BY <1>14, Zenon DEF Return, CallerInv, Control, ControlOf
  <2>3. ASSUME NEW a \in acks'
        PROVE  identities[a.intent] = [digest |-> a.payload, commit |-> a.commit]
    <3>1. CASE a \in acks
      BY <3>1, Zenon DEF AckInv
    <3>2. CASE a \notin acks
      <4>1. /\ reply[c].status \in {"Committed", "Replay"}
            /\ a = [intent |-> job[c].intent, payload |-> job[c].payload,
                    commit |-> reply[c].commit]
        BY <1>14, <2>3, <3>2, Zenon DEF Return
      <4> QED
        BY <4>1, <2>2, Zenon DEF CallerInvOf, ControlOf
    <3> QED
      BY <3>1, <3>2, Zenon
  <2>4. UNCHANGED ledger
    BY <1>14, Zenon DEF Return
  <2>5. AckInv' /\ LedgerInv'
    BY <2>3, <2>4, Zenon DEF AckInv, LedgerInv, ExactlyOnce
  <2>6. ASSUME NEW d \in Callers, d # c PROVE CallerInvOf(d)'
    <3>1. /\ pc'[d] = pc[d] /\ staged'[d] = staged[d]
          /\ prepared'[d] = prepared[d] /\ reply'[d] = reply[d]
      BY <1>14, <2>6, Zenon DEF Return, Goto, TypeOK
    <3> QED
      BY <3>1, <2>4, ZenonT(30) DEF CallerInv, CallerInvOf
  <2> QED
    BY <2>1, <2>5, <2>6, Zenon DEF CallerInv
<1>15. ASSUME NEW c \in Callers, Crash(c) PROVE Safe'
  <2>1. CallerInvOf(c)'
    BY <1>15, ZenonT(30) DEF Crash, Goto, NoReply, TypeOK, CallerInv, CallerInvOf, Writes
  <2> QED
    BY <1>15, <2>1, CallerFrame, Zenon DEF Crash, Goto, TypeOK
<1>16. CASE (\E i \in Intents : ExpireLease(i)) \/ UNCHANGED vars
  <2>1. UNCHANGED <<ledger, pc, prepared, staged, reply, acks>>
    BY <1>16, Zenon DEF ExpireLease, vars
  <2>2. LedgerInv' /\ AckInv'
    BY <2>1, ZenonT(30) DEF LedgerInv, ExactlyOnce, AckInv
  <2>3. CallerInv'
    BY <2>1, ZenonT(30) DEF CallerInv, CallerInvOf
  <2> QED
    BY <2>2, <2>3, Zenon
<1> QED
  BY ZenonT(30), <1>1, <1>2, <1>3, <1>4, <1>5, <1>6, <1>7, <1>8, <1>9, <1>10, <1>11, <1>12, <1>13,
     <1>14, <1>15, <1>16
     DEF Next, Prepare, Persist, Fault

(* ADR-008: "two attempts cannot both commit".  No schedule of callers,    *)
(* faults, lapsed leases and retries puts an intent into two commits.      *)
THEOREM ExecutedExactlyOnce == Spec => []ExactlyOnce
<1>1. Inv => ExactlyOnce
  BY Zenon DEF Inv, LedgerInv
<1> QED
  BY <1>1, InvInit, InvStep, PTL DEF Spec

(* ADR-008: "A retry with the same canonical payload returns the original  *)
(* committed result".  All successes ever returned for an intent name one  *)
(* commit, and it is in the ledger with that intent and payload.           *)
THEOREM ReplayIsStable == Spec => []StableReplay
<1>1. Inv => StableReplay
  <2> SUFFICES ASSUME Inv PROVE StableReplay
    BY Zenon
  <2>1. \A a \in acks : /\ a = [intent |-> a.intent, payload |-> a.payload, commit |-> a.commit]
                        /\ a.intent \in Intents /\ a.payload \in Payloads /\ a.commit \in CommitIds
    BY DEF Inv, Typed, TypeOK
  <2>2. ASSUME NEW a \in acks, NEW b \in acks, a.intent = b.intent PROVE a = b
    <3>1. [digest |-> a.payload, commit |-> a.commit] = [digest |-> b.payload, commit |-> b.commit]
      BY <2>2, Zenon DEF Inv, AckInv
    <3>2. a.payload = b.payload /\ a.commit = b.commit
      BY <3>1, Zenon
    <3> QED
      BY <2>1, <2>2, <3>2, Zenon
  <2>3. ASSUME NEW a \in acks
        PROVE  \E n \in DOMAIN commits :
                  /\ commits[n].id = a.commit
                  /\ commits[n].intent = a.intent /\ commits[n].payload = a.payload
    <3>1. [digest |-> a.payload, commit |-> a.commit] # None
      BY <2>1, FinalizedIsSomething, Zenon
    <3>2. identities[a.intent] = [digest |-> a.payload, commit |-> a.commit]
      BY Zenon DEF Inv, AckInv
    <3>3. PICK n \in DOMAIN commits : commits[n].intent = a.intent
      BY <2>1, <3>1, <3>2, Zenon DEF Inv, LedgerInv
    <3>4. [digest |-> a.payload, commit |-> a.commit] =
             [digest |-> commits[n].payload, commit |-> commits[n].id]
      BY <3>2, <3>3, Zenon DEF Inv, LedgerInv
    <3> QED
      BY <3>3, <3>4, Zenon
  <2> QED
    BY <2>2, <2>3, Zenon DEF StableReplay
<1> QED
  BY <1>1, InvInit, InvStep, PTL DEF Spec

-----------------------------------------------------------------------------
(* One history *)

(* The ids of the requests in flight are told apart, and the one that      *)
(* became a commit sits at its own sequence number: the store compares     *)
(* sequence numbers, never ids, and so a request handed in again is        *)
(* refused as stale rather than appended under the id of its first commit. *)
FreshIds ==
    /\ \A c, d \in Callers : c # d /\ prepared[c] # None /\ prepared[d] # None =>
          prepared[c].commit.id # prepared[d].commit.id
    /\ \A c \in Callers, n \in DOMAIN commits :
          prepared[c] # None /\ commits[n].id = prepared[c].commit.id =>
             prepared[c].commit.sequence <= n

HistoryInv == Inv /\ FreshIds /\ AllOrNothing /\ LedgerIsHistory

(* A step that neither writes the ledger nor builds a request: a caller    *)
(* keeps its request or drops it.                                          *)
Quiet == /\ UNCHANGED ledger
         /\ \A c \in Callers : prepared'[c] \in {prepared[c], None}

(* What a step can do to the ledger: only the store's commit writes it,    *)
(* and only a build or that commit concerns the ids.                       *)
LEMMA Steps ==
    ASSUME TypeOK, [Next]_vars
    PROVE  \/ Quiet /\ UNCHANGED acks
           \/ \E c \in Callers : Return(c) /\ Quiet
           \/ \E c \in Callers, d \in Payloads, s \in Soundness : Build(c, d, s)
           \/ \E c \in Callers, answered \in BOOLEAN : CommitTransaction(c, answered)
<1>1. ASSUME NEW c \in Callers, \/ Execute(c) \/ Return(c) PROVE Quiet
  BY <1>1, Zenon DEF Execute, Return, Quiet, TypeOK
<1>2. ASSUME NEW c \in Callers, Execute(c) PROVE UNCHANGED acks
  BY <1>2, Zenon DEF Execute
<1>3. ASSUME NEW c \in Callers,
             \/ \E i \in Intents, p \in Payloads : Submit(c, i, p)
             \/ \E k \in Keys : LoadState(c, k)
             \/ Resubmit(c) \/ Begin(c) \/ Claim(c)
      PROVE  UNCHANGED <<ledger, prepared, acks>>
  BY <1>3, ZenonT(30) DEF Submit, LoadState, Resubmit, Begin, Claim
<1>4. ASSUME NEW c \in Callers,
             \/ AppendEvents(c) \/ AppendCommit(c) \/ UpsertProjections(c)
             \/ EnqueueOutbox(c) \/ FinalizeIdempotency(c)
      PROVE  UNCHANGED <<ledger, prepared, acks>>
  BY <1>4, ZenonT(30) DEF AppendEvents, AppendCommit, UpsertProjections, EnqueueOutbox,
     FinalizeIdempotency, Stage
<1>5. ASSUME NEW c \in Callers,
             \/ \E kind \in {"Unavailable", "Conflict"} : CallFails(c, kind)
             \/ RollbackFails(c) \/ CommitFails(c) \/ Crash(c) \/ CommitRefused(c) \/ Rollback(c)
      PROVE  UNCHANGED <<ledger, prepared, acks>>
  BY <1>5, ZenonT(30) DEF CallFails, RollbackFails, CommitFails, Crash, CommitRefused, Rollback
<1>6. CASE (\E i \in Intents : ExpireLease(i)) \/ UNCHANGED vars
  BY <1>6, Zenon DEF ExpireLease, vars, Quiet
<1>7. UNCHANGED <<ledger, prepared, acks>> => Quiet /\ UNCHANGED acks
  BY Zenon DEF Quiet
<1> QED
  BY ZenonT(60), <1>1, <1>2, <1>3, <1>4, <1>5, <1>6, <1>7 DEF Next, Prepare, Persist, Fault

(* What the store's commit writes: the one commit, the events, projections *)
(* and delivery row of the request of c, and the claim of its intent.      *)
LEMMA CommitEffect ==
    ASSUME Inv, NEW c \in Callers, NEW answered \in BOOLEAN, CommitTransaction(c, answered)
    PROVE  LET r == prepared[c] IN
           /\ r \in Request /\ r # None /\ r.commit \in Commit /\ r.before \in Root
           /\ r.commit.intent \in Intents /\ r.commit.id \in CommitIds
           /\ r.commit.payload \in Payloads
           /\ Footprint[r.commit.intent] \subseteq Keys /\ Footprint[r.commit.intent] # {}
           /\ commits' = Append(commits, r.commit)
           /\ events' = events \cup EventsOf(r)
           /\ projections' = Overlay(projections, Footprint[r.commit.intent], r.before, r.commit.id)
           /\ outbox' = outbox \cup {r.commit.id}
           /\ identities' = [identities EXCEPT ![r.commit.intent] =
                                [digest |-> r.commit.payload, commit |-> r.commit.id]]
           /\ identities[r.commit.intent] = None
           /\ prepared' = prepared /\ acks' = acks
           /\ r.commit.sequence = Len(commits) + 1
           /\ \A n \in DOMAIN commits : commits[n].intent # r.commit.intent
<1> DEFINE r == prepared[c]
<1> USE DEF Inv, Typed
<1>1. /\ r \in Request /\ r # None /\ r.commit \in Commit /\ r.before \in Root
      /\ r.commit.intent \in Intents /\ r.commit.id \in CommitIds
      /\ r.commit.payload \in Payloads /\ r.digest = r.commit.payload
  BY DEF CommitTransaction, Control, ControlOf, Admissible, Awaits, TypeOK, Request, Commit
<1>2. Footprint[r.commit.intent] \subseteq Keys /\ Footprint[r.commit.intent] # {}
  BY <1>1, FootprintAssumption, Zenon
<1>3. CallerInvOf(c) /\ pc[c] = "Commit" /\ Apply(c)
  BY Zenon DEF CommitTransaction, CallerInv
<1>4. {"Events", "CommitRow", "Projection", "Outbox", "Finalize"} \subseteq staged[c]
  BY <1>3, Zenon DEF CallerInvOf
<1>5. /\ commits' = Append(commits, r.commit)
      /\ events' = events \cup EventsOf(r)
      /\ projections' = Overlay(projections, Footprint[r.commit.intent], r.before, r.commit.id)
      /\ outbox' = outbox \cup {r.commit.id}
      /\ identities' = [identities EXCEPT ![r.commit.intent] =
                           [digest |-> r.digest, commit |-> r.commit.id]]
  BY <1>3, <1>4, ZenonT(30) DEF Apply
<1>6. prepared' = prepared /\ acks' = acks
  BY Zenon DEF CommitTransaction
<1>7. r.commit.sequence = Len(commits) + 1
  BY HeadSequence DEF CommitTransaction, HeadUnchanged
<1>8. identities[r.commit.intent] = None
  <2>1. Len(commits) \in Nat
    BY DEF TypeOK
  <2> QED
    BY <2>1, <1>3, <1>7 DEF CallerInvOf
<1>9. ASSUME NEW n \in DOMAIN commits PROVE commits[n].intent # r.commit.intent
  <2>1. commits[n] \in Commit
    BY DEF TypeOK
  <2>2. [digest |-> commits[n].payload, commit |-> commits[n].id] # None
    BY <2>1, FinalizedIsSomething, Zenon DEF Commit
  <2> QED
    BY <2>2, <1>8, ZenonT(30) DEF LedgerInv
<1> QED
  BY <1>1, <1>2, <1>5, <1>6, <1>7, <1>8, <1>9, Zenon

(* The commits after one more: the old ones and the new one at the end.    *)
LEMMA Appended ==
    ASSUME TypeOK, NEW x \in Commit, commits' = Append(commits, x)
    PROVE  /\ Len(commits) \in Nat /\ Len(commits') = Len(commits) + 1
           /\ DOMAIN commits = 1 .. Len(commits) /\ DOMAIN commits' = 1 .. Len(commits) + 1
           /\ \A n \in DOMAIN commits : n \in DOMAIN commits' /\ commits'[n] = commits[n]
           /\ Len(commits) + 1 \in DOMAIN commits' /\ commits'[Len(commits) + 1] = x
           /\ \A n \in DOMAIN commits' : n \in DOMAIN commits \/ n = Len(commits) + 1
BY DEF TypeOK

-----------------------------------------------------------------------------
(* The rows of a commit stand or fall together: a commit adds its id to    *)
(* all four families of rows.                                              *)
LEMMA AllOrNothingStep ==
    ASSUME Inv, AllOrNothing, NEW c \in Callers, NEW answered \in BOOLEAN,
           CommitTransaction(c, answered), Inv'
    PROVE  AllOrNothing'
<1> DEFINE r == prepared[c]
           id == r.commit.id
           i == r.commit.intent
<1>1. /\ r.commit \in Commit /\ i \in Intents /\ id \in CommitIds /\ r.commit.payload \in Payloads
      /\ Footprint[i] # {}
      /\ commits' = Append(commits, r.commit)
      /\ events' = events \cup EventsOf(r)
      /\ outbox' = outbox \cup {id}
      /\ identities' = [identities EXCEPT ![i] = [digest |-> r.commit.payload, commit |-> id]]
      /\ identities[i] = None
  BY CommitEffect, Zenon
<1>2. TypeOK
  BY Zenon DEF Inv, Typed
<1> HIDE DEF r
<1> USE DEF AllOrNothing
<1>3. /\ DOMAIN commits' = DOMAIN commits \cup {Len(commits) + 1}
      /\ \A n \in DOMAIN commits : commits'[n] = commits[n]
      /\ commits'[Len(commits) + 1] = r.commit
  BY <1>1, <1>2, Appended
<1>4. {commits'[n].id : n \in DOMAIN commits'} = outbox'
  BY <1>1, <1>3
<1>5. {e.commit : e \in events'} = outbox'
  <2>1. \A e \in EventsOf(r) : e.commit = id
    BY DEF EventsOf
  <2>2. \E e \in EventsOf(r) : e.commit = id
    <3>1. PICK k \in Footprint[i] : TRUE
      BY <1>1, Zenon
    <3>2. [commit |-> id, intent |-> i, key |-> k, before |-> r.before[k],
           after |-> After(r.before[k], id)] \in EventsOf(r)
      BY <3>1, Zenon DEF EventsOf
    <3> QED
      BY <3>2, Zenon
  <2> QED
    BY <1>1, <2>1, <2>2
<1>6. {identities'[j].commit : j \in {j \in Intents : identities'[j] # None}} = outbox'
  <2>1. [digest |-> r.commit.payload, commit |-> id] # None
    BY <1>1, FinalizedIsSomething, Zenon
  <2>2. /\ identities'[i] = [digest |-> r.commit.payload, commit |-> id]
        /\ \A j \in Intents : j # i => identities'[j] = identities[j]
    BY <1>1, <1>2, Zenon DEF TypeOK
  <2> DEFINE J == {j \in Intents : identities[j] # None}
             K == {j \in Intents : identities'[j] # None}
  <2>3. K = J \cup {i} /\ i \notin J /\ J \subseteq Intents
    BY <1>1, <2>1, <2>2
  <2>4. {identities[j].commit : j \in J} = outbox
    BY Zenon
  <2>5. {identities'[j].commit : j \in K} = outbox \cup {id}
    <3> HIDE DEF J, K
    <3>1. \A j \in J : identities'[j] = identities[j]
      BY <2>2, <2>3
    <3> QED
      BY <2>2, <2>3, <2>4, <3>1
  <2> QED
    BY <1>1, <2>5, Zenon
<1>7. ASSUME NEW n \in DOMAIN commits', NEW k \in Footprint[commits'[n].intent]
      PROVE  \E e \in events' : e.commit = commits'[n].id /\ e.key = k
  <2>1. CASE n \in DOMAIN commits
    <3>1. k \in Footprint[commits[n].intent] /\ commits'[n] = commits[n]
      BY <1>3, <2>1, Zenon
    <3>2. PICK e \in events : e.commit = commits[n].id /\ e.key = k
      BY <2>1, <3>1, Zenon
    <3> QED
      BY <1>1, <3>1, <3>2, Zenon
  <2>2. CASE n = Len(commits) + 1
    <3>1. [commit |-> id, intent |-> i, key |-> k, before |-> r.before[k],
           after |-> After(r.before[k], id)] \in EventsOf(r)
      BY <1>3, <1>7, <2>2, Zenon DEF EventsOf
    <3>2. PICK e \in EventsOf(r) : e.commit = id /\ e.key = k
      BY <3>1, Zenon
    <3>3. commits'[n].id = id
      BY <1>3, <2>2, Zenon
    <3> QED
      BY <1>1, <3>2, <3>3, Zenon
  <2> QED
    BY <1>3, <2>1, <2>2, Zenon
<1>8. \A n \in DOMAIN commits' : identities'[commits'[n].intent] =
         [digest |-> commits'[n].payload, commit |-> commits'[n].id]
  BY Zenon DEF Inv, LedgerInv
<1> QED
  BY <1>4, <1>5, <1>6, <1>7, <1>8

-----------------------------------------------------------------------------
(* The chain grows at its head: the store compared the new commit's parent *)
(* and previous root with the head, and its next root with the projections *)
(* it is about to store.                                                   *)
LEMMA ChainStep ==
    ASSUME Inv, CanonicalChain, NEW c \in Callers, NEW answered \in BOOLEAN,
           CommitTransaction(c, answered), Inv'
    PROVE  CanonicalChain'
<1> DEFINE r == prepared[c]
<1>1. /\ r.commit \in Commit
      /\ commits' = Append(commits, r.commit)
      /\ projections' = Overlay(projections, Footprint[r.commit.intent], r.before, r.commit.id)
  BY CommitEffect, Zenon
<1>2. HeadUnchanged(r) /\ RootMatches(r)
  BY Zenon DEF CommitTransaction
<1>3. TypeOK
  BY DEF Inv, Typed
<1> HIDE DEF r
<1>4. /\ Len(commits) \in Nat /\ Len(commits') = Len(commits) + 1
      /\ DOMAIN commits = 1 .. Len(commits)
      /\ \A n \in DOMAIN commits : n \in DOMAIN commits' /\ commits'[n] = commits[n]
      /\ commits'[Len(commits) + 1] = r.commit
      /\ \A n \in DOMAIN commits' : n \in DOMAIN commits \/ n = Len(commits) + 1
  BY <1>1, <1>3, Appended, Zenon
<1>5. CanonicalHead'.next_state_root = projections'
  <2>1. commits' # <<>> /\ commits'[Len(commits')] = r.commit
    BY <1>4
  <2>2. CanonicalHead'.next_state_root = commits'[Len(commits')].next_state_root
    BY <2>1, Zenon DEF CanonicalHead
  <2>3. CanonicalHead'.next_state_root = r.commit.next_state_root
    BY <2>1, <2>2, Zenon
  <2> QED
    BY <2>3, <1>1, <1>2, Zenon DEF RootMatches
<1>6. ASSUME NEW n \in DOMAIN commits'
      PROVE  /\ commits'[n].parent = IF n = 1 THEN None ELSE commits'[n-1].id
             /\ commits'[n].previous_state_root =
                   IF n = 1 THEN [k \in Keys |-> Unborn] ELSE commits'[n-1].next_state_root
  <2>1. CASE n \in DOMAIN commits
    <3>1. n # 1 => n - 1 \in DOMAIN commits
      BY <1>4, <2>1
    <3>2. n # 1 => commits'[n-1] = commits[n-1]
      BY <1>4, <3>1, Zenon
    <3> QED
      BY <1>4, <2>1, <3>2 DEF CanonicalChain
  <2>2. CASE n = Len(commits) + 1
    <3>1. CASE commits = <<>>
      <4>1. CanonicalHead.id = None /\ CanonicalHead.next_state_root = [k \in Keys |-> Unborn]
        BY <3>1, Zenon DEF CanonicalHead
      <4>2. n = 1
        BY <2>2, <3>1
      <4> QED
        BY <1>2, <1>4, <2>2, <4>1, <4>2, Zenon DEF HeadUnchanged
    <3>2. CASE commits # <<>>
      <4>1. /\ CanonicalHead.id = commits[Len(commits)].id
            /\ CanonicalHead.next_state_root = commits[Len(commits)].next_state_root
        BY <3>2, Zenon DEF CanonicalHead
      <4>2. n # 1 /\ n - 1 = Len(commits) /\ Len(commits) \in DOMAIN commits
        BY <1>3, <1>4, <2>2, <3>2 DEF TypeOK
      <4> QED
        BY <1>2, <1>4, <2>2, <4>1, <4>2, Zenon DEF HeadUnchanged
    <3> QED
      BY <3>1, <3>2, Zenon
  <2> QED
    BY <1>4, <2>1, <2>2, Zenon
<1>7. \A n \in DOMAIN commits' : commits'[n].sequence = n
  BY Zenon DEF Inv, LedgerInv
<1> QED
  BY <1>5, <1>6, <1>7, ZenonT(30) DEF CanonicalChain

(* No update is lost: the new events start from the stored projections,    *)
(* whose versions every earlier event of the key has left behind.          *)
LEMMA UpdateStep ==
    ASSUME Inv, NoLostUpdate, NEW c \in Callers, NEW answered \in BOOLEAN,
           CommitTransaction(c, answered)
    PROVE  NoLostUpdate'
<1> DEFINE r == prepared[c]
           keys == Footprint[r.commit.intent]
           new(k) == [commit |-> r.commit.id, intent |-> r.commit.intent, key |-> k,
                      before |-> r.before[k], after |-> After(r.before[k], r.commit.id)]
<1>1. /\ r.commit.id \in CommitIds /\ keys \subseteq Keys
      /\ events' = events \cup EventsOf(r)
      /\ projections' = Overlay(projections, keys, r.before, r.commit.id)
  BY CommitEffect, Zenon
<1>2. \A k \in keys : r.before[k] = projections[k]
  BY Zenon DEF CommitTransaction, StatesUnchanged
<1>3. /\ \A k \in Keys : projections[k] \in State /\ projections[k].version \in Nat
      /\ \A e \in events : /\ e.key \in Keys /\ e.before.version \in Nat
                           /\ e.after.version \in Nat
  BY Zenon DEF Inv, Typed, TypeOK, Root, State, Event
<1>4. /\ \A k \in keys : projections'[k] = After(projections[k], r.commit.id)
      /\ \A k \in Keys \ keys : projections'[k] = projections[k]
  BY <1>1, <1>2, Zenon DEF Overlay
<1>5. ASSUME NEW k \in Keys
      PROVE  /\ projections'[k].version \in Nat
             /\ projections[k].version <= projections'[k].version
  <2>1. projections'[k].version \in {projections[k].version, projections[k].version + 1}
    <3>1. CASE k \in keys
      <4>1. projections'[k] = After(projections[k], r.commit.id)
        BY <1>4, <3>1, Zenon
      <4> QED
        BY <4>1 DEF After
    <3>2. CASE k \notin keys
      BY <1>4, <3>2, Zenon
    <3> QED
      BY <3>1, <3>2, Zenon
  <2>2. projections[k].version \in Nat
    BY <1>3, Zenon
  <2> QED
    BY <2>1, <2>2
<1>6. \A e \in EventsOf(r) : /\ e = new(e.key)
                             /\ e.key \in keys /\ e.before = projections[e.key]
                             /\ e.after = projections'[e.key]
  BY <1>2, <1>4 DEF EventsOf
<1>7. \A k \in keys : new(k) \in EventsOf(r) /\ new(k).key = k /\ new(k).after = projections'[k]
  BY <1>2, <1>4, Zenon DEF EventsOf
<1>8. \A e \in events : e.before # projections[e.key]
  <2> SUFFICES ASSUME NEW e \in events PROVE e.before.version # projections[e.key].version
    BY Zenon
  <2>1. e.after.version = e.before.version + 1 /\ e.after.version <= projections[e.key].version
    BY Zenon DEF NoLostUpdate
  <2> QED
    BY <2>1, <1>3
<1> HIDE DEF r, keys, new
<1>9. ASSUME NEW e \in events', NEW f \in events', e.key = f.key, e.before = f.before PROVE e = f
  <2>1. CASE e \in events /\ f \in events
    BY <1>9, <2>1, Zenon DEF NoLostUpdate
  <2>2. CASE e \in EventsOf(r) /\ f \in EventsOf(r)
    BY <1>6, <1>9, <2>2, Zenon
  <2>3. CASE e \in events /\ f \in EventsOf(r)
    BY <1>6, <1>8, <1>9, <2>3, Zenon
  <2>4. CASE e \in EventsOf(r) /\ f \in events
    BY <1>6, <1>8, <1>9, <2>4, Zenon
  <2> QED
    BY <1>1, <2>1, <2>2, <2>3, <2>4, Zenon
<1>10. ASSUME NEW e \in events'
       PROVE  /\ e.before = Unborn \/ \E f \in events' : f.key = e.key /\ f.after = e.before
              /\ e.after.version = e.before.version + 1
              /\ e.after.version <= projections'[e.key].version
  <2>1. CASE e \in events
    <3>1. /\ e.before = Unborn \/ \E f \in events : f.key = e.key /\ f.after = e.before
          /\ e.after.version = e.before.version + 1
          /\ e.after.version <= projections[e.key].version
      BY <2>1, Zenon DEF NoLostUpdate
    <3>2. e.after.version <= projections'[e.key].version
      <4>1. e.key \in Keys /\ e.after.version \in Nat /\ projections[e.key].version \in Nat
        BY <1>3, <2>1, Zenon
      <4>2. /\ projections'[e.key].version \in Nat
            /\ projections[e.key].version <= projections'[e.key].version
        BY <1>5, <4>1, Zenon
      <4> QED
        BY <3>1, <4>1, <4>2
    <3> QED
      BY <1>1, <3>1, <3>2, Zenon
  <2>2. CASE e \in EventsOf(r)
    <3>1. /\ e.key \in Keys /\ e.before = projections[e.key] /\ e.after = projections'[e.key]
          /\ e.after = After(projections[e.key], r.commit.id)
      BY <1>1, <1>4, <1>6, <2>2, Zenon
    <3>2. e.before = Unborn \/ \E f \in events : f.key = e.key /\ f.after = e.before
      <4>1. \/ projections[e.key] = Unborn
            \/ \E f \in events : f.key = e.key /\ f.after = projections[e.key]
        BY <3>1, ZenonT(30) DEF NoLostUpdate
      <4> QED
        BY <3>1, <4>1, Zenon
    <3>3. /\ e.after.version = e.before.version + 1
          /\ e.after.version <= projections'[e.key].version
      BY <1>3, <3>1 DEF After
    <3> QED
      BY <1>1, <3>2, <3>3, Zenon
  <2> QED
    BY <1>1, <2>1, <2>2, Zenon
<1>11. ASSUME NEW k \in Keys
       PROVE  projections'[k] = Unborn \/ \E e \in events' : e.key = k /\ e.after = projections'[k]
  <2>1. CASE k \in keys
    BY <1>1, <1>7, <2>1, Zenon
  <2>2. CASE k \notin keys
    <3>1. projections'[k] = projections[k]
      BY <1>4, <2>2, Zenon
    <3>2. projections[k] = Unborn \/ \E e \in events : e.key = k /\ e.after = projections[k]
      BY Zenon DEF NoLostUpdate
    <3> QED
      BY <1>1, <3>1, <3>2, Zenon
  <2> QED
    BY <2>1, <2>2, Zenon
<1> QED
  BY <1>9, <1>10, <1>11, ZenonT(30) DEF NoLostUpdate

-----------------------------------------------------------------------------
(* A commit puts an id into the ledger that no other request has.          *)
LEMMA IdsCommit ==
    ASSUME Inv, FreshIds, NEW c \in Callers, NEW answered \in BOOLEAN,
           CommitTransaction(c, answered)
    PROVE  FreshIds' /\ \A n \in DOMAIN commits : commits[n].id # prepared[c].commit.id
<1> DEFINE r == prepared[c]
<1>1. /\ r.commit \in Commit /\ r # None
      /\ commits' = Append(commits, r.commit)
      /\ prepared' = prepared /\ r.commit.sequence = Len(commits) + 1
  BY CommitEffect, Zenon
<1>2. TypeOK
  BY Zenon DEF Inv, Typed
<1>3. /\ Len(commits) \in Nat /\ DOMAIN commits = 1 .. Len(commits)
      /\ \A n \in DOMAIN commits : commits'[n] = commits[n]
      /\ commits'[Len(commits) + 1] = r.commit
      /\ \A n \in DOMAIN commits' : n \in DOMAIN commits \/ n = Len(commits) + 1
  BY <1>1, <1>2, Appended, Zenon
<1>4. ASSUME NEW n \in DOMAIN commits PROVE commits[n].id # r.commit.id
  BY <1>1, <1>3 DEF FreshIds
<1>5. ASSUME NEW d \in Callers, NEW n \in DOMAIN commits',
             prepared'[d] # None, commits'[n].id = prepared'[d].commit.id
      PROVE  prepared'[d].commit.sequence <= n
  <2>1. CASE n \in DOMAIN commits
    BY <1>1, <1>3, <1>5, <2>1, Zenon DEF FreshIds
  <2>2. CASE n = Len(commits) + 1
    <3>1. d = c
      BY <1>1, <1>3, <1>5, <2>2 DEF FreshIds
    <3> QED
      BY <1>1, <1>3, <2>2, <3>1
  <2> QED
    BY <1>3, <2>1, <2>2, Zenon
<1> QED
  BY <1>1, <1>4, <1>5, Zenon DEF FreshIds

(* The sequencer's next id is used by no commit and no other request.      *)
LEMMA IdsBuild ==
    ASSUME Typed, FreshIds, NEW c \in Callers, NEW d \in Payloads, NEW s \in Soundness,
           Build(c, d, s)
    PROVE  FreshIds'
<1>1. /\ prepared'[c].commit.id = Mint
      /\ \A x \in Callers \ {c} : prepared'[x] = prepared[x]
      /\ commits' = commits
  BY Zenon DEF Build, Typed, TypeOK
<1>2. Mint \notin UsedIds
  BY MintUnused, Zenon DEF Build
<1>3. /\ \A n \in DOMAIN commits : commits[n].id # Mint
      /\ \A x \in Callers : prepared[x] # None => prepared[x].commit.id # Mint
  BY <1>2, Zenon DEF UsedIds
<1>4. ASSUME NEW x \in Callers, NEW y \in Callers, x # y, prepared'[x] # None, prepared'[y] # None
      PROVE  prepared'[x].commit.id # prepared'[y].commit.id
  BY <1>1, <1>3, <1>4 DEF FreshIds
<1>5. ASSUME NEW x \in Callers, NEW n \in DOMAIN commits,
             prepared'[x] # None, commits[n].id = prepared'[x].commit.id
      PROVE  prepared'[x].commit.sequence <= n
  BY <1>1, <1>3, <1>5 DEF FreshIds
<1> QED
  BY <1>1, <1>4, <1>5, Zenon DEF FreshIds

(* The empty ledger is a history.                                          *)
LEMMA HistoryInit == Init => HistoryInv
<1> SUFFICES ASSUME Init PROVE HistoryInv
  OBVIOUS
<1>1. FreshIds
  BY Zenon DEF Init, FreshIds
<1>2. AllOrNothing
  BY DEF Init, AllOrNothing
<1>3. LedgerIsHistory
  <2>1. CanonicalHead.next_state_root = projections
    <3>1. commits = <<>> /\ projections = [k \in Keys |-> Unborn]
      BY Zenon DEF Init
    <3> QED
      BY <3>1, Zenon DEF CanonicalHead
  <2>2. CanonicalChain
    BY <2>1 DEF Init, CanonicalChain
  <2>3. NoLostUpdate
    BY Zenon DEF Init, NoLostUpdate
  <2> QED
    BY <2>2, <2>3, Zenon DEF LedgerIsHistory
<1> QED
  BY <1>1, <1>2, <1>3, InvInit, Zenon DEF HistoryInv

(* A step that leaves the ledger alone leaves its history alone.           *)
LEMMA HistoryFrame ==
    ASSUME UNCHANGED ledger, AllOrNothing, LedgerIsHistory
    PROVE  AllOrNothing' /\ LedgerIsHistory'
<1>1. CanonicalHead' = CanonicalHead
  BY Zenon DEF CanonicalHead
<1>2. AllOrNothing'
  <2>1. commits' = commits /\ outbox' = outbox /\ events' = events /\ identities' = identities
    BY Zenon
  <2>2. {commits'[n].id : n \in DOMAIN commits'} = outbox'
    BY <2>1 DEF AllOrNothing
  <2>3. {e.commit : e \in events'} = outbox'
    BY <2>1, Zenon DEF AllOrNothing
  <2>4. {identities'[i].commit : i \in {j \in Intents : identities'[j] # None}} = outbox'
    BY <2>1 DEF AllOrNothing
  <2>5. \A n \in DOMAIN commits' :
           /\ identities'[commits'[n].intent] =
                 [digest |-> commits'[n].payload, commit |-> commits'[n].id]
           /\ \A k \in Footprint[commits'[n].intent] :
                 \E e \in events' : e.commit = commits'[n].id /\ e.key = k
    BY <2>1 DEF AllOrNothing
  <2> QED
    BY <2>2, <2>3, <2>4, <2>5, Zenon DEF AllOrNothing
<1>3. CanonicalChain'
  <2>1. commits' = commits /\ projections' = projections /\ CanonicalChain
    BY Zenon DEF LedgerIsHistory
  <2> QED
    BY <1>1, <2>1, Zenon DEF CanonicalChain
<1>4. NoLostUpdate'
  <2>1. events' = events /\ projections' = projections /\ NoLostUpdate
    BY Zenon DEF LedgerIsHistory
  <2> QED
    BY <2>1, Zenon DEF NoLostUpdate
<1> QED
  BY <1>2, <1>3, <1>4, Zenon DEF LedgerIsHistory

(* Every step preserves the history.                                       *)
LEMMA HistoryStep == HistoryInv /\ [Next]_vars => HistoryInv'
<1> SUFFICES ASSUME HistoryInv, [Next]_vars PROVE HistoryInv'
  BY Zenon
<1> USE DEF HistoryInv
<1>1. Inv' /\ Typed /\ TypeOK
  BY InvStep, Zenon DEF Inv, Typed
<1>2. CASE Quiet
  <2>1. FreshIds'
    BY <1>2 DEF Quiet, FreshIds
  <2> QED
    BY <1>1, <1>2, <2>1, HistoryFrame, Zenon DEF Quiet
<1>3. ASSUME NEW c \in Callers, NEW d \in Payloads, NEW s \in Soundness, Build(c, d, s)
      PROVE  HistoryInv'
  <2>1. FreshIds'
    BY <1>1, <1>3, IdsBuild, Zenon
  <2>2. UNCHANGED ledger
    BY <1>3, Zenon DEF Build
  <2> QED
    BY <1>1, <2>1, <2>2, HistoryFrame, Zenon
<1>4. ASSUME NEW c \in Callers, NEW answered \in BOOLEAN, CommitTransaction(c, answered)
      PROVE  HistoryInv'
  BY <1>1, <1>4, IdsCommit, AllOrNothingStep, ChainStep, UpdateStep, Zenon DEF LedgerIsHistory
<1> QED
  BY <1>1, <1>2, <1>3, <1>4, Steps, Zenon

(* Termination at any write boundary, lost answers and lapsed leases leave *)
(* every commit complete or absent: with its events, its delivery row and  *)
(* the finalized claim of its intent, or with none of them.                *)
THEOREM CommitsAreWhole == Spec => []AllOrNothing
<1>1. HistoryInv => AllOrNothing
  BY Zenon DEF HistoryInv
<1> QED
  BY <1>1, HistoryInit, HistoryStep, PTL DEF Spec

(* The stored commits are one canonical chain and replaying the events     *)
(* gives the stored projections, although states and head are read long    *)
(* before the transaction and under no lock.                               *)
THEOREM OneHistory == Spec => []LedgerIsHistory
<1>1. HistoryInv => LedgerIsHistory
  BY Zenon DEF HistoryInv
<1> QED
  BY <1>1, HistoryInit, HistoryStep, PTL DEF Spec

-----------------------------------------------------------------------------
(* The refinement, step by step.  The entry a commit stands for ...        *)
Entry(x) == [intent |-> x.intent, payload |-> x.payload, commit |-> x.id]

Log == [n \in DOMAIN commits |-> Entry(commits[n])]
Version == [k \in Keys |-> projections[k].version]

(* ... and the abstract actions, spelled out under the mapping.            *)
AtomicCommit(e) ==
    /\ \A n \in DOMAIN commits : commits[n].intent # e.intent /\ commits[n].id # e.commit
    /\ Log' = Append(Log, e)
    /\ Version' = [k \in Keys |-> IF k \in Footprint[e.intent] THEN Version[k] + 1
                                  ELSE Version[k]]
    /\ UNCHANGED acks

AtomicAcknowledge(e) ==
    /\ \E n \in DOMAIN commits : Entry(commits[n]) = e
    /\ acks' = acks \cup {e}
    /\ UNCHANGED <<Log, Version>>

(* The store's commit is the one abstract step that executes an intent,    *)
(* whether or not its answer reaches the caller.                           *)
LEMMA CommitImplements ==
    ASSUME HistoryInv, NEW c \in Callers, NEW answered \in BOOLEAN,
           CommitTransaction(c, answered)
    PROVE  \E e \in Atomic!Entry : AtomicCommit(e)
<1> DEFINE r == prepared[c]
           e == Entry(r.commit)
<1>1. /\ r.commit \in Commit /\ r.before \in Root
      /\ r.commit.intent \in Intents /\ r.commit.id \in CommitIds
      /\ r.commit.payload \in Payloads
      /\ Footprint[r.commit.intent] \subseteq Keys
      /\ commits' = Append(commits, r.commit)
      /\ projections' = Overlay(projections, Footprint[r.commit.intent], r.before, r.commit.id)
      /\ acks' = acks
      /\ \A n \in DOMAIN commits : commits[n].intent # r.commit.intent
  BY CommitEffect, Zenon DEF HistoryInv
<1>2. \A n \in DOMAIN commits : commits[n].id # r.commit.id
  BY IdsCommit, Zenon DEF HistoryInv
<1>3. TypeOK
  BY Zenon DEF HistoryInv, Inv, Typed
<1>4. \A k \in Footprint[r.commit.intent] : r.before[k] = projections[k]
  BY Zenon DEF CommitTransaction, StatesUnchanged
<1> HIDE DEF r
<1>5. e \in Atomic!Entry /\ e.intent = r.commit.intent /\ e.commit = r.commit.id
  BY <1>1, Zenon DEF Atomic!Entry, Entry
<1>6. Log' = Append(Log, e)
  <2>1. /\ Len(commits) \in Nat /\ DOMAIN commits = 1 .. Len(commits)
        /\ DOMAIN commits' = 1 .. Len(commits) + 1
        /\ \A n \in DOMAIN commits : commits'[n] = commits[n]
        /\ commits'[Len(commits) + 1] = r.commit
    BY <1>1, <1>3, Appended, Zenon
  <2>2. /\ DOMAIN Log = 1 .. Len(commits) /\ DOMAIN Log' = 1 .. Len(commits) + 1
        /\ \A n \in 1 .. Len(commits) : Log[n] = Entry(commits[n])
        /\ \A n \in 1 .. Len(commits) + 1 : Log'[n] = Entry(commits'[n])
    BY <2>1, Zenon DEF Log
  <2>3. Log \in Seq(Atomic!Entry) /\ Len(Log) = Len(commits)
    <3>1. ASSUME NEW n \in DOMAIN commits PROVE Entry(commits[n]) \in Atomic!Entry
      <4>1. commits[n] \in Commit
        BY <1>3 DEF TypeOK
      <4> QED
        BY <4>1, Zenon DEF Commit, Entry, Atomic!Entry
    <3> QED
      BY <2>1, <3>1 DEF Log
  <2>4. /\ DOMAIN Append(Log, e) = 1 .. Len(commits) + 1
        /\ \A n \in 1 .. Len(commits) : Append(Log, e)[n] = Log[n]
        /\ Append(Log, e)[Len(commits) + 1] = e
    BY <1>5, <2>1, <2>3
  <2>5. \A n \in 1 .. Len(commits) + 1 : Log'[n] = Append(Log, e)[n]
    <3> SUFFICES ASSUME NEW n \in 1 .. Len(commits) + 1 PROVE Log'[n] = Append(Log, e)[n]
      BY Zenon
    <3>1. CASE n \in 1 .. Len(commits)
      <4>1. Log'[n] = Entry(commits'[n]) /\ Log[n] = Entry(commits[n]) /\ commits'[n] = commits[n]
        BY <2>1, <2>2, <3>1, Zenon
      <4> QED
        BY <2>4, <3>1, <4>1, Zenon
    <3>2. CASE n = Len(commits) + 1
      <4>1. Log'[n] = Entry(commits'[n]) /\ commits'[n] = r.commit
        BY <2>1, <2>2, <3>2, Zenon
      <4> QED
        BY <2>4, <3>2, <4>1, Zenon
    <3>3. n \in 1 .. Len(commits) \/ n = Len(commits) + 1
      BY <2>1
    <3> QED
      BY <3>1, <3>2, <3>3, Zenon
  <2>6. Log' = [n \in 1 .. Len(commits) + 1 |-> Log'[n]]
    BY <2>1, Zenon DEF Log
  <2>7. Append(Log, e) = [n \in 1 .. Len(commits) + 1 |-> Append(Log, e)[n]]
    BY <1>5, <2>1, <2>3
  <2> QED
    BY <2>5, <2>6, <2>7, Zenon
<1>7. Version' = [k \in Keys |-> IF k \in Footprint[e.intent] THEN Version[k] + 1 ELSE Version[k]]
  <2>1. ASSUME NEW k \in Keys
        PROVE  projections'[k].version = IF k \in Footprint[r.commit.intent]
                                         THEN projections[k].version + 1 ELSE projections[k].version
    BY <1>1, <1>4, Zenon DEF Overlay, After
  <2> QED
    BY <1>5, <2>1, Zenon DEF Version
<1> QED
  BY <1>1, <1>2, <1>5, <1>6, <1>7, Zenon DEF AtomicCommit

(* A success returned to a caller is the abstract acknowledgement of the   *)
(* commit it names; any other answer is no abstract step.                  *)
LEMMA ReturnImplements ==
    ASSUME HistoryInv, NEW c \in Callers, Return(c)
    PROVE  \/ UNCHANGED <<Log, Version, acks>>
           \/ \E e \in Atomic!Entry : AtomicAcknowledge(e)
<1>1. UNCHANGED <<Log, Version>>
  BY Zenon DEF Return, Log, Version
<1>2. CASE reply[c].status \notin {"Committed", "Replay"}
  BY <1>1, <1>2, Zenon DEF Return
<1>3. CASE reply[c].status \in {"Committed", "Replay"}
  <2> DEFINE p == prepared[c].commit
             e == [intent |-> job[c].intent, payload |-> job[c].payload, commit |-> reply[c].commit]
  <2>1. CallerInvOf(c) /\ ControlOf(c) /\ prepared[c] # None
    BY Zenon DEF Return, HistoryInv, Inv, Typed, CallerInv, Control, ControlOf
  <2>2. /\ p.intent = job[c].intent /\ p.payload = job[c].payload
        /\ reply[c].commit \in CommitIds /\ job[c] # None
        /\ identities[p.intent] = [digest |-> p.payload, commit |-> reply[c].commit]
    BY <1>3, <2>1, Zenon DEF ControlOf, CallerInvOf
  <2>3. job[c].intent \in Intents /\ job[c].payload \in Payloads
    BY <2>2, Zenon DEF HistoryInv, Inv, Typed, TypeOK, Job
  <2>4. e \in Atomic!Entry
    BY <2>2, <2>3, Zenon DEF Atomic!Entry
  <2>5. identities[p.intent] # None
    BY <2>2, <2>3, FinalizedIsSomething, Zenon
  <2>6. PICK n \in DOMAIN commits : commits[n].intent = p.intent
    BY <2>2, <2>3, <2>5, Zenon DEF HistoryInv, Inv, LedgerInv
  <2>7. [digest |-> p.payload, commit |-> reply[c].commit] =
           [digest |-> commits[n].payload, commit |-> commits[n].id]
    BY <2>2, <2>6, Zenon DEF HistoryInv, Inv, LedgerInv
  <2>8. Entry(commits[n]) = e
    BY <2>2, <2>6, <2>7, Zenon DEF Entry
  <2>9. acks' = acks \cup {e}
    BY <1>3, Zenon DEF Return
  <2> QED
    BY <1>1, <2>4, <2>6, <2>8, <2>9, Zenon DEF AtomicAcknowledge
<1> QED
  BY <1>2, <1>3, Zenon

(* Under the mapping of DurableLedger the spelled-out actions are the      *)
(* abstract ones.                                                          *)
LEMMA AtomicActions ==
    /\ \A e : AtomicCommit(e) => Atomic!Commit(e)
    /\ \A e : AtomicAcknowledge(e) => Atomic!Acknowledge(e)
    /\ UNCHANGED <<Log, Version, acks>> => UNCHANGED Atomic!vars
<1>1. ASSUME NEW e, AtomicCommit(e) PROVE Atomic!Commit(e)
  <2>1. ASSUME NEW f \in Atomic!Logged PROVE f.intent # e.intent /\ f.commit # e.commit
    <3>1. PICK n \in DOMAIN commits :
                f = [intent |-> commits[n].intent, payload |-> commits[n].payload,
                     commit |-> commits[n].id]
      BY Zenon DEF Atomic!Logged
    <3>2. f.intent = commits[n].intent /\ f.commit = commits[n].id
      BY <3>1, Zenon
    <3> QED
      BY <1>1, <3>2, Zenon DEF AtomicCommit
  <2>2. Log' = Append(Log, e) /\ UNCHANGED acks
    BY <1>1, Zenon DEF AtomicCommit
  <2>3. Version' = [k \in Keys |-> IF k \in Footprint[e.intent] THEN projections[k].version + 1
                                    ELSE projections[k].version]
    BY <1>1, Zenon DEF AtomicCommit, Version
  <2> QED
    BY <2>1, <2>2, <2>3, Zenon DEF Atomic!Commit, Log, Version, Entry
<1>2. ASSUME NEW e, AtomicAcknowledge(e) PROVE Atomic!Acknowledge(e)
  BY <1>2, Zenon DEF AtomicAcknowledge, Atomic!Acknowledge, Atomic!Logged, Log, Version, Entry
<1>3. UNCHANGED <<Log, Version, acks>> => UNCHANGED Atomic!vars
  BY Zenon DEF Atomic!vars, Log, Version, Entry
<1> QED
  BY <1>1, <1>2, <1>3, Zenon

(* Every concurrent, faulty execution of the write path looks to its       *)
(* callers like one in which each accepted intent is executed atomically,  *)
(* at most once and under a commit id of its own, and every success names  *)
(* the commit that executed it.                                            *)
THEOREM LedgerIsAtomic == Spec => ImplementsAtomicLedger
<1>1. Init => Atomic!Init
  BY DEF Init, Atomic!Init, Unborn
<1>2. HistoryInv /\ [Next]_vars => [Atomic!Next]_(Atomic!vars)
  <2> SUFFICES ASSUME HistoryInv, [Next]_vars PROVE Atomic!Next \/ UNCHANGED Atomic!vars
    BY Zenon
  <2>1. ASSUME UNCHANGED ledger, UNCHANGED acks PROVE UNCHANGED Atomic!vars
    BY <2>1, Zenon DEF Atomic!vars
  <2>2. ASSUME NEW c \in Callers, Return(c) PROVE Atomic!Next \/ UNCHANGED Atomic!vars
    BY <2>2, ReturnImplements, AtomicActions, Zenon DEF Atomic!Next
  <2>3. ASSUME NEW c \in Callers, NEW answered \in BOOLEAN, CommitTransaction(c, answered)
        PROVE  Atomic!Next
    BY <2>3, CommitImplements, AtomicActions, Zenon DEF Atomic!Next
  <2>4. ASSUME NEW c \in Callers, NEW d \in Payloads, NEW s \in Soundness, Build(c, d, s)
        PROVE  UNCHANGED Atomic!vars
    <3>1. UNCHANGED <<ledger, acks>>
      BY <2>4, Zenon DEF Build
    <3> QED
      BY <2>1, <3>1, Zenon
  <2>5. TypeOK
    BY Zenon DEF HistoryInv, Inv, Typed
  <2> QED
    BY <2>1, <2>2, <2>3, <2>4, <2>5, Steps, Zenon DEF Quiet
<1> QED
  BY <1>1, <1>2, HistoryInit, HistoryStep, PTL DEF Spec, ImplementsAtomicLedger, Atomic!Spec

=============================================================================
