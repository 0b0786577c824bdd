--------------------------- MODULE AdmissionProofs ---------------------------
(***************************************************************************)
(* Theorems about the way from a request to an event: any number of calls, *)
(* of requests, of keys and of members of the authority set, and any time. *)
(***************************************************************************)
EXTENDS Admission, WellFoundedInduction, TLAPS

IsCall(x) ==
    x = [pc |-> x.pc, req |-> x.req, gate |-> x.gate, withdrawn |-> x.withdrawn,
         revoked |-> x.revoked, answers |-> x.answers, authority |-> x.authority]

Shapes == /\ call = [c \in Callers |-> call[c]] /\ \A c \in Callers : IsCall(call[c])
          /\ claims = [i \in Ids |-> claims[i]]
          /\ revokedAt \in [Members -> Nat \cup {None}] /\ now \in Nat

(* The registry: a key is revoked exactly when it ever was.                *)
KeysInv == /\ \A k \in DOMAIN keys : /\ IsKeyRecord(keys[k])
                                     /\ keys[k].status = Revoked <=> k \in everRevoked
           /\ everRevoked \subseteq DOMAIN keys

(* What the gates a call has passed say of it.                             *)
Held(x, g) ==
    /\ g = "signed" => x.req.signature # None
    /\ g = "bind" => x.req.principal = [tenant |-> x.req.doc.tenantId, subject |-> x.req.doc.actorId]
    /\ g = "key" => ~x.withdrawn

Passed(x, n) == \A g \in Gates(x.req.route)[n] : Held(x, g)

TrustOK(x) ==
    /\ x.pc = "Idle" \/ x.req \in Requests
    /\ x.pc = "Gate" => /\ x.gate \in 1 .. Len(Gates(x.req.route))
                        /\ \A n \in 1 .. x.gate - 1 : Passed(x, n)
    /\ x.pc \notin {"Idle", "Gate"} => \A n \in 1 .. Len(Gates(x.req.route)) : Passed(x, n)
    /\ x.pc \notin {"Idle", "Gate", "Lookup"} => (x.req.signature # None => x.req.signature.valid)

(* A call that began with a withdrawn key: the key does not come back.     *)
WithdrawnIn(ks, r) == /\ r.signature # None /\ r.signature.key \in DOMAIN ks
                      /\ ks[r.signature.key].status # Active

StaysWithdrawn == \A c \in Callers : call[c].pc # "Idle" /\ call[c].withdrawn => WithdrawnIn(keys, call[c].req)

(* What an answer of a member says, in a call that began after the primary *)
(* revoked (or not), given the revocations rev at the time t.              *)
Standing(rev, m, at) == rev[m] = None \/ rev[m] >= at

Outcome == [result : {"allow", "deny", "stale", "unavailable"}, at : Nat \cup {None}]

AnswerOK(revoked, m, a, rev, t) ==
    /\ a \in Outcome
    /\ a.result = "allow" => /\ a.at \in Nat /\ a.at <= t /\ Standing(rev, m, a.at)
                             /\ revoked /\ m = Primary => a.at < rev[Primary]

(* What an aggregate says.                                                 *)
GrantOK(at, rev, t) ==
    /\ at \in Nat /\ at <= t
    /\ IF Policy = "AnyOf" THEN \E m \in Members : Standing(rev, m, at)
       ELSE \A m \in Members : Standing(rev, m, at)

AuthOK(x, rev, t) ==
    /\ x.pc # "Idle" /\ x.revoked => rev[Primary] # None
    /\ x.pc \in {"Gate", "Lookup", "ClientProof", "Load"} => x.answers = <<>> /\ x.authority = None
    /\ x.pc = "Evaluate" =>
          /\ x.authority = None /\ x.answers \in Seq(Outcome) /\ Len(x.answers) < Evaluators
          /\ \A m \in 1 .. Len(x.answers) : AnswerOK(x.revoked, m, x.answers[m], rev, t)
    /\ x.pc = "Recheck" =>
          /\ Primary \in Members /\ GrantOK(x.authority.evaluated_at, rev, t)
          /\ Policy # "AnyOf" /\ x.revoked => x.authority.evaluated_at < rev[Primary]
    /\ x.pc = "Claim" /\ x.authority # None =>
          /\ GrantOK(x.authority.evaluated_at, rev, t)
          /\ Policy # "AnyOf" => ~x.revoked

PlayerOK(e) ==
    LET r == e.req IN
    /\ r.route \in {"service", "player", "keyed", "batch"} =>
          r.principal = [tenant |-> r.doc.tenantId, subject |-> r.doc.actorId]
    /\ r.route \in {"player", "keyed", "batch"} => r.signature # None /\ r.signature.valid
    /\ r.route \in {"keyed", "batch"} => ~e.withdrawn

EventOK(e, rev, t) ==
    /\ e.req \in Requests /\ PlayerOK(e)
    /\ e.authority # None => /\ GrantOK(e.authority.evaluated_at, rev, t)
                             /\ Policy # "AnyOf" => ~e.revoked

(* The inductive invariant.                                                *)
AdmissionInv == /\ Shapes /\ KeysInv /\ StaysWithdrawn /\ ClaimsAreEvents
                /\ \A c \in Callers : TrustOK(call[c]) /\ AuthOK(call[c], revokedAt, now)
                /\ \A e \in emitted : EventOK(e, revokedAt, now)

(* Nobody has called, nothing is emitted and no key has been revoked.      *)
LEMMA AdmissionInvInit == Init => AdmissionInv
<1> SUFFICES ASSUME Init PROVE AdmissionInv
  BY Zenon
<1>1. \A c \in Callers : call[c] = NoCall
  BY Zenon DEF Init
<1>2. Shapes
  BY <1>1, Zenon DEF Init, Shapes, NoCall, IsCall
<1>3. KeysInv
  BY AdmissionAssumption, Zenon DEF Init, KeysInv
<1>4. StaysWithdrawn
  BY <1>1 DEF StaysWithdrawn, NoCall
<1>5. ClaimsAreEvents
  BY Zenon DEF Init, ClaimsAreEvents
<1>6. \A c \in Callers : TrustOK(call[c]) /\ AuthOK(call[c], revokedAt, now)
  BY <1>1 DEF TrustOK, AuthOK, NoCall
<1> QED
  BY <1>2, <1>3, <1>4, <1>5, <1>6, Zenon DEF AdmissionInv, Init

(* A call goes on: only its program counter changes.                       *)
LEMMA GotoCall ==
    ASSUME Shapes, NEW c \in Callers, NEW p, Goto(c, p)
    PROVE  /\ call' = [d \in Callers |-> call'[d]]
           /\ \A d \in Callers \ {c} : call'[d] = call[d]
           /\ IsCall(call'[c]) /\ call'[c].pc = p
           /\ call'[c].req = call[c].req /\ call'[c].withdrawn = call[c].withdrawn
           /\ call'[c].revoked = call[c].revoked /\ call'[c].answers = call[c].answers
           /\ call'[c].authority = call[c].authority
<1> DEFINE x == call[c]
           y == [pc |-> p, req |-> x.req, gate |-> x.gate, withdrawn |-> x.withdrawn,
                 revoked |-> x.revoked, answers |-> x.answers, authority |-> x.authority]
<1>1. [x EXCEPT !.pc = p] = y
  BY DEF Shapes, IsCall
<1>2. call' = [d \in Callers |-> IF d = c THEN y ELSE call[d]]
  BY <1>1, Zenon DEF Goto, Shapes
<1>3. IsCall(y)
  BY Zenon DEF IsCall
<1> QED
  BY <1>2, <1>3, Zenon

(* A call returns.                                                         *)
LEMMA AnswerCall ==
    ASSUME Shapes, NEW c \in Callers, NEW result, Answer(c, result)
    PROVE  /\ call' = [d \in Callers |-> call'[d]]
           /\ \A d \in Callers \ {c} : call'[d] = call[d]
           /\ call'[c] = NoCall /\ IsCall(call'[c]) /\ call'[c].pc = "Idle"
  BY Zenon DEF Answer, Shapes, IsCall, NoCall

(* An idle call says nothing.                                              *)
LEMMA IdleCall ==
    ASSUME NEW x, x.pc = "Idle", NEW rev, NEW t
    PROVE  TrustOK(x) /\ AuthOK(x, rev, t)
  BY Zenon DEF TrustOK, AuthOK

(* What a step of a call must show of that call; nothing it could have     *)
(* been told about the keys and the revocations changes with it.           *)
CallOK(c) ==
    /\ call' = [d \in Callers |-> call'[d]]
    /\ \A d \in Callers \ {c} : call'[d] = call[d]
    /\ IsCall(call'[c]) /\ TrustOK(call'[c]) /\ AuthOK(call'[c], revokedAt, now)
    /\ call'[c].pc # "Idle" /\ call'[c].withdrawn => WithdrawnIn(keys, call'[c].req)

(* A call that is answered is over, and nothing is claimed of it.          *)
LEMMA AnswerOKs ==
    ASSUME Shapes, NEW c \in Callers, NEW result, Answer(c, result)
    PROVE  CallOK(c)
  BY AnswerCall, IdleCall, Zenon DEF CallOK

(* The gates of each route.                                                *)
LEMMA RouteGates ==
    ASSUME NEW r \in Requests
    PROVE  /\ Len(Gates(r.route)) \in {1, 2}
           /\ r.route = "service" => "bind" \in Gates(r.route)[1]
           /\ r.route = "player" => {"signed", "bind"} \subseteq Gates(r.route)[1]
           /\ r.route = "keyed" => /\ Len(Gates(r.route)) = 2
                                   /\ {"signed", "key"} \subseteq Gates(r.route)[1]
                                   /\ "bind" \in Gates(r.route)[2]
           /\ r.route = "batch" => /\ Len(Gates(r.route)) = 2
                                   /\ {"signed", "bind"} \subseteq Gates(r.route)[1]
                                   /\ "key" \in Gates(r.route)[2]
           /\ \A n \in 1 .. Len(Gates(r.route)) :
                 Gates(r.route)[n] \subseteq {"signed", "bind", "authorize", "key"}
<1>1. r.route \in Routes
  BY AdmissionAssumption, Zenon
<1>2. CASE r.route = "internal"
  BY <1>2 DEF Gates
<1>3. CASE r.route = "service"
  BY <1>3 DEF Gates
<1>4. CASE r.route = "player"
  BY <1>4 DEF Gates
<1>5. CASE r.route = "keyed"
  BY <1>5 DEF Gates
<1>6. CASE r.route = "batch"
  BY <1>6 DEF Gates
<1> QED
  BY <1>1, <1>2, <1>3, <1>4, <1>5, <1>6, Zenon DEF Routes

(* A request begins its call, or is turned away.                           *)
LEMMA SubmitStep ==
    ASSUME AdmissionInv, NEW c \in Callers, NEW r \in Requests, Submit(c, r)
    PROVE  CallOK(c)
<1> DEFINE x == [NoCall EXCEPT !.pc = "Gate", !.req = r, !.gate = 1, !.withdrawn = Withdrawn(r),
                               !.revoked = revokedAt[Primary] # None]
<1>1. Shapes
  BY Zenon DEF AdmissionInv
<1>2. Answer(c, "RateLimited") \/ Answer(c, "Malformed") \/ call' = [call EXCEPT ![c] = x]
  BY Zenon DEF Submit
<1>3. /\ IsCall(x) /\ x.pc = "Gate" /\ x.req = r /\ x.gate = 1
      /\ x.answers = <<>> /\ x.authority = None
  <2>1. PICK w, v : w = Withdrawn(r) /\ v = (revokedAt[Primary] # None)
    BY Zenon
  <2>2. x = [NoCall EXCEPT !.pc = "Gate", !.req = r, !.gate = 1, !.withdrawn = w, !.revoked = v]
    BY <2>1, Zenon
  <2> HIDE DEF x
  <2> QED
    BY <2>2, Zenon DEF NoCall, IsCall
<1>4. (x.withdrawn => WithdrawnIn(keys, r)) /\ (x.revoked => revokedAt[Primary] # None)
  BY Zenon DEF NoCall, Withdrawn, WithdrawnIn
<1> HIDE DEF x
<1>5. CASE call' = [call EXCEPT ![c] = x]
  <2>1. call'[c] = x /\ call' = [d \in Callers |-> IF d = c THEN x ELSE call[d]]
    BY <1>1, <1>5, Zenon DEF Shapes
  <2>2. TrustOK(x)
    <3>1. PICK n \in {1, 2} : Len(Gates(r.route)) = n
      BY RouteGates, Zenon
    <3>2. 1 \in 1 .. n
      OBVIOUS
    <3>3. \A m \in 1 .. x.gate - 1 : FALSE
      BY <1>3
    <3> QED
      BY <1>3, <3>1, <3>2, <3>3, Zenon DEF TrustOK
  <2>3. AuthOK(x, revokedAt, now)
    BY <1>3, <1>4, Zenon DEF AuthOK
  <2>4. x.withdrawn => WithdrawnIn(keys, x.req)
    BY <1>3, <1>4, Zenon
  <2> QED
    BY <1>3, <2>1, <2>2, <2>3, <2>4, Zenon DEF CallOK
<1> QED
  BY <1>1, <1>2, <1>5, AnswerOKs, Zenon

(* What a gate checks holds of the call from then on.                      *)
LEMMA GateHolds ==
    ASSUME AdmissionInv, NEW c \in Callers, call[c].pc = "Gate",
           NEW g \in {"signed", "bind", "authorize", "key"},
           g # "authorize" => GatePasses(call[c].req, g)
    PROVE  Held(call[c], g)
<1>1. CASE g = "signed" \/ g = "bind" \/ g = "authorize"
  BY <1>1, Zenon DEF GatePasses, Held
<1>2. CASE g = "key"
  <2>1. KeyPermits(call[c].req)
    BY <1>2, Zenon DEF GatePasses
  <2>2. ~WithdrawnIn(keys, call[c].req)
    BY <2>1, Zenon DEF KeyPermits, ResolveIntentKey, Permits, WithdrawnIn
  <2>3. ~call[c].withdrawn
    BY <2>2, Zenon DEF AdmissionInv, StaysWithdrawn
  <2> QED
    BY <1>2, <2>3, Zenon DEF Held
<1> QED
  BY <1>1, <1>2, Zenon

(* The gates passed and the request itself are all that trust is about.    *)
LEMMA PassedSame ==
    ASSUME NEW x, NEW y, x.req = y.req, x.withdrawn = y.withdrawn, NEW n, Passed(x, n)
    PROVE  Passed(y, n)
  BY Zenon DEF Passed, Held

(* A call passes its next gate, or is refused at it.                       *)
LEMMA GateStep ==
    ASSUME AdmissionInv, NEW c \in Callers, Gate(c)
    PROVE  CallOK(c)
<1> DEFINE x == call[c]
           r == call[c].req
           n == call[c].gate
           passes == \A g \in Gates(r.route)[n] \ {"authorize"} : GatePasses(r, g)
<1>1. Shapes /\ TrustOK(x) /\ AuthOK(x, revokedAt, now) /\ x.pc = "Gate"
  BY Zenon DEF AdmissionInv, Gate
<1>2. r \in Requests /\ n \in 1 .. Len(Gates(r.route)) /\ \A m \in 1 .. n - 1 : Passed(x, m)
  BY <1>1, Zenon DEF TrustOK
<1>3. PICK L \in {1, 2} : L = Len(Gates(r.route))
  BY <1>2, RouteGates, Zenon
<1>4. n \in 1 .. L
  BY <1>2, <1>3, Zenon
<1>5. ASSUME passes PROVE Passed(x, n)
  <2>1. ASSUME NEW g \in Gates(r.route)[n] PROVE Held(x, g)
    <3>1. g \in {"signed", "bind", "authorize", "key"}
      BY <1>2, <2>1, RouteGates, Zenon
    <3>2. g # "authorize" => GatePasses(r, g)
      BY <1>5, <2>1, Zenon
    <3> QED
      BY <1>1, <3>1, <3>2, GateHolds, Zenon
  <2> QED
    BY <2>1, Zenon DEF Passed
<1>6. x.withdrawn => WithdrawnIn(keys, r)
  BY <1>1, Zenon DEF AdmissionInv, StaysWithdrawn
<1>7. CASE passes /\ n < L /\ call' = [call EXCEPT ![c].gate = n + 1]
  <2> DEFINE y == [pc |-> x.pc, req |-> r, gate |-> n + 1, withdrawn |-> x.withdrawn,
                   revoked |-> x.revoked, answers |-> x.answers, authority |-> x.authority]
  <2>1. [x EXCEPT !.gate = n + 1] = y
    BY <1>1 DEF Shapes, IsCall
  <2>2. call' = [d \in Callers |-> IF d = c THEN y ELSE call[d]]
    BY <1>1, <1>7, <2>1, Zenon DEF Shapes
  <2>3. /\ IsCall(y) /\ y.pc = "Gate" /\ y.req = r /\ y.gate = n + 1 /\ y.withdrawn = x.withdrawn
        /\ y.revoked = x.revoked /\ y.answers = x.answers /\ y.authority = x.authority
    BY <1>1, Zenon DEF IsCall
  <2> HIDE DEF y
  <2>4. n + 1 \in 1 .. L /\ \A m \in 1 .. (n + 1) - 1 : m = n \/ m \in 1 .. n - 1
    BY <1>4, <1>7
  <2>5. \A m \in 1 .. (n + 1) - 1 : Passed(y, m)
    BY <1>2, <1>5, <1>7, <2>3, <2>4, PassedSame, Zenon
  <2>6. AuthOK(y, revokedAt, now)
    <3>1. /\ x.revoked => revokedAt[Primary] # None
          /\ x.answers = <<>> /\ x.authority = None
      BY <1>1, Zenon DEF AuthOK
    <3> QED
      BY <2>3, <3>1, Zenon DEF AuthOK
  <2>7. TrustOK(y)
    BY <1>2, <1>3, <2>3, <2>4, <2>5, Zenon DEF TrustOK
  <2>8. call'[c] = y
    BY <2>2, Zenon
  <2> QED
    BY <1>6, <2>2, <2>3, <2>6, <2>7, <2>8, Zenon DEF CallOK
<1>8. CASE passes /\ n = L /\ Goto(c, "Lookup")
  <2>1. /\ call' = [d \in Callers |-> call'[d]]
        /\ \A d \in Callers \ {c} : call'[d] = call[d]
        /\ IsCall(call'[c]) /\ call'[c].pc = "Lookup" /\ call'[c].req = r
        /\ call'[c].withdrawn = x.withdrawn /\ call'[c].revoked = x.revoked
        /\ call'[c].answers = x.answers /\ call'[c].authority = x.authority
    BY <1>1, <1>8, GotoCall, Zenon
  <2>2. \A m \in 1 .. L : m = n \/ m \in 1 .. n - 1
    BY <1>4, <1>8
  <2>3. \A m \in 1 .. L : Passed(call'[c], m)
    <3>1. \A m \in 1 .. L : Passed(x, m)
      BY <1>2, <1>5, <1>8, <2>2, Zenon
    <3> QED
      BY <2>1, <3>1, PassedSame, Zenon
  <2>4. TrustOK(call'[c])
    BY <1>2, <1>3, <2>1, <2>3, Zenon DEF TrustOK
  <2>5. AuthOK(call'[c], revokedAt, now)
    BY <1>1, <2>1, Zenon DEF AuthOK
  <2> QED
    BY <1>6, <2>1, <2>4, <2>5, Zenon DEF CallOK
<1> QED
  <2>1. \/ passes /\ n < Len(Gates(r.route)) /\ call' = [call EXCEPT ![c].gate = n + 1]
        \/ passes /\ n = Len(Gates(r.route)) /\ (Answer(c, "Expired") \/ Goto(c, "Lookup"))
        \/ Answer(c, "ActorAuthenticationFailed")
    BY Zenon DEF Gate
  <2> QED
    BY <1>1, <1>3, <1>7, <1>8, <2>1, AnswerOKs, Zenon

(* A call past the gates that only moves on keeps what it showed of its    *)
(* signer.                                                                 *)
LEMMA TrustMoves ==
    ASSUME Shapes, NEW c \in Callers, TrustOK(call[c]), call[c].pc \notin {"Idle", "Gate"},
           call[c].pc = "Lookup" => (call[c].req.signature # None => call[c].req.signature.valid),
           call'[c].req = call[c].req, call'[c].withdrawn = call[c].withdrawn,
           call'[c].pc \notin {"Idle", "Gate"}
    PROVE  TrustOK(call'[c])
<1>1. call[c].req \in Requests /\ \A n \in 1 .. Len(Gates(call[c].req.route)) : Passed(call[c], n)
  BY Zenon DEF TrustOK
<1>2. \A n \in 1 .. Len(Gates(call[c].req.route)) : Passed(call'[c], n)
  BY <1>1, PassedSame, Zenon
<1>3. call[c].req.signature # None => call[c].req.signature.valid
  BY Zenon DEF TrustOK
<1> QED
  BY <1>1, <1>2, <1>3, Zenon DEF TrustOK

(* A call past its gates stays trusted wherever it goes on to.             *)
LEMMA MoveOKs ==
    ASSUME AdmissionInv, NEW c \in Callers, call[c].pc \notin {"Idle", "Gate"},
           call[c].pc = "Lookup" => (call[c].req.signature # None => call[c].req.signature.valid),
           NEW p, p \notin {"Idle", "Gate"}, Goto(c, p), AuthOK(call'[c], revokedAt, now)
    PROVE  CallOK(c)
<1>1. Shapes /\ TrustOK(call[c]) /\ (call[c].withdrawn => WithdrawnIn(keys, call[c].req))
  BY Zenon DEF AdmissionInv, StaysWithdrawn
<1>2. /\ call' = [d \in Callers |-> call'[d]]
      /\ \A d \in Callers \ {c} : call'[d] = call[d]
      /\ IsCall(call'[c]) /\ call'[c].pc = p /\ call'[c].req = call[c].req
      /\ call'[c].withdrawn = call[c].withdrawn
  BY <1>1, GotoCall, Zenon
<1>3. TrustOK(call'[c])
  BY <1>1, <1>2, TrustMoves, Zenon
<1> QED
  BY <1>1, <1>2, <1>3, Zenon DEF CallOK

(* The lookup, the freshness of the client's proof and the load.           *)
LEMMA LoadSteps ==
    ASSUME AdmissionInv, NEW c \in Callers, Lookup(c) \/ ClientProof(c) \/ Load(c)
    PROVE  CallOK(c)
<1>1. Shapes /\ AuthOK(call[c], revokedAt, now)
  BY Zenon DEF AdmissionInv
<1>2. ASSUME NEW p \in {"Load", "ClientProof", "Evaluate", "Claim"}, Goto(c, p),
             call[c].pc \in {"Lookup", "ClientProof", "Load"}, p = "Evaluate" => Members # {}
      PROVE  AuthOK(call'[c], revokedAt, now)
  <2>1. /\ call'[c].pc = p /\ call'[c].revoked = call[c].revoked
        /\ call'[c].answers = call[c].answers /\ call'[c].authority = call[c].authority
    BY <1>1, <1>2, GotoCall, Zenon
  <2>2. /\ call[c].answers = <<>> /\ call[c].authority = None
        /\ call[c].revoked => revokedAt[Primary] # None
    BY <1>1, <1>2, Zenon DEF AuthOK
  <2>3. p = "Evaluate" => /\ <<>> \in Seq(Outcome) /\ Len(<<>>) < Evaluators
                          /\ \A m \in 1 .. Len(<<>>) : FALSE
    BY <1>2, AdmissionAssumption DEF Members
  <2> QED
    BY <1>2, <2>1, <2>2, <2>3, Zenon DEF AuthOK
<1>3. CASE Lookup(c)
  <2>1. call[c].pc = "Lookup"
    BY <1>3, Zenon DEF Lookup
  <2>2. \/ \E result : Answer(c, result)
        \/ /\ call[c].req.signature # None => call[c].req.signature.valid
           /\ Goto(c, "Load") \/ Goto(c, "ClientProof")
    BY <1>3, Zenon DEF Lookup
  <2> QED
    BY <1>1, <1>2, <2>1, <2>2, AnswerOKs, MoveOKs, Zenon
<1>4. CASE ClientProof(c)
  <2>1. call[c].pc = "ClientProof" /\ ((\E result : Answer(c, result)) \/ Goto(c, "Load"))
    BY <1>4, Zenon DEF ClientProof
  <2> QED
    BY <1>1, <1>2, <2>1, AnswerOKs, MoveOKs, Zenon
<1>5. CASE Load(c)
  <2>1. /\ call[c].pc = "Load"
        /\ \/ \E result : Answer(c, result)
           \/ Members # {} /\ Goto(c, "Evaluate")
           \/ Goto(c, "Claim")
    BY <1>5, Zenon DEF Load
  <2> QED
    BY <1>1, <1>2, <2>1, AnswerOKs, MoveOKs, Zenon
<1> QED
  BY <1>3, <1>4, <1>5, Zenon

(* A set of naturals that is not empty has a least element, and Min is it. *)
LEMMA LeastIsMin ==
    ASSUME NEW S \in SUBSET Nat, S # {}
    PROVE  Min(S) \in S /\ \A y \in S : Min(S) <= y
<1>1. PICK x \in S : \A y \in S : <<y, x>> \notin OpToRel(<, Nat)
  BY WFMin, NatLessThanWellFounded, Zenon
<1>2. \A y \in S : ~(y < x)
  BY <1>1, Zenon DEF OpToRel
<1>3. \A y \in S : x <= y
  BY <1>2
<1> QED
  BY <1>3, Zenon DEF Min

(* What the aggregate of answers that pass says: it is as old as its       *)
(* oldest answer, so whatever each answer says holds of it.                *)
LEMMA AggregateHolds ==
    ASSUME Shapes, NEW revoked, revoked => revokedAt[Primary] # None,
           NEW answers, DOMAIN answers = Members, Members # {},
           \A m \in Members : AnswerOK(revoked, m, answers[m], revokedAt, now), Passes(answers)
    PROVE  /\ GrantOK(Aggregate(answers).evaluated_at, revokedAt, now)
           /\ Policy # "AnyOf" /\ revoked => Aggregate(answers).evaluated_at < revokedAt[Primary]
<1> DEFINE S == {answers[m].at : m \in Allowing(answers)}
           at == Min(S)
<1>1. Allowing(answers) \subseteq Members /\ Allowing(answers) # {}
  <2>1. Policy # "AnyOf" => Allowing(answers) = Members
    BY DEF Passes, Saying, Allowing, AnswerOK, Outcome
  <2> QED
    BY <2>1, Zenon DEF Allowing, Passes
<1>2. \A m \in Allowing(answers) : /\ answers[m].at \in Nat /\ answers[m].at <= now
                                   /\ Standing(revokedAt, m, answers[m].at)
                                   /\ revoked /\ m = Primary => answers[m].at < revokedAt[Primary]
  BY Zenon DEF Allowing, AnswerOK
<1>3. S \in SUBSET Nat /\ S # {}
  BY <1>1, <1>2, Zenon
<1>4. at \in S /\ \A m \in Allowing(answers) : at <= answers[m].at
  <2>1. \A m \in Allowing(answers) : answers[m].at \in S
    BY Zenon
  <2> HIDE DEF S
  <2> QED
    BY <1>3, <2>1, LeastIsMin, Zenon
<1> HIDE DEF S, at
<1>5. at \in Nat /\ at <= now
  BY <1>1, <1>2, <1>3, <1>4 DEF Shapes
<1>6. \A m \in Allowing(answers) : Standing(revokedAt, m, at)
  BY <1>1, <1>2, <1>4, <1>5, AdmissionAssumption DEF Shapes, Standing
<1>7. GrantOK(at, revokedAt, now)
  <2>1. Policy # "AnyOf" => Allowing(answers) = Members
    BY DEF Passes, Saying, Allowing, AnswerOK, Outcome
  <2> QED
    BY <1>1, <1>5, <1>6, <2>1, Zenon DEF GrantOK
<1>8. ASSUME Policy # "AnyOf", revoked PROVE at < revokedAt[Primary]
  <2>1. Primary \in Members /\ Allowing(answers) = Members
    BY <1>8, AdmissionAssumption DEF Passes, Saying, Allowing, AnswerOK, Outcome, Members, Primary
  <2>2. at <= answers[Primary].at /\ answers[Primary].at < revokedAt[Primary] /\ answers[Primary].at \in Nat
    BY <1>2, <1>4, <1>8, <2>1, Zenon
  <2>3. revokedAt[Primary] \in Nat
    <3>1. revokedAt[Primary] # None
      BY <1>8, Zenon
    <3> QED
      BY <2>1, <3>1, Zenon DEF Shapes
  <2> QED
    BY <1>5, <2>2, <2>3
<1>9. Aggregate(answers).evaluated_at = at
  BY Zenon DEF Aggregate, at, S
<1> QED
  BY <1>7, <1>8, <1>9, Zenon

(* A call that evaluates gets an answer.                                   *)
LEMMA AnswersCall ==
    ASSUME Shapes, NEW c \in Callers, NEW a, call' = [call EXCEPT ![c].answers = a]
    PROVE  /\ call' = [d \in Callers |-> call'[d]]
           /\ \A d \in Callers \ {c} : call'[d] = call[d]
           /\ IsCall(call'[c]) /\ call'[c].pc = call[c].pc /\ call'[c].answers = a
           /\ call'[c].authority = call[c].authority /\ call'[c].req = call[c].req
           /\ call'[c].withdrawn = call[c].withdrawn /\ call'[c].revoked = call[c].revoked
<1> DEFINE x == call[c]
           y == [pc |-> x.pc, req |-> x.req, gate |-> x.gate, withdrawn |-> x.withdrawn,
                 revoked |-> x.revoked, answers |-> a, authority |-> x.authority]
<1>1. [x EXCEPT !.answers = a] = y
  BY DEF Shapes, IsCall
<1>2. call' = [d \in Callers |-> IF d = c THEN y ELSE call[d]]
  BY <1>1, Zenon DEF Shapes
<1>3. /\ IsCall(y) /\ y.pc = x.pc /\ y.answers = a /\ y.authority = x.authority /\ y.req = x.req
      /\ y.withdrawn = x.withdrawn /\ y.revoked = x.revoked
  BY Zenon DEF IsCall
<1> HIDE DEF y
<1> QED
  BY <1>2, <1>3, Zenon

(* A call that evaluated gets the aggregate of its answers.                *)
Bind(c, g) == call' = [call EXCEPT ![c].pc = "Recheck", ![c].answers = <<>>, ![c].authority = g]

(* Binding changes that one call, and keeps its request.                   *)
LEMMA AggregateCall ==
    ASSUME Shapes, NEW c \in Callers, NEW g, Bind(c, g)
    PROVE  /\ call' = [d \in Callers |-> call'[d]]
           /\ \A d \in Callers \ {c} : call'[d] = call[d]
           /\ IsCall(call'[c]) /\ call'[c].pc = "Recheck" /\ call'[c].authority = g
           /\ call'[c].req = call[c].req /\ call'[c].withdrawn = call[c].withdrawn
           /\ call'[c].revoked = call[c].revoked
<1> DEFINE x == call[c]
           x1 == [pc |-> "Recheck", req |-> x.req, gate |-> x.gate, withdrawn |-> x.withdrawn,
                  revoked |-> x.revoked, answers |-> x.answers, authority |-> x.authority]
           x2 == [pc |-> "Recheck", req |-> x.req, gate |-> x.gate, withdrawn |-> x.withdrawn,
                  revoked |-> x.revoked, answers |-> <<>>, authority |-> x.authority]
           y == [pc |-> "Recheck", req |-> x.req, gate |-> x.gate, withdrawn |-> x.withdrawn,
                 revoked |-> x.revoked, answers |-> <<>>, authority |-> g]
<1>1. [x EXCEPT !.pc = "Recheck"] = x1
  BY DEF Shapes, IsCall
<1>2. [x1 EXCEPT !.answers = <<>>] = x2
  OBVIOUS
<1>3. [x2 EXCEPT !.authority = g] = y
  OBVIOUS
<1>4. IsCall(y) /\ y.pc = "Recheck" /\ y.authority = g /\ y.req = x.req
      /\ y.withdrawn = x.withdrawn /\ y.revoked = x.revoked
  BY Zenon DEF IsCall
<1> HIDE DEF x1, x2, y
<1> DEFINE f1 == [d \in Callers |-> IF d = c THEN x1 ELSE call[d]]
           f2 == [d \in Callers |-> IF d = c THEN x2 ELSE call[d]]
           f == [d \in Callers |-> IF d = c THEN y ELSE call[d]]
<1>5. [call EXCEPT ![c].pc = "Recheck"] = f1 /\ f1[c] = x1
  BY <1>1, Zenon DEF Shapes
<1>6. [f1 EXCEPT ![c].answers = <<>>] = f2 /\ f2[c] = x2
  BY <1>2, Zenon
<1>7. [f2 EXCEPT ![c].authority = g] = f
  BY <1>3, Zenon
<1>8. call' = f
  <2> HIDE DEF f1, f2, f
  <2> QED
    BY <1>5, <1>6, <1>7, Zenon DEF Bind
<1> QED
  BY <1>4, <1>8, Zenon

(* What a member may answer.                                               *)
LEMMA OutcomeHolds ==
    ASSUME Shapes, NEW m \in Members, NEW a \in Outcomes(m),
           NEW revoked, revoked => revokedAt[Primary] # None
    PROVE  AnswerOK(revoked, m, a, revokedAt, now)
<1>1. revokedAt[m] \in Nat \cup {None} /\ now \in Nat /\ None \notin Nat
  BY AdmissionAssumption, Zenon DEF Shapes
<1>2. CASE a \in {[result |-> x, at |-> None] : x \in {"deny", "stale", "unavailable"}}
  BY <1>2 DEF AnswerOK, Outcome
<1>3. ASSUME NEW t \in {now - 1, now}, t >= 0, revokedAt[m] = None \/ t < revokedAt[m],
             a = [result |-> "allow", at |-> t]
      PROVE  AnswerOK(revoked, m, a, revokedAt, now)
  <2>1. t \in Nat /\ t <= now
    BY <1>1, <1>3
  <2>2. a.result = "allow" /\ a.at = t /\ a \in Outcome
    BY <1>3, <2>1, Zenon DEF Outcome
  <2>3. Standing(revokedAt, m, t)
    BY <1>1, <1>3, <2>1 DEF Standing
  <2>4. revoked /\ m = Primary => t < revokedAt[Primary]
    BY <1>3, Zenon
  <2> QED
    BY <2>1, <2>2, <2>3, <2>4, Zenon DEF AnswerOK
<1> QED
  BY <1>2, <1>3, Zenon DEF Outcomes

(* One more member answers: the answer is recorded, and the last one is    *)
(* aggregated with those before it.                                        *)
LEMMA EvaluateStep ==
    ASSUME AdmissionInv, NEW c \in Callers, Evaluate(c)
    PROVE  CallOK(c)
<1> DEFINE x == call[c]
<1>1. /\ Shapes /\ TrustOK(x) /\ AuthOK(x, revokedAt, now) /\ x.pc = "Evaluate"
      /\ x.withdrawn => WithdrawnIn(keys, x.req)
  BY Zenon DEF AdmissionInv, Evaluate, StaysWithdrawn
<1>2. (x.revoked => revokedAt[Primary] # None) /\ x.authority = None
  BY <1>1, Zenon DEF AuthOK
<1> DEFINE m == Len(x.answers) + 1
           After(a) == Append(x.answers, a)
<1>3. /\ x.answers \in Seq(Outcome) /\ Len(x.answers) < Evaluators
      /\ \A i \in 1 .. Len(x.answers) : AnswerOK(x.revoked, i, x.answers[i], revokedAt, now)
  BY <1>1, Zenon DEF AuthOK
<1>4. m \in Members /\ Evaluators \in Nat
  BY <1>3, AdmissionAssumption DEF Members
<1>5. PICK a \in Outcomes(m) :
         IF m < Evaluators THEN call' = [call EXCEPT ![c].answers = After(a)]
         ELSE IF Passes(After(a))
         THEN call' = [call EXCEPT ![c].pc = "Recheck", ![c].answers = <<>>,
                                   ![c].authority = Aggregate(After(a))]
         ELSE Answer(c, Refusal(After(a)))
  BY Zenon DEF Evaluate
<1>6. AnswerOK(x.revoked, m, a, revokedAt, now)
  BY <1>1, <1>2, <1>4, OutcomeHolds, Zenon
<1>7. /\ After(a) \in Seq(Outcome) /\ Len(After(a)) = m /\ DOMAIN After(a) = 1 .. m
      /\ \A i \in 1 .. m : AnswerOK(x.revoked, i, After(a)[i], revokedAt, now)
  <2>1. a \in Outcome
    BY <1>6, Zenon DEF AnswerOK
  <2>2. /\ After(a) \in Seq(Outcome) /\ Len(After(a)) = m /\ DOMAIN After(a) = 1 .. m
        /\ \A i \in 1 .. m : i = m \/ (i \in 1 .. Len(x.answers) /\ i # m)
        /\ \A i \in 1 .. m : After(a)[i] = IF i = m THEN a ELSE x.answers[i]
    BY <1>3, <2>1
  <2> HIDE DEF m, After
  <2> QED
    BY <1>3, <1>6, <2>2, Zenon
<1> HIDE DEF After
<1>8. ASSUME call'[c].pc \in {"Evaluate", "Recheck"}, call'[c].req = x.req,
             call'[c].withdrawn = x.withdrawn
      PROVE  TrustOK(call'[c]) /\ (call'[c].withdrawn => WithdrawnIn(keys, call'[c].req))
  <2>1. TrustOK(call'[c])
    BY <1>1, <1>8, TrustMoves, Zenon
  <2> QED
    BY <1>1, <1>8, <2>1, Zenon
<1>9. CASE m < Evaluators /\ call' = [call EXCEPT ![c].answers = After(a)]
  <2>1. /\ call' = [d \in Callers |-> call'[d]]
        /\ \A d \in Callers \ {c} : call'[d] = call[d]
        /\ IsCall(call'[c]) /\ call'[c].pc = "Evaluate" /\ call'[c].answers = After(a)
        /\ call'[c].authority = None /\ call'[c].req = x.req /\ call'[c].withdrawn = x.withdrawn
        /\ call'[c].revoked = x.revoked
    BY <1>1, <1>2, <1>9, AnswersCall, Zenon
  <2>2. AuthOK(call'[c], revokedAt, now)
    BY <1>2, <1>7, <1>9, <2>1 DEF AuthOK
  <2> QED
    BY <1>8, <2>1, <2>2, Zenon DEF CallOK
<1>10. CASE /\ ~(m < Evaluators) /\ Passes(After(a))
            /\ call' = [call EXCEPT ![c].pc = "Recheck", ![c].answers = <<>>,
                                    ![c].authority = Aggregate(After(a))]
  <2>1. PICK g : g = Aggregate(After(a)) /\ Bind(c, g)
    BY <1>10, Zenon DEF Bind
  <2>2. /\ call' = [d \in Callers |-> call'[d]]
        /\ \A d \in Callers \ {c} : call'[d] = call[d]
        /\ IsCall(call'[c]) /\ call'[c].pc = "Recheck" /\ call'[c].authority = g
        /\ call'[c].req = x.req /\ call'[c].withdrawn = x.withdrawn /\ call'[c].revoked = x.revoked
    BY <1>1, <2>1, AggregateCall, Zenon
  <2>3. m = Evaluators /\ Members = 1 .. m /\ Primary \in Members
    BY <1>3, <1>4, <1>10 DEF Members, Primary
  <2>4. DOMAIN After(a) = Members
    BY <1>7, <2>3, Zenon
  <2>5. /\ GrantOK(g.evaluated_at, revokedAt, now)
        /\ Policy # "AnyOf" /\ x.revoked => g.evaluated_at < revokedAt[Primary]
    BY <1>1, <1>2, <1>7, <1>10, <2>1, <2>3, <2>4, AggregateHolds, Zenon
  <2>6. AuthOK(call'[c], revokedAt, now)
    BY <1>2, <2>2, <2>3, <2>5, Zenon DEF AuthOK
  <2> QED
    BY <1>8, <2>2, <2>6, Zenon DEF CallOK
<1> QED
  BY <1>1, <1>5, <1>9, <1>10, AnswerOKs, Zenon

(* The aggregate is still fresh: then the primary had not revoked before   *)
(* the call began.                                                         *)
LEMMA RecheckStep ==
    ASSUME AdmissionInv, NEW c \in Callers, Recheck(c)
    PROVE  CallOK(c)
<1>1. Shapes /\ AuthOK(call[c], revokedAt, now) /\ call[c].pc = "Recheck"
  BY Zenon DEF AdmissionInv, Recheck
<1>2. \/ \E result : Answer(c, result)
      \/ Goto(c, "Claim") /\ IsFresh(call[c].authority.evaluated_at)
  BY Zenon DEF Recheck
<1>3. CASE Goto(c, "Claim") /\ IsFresh(call[c].authority.evaluated_at)
  <2>1. /\ call'[c].pc = "Claim" /\ call'[c].revoked = call[c].revoked
        /\ call'[c].authority = call[c].authority
    BY <1>1, <1>3, GotoCall, Zenon
  <2> DEFINE at == call[c].authority.evaluated_at
  <2>2. /\ call[c].revoked => revokedAt[Primary] # None
        /\ Primary \in Members /\ GrantOK(at, revokedAt, now)
        /\ Policy # "AnyOf" /\ call[c].revoked => at < revokedAt[Primary]
    BY <1>1, Zenon DEF AuthOK
  <2>3. Policy # "AnyOf" => ~call[c].revoked
    <3>1. at \in Nat /\ (revokedAt[Primary] # None => revokedAt[Primary] \in Nat)
      BY <1>1, <2>2, Zenon DEF GrantOK, Shapes
    <3>2. revokedAt[Primary] # None => at >= revokedAt[Primary]
      BY <1>3, Zenon DEF IsFresh
    <3> QED
      BY <2>2, <3>1, <3>2
  <2>4. AuthOK(call'[c], revokedAt, now)
    BY <2>1, <2>2, <2>3, Zenon DEF AuthOK
  <2> QED
    BY <1>1, <1>3, <2>4, MoveOKs, Zenon
<1> QED
  BY <1>1, <1>2, <1>3, AnswerOKs, Zenon

(* What is put into an event was shown by the call that emits it.          *)
LEMMA EventHolds ==
    ASSUME AdmissionInv, NEW c \in Callers, call[c].pc = "Claim"
    PROVE  EventOK(EventOf(c), revokedAt, now)
<1> DEFINE x == call[c]
           r == call[c].req
           e == EventOf(c)
<1>1. TrustOK(x) /\ AuthOK(x, revokedAt, now)
  BY Zenon DEF AdmissionInv
<1>2. e.req = r /\ e.authority = x.authority /\ e.withdrawn = x.withdrawn /\ e.revoked = x.revoked
  BY Zenon DEF EventOf
<1>3. /\ r \in Requests /\ \A n \in 1 .. Len(Gates(r.route)) : Passed(x, n)
      /\ r.signature # None => r.signature.valid
  BY <1>1, Zenon DEF TrustOK
<1>4. PICK L \in {1, 2} : L = Len(Gates(r.route))
  BY <1>3, RouteGates, Zenon
<1>5. Passed(x, 1) /\ (L = 2 => Passed(x, 2))
  <2>1. 1 \in 1 .. L /\ (L = 2 => 2 \in 1 .. L)
    OBVIOUS
  <2> QED
    BY <1>3, <1>4, <2>1, Zenon
<1> HIDE DEF e
<1>6. PlayerOK(e)
  <2>1. CASE r.route = "service" \/ r.route = "player"
    BY <1>2, <1>3, <1>5, <2>1, RouteGates, Zenon DEF Passed, Held, PlayerOK
  <2>2. CASE r.route = "keyed" \/ r.route = "batch"
    <3>1. L = 2
      BY <1>3, <1>4, <2>2, RouteGates, Zenon
    <3>2. Held(x, "signed") /\ Held(x, "bind") /\ Held(x, "key")
      BY <1>3, <1>5, <2>2, <3>1, RouteGates DEF Passed
    <3> QED
      BY <1>2, <1>3, <3>2, Zenon DEF Held, PlayerOK
  <2>3. CASE r.route \notin {"service", "player", "keyed", "batch"}
    BY <1>2, <2>3, Zenon DEF PlayerOK
  <2> QED
    BY <2>1, <2>2, <2>3, Zenon
<1>7. x.authority # None => /\ GrantOK(x.authority.evaluated_at, revokedAt, now)
                            /\ Policy # "AnyOf" => ~x.revoked
  BY <1>1, Zenon DEF AuthOK
<1>8. EventOK(e, revokedAt, now)
  BY <1>2, <1>3, <1>6, <1>7, Zenon DEF EventOK
<1> QED
  BY <1>8, Zenon DEF e

(* Time goes on and members revoke, at the time it is.                     *)
Later(rev, t, rev2, t2) ==
    /\ t \in Nat /\ t2 \in Nat /\ t <= t2
    /\ \A m \in Members : /\ rev[m] \in Nat \cup {None}
                          /\ rev2[m] = rev[m] \/ (rev[m] = None /\ rev2[m] = t)
    /\ Members = {} => rev2 = rev

(* A revocation after the grant, or the passing of time, does not undo     *)
(* what the grant says.                                                    *)
LEMMA GrantLater ==
    ASSUME NEW rev, NEW t, NEW rev2, NEW t2, Later(rev, t, rev2, t2)
    PROVE  /\ \A m \in Members : \A at \in Nat :
                 at <= t /\ Standing(rev, m, at) => at <= t2 /\ Standing(rev2, m, at)
           /\ \A at : GrantOK(at, rev, t) => GrantOK(at, rev2, t2)
<1>1. ASSUME NEW m \in Members, NEW at \in Nat, at <= t, Standing(rev, m, at)
      PROVE  at <= t2 /\ Standing(rev2, m, at)
  BY <1>1 DEF Later, Standing
<1>2. ASSUME NEW at, GrantOK(at, rev, t) PROVE GrantOK(at, rev2, t2)
  <2>1. at \in Nat /\ at <= t /\ at <= t2
    BY <1>2 DEF GrantOK, Later
  <2>2. \A m \in Members : Standing(rev, m, at) => Standing(rev2, m, at)
    BY <1>1, <2>1, Zenon
  <2> QED
    BY <1>2, <2>1, <2>2, Zenon DEF GrantOK
<1> QED
  BY <1>1, <1>2, Zenon

(* What a call knows of its authority stays true.                          *)
LEMMA AuthLater ==
    ASSUME NEW rev, NEW t, NEW rev2, NEW t2, Later(rev, t, rev2, t2), NEW x, AuthOK(x, rev, t)
    PROVE  AuthOK(x, rev2, t2)
<1>0. Primary \in Members \/ Members = {}
  BY AdmissionAssumption DEF Primary, Members
<1>1. rev[Primary] # None => rev2[Primary] = rev[Primary]
  BY <1>0, Zenon DEF Later
<1>2. ASSUME NEW m \in Members, NEW a, x.revoked => rev[Primary] # None,
             AnswerOK(x.revoked, m, a, rev, t)
      PROVE  AnswerOK(x.revoked, m, a, rev2, t2)
  BY <1>1, <1>2, GrantLater, Zenon DEF AnswerOK
<1>3. ASSUME x.pc = "Evaluate"
      PROVE  \A m \in 1 .. Len(x.answers) : AnswerOK(x.revoked, m, x.answers[m], rev2, t2)
  <2>1. /\ x.answers \in Seq(Outcome) /\ Len(x.answers) < Evaluators
        /\ \A m \in 1 .. Len(x.answers) : AnswerOK(x.revoked, m, x.answers[m], rev, t)
        /\ x.revoked => rev[Primary] # None
    BY <1>3, Zenon DEF AuthOK
  <2>2. \A m \in 1 .. Len(x.answers) : m \in Members
    BY <2>1, AdmissionAssumption DEF Members
  <2> QED
    BY <1>2, <2>1, <2>2, Zenon
<1>4. \A at : GrantOK(at, rev, t) => GrantOK(at, rev2, t2)
  BY GrantLater, Zenon
<1> QED
  BY <1>1, <1>3, <1>4, Zenon DEF AuthOK

(* An operator's step: a key that was withdrawn stays withdrawn, and one   *)
(* that was revoked stays revoked.                                         *)
LEMMA StatusSet ==
    ASSUME KeysInv, NEW k \in DOMAIN keys, NEW status \in {Retired, Revoked},
           keys' = SetStatus(keys, k, status),
           everRevoked' = IF status = Revoked THEN everRevoked \cup {k} ELSE everRevoked
    PROVE  KeysInv' /\ \A r : WithdrawnIn(keys, r) => WithdrawnIn(keys', r)
<1> DEFINE y == [keys[k] EXCEPT !.status = status]
<1>1. CASE keys[k].status = Revoked /\ status # Revoked
  BY <1>1, Zenon DEF KeysInv, SetStatus, WithdrawnIn
<1>2. CASE ~(keys[k].status = Revoked /\ status # Revoked)
  <2>1. keys' = [keys EXCEPT ![k] = y]
    BY <1>2, Zenon DEF SetStatus
  <2>2. IsKeyRecord(y) /\ y.status = status
    BY DEF KeysInv, IsKeyRecord
  <2> HIDE DEF y
  <2>3. /\ DOMAIN keys' = DOMAIN keys /\ keys'[k] = y
        /\ \A j \in DOMAIN keys : j # k => keys'[j] = keys[j]
    BY <2>1, Zenon
  <2>4. status # Active /\ (status = Revoked <=> k \in everRevoked')
    BY <1>2, Zenon DEF KeysInv, Active, Retired, Revoked
  <2>5. \A j \in DOMAIN keys : j # k => (j \in everRevoked' <=> j \in everRevoked)
    BY Zenon
  <2>6. KeysInv'
    BY <2>2, <2>3, <2>4, <2>5 DEF KeysInv
  <2>7. \A r : WithdrawnIn(keys, r) => WithdrawnIn(keys', r)
    BY <2>2, <2>3, <2>4, Zenon DEF WithdrawnIn
  <2> QED
    BY <2>6, <2>7, Zenon
<1> QED
  BY <1>1, <1>2, Zenon

(* No step of the registry brings a revoked key back, and a withdrawn key  *)
(* stays withdrawn.                                                        *)
LEMMA KeysStep ==
    ASSUME AdmissionInv, [Next]_vars
    PROVE  KeysInv' /\ \A r : WithdrawnIn(keys, r) => WithdrawnIn(keys', r)
<1>1. KeysInv
  BY Zenon DEF AdmissionInv
<1>2. CASE UNCHANGED <<keys, everRevoked>>
  BY <1>1, <1>2, Zenon DEF KeysInv, WithdrawnIn
<1>3. CASE keys' = Register(keys, LateKey.id, LateKey.record) /\ UNCHANGED everRevoked
  <2>1. CASE keys' = keys
    BY <1>2, <1>3, <2>1, Zenon
  <2>2. CASE /\ LateKey.id \notin DOMAIN keys /\ LateKey.record.status # Revoked
             /\ keys' = [k \in DOMAIN keys \cup {LateKey.id} |->
                            IF k = LateKey.id THEN LateKey.record ELSE keys[k]]
    <3>1. /\ DOMAIN keys' = DOMAIN keys \cup {LateKey.id} /\ keys'[LateKey.id] = LateKey.record
          /\ \A k \in DOMAIN keys : keys'[k] = keys[k]
      BY <2>2, Zenon
    <3>2. LateKey.id \notin everRevoked'
      BY <1>1, <1>3, <2>2, Zenon DEF KeysInv
    <3> QED
      BY <1>1, <1>3, <2>2, <3>1, <3>2, AdmissionAssumption DEF KeysInv, WithdrawnIn
  <2> QED
    BY <1>3, <2>1, <2>2, Zenon DEF Register
<1>4. ASSUME NEW k \in DOMAIN keys,
             \/ keys' = SetStatus(keys, k, Retired) /\ UNCHANGED everRevoked
             \/ keys' = SetStatus(keys, k, Revoked) /\ everRevoked' = everRevoked \cup {k}
      PROVE  KeysInv' /\ \A r : WithdrawnIn(keys, r) => WithdrawnIn(keys', r)
  <2>1. Retired # Revoked
    BY Zenon DEF Retired, Revoked
  <2> QED
    BY <1>1, <1>4, <2>1, StatusSet, Zenon
<1>5. KeyEvent \/ UNCHANGED <<keys, everRevoked>>
  <2>1. ASSUME NEW c \in Callers, NEW r \in Requests, Submit(c, r) PROVE UNCHANGED <<keys, everRevoked>>
    BY <2>1, Zenon DEF Submit
  <2>2. ASSUME NEW c \in Callers,
               Gate(c) \/ Lookup(c) \/ ClientProof(c) \/ Load(c) \/ Recheck(c) \/ Claim(c) \/ PortFails(c)
        PROVE  UNCHANGED <<keys, everRevoked>>
    BY <2>2, Zenon DEF Gate, Lookup, ClientProof, Load, Recheck, Claim, PortFails
  <2>3. ASSUME NEW c \in Callers, Evaluate(c) PROVE UNCHANGED <<keys, everRevoked>>
    BY <2>3, Zenon DEF Evaluate
  <2>4. ASSUME NEW m \in Members, RevokeGrant(m) PROVE UNCHANGED <<keys, everRevoked>>
    BY <2>4, Zenon DEF RevokeGrant
  <2>5. CASE Tick \/ UNCHANGED vars
    BY <2>5, Zenon DEF Tick, vars
  <2> QED
    BY <2>1, <2>2, <2>3, <2>4, <2>5, Zenon DEF Next
<1> QED
  BY <1>2, <1>3, <1>4, <1>5, Zenon DEF KeyEvent

(* A claim is made with its event, and only then.                          *)
LEMMA ClaimStep ==
    ASSUME AdmissionInv, NEW c \in Callers, Claim(c)
    PROVE  /\ CallOK(c) /\ ClaimsAreEvents' /\ claims' = [i \in Ids |-> claims'[i]]
           /\ \A e \in emitted' : EventOK(e, revokedAt, now)
<1> DEFINE r == call[c].req
           i == call[c].req.doc.id
           v == call[c].req.doc.payload
<1>1. /\ Shapes /\ ClaimsAreEvents /\ call[c].pc = "Claim" /\ TrustOK(call[c])
      /\ \A e \in emitted : EventOK(e, revokedAt, now)
  BY Zenon DEF AdmissionInv, Claim
<1>2. r \in Requests /\ i \in Ids /\ v # None
  BY <1>1, AdmissionAssumption, Zenon DEF TrustOK, Ids
<1>3. CallOK(c)
  BY <1>1, AnswerOKs, Zenon DEF Claim
<1>4. CASE UNCHANGED <<claims, emitted>>
  BY <1>1, <1>3, <1>4, Zenon DEF ClaimsAreEvents, Shapes
<1>5. CASE /\ claims[i] \in {None, v}
           /\ claims' = [claims EXCEPT ![i] = v] /\ emitted' = emitted \cup {EventOf(c)}
  <2>1. /\ claims' = [j \in Ids |-> claims'[j]] /\ claims'[i] = v
        /\ \A j \in Ids : j # i => claims'[j] = claims[j]
    BY <1>1, <1>2, <1>5, Zenon DEF Shapes
  <2>2. EventOf(c).req = r
    BY Zenon DEF EventOf
  <2>3. ASSUME NEW e \in emitted' PROVE claims'[e.req.doc.id] = e.req.doc.payload
    <3>1. CASE e = EventOf(c)
      BY <2>1, <2>2, <3>1, Zenon
    <3>2. CASE e \in emitted
      <4>1. claims[e.req.doc.id] = e.req.doc.payload /\ e.req \in Requests
        BY <1>1, <3>2, Zenon DEF ClaimsAreEvents, EventOK
      <4>2. e.req.doc.id \in Ids /\ e.req.doc.payload # None
        BY <4>1, AdmissionAssumption, Zenon DEF Ids
      <4> QED
        BY <1>5, <2>1, <4>1, <4>2, Zenon
    <3> QED
      BY <1>5, <3>1, <3>2, Zenon
  <2>4. ASSUME NEW j \in Ids, claims'[j] # None PROVE \E e \in emitted' : e.req.doc.id = j
    <3>1. CASE j = i
      BY <1>5, <2>2, <3>1, Zenon
    <3>2. CASE j # i
      BY <1>1, <1>5, <2>1, <2>4, <3>2, Zenon DEF ClaimsAreEvents
    <3> QED
      BY <3>1, <3>2, Zenon
  <2>5. \A e \in emitted' : EventOK(e, revokedAt, now)
    BY <1>1, <1>5, EventHolds, Zenon
  <2> QED
    BY <1>3, <2>1, <2>3, <2>4, <2>5, Zenon DEF ClaimsAreEvents
<1> QED
  <2>1. \/ UNCHANGED <<claims, emitted>>
        \/ /\ claims[i] \in {None, v}
           /\ claims' = [claims EXCEPT ![i] = v] /\ emitted' = emitted \cup {EventOf(c)}
    BY Zenon DEF Claim
  <2> QED
    BY <1>4, <1>5, <2>1, Zenon

(* A step of a call: the rest of the system stays as it was.               *)
LEMMA CallStep ==
    ASSUME AdmissionInv, NEW c \in Callers,
           \/ \E r \in Requests : Submit(c, r)
           \/ Gate(c) \/ Lookup(c) \/ ClientProof(c) \/ Load(c)
           \/ Evaluate(c) \/ Recheck(c) \/ Claim(c) \/ PortFails(c)
    PROVE  /\ CallOK(c) /\ UNCHANGED <<now, keys, revokedAt>>
           /\ ClaimsAreEvents' /\ claims' = [i \in Ids |-> claims'[i]]
           /\ \A e \in emitted' : EventOK(e, revokedAt, now)
<1>1. CallOK(c)
  <2>1. PortFails(c) => CallOK(c)
    BY AnswerOKs, Zenon DEF PortFails, AdmissionInv
  <2> QED
    BY <2>1, SubmitStep, GateStep, LoadSteps, EvaluateStep, RecheckStep, ClaimStep, Zenon
<1>2. CASE Claim(c)
  <2>1. UNCHANGED <<now, keys, revokedAt>>
    BY <1>2, Zenon DEF Claim
  <2> QED
    BY <1>1, <1>2, <2>1, ClaimStep, Zenon
<1>3. ASSUME \/ \E r \in Requests : Submit(c, r)
             \/ Gate(c) \/ Lookup(c) \/ ClientProof(c) \/ Load(c)
             \/ Evaluate(c) \/ Recheck(c) \/ PortFails(c)
      PROVE  UNCHANGED <<now, keys, revokedAt, claims, emitted>>
  <2>1. ASSUME NEW r \in Requests, Submit(c, r) PROVE UNCHANGED <<now, keys, revokedAt, claims, emitted>>
    BY <2>1, Zenon DEF Submit
  <2>2. Evaluate(c) => UNCHANGED <<now, keys, revokedAt, claims, emitted>>
    BY Zenon DEF Evaluate
  <2>3. Gate(c) \/ Lookup(c) \/ ClientProof(c) \/ Load(c) \/ Recheck(c) \/ PortFails(c)
           => UNCHANGED <<now, keys, revokedAt, claims, emitted>>
    BY Zenon DEF Gate, Lookup, ClientProof, Load, Recheck, PortFails
  <2> QED
    BY <1>3, <2>1, <2>2, <2>3, Zenon
<1>4. ASSUME UNCHANGED <<now, keys, revokedAt, claims, emitted>>
      PROVE  /\ ClaimsAreEvents' /\ claims' = [i \in Ids |-> claims'[i]]
             /\ \A e \in emitted' : EventOK(e, revokedAt, now)
  BY <1>4, Zenon DEF AdmissionInv, ClaimsAreEvents, Shapes
<1> QED
  BY <1>1, <1>2, <1>3, <1>4, Zenon

(* A step of the environment: the calls, the claims and the events stay as *)
(* they were, and what is known of them stays true.                        *)
LEMMA EnvironmentStep ==
    ASSUME AdmissionInv,
           (\E m \in Members : RevokeGrant(m)) \/ KeyEvent \/ Tick \/ UNCHANGED vars
    PROVE  /\ UNCHANGED <<call, claims, emitted>>
           /\ Later(revokedAt, now, revokedAt', now') /\ revokedAt' \in [Members -> Nat \cup {None}]
<1>1. revokedAt \in [Members -> Nat \cup {None}] /\ now \in Nat
  BY Zenon DEF AdmissionInv, Shapes
<1>2. ASSUME NEW m \in Members, RevokeGrant(m)
      PROVE  /\ UNCHANGED <<call, claims, emitted>>
             /\ Later(revokedAt, now, revokedAt', now') /\ revokedAt' \in [Members -> Nat \cup {None}]
  BY <1>1, <1>2 DEF RevokeGrant, Later
<1>3. CASE KeyEvent \/ Tick \/ UNCHANGED vars
  <2>1. UNCHANGED <<call, claims, emitted, revokedAt>> /\ now' \in {now, now + 1}
    BY <1>3, Zenon DEF KeyEvent, Tick, vars
  <2> QED
    BY <1>1, <2>1 DEF Later
<1> QED
  BY <1>2, <1>3, Zenon

(* Every step of a call and of its environment preserves the invariant.    *)
LEMMA AdmissionInvStep == AdmissionInv /\ [Next]_vars => AdmissionInv'
<1> SUFFICES ASSUME AdmissionInv, [Next]_vars PROVE AdmissionInv'
  BY Zenon
<1>1. KeysInv' /\ \A r : WithdrawnIn(keys, r) => WithdrawnIn(keys', r)
  BY KeysStep, Zenon
<1>2. /\ Shapes /\ StaysWithdrawn /\ \A e \in emitted : EventOK(e, revokedAt, now)
      /\ \A c \in Callers : TrustOK(call[c]) /\ AuthOK(call[c], revokedAt, now)
  BY Zenon DEF AdmissionInv
<1>3. ASSUME NEW c \in Callers, CallOK(c), UNCHANGED <<now, keys, revokedAt>>,
             ClaimsAreEvents', claims' = [i \in Ids |-> claims'[i]],
             \A e \in emitted' : EventOK(e, revokedAt, now)
      PROVE  AdmissionInv'
  <2>1. ASSUME NEW d \in Callers
        PROVE  /\ IsCall(call'[d]) /\ TrustOK(call'[d]) /\ AuthOK(call'[d], revokedAt', now')
               /\ call'[d].pc # "Idle" /\ call'[d].withdrawn => WithdrawnIn(keys', call'[d].req)
    <3>1. CASE d = c
      BY <1>3, <3>1, Zenon DEF CallOK
    <3>2. CASE d # c
      BY <1>2, <1>3, <3>2, Zenon DEF CallOK, Shapes, StaysWithdrawn
    <3> QED
      BY <3>1, <3>2, Zenon
  <2>2. Shapes'
    BY <1>2, <1>3, <2>1, Zenon DEF Shapes, CallOK
  <2>3. StaysWithdrawn'
    BY <2>1, Zenon DEF StaysWithdrawn
  <2>4. \A e \in emitted' : EventOK(e, revokedAt', now')
    BY <1>3, Zenon
  <2> QED
    BY <1>1, <1>3, <2>1, <2>2, <2>3, <2>4, Zenon DEF AdmissionInv
<1>4. ASSUME UNCHANGED <<call, claims, emitted>>,
             Later(revokedAt, now, revokedAt', now'), revokedAt' \in [Members -> Nat \cup {None}]
      PROVE  AdmissionInv'
  <2>1. Shapes' /\ ClaimsAreEvents'
    BY <1>2, <1>4, Zenon DEF AdmissionInv, Shapes, ClaimsAreEvents, Later
  <2>2. StaysWithdrawn'
    BY <1>1, <1>2, <1>4, Zenon DEF StaysWithdrawn
  <2>3. \A c \in Callers : TrustOK(call'[c]) /\ AuthOK(call'[c], revokedAt', now')
    BY <1>2, <1>4, AuthLater, Zenon
  <2>4. \A e \in emitted' : EventOK(e, revokedAt', now')
    <3>1. \A at : GrantOK(at, revokedAt, now) => GrantOK(at, revokedAt', now')
      BY <1>4, GrantLater, Zenon
    <3> QED
      BY <1>2, <1>4, <3>1, Zenon DEF EventOK
  <2> QED
    BY <1>1, <2>1, <2>2, <2>3, <2>4, Zenon DEF AdmissionInv
<1>5. \/ \E c \in Callers : \/ \E r \in Requests : Submit(c, r)
                            \/ Gate(c) \/ Lookup(c) \/ ClientProof(c) \/ Load(c)
                            \/ Evaluate(c) \/ Recheck(c) \/ Claim(c) \/ PortFails(c)
      \/ (\E m \in Members : RevokeGrant(m)) \/ KeyEvent \/ Tick \/ UNCHANGED vars
  BY Zenon DEF Next
<1> QED
  BY <1>3, <1>4, <1>5, CallStep, EnvironmentStep, Zenon

(* The invariant holds throughout.                                         *)
LEMMA AdmissionInvHolds == Spec => []AdmissionInv
  BY AdmissionInvInit, AdmissionInvStep, PTL DEF Spec

(* What a refused request leaves behind: nothing. At every moment exactly  *)
(* the ids of emitted events are claimed, with the payload of those        *)
(* events, however the calls of execute_inner interleave.                  *)
THEOREM RefusalsLeaveNothing == Spec => []ClaimsAreEvents
<1>1. AdmissionInv => ClaimsAreEvents
  BY Zenon DEF AdmissionInv
<1> QED
  BY <1>1, AdmissionInvHolds, PTL

(* Only trusted signers get an event through the players' routes, and a    *)
(* revoked key is trusted for nothing again, for any registry and any      *)
(* sequence of registrations, retirements and revocations.                 *)
THEOREM SignersStayTrusted == Spec => []SignersAreTrusted
<1>1. AdmissionInv => SignersAreTrusted
  <2> SUFFICES ASSUME AdmissionInv PROVE SignersAreTrusted
    BY Zenon
  <2>1. PlayersAreTrusted
    BY Zenon DEF AdmissionInv, EventOK, PlayerOK, PlayersAreTrusted
  <2>2. RevocationIsTerminal
    BY Zenon DEF AdmissionInv, KeysInv, RevocationIsTerminal, ResolveCommitKey
  <2> QED
    BY <2>1, <2>2, Zenon DEF SignersAreTrusted
<1> QED
  BY <1>1, AdmissionInvHolds, PTL

(* The authority bound into an event held at the time it names, for any    *)
(* number of members that revoke at any time while calls evaluate,         *)
(* aggregate, recheck and claim.                                           *)
THEOREM AuthorityIsBound == Spec => []AuthorityHolds
<1>1. AdmissionInv => AuthorityHolds
  BY Zenon DEF AdmissionInv, EventOK, GrantOK, Standing, AuthorityHolds
<1> QED
  BY <1>1, AdmissionInvHolds, PTL
=============================================================================
