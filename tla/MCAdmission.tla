---------------------------- MODULE MCAdmission -----------------------------
(***************************************************************************)
(* The instance of Admission that TLC checks: one tenant, two actors, two  *)
(* intents of which one is submitted with two payloads, every route, a     *)
(* registry with one key of a player and one that is registered late, and  *)
(* an authority set of two members.                                        *)
(***************************************************************************)
EXTENDS Admission, SequencesExt

Id == Text(TRUE, PrefixLength + 1, FALSE)
Name == Text(FALSE, 1, FALSE)
Nonce == [prefixed |-> TRUE, bytes |-> 1]

Document(id, payload, actor, created, expires, authority) ==
    [id |-> id, payload |-> payload, tenantId |-> "t", actorId |-> actor, op |-> "move",
     schema |-> TRUE, intent_id |-> Id, operation |-> Name, tenant |-> Name, actor |-> Name,
     resource |-> Name, bytes |-> MaxBytes, canonical |-> MaxBytes, depth |-> 0, nonce |-> Nonce,
     signatures |-> {}, created_at |-> created, expires_at |-> expires, authority |-> authority]

Session(actor) == [tenant |-> "t", subject |-> actor]
Signed(key) == [key |-> key, valid |-> TRUE]

Request(route, doc, who, signature) ==
    [route |-> route, doc |-> doc, principal |-> Session(who), signature |-> signature,
     wire |-> TRUE, durable |-> FALSE, required |-> FALSE, dims |-> {who, "t"}, cost |-> 1]

MCRequests ==
    LET move == Document(1, "p", "ann", 0, NoExpiry, None)
        granted_move == Document(1, "q", "ann", 0, 2, 0)
        order == Document(2, "p", "bob", 1, NoExpiry, None)
    IN {[Request("keyed", move, "ann", Signed("k1")) EXCEPT !.durable = TRUE],
        Request("batch", granted_move, "ann", Signed("k1")),
        [Request("batch", order, "ann", Signed("k1")) EXCEPT !.cost = 2],
        [Request("player", order, "bob", [Signed("k2") EXCEPT !.valid = FALSE]) EXCEPT !.wire = FALSE],
        [Request("service", order, "bob", None) EXCEPT !.required = TRUE, !.dims = {"t"}, !.cost = 2],
        [Request("internal", move, "job", None) EXCEPT !.dims = {"t"}]}

Record(subject, from, until) ==
    [tenant |-> "t", subject |-> subject, status |-> Active, operations |-> {"move"},
     valid_from |-> from, valid_until |-> until]
MCInitialKeys == [k \in {"k1"} |-> Record("ann", 0, Absent)]
MCLateKey == [id |-> "k2", record |-> Record("bob", 1, 3)]
CONSTANTS c1, c2
MCCallers == {c1, c2}
CallerSymmetry == Permutations(MCCallers)

Names == {Text(FALSE, l, FALSE) : l \in {0, 1, MaxIdLength, MaxIdLength + 1}}
Documents(created) ==
    {[Document(1, "p", "ann", created, e, None) EXCEPT !.actor = n, !.operation = o, !.depth = d,
                                                 !.bytes = b, !.canonical = b] :
        e \in {0, 1, 2, 3, NoExpiry}, n \in Names, o \in Names,
        d \in MaxJsonDepth - 3 .. MaxJsonDepth + 1, b \in {0, MaxBytes, MaxBytes + 1}}
Agreement ==
    [created \in 0 .. MaxTime |->
        \A doc \in Documents(created) :
            /\ ParseIntent(doc) /\ Validate(doc) /\ ValidName(doc.actor) => TryFromIntent(doc)
            /\ Validate(doc) \/ TryFromIntent(doc) => ~IsExpired(doc, created)]

(* The two ways in agree about the form of an intent, whenever it is       *)
(* created: a document that comes over the wire and whose tenant, actor    *)
(* and resource are proper names is one the typed constructor takes, and   *)
(* no intent is ever admitted that had expired when it was created         *)
(* (validate, try_from_intent).                                            *)
FormsAgree == Agreement[now]
=============================================================================
