-------------------------- MODULE MCProfilePipeline --------------------------
(* ProfilePipeline for TLC: two holders, small amounts, one resource.      *)
EXTENDS ProfileAgreement, Amounts, TLC

CONSTANTS a, b, t1, t2, c1, c2

(* The callers are interchangeable.                                        *)
Symmetry == Permutations(Callers)

Blank == [op |-> "", actor |-> a, to |-> None, from |-> None, owner |-> None, party |-> None,
          consent |-> FALSE, authorized_by |-> None, amount |-> None, maximum |-> None,
          unit |-> None, trade |-> None, price |-> None, status |-> None, transferable |-> None,
          domain |-> None, schema |-> 0, command |-> None]

Ops(ops) == {[Blank EXCEPT !.op = o] : o \in ops}

AssetIntents ==
    {[Blank EXCEPT !.op = "asset.mint", !.to = a]}
    \cup Ops({"asset.lock", "asset.unlock", "asset.list", "asset.delist", "asset.escrow",
              "asset.release", "asset.redeem", "asset.attach_content", "asset.detach_content",
              "asset.update_metadata", "asset.restore"})
    \cup {[Blank EXCEPT !.op = "asset.restrict", !.status = s, !.owner = o] :
             s \in {None, "legal_hold", "active"}, o \in {None, b}}
    \cup {[Blank EXCEPT !.op = "asset.burn", !.from = s] : s \in Subjects}
    \cup {[Blank EXCEPT !.op = o, !.from = s, !.to = d, !.party = s, !.consent = y, !.trade = t] :
             o \in {"asset.transfer", "trade.settle"}, s \in Subjects, d \in Subjects,
             y \in BOOLEAN, t \in {t1}}
    \cup {[Blank EXCEPT !.op = "trade.settle", !.from = a, !.to = b, !.trade = t1,
                        !.price = Malformed]}
    \cup {[Blank EXCEPT !.op = "trade.lock", !.from = s, !.party = b, !.consent = TRUE, !.trade = t] :
             s \in Subjects, t \in {t1, t2}}
    \cup {[Blank EXCEPT !.op = "trade.unlock", !.trade = t] : t \in {t1, t2}}
    \cup {[Blank EXCEPT !.op = "asset.hard_delete", !.party = s, !.consent = TRUE] : s \in Subjects}

AmountIntents(k) ==
    LET Op(suffix) == k \o suffix
        others == Operations(k) \ {Op(".create"), Op(".transfer")}
    IN {[Blank EXCEPT !.op = Op(".create"), !.actor = s, !.to = d, !.amount = n, !.unit = "u"] :
           s \in Subjects, d \in Subjects, n \in {0, 2}}
       \cup {[Blank EXCEPT !.op = o, !.amount = n, !.unit = "v", !.authorized_by = y] :
                o \in others, n \in {-1, 1}, y \in {None, b}}
       \cup {[Blank EXCEPT !.op = Op(".transfer"), !.actor = s, !.to = d, !.amount = n] :
                s \in Subjects, d \in Subjects, n \in {1, 2}}

EntitlementIntents ==
    {[Blank EXCEPT !.op = "entitlement.grant", !.actor = s, !.to = d, !.transferable = y] :
        s \in Subjects, d \in Subjects, y \in {TRUE, None, Malformed}}
    \cup {[Blank EXCEPT !.op = m.op, !.actor = s, !.to = d] :
             m \in EntitlementMoves, s \in Subjects, d \in Subjects}

MeterIntents ==
    {[Blank EXCEPT !.op = "meter.create", !.to = a, !.amount = n, !.maximum = m] :
        n \in 0 .. 2, m \in 0 .. 2}
    \cup {[Blank EXCEPT !.op = o, !.amount = n, !.maximum = m] :
             o \in {"meter.consume", "meter.refill", "meter.set_maximum", "meter.reset",
                    "meter.expire"}, n \in 1 .. 2, m \in 0 .. 2}

MarketIntents(birth, moves) ==
    {[Blank EXCEPT !.op = birth, !.to = a, !.from = b]}
    \cup {[Blank EXCEPT !.op = m.op, !.to = b] : m \in moves}

CustomIntents ==
    {[Blank EXCEPT !.op = o, !.domain = d, !.schema = v, !.command = n] :
        o \in {"inc", "dec"}, d \in {"counter", "other"}, v \in 1 .. 2, n \in {-1, 1, 2}}

(* Every operation of the profile without an input, and with inputs that   *)
(* no reader takes; and an operation that is another profile's.            *)
Incomplete(k) ==
    {[Blank EXCEPT !.op = o, !.from = v, !.to = v, !.amount = v, !.maximum = v, !.unit = v,
                   !.trade = v, !.party = v, !.status = v, !.owner = v] :
        o \in Operations(k) \cup {"meter.create", "asset.hard_delete"}, v \in {None, Malformed}}

MCIntents(k) ==
    CASE k \in {"asset", "paid"} -> AssetIntents \cup Incomplete(k)
      [] k \in {"stack", "balance"} -> AmountIntents(k) \cup Incomplete(k)
      [] k = "entitlement" -> EntitlementIntents \cup Incomplete(k)
      [] k = "meter" -> MeterIntents \cup Incomplete(k)
      [] k = "listing" -> MarketIntents("listing.create", ListingMoves) \cup Incomplete(k)
      [] k = "escrow" -> MarketIntents("escrow.lock", EscrowMoves) \cup Incomplete(k)
      [] k = "custom" -> CustomIntents

(* A counter between 0 and 3, with two schemas that share an operation.    *)
MCCustomProfiles == {[id |-> "counter", schema |-> 1, ops |-> {"inc"}],
                     [id |-> "counter", schema |-> 2, ops |-> {"inc", "dec"}]}
MCCommandOperation(n) == IF n > 0 THEN "inc" ELSE "dec"
MCReduce(payload, n) == (IF payload = None THEN 0 ELSE payload) + n
MCValidCommand(payload, n) == payload # None \/ n > 0
MCValidState(payload) == payload \in 0 .. 3

(* Amounts are exact: sums, differences and the order across scales are    *)
(* those of the numbers meant, whatever the scales; a subtraction fails    *)
(* exactly when it would go below zero or the operands cannot be aligned;  *)
(* taking back what was added gives the amount one had; amounts have the   *)
(* same canonical string exactly when they are equal, and the string of a  *)
(* whole amount parses back to it, while that of a fraction is refused.    *)
AmountsAreExact == kind \in {"stack", "balance", "meter"} => AllExact
=============================================================================
