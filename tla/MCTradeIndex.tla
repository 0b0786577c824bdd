---------------------------- MODULE MCTradeIndex ----------------------------
(* An instance of TradeIndex: a tenant with two assets of two owners, of    *)
(* which the second may be offered for two trades, and a tenant with one.   *)
EXTENDS TradeIndex

MCTenants == {1, 2}
MCAssetsOf == [t \in MCTenants |-> IF t = 1 THEN {1, 2} ELSE {3}]
MCFirstOwners == {[a \in 1..3 |-> IF a = 2 THEN 2 ELSE 1]}
MCOffers == [a \in 1..3 |-> IF a = 2 THEN {1, 2} ELSE {1}]
=============================================================================
