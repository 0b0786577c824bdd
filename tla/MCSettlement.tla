---------------------------- MODULE MCSettlement ----------------------------
(* Two assets and a currency in tenant 1, an asset and a currency in       *)
(* tenant 2; the seller s and the buyer b.                                 *)
EXTENDS Settlement

MCTenantOf == [r \in Assets \cup Currencies |-> IF r \in {"z", "silver"} THEN 2 ELSE 1]

MCOpening ==
    [k \in Keys |->
        IF k[1] \in Assets
        THEN [owner |-> IF k[1] = "z" THEN "b" ELSE "s", status |-> "active", trade |-> None]
        ELSE IF k[2] = "s" THEN NoState
        ELSE [subject |-> "b", amount |-> IF k[1] = "gold" THEN 2 ELSE 1, unit |-> k[1]]]

Base(op, id, resource) ==
    [op |-> op, id |-> id, resource |-> resource, actor |-> "b", from |-> None, to |-> None,
     trade |-> None, amount |-> 0, price |-> None, bundle |-> None, status |-> None]

Settle(id, asset, trade, price, bundle) ==
    [Base("trade.settle", id, asset) EXCEPT
        !.from = IF asset = "z" THEN "b" ELSE "s", !.to = IF asset = "z" THEN "s" ELSE "b",
        !.trade = trade, !.price = price, !.bundle = bundle]

Transfer(id, resource, from, to, amount) ==
    [Base("balance.transfer", id, resource) EXCEPT
        !.actor = from, !.to = to, !.amount = amount]

Gold1 == ValueLeg("gold", 1, "s")
Gold2 == ValueLeg("gold", 2, "s")
Silver == ValueLeg("silver", 1, "s")

Pool ==
    {Settle("i1", "x", "T1", price, bundle) : price \in {None, Gold1, Silver}, bundle \in {None, 2}}
    \cup {Settle("i2", "y", "T1", None, bundle) : bundle \in {None, 1, 2}}
    \cup {Settle("i2", "y", "T1", Gold1, 2), Settle("i2", "y", "T2", None, 2),
          Settle("i2", "y", "T2", Gold2, None), Settle("i3", "z", "T1", None, None)}
    \cup {Transfer("v1", "gold", "b", "s", 1), Transfer("v2", "gold", "b", "s", 2),
          Transfer("v1", "silver", "b", "s", 1), Transfer("i1", "silver", "b", "s", 1),
          Transfer("i3", "gold", "s", "b", 1)}

Sets == {set \in {{i, j, k} : i, j, k \in Pool} :
            /\ \E i \in set : IsSettle(i)
            /\ \A i, j \in set : i # j => <<MCTenantOf[i.resource], i.id>>
                                          # <<MCTenantOf[j.resource], j.id>>}
CrossSets == {set \in Sets : Cardinality({MCTenantOf[i.resource] : i \in set}) = 2}

Manifest(set, values) ==
    [settles |-> {<<i.resource, i.id>> : i \in {j \in set : IsSettle(j)}}, values |-> values]

MCCalls ==
    {[route |-> "settle", intents |-> set, manifest |-> None] : set \in Sets \ CrossSets}
    \cup {[route |-> "cross", intents |-> set, manifest |-> None] : set \in CrossSets}
    \cup {[route |-> "trade", intents |-> set, manifest |-> Manifest(set, values)] :
              set \in CrossSets, values \in {<<>>, <<Gold1>>, <<Silver>>, <<Gold1, Silver>>}}

MCSingles ==
    {[Base("trade.lock", "o", a) EXCEPT !.from = IF a = "z" THEN "b" ELSE "s", !.trade = t] :
        a \in Assets, t \in {"T1", "T2"}}
    \cup {[Base("trade.unlock", "o", a) EXCEPT !.trade = "T2"] : a \in Assets}
    \cup {[Base("asset.transfer", "o", "x") EXCEPT !.from = "b", !.to = "s"],
          Transfer("o", "gold", "s", "b", 1)}
=============================================================================
