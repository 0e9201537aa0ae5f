------------------------------ MODULE Exchange ------------------------------
(***************************************************************************)
(* What the order book promises its users, without the loop that does it:  *)
(* a posted order is allocated to the open orders it crosses in price-time *)
(* priority, all in one step, or it is rejected and nothing happens.       *)
(* OrderBook implements this specification.                                *)
(***************************************************************************)
EXTENDS Orders, FiniteSets, Functions

CONSTANTS OutcomeIndexes, MaxOrders

VARIABLES orders, orderSeq, trades

bookVars == <<orders, orderSeq, trades>>
vars     == <<clockVars, marketVars, bookVars>>

Init ==
  /\ MarketsInit
  /\ orders = EmptyStore
  /\ orderSeq = 0
  /\ trades = <<>>

\* What an order has to give when its turn comes.
Offered(c) == IF orders[c].amount > 0 THEN orders[c].amount ELSE 0

\* The amount asked for that is left when it is the turn of candidate c of the
\* new order: every candidate ahead of c gives all it has.
LeftFor(c, new) ==
  LET ahead == {d \in Candidates(orders, new) : Precedes(orders, new, d, c)}
      left  == new.amount - SumFunctionOnSet([d \in ahead |-> Offered(d)], ahead)
  IN IF left > 0 THEN left ELSE 0

Share(c, new) ==
  IF c \in Candidates(orders, new) /\ LeftFor(c, new) > 0
  THEN MinInt(orders[c].amount, LeftFor(c, new)) ELSE 0

\* No candidate whose turn comes has a negative amount, and neither has an
\* order that finds a candidate.
Clears(new) ==
  \A c \in Candidates(orders, new) : new.amount > 0 /\ Share(c, new) >= 0

\* The orders that the new order trades with, and the place of one of them in
\* the queue: the number of makers ahead of it.
Makers(new)   == {c \in DOMAIN orders : Share(c, new) > 0}
Place(c, new) == Cardinality({d \in Makers(new) : Precedes(orders, new, d, c)})

Execution(c, new) ==
  [id |-> height, market |-> new.market, outcome |-> new.outcome,
   buyer |-> Buyer(new, orders[c]), seller |-> Seller(new, orders[c]),
   price |-> orders[c].price, amount |-> Share(c, new),
   denom |-> new.denom, timestamp |-> now, fills |-> {c, orderSeq}]

\* The trades of the new order with the makers it reaches, best maker first.
Executions(new) ==
  [k \in 1 .. Cardinality(Makers(new)) |->
     Execution(CHOOSE c \in Makers(new) : Place(c, new) = k - 1, new)]

FillIf(order, amount) == IF amount = 0 THEN order ELSE Fill(order, amount)

Post(new) ==
  /\ orderSeq < MaxOrders
  /\ new.market \in DOMAIN markets
  /\ new.outcome < Len(markets[new.market].outcomes)
  /\ new.amount # 0
  /\ Clears(new)
  /\ orders' =
       LET got == SumFunctionOnSet([c \in Makers(new) |-> Share(c, new)], Makers(new))
       IN [id \in 0 .. orderSeq |->
             IF id = orderSeq THEN FillIf(new, got) ELSE FillIf(orders[id], Share(id, new))]
  /\ orderSeq' = orderSeq + 1
  /\ trades' = trades \o Executions(new)
  /\ UNCHANGED <<clockVars, marketVars>>

\* The owner withdraws an order that is not used up.
Withdraw(id) ==
  /\ orders[id].status \in {"OPEN", "PARTIALLY_FILLED"}
  /\ orders' = [orders EXCEPT ![id].status = "CANCELLED"]
  /\ UNCHANGED <<clockVars, marketVars, orderSeq, trades>>

\* Anyone takes part of what is left of a live order, at its price.
Take(filler, id, amount, denom) ==
  /\ orders[id].status \in {"OPEN", "PARTIALLY_FILLED"}
  /\ amount \in 1 .. Available(orders[id])
  /\ orders' = [orders EXCEPT ![id] = Fill(@, amount)]
  /\ trades' = Append(trades,
                 [id |-> height, market |-> orders[id].market,
                  outcome |-> orders[id].outcome, buyer |-> filler,
                  seller |-> orders[id].creator, price |-> orders[id].price,
                  amount |-> amount, denom |-> denom, timestamp |-> now, fills |-> {id}])
  /\ UNCHANGED <<clockVars, marketVars, orderSeq>>

OpenMarket ==
  /\ \E u \in Users, q \in Questions, o \in OutcomeLists, g \in Groups, d \in Deadlines :
       CreateMarket(u, q, o, g, d)
  /\ UNCHANGED <<clockVars, bookVars>>

Tick == NextBlock /\ UNCHANGED <<marketVars, bookVars>>

PostSome ==
  \E u \in Users, m \in DOMAIN markets, oc \in OutcomeIndexes, s \in Sides,
     p \in PriceTexts, a \in Amounts, dn \in Denoms :
    Post([market |-> m, creator |-> u, side |-> s, outcome |-> oc, price |-> p,
          amount |-> a, denom |-> dn, filled |-> 0, status |-> "OPEN",
          createdAt |-> now])

WithdrawSome == \E id \in DOMAIN orders : Withdraw(id)

TakeSome ==
  \E u \in Users, id \in DOMAIN orders, a \in Amounts, dn \in Denoms : Take(u, id, a, dn)

Trading == PostSome \/ WithdrawSome \/ TakeSome

Next == OpenMarket \/ Tick \/ Trading

Spec == Init /\ [][Next]_vars
=============================================================================
