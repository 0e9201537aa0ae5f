------------------------------- MODULE Orders -------------------------------
(***************************************************************************)
(* The orders of x/prediction and the pure functions of the matching       *)
(* engine: which orders cross, in which order they are visited, and what a *)
(* fill does to an order.  Prices are decimal strings in the code; here a  *)
(* price text is the integer it parses to, or one that does not parse.     *)
(***************************************************************************)
EXTENDS Markets

CONSTANTS
  Prices,        \* price texts that LegacyNewDecFromStr parses, as integers
  InvalidPrice,  \* a non-empty price text that it does not parse
  Amounts,       \* the amounts that messages carry: the code takes any integer
  Denoms         \* coin denominations

ASSUME OrdersAssumption ==
  /\ Prices \subseteq Int
  /\ InvalidPrice \notin Int
  /\ Amounts \subseteq Int

Sides      == {"BUY", "SELL"}
Statuses   == {"OPEN", "PARTIALLY_FILLED", "FILLED", "CANCELLED"}
PriceTexts == Prices \cup {InvalidPrice}

Order ==
  [market : Nat, creator : Users, side : Sides, outcome : Nat, price : PriceTexts,
   amount : Int, denom : Denoms, filled : Int, status : Statuses, createdAt : Nat]

\* A trade as the handlers return it, with the ids of the orders it fills,
\* which the code does not record.
Trade ==
  [id : Nat, market : Nat, outcome : Nat, buyer : Users, seller : Users,
   price : PriceTexts, amount : Int, denom : Denoms, timestamp : Nat,
   fills : SUBSET Nat]

-----------------------------------------------------------------------------
MinInt(a, b) == IF a <= b THEN a ELSE b

\* A price that does not parse counts as zero.
ParsePrice(text) == IF text = InvalidPrice THEN 0 ELSE text

\* Variants named after what they get wrong are the slips that the
\* checks must detect; the specification never uses them.
SameBookAnyOutcome(a, b) == a.market = b.market
SameBook(a, b) == a.market = b.market /\ a.outcome = b.outcome

CrossesStrictly(new, resting) ==
  IF new.side = "BUY" THEN ParsePrice(resting.price) < ParsePrice(new.price)
                      ELSE ParsePrice(resting.price) > ParsePrice(new.price)

\* The resting order's price is at least as good as the new order asks.
Crosses(new, resting) ==
  IF new.side = "BUY" THEN ParsePrice(resting.price) <= ParsePrice(new.price)
                      ELSE ParsePrice(resting.price) >= ParsePrice(new.price)

LowestPriceFirst(new, a, b) == ParsePrice(a.price) < ParsePrice(b.price)

\* Lowest ask first for a buyer, highest bid first for a seller.
BetterPrice(new, a, b) ==
  IF new.side = "BUY" THEN ParsePrice(a.price) < ParsePrice(b.price)
                      ELSE ParsePrice(a.price) > ParsePrice(b.price)

Candidates(store, new) ==
  {id \in DOMAIN store : /\ SameBook(store[id], new)
                         /\ store[id].status = "OPEN"
                         /\ store[id].side # new.side
                         /\ Crosses(new, store[id])}

\* The order of the sorted candidates: by price, then by creation time; the
\* sort is stable over a scan by id.
Precedes(store, new, i, j) ==
  \/ BetterPrice(new, store[i], store[j])
  \/ /\ ParsePrice(store[i].price) = ParsePrice(store[j].price)
     /\ \/ store[i].createdAt < store[j].createdAt
        \/ store[i].createdAt = store[j].createdAt /\ i < j

Available(order) == order.amount - order.filled

FillNeverCloses(order, amount) ==
  [order EXCEPT !.filled = @ + amount, !.status = "PARTIALLY_FILLED"]

FillOverwrites(order, amount) ==
  [order EXCEPT !.filled = amount,
                !.status = IF amount = order.amount THEN "FILLED" ELSE "PARTIALLY_FILLED"]

\* An order with `amount` more filled.
Fill(order, amount) ==
  [order EXCEPT
     !.filled = @ + amount,
     !.status = IF order.filled + amount = order.amount
                THEN "FILLED" ELSE "PARTIALLY_FILLED"]

BuyerIsTaker(new, resting) == new.creator
Buyer(new, resting)  == IF new.side = "BUY"  THEN new.creator ELSE resting.creator
Seller(new, resting) == IF new.side = "SELL" THEN new.creator ELSE resting.creator
=============================================================================
