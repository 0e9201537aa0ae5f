----------------------------- MODULE OrderBook -----------------------------
(***************************************************************************)
(* The order book of x/prediction: MsgPostOrder with its matching loop,    *)
(* MsgCancelOrder and MsgFillOrder.                                        *)
(*                                                                         *)
(* Posting an order is a loop over store reads and writes, and a panic in  *)
(* the loop rolls all of them back.  The loop is kept: PostOrder opens a   *)
(* transaction, each MatchStep is one iteration on the transaction's       *)
(* branch of the store, CommitPost writes the branch back and AbortPost    *)
(* drops it.  The chain runs one message at a time, so every other action  *)
(* waits for the transaction to end.                                       *)
(***************************************************************************)
EXTENDS Orders, Functions

CONSTANTS
  OutcomeIndexes,  \* the outcome indexes that MsgPostOrder messages carry
  MaxOrders,       \* bound on the number of orders
  NoTx             \* no transaction is running

ASSUME OrderBookAssumption == OutcomeIndexes \subseteq Nat /\ MaxOrders \in Nat

VARIABLES
  orders,    \* Keeper.Orders: the stored orders by id
  orderSeq,  \* Keeper.OrderIDSeq: the next order id
  trades,    \* history: the trades of committed messages, in order
  tx         \* the PostOrder being executed, or NoTx

bookVars == <<orders, orderSeq, trades>>
vars     == <<clockVars, marketVars, bookVars, tx>>

\* The locals of PostOrder and MatchOrder: the new order and its id, the ids
\* of the candidates not yet visited, the amount still to match, the trades
\* made, and the transaction's branch of Keeper.Orders.
Transaction ==
  [id : {orderSeq}, order : Order, cands : SUBSET (0 .. orderSeq - 1),
   remaining : Int, trades : Seq(Trade), branch : [0 .. orderSeq -> Order]]

-----------------------------------------------------------------------------
OrderBookInit ==
  /\ MarketsInit
  /\ orders = EmptyStore
  /\ orderSeq = 0
  /\ trades = <<>>
  /\ tx = NoTx

NewMarket(creator, question, outcomes, group, deadline) ==
  /\ tx = NoTx
  /\ CreateMarket(creator, question, outcomes, group, deadline)
  /\ UNCHANGED <<clockVars, bookVars, tx>>

BeginBlock ==
  /\ tx = NoTx
  /\ NextBlock
  /\ UNCHANGED <<marketVars, bookVars, tx>>

PostOrder(creator, market, outcome, side, price, amount, denom) ==
  /\ tx = NoTx
  /\ orderSeq < MaxOrders
  /\ market \in DOMAIN markets
  /\ outcome < Len(markets[market].outcomes)
  /\ amount # 0
  /\ LET new == [market |-> market, creator |-> creator, side |-> side,
                 outcome |-> outcome, price |-> price, amount |-> amount,
                 denom |-> denom, filled |-> 0, status |-> "OPEN", createdAt |-> now]
         branch == Put(orders, orderSeq, new)
     IN tx' = [id |-> orderSeq, order |-> new, cands |-> Candidates(branch, new),
               remaining |-> amount, trades |-> <<>>, branch |-> branch]
  /\ UNCHANGED <<clockVars, marketVars, bookVars>>

VisitsInAnyOrder(c) == tx # NoTx /\ tx.remaining # 0 /\ c \in tx.cands

\* The loop goes on: there is an amount left, and c is the next candidate.
Visits(c) ==
  /\ tx # NoTx
  /\ tx.remaining # 0
  /\ c \in tx.cands
  /\ \A d \in tx.cands \ {c} : Precedes(tx.branch, tx.order, c, d)

FillOf(c) == MinInt(tx.remaining, Available(tx.branch[c]))

\* AppendTrade takes the block height for the trade's id.
MatchTrade(c) ==
  LET maker == tx.branch[c]
  IN [id |-> height, market |-> tx.order.market, outcome |-> tx.order.outcome,
      buyer |-> Buyer(tx.order, maker), seller |-> Seller(tx.order, maker),
      price |-> maker.price, amount |-> FillOf(c), denom |-> tx.order.denom,
      timestamp |-> now, fills |-> {c, tx.id}]

\* One iteration of the matching loop.  The candidate is read again, and left
\* out when it is no longer open or nothing of it is available.
MatchStep(c) ==
  /\ Visits(c)
  /\ IF tx.branch[c].status # "OPEN" \/ FillOf(c) = 0
     THEN tx' = [tx EXCEPT !.cands = @ \ {c}]
     ELSE /\ FillOf(c) > 0
          /\ tx' = [tx EXCEPT !.cands     = @ \ {c},
                              !.branch    = Put(@, c, Fill(@[c], FillOf(c))),
                              !.order     = Fill(@, FillOf(c)),
                              !.remaining = @ - FillOf(c),
                              !.trades    = Append(@, MatchTrade(c))]
  /\ UNCHANGED <<clockVars, marketVars, bookVars>>

\* sdk.NewCoin panics on a negative fill: the transaction is rolled back.
AbortPost(c) ==
  /\ Visits(c)
  /\ tx.branch[c].status = "OPEN" /\ FillOf(c) < 0
  /\ tx' = NoTx
  /\ UNCHANGED <<clockVars, marketVars, bookVars>>

LoopEndsWhenFilled == tx.remaining = 0
LoopEnds == tx.remaining = 0 \/ tx.cands = {}

CommitPost ==
  /\ tx # NoTx
  /\ LoopEnds
  /\ orders' = Put(tx.branch, tx.id, tx.order)
  /\ orderSeq' = NextSeq(orderSeq)
  /\ trades' = trades \o tx.trades
  /\ tx' = NoTx
  /\ UNCHANGED <<clockVars, marketVars>>

CancellableUnlessCancelled(order) == order.status # "CANCELLED"
Cancellable(order) == order.status \notin {"FILLED", "CANCELLED"}

CancelOrder(creator, id) ==
  /\ tx = NoTx
  /\ id \in DOMAIN orders
  /\ orders[id].creator = creator
  /\ Cancellable(orders[id])
  /\ orders' = [orders EXCEPT ![id].status = "CANCELLED"]
  /\ UNCHANGED <<clockVars, marketVars, orderSeq, trades, tx>>

\* Coin.Sub panics when the order's remaining amount is negative, NewCoin when
\* the fill is.  The seller is always the order's creator.
FillOrder(filler, id, amount, denom) ==
  /\ tx = NoTx
  /\ id \in DOMAIN orders
  /\ orders[id].status \in {"OPEN", "PARTIALLY_FILLED"}
  /\ amount # 0
  /\ Available(orders[id]) >= 0
  /\ amount <= Available(orders[id])
  /\ amount > 0
  /\ orders' = [orders EXCEPT ![id] = Fill(@, amount)]
  /\ trades' = Append(trades,
                 [id |-> height, market |-> orders[id].market,
                  outcome |-> orders[id].outcome,
                  buyer |-> filler, seller |-> orders[id].creator,
                  price |-> orders[id].price, amount |-> amount, denom |-> denom,
                  timestamp |-> now, fills |-> {id}])
  /\ UNCHANGED <<clockVars, marketVars, orderSeq, tx>>

-----------------------------------------------------------------------------
CreateSome ==
  \E u \in Users, q \in Questions \cup {EmptyText}, o \in OutcomeLists, g \in Groups, d \in Deadlines :
    NewMarket(u, q, o, g, d)

PostSome ==
  \E u \in Users, m \in 0 .. marketSeq, oc \in OutcomeIndexes, s \in Sides,
     p \in PriceTexts, a \in Amounts, dn \in Denoms :
    PostOrder(u, m, oc, s, p, a, dn)

Matching == tx # NoTx /\ \E c \in tx.cands : MatchStep(c) \/ AbortPost(c)

CancelSome == \E u \in Users, id \in 0 .. orderSeq : CancelOrder(u, id)

FillSome ==
  \E u \in Users, id \in 0 .. orderSeq, a \in Amounts, dn \in Denoms :
    FillOrder(u, id, a, dn)

Next ==
  \/ CreateSome
  \/ BeginBlock
  \/ PostSome
  \/ Matching
  \/ CommitPost
  \/ CancelSome
  \/ FillSome

Spec == OrderBookInit /\ [][Next]_vars

\* A handler that has started is executed to its end by the node; nothing is
\* assumed about which messages arrive.
FairSpec == Spec /\ WF_vars(Matching \/ CommitPost)
-----------------------------------------------------------------------------
(* Correctness.  The properties are stated over prices and ids directly,    *)
(* not through the helpers that the handlers use.                           *)

\* The stored books are well typed, orders and markets have the ids below
\* their sequences, and a running transaction is a branch of the store.
TypeOK ==
  /\ MarketsTypeOK
  /\ orderSeq \in Nat
  /\ orders \in [0 .. orderSeq - 1 -> Order]
  /\ trades \in Seq(Trade)
  /\ tx # NoTx => tx \in Transaction

StatusAgrees(order) ==
  /\ order.status = "OPEN" => order.filled = 0
  /\ order.status = "PARTIALLY_FILLED" => 0 < order.filled /\ order.filled < order.amount
  /\ order.status = "FILLED" => 0 < order.filled /\ order.filled = order.amount
  /\ order.status = "CANCELLED" =>
       order.filled = 0 \/ (0 < order.filled /\ order.filled < order.amount)

\* No order is ever overfilled, and its status says how much of it is filled:
\* what MatchOrder and FillOrder keep true although the amounts that messages
\* carry may be negative.
FillStatus == \A id \in DOMAIN orders : StatusAgrees(orders[id])

Live == {"OPEN", "PARTIALLY_FILLED"}

\* Two orders that could trade: a bid and an ask of one book whose prices meet.
Meet(a, b) ==
  /\ a.market = b.market /\ a.outcome = b.outcome
  /\ \/ a.side = "BUY" /\ b.side = "SELL" /\ ParsePrice(a.price) >= ParsePrice(b.price)
     \/ a.side = "SELL" /\ b.side = "BUY" /\ ParsePrice(a.price) <= ParsePrice(b.price)

\* PostOrder matches exhaustively: an order still open was never passed over by
\* a later order that is still live, so no open bid and open ask meet.
NoMissedMatch ==
  \A i, j \in DOMAIN orders :
    i < j /\ orders[i].status = "OPEN" /\ orders[j].status \in Live
      => ~Meet(orders[i], orders[j])

SameTerms(a, b) ==
  /\ a.market = b.market /\ a.creator = b.creator /\ a.side = b.side
  /\ a.outcome = b.outcome /\ a.price = b.price /\ a.amount = b.amount
  /\ a.denom = b.denom /\ a.createdAt = b.createdAt

\* What may become of an order: b is a later state of order a.
Advances(a, b) ==
  /\ SameTerms(a, b)
  /\ b.filled >= a.filled
  /\ a.status \in {"FILLED", "CANCELLED"} => b = a
  /\ b.status = "OPEN" => b = a

OrdersAdvance ==
  \A id \in DOMAIN orders :
    id \in DOMAIN orders' /\ Advances(orders[id], orders'[id])

\* Orders are never deleted, their terms never change, their fill only grows,
\* a filled or cancelled order is never touched again, and none reopens.
OrderLifecycle == [][OrdersAdvance]_vars

\* The committed step of a PostOrder stored the new order under orderSeq.
Posted == orderSeq' # orderSeq

\* i comes before j in price-time priority: the lower ask or the higher bid,
\* and at one price the earlier order.
Ranks(i, j) ==
  LET Rank(id) == IF orders[id].side = "SELL" THEN ParsePrice(orders[id].price)
                                              ELSE -ParsePrice(orders[id].price)
  IN Rank(i) < Rank(j) \/ (Rank(i) = Rank(j) /\ i < j)

FillsByPriority ==
  Posted =>
    \A i, j \in DOMAIN orders :
      /\ orders'[j].filled # orders[j].filled
      /\ orders[i].status = "OPEN" /\ Meet(orders[i], orders'[orderSeq])
      /\ Ranks(i, j)
      => orders'[i].status = "FILLED"

\* Price-time priority: when a new order fills a resting order, every open
\* order it could have traded with at a better price, or earlier at the same
\* price, is filled completely.
PriceTimePriority == [][FillsByPriority]_vars

TouchesOnlyMatches ==
  Posted =>
    \A id \in DOMAIN orders :
      orders'[id] # orders[id] =>
        orders[id].status = "OPEN" /\ Meet(orders[id], orders'[orderSeq])

\* Posting an order touches no order of another market or outcome, none of its
\* own side, none that is not open, and none its limit, as
\* parsePrice reads it, does not reach.
BookIsolation == [][TouchesOnlyMatches]_vars

\* The matching loop's invariant.  Of the stored orders, those the new order
\* meets are the candidates left, untouched, and the ones visited, which are
\* used up, all but the last one once nothing remains to match; and whatever
\* ranks before a visited order is used up.
LoopInvariant ==
  tx # NoTx =>
    /\ tx.order.amount # 0 /\ tx.order.createdAt = now
    /\ tx.remaining = tx.order.amount - tx.order.filled
    /\ tx.order.status # "CANCELLED" /\ StatusAgrees(tx.order)
    /\ \A i \in 0 .. orderSeq - 1 :
         /\ StatusAgrees(tx.branch[i]) /\ Advances(orders[i], tx.branch[i])
         /\ i \in tx.cands <=> tx.branch[i].status = "OPEN" /\ Meet(orders[i], tx.order)
         /\ tx.branch[i] # orders[i] =>
              /\ orders[i].status = "OPEN" /\ Meet(orders[i], tx.order)
              /\ tx.branch[i].status = "FILLED" \/ tx.remaining = 0
              /\ \A j \in 0 .. orderSeq - 1 :
                   orders[j].status = "OPEN" /\ Meet(orders[j], tx.order) /\ Ranks(j, i)
                     => tx.branch[j].status = "FILLED"

\* The amount of the trades that name order id.
Traded(ts, id) ==
  SumFunctionOnSet([k \in DOMAIN ts |-> ts[k].amount], {k \in DOMAIN ts : id \in ts[k].fills})

\* Conservation: what is filled of an order is the sum of the trades that name
\* it.  MatchOrder updates both orders and the trade list in separate steps.
FilledIsTraded == \A id \in DOMAIN orders : orders[id].filled = Traded(trades, id)

\* Trade t is between the orders a and b as buyer and seller of one book, at the
\* price of a, which is within both orders' limits.
Honours(t, a, b) ==
  LET bid == IF a.side = "BUY" THEN a ELSE b
      ask == IF a.side = "BUY" THEN b ELSE a
  IN /\ Meet(bid, ask)
     /\ t.market = bid.market /\ t.outcome = bid.outcome
     /\ t.buyer = bid.creator /\ t.seller = ask.creator
     /\ t.price = a.price
     /\ t.amount > 0

\* A trade between two orders honours both limits as MatchOrder reads them (a
\* price that does not parse is zero), and takes the price of the earlier.  That
\* such a price is accepted at all is not what docs/testing.md says, nor that a
\* bid takes nothing above its limit: see LargeOrdersFill in MCOrderBook.
TradesHonourLimits ==
  \A k \in DOMAIN trades :
    \A i, j \in trades[k].fills : i < j => Honours(trades[k], orders[i], orders[j])

\* A matching loop that has started ends, with the order stored or with the
\* transaction rolled back.
PostTerminates == tx # NoTx ~> tx = NoTx

\* PostOrder with its matching loop, its rollback and its commit looks from
\* outside like one atomic step that allocates the order in price-time priority.
Ideal == INSTANCE Exchange
AtomicExchange == Ideal!Spec
=============================================================================
