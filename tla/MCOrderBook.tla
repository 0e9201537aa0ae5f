---------------------------- MODULE MCOrderBook ----------------------------
(***************************************************************************)
(* The order book on small instances, and the claims of the documentation  *)
(* about the book that the code does not meet.                             *)
(***************************************************************************)
EXTENDS OrderBook

CONSTANTS alice, bob, yes, no

MCOutcomeLists  == {<<yes, no>>, <<yes>>, <<yes, yes>>, <<yes, EmptyText>>}
MCPrices        == {1}
MCTwoPrices     == {1, 2}
MCAmounts       == {-1, 0, 1, 2}
MCSignedAmounts == {-1, 1, 2}

-----------------------------------------------------------------------------
(* Claims the code does not meet *)

\* docs/testing.md: an order matches while both orders are OPEN or
\* PARTIALLY_FILLED, so no live bid and live ask of a book meet.
NoCrossedBook ==
  \A i, j \in DOMAIN orders :
    i < j /\ orders[i].status \in Live /\ orders[j].status \in Live
      => ~Meet(orders[i], orders[j])

\* readme.md: the deadline of a market is the "timestamp for trading to close".
TradingClosesAtDeadline ==
  \A k \in DOMAIN trades :
    trades[k].timestamp < markets[trades[k].market].deadline

\* The open asks of a bid's book, at any price that parses.
OpenAsks(bid) ==
  {id \in DOMAIN orders :
    /\ orders[id].side = "SELL" /\ orders[id].status = "OPEN"
    /\ orders[id].price # InvalidPrice
    /\ orders[id].market = bid.market /\ orders[id].outcome = bid.outcome}

Supply(asks) == SumFunctionOnSet([id \in DOMAIN orders |-> Available(orders[id])], asks)

FillsOutOfTheBook ==
  Posted =>
    LET new == orders'[orderSeq]
    IN /\ new.side = "BUY" /\ new.price # InvalidPrice
       /\ \E ask \in OpenAsks(new) : Meet(orders[ask], new)
       /\ Supply(OpenAsks(new)) >= new.amount
       => new.status = "FILLED"

\* docs/testing.md and integration_test.go: a large buy order at the price of
\* the lowest asks is filled out of the asks of its book, those above its limit
\* included (100 at 100, out of 30 and 40 at 100 and 50 at 101).
LargeOrdersFill == [][FillsOutOfTheBook]_vars
=============================================================================
