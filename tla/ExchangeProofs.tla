--------------------------- MODULE ExchangeProofs ---------------------------
(***************************************************************************)
(* What a posted order is given: the trades of an order add up to what is  *)
(* filled of it and break no limit, and the loop that a post runs, with    *)
(* its rollback and its commit, allocates the order as Exchange does in    *)
(* one step, for every set of users, prices and amounts and every number   *)
(* of orders.                                                              *)
(***************************************************************************)
EXTENDS OrderBookProofs, SumTheorems

(***************************************************************************)
(* Trades                                                                  *)
(***************************************************************************)

\* The orders that have the terms of the parties honour a trade as well.
LEMMA HonoursTerms ==
  ASSUME NEW t, NEW a, NEW b, NEW c, NEW d, SameTerms(a, c), SameTerms(b, d),
         Honours(t, a, b)
  PROVE  Honours(t, c, d)
BY DEF Honours, Meet, SameTerms

\* One more trade adds its amount to the orders it names.
LEMMA TradedAppend ==
  ASSUME NEW ts \in Seq(Trade), NEW t \in Trade, NEW id
  PROVE  /\ Traded(ts, id) \in Int
         /\ Traded(Append(ts, t), id)
              = Traded(ts, id) + (IF id \in t.fills THEN t.amount ELSE 0)
<1> DEFINE us  == Append(ts, t)
           n   == Len(ts)
           f   == [k \in DOMAIN ts |-> ts[k].amount]
           g   == [k \in DOMAIN us |-> us[k].amount]
           old == {k \in DOMAIN ts : id \in ts[k].fills}
           new == {k \in DOMAIN us : id \in us[k].fills}
<1>1. /\ n \in Nat /\ DOMAIN ts = 1 .. n /\ us \in Seq(Trade)
      /\ DOMAIN us = 1 .. n + 1 /\ us[n + 1] = t
      /\ \A k \in 1 .. n : us[k] = ts[k]
  OBVIOUS
<1>2. \A k \in 1 .. n : ts[k].amount \in Int
  <2> TAKE k \in 1 .. n
  <2>1. ts[k] \in Trade
    OBVIOUS
  <2> HIDE DEF n
  <2> QED BY <2>1 DEF Trade
<1>3. IsFiniteSet(old) /\ IsFiniteSet(new)
  <2>1. IsFiniteSet(1 .. n) /\ IsFiniteSet(1 .. n + 1)
    BY <1>1, FS_Interval
  <2>2. old \subseteq 1 .. n /\ new \subseteq 1 .. n + 1
    BY <1>1
  <2> HIDE DEF old, new
  <2> QED BY <2>1, <2>2, FS_Subset
<1>4. \A k \in old : k \in 1 .. n /\ f[k] = ts[k].amount /\ g[k] = f[k] /\ f[k] \in Int
  <2> TAKE k \in old
  <2>1. k \in 1 .. n /\ k \in 1 .. n + 1
    BY <1>1
  <2> QED BY <1>1, <1>2, <2>1
<1>5. g[n + 1] = t.amount /\ t.amount \in Int
  <2>1. n + 1 \in 1 .. n + 1
    BY <1>1
  <2>2. t.amount \in Int
    BY DEF Trade
  <2> QED BY <1>1, <2>1, <2>2
<1>6. new = IF id \in t.fills THEN old \cup {n + 1} ELSE old
  <2>1. \A k : k \in new <=> k \in old \/ (k = n + 1 /\ id \in t.fills)
    <3> TAKE k
    <3>1. k \in 1 .. n + 1 <=> k \in 1 .. n \/ k = n + 1
      BY <1>1
    <3>2. k \in 1 .. n => k # n + 1
      BY <1>1
    <3> QED BY <1>1, <3>1, <3>2
  <2> HIDE DEF new, old
  <2> QED BY <2>1
<1>7. n + 1 \notin old
  BY <1>1
<1>8. Traded(ts, id) = SumFunctionOnSet(f, old) /\ Traded(us, id) = SumFunctionOnSet(g, new)
  BY DEF Traded
<1> HIDE DEF f, g, old, new, us, n
<1>9. SumFunctionOnSet(f, old) \in Int /\ SumFunctionOnSet(g, old) = SumFunctionOnSet(f, old)
  BY <1>3, <1>4, SumIsInt, SumSame
<1>10. ASSUME id \in t.fills PROVE Traded(us, id) = Traded(ts, id) + t.amount
  <2>1. new = old \cup {n + 1} /\ \A k \in new : g[k] \in Int
    BY <1>4, <1>5, <1>6, <1>10
  <2>2. SumFunctionOnSet(g, new) = g[n + 1] + SumFunctionOnSet(g, new \ {n + 1})
    BY <1>3, <2>1, SumRemove
  <2>3. new \ {n + 1} = old
    BY <1>7, <2>1
  <2>4. SumFunctionOnSet(g, new) = t.amount + SumFunctionOnSet(f, old)
    BY <1>5, <1>9, <2>2, <2>3
  <2>5. Traded(us, id) = t.amount + Traded(ts, id) /\ Traded(ts, id) \in Int
    BY <1>8, <1>9, <2>4
  <2> QED BY <1>5, <2>5
<1>11. ASSUME id \notin t.fills PROVE Traded(us, id) = Traded(ts, id) + 0
  BY <1>6, <1>8, <1>9, <1>11
<1> QED BY <1>8, <1>9, <1>10, <1>11 DEF us

(***************************************************************************)
(* The invariant.  In a running loop the trades are those of the store and *)
(* those of the transaction, and the orders those of its branch.           *)
(***************************************************************************)

StoredTrades ==
  /\ \A k \in DOMAIN trades : trades[k].fills \subseteq 0 .. orderSeq - 1
  /\ FilledIsTraded
  /\ TradesHonourLimits

LoopTrades ==
  tx # NoTx =>
    /\ \A i \in 0 .. orderSeq - 1 : tx.branch[i].filled = Traded(trades \o tx.trades, i)
    /\ tx.order.filled = Traded(trades \o tx.trades, orderSeq)
    /\ \A k \in DOMAIN tx.trades :
         \E i \in 0 .. orderSeq - 1 :
           /\ tx.trades[k].fills = {i, orderSeq}
           /\ Honours(tx.trades[k], orders[i], tx.order)

TradesInv == StoredTrades /\ LoopTrades

LEMMA UntradedOrder ==
  ASSUME NEW ts, NEW id, \A k \in DOMAIN ts : id \notin ts[k].fills
  PROVE  Traded(ts, id) = 0
<1>1. {k \in DOMAIN ts : id \in ts[k].fills} = {}
  OBVIOUS
<1> QED BY <1>1, SumEmpty DEF Traded

\* A step that leaves the orders' fills and terms and the trades alone.
LEMMA StoredTradesKept ==
  ASSUME StoredTrades, UNCHANGED <<orderSeq, trades>>, DOMAIN orders' = DOMAIN orders,
         DOMAIN orders = 0 .. orderSeq - 1,
         \A i \in DOMAIN orders :
           SameTerms(orders[i], orders'[i]) /\ orders'[i].filled = orders[i].filled
  PROVE  StoredTrades'
<1>1. FilledIsTraded'
  BY DEF StoredTrades, FilledIsTraded
<1>2. TradesHonourLimits'
  <2> SUFFICES ASSUME NEW k \in DOMAIN trades, NEW i \in trades[k].fills,
                      NEW j \in trades[k].fills, i < j
               PROVE  Honours(trades[k], orders'[i], orders'[j])
    BY DEF TradesHonourLimits
  <2>1. i \in DOMAIN orders /\ j \in DOMAIN orders
    BY DEF StoredTrades
  <2>2. Honours(trades[k], orders[i], orders[j])
    BY DEF StoredTrades, TradesHonourLimits
  <2> QED BY <2>1, <2>2, HonoursTerms
<1> QED BY <1>1, <1>2 DEF StoredTrades

LEMMA PostTrades ==
  ASSUME IInv, TradesInv,
         NEW u \in Users, NEW m \in 0 .. marketSeq, NEW oc \in OutcomeIndexes,
         NEW s \in Sides, NEW p \in PriceTexts, NEW a \in Amounts, NEW dn \in Denoms,
         PostOrder(u, m, oc, s, p, a, dn)
  PROVE  LoopTrades'
<1>1. TypeOK /\ trades \in Seq(Trade) /\ orders \in [0 .. orderSeq - 1 -> Order]
      /\ orderSeq \in Nat
  BY DEF IInv, TypeOK
<1>2. /\ tx'.order.filled = 0
      /\ \A i \in 0 .. orderSeq - 1 : tx'.branch[i] = orders[i]
  BY <1>1, PostTyped
<1>3. tx'.trades = <<>> /\ UNCHANGED <<orders, orderSeq, trades>>
  BY DEF PostOrder, bookVars
<1>4. trades \o <<>> = trades
  BY <1>1, ConcatEmptySeq
<1>5. Traded(trades, orderSeq) = 0
  <2>1. \A k \in DOMAIN trades : orderSeq \notin trades[k].fills
    BY <1>1 DEF TradesInv, StoredTrades
  <2> QED BY <2>1, UntradedOrder
<1>6. \A i \in 0 .. orderSeq - 1 : tx'.branch[i].filled = Traded(trades, i)
  BY <1>1, <1>2 DEF TradesInv, StoredTrades, FilledIsTraded
<1>7. DOMAIN tx'.trades = {}
  BY <1>3
<1> QED BY <1>2, <1>3, <1>4, <1>5, <1>6, <1>7 DEF LoopTrades

LEMMA MatchTrades ==
  ASSUME IInv, TradesInv, NEW c \in tx.cands, MatchStep(c)
  PROVE  LoopTrades'
<1> DEFINE f   == FillOf(c)
           t   == MatchTrade(c)
           all == trades \o tx.trades
<1>1. /\ tx # NoTx /\ tx \in Transaction
      /\ UNCHANGED <<orders, orderSeq, trades>>
      /\ orderSeq \in Nat /\ c \in 0 .. orderSeq - 1 /\ tx.id = orderSeq
      /\ tx.branch[c] = orders[c] /\ orders[c] \in Order
      /\ orders[c].filled = 0 /\ Meet(orders[c], tx.order)
      /\ f \in Int /\ f > 0
      /\ tx'.order = Fill(tx.order, f)
      /\ tx'.trades = Append(tx.trades, t)
      /\ tx'.branch[c] = Fill(orders[c], f)
      /\ \A i \in 0 .. orderSeq - 1 : i # c => tx'.branch[i] = tx.branch[i]
  BY MatchFacts
<1>2. /\ trades \in Seq(Trade) /\ tx.trades \in Seq(Trade) /\ tx.order \in Order
      /\ tx.branch \in [0 .. orderSeq -> Order]
  BY <1>1 DEF IInv, TypeOK, Transaction
<1>3. /\ t \in Trade /\ t.fills = {c, orderSeq} /\ t.amount = f
      /\ Honours(t, orders[c], tx.order)
  <2>1. /\ t.fills = {c, orderSeq} /\ t.amount = f /\ t.price = orders[c].price
        /\ t.market = tx.order.market /\ t.outcome = tx.order.outcome
        /\ t.buyer = Buyer(tx.order, orders[c]) /\ t.seller = Seller(tx.order, orders[c])
    BY <1>1 DEF MatchTrade
  <2>2. t \in Trade
    <3>1. Buyer(tx.order, orders[c]) \in Users /\ Seller(tx.order, orders[c]) \in Users
      BY <1>1, <1>2 DEF Buyer, Seller, Order
    <3>2. height \in Nat /\ now \in Nat /\ {c, tx.id} \in SUBSET Nat
      BY <1>1, MarketsAssumption DEF IInv, TypeOK, MarketsTypeOK
    <3>3. /\ tx.order.market \in Nat /\ tx.order.outcome \in Nat /\ tx.order.denom \in Denoms
          /\ orders[c].price \in PriceTexts
      BY <1>1, <1>2 DEF Order
    <3> QED BY <1>1, <3>1, <3>2, <3>3 DEF MatchTrade, Trade
  <2> HIDE DEF t
  <2>3. Honours(t, orders[c], tx.order)
    BY <1>1, <2>1 DEF Honours, Meet, Buyer, Seller
  <2> QED BY <2>1, <2>2, <2>3
<1>4. all \in Seq(Trade) /\ trades \o Append(tx.trades, t) = Append(all, t)
  BY <1>2, <1>3
<1> HIDE DEF f, t, all
<1>5. \A id : Traded(Append(all, t), id)
                = Traded(all, id) + (IF id \in {c, orderSeq} THEN f ELSE 0)
  BY <1>3, <1>4, TradedAppend
<1>6. /\ tx'.order.filled = tx.order.filled + f /\ SameTerms(tx.order, tx'.order)
      /\ tx'.branch[c].filled = orders[c].filled + f
  <2>1. \A o \in Order : SameTerms(o, Fill(o, f)) /\ Fill(o, f).filled = o.filled + f
    BY <1>1, FillFacts
  <2> QED BY <1>1, <1>2, <2>1
<1>7. /\ \A i \in 0 .. orderSeq - 1 : tx.branch[i].filled = Traded(all, i)
      /\ tx.order.filled = Traded(all, orderSeq)
  BY <1>1 DEF TradesInv, LoopTrades, all
<1>8. \A i \in 0 .. orderSeq - 1 : tx'.branch[i].filled = Traded(Append(all, t), i)
  <2> TAKE i \in 0 .. orderSeq - 1
  <2>1. i # orderSeq
    BY <1>1
  <2>2. CASE i = c
    BY <1>1, <1>5, <1>6, <1>7, <2>2
  <2>3. CASE i # c
    <3>1. tx'.branch[i].filled = Traded(all, i) /\ Traded(all, i) \in Int
      BY <1>1, <1>3, <1>4, <1>7, <2>3, TradedAppend
    <3> QED BY <1>5, <2>1, <2>3, <3>1
  <2> QED BY <2>2, <2>3
<1>9. tx'.order.filled = Traded(Append(all, t), orderSeq)
  BY <1>5, <1>6, <1>7
<1>10. ASSUME NEW k \in DOMAIN tx'.trades
       PROVE  \E i \in 0 .. orderSeq - 1 :
                /\ tx'.trades[k].fills = {i, orderSeq}
                /\ Honours(tx'.trades[k], orders[i], tx'.order)
  <2>1. \/ k \in DOMAIN tx.trades /\ tx'.trades[k] = tx.trades[k]
        \/ tx'.trades[k] = t
    BY <1>1, <1>2, <1>3
  <2>2. \A o : SameTerms(o, o)
    BY DEF SameTerms
  <2>3. CASE tx'.trades[k] = t
    BY <1>1, <1>3, <1>6, <2>2, <2>3, HonoursTerms
  <2>4. CASE k \in DOMAIN tx.trades /\ tx'.trades[k] = tx.trades[k]
    <3>1. PICK i \in 0 .. orderSeq - 1 :
            tx.trades[k].fills = {i, orderSeq} /\ Honours(tx.trades[k], orders[i], tx.order)
      BY <1>1, <2>4 DEF TradesInv, LoopTrades
    <3> QED BY <1>6, <2>2, <2>4, <3>1, HonoursTerms
  <2> QED BY <2>1, <2>3, <2>4
<1>11. trades' \o tx'.trades = Append(all, t)
  BY <1>1, <1>4
<1> QED BY <1>1, <1>8, <1>9, <1>10, <1>11 DEF LoopTrades

LEMMA CommitTrades ==
  ASSUME IInv, TradesInv, CommitPost
  PROVE  StoredTrades'
<1>1. /\ orderSeq \in Nat /\ orderSeq' = orderSeq + 1 /\ orderSeq' - 1 = orderSeq
      /\ tx # NoTx /\ tx \in Transaction
      /\ DOMAIN orders' = 0 .. orderSeq
      /\ orders'[orderSeq] = tx.order
      /\ \A i \in 0 .. orderSeq - 1 : orders'[i] = tx.branch[i]
  BY CommitFacts DEF IInv
<1>2. /\ trades \in Seq(Trade) /\ tx.trades \in Seq(Trade) /\ trades' = trades \o tx.trades
      /\ LoopInvariant
  BY <1>1 DEF IInv, TypeOK, Transaction, CommitPost
<1>3. \A i \in 0 .. orderSeq : i \in 0 .. orderSeq - 1 \/ i = orderSeq
  BY <1>1
<1>4. FilledIsTraded'
  <2>1. \A i \in 0 .. orderSeq : orders'[i].filled = Traded(trades \o tx.trades, i)
    BY <1>1, <1>3 DEF TradesInv, LoopTrades
  <2> QED BY <1>1, <1>2, <2>1 DEF FilledIsTraded
<1>5. \A k \in DOMAIN trades' :
        \/ k \in DOMAIN trades /\ trades'[k] = trades[k]
        \/ \E l \in DOMAIN tx.trades : trades'[k] = tx.trades[l]
  <2> TAKE k \in DOMAIN trades'
  <2>1. /\ Len(trades) \in Nat /\ Len(tx.trades) \in Nat
        /\ DOMAIN trades = 1 .. Len(trades) /\ DOMAIN tx.trades = 1 .. Len(tx.trades)
        /\ k \in 1 .. Len(trades) + Len(tx.trades)
        /\ trades'[k] = IF k <= Len(trades) THEN trades[k] ELSE tx.trades[k - Len(trades)]
    BY <1>2, ConcatProperties, LenProperties
  <2>2. CASE k <= Len(trades)
    BY <2>1, <2>2
  <2>3. CASE ~(k <= Len(trades))
    <3>1. k - Len(trades) \in DOMAIN tx.trades
      BY <2>1, <2>3
    <3> QED BY <2>1, <2>3, <3>1
  <2> QED BY <2>2, <2>3
<1>6. ASSUME NEW k \in DOMAIN trades'
      PROVE  /\ trades'[k].fills \subseteq 0 .. orderSeq
             /\ \A i, j \in trades'[k].fills :
                  i < j => Honours(trades'[k], orders'[i], orders'[j])
  <2>1. CASE k \in DOMAIN trades /\ trades'[k] = trades[k]
    <3>1. trades[k].fills \subseteq 0 .. orderSeq - 1
      BY <2>1 DEF TradesInv, StoredTrades
    <3>2. ASSUME NEW i \in trades[k].fills, NEW j \in trades[k].fills, i < j
          PROVE  Honours(trades[k], orders'[i], orders'[j])
      <4>1. Honours(trades[k], orders[i], orders[j])
        BY <2>1, <3>2 DEF TradesInv, StoredTrades, TradesHonourLimits
      <4>2. SameTerms(orders[i], orders'[i]) /\ SameTerms(orders[j], orders'[j])
        BY <1>1, <1>2, <3>1 DEF LoopInvariant, Advances
      <4> QED BY <4>1, <4>2, HonoursTerms
    <3> QED BY <1>1, <2>1, <3>1, <3>2
  <2>2. CASE \E l \in DOMAIN tx.trades : trades'[k] = tx.trades[l]
    <3>1. PICK l \in DOMAIN tx.trades : trades'[k] = tx.trades[l]
      BY <2>2
    <3>2. PICK i \in 0 .. orderSeq - 1 :
            tx.trades[l].fills = {i, orderSeq} /\ Honours(tx.trades[l], orders[i], tx.order)
      BY <1>1, <3>1 DEF TradesInv, LoopTrades
    <3>3. SameTerms(orders[i], orders'[i]) /\ SameTerms(tx.order, orders'[orderSeq])
      <4>1. SameTerms(orders[i], orders'[i])
        BY <1>1, <1>2 DEF LoopInvariant, Advances
      <4>2. SameTerms(tx.order, orders'[orderSeq])
        BY <1>1 DEF SameTerms
      <4> QED BY <4>1, <4>2
    <3>4. Honours(trades'[k], orders'[i], orders'[orderSeq])
      BY <3>1, <3>2, <3>3, HonoursTerms
    <3>5. i < orderSeq /\ i \in 0 .. orderSeq
      BY <1>1
    <3>6. \A x, y \in {i, orderSeq} : x < y => x = i /\ y = orderSeq
      BY <3>5, <1>1
    <3> QED BY <1>1, <3>1, <3>2, <3>4, <3>5, <3>6
  <2> QED BY <1>5, <2>1, <2>2
<1>7. TradesHonourLimits'
  BY <1>6 DEF TradesHonourLimits
<1> QED BY <1>1, <1>4, <1>6, <1>7 DEF StoredTrades

LEMMA FillTrades ==
  ASSUME IInv, TradesInv,
         NEW u \in Users, NEW id \in 0 .. orderSeq, NEW a \in Amounts, NEW dn \in Denoms,
         FillOrder(u, id, a, dn)
  PROVE  StoredTrades'
<1>1. /\ id \in 0 .. orderSeq - 1 /\ orders[id] \in Order /\ a \in Int
      /\ DOMAIN orders = 0 .. orderSeq - 1 /\ DOMAIN orders' = 0 .. orderSeq - 1
      /\ orders'[id] = Fill(orders[id], a)
      /\ \A i \in 0 .. orderSeq - 1 : i # id => orders'[i] = orders[i]
      /\ orderSeq \in Nat /\ orderSeq' = orderSeq
  BY FillOrderTyped DEF IInv, TypeOK, FillOrder
<1>2. \A i \in 0 .. orderSeq - 1 : SameTerms(orders[i], orders'[i])
  <2>1. SameTerms(orders[id], orders'[id])
    BY <1>1, FillFacts
  <2>2. \A o : SameTerms(o, o)
    BY DEF SameTerms
  <2> QED BY <1>1, <2>1, <2>2
<1> DEFINE t == [id |-> height, market |-> orders[id].market,
                 outcome |-> orders[id].outcome,
                 buyer |-> u, seller |-> orders[id].creator,
                 price |-> orders[id].price, amount |-> a, denom |-> dn,
                 timestamp |-> now, fills |-> {id}]
<1>3. t.fills = {id} /\ t.amount = a /\ t \in Trade /\ trades' = Append(trades, t)
  <2>1. height \in Nat /\ now \in Nat /\ id \in Nat
    BY <1>1, MarketsAssumption DEF IInv, TypeOK, MarketsTypeOK
  <2>2. /\ orders[id].market \in Nat /\ orders[id].outcome \in Nat
        /\ orders[id].creator \in Users /\ orders[id].price \in PriceTexts
    BY <1>1 DEF Order
  <2>3. t \in Trade
    BY <1>1, <2>1, <2>2 DEF Trade
  <2>4. trades' = Append(trades, t)
    BY DEF FillOrder
  <2> QED BY <2>3, <2>4
<1> HIDE DEF t
<1>4. trades \in Seq(Trade)
  BY DEF IInv, TypeOK
<1>5. FilledIsTraded'
  <2>1. \A i : Traded(Append(trades, t), i) = Traded(trades, i) + (IF i = id THEN a ELSE 0)
    BY <1>3, <1>4, TradedAppend
  <2>2. \A i : Traded(trades, i) \in Int
    BY <1>3, <1>4, TradedAppend
  <2>3. \A i \in 0 .. orderSeq - 1 : orders[i].filled = Traded(trades, i)
    BY <1>1 DEF TradesInv, StoredTrades, FilledIsTraded
  <2>4. orders'[id].filled = orders[id].filled + a
    BY <1>1, FillFacts
  <2>5. \A i \in 0 .. orderSeq - 1 : orders'[i].filled = Traded(Append(trades, t), i)
    BY <1>1, <2>1, <2>2, <2>3, <2>4
  <2> QED BY <1>1, <1>3, <2>5 DEF FilledIsTraded
<1>6. \A k \in DOMAIN trades' :
        \/ k \in DOMAIN trades /\ trades'[k] = trades[k]
        \/ trades'[k] = t
  BY <1>3, <1>4
<1>7. \A k \in DOMAIN trades' : trades'[k].fills \subseteq 0 .. orderSeq - 1
  BY <1>1, <1>3, <1>6 DEF TradesInv, StoredTrades
<1>8. ASSUME NEW k \in DOMAIN trades', NEW i \in trades'[k].fills, NEW j \in trades'[k].fills,
             i < j
      PROVE  Honours(trades'[k], orders'[i], orders'[j])
  <2>1. CASE trades'[k] = t
    BY <1>1, <1>3, <1>8, <2>1
  <2>2. CASE k \in DOMAIN trades /\ trades'[k] = trades[k]
    <3>1. Honours(trades[k], orders[i], orders[j])
      BY <1>8, <2>2 DEF TradesInv, StoredTrades, TradesHonourLimits
    <3> QED BY <1>2, <1>7, <1>8, <2>2, <3>1, HonoursTerms
  <2> QED BY <1>6, <2>1, <2>2
<1> QED BY <1>1, <1>5, <1>7, <1>8 DEF StoredTrades, TradesHonourLimits

LEMMA TradesNext == IInv /\ TradesInv /\ [Next]_vars => TradesInv'
<1> SUFFICES ASSUME IInv, TradesInv, [Next]_vars PROVE TradesInv'
  OBVIOUS
<1>1. /\ DOMAIN orders = 0 .. orderSeq - 1 /\ StoredTrades /\ LoopTrades
      /\ \A o : SameTerms(o, o)
  BY DEF IInv, TypeOK, TradesInv, SameTerms
<1>2. ASSUME UNCHANGED bookVars PROVE StoredTrades'
  BY <1>1, <1>2, StoredTradesKept DEF bookVars
<1>3. ASSUME tx' = NoTx PROVE LoopTrades'
  BY <1>3 DEF LoopTrades
<1>4. CASE CreateSome \/ BeginBlock
  <2>1. UNCHANGED bookVars /\ tx' = NoTx
    BY <1>4 DEF CreateSome, NewMarket, BeginBlock
  <2> QED BY <1>2, <1>3, <2>1 DEF TradesInv
<1>5. CASE PostSome
  <2>1. LoopTrades'
    BY <1>5, PostTrades DEF PostSome
  <2>2. UNCHANGED bookVars
    BY <1>5, QuietSteps
  <2> QED BY <1>2, <2>1, <2>2 DEF TradesInv
<1>6. CASE Matching
  <2>1. LoopTrades'
    BY <1>3, <1>6, MatchTrades DEF Matching, AbortPost
  <2>2. UNCHANGED bookVars
    BY <1>6, QuietSteps
  <2> QED BY <1>2, <2>1, <2>2 DEF TradesInv
<1>7. CASE CommitPost
  <2>1. tx' = NoTx
    BY <1>7 DEF CommitPost
  <2> QED BY <1>3, <1>7, <2>1, CommitTrades DEF TradesInv
<1>8. CASE CancelSome
  <2>1. PICK u \in Users, id \in 0 .. orderSeq : CancelOrder(u, id)
    BY <1>8 DEF CancelSome
  <2>2. tx' = NoTx /\ UNCHANGED <<orderSeq, trades>>
    BY <2>1 DEF CancelOrder
  <2>3. /\ id \in 0 .. orderSeq - 1 /\ orders[id] \in Order
        /\ DOMAIN orders' = 0 .. orderSeq - 1
        /\ orders'[id] = [orders[id] EXCEPT !.status = "CANCELLED"]
        /\ \A i \in 0 .. orderSeq - 1 : i # id => orders'[i] = orders[i]
    BY <2>1, CancelTyped DEF IInv
  <2>4. SameTerms(orders[id], orders'[id]) /\ orders'[id].filled = orders[id].filled
    BY <2>3, CancelFacts
  <2>5. StoredTrades'
    BY <1>1, <2>2, <2>3, <2>4, StoredTradesKept
  <2> QED BY <1>3, <2>2, <2>5 DEF TradesInv
<1>9. CASE FillSome
  <2>1. PICK u \in Users, id \in 0 .. orderSeq, a \in Amounts, dn \in Denoms :
          FillOrder(u, id, a, dn)
    BY <1>9 DEF FillSome
  <2>2. tx' = NoTx
    BY <2>1 DEF FillOrder
  <2>3. StoredTrades'
    BY <2>1, FillTrades
  <2> QED BY <1>3, <2>2, <2>3 DEF TradesInv
<1>10. CASE UNCHANGED vars
  <2>1. UNCHANGED <<bookVars, tx>>
    BY <1>10 DEF vars
  <2>2. LoopTrades'
    BY <1>1, <2>1 DEF LoopTrades, bookVars
  <2> QED BY <1>2, <2>1, <2>2 DEF TradesInv
<1> QED BY <1>4, <1>5, <1>6, <1>7, <1>8, <1>9, <1>10 DEF Next

LEMMA TradesInvariance == Spec => []TradesInv
<1>1. OrderBookInit => TradesInv
  <2> SUFFICES ASSUME OrderBookInit PROVE TradesInv
    OBVIOUS
  <2>1. DOMAIN orders = {} /\ DOMAIN trades = {} /\ tx = NoTx
    BY DEF OrderBookInit, EmptyStore
  <2> QED BY <2>1 DEF TradesInv, StoredTrades, LoopTrades, FilledIsTraded, TradesHonourLimits
<1> QED BY <1>1, TradesNext, Invariance, PTL DEF Spec

(***************************************************************************)
(* The properties                                                          *)
(***************************************************************************)

\* What is filled of an order is the sum of the amounts of the trades that name
\* it, however many orders a post matched and whatever was filled directly.
THEOREM FilledIsTradedHolds == Spec => []FilledIsTraded
<1>1. TradesInv => FilledIsTraded
  BY DEF TradesInv, StoredTrades
<1> QED BY <1>1, TradesInvariance, PTL

\* No trade between two orders breaks the limit of either as MatchOrder reads it
\* (zero, if it does not parse), and each is made at the price of the order that
\* was there first.
THEOREM TradesHonourLimitsHolds == Spec => []TradesHonourLimits
<1>1. TradesInv => TradesHonourLimits
  BY DEF TradesInv, StoredTrades
<1> QED BY <1>1, TradesInvariance, PTL

(***************************************************************************)
(* What the exchange computes, in the terms of the order book              *)
(***************************************************************************)

Offered(c) == IF orders[c].amount > 0 THEN orders[c].amount ELSE 0

\* What is left of the new order's amount when the orders of V have given all
\* they have.
Left(new, V) ==
  LET left == new.amount - SumFunctionOnSet([d \in V |-> Offered(d)], V)
  IN IF left > 0 THEN left ELSE 0

Ahead(c, new) == {d \in Candidates(orders, new) : Precedes(orders, new, d, c)}

Share(c, new) ==
  IF c \in Candidates(orders, new) /\ Left(new, Ahead(c, new)) > 0
  THEN MinInt(orders[c].amount, Left(new, Ahead(c, new))) ELSE 0

Execution(c, new) ==
  [id |-> height, market |-> new.market, outcome |-> new.outcome,
   buyer |-> Buyer(new, orders[c]), seller |-> Seller(new, orders[c]),
   price |-> orders[c].price, amount |-> Share(c, new),
   denom |-> new.denom, timestamp |-> now, fills |-> {c, orderSeq}]

\* The number of orders of V ahead of c.
Place(c, new, V) == Cardinality({d \in V : Precedes(orders, new, d, c)})

LEMMA SameSum == ASSUME NEW f, NEW S PROVE Ideal!SumFunctionOnSet(f, S) = SumFunctionOnSet(f, S)
BY DEF Ideal!SumFunctionOnSet, SumFunctionOnSet, Ideal!FoldFunctionOnSet, FoldFunctionOnSet,
       Ideal!MapThenFoldSet, MapThenFoldSet

LEMMA SameCardinality == ASSUME NEW S PROVE Ideal!Cardinality(S) = Cardinality(S)
BY DEF Ideal!Cardinality, Cardinality

LEMMA SameCandidates ==
  ASSUME NEW store, NEW new
  PROVE  Ideal!Candidates(store, new) = Candidates(store, new)
BY DEF Ideal!Candidates, Candidates, Ideal!SameBook, SameBook, Ideal!Crosses, Crosses,
       Ideal!ParsePrice, ParsePrice

LEMMA SamePrecedes ==
  ASSUME NEW store, NEW new, NEW i, NEW j
  PROVE  Ideal!Precedes(store, new, i, j) <=> Precedes(store, new, i, j)
BY DEF Ideal!Precedes, Precedes, Ideal!BetterPrice, BetterPrice, Ideal!ParsePrice, ParsePrice

LEMMA SameFill == ASSUME NEW o, NEW a PROVE Ideal!Fill(o, a) = Fill(o, a)
BY DEF Ideal!Fill, Fill

LEMMA SameShare == ASSUME NEW new, NEW c PROVE Ideal!Share(c, new) = Share(c, new)
<1>1. {d \in Ideal!Candidates(orders, new) : Ideal!Precedes(orders, new, d, c)} = Ahead(c, new)
  BY SameCandidates, SamePrecedes DEF Ahead
<1>2. Ideal!LeftFor(c, new) = Left(new, Ahead(c, new))
  BY <1>1, SameSum DEF Ideal!LeftFor, Left, Ideal!Offered, Offered
<1> QED BY <1>2, SameCandidates DEF Ideal!Share, Share, Ideal!MinInt, MinInt

LEMMA SameExecution == ASSUME NEW new, NEW c PROVE Ideal!Execution(c, new) = Execution(c, new)
BY SameShare DEF Ideal!Execution, Execution, Ideal!Buyer, Buyer, Ideal!Seller, Seller

LEMMA SamePlace ==
  ASSUME NEW new, NEW c
  PROVE  Ideal!Place(c, new) = Place(c, new, Ideal!Makers(new))
BY SamePrecedes, SameCardinality DEF Ideal!Place, Place

(***************************************************************************)
(* The loop's share of the allocation                                      *)
(***************************************************************************)

\* The orders that V offers add up to a natural number, more than that of any
\* part of V by what the others offer.
LEMMA OffersAddUp ==
  ASSUME TypeOK, NEW V, V \subseteq 0 .. orderSeq - 1
  PROVE  /\ IsFiniteSet(V)
         /\ \A c \in V : Offered(c) \in Nat
         /\ SumFunctionOnSet([d \in V |-> Offered(d)], V) \in Nat
<1>1. orderSeq \in Nat /\ \A c \in V : orders[c] \in Order
  BY DEF TypeOK
<1>2. IsFiniteSet(V)
  <2>1. IsFiniteSet(0 .. orderSeq - 1)
    BY <1>1, FS_Interval
  <2> QED BY <2>1, FS_Subset
<1>3. \A c \in V : Offered(c) \in Nat
  <2> TAKE c \in V
  <2>1. orders[c].amount \in Int
    BY <1>1, OrderFields
  <2> QED BY <2>1 DEF Offered
<1> QED BY <1>2, <1>3, SumIsNat

\* The more orders are ahead, the less is left.
LEMMA LeftShrinks ==
  ASSUME TypeOK, NEW new, new.amount \in Int,
         NEW T, T \subseteq 0 .. orderSeq - 1, NEW S, S \subseteq T
  PROVE  /\ Left(new, T) \in Nat /\ Left(new, S) \in Nat
         /\ Left(new, T) <= Left(new, S)
<1> DEFINE f == [d \in T |-> Offered(d)]
           g == [d \in S |-> Offered(d)]
<1>1. /\ IsFiniteSet(T) /\ \A c \in T : f[c] \in Nat
      /\ SumFunctionOnSet(f, T) \in Nat /\ SumFunctionOnSet(g, S) \in Nat
  BY OffersAddUp
<1>2. \A c \in S : f[c] = g[c]
  OBVIOUS
<1>3. Left(new, T) = IF new.amount - SumFunctionOnSet(f, T) > 0
                     THEN new.amount - SumFunctionOnSet(f, T) ELSE 0
  BY DEF Left
<1>4. Left(new, S) = IF new.amount - SumFunctionOnSet(g, S) > 0
                     THEN new.amount - SumFunctionOnSet(g, S) ELSE 0
  BY DEF Left
<1> HIDE DEF f, g
<1>5. SumFunctionOnSet(g, S) <= SumFunctionOnSet(f, T)
  BY <1>1, <1>2, SumGrows
<1> QED BY <1>1, <1>3, <1>4, <1>5

LEMMA ShareIsInt ==
  ASSUME TypeOK, NEW new, new.amount \in Int, NEW c \in 0 .. orderSeq - 1
  PROVE  Share(c, new) \in Int
<1>1. orders[c] \in Order /\ Ahead(c, new) \subseteq 0 .. orderSeq - 1
  BY DEF TypeOK, Ahead, Candidates
<1>2. orders[c].amount \in Int /\ Left(new, Ahead(c, new)) \in Nat
  BY <1>1, OrderFields, LeftShrinks
<1> QED BY <1>2 DEF Share, MinInt

\* One order more takes what it has from what is left.
LEMMA LeftAfter ==
  ASSUME TypeOK, NEW new, new.amount \in Int, NEW V, NEW c \in 0 .. orderSeq - 1,
         V \subseteq 0 .. orderSeq - 1, c \notin V, orders[c].amount > 0, Left(new, V) > 0
  PROVE  Left(new, V \cup {c}) = Left(new, V) - MinInt(Left(new, V), orders[c].amount)
<1> DEFINE f == [d \in V \cup {c} |-> Offered(d)]
           g == [d \in V |-> Offered(d)]
           old == new.amount - SumFunctionOnSet(g, V)
<1>1. /\ IsFiniteSet(V) /\ \A d \in V : f[d] = g[d] /\ g[d] \in Int
      /\ SumFunctionOnSet(g, V) \in Nat
  <2>1. /\ IsFiniteSet(V) /\ \A d \in V : Offered(d) \in Nat
        /\ SumFunctionOnSet(g, V) \in Nat
    BY OffersAddUp
  <2>2. \A d \in V : f[d] = Offered(d) /\ g[d] = Offered(d)
    OBVIOUS
  <2> HIDE DEF f, g
  <2> QED BY <2>1, <2>2
<1>2. f[c] = orders[c].amount /\ orders[c].amount \in Int
  <2>1. orders[c] \in Order
    BY DEF TypeOK
  <2>2. orders[c].amount \in Int
    BY <2>1, OrderFields
  <2> QED BY <2>2 DEF Offered
<1>3. Left(new, V) = IF old > 0 THEN old ELSE 0
  BY DEF Left
<1>4. Left(new, V \cup {c}) = IF new.amount - SumFunctionOnSet(f, V \cup {c}) > 0
                              THEN new.amount - SumFunctionOnSet(f, V \cup {c}) ELSE 0
  BY DEF Left
<1> HIDE DEF f, g
<1>5. SumFunctionOnSet(f, V \cup {c}) = orders[c].amount + SumFunctionOnSet(g, V)
  <2>1. f[c] \in Int
    BY <1>2
  <2>2. SumFunctionOnSet(f, V \cup {c}) = f[c] + SumFunctionOnSet(g, V)
    BY <1>1, <2>1, SumAdd
  <2> QED BY <1>2, <2>2
<1> QED BY <1>1, <1>2, <1>3, <1>4, <1>5 DEF MinInt

\* Candidates are stored orders, and none of two precedes the other both ways.
LEMMA CandidatesAreStored ==
  ASSUME TypeOK, NEW new
  PROVE  Candidates(orders, new) \subseteq 0 .. orderSeq - 1
BY DEF TypeOK, Candidates

LEMMA PrecedesOneWay ==
  ASSUME TypeOK, NEW new, NEW i \in 0 .. orderSeq - 1, NEW j \in 0 .. orderSeq - 1,
         Precedes(orders, new, i, j)
  PROVE  ~Precedes(orders, new, j, i) /\ i # j
<1>1. orders[i] \in Order /\ orders[j] \in Order /\ orderSeq \in Nat
  BY DEF TypeOK
<1>2. /\ ParsePrice(orders[i].price) \in Int /\ ParsePrice(orders[j].price) \in Int
      /\ orders[i].createdAt \in Nat /\ orders[j].createdAt \in Nat
  BY <1>1, OrderFields
<1> QED BY <1>1, <1>2 DEF Precedes, BetterPrice

\* Filling twice is filling once with both amounts.
LEMMA FillTwice ==
  ASSUME NEW o \in Order, NEW a \in Int, NEW b \in Int
  PROVE  Fill(Fill(o, a), b) = Fill(o, a + b)
<1> DEFINE once  == Fill(o, a)
           twice == Fill(once, b)
           both  == Fill(o, a + b)
<1>1. /\ once \in Order /\ SameTerms(o, once) /\ once.filled = o.filled + a
  BY FillFacts
<1>2. /\ both \in Order /\ SameTerms(o, both) /\ both.filled = o.filled + (a + b)
      /\ both.status = IF o.filled + (a + b) = o.amount THEN "FILLED" ELSE "PARTIALLY_FILLED"
  <2>1. a + b \in Int
    OBVIOUS
  <2> QED BY <2>1, FillFacts
<1> HIDE DEF once, both
<1>3. /\ twice \in Order /\ SameTerms(once, twice) /\ twice.filled = once.filled + b
      /\ twice.status = IF once.filled + b = once.amount THEN "FILLED" ELSE "PARTIALLY_FILLED"
  BY <1>1, FillFacts
<1> HIDE DEF twice
<1>4. o.filled \in Int /\ o.amount \in Int
  BY OrderFields
<1>5. twice.filled = both.filled /\ twice.status = both.status
  <2>1. once.amount = o.amount
    BY <1>1 DEF SameTerms
  <2>2. once.filled + b = o.filled + (a + b)
    BY <1>1, <1>4
  <2> QED BY <1>2, <1>3, <2>1, <2>2
<1>6. SameTerms(twice, both)
  BY <1>1, <1>2, <1>3 DEF SameTerms
<1>7. twice = both
  BY <1>2, <1>3, <1>5, <1>6 DEF Order, SameTerms
<1> QED BY <1>7 DEF once, twice, both

(***************************************************************************)
(* The invariant of the refinement                                         *)
(***************************************************************************)

\* The new order as it was posted.
Asked ==
  [market |-> tx.order.market, creator |-> tx.order.creator, side |-> tx.order.side,
   outcome |-> tx.order.outcome, price |-> tx.order.price, amount |-> tx.order.amount,
   denom |-> tx.order.denom, filled |-> 0, status |-> "OPEN",
   createdAt |-> tx.order.createdAt]

\* What a message may ask for.
Acceptable(new) ==
  /\ orderSeq < MaxOrders
  /\ new.market \in DOMAIN markets /\ new.outcome \in OutcomeIndexes
  /\ new.outcome < Len(markets[new.market].outcomes)
  /\ new.amount \in Amounts /\ new.amount # 0

Visited(new) == Candidates(orders, new) \ tx.cands

\* The loop visits the candidates best first, and gives each its share.
VisitsBestFirst(new) ==
  /\ tx.cands \subseteq Candidates(orders, new)
  /\ \A v \in Visited(new), c \in tx.cands : Precedes(orders, new, v, c)
  /\ \A v \in Visited(new) : Share(v, new) > 0
  /\ \A i \in 0 .. orderSeq - 1 :
       tx.branch[i] = IF i \in Visited(new) THEN Fill(orders[i], Share(i, new)) ELSE orders[i]

\* What remains to match is what the visited orders leave of the amount.
Got(new, V) == SumFunctionOnSet([c \in V |-> Share(c, new)], V)
FilledIf(order, amount) == IF amount = 0 THEN order ELSE Fill(order, amount)

RemainsWhatIsLeft(new) ==
  LET V == Visited(new)
  IN /\ V = {} => tx.remaining = new.amount
     /\ V # {} => new.amount > 0 /\ tx.remaining = Left(new, V)
     /\ tx.remaining = new.amount - Got(new, V)
     /\ tx.order = FilledIf(new, Got(new, V))

\* The trades are those with the visited orders, each at its place.
TradesInOrder(new) ==
  LET V == Visited(new)
  IN /\ Len(tx.trades) = Cardinality(V)
     /\ \A v \in V : /\ Place(v, new, V) + 1 \in 1 .. Len(tx.trades)
                     /\ tx.trades[Place(v, new, V) + 1] = Execution(v, new)
     /\ \A k \in 1 .. Len(tx.trades) : \E v \in V : Place(v, new, V) = k - 1

Allocated(new) ==
  Acceptable(new) /\ VisitsBestFirst(new) /\ RemainsWhatIsLeft(new) /\ TradesInOrder(new)

AllocInv == tx # NoTx => \A new \in {Asked} : Allocated(new)

\* The posted order is an order with the terms of the transaction's.
LEMMA AskedFacts ==
  ASSUME TypeOK, tx \in Transaction
  PROVE  /\ Asked \in Order /\ SameTerms(tx.order, Asked)
         /\ Asked.filled = 0 /\ Asked.status = "OPEN"
<1>1. tx.order \in Order
  BY DEF Transaction
<1> QED BY <1>1 DEF Asked, Order, SameTerms, Statuses

\* Two orders with the same terms were posted as the same.
LEMMA AskedSame ==
  ASSUME SameTerms(tx.order, tx'.order)
  PROVE  Asked' = Asked
BY DEF SameTerms, Asked

\* The candidates and their order are those of the terms.
LEMMA CandidatesOfTerms ==
  ASSUME NEW store, NEW a, NEW b, SameTerms(a, b)
  PROVE  /\ Candidates(store, a) = Candidates(store, b)
         /\ \A i, j : Precedes(store, a, i, j) <=> Precedes(store, b, i, j)
BY DEF SameTerms, Candidates, SameBook, Crosses, Precedes, BetterPrice

LEMMA SharesOfTerms ==
  ASSUME NEW a, NEW b, SameTerms(a, b), NEW c
  PROVE  Share(c, a) = Share(c, b)
<1>1. Ahead(c, a) = Ahead(c, b)
  BY CandidatesOfTerms DEF Ahead
<1>2. a.amount = b.amount
  BY DEF SameTerms
<1> QED BY <1>1, <1>2, CandidatesOfTerms DEF Share, Left

\* The allocation depends on the stored orders, the clock and the new order's
\* id, none of which the loop changes.
LEMMA SameAllocation ==
  ASSUME UNCHANGED <<orders, orderSeq, now, height>>, NEW new, NEW V
  PROVE  /\ Candidates(orders, new)' = Candidates(orders, new)
         /\ \A i, j : Precedes(orders, new, i, j)' <=> Precedes(orders, new, i, j)
         /\ \A c : Share(c, new)' = Share(c, new)
         /\ \A c : Execution(c, new)' = Execution(c, new)
         /\ \A c : Place(c, new, V)' = Place(c, new, V)
         /\ Left(new, V)' = Left(new, V)
         /\ Got(new, V)' = Got(new, V)
<1>1. \A c : Share(c, new)' = Share(c, new)
  BY DEF Share, Ahead, Left, Offered
<1>2. \A c : Execution(c, new)' = Execution(c, new)
  BY <1>1 DEF Execution
<1>3. Left(new, V)' = Left(new, V)
  BY DEF Left, Offered
<1>4. Got(new, V)' = Got(new, V)
  BY <1>1 DEF Got
<1>5. \A c : Place(c, new, V)' = Place(c, new, V)
  BY DEF Place
<1> QED BY <1>1, <1>2, <1>3, <1>4, <1>5

LEMMA PostAllocates ==
  ASSUME TypeOK, tx = NoTx,
         NEW u \in Users, NEW m \in 0 .. marketSeq, NEW oc \in OutcomeIndexes,
         NEW s \in Sides, NEW p \in PriceTexts, NEW a \in Amounts, NEW dn \in Denoms,
         PostOrder(u, m, oc, s, p, a, dn)
  PROVE  AllocInv'
<1>1. PICK new : new = [market |-> m, creator |-> u, side |-> s, outcome |-> oc,
                        price |-> p, amount |-> a, denom |-> dn, filled |-> 0,
                        status |-> "OPEN", createdAt |-> now]
  OBVIOUS
<1>2. /\ tx'.order = new /\ tx'.remaining = a /\ tx'.trades = <<>>
      /\ UNCHANGED <<orders, orderSeq, now, height, markets>>
  BY <1>1 DEF PostOrder, bookVars, clockVars, marketVars
<1>3. Asked' = new
  BY <1>1, <1>2 DEF Asked
<1>4. /\ \A i \in 0 .. orderSeq - 1 : tx'.branch[i] = orders[i]
      /\ tx'.branch[orderSeq] = new /\ tx'.cands = Candidates(tx'.branch, new)
      /\ DOMAIN tx'.branch = 0 .. orderSeq /\ DOMAIN orders = 0 .. orderSeq - 1
      /\ orderSeq \in Nat
  BY <1>2, PostTyped DEF Transaction, TypeOK
<1>5. tx'.cands = Candidates(orders, new)
  <2>1. \A i : i \in 0 .. orderSeq <=> i \in 0 .. orderSeq - 1 \/ i = orderSeq
    BY <1>4
  <2> QED BY <1>4, <2>1 DEF Candidates
<1>6. Visited(new)' = {} /\ Candidates(orders, new)' = Candidates(orders, new)
  BY <1>2, <1>5 DEF Visited
<1>7. Got(new, Visited(new))' = 0
  BY <1>6, SumEmpty DEF Got
<1>8. Acceptable(new)'
  BY <1>1, <1>2 DEF PostOrder, Acceptable
<1>9. VisitsBestFirst(new)'
  BY <1>2, <1>4, <1>5, <1>6 DEF VisitsBestFirst
<1>10. RemainsWhatIsLeft(new)'
  <2>1. new.amount = a /\ a \in Int
    BY <1>1, OrdersAssumption
  <2> QED BY <1>2, <1>6, <1>7, <2>1 DEF RemainsWhatIsLeft, FilledIf
<1>11. TradesInOrder(new)'
  <2>1. Len(tx'.trades) = 0 /\ Cardinality({}) = 0
    BY <1>2, FS_EmptySet
  <2> QED BY <1>6, <2>1 DEF TradesInOrder
<1> QED BY <1>3, <1>8, <1>9, <1>10, <1>11 DEF AllocInv, Allocated

\* The visited orders are ahead of the next one, and of every order only those
\* that were: the share of the next is taken from what they leave.
LEMMA NextShare ==
  ASSUME IInv, AllocInv, NEW c \in tx.cands, MatchStep(c), NEW new, new = Asked
  PROVE  LET V == Visited(new)
         IN /\ new \in Order /\ SameTerms(tx.order, new) /\ Allocated(new)
            /\ V \subseteq 0 .. orderSeq - 1 /\ c \in Candidates(orders, new) /\ c \notin V
            /\ \A v \in V : Precedes(orders, new, v, c) /\ ~Precedes(orders, new, c, v)
            /\ \A d \in tx.cands \ {c} : Precedes(orders, new, c, d)
            /\ new.amount > 0 /\ tx.remaining = Left(new, V)
            /\ FillOf(c) = Share(c, new) /\ FillOf(c) \in Int /\ FillOf(c) > 0
            /\ orders[c].amount > 0 /\ Left(new, V) > 0
            /\ FillOf(c) = MinInt(Left(new, V), orders[c].amount)
<1> DEFINE V == Visited(new)
<1>1. /\ tx # NoTx /\ tx \in Transaction /\ Visits(c) /\ TypeOK
      /\ orderSeq \in Nat /\ c \in 0 .. orderSeq - 1
      /\ tx.branch[c] = orders[c] /\ orders[c] \in Order
      /\ FillOf(c) \in Int /\ FillOf(c) > 0
      /\ FillOf(c) = MinInt(tx.remaining, orders[c].amount)
  BY MatchFacts DEF IInv
<1>2. new \in Order /\ SameTerms(tx.order, new)
  BY <1>1, AskedFacts
<1>3. Allocated(new)
  BY <1>1 DEF AllocInv
<1>4. V \subseteq 0 .. orderSeq - 1 /\ c \in Candidates(orders, new) /\ c \notin V
  BY <1>1, <1>3, CandidatesAreStored DEF Allocated, VisitsBestFirst, Visited
<1>5. \A v \in V : Precedes(orders, new, v, c) /\ ~Precedes(orders, new, c, v)
  <2> TAKE v \in V
  <2>1. Precedes(orders, new, v, c)
    BY <1>3 DEF Allocated, VisitsBestFirst
  <2> QED BY <1>1, <1>4, <2>1, PrecedesOneWay
<1>6. \A d \in tx.cands \ {c} : Precedes(orders, new, c, d)
  <2> TAKE d \in tx.cands \ {c}
  <2>1. d \in 0 .. orderSeq - 1 /\ d \notin V
    BY <1>1, <1>3, CandidatesAreStored DEF Allocated, VisitsBestFirst, Visited
  <2>2. tx.branch[d] = orders[d]
    BY <1>3, <2>1 DEF Allocated, VisitsBestFirst
  <2>3. Precedes(tx.branch, tx.order, c, d)
    BY <1>1 DEF Visits
  <2>4. Precedes(orders, tx.order, c, d)
    BY <1>1, <2>2, <2>3 DEF Precedes
  <2> QED BY <1>2, <2>4, CandidatesOfTerms
<1>7. Ahead(c, new) = V
  <2>1. \A d \in V : d \in Ahead(c, new)
    BY <1>5 DEF Ahead, Visited
  <2>2. ASSUME NEW d \in Ahead(c, new) PROVE d \in V
    <3>1. d \in 0 .. orderSeq - 1 /\ Precedes(orders, new, d, c)
      BY <1>1, CandidatesAreStored DEF Ahead
    <3>2. d # c /\ ~Precedes(orders, new, c, d)
      BY <1>1, <3>1, PrecedesOneWay
    <3> QED BY <1>6, <3>2 DEF Ahead, Visited
  <2> HIDE DEF V
  <2> QED BY <2>1, <2>2
<1>8. tx.remaining \in Int /\ orders[c].amount \in Int
  BY <1>1, OrderFields DEF Transaction
<1>9. tx.remaining > 0 /\ orders[c].amount > 0
  BY <1>1, <1>8 DEF MinInt
<1>10. new.amount > 0 /\ tx.remaining = Left(new, V)
  <2>1. CASE V = {}
    <3>1. new.amount = tx.remaining
      BY <1>3, <2>1 DEF Allocated, RemainsWhatIsLeft
    <3>2. SumFunctionOnSet([d \in {} |-> Offered(d)], {}) = 0
      BY SumEmpty
    <3>3. Left(new, {}) = new.amount
      BY <1>8, <1>9, <3>1, <3>2 DEF Left
    <3> QED BY <1>9, <2>1, <3>1, <3>3
  <2>2. CASE V # {}
    BY <1>3, <2>2 DEF Allocated, RemainsWhatIsLeft
  <2> QED BY <2>1, <2>2
<1>11. FillOf(c) = Share(c, new)
  <2>1. Share(c, new) = MinInt(orders[c].amount, tx.remaining)
    BY <1>4, <1>7, <1>9, <1>10 DEF Share
  <2> QED BY <1>1, <1>8, <2>1 DEF MinInt
<1> QED BY <1>1, <1>2, <1>3, <1>4, <1>5, <1>6, <1>9, <1>10, <1>11

\* The sum of the shares grows by the share of the next order.
LEMMA GotNext ==
  ASSUME NEW new, NEW V, IsFiniteSet(V), NEW c, c \notin V,
         \A v \in V : Share(v, new) \in Nat, Share(c, new) \in Nat
  PROVE  /\ Got(new, V) \in Nat
         /\ Got(new, V \cup {c}) = Share(c, new) + Got(new, V)
<1> DEFINE f == [v \in V \cup {c} |-> Share(v, new)]
           g == [v \in V |-> Share(v, new)]
<1>1. /\ \A v \in V : f[v] = g[v] /\ g[v] \in Nat
      /\ f[c] = Share(c, new)
  OBVIOUS
<1>2. Got(new, V) = SumFunctionOnSet(g, V) /\ Got(new, V \cup {c}) = SumFunctionOnSet(f, V \cup {c})
  BY DEF Got
<1> HIDE DEF f, g
<1>3. SumFunctionOnSet(g, V) \in Nat
  BY <1>1, SumIsNat
<1>4. f[c] \in Int /\ \A v \in V : f[v] = g[v] /\ g[v] \in Int
  BY <1>1
<1>5. SumFunctionOnSet(f, V \cup {c}) = f[c] + SumFunctionOnSet(g, V)
  BY <1>4, SumAdd
<1> QED BY <1>1, <1>2, <1>3, <1>5

\* The next order takes the last place.
LEMMA PlaceNext ==
  ASSUME NEW new, NEW V, IsFiniteSet(V), NEW c, c \notin V, ~Precedes(orders, new, c, c),
         \A v \in V : Precedes(orders, new, v, c) /\ ~Precedes(orders, new, c, v)
  PROVE  /\ \A v \in V : Place(v, new, V \cup {c}) = Place(v, new, V)
         /\ Place(c, new, V \cup {c}) = Cardinality(V)
         /\ Cardinality(V \cup {c}) = Cardinality(V) + 1 /\ Cardinality(V) \in Nat
<1>1. \A v \in V : {d \in V \cup {c} : Precedes(orders, new, d, v)}
                     = {d \in V : Precedes(orders, new, d, v)}
  OBVIOUS
<1>2. {d \in V \cup {c} : Precedes(orders, new, d, c)} = V
  OBVIOUS
<1>3. Cardinality(V \cup {c}) = Cardinality(V) + 1 /\ Cardinality(V) \in Nat
  BY FS_AddElement, FS_CardinalityType
<1> QED BY <1>1, <1>2, <1>3 DEF Place

LEMMA MatchAllocates ==
  ASSUME IInv, AllocInv, NEW c \in tx.cands, MatchStep(c)
  PROVE  AllocInv'
<1>1. PICK new : new = Asked
  OBVIOUS
<1>2. PICK V : V = Visited(new)
  BY Zenon
<1> DEFINE f == FillOf(c)
<1>3. /\ tx # NoTx /\ tx \in Transaction /\ TypeOK
      /\ UNCHANGED <<orders, orderSeq, now, height, markets>>
      /\ orderSeq \in Nat /\ c \in 0 .. orderSeq - 1 /\ tx.id = orderSeq
      /\ tx.branch[c] = orders[c] /\ orders[c] \in Order
      /\ tx'.cands = tx.cands \ {c} /\ tx'.remaining = tx.remaining - f
      /\ tx'.order = Fill(tx.order, f) /\ tx'.trades = Append(tx.trades, MatchTrade(c))
      /\ tx'.branch[c] = Fill(orders[c], f)
      /\ \A i \in 0 .. orderSeq - 1 : i # c => tx'.branch[i] = tx.branch[i]
  BY MatchFacts DEF IInv, MatchStep, marketVars
<1>4. /\ new \in Order /\ SameTerms(tx.order, new) /\ Allocated(new)
      /\ V \subseteq 0 .. orderSeq - 1 /\ c \in Candidates(orders, new) /\ c \notin V
      /\ \A v \in V : Precedes(orders, new, v, c) /\ ~Precedes(orders, new, c, v)
      /\ \A d \in tx.cands \ {c} : Precedes(orders, new, c, d)
      /\ new.amount > 0 /\ tx.remaining = Left(new, V)
      /\ f = Share(c, new) /\ f \in Int /\ f > 0
      /\ orders[c].amount > 0 /\ Left(new, V) > 0
      /\ f = MinInt(Left(new, V), orders[c].amount)
  BY <1>1, <1>2, NextShare
<1> HIDE DEF f
<1>5. Asked' = new
  <2>1. SameTerms(tx.order, tx'.order)
    BY <1>3, <1>4, FillFacts DEF Transaction
  <2> QED BY <1>1, <2>1, AskedSame
<1>6. Visited(new)' = V \cup {c}
  <2>1. Candidates(orders, new)' = Candidates(orders, new)
    BY <1>3
  <2> QED BY <1>2, <1>3, <1>4, <2>1 DEF Visited
<1>7. IsFiniteSet(V) /\ new.amount \in Int
  BY <1>3, <1>4, OffersAddUp, OrderFields
<1>8. \A v \in V \cup {c} : Share(v, new) > 0 /\ Share(v, new) \in Nat
  <2>1. \A v \in V : Share(v, new) > 0 /\ Share(v, new) \in Int
    <3> TAKE v \in V
    <3>1. Share(v, new) > 0
      BY <1>2, <1>4 DEF Allocated, VisitsBestFirst
    <3> QED BY <1>3, <1>4, <1>7, <3>1, ShareIsInt
  <2>2. Share(c, new) > 0 /\ Share(c, new) \in Int
    BY <1>4
  <2>3. \A v \in V \cup {c} : Share(v, new) > 0 /\ Share(v, new) \in Int
    BY <2>1, <2>2
  <2> QED BY <2>3
<1>9. Got(new, V) \in Nat /\ Got(new, V \cup {c}) = f + Got(new, V)
  BY <1>4, <1>7, <1>8, GotNext
<1>10. Acceptable(new)'
  BY <1>3, <1>4 DEF Allocated, Acceptable
<1>11. VisitsBestFirst(new)'
  <2>1. /\ tx.cands \subseteq Candidates(orders, new)
        /\ \A v \in V, d \in tx.cands : Precedes(orders, new, v, d)
        /\ \A i \in 0 .. orderSeq - 1 :
             tx.branch[i] = IF i \in V THEN Fill(orders[i], Share(i, new)) ELSE orders[i]
    BY <1>2, <1>4 DEF Allocated, VisitsBestFirst
  <2>2. \A i \in 0 .. orderSeq - 1 :
          tx'.branch[i] = IF i \in V \cup {c} THEN Fill(orders[i], Share(i, new)) ELSE orders[i]
    BY <1>3, <1>4, <2>1
  <2>3. \A v \in V \cup {c}, d \in tx.cands \ {c} : Precedes(orders, new, v, d)
    BY <1>4, <2>1
  <2>4. /\ Candidates(orders, new)' = Candidates(orders, new)
        /\ \A v, d : Precedes(orders, new, v, d)' <=> Precedes(orders, new, v, d)
        /\ \A v : Share(v, new)' = Share(v, new)
    BY <1>3, SameAllocation
  <2> QED BY <1>3, <1>6, <1>8, <2>1, <2>2, <2>3, <2>4 DEF VisitsBestFirst
<1>12. RemainsWhatIsLeft(new)'
  <2>1. tx.remaining = new.amount - Got(new, V) /\ tx.order = FilledIf(new, Got(new, V))
    BY <1>2, <1>4 DEF Allocated, RemainsWhatIsLeft
  <2>2. tx'.remaining = Left(new, V \cup {c})
    <3>1. Left(new, V \cup {c}) = Left(new, V) - MinInt(Left(new, V), orders[c].amount)
      <4>1. /\ TypeOK /\ new.amount \in Int /\ V \subseteq 0 .. orderSeq - 1
            /\ c \in 0 .. orderSeq - 1 /\ c \notin V
            /\ orders[c].amount > 0 /\ Left(new, V) > 0
        BY <1>3, <1>4, <1>7
      <4> QED BY <4>1, LeftAfter
    <3> QED BY <1>3, <1>4, <3>1
  <2>3. tx'.remaining = new.amount - Got(new, V \cup {c})
    BY <1>3, <1>4, <1>7, <1>9, <2>1
  <2>4. tx'.order = FilledIf(new, Got(new, V \cup {c}))
    <3> DEFINE g == Got(new, V)
    <3>1. g \in Int /\ g >= 0 /\ Got(new, V \cup {c}) = g + f /\ g + f # 0
      BY <1>4, <1>9
    <3> HIDE DEF g
    <3>2. CASE g = 0
      <4>1. tx'.order = Fill(new, f) /\ g + f = f
        BY <1>3, <1>4, <2>1, <3>2 DEF FilledIf, g
      <4> QED BY <3>1, <4>1 DEF FilledIf
    <3>3. CASE g # 0
      <4>1. tx'.order = Fill(Fill(new, g), f)
        BY <1>3, <2>1, <3>3 DEF FilledIf, g
      <4>2. tx'.order = Fill(new, g + f)
        BY <1>4, <3>1, <4>1, FillTwice
      <4> QED BY <3>1, <4>2 DEF FilledIf
    <3> QED BY <3>2, <3>3
  <2>5. Left(new, Visited(new))' = Left(new, V \cup {c})
    BY <1>3, <1>6 DEF Left, Offered
  <2>6. Got(new, Visited(new))' = Got(new, V \cup {c})
    <3>1. \A v : Share(v, new)' = Share(v, new)
      BY <1>3, SameAllocation
    <3> QED BY <1>6, <3>1 DEF Got
  <2> QED BY <1>4, <1>6, <2>2, <2>3, <2>4, <2>5, <2>6 DEF RemainsWhatIsLeft
<1>13. TradesInOrder(new)'
  <2> DEFINE W == V \cup {c}
             n == Cardinality(V)
             us == Append(tx.trades, MatchTrade(c))
  <2>1. /\ tx.trades \in Seq(Trade) /\ Len(tx.trades) = n /\ n \in Nat
        /\ \A v \in V : /\ Place(v, new, V) + 1 \in 1 .. n
                        /\ tx.trades[Place(v, new, V) + 1] = Execution(v, new)
        /\ \A k \in 1 .. n : \E v \in V : Place(v, new, V) = k - 1
    BY <1>2, <1>3, <1>4, <1>7, FS_CardinalityType
       DEF Allocated, TradesInOrder, Transaction
  <2>2. /\ \A v \in V : Place(v, new, W) = Place(v, new, V)
        /\ Place(c, new, W) = n /\ Cardinality(W) = n + 1
    <3>1. ~Precedes(orders, new, c, c)
      BY <1>3, PrecedesOneWay
    <3>2. /\ IsFiniteSet(V) /\ c \notin V
          /\ \A v \in V : Precedes(orders, new, v, c) /\ ~Precedes(orders, new, c, v)
      BY <1>4, <1>7
    <3> HIDE DEF n
    <3>3. /\ \A v \in V : Place(v, new, V \cup {c}) = Place(v, new, V)
          /\ Place(c, new, V \cup {c}) = Cardinality(V)
          /\ Cardinality(V \cup {c}) = Cardinality(V) + 1
      BY <3>1, <3>2, PlaceNext
    <3> QED BY <3>3 DEF n
  <2>3. MatchTrade(c) = Execution(c, new)
    BY <1>3, <1>4 DEF MatchTrade, Execution, Buyer, Seller, SameTerms, f
  <2>4. /\ Len(us) = n + 1 /\ us[n + 1] = Execution(c, new)
        /\ \A k \in 1 .. n : us[k] = tx.trades[k]
    BY <2>1, <2>3
  <2>5. /\ \A v : v \in W <=> v \in V \/ v = c
        /\ Visited(new)' = W /\ tx'.trades = us
    BY <1>3, <1>6
  <2> HIDE DEF W, n, us
  <2>6. \A v \in W : Place(v, new, W) + 1 \in 1 .. n + 1
                     /\ us[Place(v, new, W) + 1] = Execution(v, new)
    <3> TAKE v \in W
    <3>1. CASE v = c
      BY <2>1, <2>2, <2>4, <3>1
    <3>2. CASE v \in V
      <4>1. Place(v, new, W) + 1 \in 1 .. n
        BY <2>1, <2>2, <3>2
      <4>2. us[Place(v, new, W) + 1] = Execution(v, new)
        BY <2>1, <2>2, <2>4, <3>2, <4>1
      <4> QED BY <2>1, <4>1, <4>2
    <3> QED BY <2>5, <3>1, <3>2
  <2>7. \A k \in 1 .. n + 1 : \E v \in W : Place(v, new, W) = k - 1
    <3> TAKE k \in 1 .. n + 1
    <3>1. CASE k = n + 1
      BY <2>1, <2>2, <2>5, <3>1
    <3>2. CASE k \in 1 .. n
      BY <2>1, <2>2, <2>5, <3>2
    <3> QED BY <2>1, <3>1, <3>2
  <2>8. /\ \A v : Execution(v, new)' = Execution(v, new)
        /\ \A v : Place(v, new, Visited(new))' = Place(v, new, W)
    <3>1. \A v : Execution(v, new)' = Execution(v, new)
      BY <1>3, SameAllocation
    <3>2. \A v : Place(v, new, Visited(new))' = Place(v, new, W)
      BY <1>3, <2>5 DEF Place
    <3> QED BY <3>1, <3>2
  <2> QED BY <2>2, <2>4, <2>5, <2>6, <2>7, <2>8 DEF TradesInOrder
<1> QED BY <1>5, <1>10, <1>11, <1>12, <1>13 DEF AllocInv, Allocated

LEMMA AllocNext == IInv /\ AllocInv /\ [Next]_vars => AllocInv'
<1> SUFFICES ASSUME IInv, AllocInv, [Next]_vars PROVE AllocInv'
  OBVIOUS
<1>1. CASE PostSome
  <2>1. TypeOK
    BY DEF IInv
  <2> QED BY <1>1, <2>1, PostAllocates DEF PostSome, PostOrder
<1>2. CASE Matching
  <2>1. PICK c \in tx.cands : MatchStep(c) \/ AbortPost(c)
    BY <1>2 DEF Matching
  <2>2. CASE MatchStep(c)
    BY <2>2, MatchAllocates
  <2>3. CASE AbortPost(c)
    BY <2>3 DEF AbortPost, AllocInv
  <2> QED BY <2>1, <2>2, <2>3
<1>3. CASE CreateSome \/ BeginBlock \/ CommitPost \/ CancelSome \/ FillSome
  <2>1. tx' = NoTx
    BY <1>3 DEF CreateSome, NewMarket, BeginBlock, CommitPost, CancelSome, CancelOrder,
                FillSome, FillOrder
  <2> QED BY <2>1 DEF AllocInv
<1>4. CASE UNCHANGED vars
  <2>1. UNCHANGED <<now, height, markets, orders, orderSeq, tx>>
    BY <1>4 DEF vars, clockVars, marketVars, bookVars
  <2>2. ASSUME NEW new PROVE Allocated(new)' <=> Allocated(new)
    <3>1. /\ Acceptable(new)' <=> Acceptable(new)
          /\ Visited(new)' = Visited(new)
      BY <2>1 DEF Acceptable, Visited
    <3>2. VisitsBestFirst(new)' <=> VisitsBestFirst(new)
      BY <2>1 DEF VisitsBestFirst, Visited, Share, Ahead, Left, Offered
    <3>3. RemainsWhatIsLeft(new)' <=> RemainsWhatIsLeft(new)
      BY <2>1 DEF RemainsWhatIsLeft, Visited, Got, Share, Ahead, Left, Offered
    <3>4. TradesInOrder(new)' <=> TradesInOrder(new)
      BY <2>1 DEF TradesInOrder, Visited, Place, Execution, Share, Ahead, Left, Offered
    <3> QED BY <3>1, <3>2, <3>3, <3>4 DEF Allocated
  <2>3. Asked' = Asked
    BY <2>1 DEF Asked
  <2> QED BY <2>1, <2>2, <2>3 DEF AllocInv
<1> QED BY <1>1, <1>2, <1>3, <1>4 DEF Next

(***************************************************************************)
(* The steps                                                               *)
(***************************************************************************)

\* When the loop ends, the orders visited are the makers, and everything that
\* the exchange allocates is in the transaction.
LEMMA AllAllocated ==
  ASSUME IInv, AllocInv, tx # NoTx, LoopEnds, NEW new, new = Asked
  PROVE  LET V == Visited(new)
         IN /\ \A c : c \in V <=> c \in 0 .. orderSeq - 1 /\ Share(c, new) > 0
            /\ \A c \in 0 .. orderSeq - 1 : c \notin V => Share(c, new) = 0
            /\ Candidates(orders, new) # {} => new.amount > 0
<1>1. /\ TypeOK /\ tx \in Transaction /\ Allocated(new)
      /\ new \in Order /\ new.amount \in Int /\ new.amount # 0
  <2>1. TypeOK /\ tx \in Transaction /\ Allocated(new)
    BY DEF IInv, TypeOK, AllocInv
  <2> QED BY <2>1, AskedFacts, OrderFields DEF Allocated, Acceptable
<1> DEFINE V == Visited(new)
<1>2. /\ V \subseteq Candidates(orders, new) /\ V \subseteq 0 .. orderSeq - 1
      /\ \A c \in Candidates(orders, new) : c \in V \/ c \in tx.cands
      /\ \A v \in V : Share(v, new) > 0
      /\ \A v \in V, c \in tx.cands : Precedes(orders, new, v, c)
  BY <1>1, CandidatesAreStored DEF Visited, Allocated, VisitsBestFirst
<1>3. ASSUME NEW c \in 0 .. orderSeq - 1, c \notin V PROVE Share(c, new) = 0
  <2>1. CASE c \notin Candidates(orders, new)
    BY <2>1 DEF Share
  <2>2. CASE c \in Candidates(orders, new)
    <3>1. c \in tx.cands /\ tx.remaining = 0
      BY <1>2, <1>3, <2>2 DEF LoopEnds
    <3>2. Left(new, V) = 0
      BY <1>1, <3>1 DEF Allocated, RemainsWhatIsLeft
    <3>3. V \subseteq Ahead(c, new) /\ Ahead(c, new) \subseteq 0 .. orderSeq - 1
      BY <1>1, <1>2, <3>1, CandidatesAreStored DEF Ahead
    <3> HIDE DEF V
    <3>4. Left(new, Ahead(c, new)) <= Left(new, V) /\ Left(new, Ahead(c, new)) \in Nat
      BY <1>1, <3>3, LeftShrinks
    <3> QED BY <3>2, <3>4 DEF Share
  <2> QED BY <2>1, <2>2
<1>4. Candidates(orders, new) # {} => new.amount > 0
  <2>1. CASE V # {}
    BY <1>1, <2>1 DEF Allocated, RemainsWhatIsLeft
  <2>2. CASE V = {}
    <3>1. tx.remaining # 0
      BY <1>1, <2>2 DEF Allocated, RemainsWhatIsLeft
    <3> QED BY <1>2, <2>2, <3>1 DEF LoopEnds
  <2> QED BY <2>1, <2>2
<1> QED BY <1>2, <1>3, <1>4

LEMMA CommitIsPost ==
  ASSUME IInv, AllocInv, CommitPost
  PROVE  Ideal!PostSome
<1>1. PICK new : new = Asked
  OBVIOUS
<1>2. PICK V : V = Visited(new)
  OBVIOUS
<1>3. /\ TypeOK /\ tx # NoTx /\ tx \in Transaction /\ LoopEnds /\ Allocated(new)
      /\ new \in Order /\ new.createdAt = now /\ orderSeq \in Nat
      /\ DOMAIN orders = 0 .. orderSeq - 1
      /\ orders' \in [0 .. orderSeq -> Order] /\ orders'[orderSeq] = tx.order
      /\ \A i \in 0 .. orderSeq - 1 : orders'[i] = tx.branch[i]
      /\ orderSeq' = orderSeq + 1 /\ trades' = trades \o tx.trades
      /\ UNCHANGED <<clockVars, marketVars>>
  <2>1. TypeOK /\ tx # NoTx /\ tx \in Transaction /\ Allocated(new) /\ LoopEnds
    BY <1>1 DEF IInv, TypeOK, AllocInv, CommitPost
  <2>2. new \in Order /\ new.createdAt = now
    BY <1>1, <2>1, AskedFacts DEF IInv, LoopInvariant, SameTerms
  <2> QED BY <2>1, <2>2, CommitFacts DEF CommitPost, TypeOK
<1>4. /\ \A c : c \in V <=> c \in 0 .. orderSeq - 1 /\ Share(c, new) > 0
      /\ \A c \in 0 .. orderSeq - 1 : c \notin V => Share(c, new) = 0
      /\ Candidates(orders, new) # {} => new.amount > 0
  BY <1>1, <1>2, <1>3, AllAllocated
<1>5. Ideal!Makers(new) = V
  BY <1>3, <1>4, SameShare DEF Ideal!Makers
<1>6. Ideal!Clears(new)
  <2>1. \A c \in Candidates(orders, new) : new.amount > 0 /\ Share(c, new) >= 0
    <3> TAKE c \in Candidates(orders, new)
    <3>1. c \in 0 .. orderSeq - 1 /\ Share(c, new) \in Int
      BY <1>3, CandidatesAreStored, OrderFields, ShareIsInt
    <3> QED BY <1>4, <3>1
  <2> QED BY <1>4, <2>1, SameCandidates, SameShare DEF Ideal!Clears
<1>7. orders' = [id \in 0 .. orderSeq |->
                   IF id = orderSeq
                   THEN Ideal!FillIf(new, Ideal!SumFunctionOnSet(
                          [c \in Ideal!Makers(new) |-> Ideal!Share(c, new)], Ideal!Makers(new)))
                   ELSE Ideal!FillIf(orders[id], Ideal!Share(id, new))]
  <2> DEFINE got == Ideal!SumFunctionOnSet(
                      [c \in Ideal!Makers(new) |-> Ideal!Share(c, new)], Ideal!Makers(new))
  <2>1. got = Got(new, V)
    BY <1>5, SameShare, SameSum DEF Got
  <2>2. \A o, a : Ideal!FillIf(o, a) = FilledIf(o, a)
    BY SameFill DEF Ideal!FillIf, FilledIf
  <2>3. orders'[orderSeq] = Ideal!FillIf(new, got)
    BY <1>2, <1>3, <2>1, <2>2 DEF Allocated, RemainsWhatIsLeft
  <2>4. \A id \in 0 .. orderSeq - 1 : orders'[id] = Ideal!FillIf(orders[id], Ideal!Share(id, new))
    <3> TAKE id \in 0 .. orderSeq - 1
    <3>1. orders'[id] = IF id \in V THEN Fill(orders[id], Share(id, new)) ELSE orders[id]
      BY <1>2, <1>3 DEF Allocated, VisitsBestFirst
    <3>2. id \in V => Share(id, new) # 0
      BY <1>4
    <3> QED BY <1>4, <2>2, <3>1, <3>2, SameShare DEF FilledIf
  <2>5. \A id \in 0 .. orderSeq : id = orderSeq \/ id \in 0 .. orderSeq - 1
    BY <1>3
  <2>6. \A id \in 0 .. orderSeq :
          orders'[id] = IF id = orderSeq THEN Ideal!FillIf(new, got)
                        ELSE Ideal!FillIf(orders[id], Ideal!Share(id, new))
    BY <2>3, <2>4, <2>5
  <2> HIDE DEF got
  <2>7. orders' = [id \in 0 .. orderSeq |-> orders'[id]]
    BY <1>3
  <2>8. orders' = [id \in 0 .. orderSeq |->
                     IF id = orderSeq THEN Ideal!FillIf(new, got)
                     ELSE Ideal!FillIf(orders[id], Ideal!Share(id, new))]
    BY <2>6, <2>7
  <2> QED BY <2>8 DEF got
<1>8. tx.trades = Ideal!Executions(new)
  <2> DEFINE n == Cardinality(V)
             best(k) == CHOOSE c \in Ideal!Makers(new) : Ideal!Place(c, new) = k - 1
  <2>1. /\ tx.trades \in Seq(Trade) /\ Len(tx.trades) = n
        /\ \A v \in V : tx.trades[Place(v, new, V) + 1] = Execution(v, new)
        /\ \A k \in 1 .. n : \E v \in V : Place(v, new, V) = k - 1
    BY <1>2, <1>3 DEF Allocated, TradesInOrder, Transaction
  <2>2. Ideal!Executions(new) = [k \in 1 .. n |-> Ideal!Execution(best(k), new)]
    BY <1>5, SameCardinality DEF Ideal!Executions
  <2>3. ASSUME NEW k \in 1 .. n
        PROVE  best(k) \in V /\ Place(best(k), new, V) = k - 1
    <3>1. \A c : Ideal!Place(c, new) = Place(c, new, V)
      BY <1>5, SamePlace
    <3>2. \E c \in Ideal!Makers(new) : Ideal!Place(c, new) = k - 1
      BY <1>5, <2>1, <3>1
    <3>3. best(k) \in Ideal!Makers(new) /\ Ideal!Place(best(k), new) = k - 1
      BY <3>2
    <3> HIDE DEF best
    <3> QED BY <1>5, <3>1, <3>3
  <2> HIDE DEF best, n
  <2>4. \A k \in 1 .. n : tx.trades[k] = Ideal!Execution(best(k), new)
    <3> TAKE k \in 1 .. n
    <3>1. Place(best(k), new, V) + 1 = k
      BY <2>3
    <3> QED BY <2>1, <2>3, <3>1, SameExecution
  <2>5. tx.trades = [k \in 1 .. n |-> tx.trades[k]]
    BY <2>1
  <2> QED BY <2>2, <2>4, <2>5
<1>9. Ideal!Post(new)
  <2>1. /\ orderSeq < MaxOrders /\ new.market \in DOMAIN markets
        /\ new.outcome < Len(markets[new.market].outcomes) /\ new.amount # 0
    BY <1>3 DEF Allocated, Acceptable
  <2> QED BY <1>3, <1>6, <1>7, <1>8, <2>1
          DEF Ideal!Post, Ideal!clockVars, Ideal!marketVars, clockVars, marketVars
<1>10. /\ new.creator \in Users /\ new.market \in DOMAIN markets
       /\ new.outcome \in OutcomeIndexes /\ new.side \in Ideal!Sides
       /\ new.price \in Ideal!PriceTexts /\ new.amount \in Amounts /\ new.denom \in Denoms
  BY <1>3 DEF Allocated, Acceptable, Order, Sides, Ideal!Sides, PriceTexts, Ideal!PriceTexts
<1>11. new = [market |-> new.market, creator |-> new.creator, side |-> new.side,
              outcome |-> new.outcome, price |-> new.price, amount |-> new.amount,
              denom |-> new.denom, filled |-> 0, status |-> "OPEN", createdAt |-> now]
  BY <1>1, <1>3 DEF Asked
<1> QED BY <1>9, <1>10, <1>11 DEF Ideal!PostSome

LEMMA OtherSteps ==
  ASSUME TypeOK, TypeOK'
  PROVE  /\ CreateSome => Ideal!OpenMarket
         /\ BeginBlock => Ideal!Tick
         /\ CancelSome => Ideal!WithdrawSome
         /\ FillSome => Ideal!TakeSome
<1>1. ASSUME CreateSome PROVE Ideal!OpenMarket
  <2>1. PICK u \in Users, q \in Questions \cup {EmptyText}, o \in OutcomeLists,
             g \in Groups, d \in Deadlines : NewMarket(u, q, o, g, d)
    BY <1>1 DEF CreateSome
  <2>2. CreateMarket(u, q, o, g, d) /\ q \in Questions
    BY <2>1 DEF NewMarket, CreateMarket
  <2>3. Ideal!CreateMarket(u, q, o, g, d)
    BY <2>2 DEF CreateMarket, Ideal!CreateMarket, ValidOutcomes, Ideal!ValidOutcomes, Put,
                Ideal!Put, NextSeq, Ideal!NextSeq
  <2>4. UNCHANGED <<Ideal!clockVars, Ideal!bookVars>>
    BY <2>1 DEF NewMarket, clockVars, bookVars, Ideal!clockVars, Ideal!bookVars
  <2> QED BY <2>2, <2>3, <2>4 DEF Ideal!OpenMarket
<1>2. ASSUME BeginBlock PROVE Ideal!Tick
  BY <1>2 DEF BeginBlock, NextBlock, Ideal!Tick, Ideal!NextBlock, marketVars, bookVars,
              Ideal!marketVars, Ideal!bookVars
<1>3. ASSUME CancelSome PROVE Ideal!WithdrawSome
  <2>1. PICK u \in Users, id \in 0 .. orderSeq : CancelOrder(u, id)
    BY <1>3 DEF CancelSome
  <2>2. id \in DOMAIN orders /\ orders[id].status \in {"OPEN", "PARTIALLY_FILLED"}
    <3>1. id \in DOMAIN orders /\ orders[id].status \notin {"FILLED", "CANCELLED"}
      BY <2>1 DEF CancelOrder, Cancellable
    <3>2. orders[id].status \in Statuses
      BY <3>1, OrderFields DEF TypeOK
    <3> QED BY <3>1, <3>2 DEF Statuses
  <2>3. Ideal!Withdraw(id)
    BY <2>1, <2>2 DEF CancelOrder, Ideal!Withdraw, clockVars, marketVars, Ideal!clockVars,
                      Ideal!marketVars
  <2> QED BY <2>2, <2>3 DEF Ideal!WithdrawSome
<1>4. ASSUME FillSome PROVE Ideal!TakeSome
  <2>1. PICK u \in Users, id \in 0 .. orderSeq, a \in Amounts, dn \in Denoms :
               FillOrder(u, id, a, dn)
    BY <1>4 DEF FillSome
  <2>2. id \in DOMAIN orders /\ a \in Amounts
    BY <2>1 DEF FillOrder
  <2>3. a \in 1 .. Ideal!Available(orders[id])
    <3>1. a \in Int /\ a > 0 /\ a <= Available(orders[id]) /\ orders[id] \in Order
      BY <2>1, FillOrderTyped
    <3>2. Available(orders[id]) \in Int /\ Ideal!Available(orders[id]) = Available(orders[id])
      BY <3>1, OrderFields DEF Available, Ideal!Available
    <3> QED BY <3>1, <3>2
  <2>4. Ideal!Take(u, id, a, dn)
    BY <2>1, <2>2, <2>3, SameFill
       DEF FillOrder, Ideal!Take, clockVars, marketVars, Ideal!clockVars, Ideal!marketVars
  <2> QED BY <2>2, <2>4 DEF Ideal!TakeSome
<1> QED BY <1>1, <1>2, <1>3, <1>4

(***************************************************************************)
(* The refinement                                                          *)
(***************************************************************************)

\* A posted order, matched iteration by iteration in a transaction that may be
\* rolled back, is allocated as the atomic exchange allocates it: the commit is
\* the exchange's one step, the iterations and the rollback change nothing that
\* the exchange shows, and every other message is a step of the exchange.
THEOREM AtomicExchangeHolds == Spec => AtomicExchange
<1>1. OrderBookInit => Ideal!Init /\ AllocInv
  BY DEF OrderBookInit, MarketsInit, EmptyStore, Ideal!Init, Ideal!MarketsInit,
         Ideal!EmptyStore, AllocInv
<1>2. IInv /\ IInv' /\ AllocInv /\ [Next]_vars => [Ideal!Next]_(Ideal!vars)
  <2> SUFFICES ASSUME IInv, IInv', AllocInv, [Next]_vars
               PROVE  Ideal!Next \/ UNCHANGED Ideal!vars
    OBVIOUS
  <2>1. CASE CommitPost
    BY <2>1, CommitIsPost DEF Ideal!Next, Ideal!Trading
  <2>2. CASE CreateSome \/ BeginBlock \/ CancelSome \/ FillSome
    BY <2>2, OtherSteps DEF IInv, Ideal!Next, Ideal!Trading
  <2>3. CASE PostSome \/ Matching \/ UNCHANGED vars
    <3>1. UNCHANGED <<clockVars, marketVars, bookVars>>
      <4>1. PostSome => UNCHANGED <<clockVars, marketVars, bookVars>>
        BY DEF PostSome, PostOrder
      <4>2. Matching => UNCHANGED <<clockVars, marketVars, bookVars>>
        BY DEF Matching, MatchStep, AbortPost
      <4>3. UNCHANGED vars => UNCHANGED <<clockVars, marketVars, bookVars>>
        BY DEF vars
      <4> QED BY <2>3, <4>1, <4>2, <4>3
    <3> QED BY <3>1 DEF clockVars, marketVars, bookVars, Ideal!vars, Ideal!clockVars,
                        Ideal!marketVars, Ideal!bookVars
  <2> QED BY <2>1, <2>2, <2>3 DEF Next
<1> QED BY <1>1, <1>2, AllocNext, Invariance, PTL DEF Spec, AtomicExchange, Ideal!Spec
=============================================================================
