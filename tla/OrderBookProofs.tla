-------------------------- MODULE OrderBookProofs --------------------------
(***************************************************************************)
(* Proofs about the order book, for every set of users, prices, amounts    *)
(* and denominations and every bound.                                      *)
(***************************************************************************)
EXTENDS OrderBook, MarketsProofs, SequenceTheorems, TLAPS

(***************************************************************************)
(* The helpers                                                             *)
(***************************************************************************)

LEMMA PriceIsInt == \A text \in PriceTexts : ParsePrice(text) \in Int
BY OrdersAssumption DEF PriceTexts, ParsePrice

\* The arithmetic of an order is over the integers.
LEMMA OrderFields ==
  ASSUME NEW o \in Order
  PROVE  /\ o.amount \in Int /\ o.filled \in Int /\ Available(o) \in Int
         /\ o.createdAt \in Nat /\ ParsePrice(o.price) \in Int
         /\ o.side \in Sides /\ o.status \in Statuses
<1>1. o.amount \in Int /\ o.filled \in Int /\ o.createdAt \in Nat /\ o.price \in PriceTexts
      /\ o.side \in Sides /\ o.status \in Statuses
  BY DEF Order
<1>2. ParsePrice(o.price) \in Int
  BY <1>1, PriceIsInt
<1> QED BY <1>1, <1>2 DEF Available

\* What a fill does to an order.
LEMMA FillFacts ==
  ASSUME NEW o \in Order, NEW a \in Int
  PROVE  /\ Fill(o, a) \in Order
         /\ SameTerms(o, Fill(o, a))
         /\ Fill(o, a).filled = o.filled + a
         /\ Fill(o, a).status = IF o.filled + a = o.amount
                                THEN "FILLED" ELSE "PARTIALLY_FILLED"
<1> DEFINE st == IF o.filled + a = o.amount THEN "FILLED" ELSE "PARTIALLY_FILLED"
<1>1. o.filled + a \in Int /\ st \in Statuses
  BY DEF Order, Statuses
<1> HIDE DEF st
<1>2. Fill(o, a) = [o EXCEPT !.filled = o.filled + a, !.status = st]
  BY DEF Fill, st
<1>3. Fill(o, a) \in Order
  BY <1>1, <1>2 DEF Order
<1>4. SameTerms(o, Fill(o, a)) /\ Fill(o, a).filled = o.filled + a /\ Fill(o, a).status = st
  BY <1>2 DEF Order, SameTerms
<1> QED BY <1>3, <1>4 DEF st

\* Cancelling changes the status only.
LEMMA CancelFacts ==
  ASSUME NEW o \in Order
  PROVE  LET c == [o EXCEPT !.status = "CANCELLED"]
         IN c \in Order /\ SameTerms(o, c) /\ c.filled = o.filled /\ c.status = "CANCELLED"
BY DEF Order, SameTerms, Statuses

\* Meeting depends on the terms only.
LEMMA MeetTerms ==
  ASSUME NEW a, NEW b, NEW c, NEW d, SameTerms(a, c), SameTerms(b, d)
  PROVE  Meet(a, b) <=> Meet(c, d)
BY DEF Meet, SameTerms

\* The candidates of a new order are the open orders it meets.
LEMMA CandidatesMeet ==
  ASSUME NEW n \in Nat, NEW f \in [0 .. n -> Order], NEW new \in Order,
         NEW i \in 0 .. n
  PROVE  i \in Candidates(f, new) <=> f[i].status = "OPEN" /\ Meet(f[i], new)
<1>1. f[i] \in Order /\ DOMAIN f = 0 .. n
  OBVIOUS
<1>2. f[i].side \in {"BUY", "SELL"} /\ new.side \in {"BUY", "SELL"}
  BY <1>1, OrderFields DEF Sides
<1>3. ParsePrice(f[i].price) \in Int /\ ParsePrice(new.price) \in Int
  BY <1>1, OrderFields
<1> QED BY <1>1, <1>2, <1>3 DEF Candidates, SameBook, Crosses, Meet

(***************************************************************************)
(* Type correctness                                                        *)
(***************************************************************************)

\* A trade of the matching loop, and the store and order it leaves.
LEMMA MatchTyped ==
  ASSUME TypeOK, NEW c \in tx.cands, MatchStep(c)
  PROVE  /\ tx' \in Transaction
         /\ orderSeq' = orderSeq
<1> USE DEF TypeOK
<1>1. tx # NoTx /\ tx \in Transaction /\ orderSeq' = orderSeq
  BY DEF MatchStep, Visits, bookVars
<1>2. /\ c \in 0 .. orderSeq - 1 /\ orderSeq \in Nat
      /\ tx.branch \in [0 .. orderSeq -> Order] /\ tx.branch[c] \in Order
      /\ tx.order \in Order /\ tx.remaining \in Int /\ tx.trades \in Seq(Trade)
      /\ tx.cands \in SUBSET (0 .. orderSeq - 1) /\ tx.id = orderSeq
  BY <1>1 DEF Transaction
<1>3. CASE tx.branch[c].status # "OPEN" \/ FillOf(c) = 0
  <2>1. tx' = [tx EXCEPT !.cands = tx.cands \ {c}]
    BY <1>3 DEF MatchStep
  <2>2. tx' \in Transaction
    BY <2>1, <1>1, <1>2 DEF Transaction
  <2> QED BY <2>2, <1>1
<1>4. CASE ~(tx.branch[c].status # "OPEN" \/ FillOf(c) = 0)
  <2> DEFINE f == FillOf(c)
             b == Put(tx.branch, c, Fill(tx.branch[c], f))
             o == Fill(tx.order, f)
             r == tx.remaining - f
             ts == Append(tx.trades, MatchTrade(c))
  <2>1. tx' = [tx EXCEPT !.cands = tx.cands \ {c}, !.branch = b, !.order = o,
                         !.remaining = r, !.trades = ts]
    BY <1>4 DEF MatchStep
  <2>2. f \in Int
    <3>1. Available(tx.branch[c]) \in Int
      BY <1>2, OrderFields
    <3> QED BY <3>1, <1>2 DEF FillOf, MinInt
  <2> HIDE DEF f
  <2>3. o \in Order
    BY <1>2, <2>2, FillFacts
  <2>4. b \in [0 .. orderSeq -> Order]
    <3>1. Fill(tx.branch[c], f) \in Order
      BY <1>2, <2>2, FillFacts
    <3>2. c \in 0 .. orderSeq
      BY <1>2
    <3>3. \A v \in Order : Put(tx.branch, c, v) \in [0 .. orderSeq -> Order]
      <4> TAKE v \in Order
      <4>1. orderSeq \in Nat /\ tx.branch \in [0 .. orderSeq -> Order]
        BY <1>2
      <4> QED BY <4>1, <3>2, PutInside
    <3> QED BY <3>1, <3>3
  <2>5. MatchTrade(c) \in Trade
    <3> USE DEF f
    <3>1. Buyer(tx.order, tx.branch[c]) \in Users /\ Seller(tx.order, tx.branch[c]) \in Users
      BY <1>2 DEF Buyer, Seller, Order
    <3>2. height \in Nat /\ now \in Nat /\ {c, tx.id} \in SUBSET Nat
      BY <1>2, MarketsAssumption DEF MarketsTypeOK
    <3>3. /\ tx.order.market \in Nat /\ tx.order.outcome \in Nat /\ tx.order.denom \in Denoms
          /\ tx.branch[c].price \in PriceTexts
      BY <1>2 DEF Order
    <3> QED BY <3>1, <3>2, <3>3, <2>2 DEF MatchTrade, Trade
  <2>6. ts \in Seq(Trade) /\ r \in Int
    BY <2>5, <2>2, <1>2
  <2> HIDE DEF b, o, r, ts
  <2>7. tx' \in Transaction
    BY <2>1, <2>3, <2>4, <2>6, <1>1, <1>2 DEF Transaction
  <2> QED BY <2>7, <1>1
<1> QED BY <1>3, <1>4

\* An order is posted with the candidates it finds in its branch of the store.
LEMMA PostTyped ==
  ASSUME TypeOK,
         NEW u \in Users, NEW m \in 0 .. marketSeq, NEW oc \in OutcomeIndexes,
         NEW s \in Sides, NEW p \in PriceTexts, NEW a \in Amounts, NEW dn \in Denoms,
         PostOrder(u, m, oc, s, p, a, dn)
  PROVE  /\ tx' \in Transaction
         /\ tx'.order \in Order /\ tx'.order.side = s /\ tx'.order.createdAt = now
         /\ tx'.order.amount = a /\ tx'.order.filled = 0 /\ tx'.order.status = "OPEN"
         /\ tx'.remaining = a
         /\ tx'.branch[orderSeq] = tx'.order
         /\ \A i \in 0 .. orderSeq - 1 : tx'.branch[i] = orders[i]
         /\ tx'.cands = Candidates(tx'.branch, tx'.order)
<1> DEFINE new == [market |-> m, creator |-> u, side |-> s, outcome |-> oc, price |-> p,
                   amount |-> a, denom |-> dn, filled |-> 0, status |-> "OPEN",
                   createdAt |-> now]
           branch == Put(orders, orderSeq, new)
<1>1. orderSeq \in Nat /\ orders \in [0 .. orderSeq - 1 -> Order] /\ now \in Nat
      /\ marketSeq \in Nat
  BY MarketsAssumption DEF TypeOK, MarketsTypeOK
<1>2. new \in Order
  BY <1>1, OrdersAssumption, OrderBookAssumption DEF Order, Statuses
<1> HIDE DEF new
<1>3. /\ branch \in [0 .. orderSeq -> Order] /\ branch[orderSeq] = new
      /\ \A i \in 0 .. orderSeq - 1 : branch[i] = orders[i]
  <2>1. \A v \in Order : /\ Put(orders, orderSeq, v) \in [0 .. orderSeq -> Order]
                          /\ Put(orders, orderSeq, v)[orderSeq] = v
                          /\ \A i \in 0 .. orderSeq - 1 :
                               Put(orders, orderSeq, v)[i] = orders[i]
    <3> TAKE v \in Order
    <3>1. orderSeq \in Nat /\ orders \in [0 .. orderSeq - 1 -> Order]
      BY <1>1
    <3> QED BY <3>1, PutNext
  <2> QED BY <2>1, <1>2
<1> USE DEF new
<1>4. tx' = [id |-> orderSeq, order |-> new, cands |-> Candidates(branch, new),
             remaining |-> a, trades |-> <<>>, branch |-> branch]
  BY DEF PostOrder
<1>5. new.side = s /\ new.createdAt = now /\ new.amount = a /\ new.filled = 0
      /\ new.status = "OPEN"
  OBVIOUS
<1> HIDE DEF new, branch
<1>6. Candidates(branch, new) \in SUBSET (0 .. orderSeq - 1)
  <2>1. Candidates(branch, new) \subseteq 0 .. orderSeq
    BY <1>3 DEF Candidates
  <2>2. orderSeq \notin Candidates(branch, new)
    BY <1>3 DEF Candidates
  <2> QED BY <2>1, <2>2, <1>1
<1>7. <<>> \in Seq(Trade) /\ a \in Int
  BY OrdersAssumption
<1>8. tx' \in Transaction
  <2>1. orderSeq' = orderSeq
    BY DEF PostOrder, bookVars
  <2> QED BY <1>2, <1>3, <1>4, <1>6, <1>7 DEF Transaction
<1> QED BY <1>2, <1>3, <1>4, <1>5, <1>8

\* The committed order is stored after those of the branch.
LEMMA CommitFacts ==
  ASSUME TypeOK, CommitPost
  PROVE  /\ orderSeq \in Nat /\ orderSeq' = orderSeq + 1 /\ orderSeq' - 1 = orderSeq
         /\ tx # NoTx /\ tx \in Transaction /\ tx' = NoTx
         /\ orders' \in [0 .. orderSeq -> Order]
         /\ orders'[orderSeq] = tx.order
         /\ \A i \in 0 .. orderSeq - 1 : orders'[i] = tx.branch[i]
<1>1. /\ orderSeq \in Nat /\ tx # NoTx /\ tx \in Transaction
      /\ orders' = Put(tx.branch, tx.id, tx.order)
      /\ orderSeq' = orderSeq + 1 /\ tx' = NoTx
  BY DEF TypeOK, CommitPost, NextSeq
<1>2. /\ tx.id = orderSeq /\ tx.order \in Order
      /\ tx.branch \in [0 .. orderSeq -> Order]
  BY <1>1 DEF Transaction
<1>3. orderSeq \in 0 .. orderSeq /\ orderSeq' - 1 = orderSeq
  BY <1>1
<1>4. /\ orders' \in [0 .. orderSeq -> Order] /\ orders'[orderSeq] = tx.order
      /\ \A i \in 0 .. orderSeq : i # orderSeq => orders'[i] = tx.branch[i]
  BY <1>1, <1>2, <1>3, PutInside
<1>5. \A i \in 0 .. orderSeq - 1 : i \in 0 .. orderSeq /\ i # orderSeq
  BY <1>1
<1> QED BY <1>1, <1>3, <1>4, <1>5

\* Filling a resting order writes one typed order and appends one typed trade.
LEMMA FillOrderTyped ==
  ASSUME TypeOK,
         NEW u \in Users, NEW id \in 0 .. orderSeq, NEW a \in Amounts, NEW dn \in Denoms,
         FillOrder(u, id, a, dn)
  PROVE  /\ id \in 0 .. orderSeq - 1 /\ orders[id] \in Order
         /\ a \in Int /\ 0 < a /\ a <= Available(orders[id])
         /\ orders[id].status \in Live
         /\ orders' \in [0 .. orderSeq - 1 -> Order]
         /\ orders'[id] = Fill(orders[id], a)
         /\ \A i \in 0 .. orderSeq - 1 : i # id => orders'[i] = orders[i]
         /\ trades' \in Seq(Trade)
<1>1. orderSeq \in Nat /\ orders \in [0 .. orderSeq - 1 -> Order] /\ trades \in Seq(Trade)
      /\ height \in Nat /\ now \in Nat
  BY MarketsAssumption DEF TypeOK, MarketsTypeOK
<1>2. id \in 0 .. orderSeq - 1 /\ a \in Int /\ 0 < a /\ a <= Available(orders[id])
      /\ orders[id].status \in Live
  BY <1>1, OrdersAssumption DEF FillOrder, Live
<1>3. orders[id] \in Order /\ id \in Nat
  BY <1>1, <1>2
<1>4. Fill(orders[id], a) \in Order
  BY <1>2, <1>3, FillFacts
<1>5. orders' = [orders EXCEPT ![id] = Fill(orders[id], a)]
  BY DEF FillOrder
<1>6. /\ orders' \in [0 .. orderSeq - 1 -> Order] /\ orders'[id] = Fill(orders[id], a)
      /\ \A i \in 0 .. orderSeq - 1 : i # id => orders'[i] = orders[i]
  BY <1>1, <1>2, <1>4, <1>5
<1>7. trades' \in Seq(Trade)
  <2> DEFINE t == [id |-> height, market |-> orders[id].market,
                   outcome |-> orders[id].outcome,
                   buyer |-> u, seller |-> orders[id].creator,
                   price |-> orders[id].price, amount |-> a, denom |-> dn,
                   timestamp |-> now, fills |-> {id}]
  <2>1. /\ orders[id].market \in Nat /\ orders[id].outcome \in Nat
        /\ orders[id].creator \in Users /\ orders[id].price \in PriceTexts
    BY <1>3 DEF Order
  <2>2. t \in Trade
    BY <2>1, <1>1, <1>2, <1>3 DEF Trade
  <2>3. trades' = Append(trades, t)
    BY DEF FillOrder
  <2> QED BY <1>1, <2>2, <2>3
<1> QED BY <1>2, <1>3, <1>6, <1>7

LEMMA CancelTyped ==
  ASSUME TypeOK, NEW u \in Users, NEW id \in 0 .. orderSeq, CancelOrder(u, id)
  PROVE  /\ id \in 0 .. orderSeq - 1 /\ orders[id] \in Order
         /\ orders[id].status \notin {"FILLED", "CANCELLED"}
         /\ orders' \in [0 .. orderSeq - 1 -> Order]
         /\ orders'[id] = [orders[id] EXCEPT !.status = "CANCELLED"]
         /\ \A i \in 0 .. orderSeq - 1 : i # id => orders'[i] = orders[i]
<1>1. orderSeq \in Nat /\ orders \in [0 .. orderSeq - 1 -> Order]
  BY DEF TypeOK
<1>2. id \in 0 .. orderSeq - 1 /\ orders[id].status \notin {"FILLED", "CANCELLED"}
  BY <1>1 DEF CancelOrder, Cancellable
<1>3. orders' = [orders EXCEPT ![id] = [orders[id] EXCEPT !.status = "CANCELLED"]]
  BY <1>1, <1>2 DEF CancelOrder
<1>4. orders[id] \in Order /\ [orders[id] EXCEPT !.status = "CANCELLED"] \in Order
  BY <1>1, <1>2, CancelFacts
<1> QED BY <1>1, <1>2, <1>3, <1>4

LEMMA TypeInit == OrderBookInit => TypeOK
<1> SUFFICES ASSUME OrderBookInit PROVE TypeOK
  OBVIOUS
<1>1. 0 .. 0 - 1 = {}
  OBVIOUS
<1>2. MarketsTypeOK
  BY <1>1, MarketsAssumption DEF OrderBookInit, MarketsInit, MarketsTypeOK, EmptyStore
<1>3. orderSeq = 0 /\ orders = EmptyStore /\ trades = <<>> /\ tx = NoTx
  BY DEF OrderBookInit
<1>4. orders \in [0 .. orderSeq - 1 -> Order]
  BY <1>1, <1>3 DEF EmptyStore
<1>5. trades \in Seq(Trade)
  BY <1>3, EmptySeq
<1> QED BY <1>2, <1>3, <1>4, <1>5 DEF TypeOK

LEMMA TypeNext == TypeOK /\ [Next]_vars => TypeOK'
<1> SUFFICES ASSUME TypeOK, [Next]_vars PROVE TypeOK'
  OBVIOUS
<1>1. CASE CreateSome
  <2>1. PICK u \in Users, q \in Questions \cup {EmptyText}, o \in OutcomeLists,
             g \in Groups, d \in Deadlines : NewMarket(u, q, o, g, d)
    BY <1>1 DEF CreateSome
  <2>2. CreateMarket(u, q, o, g, d) /\ UNCHANGED <<clockVars, bookVars, tx>>
    BY <2>1 DEF NewMarket
  <2>3. MarketsTypeOK'
    BY <2>2, MarketTyped DEF TypeOK
  <2> QED BY <2>2, <2>3 DEF TypeOK, bookVars, Transaction
<1>2. CASE BeginBlock
  <2>1. NextBlock /\ UNCHANGED <<marketVars, bookVars, tx>>
    BY <1>2 DEF BeginBlock
  <2>2. MarketsTypeOK'
    BY <2>1, MarketsAssumption DEF TypeOK, MarketsTypeOK, NextBlock, marketVars
  <2> QED BY <2>1, <2>2 DEF TypeOK, bookVars, Transaction
<1>3. CASE PostSome
  <2>1. PICK u \in Users, m \in 0 .. marketSeq, oc \in OutcomeIndexes, s \in Sides,
             p \in PriceTexts, a \in Amounts, dn \in Denoms :
               PostOrder(u, m, oc, s, p, a, dn)
    BY <1>3 DEF PostSome
  <2>2. UNCHANGED <<clockVars, marketVars, bookVars>>
    BY <2>1 DEF PostOrder
  <2>3. tx' \in Transaction
    BY <2>1, PostTyped
  <2> QED BY <2>2, <2>3
          DEF TypeOK, MarketsTypeOK, clockVars, marketVars, bookVars, Transaction
<1>4. CASE Matching
  <2>1. PICK c \in tx.cands : MatchStep(c) \/ AbortPost(c)
    BY <1>4 DEF Matching
  <2>2. UNCHANGED <<clockVars, marketVars, bookVars>>
    BY <2>1 DEF MatchStep, AbortPost
  <2>3. tx' = NoTx \/ tx' \in Transaction
    BY <2>1, MatchTyped DEF AbortPost
  <2> QED BY <2>2, <2>3
          DEF TypeOK, MarketsTypeOK, clockVars, marketVars, bookVars, Transaction
<1>5. CASE CommitPost
  <2>1. UNCHANGED <<clockVars, marketVars>> /\ trades' = trades \o tx.trades
    BY <1>5 DEF CommitPost
  <2>2. trades' \in Seq(Trade)
    BY <1>5, <2>1, CommitFacts, ConcatProperties DEF TypeOK, Transaction
  <2>3. orderSeq' \in Nat /\ orders' \in [0 .. orderSeq' - 1 -> Order] /\ tx' = NoTx
    BY <1>5, CommitFacts
  <2> QED BY <2>1, <2>2, <2>3 DEF TypeOK, MarketsTypeOK, clockVars, marketVars
<1>6. CASE CancelSome
  <2>1. PICK u \in Users, id \in 0 .. orderSeq : CancelOrder(u, id)
    BY <1>6 DEF CancelSome
  <2>2. UNCHANGED <<clockVars, marketVars, orderSeq, trades, tx>>
    BY <2>1 DEF CancelOrder
  <2>3. orders' \in [0 .. orderSeq - 1 -> Order]
    BY <2>1, CancelTyped
  <2> QED BY <2>2, <2>3 DEF TypeOK, MarketsTypeOK, clockVars, marketVars, Transaction
<1>7. CASE FillSome
  <2>1. PICK u \in Users, id \in 0 .. orderSeq, a \in Amounts, dn \in Denoms :
               FillOrder(u, id, a, dn)
    BY <1>7 DEF FillSome
  <2>2. UNCHANGED <<clockVars, marketVars, orderSeq, tx>>
    BY <2>1 DEF FillOrder
  <2>3. orders' \in [0 .. orderSeq - 1 -> Order] /\ trades' \in Seq(Trade)
    BY <2>1, FillOrderTyped
  <2> QED BY <2>2, <2>3 DEF TypeOK, MarketsTypeOK, clockVars, marketVars, Transaction
<1>8. CASE UNCHANGED vars
  BY <1>8 DEF vars, TypeOK, MarketsTypeOK, clockVars, marketVars, bookVars, Transaction
<1> QED BY <1>1, <1>2, <1>3, <1>4, <1>5, <1>6, <1>7, <1>8 DEF Next

\* Whatever messages arrive, the stored markets, orders and trades stay well
\* typed and the ids stay below their sequences.
THEOREM TypeCorrect == Spec => []TypeOK
<1>1. OrderBookInit => TypeOK
  BY TypeInit
<1>2. TypeOK /\ [Next]_vars => TypeOK'
  BY TypeNext
<1> QED BY <1>1, <1>2, PTL DEF Spec

(***************************************************************************)
(* The inductive invariant                                                 *)
(*                                                                         *)
(* FillStatus and NoMissedMatch speak of the committed orders.  A commit   *)
(* preserves them because of what the matching loop did, which             *)
(* LoopInvariant says, and the loop visits candidates in the order of their*)
(* ids at one price because ids are given in the order of time.            *)
(***************************************************************************)
OrdersOK ==
  \A i \in 0 .. orderSeq - 1 :
    /\ orders[i].amount # 0 /\ StatusAgrees(orders[i]) /\ orders[i].createdAt <= now
    /\ \A j \in 0 .. orderSeq - 1 : i < j => orders[i].createdAt <= orders[j].createdAt

IInv == TypeOK /\ OrdersOK /\ NoMissedMatch /\ LoopInvariant

LEMMA AdvancesRefl == ASSUME NEW o \in Order PROVE Advances(o, o)
BY OrderFields DEF Advances, SameTerms

\* Filling part of what is available of a live order keeps its status true.
LEMMA FillAdvances ==
  ASSUME NEW o \in Order, NEW a \in Int, 0 < a, a <= Available(o),
         StatusAgrees(o), o.status \in Live
  PROVE  /\ StatusAgrees(Fill(o, a)) /\ Advances(o, Fill(o, a))
         /\ Fill(o, a).status \in {"FILLED", "PARTIALLY_FILLED"}
<1>1. o.filled \in Int /\ o.amount \in Int /\ a <= o.amount - o.filled
  BY OrderFields DEF Available
<1>2. 0 <= o.filled
  BY <1>1 DEF StatusAgrees, Live
<1>3. /\ SameTerms(o, Fill(o, a)) /\ Fill(o, a).amount = o.amount
      /\ Fill(o, a).filled = o.filled + a
      /\ Fill(o, a).status = IF o.filled + a = o.amount
                             THEN "FILLED" ELSE "PARTIALLY_FILLED"
  BY FillFacts DEF SameTerms
<1>4. StatusAgrees(Fill(o, a))
  BY <1>1, <1>2, <1>3 DEF StatusAgrees
<1>5. Advances(o, Fill(o, a))
  BY <1>1, <1>3 DEF Advances, Live
<1> QED BY <1>3, <1>4, <1>5

LEMMA CancelAdvances ==
  ASSUME NEW o \in Order, o.status \notin {"FILLED", "CANCELLED"}, StatusAgrees(o)
  PROVE  LET c == [o EXCEPT !.status = "CANCELLED"]
         IN StatusAgrees(c) /\ Advances(o, c) /\ c.status = "CANCELLED"
<1> DEFINE c == [o EXCEPT !.status = "CANCELLED"]
<1>1. SameTerms(o, c) /\ c.filled = o.filled /\ c.status = "CANCELLED" /\ c.amount = o.amount
  BY CancelFacts DEF SameTerms
<1>2. o.filled \in Int /\ o.status \in {"OPEN", "PARTIALLY_FILLED"}
  BY OrderFields DEF Statuses
<1> HIDE DEF c
<1>3. StatusAgrees(c) /\ Advances(o, c)
  BY <1>1, <1>2 DEF StatusAgrees, Advances
<1> QED BY <1>1, <1>3 DEF c

\* A candidate that the loop prefers is not one that price-time priority ranks
\* after the other.
LEMMA PrecedesRanks ==
  ASSUME TypeOK, OrdersOK, NEW new \in Order, NEW store,
         NEW c \in 0 .. orderSeq - 1, NEW j \in 0 .. orderSeq - 1,
         store[c] = orders[c], store[j] = orders[j],
         Meet(orders[c], new), Meet(orders[j], new),
         Precedes(store, new, c, j), Ranks(j, c)
  PROVE  FALSE
<1>1. orders[c] \in Order /\ orders[j] \in Order /\ orderSeq \in Nat
  BY DEF TypeOK
<1> DEFINE pc == ParsePrice(orders[c].price)
           pj == ParsePrice(orders[j].price)
           tc == orders[c].createdAt
           tj == orders[j].createdAt
<1>2. pc \in Int /\ pj \in Int /\ tc \in Nat /\ tj \in Nat
  BY <1>1, OrderFields
<1>3. j < c => tj <= tc
  BY DEF OrdersOK
<1>4. \/ new.side = "BUY" /\ orders[c].side = "SELL" /\ orders[j].side = "SELL"
      \/ new.side = "SELL" /\ orders[c].side = "BUY" /\ orders[j].side = "BUY"
  BY DEF Meet
<1>5. CASE new.side = "BUY"
  <2>1. pc < pj \/ (pc = pj /\ (tc < tj \/ (tc = tj /\ c < j)))
    BY <1>5 DEF Precedes, BetterPrice
  <2>2. pj < pc \/ (pj = pc /\ j < c)
    BY <1>4, <1>5 DEF Ranks
  <2> HIDE DEF pc, pj, tc, tj
  <2> QED BY <2>1, <2>2, <1>1, <1>2, <1>3
<1>6. CASE new.side = "SELL"
  <2>1. pc > pj \/ (pc = pj /\ (tc < tj \/ (tc = tj /\ c < j)))
    BY <1>6 DEF Precedes, BetterPrice
  <2>2. -pj < -pc \/ (-pj = -pc /\ j < c)
    BY <1>4, <1>6 DEF Ranks
  <2> HIDE DEF pc, pj, tc, tj
  <2> QED BY <2>1, <2>2, <1>1, <1>2, <1>3
<1> QED BY <1>4, <1>5, <1>6

\* The loop starts with its invariant.
LEMMA LoopStarts ==
  ASSUME IInv,
         NEW u \in Users, NEW m \in 0 .. marketSeq, NEW oc \in OutcomeIndexes,
         NEW s \in Sides, NEW p \in PriceTexts, NEW a \in Amounts, NEW dn \in Denoms,
         PostOrder(u, m, oc, s, p, a, dn)
  PROVE  LoopInvariant'
<1>1. TypeOK /\ OrdersOK /\ orderSeq \in Nat /\ orders \in [0 .. orderSeq - 1 -> Order]
  BY DEF IInv, TypeOK
<1>2. now' = now /\ orders' = orders /\ orderSeq' = orderSeq /\ a # 0 /\ a \in Int
  BY OrdersAssumption DEF PostOrder, clockVars, bookVars
<1>3. /\ tx'.order \in Order /\ tx'.order.createdAt = now
      /\ tx'.order.amount = a /\ tx'.order.filled = 0 /\ tx'.order.status = "OPEN"
      /\ tx'.remaining = a /\ tx'.cands = Candidates(tx'.branch, tx'.order)
      /\ tx' \in Transaction
  BY <1>1, PostTyped
<1>4. \A i \in 0 .. orderSeq - 1 : tx'.branch[i] = orders[i]
  BY <1>1, PostTyped
<1>5. tx'.branch \in [0 .. orderSeq -> Order]
  BY <1>3 DEF Transaction
<1>6. ASSUME NEW i \in 0 .. orderSeq - 1
      PROVE  /\ StatusAgrees(tx'.branch[i]) /\ Advances(orders[i], tx'.branch[i])
             /\ i \in tx'.cands <=> tx'.branch[i].status = "OPEN" /\ Meet(orders[i], tx'.order)
             /\ tx'.branch[i] = orders[i]
  <2>1. orders[i] \in Order /\ StatusAgrees(orders[i]) /\ tx'.branch[i] = orders[i]
    BY <1>1, <1>4 DEF OrdersOK
  <2>2. i \in 0 .. orderSeq
    BY <1>1
  <2>3. i \in Candidates(tx'.branch, tx'.order)
          <=> tx'.branch[i].status = "OPEN" /\ Meet(tx'.branch[i], tx'.order)
    BY <2>2, <1>1, <1>3, <1>5, CandidatesMeet
  <2> QED BY <2>1, <2>3, <1>3, AdvancesRefl
<1>7. StatusAgrees(tx'.order) /\ tx'.remaining = tx'.order.amount - tx'.order.filled
  BY <1>2, <1>3 DEF StatusAgrees
<1> QED BY <1>2, <1>3, <1>6, <1>7 DEF LoopInvariant

\* One iteration of the loop: the candidate it visits is untouched, and takes what
\* is left to match or all it has.
LEMMA MatchFacts ==
  ASSUME IInv, NEW c \in tx.cands, MatchStep(c)
  PROVE  /\ tx # NoTx /\ tx \in Transaction /\ Visits(c)
         /\ UNCHANGED <<orders, orderSeq, trades, now, height>>
         /\ orderSeq \in Nat /\ c \in 0 .. orderSeq - 1 /\ tx.id = orderSeq
         /\ tx.branch[c] = orders[c] /\ orders[c] \in Order
         /\ orders[c].status = "OPEN" /\ orders[c].filled = 0
         /\ Meet(orders[c], tx.order)
         /\ FillOf(c) \in Int /\ FillOf(c) > 0
         /\ FillOf(c) = MinInt(tx.remaining, orders[c].amount)
         /\ tx'.id = tx.id /\ tx'.cands = tx.cands \ {c}
         /\ tx'.remaining = tx.remaining - FillOf(c)
         /\ tx'.order = Fill(tx.order, FillOf(c))
         /\ tx'.trades = Append(tx.trades, MatchTrade(c))
         /\ tx'.branch[c] = Fill(orders[c], FillOf(c))
         /\ \A i \in 0 .. orderSeq - 1 : i # c => tx'.branch[i] = tx.branch[i]
<1> DEFINE f == FillOf(c)
<1>1. /\ TypeOK /\ OrdersOK /\ LoopInvariant /\ Visits(c)
      /\ tx # NoTx /\ tx.remaining # 0 /\ tx \in Transaction
  BY DEF IInv, TypeOK, MatchStep, Visits
<1>2. UNCHANGED <<orders, orderSeq, trades, now, height>>
  BY DEF MatchStep, clockVars, bookVars
<1>3. /\ orderSeq \in Nat /\ c \in 0 .. orderSeq - 1
      /\ tx.branch \in [0 .. orderSeq -> Order]
      /\ tx.branch[c] \in Order /\ tx.order \in Order /\ tx.remaining \in Int
      /\ tx.id = orderSeq
  BY <1>1 DEF Transaction, TypeOK
<1>4. /\ tx.branch[c].status = "OPEN" /\ tx.branch[c] = orders[c] /\ tx.branch[c].filled = 0
      /\ tx.branch[c].amount # 0 /\ Meet(orders[c], tx.order)
  BY <1>1, <1>3 DEF LoopInvariant, Advances, StatusAgrees, OrdersOK
<1>5. Available(tx.branch[c]) = tx.branch[c].amount /\ tx.branch[c].amount \in Int
  <2>1. tx.branch[c].amount \in Int
    BY <1>3, OrderFields
  <2> QED BY <2>1, <1>4 DEF Available
<1>6. f \in Int /\ f # 0 /\ f = MinInt(tx.remaining, orders[c].amount)
  BY <1>1, <1>3, <1>4, <1>5 DEF FillOf, MinInt
<1> HIDE DEF f
<1> DEFINE b == Put(tx.branch, c, Fill(tx.branch[c], f))
           o == Fill(tx.order, f)
           t == MatchTrade(c)
<1>7. /\ f > 0
      /\ tx'.cands = tx.cands \ {c} /\ tx'.branch = b /\ tx'.order = o
      /\ tx'.remaining = tx.remaining - f /\ tx'.id = tx.id
      /\ tx'.trades = Append(tx.trades, t)
  <2>1. f > 0 /\ tx' = [tx EXCEPT !.cands     = @ \ {c},
                                  !.branch    = b,
                                  !.order     = o,
                                  !.remaining = @ - f,
                                  !.trades    = Append(@, t)]
    BY <1>4, <1>6 DEF MatchStep, f
  <2> HIDE DEF b, o, t
  <2> QED BY <2>1, <1>1 DEF Transaction
<1>8. b[c] = Fill(tx.branch[c], f) /\ \A i \in 0 .. orderSeq - 1 : i # c => b[i] = tx.branch[i]
  <2> DEFINE v == Fill(tx.branch[c], f)
  <2>1. c \in 0 .. orderSeq /\ \A i \in 0 .. orderSeq - 1 : i \in 0 .. orderSeq
    BY <1>3
  <2> HIDE DEF v
  <2>2. /\ Put(tx.branch, c, v)[c] = v
        /\ \A i \in 0 .. orderSeq : i # c => Put(tx.branch, c, v)[i] = tx.branch[i]
    BY <1>3, <2>1 DEF Put
  <2> QED BY <2>1, <2>2 DEF v
<1> HIDE DEF b, o, t
<1> QED BY <1>1, <1>2, <1>3, <1>4, <1>6, <1>7, <1>8 DEF f, b, o, t

\* One iteration of the loop keeps its invariant.
LEMMA LoopContinues ==
  ASSUME IInv, NEW c \in tx.cands, MatchStep(c)
  PROVE  LoopInvariant'
<1> DEFINE Ids == 0 .. orderSeq - 1
           f == FillOf(c)
           b == tx'.branch
           o == tx'.order
<1>1. /\ TypeOK /\ OrdersOK /\ LoopInvariant /\ Visits(c) /\ tx # NoTx
      /\ tx.remaining # 0 /\ orders' = orders /\ orderSeq' = orderSeq /\ now' = now
  BY MatchFacts DEF IInv, Visits
<1>3. /\ orderSeq \in Nat /\ c \in Ids /\ tx.branch \in [0 .. orderSeq -> Order]
      /\ tx.branch[c] \in Order /\ tx.order \in Order /\ tx.remaining \in Int
      /\ tx.cands \subseteq Ids
  BY MatchFacts DEF Transaction
<1>4. /\ tx.order.amount # 0 /\ tx.order.createdAt = now
      /\ tx.remaining = tx.order.amount - tx.order.filled
      /\ tx.order.status # "CANCELLED" /\ StatusAgrees(tx.order)
      /\ \A i \in Ids :
           /\ StatusAgrees(tx.branch[i]) /\ Advances(orders[i], tx.branch[i])
           /\ i \in tx.cands <=> tx.branch[i].status = "OPEN" /\ Meet(orders[i], tx.order)
           /\ tx.branch[i] # orders[i] =>
                /\ orders[i].status = "OPEN" /\ Meet(orders[i], tx.order)
                /\ tx.branch[i].status = "FILLED" \/ tx.remaining = 0
                /\ \A j \in Ids :
                     orders[j].status = "OPEN" /\ Meet(orders[j], tx.order) /\ Ranks(j, i)
                       => tx.branch[j].status = "FILLED"
  BY <1>1 DEF LoopInvariant
<1>5. /\ tx.branch[c].status = "OPEN" /\ tx.branch[c] = orders[c] /\ tx.branch[c].filled = 0
      /\ Meet(orders[c], tx.order)
  BY MatchFacts
<1>6. /\ Available(tx.branch[c]) = tx.branch[c].amount
      /\ tx.branch[c].amount \in Int /\ tx.order.amount \in Int /\ tx.order.filled \in Int
  <2>1. tx.branch[c].amount \in Int /\ tx.order.amount \in Int /\ tx.order.filled \in Int
    BY <1>3, OrderFields
  <2> QED BY <2>1, <1>5 DEF Available
<1>7. /\ f \in Int /\ f > 0 /\ f <= tx.remaining /\ f <= tx.branch[c].amount
      /\ f = tx.remaining \/ f = tx.branch[c].amount
  BY MatchFacts, <1>3, <1>5, <1>6 DEF MinInt
<1>8. /\ tx'.cands = tx.cands \ {c} /\ o = Fill(tx.order, f)
      /\ tx'.remaining = tx.remaining - f
  BY MatchFacts
<1>9. b[c] = Fill(tx.branch[c], f) /\ \A i \in Ids : i # c => b[i] = tx.branch[i]
  BY MatchFacts
<1> HIDE DEF f, b, o
<1>10. /\ StatusAgrees(b[c]) /\ Advances(orders[c], b[c])
       /\ b[c].status \in {"FILLED", "PARTIALLY_FILLED"}
       /\ b[c].status = "FILLED" \/ tx'.remaining = 0
  <2>1. StatusAgrees(tx.branch[c]) /\ tx.branch[c].status \in Live
    BY <1>3, <1>4, <1>5 DEF Live
  <2>2. /\ StatusAgrees(b[c]) /\ Advances(orders[c], b[c])
        /\ b[c].status \in {"FILLED", "PARTIALLY_FILLED"}
    BY <2>1, <1>3, <1>5, <1>6, <1>7, <1>8, <1>9, FillAdvances
  <2>3. b[c].status = IF 0 + f = tx.branch[c].amount THEN "FILLED" ELSE "PARTIALLY_FILLED"
    <3>1. Fill(tx.branch[c], f).status =
            IF tx.branch[c].filled + f = tx.branch[c].amount
            THEN "FILLED" ELSE "PARTIALLY_FILLED"
      BY <1>3, <1>7, FillFacts
    <3> QED BY <3>1, <1>5, <1>9
  <2>4. f = tx.branch[c].amount => b[c].status = "FILLED"
    BY <2>3, <1>7
  <2>5. f = tx.remaining => tx'.remaining = 0
    BY <1>3, <1>8
  <2> QED BY <2>2, <2>4, <2>5, <1>7
<1>11. /\ SameTerms(tx.order, o) /\ o.amount = tx.order.amount
       /\ o.createdAt = tx.order.createdAt /\ o.filled = tx.order.filled + f
       /\ o.status = IF tx.order.filled + f = tx.order.amount
                     THEN "FILLED" ELSE "PARTIALLY_FILLED"
  BY <1>3, <1>7, <1>8, FillFacts DEF SameTerms
<1>12. /\ o.amount # 0 /\ o.createdAt = now /\ tx'.remaining = o.amount - o.filled
       /\ o.status # "CANCELLED" /\ StatusAgrees(o)
  <2>1. o.amount # 0 /\ o.createdAt = now /\ tx'.remaining = o.amount - o.filled
    BY <1>4, <1>6, <1>7, <1>8, <1>11
  <2>2. 0 <= tx.order.filled
    <3>1. tx.order.status \in {"OPEN", "PARTIALLY_FILLED", "FILLED"}
      BY <1>3, <1>4, OrderFields DEF Statuses
    <3> QED BY <3>1, <1>4, <1>6 DEF StatusAgrees
  <2>3. 0 < o.filled /\ o.filled <= o.amount
    BY <2>2, <1>4, <1>6, <1>7, <1>8, <1>11
  <2>4. StatusAgrees(o) /\ o.status # "CANCELLED"
    BY <2>3, <1>6, <1>7, <1>11 DEF StatusAgrees
  <2> QED BY <2>1, <2>4
<1>13. \A i \in Ids : Meet(orders[i], o) <=> Meet(orders[i], tx.order)
  BY <1>11 DEF Meet, SameTerms
<1>14. ASSUME NEW i \in Ids
       PROVE  /\ StatusAgrees(b[i]) /\ Advances(orders[i], b[i])
              /\ i \in tx'.cands <=> b[i].status = "OPEN" /\ Meet(orders[i], o)
  <2>1. CASE i = c
    BY <2>1, <1>8, <1>10
  <2>2. CASE i # c
    BY <2>2, <1>4, <1>8, <1>9, <1>13
  <2> QED BY <2>1, <2>2
<1>15. ASSUME NEW i \in Ids, b[i] # orders[i], NEW j \in Ids,
              orders[j].status = "OPEN", Meet(orders[j], o), Ranks(j, i)
       PROVE  b[j].status = "FILLED"
  <2>0. Meet(orders[j], tx.order)
    BY <1>13, <1>15
  <2>1. CASE i # c
    <3>1. tx.branch[j].status = "FILLED"
      BY <2>0, <2>1, <1>4, <1>9, <1>15
    <3>2. j # c
      BY <3>1, <1>5
    <3> QED BY <3>1, <3>2, <1>9
  <2>2. CASE i = c
    <3>1. j # c
      <4>1. ParsePrice(orders[c].price) \in Int
        BY <1>3, <1>5, OrderFields
      <4> QED BY <4>1, <2>2, <1>3, <1>15 DEF Ranks
    <3>2. j \notin tx.cands
      <4> SUFFICES ASSUME j \in tx.cands PROVE FALSE
        OBVIOUS
      <4>1. Precedes(tx.branch, tx.order, c, j)
        BY <3>1, <1>1 DEF Visits
      <4>2. tx.branch[j] = orders[j]
        BY <1>3, <1>4 DEF Advances
      <4> QED BY <4>1, <4>2, <2>0, <2>2, <1>1, <1>3, <1>5, <1>15, PrecedesRanks
    <3>3. tx.branch[j].status # "OPEN"
      BY <3>2, <2>0, <1>4
    <3>4. tx.branch[j] # orders[j]
      BY <3>3, <1>15
    <3>5. tx.branch[j].status = "FILLED"
      BY <3>4, <1>1, <1>4
    <3> QED BY <3>1, <3>5, <1>9
  <2> QED BY <2>1, <2>2
<1>16. ASSUME NEW i \in Ids, b[i] # orders[i]
       PROVE  /\ orders[i].status = "OPEN" /\ Meet(orders[i], o)
              /\ b[i].status = "FILLED" \/ tx'.remaining = 0
  <2>1. CASE i = c
    BY <2>1, <1>5, <1>10, <1>13
  <2>2. CASE i # c
    BY <2>2, <1>1, <1>4, <1>9, <1>13, <1>16
  <2> QED BY <2>1, <2>2
<1>17. \A i, j \in Ids : Ranks(j, i)' <=> Ranks(j, i)
  BY <1>1 DEF Ranks
<1> QED BY <1>1, <1>8, <1>12, <1>14, <1>15, <1>16, <1>17 DEF LoopInvariant, b, o

\* What a commit finds when the loop has ended: a new order that is still live
\* meets no open order.
LEMMA CommitMissesNothing ==
  ASSUME IInv, CommitPost, NEW i \in 0 .. orderSeq - 1,
         tx.branch[i].status = "OPEN", tx.order.status \in Live
  PROVE  ~Meet(orders[i], tx.order)
<1> SUFFICES ASSUME Meet(orders[i], tx.order) PROVE FALSE
  OBVIOUS
<1>1. TypeOK /\ LoopInvariant /\ tx # NoTx /\ LoopEnds /\ tx \in Transaction
  BY DEF IInv, TypeOK, CommitPost
<1>2. i \in tx.cands
  BY <1>1 DEF LoopInvariant
<1>3. tx.remaining = 0
  BY <1>1, <1>2 DEF LoopEnds
<1>4. tx.order \in Order
  BY <1>1 DEF Transaction
<1>5. tx.order.amount \in Int /\ tx.order.filled \in Int
  BY <1>4, OrderFields
<1>6. /\ tx.order.amount # 0 /\ tx.remaining = tx.order.amount - tx.order.filled
      /\ StatusAgrees(tx.order)
  BY <1>1 DEF LoopInvariant
<1>7. tx.order.amount = tx.order.filled
  BY <1>3, <1>5, <1>6
<1> QED BY <1>5, <1>6, <1>7 DEF StatusAgrees, Live

LEMMA CommitKeeps ==
  ASSUME IInv, CommitPost
  PROVE  OrdersOK' /\ NoMissedMatch'
<1> DEFINE Ids == 0 .. orderSeq - 1
<1>1. /\ TypeOK /\ OrdersOK /\ NoMissedMatch /\ LoopInvariant
      /\ orders \in [0 .. orderSeq - 1 -> Order] /\ now' = now
  BY DEF IInv, TypeOK, CommitPost, clockVars
<1>2. /\ orderSeq \in Nat /\ orderSeq' - 1 = orderSeq
      /\ tx # NoTx /\ tx \in Transaction
      /\ orders' \in [0 .. orderSeq -> Order]
      /\ orders'[orderSeq] = tx.order
      /\ \A i \in Ids : orders'[i] = tx.branch[i]
  BY <1>1, CommitFacts
<1>3. /\ tx.order.amount # 0 /\ tx.order.createdAt = now /\ StatusAgrees(tx.order)
      /\ \A i \in Ids : StatusAgrees(tx.branch[i]) /\ Advances(orders[i], tx.branch[i])
  BY <1>1, <1>2 DEF LoopInvariant
<1>4. now \in Nat /\ \A i \in Ids : orders[i].createdAt \in Nat
  BY <1>1, MarketsAssumption, OrderFields DEF TypeOK, MarketsTypeOK
<1>5. \A i \in Ids : /\ orders'[i].amount = orders[i].amount
                     /\ orders'[i].createdAt = orders[i].createdAt
                     /\ StatusAgrees(orders'[i]) /\ SameTerms(orders[i], orders'[i])
  BY <1>2, <1>3 DEF Advances, SameTerms
<1>6. \A i \in 0 .. orderSeq : i \in Ids \/ i = orderSeq
  BY <1>2
<1>7. OrdersOK'
  <2>1. \A i \in 0 .. orderSeq : /\ orders'[i].amount # 0 /\ StatusAgrees(orders'[i])
                                /\ orders'[i].createdAt <= now
    BY <1>1, <1>2, <1>3, <1>4, <1>5, <1>6 DEF OrdersOK
  <2>2. ASSUME NEW i \in 0 .. orderSeq, NEW j \in 0 .. orderSeq, i < j
        PROVE  orders'[i].createdAt <= orders'[j].createdAt
    <3>1. i \in Ids
      BY <2>2, <1>2
    <3>2. CASE j \in Ids
      BY <2>2, <3>1, <3>2, <1>1, <1>5 DEF OrdersOK
    <3>3. CASE j = orderSeq
      BY <3>1, <3>3, <1>1, <1>2, <1>3, <1>5 DEF OrdersOK
    <3> QED BY <3>2, <3>3, <1>6
  <2> QED BY <2>1, <2>2, <1>1, <1>2 DEF OrdersOK, StatusAgrees
<1>8. ASSUME NEW i \in 0 .. orderSeq, NEW j \in 0 .. orderSeq, i < j,
             orders'[i].status = "OPEN", orders'[j].status \in Live,
             Meet(orders'[i], orders'[j])
      PROVE  FALSE
  <2>1. i \in Ids /\ tx.branch[i].status = "OPEN" /\ orders'[i] = orders[i]
    BY <1>2, <1>3, <1>8 DEF Advances
  <2>2. CASE j \in Ids
    <3>1. orders[j] \in Order
      BY <2>2, <1>1
    <3>2. orders[j].status \in Live
      <4>1. orders[j].status \in Statuses
        BY <3>1, OrderFields
      <4>2. orders[j].status \in {"FILLED", "CANCELLED"} => orders'[j] = orders[j]
        BY <2>2, <1>2, <1>3 DEF Advances
      <4> QED BY <4>1, <4>2, <1>8 DEF Statuses, Live
    <3>3. Meet(orders[i], orders[j])
      BY <2>1, <2>2, <1>5, <1>8 DEF Meet, SameTerms
    <3> QED BY <2>1, <2>2, <3>2, <3>3, <1>1, <1>8 DEF NoMissedMatch
  <2>3. CASE j = orderSeq
    BY <2>1, <2>3, <1>2, <1>8, CommitMissesNothing
  <2> QED BY <2>2, <2>3, <1>6
<1>9. NoMissedMatch'
  <2>1. DOMAIN orders' = 0 .. orderSeq
    BY <1>2
  <2>2. Live' = Live /\ \A a, b : Meet(a, b)' <=> Meet(a, b)
    BY DEF Live, Meet
  <2> QED BY <2>1, <1>8 DEF NoMissedMatch, Live, Meet
<1> QED BY <1>7, <1>9

\* A change of one order that leaves it other than open, from a live state.
LEMMA OneOrderKeeps ==
  ASSUME IInv, tx = NoTx, tx' = NoTx, now' = now, orderSeq' = orderSeq,
         NEW id \in 0 .. orderSeq - 1, NEW o \in Order,
         orders' \in [0 .. orderSeq - 1 -> Order], orders'[id] = o,
         \A i \in 0 .. orderSeq - 1 : i # id => orders'[i] = orders[i],
         orders[id].status \in Live, o.status # "OPEN",
         Advances(orders[id], o), StatusAgrees(o)
  PROVE  OrdersOK' /\ NoMissedMatch' /\ LoopInvariant'
<1> DEFINE Ids == 0 .. orderSeq - 1
<1>1. OrdersOK /\ NoMissedMatch /\ DOMAIN orders = Ids /\ DOMAIN orders' = Ids
  BY DEF IInv, TypeOK
<1>2. ASSUME NEW i \in Ids
      PROVE  /\ SameTerms(orders[i], orders'[i]) /\ StatusAgrees(orders'[i])
             /\ orders'[i].status = "OPEN" => orders[i].status = "OPEN"
             /\ orders'[i].status \in Live => orders[i].status \in Live
  <2>1. CASE i = id
    BY <2>1 DEF Advances
  <2>2. CASE i # id
    BY <2>2, <1>1 DEF OrdersOK, SameTerms
  <2> QED BY <2>1, <2>2
<1>3. OrdersOK'
  <2>1. \A i \in Ids : /\ orders'[i].amount = orders[i].amount
                       /\ orders'[i].createdAt = orders[i].createdAt
    BY <1>2 DEF SameTerms
  <2>2. \A i \in Ids : StatusAgrees(orders'[i])
    BY <1>2
  <2> QED BY <2>1, <2>2, <1>1 DEF OrdersOK, StatusAgrees
<1>4. NoMissedMatch'
  <2>1. ASSUME NEW i \in Ids, NEW j \in Ids, i < j,
               orders'[i].status = "OPEN", orders'[j].status \in Live,
               Meet(orders'[i], orders'[j])
        PROVE  FALSE
    <3>1. Meet(orders[i], orders[j])
      BY <2>1, <1>2, MeetTerms
    <3> QED BY <3>1, <2>1, <1>1, <1>2 DEF NoMissedMatch
  <2> QED BY <2>1, <1>1 DEF NoMissedMatch, Live, Meet
<1>5. LoopInvariant'
  BY DEF LoopInvariant
<1> QED BY <1>3, <1>4, <1>5

LEMMA InvInit == OrderBookInit => IInv
<1> SUFFICES ASSUME OrderBookInit PROVE IInv
  OBVIOUS
<1>1. TypeOK
  BY TypeInit
<1>2. orderSeq = 0 /\ DOMAIN orders = {} /\ tx = NoTx
  BY DEF OrderBookInit, EmptyStore
<1> QED BY <1>1, <1>2 DEF IInv, OrdersOK, NoMissedMatch, LoopInvariant

LEMMA InvNext == IInv /\ [Next]_vars => IInv'
<1> SUFFICES ASSUME IInv, [Next]_vars PROVE IInv'
  OBVIOUS
<1>1. /\ TypeOK /\ OrdersOK /\ NoMissedMatch /\ LoopInvariant /\ now \in Nat
      /\ orderSeq \in Nat /\ orders \in [0 .. orderSeq - 1 -> Order]
  BY MarketsAssumption DEF IInv, TypeOK, MarketsTypeOK
<1>2. TypeOK'
  BY <1>1, TypeNext
<1>3. SUFFICES OrdersOK' /\ NoMissedMatch' /\ LoopInvariant'
  BY <1>2 DEF IInv
<1>4. ASSUME UNCHANGED <<orders, orderSeq>>, now <= now', now' \in Nat
      PROVE  OrdersOK' /\ NoMissedMatch'
  <2>1. \A i \in 0 .. orderSeq - 1 : orders[i].createdAt \in Nat
    BY <1>1, OrderFields
  <2>2. OrdersOK'
    BY <2>1, <1>1, <1>4 DEF OrdersOK, StatusAgrees
  <2>3. NoMissedMatch'
    BY <1>1, <1>4 DEF NoMissedMatch, Live, Meet
  <2> QED BY <2>2, <2>3
<1>5. CASE CreateSome
  <2>1. UNCHANGED <<clockVars, bookVars, tx>> /\ tx = NoTx
    BY <1>5 DEF CreateSome, NewMarket
  <2>2. LoopInvariant'
    BY <2>1 DEF LoopInvariant
  <2> QED BY <2>1, <2>2, <1>1, <1>4 DEF clockVars, bookVars
<1>6. CASE BeginBlock
  <2>1. UNCHANGED <<bookVars, tx>> /\ tx = NoTx /\ now' \in now .. MaxTime
    BY <1>6 DEF BeginBlock, NextBlock
  <2>2. LoopInvariant'
    BY <2>1 DEF LoopInvariant
  <2>3. now <= now' /\ now' \in Nat
    BY <2>1, <1>1, MarketsAssumption
  <2> QED BY <2>1, <2>2, <2>3, <1>4 DEF bookVars
<1>7. CASE PostSome
  <2>1. PICK u \in Users, m \in 0 .. marketSeq, oc \in OutcomeIndexes, s \in Sides,
             p \in PriceTexts, a \in Amounts, dn \in Denoms :
               PostOrder(u, m, oc, s, p, a, dn)
    BY <1>7 DEF PostSome
  <2>2. UNCHANGED <<clockVars, bookVars>>
    BY <2>1 DEF PostOrder
  <2>3. LoopInvariant'
    BY <2>1, LoopStarts
  <2> QED BY <2>2, <2>3, <1>1, <1>4 DEF clockVars, bookVars
<1>8. CASE Matching
  <2>1. PICK c \in tx.cands : MatchStep(c) \/ AbortPost(c)
    BY <1>8 DEF Matching
  <2>2. UNCHANGED <<clockVars, bookVars>>
    BY <2>1 DEF MatchStep, AbortPost
  <2>3. CASE MatchStep(c)
    BY <2>2, <2>3, <1>1, <1>4, LoopContinues DEF clockVars, bookVars
  <2>4. CASE AbortPost(c)
    <3>1. LoopInvariant'
      BY <2>4 DEF AbortPost, LoopInvariant
    <3> QED BY <3>1, <2>2, <1>1, <1>4 DEF clockVars, bookVars
  <2> QED BY <2>1, <2>3, <2>4
<1>9. CASE CommitPost
  <2>1. LoopInvariant'
    BY <1>9 DEF CommitPost, LoopInvariant
  <2> QED BY <2>1, <1>9, CommitKeeps
<1>10. CASE CancelSome
  <2>1. PICK u \in Users, id \in 0 .. orderSeq : CancelOrder(u, id)
    BY <1>10 DEF CancelSome
  <2>2. tx = NoTx /\ UNCHANGED <<clockVars, orderSeq, tx>>
    BY <2>1 DEF CancelOrder
  <2> DEFINE o == [orders[id] EXCEPT !.status = "CANCELLED"]
  <2>3. /\ id \in 0 .. orderSeq - 1 /\ orders[id] \in Order
        /\ orders[id].status \notin {"FILLED", "CANCELLED"}
        /\ orders' \in [0 .. orderSeq - 1 -> Order] /\ orders'[id] = o
        /\ \A i \in 0 .. orderSeq - 1 : i # id => orders'[i] = orders[i]
    BY <2>1, <1>1, CancelTyped
  <2>4. StatusAgrees(o) /\ Advances(orders[id], o) /\ o.status # "OPEN" /\ o \in Order
    BY <2>3, <1>1, CancelAdvances, CancelFacts DEF OrdersOK
  <2>5. orders[id].status \in Live
    BY <2>3, OrderFields DEF Statuses, Live
  <2> HIDE DEF o
  <2> QED BY <2>2, <2>3, <2>4, <2>5, OneOrderKeeps DEF clockVars
<1>11. CASE FillSome
  <2>1. PICK u \in Users, id \in 0 .. orderSeq, a \in Amounts, dn \in Denoms :
               FillOrder(u, id, a, dn)
    BY <1>11 DEF FillSome
  <2>2. tx = NoTx /\ UNCHANGED <<clockVars, orderSeq, tx>>
    BY <2>1 DEF FillOrder
  <2> DEFINE o == Fill(orders[id], a)
  <2>3. /\ id \in 0 .. orderSeq - 1 /\ orders[id] \in Order
        /\ a \in Int /\ 0 < a /\ a <= Available(orders[id])
        /\ orders[id].status \in Live
        /\ orders' \in [0 .. orderSeq - 1 -> Order] /\ orders'[id] = o
        /\ \A i \in 0 .. orderSeq - 1 : i # id => orders'[i] = orders[i]
    BY <2>1, <1>1, FillOrderTyped
  <2>4. StatusAgrees(o) /\ Advances(orders[id], o) /\ o.status # "OPEN"
    BY <2>3, <1>1, FillAdvances DEF OrdersOK
  <2>5. o \in Order
    BY <2>3, FillFacts
  <2> HIDE DEF o
  <2> QED BY <2>2, <2>3, <2>4, <2>5, OneOrderKeeps DEF clockVars
<1>12. CASE UNCHANGED vars
  <2>1. UNCHANGED <<orders, orderSeq, now, tx>>
    BY <1>12 DEF vars, clockVars, bookVars
  <2>2. LoopInvariant'
    BY <2>1, <1>1 DEF LoopInvariant, Advances, SameTerms, StatusAgrees, Meet, Ranks
  <2> QED BY <2>1, <2>2, <1>1, <1>4
<1> QED BY <1>5, <1>6, <1>7, <1>8, <1>9, <1>10, <1>11, <1>12 DEF Next

THEOREM Invariance == Spec => []IInv
<1> QED BY InvInit, InvNext, PTL DEF Spec

(***************************************************************************)
(* The properties                                                          *)
(***************************************************************************)

\* No order is ever overfilled or carries a status its fill contradicts, for
\* all amounts that messages may carry, negative ones included.
THEOREM FillStatusHolds == Spec => []FillStatus
<1>1. IInv => FillStatus
  BY DEF IInv, TypeOK, OrdersOK, FillStatus
<1> QED BY <1>1, Invariance, PTL

\* An order still open was never passed over by a later order still live:
\* matching misses nothing among the open orders.
THEOREM NoMissedMatchHolds == Spec => []NoMissedMatch
<1>1. IInv => NoMissedMatch
  BY DEF IInv
<1> QED BY <1>1, Invariance, PTL

\* The matching loop's invariant holds at every iteration.
THEOREM LoopInvariantHolds == Spec => []LoopInvariant
<1>1. IInv => LoopInvariant
  BY DEF IInv
<1> QED BY <1>1, Invariance, PTL

\* Until the commit, the stored orders are as they were.
LEMMA QuietSteps ==
  ASSUME CreateSome \/ BeginBlock \/ PostSome \/ Matching
  PROVE  UNCHANGED bookVars
<1>1. CASE CreateSome
  BY <1>1 DEF CreateSome, NewMarket
<1>2. CASE BeginBlock
  BY <1>2 DEF BeginBlock
<1>3. CASE PostSome
  BY <1>3 DEF PostSome, PostOrder
<1>4. CASE Matching
  BY <1>4 DEF Matching, MatchStep, AbortPost
<1> QED BY <1>1, <1>2, <1>3, <1>4

\* Every step leaves each order where it is or advances it.
THEOREM OrderLifecycleHolds == Spec => OrderLifecycle
<1>1. IInv /\ [Next]_vars => [OrdersAdvance]_vars
  <2> SUFFICES ASSUME IInv, Next PROVE OrdersAdvance \/ UNCHANGED vars
    BY DEF vars
  <2>1. /\ TypeOK /\ OrdersOK /\ LoopInvariant /\ orderSeq \in Nat
        /\ orders \in [0 .. orderSeq - 1 -> Order]
    BY DEF IInv, TypeOK
  <2>2. ASSUME orders' = orders PROVE OrdersAdvance
    BY <2>1, <2>2, AdvancesRefl DEF OrdersAdvance
  <2>3. CASE CommitPost
    <3>1. /\ orders' \in [0 .. orderSeq -> Order] /\ tx # NoTx
          /\ \A i \in 0 .. orderSeq - 1 : orders'[i] = tx.branch[i]
      BY <2>1, <2>3, CommitFacts
    <3>2. \A i \in 0 .. orderSeq - 1 : Advances(orders[i], orders'[i])
      BY <2>1, <3>1 DEF LoopInvariant
    <3> QED BY <2>1, <3>1, <3>2 DEF OrdersAdvance
  <2>4. CASE CancelSome
    <3>1. PICK u \in Users, id \in 0 .. orderSeq : CancelOrder(u, id)
      BY <2>4 DEF CancelSome
    <3>2. /\ id \in 0 .. orderSeq - 1 /\ orders[id] \in Order
          /\ orders[id].status \notin {"FILLED", "CANCELLED"}
          /\ orders' \in [0 .. orderSeq - 1 -> Order]
          /\ orders'[id] = [orders[id] EXCEPT !.status = "CANCELLED"]
          /\ \A i \in 0 .. orderSeq - 1 : i # id => orders'[i] = orders[i]
      BY <2>1, <3>1, CancelTyped
    <3>3. Advances(orders[id], orders'[id])
      BY <2>1, <3>2, CancelAdvances DEF OrdersOK
    <3> QED BY <2>1, <3>2, <3>3, AdvancesRefl DEF OrdersAdvance
  <2>5. CASE FillSome
    <3>1. PICK u \in Users, id \in 0 .. orderSeq, a \in Amounts, dn \in Denoms :
                 FillOrder(u, id, a, dn)
      BY <2>5 DEF FillSome
    <3>2. /\ id \in 0 .. orderSeq - 1 /\ orders[id] \in Order
          /\ a \in Int /\ 0 < a /\ a <= Available(orders[id])
          /\ orders[id].status \in Live
          /\ orders' \in [0 .. orderSeq - 1 -> Order]
          /\ orders'[id] = Fill(orders[id], a)
          /\ \A i \in 0 .. orderSeq - 1 : i # id => orders'[i] = orders[i]
      BY <2>1, <3>1, FillOrderTyped
    <3>3. Advances(orders[id], orders'[id])
      BY <2>1, <3>2, FillAdvances DEF OrdersOK
    <3> QED BY <2>1, <3>2, <3>3, AdvancesRefl DEF OrdersAdvance
  <2>6. CASE CreateSome \/ BeginBlock \/ PostSome \/ Matching
    BY <2>2, <2>6, QuietSteps DEF bookVars
  <2> QED BY <2>3, <2>4, <2>5, <2>6 DEF Next
<1> QED BY <1>1, Invariance, PTL DEF Spec, OrderLifecycle

\* Only a commit moves the order sequence, and it stores what the loop left.
LEMMA PostedFacts ==
  ASSUME IInv, Next, Posted
  PROVE  /\ tx # NoTx /\ DOMAIN orders = 0 .. orderSeq - 1 /\ LoopInvariant
         /\ orders'[orderSeq] = tx.order
         /\ \A i \in 0 .. orderSeq - 1 : orders'[i] = tx.branch[i]
<1>1. CASE CreateSome \/ BeginBlock \/ PostSome \/ Matching
  BY <1>1, QuietSteps DEF Posted, bookVars
<1>2. CASE CancelSome
  BY <1>2 DEF Posted, CancelSome, CancelOrder
<1>3. CASE FillSome
  BY <1>3 DEF Posted, FillSome, FillOrder
<1>4. CASE CommitPost
  BY <1>4, CommitFacts DEF IInv, TypeOK
<1> QED BY <1>1, <1>2, <1>3, <1>4 DEF Next

\* Posting an order fills resting orders in price-time priority.
THEOREM PriceTimePriorityHolds == Spec => PriceTimePriority
<1>1. IInv /\ [Next]_vars => [FillsByPriority]_vars
  <2> SUFFICES ASSUME IInv, Next PROVE FillsByPriority
    BY DEF vars
  <2> SUFFICES ASSUME Posted PROVE FillsByPriority
    BY DEF FillsByPriority
  <2> QED BY PostedFacts DEF FillsByPriority, LoopInvariant
<1> QED BY <1>1, Invariance, PTL DEF Spec, PriceTimePriority

\* Posting an order touches only open orders it meets.
THEOREM BookIsolationHolds == Spec => BookIsolation
<1>1. IInv /\ [Next]_vars => [TouchesOnlyMatches]_vars
  <2> SUFFICES ASSUME IInv, Next PROVE TouchesOnlyMatches
    BY DEF vars
  <2> SUFFICES ASSUME Posted PROVE TouchesOnlyMatches
    BY DEF TouchesOnlyMatches
  <2> QED BY PostedFacts DEF TouchesOnlyMatches, LoopInvariant
<1> QED BY <1>1, Invariance, PTL DEF Spec, BookIsolation
=============================================================================
