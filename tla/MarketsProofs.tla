--------------------------- MODULE MarketsProofs ---------------------------
(***************************************************************************)
(* Facts about stores and about the market registry, for every set of      *)
(* users, groups, outcome lists and deadlines.                             *)
(***************************************************************************)
EXTENDS Markets, TLAPS

\* A store of n entries with one entry replaced, or with entry n added.
LEMMA PutInside ==
  ASSUME NEW S, NEW n, NEW f, NEW k, NEW v,
         n \in Nat, f \in [0 .. n -> S], k \in 0 .. n, v \in S
  PROVE  /\ Put(f, k, v) \in [0 .. n -> S]
         /\ Put(f, k, v)[k] = v
         /\ \A i \in 0 .. n : i # k => Put(f, k, v)[i] = f[i]
<1>1. DOMAIN f \cup {k} = 0 .. n
  OBVIOUS
<1> QED BY <1>1 DEF Put

LEMMA PutNext ==
  ASSUME NEW S, NEW n, NEW f, NEW v,
         n \in Nat, f \in [0 .. n - 1 -> S], v \in S
  PROVE  /\ Put(f, n, v) \in [0 .. n -> S]
         /\ Put(f, n, v)[n] = v
         /\ \A i \in 0 .. n - 1 : Put(f, n, v)[i] = f[i]
<1>1. DOMAIN f \cup {n} = 0 .. n
  OBVIOUS
<1>2. \A i \in 0 .. n : i # n => i \in 0 .. n - 1
  OBVIOUS
<1> QED BY <1>1, <1>2 DEF Put

\* Setting a key of a store adds the key and changes no other.
LEMMA PutFacts ==
  ASSUME NEW f, NEW k, NEW v
  PROVE  /\ DOMAIN Put(f, k, v) = DOMAIN f \cup {k}
         /\ Put(f, k, v)[k] = v
         /\ \A i \in DOMAIN f : i # k => Put(f, k, v)[i] = f[i]
BY DEF Put

\* The outcomes of a created market are labels.
LEMMA OutcomesAreLabels ==
  ASSUME NEW o \in OutcomeLists, ValidOutcomes(o)
  PROVE  o \in Seq(Labels)
<1>1. o \in Seq(Labels \cup {EmptyText})
  BY MarketsAssumption
<1>2. Len(o) \in Nat /\ o \in [1 .. Len(o) -> Labels \cup {EmptyText}]
  BY <1>1
<1>3. \A i \in 1 .. Len(o) : o[i] \in Labels
  BY <1>2 DEF ValidOutcomes
<1>4. o \in [1 .. Len(o) -> Labels]
  BY <1>2, <1>3
<1> QED BY <1>1, <1>2, <1>3, SMT

\* A created market is added to the registry, which keeps the others.
LEMMA MarketTyped ==
  ASSUME MarketsTypeOK,
         NEW u \in Users, NEW q \in Questions \cup {EmptyText}, NEW o \in OutcomeLists,
         NEW g \in Groups, NEW d \in Deadlines,
         CreateMarket(u, q, o, g, d), UNCHANGED clockVars
  PROVE  /\ MarketsTypeOK'
         /\ DOMAIN markets \subseteq DOMAIN markets'
         /\ \A i \in DOMAIN markets : markets'[i] = markets[i]
<1> DEFINE m == [question |-> q, outcomes |-> o, group |-> g, deadline |-> d,
                 status |-> "open", creator |-> u, createdAt |-> now]
<1>1. o \in Seq(Labels)
  BY OutcomesAreLabels DEF CreateMarket
<1>2. now \in Nat /\ marketSeq \in Nat /\ markets \in [0 .. marketSeq - 1 -> Market]
  BY MarketsAssumption DEF MarketsTypeOK
<1>3. d \in Nat /\ q \in Questions
  BY <1>2, MarketsAssumption DEF CreateMarket
<1>4. m \in Market
  BY <1>1, <1>2, <1>3 DEF Market
<1>5. markets' = Put(markets, marketSeq, m) /\ marketSeq' = marketSeq + 1
  BY DEF CreateMarket, NextSeq
<1> HIDE DEF m
<1>6. markets' \in [0 .. marketSeq -> Market]
  BY <1>2, <1>4, <1>5, PutNext
<1>7. marketSeq' - 1 = marketSeq
  BY <1>2, <1>5
<1>8. MarketsTypeOK'
  BY <1>2, <1>5, <1>6, <1>7 DEF MarketsTypeOK, clockVars
<1>9. \A i \in 0 .. marketSeq - 1 : markets'[i] = markets[i]
  <2>1. \A i \in DOMAIN markets : i # marketSeq => markets'[i] = markets[i]
    BY <1>5 DEF Put
  <2> QED BY <1>2, <2>1
<1> QED BY <1>2, <1>6, <1>8, <1>9
=============================================================================
