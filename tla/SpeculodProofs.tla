--------------------------- MODULE SpeculodProofs ---------------------------
(***************************************************************************)
(* Votes outlive the chain they were cast on: an export and import loses   *)
(* no commitment, reveal or outcome and changes none, and a reveal stays   *)
(* bound to its commitment.  Orders and scores do not outlive it: every    *)
(* order has its market, and a score that only votes may raise passes no   *)
(* one's count of won markets.  For any number of restarts and every value *)
(* of the constants.                                                       *)
(***************************************************************************)
EXTENDS Speculod, FiniteSetTheorems, TLAPS

\* Commits and reveals are stored under pairs of a market's id and a voter.
PairsOnly(store) == \A k \in DOMAIN store : k = <<k[1], k[2]>>

KeysArePairs == PairsOnly(commits) /\ PairsOnly(reveals)

votes == <<commits, reveals, outcomes>>

LEMMA PutFacts ==
  ASSUME NEW f, NEW k, NEW v, NEW g, g = Vote!Put(f, k, v), k \notin DOMAIN f
  PROVE  /\ DOMAIN g = DOMAIN f \cup {k}
         /\ g[k] = v
         /\ Vote!Keeps(f, g)
BY DEF Vote!Put, Vote!Keeps

LEMMA KeepsSame == ASSUME NEW s, NEW t, t = s PROVE Vote!Keeps(s, t)
BY DEF Vote!Keeps

\* An import reads back the records that were exported, one per key.
LEMMA CommitsSurvive ==
  ASSUME KeysArePairs, Restart
  PROVE  DOMAIN commits' = DOMAIN commits /\ Vote!Keeps(commits, commits')
<1> DEFINE E == ExportSettlement.commits
           r == [k \in DOMAIN commits |-> [market |-> k[1], voter |-> k[2], commitment |-> commits[k]]]
           At(k) == CHOOSE c \in E : <<c.market, c.voter>> = k
<1>1. E = {r[k] : k \in DOMAIN commits}
  BY DEF ExportSettlement, StoredCommits
<1>2. \A k \in DOMAIN commits :
        <<r[k].market, r[k].voter>> = k /\ r[k].commitment = commits[k]
  BY DEF KeysArePairs, PairsOnly
<1>3. commits' = [k \in {<<c.market, c.voter>> : c \in E} |-> At(k).commitment]
  BY DEF Restart, ImportSettlement
<1>4. \A k \in DOMAIN commits : At(k) = r[k]
  <2> TAKE k \in DOMAIN commits
  <2> HIDE DEF E, r
  <2>1. \E c \in E : <<c.market, c.voter>> = k
    BY <1>1, <1>2
  <2>2. At(k) \in E /\ <<At(k).market, At(k).voter>> = k
    BY <2>1
  <2> HIDE DEF At
  <2> QED BY <1>1, <1>2, <2>2
<1> HIDE DEF E, r, At
<1>5. {<<c.market, c.voter>> : c \in E} = DOMAIN commits
  BY <1>1, <1>2
<1>6. DOMAIN commits' = DOMAIN commits /\ \A k \in DOMAIN commits : commits'[k] = commits[k]
  BY <1>2, <1>3, <1>4, <1>5
<1> QED BY <1>6 DEF Vote!Keeps

LEMMA RevealsSurvive ==
  ASSUME KeysArePairs, Restart
  PROVE  DOMAIN reveals' = DOMAIN reveals /\ Vote!Keeps(reveals, reveals')
<1> DEFINE E == ExportSettlement.reveals
           r == [k \in DOMAIN reveals |-> [market |-> k[1], voter |-> k[2], opening |-> reveals[k]]]
           At(k) == CHOOSE c \in E : <<c.market, c.voter>> = k
<1>1. E = {r[k] : k \in DOMAIN reveals}
  BY DEF ExportSettlement, StoredReveals
<1>2. \A k \in DOMAIN reveals :
        <<r[k].market, r[k].voter>> = k /\ r[k].opening = reveals[k]
  BY DEF KeysArePairs, PairsOnly
<1>3. reveals' = [k \in {<<c.market, c.voter>> : c \in E} |-> At(k).opening]
  BY DEF Restart, ImportSettlement
<1>4. \A k \in DOMAIN reveals : At(k) = r[k]
  <2> TAKE k \in DOMAIN reveals
  <2> HIDE DEF E, r
  <2>1. \E c \in E : <<c.market, c.voter>> = k
    BY <1>1, <1>2
  <2>2. At(k) \in E /\ <<At(k).market, At(k).voter>> = k
    BY <2>1
  <2> HIDE DEF At
  <2> QED BY <1>1, <1>2, <2>2
<1> HIDE DEF E, r, At
<1>5. {<<c.market, c.voter>> : c \in E} = DOMAIN reveals
  BY <1>1, <1>2
<1>6. DOMAIN reveals' = DOMAIN reveals /\ \A k \in DOMAIN reveals : reveals'[k] = reveals[k]
  BY <1>2, <1>3, <1>4, <1>5
<1> QED BY <1>6 DEF Vote!Keeps

LEMMA OutcomesSurvive ==
  ASSUME Restart
  PROVE  DOMAIN outcomes' = DOMAIN outcomes /\ Vote!Keeps(outcomes, outcomes')
<1> DEFINE E == ExportSettlement.outcomes
           r == [k \in DOMAIN outcomes |-> [market |-> k, outcome |-> outcomes[k]]]
           At(k) == CHOOSE c \in E : c.market = k
<1>1. E = {r[k] : k \in DOMAIN outcomes}
  BY DEF ExportSettlement, StoredOutcomes
<1>2. \A k \in DOMAIN outcomes :
        r[k].market = k /\ r[k].outcome = outcomes[k]
  OBVIOUS
<1>3. outcomes' = [k \in {c.market : c \in E} |-> At(k).outcome]
  BY DEF Restart, ImportSettlement
<1>4. \A k \in DOMAIN outcomes : At(k) = r[k]
  <2> TAKE k \in DOMAIN outcomes
  <2> HIDE DEF E, r
  <2>1. \E c \in E : c.market = k
    BY <1>1, <1>2
  <2>2. At(k) \in E /\ At(k).market = k
    BY <2>1
  <2> HIDE DEF At
  <2> QED BY <1>1, <1>2, <2>2
<1> HIDE DEF E, r, At
<1>5. {c.market : c \in E} = DOMAIN outcomes
  BY <1>1, <1>2
<1>6. DOMAIN outcomes' = DOMAIN outcomes /\ \A k \in DOMAIN outcomes : outcomes'[k] = outcomes[k]
  BY <1>2, <1>3, <1>4, <1>5
<1> QED BY <1>6 DEF Vote!Keeps

(***************************************************************************)
(* Steps                                                                   *)
(***************************************************************************)

VotesKept ==
  /\ Vote!Keeps(commits, commits') /\ Vote!Keeps(reveals, reveals')
  /\ Vote!Keeps(outcomes, outcomes')

\* Every stored reveal opens the commitment of its voter.
IInv == KeysArePairs /\ RevealsStayBound

LEMMA SameVotes ==
  ASSUME IInv, UNCHANGED votes
  PROVE  VotesKept /\ IInv'
BY KeepsSame DEF IInv, KeysArePairs, PairsOnly, RevealsStayBound, votes, VotesKept

LEMMA CommitKeeps ==
  ASSUME IInv, Vote!CommitSome
  PROVE  VotesKept /\ IInv'
<1>1. PICK u \in Users, m \in 0 .. marketSeq, c \in Vote!Commitments : Vote!CommitVote(u, m, c)
  BY DEF Vote!CommitSome
<1> DEFINE k == <<m, u>>
<1>2. /\ k \notin DOMAIN commits /\ commits' = Vote!Put(commits, k, c)
      /\ UNCHANGED <<reveals, outcomes>>
  BY <1>1 DEF Vote!CommitVote, Vote!Uncommitted
<1>3. k = <<k[1], k[2]>>
  OBVIOUS
<1> HIDE DEF k
<1>4. DOMAIN commits' = DOMAIN commits \cup {k} /\ Vote!Keeps(commits, commits')
  BY <1>2, PutFacts
<1>5. KeysArePairs'
  BY <1>2, <1>3, <1>4 DEF IInv, KeysArePairs, PairsOnly
<1>6. RevealsStayBound'
  BY <1>2, <1>4 DEF IInv, RevealsStayBound, Vote!Keeps
<1> QED BY <1>2, <1>4, <1>5, <1>6, KeepsSame DEF IInv, VotesKept

LEMMA RevealKeeps ==
  ASSUME IInv, Vote!RevealSome
  PROVE  VotesKept /\ IInv'
<1>1. PICK u \in Users, m \in 0 .. marketSeq, v \in Votes, n \in Nonces :
             Vote!RevealVote(u, m, v, n)
  BY DEF Vote!RevealSome
<1> DEFINE k == <<m, u>>
           r == [vote |-> v, nonce |-> n]
<1>2. /\ k \in DOMAIN commits /\ commits[k] = Vote!Digest(v, n)
      /\ k \notin DOMAIN reveals /\ reveals' = Vote!Put(reveals, k, r)
      /\ UNCHANGED <<commits, outcomes>>
  BY <1>1 DEF Vote!RevealVote
<1>3. k = <<k[1], k[2]>> /\ r.vote = v /\ r.nonce = n
  OBVIOUS
<1> HIDE DEF k, r
<1>4. /\ DOMAIN reveals' = DOMAIN reveals \cup {k} /\ reveals'[k] = r
      /\ Vote!Keeps(reveals, reveals')
  <2>1. k \notin DOMAIN reveals /\ reveals' = Vote!Put(reveals, k, r)
    BY <1>2
  <2> QED BY <2>1 DEF Vote!Put, Vote!Keeps
<1>5. KeysArePairs'
  BY <1>2, <1>3, <1>4 DEF IInv, KeysArePairs, PairsOnly
<1>6. RevealsStayBound'
  <2>1. \A i \in DOMAIN reveals : reveals'[i] = reveals[i]
    BY <1>4 DEF Vote!Keeps
  <2> QED BY <1>2, <1>3, <1>4, <2>1 DEF IInv, RevealsStayBound
<1> QED BY <1>2, <1>4, <1>5, <1>6, KeepsSame DEF IInv, VotesKept

LEMMA FinalizeKeeps ==
  ASSUME IInv, Vote!FinalizeSome
  PROVE  VotesKept /\ IInv'
<1>1. PICK m \in 0 .. marketSeq : Vote!FinalizeOutcome(m)
  BY DEF Vote!FinalizeSome
<1>2. PICK c : outcomes' = Vote!Put(outcomes, m, c)
  BY <1>1 DEF Vote!FinalizeOutcome
<1>3. m \notin DOMAIN outcomes /\ UNCHANGED <<commits, reveals>>
  BY <1>1 DEF Vote!FinalizeOutcome, Vote!NotFinalized
<1>4. Vote!Keeps(outcomes, outcomes')
  BY <1>2, <1>3, PutFacts
<1>5. IInv'
  BY <1>3 DEF IInv, KeysArePairs, PairsOnly, RevealsStayBound
<1> QED BY <1>3, <1>4, <1>5, KeepsSame DEF VotesKept

LEMMA RestartKeeps ==
  ASSUME IInv, Restart
  PROVE  VotesKept /\ IInv'
<1>1. /\ DOMAIN commits' = DOMAIN commits /\ Vote!Keeps(commits, commits')
      /\ DOMAIN reveals' = DOMAIN reveals /\ Vote!Keeps(reveals, reveals')
      /\ Vote!Keeps(outcomes, outcomes')
  BY CommitsSurvive, RevealsSurvive, OutcomesSurvive DEF IInv
<1>2. KeysArePairs'
  BY <1>1 DEF IInv, KeysArePairs, PairsOnly
<1>3. RevealsStayBound'
  BY <1>1 DEF IInv, RevealsStayBound, Vote!Keeps
<1> QED BY <1>1, <1>2, <1>3 DEF IInv, VotesKept

LEMMA StepsKeepVotes == IInv /\ [Next]_chainVars => VotesKept /\ IInv'
<1> SUFFICES ASSUME IInv, [Next]_chainVars PROVE VotesKept /\ IInv'
  OBVIOUS
<1>1. CASE Voting
  <2>1. CASE Vote!CreateSome \/ Vote!BeginBlock \/ Vote!AdjustSome
    <3>1. UNCHANGED votes
      BY <2>1 DEF Vote!CreateSome, Vote!NewMarket, Vote!BeginBlock, Vote!AdjustSome,
         Vote!Adjust, Vote!settlementVars, votes
    <3> QED BY <3>1, SameVotes
  <2> QED BY <1>1, <2>1, CommitKeeps, RevealKeeps, FinalizeKeeps DEF Voting, Vote!Next
<1>2. CASE Trading
  BY <1>2, SameVotes DEF Trading, votes
<1>3. CASE Restart
  BY <1>3, RestartKeeps
<1>4. CASE UNCHANGED chainVars
  BY <1>4, SameVotes DEF chainVars, votes
<1> QED BY <1>1, <1>2, <1>3, <1>4 DEF Next

LEMMA Invariance == Spec => []IInv
<1>1. Init => IInv
  <2> SUFFICES ASSUME Init PROVE IInv
    OBVIOUS
  <2>1. DOMAIN commits = {} /\ DOMAIN reveals = {}
    BY DEF Init, Vote!SettlementInit, Vote!EmptyStore
  <2> QED BY <2>1 DEF IInv, KeysArePairs, PairsOnly, RevealsStayBound
<1>2. IInv /\ [Next]_chainVars => IInv'
  BY StepsKeepVotes
<1> QED BY <1>1, <1>2, PTL DEF Spec

\* No message, and no restart of the chain from its exported state, loses or
\* changes a commitment, a reveal or an outcome.
THEOREM VotesOutliveTheChainHolds == Spec => VotesOutliveTheChain
<1>1. IInv /\ [Next]_chainVars =>
        [/\ Vote!Keeps(commits, commits')
         /\ Vote!Keeps(reveals, reveals')
         /\ Vote!Keeps(outcomes, outcomes')]_chainVars
  BY StepsKeepVotes DEF VotesKept
<1> QED BY <1>1, Invariance, PTL DEF Spec, VotesOutliveTheChain

\* Before and after any number of restarts, a stored reveal opens the stored
\* commitment of its voter.
THEOREM RevealsStayBoundHolds == Spec => []RevealsStayBound
<1>1. IInv => RevealsStayBound
  BY DEF IInv
<1> QED BY <1>1, Invariance, PTL

(***************************************************************************)
(* Orders and markets                                                      *)
(***************************************************************************)

\* Both registries count their ids without gaps, no market is newer than the
\* block, and every order has the terms that its market bounds.
RegistriesOK ==
  /\ now \in Nat
  /\ marketSeq \in Nat /\ DOMAIN markets = 0 .. marketSeq - 1
  /\ \A m \in DOMAIN markets : markets[m].createdAt \in Nat /\ markets[m].createdAt <= now
  /\ orderSeq \in Nat /\ DOMAIN orders = 0 .. orderSeq - 1
  /\ \A id \in DOMAIN orders : {"market", "outcome", "createdAt"} \subseteq DOMAIN orders[id]

ChainInv == RegistriesOK /\ OrdersHaveMarkets

SameBounds(a, b) ==
  /\ a.market = b.market /\ a.outcome = b.outcome /\ a.createdAt = b.createdAt
  /\ DOMAIN a = DOMAIN b

LEMMA FillKeepsBounds ==
  ASSUME NEW o, {"market", "outcome", "createdAt"} \subseteq DOMAIN o, NEW a
  PROVE  SameBounds(Book!Fill(o, a), o) /\ SameBounds(Book!FillIf(o, a), o)
<1>1. SameBounds(Book!Fill(o, a), o)
  BY DEF Book!Fill, SameBounds
<1> QED BY <1>1 DEF Book!FillIf, SameBounds

\* A step that leaves the markets alone and every order with its bounds.
LEMMA SameBoundsKeep ==
  ASSUME ChainInv, UNCHANGED <<now, markets, marketSeq, orderSeq>>,
         DOMAIN orders' = DOMAIN orders,
         \A id \in DOMAIN orders : SameBounds(orders'[id], orders[id])
  PROVE  ChainInv'
BY DEF ChainInv, RegistriesOK, OrdersHaveMarkets, SameBounds

LEMMA PostKeepsChain ==
  ASSUME ChainInv, Book!PostSome
  PROVE  ChainInv'
<1>1. PICK u \in Users, m \in DOMAIN markets, oc \in OutcomeIndexes, s \in Book!Sides,
           p \in Book!PriceTexts, a \in Amounts, dn \in Denoms :
             Book!Post([market |-> m, creator |-> u, side |-> s, outcome |-> oc, price |-> p,
                        amount |-> a, denom |-> dn, filled |-> 0, status |-> "OPEN",
                        createdAt |-> now])
  BY DEF Book!PostSome
<1> DEFINE new == [market |-> m, creator |-> u, side |-> s, outcome |-> oc, price |-> p,
                   amount |-> a, denom |-> dn, filled |-> 0, status |-> "OPEN",
                   createdAt |-> now]
<1>2. /\ new.market = m /\ new.outcome = oc /\ new.createdAt = now
      /\ {"market", "outcome", "createdAt"} \subseteq DOMAIN new
  OBVIOUS
<1> HIDE DEF new
<1>3. /\ Book!Post(new) /\ orderSeq' = orderSeq + 1
      /\ UNCHANGED <<now, markets, marketSeq>>
      /\ new.outcome < Len(markets[new.market].outcomes)
  BY <1>1 DEF new, Book!Post, Book!clockVars, Book!marketVars
<1>4. PICK got, share :
        orders' = [id \in 0 .. orderSeq |->
                     IF id = orderSeq THEN Book!FillIf(new, got)
                                      ELSE Book!FillIf(orders[id], share[id])]
  <2> DEFINE share == [id \in 0 .. orderSeq |-> Book!Share(id, new)]
             got == Book!SumFunctionOnSet([c \in Book!Makers(new) |-> Book!Share(c, new)],
                                         Book!Makers(new))
  <2>1. orders' = [id \in 0 .. orderSeq |->
                     IF id = orderSeq THEN Book!FillIf(new, got)
                                      ELSE Book!FillIf(orders[id], Book!Share(id, new))]
    BY <1>3 DEF Book!Post
  <2>2. orders' = [id \in 0 .. orderSeq |->
                     IF id = orderSeq THEN Book!FillIf(new, got)
                                      ELSE Book!FillIf(orders[id], share[id])]
    <3> HIDE DEF got
    <3> QED BY <2>1
  <2> HIDE DEF share, got
  <2> QED BY <2>2
<1>5. /\ orderSeq \in Nat /\ DOMAIN orders = 0 .. orderSeq - 1
      /\ DOMAIN orders' = 0 .. orderSeq /\ orderSeq' \in Nat /\ orderSeq' - 1 = orderSeq
  BY <1>3, <1>4 DEF ChainInv, RegistriesOK
<1>6. \A id \in DOMAIN orders : SameBounds(orders'[id], orders[id])
  <2> TAKE id \in DOMAIN orders
  <2>1. id \in 0 .. orderSeq /\ id # orderSeq
    BY <1>5
  <2>2. orders'[id] = Book!FillIf(orders[id], share[id])
    BY <1>4, <2>1
  <2> QED BY <2>2, FillKeepsBounds DEF ChainInv, RegistriesOK
<1>7. SameBounds(orders'[orderSeq], new)
  <2>1. orders'[orderSeq] = Book!FillIf(new, got)
    BY <1>4, <1>5
  <2> QED BY <1>2, <2>1, FillKeepsBounds
<1>8. \A id \in DOMAIN orders' : id \in DOMAIN orders \/ id = orderSeq
  BY <1>5
<1>9. /\ \A id \in DOMAIN orders' :
           {"market", "outcome", "createdAt"} \subseteq DOMAIN (orders'[id])
      /\ RegistriesOK'
  BY <1>2, <1>3, <1>5, <1>6, <1>7, <1>8 DEF ChainInv, RegistriesOK, SameBounds
<1>10. OrdersHaveMarkets'
  <2>1. ASSUME NEW id \in DOMAIN orders
        PROVE  /\ orders'[id].market \in DOMAIN markets
               /\ orders'[id].outcome < Len(markets[orders'[id].market].outcomes)
               /\ orders'[id].createdAt >= markets[orders'[id].market].createdAt
    BY <1>6 DEF ChainInv, OrdersHaveMarkets, SameBounds
  <2>2. /\ orders'[orderSeq].market \in DOMAIN markets
        /\ orders'[orderSeq].outcome < Len(markets[orders'[orderSeq].market].outcomes)
        /\ orders'[orderSeq].createdAt >= markets[orders'[orderSeq].market].createdAt
    BY <1>2, <1>3, <1>7 DEF ChainInv, RegistriesOK, SameBounds
  <2> QED BY <1>3, <1>8, <2>1, <2>2 DEF OrdersHaveMarkets
<1> QED BY <1>9, <1>10 DEF ChainInv

LEMMA TradingKeepsChain ==
  ASSUME ChainInv, Trading
  PROVE  ChainInv'
<1>1. CASE Book!PostSome
  BY <1>1, PostKeepsChain
<1>2. CASE Book!WithdrawSome
  <2>1. PICK id \in DOMAIN orders : Book!Withdraw(id)
    BY <1>2 DEF Book!WithdrawSome
  <2>2. /\ orders' = [orders EXCEPT ![id].status = "CANCELLED"]
        /\ UNCHANGED <<now, markets, marketSeq, orderSeq>>
    BY <2>1 DEF Book!Withdraw, Book!clockVars, Book!marketVars
  <2>3. {"market", "outcome", "createdAt"} \subseteq DOMAIN orders[id]
    BY DEF ChainInv, RegistriesOK
  <2>4. SameBounds([orders[id] EXCEPT !.status = "CANCELLED"], orders[id])
    BY <2>3 DEF SameBounds
  <2>5. \A i \in DOMAIN orders : SameBounds(orders'[i], orders[i])
    BY <2>2, <2>4 DEF SameBounds
  <2> QED BY <2>2, <2>5, SameBoundsKeep
<1>3. CASE Book!TakeSome
  <2>1. PICK u \in Users, id \in DOMAIN orders, a \in Amounts, dn \in Denoms :
               Book!Take(u, id, a, dn)
    BY <1>3 DEF Book!TakeSome
  <2>2. /\ orders' = [orders EXCEPT ![id] = Book!Fill(orders[id], a)]
        /\ UNCHANGED <<now, markets, marketSeq, orderSeq>>
    BY <2>1 DEF Book!Take, Book!clockVars, Book!marketVars
  <2>3. SameBounds(Book!Fill(orders[id], a), orders[id])
    BY FillKeepsBounds DEF ChainInv, RegistriesOK
  <2>4. \A i \in DOMAIN orders : SameBounds(orders'[i], orders[i])
    BY <2>2, <2>3 DEF SameBounds
  <2> QED BY <2>2, <2>4, SameBoundsKeep
<1> QED BY <1>1, <1>2, <1>3 DEF Trading, Book!Trading

LEMMA CreateKeepsChain ==
  ASSUME ChainInv, Vote!CreateSome, UNCHANGED <<orders, orderSeq>>
  PROVE  ChainInv'
<1>1. PICK u \in Users, q \in Questions \cup {EmptyText}, o \in OutcomeLists,
           g \in Groups, d \in Deadlines : Vote!NewMarket(u, q, o, g, d)
  BY DEF Vote!CreateSome
<1> DEFINE new == [question |-> q, outcomes |-> o, group |-> g, deadline |-> d,
                   status |-> "open", creator |-> u, createdAt |-> now]
<1>2. /\ markets' = Vote!Put(markets, marketSeq, new) /\ marketSeq' = marketSeq + 1
      /\ now' = now
  BY <1>1 DEF Vote!NewMarket, Vote!CreateMarket, Vote!NextSeq, Vote!clockVars
<1>3. new.createdAt = now
  OBVIOUS
<1> HIDE DEF new
<1>4. marketSeq \in Nat /\ now \in Nat /\ marketSeq \notin DOMAIN markets
      /\ DOMAIN markets = 0 .. marketSeq - 1
  BY DEF ChainInv, RegistriesOK
<1>5. /\ DOMAIN markets' = DOMAIN markets \cup {marketSeq} /\ markets'[marketSeq] = new
      /\ \A m \in DOMAIN markets : markets'[m] = markets[m]
  BY <1>2, <1>4 DEF Vote!Put
<1>6. marketSeq' \in Nat /\ DOMAIN markets' = 0 .. marketSeq' - 1
  BY <1>2, <1>4, <1>5
<1>7. RegistriesOK'
  BY <1>2, <1>3, <1>4, <1>5, <1>6 DEF ChainInv, RegistriesOK
<1>8. OrdersHaveMarkets'
  BY <1>5 DEF ChainInv, OrdersHaveMarkets
<1> QED BY <1>7, <1>8 DEF ChainInv

LEMMA EmptyRegistry == DOMAIN Vote!EmptyStore = 0 .. 0 - 1
<1>1. 0 .. 0 - 1 = {}
  OBVIOUS
<1> QED BY <1>1 DEF Vote!EmptyStore

LEMMA ChainInvNext == ChainInv /\ [Next]_chainVars => ChainInv'
<1> SUFFICES ASSUME ChainInv, [Next]_chainVars PROVE ChainInv'
  OBVIOUS
<1>1. CASE Voting
  <2>1. UNCHANGED <<orders, orderSeq>>
    BY <1>1 DEF Voting
  <2>2. CASE Vote!CreateSome
    BY <2>1, <2>2, CreateKeepsChain
  <2>3. CASE Vote!BeginBlock
    <3>1. UNCHANGED <<markets, marketSeq>> /\ now' \in now .. MaxTime
      BY <2>3 DEF Vote!BeginBlock, Vote!NextBlock, Vote!marketVars
    <3>2. now \in Nat /\ now' \in Nat /\ now <= now'
      BY <3>1, SpeculodAssumption DEF ChainInv, RegistriesOK
    <3>3. \A m \in DOMAIN markets : markets[m].createdAt <= now'
      BY <3>2 DEF ChainInv, RegistriesOK
    <3> QED BY <2>1, <3>1, <3>2, <3>3 DEF ChainInv, RegistriesOK, OrdersHaveMarkets
  <2>4. CASE Vote!AdjustSome \/ Vote!CommitSome \/ Vote!RevealSome \/ Vote!FinalizeSome
    <3>1. UNCHANGED <<now, markets, marketSeq>>
      BY <2>4 DEF Vote!AdjustSome, Vote!Adjust, Vote!CommitSome, Vote!CommitVote,
         Vote!RevealSome, Vote!RevealVote, Vote!FinalizeSome, Vote!FinalizeOutcome,
         Vote!clockVars, Vote!marketVars
    <3> QED BY <2>1, <3>1 DEF ChainInv, RegistriesOK, OrdersHaveMarkets
  <2> QED BY <1>1, <2>2, <2>3, <2>4 DEF Voting, Vote!Next
<1>2. CASE Trading
  BY <1>2, TradingKeepsChain
<1>3. CASE Restart
  <2>1. /\ marketSeq' = 0 /\ orderSeq' = 0
        /\ markets' = Vote!EmptyStore /\ orders' = Vote!EmptyStore
        /\ now' \in now .. MaxTime
    BY <1>3 DEF Restart, ImportPrediction
  <2>2. now' \in Nat
    BY <2>1, SpeculodAssumption DEF ChainInv, RegistriesOK
  <2>3. DOMAIN markets' = {} /\ DOMAIN orders' = {}
    BY <2>1 DEF Vote!EmptyStore
  <2> QED BY <2>1, <2>2, <2>3, EmptyRegistry DEF ChainInv, RegistriesOK, OrdersHaveMarkets
<1>4. CASE UNCHANGED chainVars
  BY <1>4 DEF ChainInv, RegistriesOK, OrdersHaveMarkets, chainVars
<1> QED BY <1>1, <1>2, <1>3, <1>4 DEF Next

LEMMA ChainInvariance == Spec => []ChainInv
<1>1. Init => ChainInv
  <2> SUFFICES ASSUME Init PROVE ChainInv
    OBVIOUS
  <2>1. /\ marketSeq = 0 /\ orderSeq = 0 /\ now = 0
        /\ markets = Vote!EmptyStore /\ orders = Vote!EmptyStore
    BY DEF Init, Vote!SettlementInit, Vote!MarketsInit
  <2>2. DOMAIN markets = {} /\ DOMAIN orders = {}
    BY <2>1 DEF Vote!EmptyStore
  <2> QED BY <2>1, <2>2, EmptyRegistry DEF ChainInv, RegistriesOK, OrdersHaveMarkets
<1> QED BY <1>1, ChainInvNext, PTL DEF Spec

\* An order names a market that exists, one of its outcomes, and a market that is
\* not younger than itself, before and after any number of restarts.
THEOREM OrdersHaveMarketsHolds == Spec => []OrdersHaveMarkets
<1>1. ChainInv => OrdersHaveMarkets
  BY DEF ChainInv
<1> QED BY <1>1, ChainInvariance, PTL

(***************************************************************************)
(* Scores and the decided markets they come from                           *)
(***************************************************************************)

LEMMA ModSmall == ASSUME NEW w \in Nat, w > 0, NEW x \in 0 .. w - 1 PROVE x % w = x
OBVIOUS

LEMMA ModSelf == ASSUME NEW w \in Nat, w > 0 PROVE w % w = 0
OBVIOUS

\* An adjustment by one at most adds what it says at most: where the sum wraps
\* the score is gone.
LEMMA AdjustedBound ==
  ASSUME NEW s \in 0 .. IntMax, NEW a \in -IntMax - 1 .. 1
  PROVE  /\ Vote!Adjusted(s, a) \in 0 .. IntMax
         /\ Vote!Adjusted(s, a) <= IF s + a < 0 THEN 0 ELSE s + a
<1> DEFINE w == 2 * (IntMax + 1)
           y == (s + a) + IntMax + 1
<1>1. /\ IntMax \in Nat /\ w \in Nat /\ w > 0 /\ s \in Nat /\ s <= IntMax
      /\ a \in Int /\ y \in Nat /\ y <= w
  BY SpeculodAssumption
<1>2. CASE y = w
  <2>1. y % w = 0
    <3> HIDE DEF w, y
    <3> QED BY <1>1, <1>2, ModSelf
  <2>2. Vote!Wrap(s + a) = 0 - (IntMax + 1)
    <3> HIDE DEF w
    <3> QED BY <2>1 DEF Vote!Wrap, w
  <2> QED BY <1>1, <2>2 DEF Vote!Adjusted
<1>3. CASE y # w
  <2>1. y \in 0 .. w - 1
    BY <1>1, <1>3
  <2>2. y % w = y
    <3> HIDE DEF w, y
    <3> QED BY <1>1, <2>1, ModSmall
  <2>3. Vote!Wrap(s + a) = y - (IntMax + 1)
    BY <2>2 DEF Vote!Wrap
  <2>4. Vote!Wrap(s + a) = s + a /\ s + a <= IntMax
    BY <1>1, <2>1, <2>3
  <2> QED BY <1>1, <2>4 DEF Vote!Adjusted
<1> QED BY <1>2, <1>3

LEMMA AdjustedInRange ==
  ASSUME NEW s \in Int, NEW a \in Int
  PROVE  Vote!Adjusted(s, a) \in 0 .. IntMax
<1> DEFINE w == 2 * (IntMax + 1)
           y == (s + a) + IntMax + 1
           r == y % w
<1>1. IntMax \in Nat /\ w \in Nat /\ w > 0 /\ y \in Int
  BY SpeculodAssumption
<1>2. r \in 0 .. w - 1
  <2> HIDE DEF y, w
  <2> QED BY <1>1
<1>3. r \in Int /\ 0 <= r /\ r <= 2 * IntMax + 1
  <2> HIDE DEF y, r
  <2> QED BY <1>1, <1>2
<1>4. Vote!Wrap(s + a) = r - (IntMax + 1)
  BY DEF Vote!Wrap
<1> HIDE DEF r, y, w
<1> QED BY <1>1, <1>3, <1>4 DEF Vote!Adjusted

OnlyPenalties == \A a \in Adjustments : a <= 0

\* Every score is an int64, and where only penalties are adjusted it is earned.
EarnedInv ==
  /\ \A k \in DOMAIN scores : scores[k] \in 0 .. IntMax
  /\ ScoresAreEarned

LEMMA ScoreInRange ==
  ASSUME EarnedInv, NEW u, NEW g
  PROVE  Vote!ScoreOf(u, g) \in 0 .. IntMax
BY SpeculodAssumption DEF EarnedInv, Vote!ScoreOf

LEMMA WinsFinite ==
  ASSUME RegistriesOK, NEW u, NEW g
  PROVE  IsFiniteSet(Wins(u, g)) /\ Cardinality(Wins(u, g)) \in Nat
<1>1. IsFiniteSet(0 .. marketSeq - 1)
  BY FS_Interval DEF RegistriesOK
<1>2. Wins(u, g) \subseteq 0 .. marketSeq - 1
  BY DEF Wins, RegistriesOK
<1>3. IsFiniteSet(Wins(u, g))
  BY <1>1, <1>2, FS_Subset
<1> QED BY <1>3, FS_CardinalityType

LEMMA WinsFiniteNext ==
  ASSUME RegistriesOK', NEW u, NEW g
  PROVE  IsFiniteSet(Wins(u, g)') /\ Cardinality(Wins(u, g))' \in Nat
<1>1. IsFiniteSet(0 .. marketSeq' - 1)
  BY FS_Interval DEF RegistriesOK
<1>2. Wins(u, g)' \subseteq 0 .. marketSeq' - 1
  BY DEF Wins, RegistriesOK
<1>3. IsFiniteSet(Wins(u, g)')
  BY <1>1, <1>2, FS_Subset
<1> QED BY <1>3, FS_CardinalityType

\* While a chain runs, a won market stays won.
LEMMA WinsGrow ==
  ASSUME VotesKept, Vote!Keeps(markets, markets'), NEW u, NEW g
  PROVE  Wins(u, g) \subseteq Wins(u, g)'
BY DEF Wins, VotesKept, Vote!Keeps

\* Scores that do not grow stay earned.
LEMMA StillEarned ==
  ASSUME RegistriesOK, RegistriesOK', EarnedInv, VotesKept, Vote!Keeps(markets, markets'),
         \A k \in DOMAIN scores' : scores'[k] \in 0 .. IntMax,
         OnlyPenalties => \A u, g : Vote!ScoreOf(u, g)' <= Vote!ScoreOf(u, g)
  PROVE  EarnedInv'
<1> SUFFICES ASSUME OnlyPenalties, NEW u \in Users, NEW g \in Groups
             PROVE  Vote!ScoreOf(u, g)' <= Cardinality(Wins(u, g))'
  BY DEF EarnedInv, ScoresAreEarned, OnlyPenalties
<1>1. Vote!ScoreOf(u, g) <= Cardinality(Wins(u, g))
  BY DEF EarnedInv, ScoresAreEarned, OnlyPenalties
<1>2. Vote!ScoreOf(u, g)' <= Vote!ScoreOf(u, g)
  OBVIOUS
<1>3. Cardinality(Wins(u, g)) <= Cardinality(Wins(u, g)')
  BY WinsGrow, WinsFiniteNext, FS_Subset
<1>4. /\ Vote!ScoreOf(u, g) \in Int /\ Cardinality(Wins(u, g)) \in Int
      /\ Cardinality(Wins(u, g)') \in Int
  BY ScoreInRange, WinsFinite, WinsFiniteNext, SpeculodAssumption
<1>5. Vote!ScoreOf(u, g)' \in Int
  BY SpeculodAssumption DEF Vote!ScoreOf
<1> QED BY <1>1, <1>2, <1>3, <1>4, <1>5

LEMMA SameScoresEarned ==
  ASSUME RegistriesOK, RegistriesOK', EarnedInv, VotesKept, Vote!Keeps(markets, markets'),
         scores' = scores
  PROVE  EarnedInv'
<1>1. \A u, g : Vote!ScoreOf(u, g)' = Vote!ScoreOf(u, g)
  BY DEF Vote!ScoreOf
<1>2. \A u, g : Vote!ScoreOf(u, g)' <= Vote!ScoreOf(u, g)
  <2> TAKE u, g
  <2>1. Vote!ScoreOf(u, g) \in 0 .. IntMax
    BY ScoreInRange
  <2> QED BY <1>1, <2>1, SpeculodAssumption
<1>3. \A k \in DOMAIN scores' : scores'[k] \in 0 .. IntMax
  BY DEF EarnedInv
<1> QED BY <1>2, <1>3, StillEarned

LEMMA AdjustKeepsEarned ==
  ASSUME RegistriesOK, RegistriesOK', EarnedInv, VotesKept, Vote!AdjustSome
  PROVE  EarnedInv'
<1>1. PICK u \in Users, g \in Groups, a \in Adjustments : Vote!Adjust(u, g, a)
  BY DEF Vote!AdjustSome
<1> DEFINE s == Vote!ScoreOf(u, g)
           new == Vote!Adjusted(s, a)
<1>2. scores' = Vote!Put(scores, <<u, g>>, new) /\ markets' = markets
  BY <1>1 DEF Vote!Adjust, Vote!AdjustScore, Vote!marketVars
<1>3. s \in 0 .. IntMax /\ a \in -IntMax - 1 .. IntMax
  BY ScoreInRange, SpeculodAssumption
<1>4. new \in 0 .. IntMax
  BY <1>3, AdjustedInRange
<1>5. OnlyPenalties => new <= s
  <2> SUFFICES ASSUME OnlyPenalties PROVE new <= s
    OBVIOUS
  <2>1. a <= 0 /\ a \in Int /\ s \in Nat
    BY <1>3, SpeculodAssumption DEF OnlyPenalties
  <2>2. a <= 1
    BY <2>1
  <2>3. new <= (IF s + a < 0 THEN 0 ELSE s + a) /\ new \in Int
    BY <1>3, <1>4, <2>2, AdjustedBound
  <2> HIDE DEF s, new
  <2> QED BY <2>1, <2>3
<1> HIDE DEF new
<1>6. \A k \in DOMAIN scores' : scores'[k] \in 0 .. IntMax
  BY <1>2, <1>4 DEF Vote!Put, EarnedInv
<1>7. ASSUME OnlyPenalties, NEW v, NEW h
      PROVE  Vote!ScoreOf(v, h)' <= Vote!ScoreOf(v, h)
  <2>1. Vote!ScoreOf(v, h) \in Int
    BY ScoreInRange, SpeculodAssumption
  <2>2. CASE <<v, h>> = <<u, g>>
    <3>1. Vote!ScoreOf(v, h)' = new /\ v = u /\ h = g
      BY <1>2, <2>2 DEF Vote!Put, Vote!ScoreOf
    <3> QED BY <1>5, <1>7, <3>1
  <2>3. CASE <<v, h>> # <<u, g>>
    <3>1. Vote!ScoreOf(v, h)' = Vote!ScoreOf(v, h)
      BY <1>2, <2>3 DEF Vote!Put, Vote!ScoreOf
    <3> QED BY <2>1, <3>1
  <2> QED BY <2>2, <2>3
<1>8. Vote!Keeps(markets, markets')
  BY <1>2, KeepsSame
<1> QED BY <1>6, <1>7, <1>8, StillEarned

\* Finalizing a market adds it to the wins of those it pays, and to nobody twice.
LEMMA FinalizeKeepsEarned ==
  ASSUME RegistriesOK, RegistriesOK', EarnedInv, VotesKept, Vote!FinalizeSome
  PROVE  EarnedInv'
<1>1. PICK m \in 0 .. marketSeq : Vote!FinalizeOutcome(m)
  BY DEF Vote!FinalizeSome
<1>2. PICK c : outcomes' = Vote!Put(outcomes, m, c) /\ scores' = Vote!ScoresAfter(m, c)
  BY <1>1 DEF Vote!FinalizeOutcome
<1>3. /\ m \notin DOMAIN outcomes /\ m \in DOMAIN markets
      /\ UNCHANGED <<markets, reveals>>
  BY <1>1 DEF Vote!FinalizeOutcome, Vote!NotFinalized, Vote!marketVars
<1>4. m \in DOMAIN outcomes' /\ outcomes'[m] = c
  BY <1>2 DEF Vote!Put
<1> DEFINE group == markets[m].group
           keys == {<<v, group>> : v \in Vote!Revealers(m)}
           Won(v) == reveals[<<m, v>>].vote = c
           Change(v) == IF Won(v) THEN 1 ELSE -1
<1>5. scores' = [k \in DOMAIN scores \cup keys |->
                   IF k \in keys THEN Vote!Adjusted(Vote!ScoreOf(k[1], k[2]), Change(k[1]))
                                 ELSE scores[k]]
  BY <1>2 DEF Vote!ScoresAfter
<1>6. \A v : Change(v) \in -IntMax - 1 .. 1 /\ Change(v) = IF Won(v) THEN 1 ELSE -1
  BY SpeculodAssumption
<1> HIDE DEF Change, Won
<1>7. \A v \in Vote!Revealers(m) :
        scores'[<<v, group>>] = Vote!Adjusted(Vote!ScoreOf(v, group), Change(v))
  <2> TAKE v \in Vote!Revealers(m)
  <2>1. <<v, group>> \in keys
    OBVIOUS
  <2> HIDE DEF keys, group
  <2> QED BY <1>5, <2>1
<1>8. \A k \in DOMAIN scores' :
        \/ k \in DOMAIN scores /\ k \notin keys /\ scores'[k] = scores[k]
        \/ \E v \in Vote!Revealers(m) : k = <<v, group>>
  <2>1. \A k \in keys : \E v \in Vote!Revealers(m) : k = <<v, group>>
    OBVIOUS
  <2> HIDE DEF keys, group
  <2> QED BY <1>5, <2>1
<1>9. \A k \in DOMAIN scores' : scores'[k] \in 0 .. IntMax
  <2> TAKE k \in DOMAIN scores'
  <2>1. CASE \E v \in Vote!Revealers(m) : k = <<v, group>>
    <3>1. PICK v \in Vote!Revealers(m) : k = <<v, group>>
      BY <2>1
    <3>2. Vote!ScoreOf(v, group) \in Int /\ Change(v) \in Int
      BY <1>6, ScoreInRange, SpeculodAssumption
    <3> QED BY <1>7, <3>1, <3>2, AdjustedInRange
  <2> QED BY <1>8, <2>1 DEF EarnedInv
<1>10. ASSUME OnlyPenalties, NEW u \in Users, NEW g \in Groups
       PROVE  Vote!ScoreOf(u, g)' <= Cardinality(Wins(u, g))'
  <2> DEFINE old == Vote!ScoreOf(u, g)
             before == Cardinality(Wins(u, g))
             after == Cardinality(Wins(u, g)')
  <2>1. old \in 0 .. IntMax /\ old <= before /\ before \in Nat /\ after \in Nat
        /\ IntMax \in Nat
    BY <1>10, ScoreInRange, WinsFinite, WinsFiniteNext, SpeculodAssumption
       DEF EarnedInv, ScoresAreEarned, OnlyPenalties
  <2>2. before <= after
    <3>1. Wins(u, g) \subseteq Wins(u, g)'
      BY <1>3, KeepsSame, WinsGrow
    <3> QED BY <3>1, WinsFiniteNext, FS_Subset
  <2>3. CASE u \in Vote!Revealers(m) /\ g = group
    <3>1. <<u, g>> \in DOMAIN scores' /\ <<m, u>> \in DOMAIN reveals
      <4>1. <<u, g>> \in keys
        BY <2>3
      <4> HIDE DEF keys
      <4> QED BY <1>5, <2>3, <4>1 DEF Vote!Revealers
    <3>2. Vote!ScoreOf(u, g)' = Vote!Adjusted(old, Change(u))
      BY <1>7, <2>3, <3>1 DEF Vote!ScoreOf
    <3> DEFINE new == Vote!Adjusted(old, Change(u))
    <3>3. new \in 0 .. IntMax /\ new <= IF old + Change(u) < 0 THEN 0 ELSE old + Change(u)
      BY <1>6, <2>1, AdjustedBound
    <3> HIDE DEF old, before, after, new
    <3>4. CASE Won(u)
      <4>1. m \notin Wins(u, g)
        BY <1>3 DEF Wins
      <4>2. m \in Wins(u, g)'
        BY <1>3, <1>4, <2>3, <3>1, <3>4 DEF Wins, Won
      <4>3. IsFiniteSet(Wins(u, g)) /\ IsFiniteSet(Wins(u, g)')
        BY WinsFinite, WinsFiniteNext
      <4>4. Wins(u, g) \cup {m} \subseteq Wins(u, g)'
        BY <1>3, <4>2, KeepsSame, WinsGrow
      <4>5. before + 1 <= after
        <5>1. Cardinality(Wins(u, g) \cup {m}) = Cardinality(Wins(u, g)) + 1
          BY <4>1, <4>3, FS_AddElement
        <5>2. Cardinality(Wins(u, g) \cup {m}) <= Cardinality(Wins(u, g)')
          BY <4>3, <4>4, FS_Subset
        <5> QED BY <5>1, <5>2 DEF before, after
      <4>6. Change(u) = 1
        BY <1>6, <3>4
      <4>7. new <= after
        BY <2>1, <3>3, <4>5, <4>6
      <4> QED BY <3>2, <4>7 DEF new, after, old
    <3>5. CASE ~Won(u)
      <4>1. Change(u) = -1
        BY <1>6, <3>5
      <4>2. new <= after
        BY <2>1, <2>2, <3>3, <4>1
      <4> QED BY <3>2, <4>2 DEF new, after, old
    <3> QED BY <3>4, <3>5
  <2>4. CASE ~(u \in Vote!Revealers(m) /\ g = group)
    <3>1. <<u, g>> \notin keys
      BY <2>4
    <3>2. Vote!ScoreOf(u, g)' = old
      <4> HIDE DEF keys, group
      <4> QED BY <1>5, <3>1 DEF Vote!ScoreOf
    <3> HIDE DEF old, before, after
    <3>3. old <= after
      BY <2>1, <2>2
    <3> QED BY <3>2, <3>3 DEF after
  <2> QED BY <2>3, <2>4
<1> QED BY <1>9, <1>10 DEF EarnedInv, ScoresAreEarned, OnlyPenalties

LEMMA EarnedNext ==
  ASSUME ChainInv, IInv, EarnedInv, ChainInv', VotesKept, [Next]_chainVars
  PROVE  EarnedInv'
<1>1. RegistriesOK /\ RegistriesOK'
  BY DEF ChainInv
<1>2. CASE Restart
  <2>1. DOMAIN scores' = {}
    BY <1>2 DEF Restart, ImportReputation, Vote!EmptyStore
  <2>2. \A u, g : Vote!ScoreOf(u, g)' = 0
    BY <2>1 DEF Vote!ScoreOf
  <2>3. \A u, g : Cardinality(Wins(u, g))' \in Nat
    BY <1>1, WinsFiniteNext
  <2>4. \A u, g : Vote!ScoreOf(u, g)' <= Cardinality(Wins(u, g))'
    BY <2>2, <2>3
  <2> QED BY <2>1, <2>4 DEF EarnedInv, ScoresAreEarned
<1>3. CASE Voting
  <2>1. CASE Vote!CreateSome
    <3>1. PICK u \in Users, q \in Questions \cup {EmptyText}, o \in OutcomeLists,
               g \in Groups, d \in Deadlines : Vote!NewMarket(u, q, o, g, d)
      BY <2>1 DEF Vote!CreateSome
    <3>2. PICK new : markets' = Vote!Put(markets, marketSeq, new)
      BY <3>1 DEF Vote!NewMarket, Vote!CreateMarket
    <3>3. marketSeq \notin DOMAIN markets
      BY DEF ChainInv, RegistriesOK
    <3>4. scores' = scores
      BY <3>1 DEF Vote!NewMarket
    <3>5. Vote!Keeps(markets, markets')
      BY <3>2, <3>3, PutFacts
    <3> QED BY <1>1, <3>4, <3>5, SameScoresEarned
  <2>2. CASE Vote!BeginBlock \/ Vote!CommitSome \/ Vote!RevealSome
    <3>1. UNCHANGED <<markets, scores>>
      BY <2>2 DEF Vote!BeginBlock, Vote!CommitSome, Vote!CommitVote, Vote!RevealSome,
         Vote!RevealVote, Vote!marketVars
    <3> QED BY <1>1, <3>1, KeepsSame, SameScoresEarned
  <2> QED BY <1>1, <1>3, <2>1, <2>2, AdjustKeepsEarned, FinalizeKeepsEarned
          DEF Voting, Vote!Next
<1>4. CASE Trading
  <2>1. scores' = scores
    BY <1>4 DEF Trading
  <2>2. CASE Book!PostSome
    BY <1>1, <2>1, <2>2, KeepsSame, SameScoresEarned
       DEF Book!PostSome, Book!Post, Book!marketVars
  <2>3. CASE Book!WithdrawSome
    BY <1>1, <2>1, <2>3, KeepsSame, SameScoresEarned
       DEF Book!WithdrawSome, Book!Withdraw, Book!marketVars
  <2>4. CASE Book!TakeSome
    BY <1>1, <2>1, <2>4, KeepsSame, SameScoresEarned
       DEF Book!TakeSome, Book!Take, Book!marketVars
  <2> QED BY <1>4, <2>2, <2>3, <2>4 DEF Trading, Book!Trading
<1>5. CASE UNCHANGED chainVars
  BY <1>1, <1>5, KeepsSame, SameScoresEarned DEF chainVars
<1> QED BY <1>2, <1>3, <1>4, <1>5 DEF Next

\* Where the authority only takes reputation away, nobody ever has a score above
\* the number of decided markets of the group in which they voted with the
\* outcome: for any number of voters, markets and restarts, and any int width.
THEOREM ScoresAreEarnedHolds == Spec => []ScoresAreEarned
<1>1. Init => EarnedInv
  <2> SUFFICES ASSUME Init PROVE EarnedInv
    OBVIOUS
  <2>1. DOMAIN scores = {} /\ DOMAIN outcomes = {}
    BY DEF Init, Vote!SettlementInit, Vote!ReputationInit, Vote!EmptyStore
  <2>2. \A u, g : Vote!ScoreOf(u, g) = 0 /\ Wins(u, g) = {}
    BY <2>1 DEF Vote!ScoreOf, Wins
  <2>3. Cardinality({}) = 0
    BY FS_EmptySet
  <2>4. \A u, g : Vote!ScoreOf(u, g) <= Cardinality(Wins(u, g))
    BY <2>2, <2>3
  <2> QED BY <2>1, <2>4 DEF EarnedInv, ScoresAreEarned
<1>2. ChainInv /\ ChainInv' /\ IInv /\ EarnedInv /\ [Next]_chainVars => EarnedInv'
  BY EarnedNext, StepsKeepVotes
<1>3. EarnedInv => ScoresAreEarned
  BY DEF EarnedInv
<1> QED BY <1>1, <1>2, <1>3, ChainInvariance, Invariance, PTL DEF Spec
=============================================================================
