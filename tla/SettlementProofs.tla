-------------------------- MODULE SettlementProofs --------------------------
(***************************************************************************)
(* Votes stay what they were, in their stores and under their keys,        *)
(* finalization decides by the heaviest vote and moves scores as it        *)
(* should, and settlement implements the abstract election of Oracle: for  *)
(* every set of voters, votes, nonces and adjustments, every integer width *)
(* and every bound.                                                        *)
(***************************************************************************)
EXTENDS Keys, MarketsProofs, SumTheorems, SequenceTheorems

(***************************************************************************)
(* Scores                                                                  *)
(***************************************************************************)

\* Wrapped integers fit their width, and stored scores are not negative.
LEMMA WrapRange == ASSUME NEW x \in Int PROVE Wrap(x) \in -IntMax - 1 .. IntMax
<1> DEFINE w == 2 * (IntMax + 1)
           y == x + IntMax + 1
<1>1. IntMax \in Nat /\ w \in Nat /\ w > 0 /\ y \in Int
  BY ReputationAssumption
<1>2. y % w \in 0 .. w - 1
  <2> HIDE DEF y, w
  <2> QED BY <1>1
<1>3. Wrap(x) = (y % w) - (IntMax + 1)
  BY DEF Wrap
<1>4. y % w \in Int /\ 0 <= y % w /\ y % w <= w - 1
  BY <1>1, <1>2
<1> DEFINE r == y % w
<1>5. r \in Int /\ 0 <= r /\ r <= 2 * IntMax + 1
  BY <1>1, <1>4
<1>6. Wrap(x) = r - (IntMax + 1)
  BY <1>3
<1> HIDE DEF r, y, w
<1> QED BY <1>1, <1>5, <1>6

LEMMA AdjustedRange ==
  ASSUME NEW s \in Int, NEW a \in Int
  PROVE  Adjusted(s, a) \in 0 .. IntMax
<1>1. Wrap(s + a) \in -IntMax - 1 .. IntMax
  BY WrapRange
<1> QED BY <1>1, ReputationAssumption DEF Adjusted

LEMMA ScoreIsInt ==
  ASSUME TypeOK, NEW u, NEW g
  PROVE  ScoreOf(u, g) \in Int
BY ReputationAssumption DEF TypeOK, ScoreOf

(***************************************************************************)
(* Type correctness                                                        *)
(***************************************************************************)

LEMMA TypeInit == SettlementInit => TypeOK
<1> SUFFICES ASSUME SettlementInit PROVE TypeOK
  OBVIOUS
<1>1. 0 .. 0 - 1 = {}
  OBVIOUS
<1>2. MarketsTypeOK
  BY <1>1, MarketsAssumption DEF SettlementInit, MarketsInit, MarketsTypeOK, EmptyStore
<1>3. /\ DOMAIN scores = {} /\ DOMAIN commits = {}
      /\ DOMAIN reveals = {} /\ DOMAIN outcomes = {}
  BY DEF SettlementInit, ReputationInit, EmptyStore
<1> QED BY <1>2, <1>3 DEF TypeOK

LEMMA TypeNext == TypeOK /\ [Next]_vars => TypeOK'
<1> SUFFICES ASSUME TypeOK, [Next]_vars PROVE TypeOK'
  OBVIOUS
<1>1. CASE CreateSome
  <2>1. PICK u \in Users, q \in Questions \cup {EmptyText}, o \in OutcomeLists,
             g \in Groups, d \in Deadlines : NewMarket(u, q, o, g, d)
    BY <1>1 DEF CreateSome
  <2>2. CreateMarket(u, q, o, g, d) /\ UNCHANGED <<clockVars, scores, settlementVars>>
    BY <2>1 DEF NewMarket
  <2>3. MarketsTypeOK' /\ DOMAIN markets \subseteq DOMAIN markets'
    BY <2>2, MarketTyped DEF TypeOK
  <2> QED BY <2>2, <2>3 DEF TypeOK, settlementVars
<1>2. CASE BeginBlock
  <2>1. NextBlock /\ UNCHANGED <<marketVars, scores, settlementVars>>
    BY <1>2 DEF BeginBlock
  <2>2. MarketsTypeOK'
    BY <2>1, MarketsAssumption DEF TypeOK, MarketsTypeOK, NextBlock, marketVars
  <2> QED BY <2>1, <2>2 DEF TypeOK, settlementVars, marketVars
<1>3. CASE AdjustSome
  <2>1. PICK u \in Users, g \in Groups, a \in Adjustments : Adjust(u, g, a)
    BY <1>3 DEF AdjustSome
  <2> DEFINE new == Adjusted(ScoreOf(u, g), a)
  <2>2. UNCHANGED <<clockVars, marketVars, settlementVars>> /\ scores' = Put(scores, <<u, g>>, new)
    BY <2>1 DEF Adjust, AdjustScore
  <2>3. new \in 0 .. IntMax
    <3>1. a \in Int
      BY ReputationAssumption
    <3> QED BY <3>1, AdjustedRange, ScoreIsInt
  <2> HIDE DEF new
  <2>4. /\ DOMAIN scores' \subseteq Users \X Groups
        /\ \A k \in DOMAIN scores' : scores'[k] \in 0 .. IntMax
    BY <2>2, <2>3 DEF TypeOK, Put
  <2>5. MarketsTypeOK'
    BY <2>2 DEF TypeOK, MarketsTypeOK, clockVars, marketVars
  <2> QED BY <2>2, <2>4, <2>5 DEF TypeOK, settlementVars, marketVars
<1>4. CASE CommitSome
  <2>1. PICK u \in Users, m \in 0 .. marketSeq, c \in Commitments : CommitVote(u, m, c)
    BY <1>4 DEF CommitSome
  <2>2. /\ m \in DOMAIN markets /\ c # ShortCommitment
        /\ commits' = Put(commits, <<m, u>>, c)
        /\ UNCHANGED <<clockVars, marketVars, scores, reveals, outcomes>>
    BY <2>1 DEF CommitVote
  <2>3. MarketsTypeOK'
    BY <2>2 DEF TypeOK, MarketsTypeOK, clockVars, marketVars
  <2>4. /\ DOMAIN commits' = DOMAIN commits \cup {<<m, u>>}
        /\ \A k \in DOMAIN commits' : commits'[k] \in Commitments \ {ShortCommitment}
    BY <2>2 DEF TypeOK, Put
  <2> QED BY <2>2, <2>3, <2>4 DEF TypeOK, marketVars
<1>5. CASE RevealSome
  <2>1. PICK u \in Users, m \in 0 .. marketSeq, v \in Votes, n \in Nonces :
               RevealVote(u, m, v, n)
    BY <1>5 DEF RevealSome
  <2>2. /\ <<m, u>> \in DOMAIN commits
        /\ reveals' = Put(reveals, <<m, u>>, [vote |-> v, nonce |-> n])
        /\ UNCHANGED <<clockVars, marketVars, scores, commits, outcomes>>
    BY <2>1 DEF RevealVote
  <2>3. MarketsTypeOK'
    BY <2>2 DEF TypeOK, MarketsTypeOK, clockVars, marketVars
  <2>4. /\ DOMAIN reveals' = DOMAIN reveals \cup {<<m, u>>}
        /\ \A k \in DOMAIN reveals' : reveals'[k] \in [vote : Votes, nonce : Nonces]
    BY <2>2 DEF TypeOK, Put
  <2> QED BY <2>2, <2>3, <2>4 DEF TypeOK, marketVars
<1>6. CASE FinalizeSome
  <2>1. PICK m \in 0 .. marketSeq : FinalizeOutcome(m)
    BY <1>6 DEF FinalizeSome
  <2>2. PICK consensus : outcomes' = Put(outcomes, m, consensus) /\ scores' = ScoresAfter(m, consensus)
    BY <2>1 DEF FinalizeOutcome
  <2>3. m \in DOMAIN markets /\ UNCHANGED <<clockVars, marketVars, commits, reveals>>
    BY <2>1 DEF FinalizeOutcome
  <2>4. MarketsTypeOK'
    BY <2>3 DEF TypeOK, MarketsTypeOK, clockVars, marketVars
  <2>5. DOMAIN outcomes' = DOMAIN outcomes \cup {m}
    BY <2>2 DEF Put
  <2>6. /\ DOMAIN scores' \subseteq Users \X Groups
        /\ \A k \in DOMAIN scores' : scores'[k] \in 0 .. IntMax
    <3> DEFINE keys == {<<v, markets[m].group>> : v \in Revealers(m)}
               Change(v) == IF reveals[<<m, v>>].vote = consensus THEN 1 ELSE -1
    <3>1. scores' = [k \in DOMAIN scores \cup keys |->
                       IF k \in keys THEN Adjusted(ScoreOf(k[1], k[2]), Change(k[1]))
                                     ELSE scores[k]]
      BY <2>2 DEF ScoresAfter
    <3>2. markets[m].group \in Groups
      BY <2>3 DEF TypeOK, MarketsTypeOK, Market
    <3>3. keys \subseteq Users \X Groups
      <4>1. \A v \in Revealers(m) : v \in Users
        BY DEF Revealers
      <4>2. \A v \in Revealers(m) : <<v, markets[m].group>> \in Users \X Groups
        BY <3>2, <4>1
      <4> QED BY <4>2
    <3>4. \A k \in keys : Adjusted(ScoreOf(k[1], k[2]), Change(k[1])) \in 0 .. IntMax
      <4> TAKE k \in keys
      <4>1. ScoreOf(k[1], k[2]) \in Int /\ Change(k[1]) \in Int
        BY ScoreIsInt
      <4> HIDE DEF Change
      <4> QED BY <4>1, AdjustedRange
    <3> HIDE DEF keys, Change
    <3> QED BY <3>1, <3>3, <3>4 DEF TypeOK
  <2> QED BY <2>3, <2>4, <2>5, <2>6 DEF TypeOK, marketVars
<1>7. CASE UNCHANGED vars
  BY <1>7 DEF vars, TypeOK, MarketsTypeOK, clockVars, marketVars, settlementVars
<1> QED BY <1>1, <1>2, <1>3, <1>4, <1>5, <1>6, <1>7 DEF Next

\* Whatever messages arrive, votes and outcomes belong to existing markets and
\* no stored score is negative or wider than its integer type.
THEOREM TypeCorrect == Spec => []TypeOK
<1>1. SettlementInit => TypeOK
  BY TypeInit
<1>2. TypeOK /\ [Next]_vars => TypeOK'
  BY TypeNext
<1> QED BY <1>1, <1>2, PTL DEF Spec

(***************************************************************************)
(* Votes                                                                   *)
(*                                                                         *)
(* A reveal is checked against the commitment and the market once, when it *)
(* is stored.  It stays right because nothing it was checked against ever  *)
(* changes, and only a commitment was checked against the clock: reveals   *)
(* and outcomes come after the deadline because they come after one.       *)
(***************************************************************************)

\* Markets, commits, reveals and outcomes are written once, and time does not
\* go back.
Monotone ==
  /\ Keeps(markets, markets') /\ Keeps(commits, commits')
  /\ Keeps(reveals, reveals') /\ Keeps(outcomes, outcomes')
  /\ now' >= now

LEMMA KeepsSame == ASSUME NEW s, NEW t, t = s PROVE Keeps(s, t)
BY DEF Keeps

LEMMA KeepsPut ==
  ASSUME NEW s, NEW k, NEW v, NEW t, k \notin DOMAIN s, t = Put(s, k, v)
  PROVE  Keeps(s, t)
BY DEF Keeps, Put

LEMMA StepsAreMonotone == TypeOK /\ [Next]_vars => Monotone
<1> SUFFICES ASSUME TypeOK, [Next]_vars PROVE Monotone
  OBVIOUS
<1>0. now \in Nat
  BY MarketsAssumption DEF TypeOK, MarketsTypeOK
<1>1. CASE CreateSome
  <2>1. PICK u \in Users, q \in Questions \cup {EmptyText}, o \in OutcomeLists,
             g \in Groups, d \in Deadlines : NewMarket(u, q, o, g, d)
    BY <1>1 DEF CreateSome
  <2>2. CreateMarket(u, q, o, g, d) /\ UNCHANGED <<clockVars, scores, settlementVars>>
    BY <2>1 DEF NewMarket
  <2>3. Keeps(markets, markets')
    BY <2>2, MarketTyped DEF TypeOK, Keeps
  <2> QED BY <1>0, <2>2, <2>3, KeepsSame DEF Monotone, clockVars, settlementVars
<1>2. CASE BeginBlock
  <2>1. NextBlock /\ UNCHANGED <<marketVars, scores, settlementVars>>
    BY <1>2 DEF BeginBlock
  <2>2. now' >= now
    BY <1>0, <2>1, MarketsAssumption DEF NextBlock
  <2> QED BY <2>1, <2>2, KeepsSame DEF Monotone, marketVars, settlementVars
<1>3. CASE AdjustSome
  <2>1. UNCHANGED <<clockVars, marketVars, settlementVars>>
    BY <1>3 DEF AdjustSome, Adjust
  <2> QED BY <1>0, <2>1, KeepsSame DEF Monotone, clockVars, marketVars, settlementVars
<1>4. CASE CommitSome
  <2>1. PICK u \in Users, m \in 0 .. marketSeq, c \in Commitments : CommitVote(u, m, c)
    BY <1>4 DEF CommitSome
  <2>2. /\ <<m, u>> \notin DOMAIN commits /\ commits' = Put(commits, <<m, u>>, c)
        /\ UNCHANGED <<clockVars, marketVars, scores, reveals, outcomes>>
    BY <2>1 DEF CommitVote, Uncommitted
  <2>3. Keeps(commits, commits')
    BY <2>2, KeepsPut
  <2> QED BY <1>0, <2>2, <2>3, KeepsSame DEF Monotone, clockVars, marketVars
<1>5. CASE RevealSome
  <2>1. PICK u \in Users, m \in 0 .. marketSeq, v \in Votes, n \in Nonces :
               RevealVote(u, m, v, n)
    BY <1>5 DEF RevealSome
  <2>2. /\ <<m, u>> \notin DOMAIN reveals
        /\ reveals' = Put(reveals, <<m, u>>, [vote |-> v, nonce |-> n])
        /\ UNCHANGED <<clockVars, marketVars, scores, commits, outcomes>>
    BY <2>1 DEF RevealVote
  <2>3. Keeps(reveals, reveals')
    BY <2>2, KeepsPut
  <2> QED BY <1>0, <2>2, <2>3, KeepsSame DEF Monotone, clockVars, marketVars
<1>6. CASE FinalizeSome
  <2>1. PICK m \in 0 .. marketSeq : FinalizeOutcome(m)
    BY <1>6 DEF FinalizeSome
  <2>2. PICK consensus : outcomes' = Put(outcomes, m, consensus)
    BY <2>1 DEF FinalizeOutcome
  <2>3. m \notin DOMAIN outcomes /\ UNCHANGED <<clockVars, marketVars, commits, reveals>>
    BY <2>1 DEF FinalizeOutcome, NotFinalized
  <2>4. Keeps(outcomes, outcomes')
    BY <2>2, <2>3, KeepsPut
  <2> QED BY <1>0, <2>3, <2>4, KeepsSame DEF Monotone, clockVars, marketVars
<1>7. CASE UNCHANGED vars
  BY <1>0, <1>7, KeepsSame DEF vars, Monotone, clockVars, marketVars, settlementVars
<1> QED BY <1>1, <1>2, <1>3, <1>4, <1>5, <1>6, <1>7 DEF Next

\* No commitment, reveal or outcome is ever removed or replaced, in whatever
\* order messages of any number of voters arrive.
THEOREM VotesAreFinalHolds == Spec => VotesAreFinal
<1>1. TypeOK /\ [Next]_vars =>
        [Keeps(commits, commits') /\ Keeps(reveals, reveals') /\ Keeps(outcomes, outcomes')]_vars
  BY StepsAreMonotone DEF Monotone
<1> QED BY <1>1, TypeCorrect, PTL DEF Spec, VotesAreFinal

IInv == TypeOK /\ RevealsOpenCommits /\ OnlyAfterDeadline

\* A stored reveal that opens its commitment keeps doing so.
OpensCommit(k) ==
  /\ commits[k] = reveals[k].vote \o reveals[k].nonce
  /\ Len(reveals[k].nonce) \in NonceLengths
  /\ \E i \in DOMAIN markets[k[1]].outcomes :
       EqualFold(reveals[k].vote, markets[k[1]].outcomes[i])

LEMMA OldReveals ==
  ASSUME IInv, Monotone, NEW k \in DOMAIN reveals
  PROVE  OpensCommit(k)'
<1>1. k \in DOMAIN commits /\ k[1] \in DOMAIN markets /\ OpensCommit(k)
  BY DEF IInv, TypeOK, RevealsOpenCommits, OpensCommit
<1>2. commits'[k] = commits[k] /\ reveals'[k] = reveals[k] /\ markets'[k[1]] = markets[k[1]]
  BY <1>1 DEF Monotone, Keeps
<1> QED BY <1>1, <1>2 DEF OpensCommit

LEMMA FoldSymmetric == ASSUME NEW a, NEW b, EqualFold(a, b) PROVE EqualFold(b, a)
BY DEF EqualFold

LEMMA RevealsNext == IInv /\ [Next]_vars => RevealsOpenCommits'
<1> SUFFICES ASSUME IInv, [Next]_vars PROVE RevealsOpenCommits'
  OBVIOUS
<1>1. Monotone
  BY StepsAreMonotone DEF IInv
<1>2. \A k \in DOMAIN reveals : OpensCommit(k)'
  BY <1>1, OldReveals
<1>3. CASE RevealSome
  <2>1. PICK u \in Users, m \in 0 .. marketSeq, v \in Votes, n \in Nonces :
               RevealVote(u, m, v, n)
    BY <1>3 DEF RevealSome
  <2> DEFINE k == <<m, u>>
             r == [vote |-> v, nonce |-> n]
  <2>2. /\ k \in DOMAIN commits /\ commits[k] = v \o n /\ Len(n) \in NonceLengths
        /\ reveals' = Put(reveals, k, r) /\ UNCHANGED <<marketVars, commits>>
        /\ ValidateOutcome(markets[m], v)
    BY <2>1 DEF RevealVote, Digest
  <2>3. PICK i \in 1 .. Len(markets[m].outcomes) : EqualFold(v, markets[m].outcomes[i])
    BY <2>2, FoldSymmetric DEF ValidateOutcome
  <2>4. m \in DOMAIN markets /\ markets[m] \in Market
    BY <2>1 DEF RevealVote, IInv, TypeOK, MarketsTypeOK
  <2>5. i \in DOMAIN markets[m].outcomes
    BY <2>3, <2>4 DEF Market
  <2>6. reveals'[k] = r /\ DOMAIN reveals' = DOMAIN reveals \cup {k}
    BY <2>2 DEF Put
  <2>7. OpensCommit(k)'
    <3>1. r.vote = v /\ r.nonce = n /\ k[1] = m
      OBVIOUS
    <3>2. commits' = commits /\ markets' = markets
      BY <2>2 DEF marketVars
    <3> HIDE DEF k, r
    <3>3. commits'[k] = reveals'[k].vote \o reveals'[k].nonce
      BY <2>2, <2>6, <3>1, <3>2
    <3>4. Len(reveals'[k].nonce) \in NonceLengths
      BY <2>2, <2>6, <3>1
    <3>5. EqualFold(reveals'[k].vote, markets'[k[1]].outcomes[i])
      BY <2>3, <2>6, <3>1, <3>2
    <3>6. i \in DOMAIN markets'[k[1]].outcomes
      BY <2>5, <3>1, <3>2
    <3> QED BY <3>3, <3>4, <3>5, <3>6 DEF OpensCommit
  <2> HIDE DEF k, r
  <2> QED BY <1>2, <2>6, <2>7 DEF RevealsOpenCommits, OpensCommit
<1>4. CASE reveals' = reveals
  BY <1>2, <1>4 DEF RevealsOpenCommits, OpensCommit
<1>5. RevealSome \/ reveals' = reveals
  BY DEF Next, vars, settlementVars, CreateSome, NewMarket, BeginBlock, AdjustSome,
         Adjust, CommitSome, CommitVote, FinalizeSome, FinalizeOutcome
<1> QED BY <1>3, <1>4, <1>5

LEMMA DeadlineNext == IInv /\ [Next]_vars => OnlyAfterDeadline'
<1> SUFFICES ASSUME IInv, [Next]_vars PROVE OnlyAfterDeadline'
  OBVIOUS
<1>1. Monotone /\ TypeOK /\ TypeOK' /\ OnlyAfterDeadline
  BY StepsAreMonotone, TypeNext DEF IInv
<1>2. now \in Nat /\ now' \in Nat /\ now' >= now
  BY <1>1, MarketsAssumption DEF TypeOK, MarketsTypeOK, Monotone
<1>3. \A m \in DOMAIN markets :
        markets[m].deadline \in Nat /\ markets'[m] = markets[m]
  BY <1>1 DEF TypeOK, MarketsTypeOK, Market, Monotone, Keeps
<1>4. \A m \in DOMAIN markets : now >= markets[m].deadline => now' >= markets'[m].deadline
  BY <1>2, <1>3
<1>5. \A k \in DOMAIN commits' : now' >= markets'[k[1]].deadline
  <2>1. CASE CommitSome
    <3>1. PICK u \in Users, m \in 0 .. marketSeq, c \in Commitments : CommitVote(u, m, c)
      BY <2>1 DEF CommitSome
    <3>2. m \in DOMAIN markets /\ now >= markets[m].deadline
      BY <1>2, <1>3, <3>1 DEF CommitVote, Ready
    <3>3. DOMAIN commits' = DOMAIN commits \cup {<<m, u>>}
      BY <3>1 DEF CommitVote, Put
    <3> QED BY <1>1, <1>4, <3>2, <3>3 DEF TypeOK, OnlyAfterDeadline
  <2>2. CASE commits' = commits
    BY <1>1, <1>4, <2>2 DEF TypeOK, OnlyAfterDeadline
  <2>3. CommitSome \/ commits' = commits
    BY DEF Next, vars, settlementVars, CreateSome, NewMarket, BeginBlock, AdjustSome,
           Adjust, RevealSome, RevealVote, FinalizeSome, FinalizeOutcome
  <2> QED BY <2>1, <2>2, <2>3
<1>6. \A k \in DOMAIN reveals' : now' >= markets'[k[1]].deadline
  BY <1>1, <1>5 DEF TypeOK
<1>7. \A m \in DOMAIN outcomes' : now' >= markets'[m].deadline
  <2>1. CASE FinalizeSome
    <3>1. PICK m \in 0 .. marketSeq : FinalizeOutcome(m)
      BY <2>1 DEF FinalizeSome
    <3>2. PICK v \in Users : <<m, v>> \in DOMAIN reveals
      BY <3>1 DEF FinalizeOutcome, Revealers
    <3>3. m \in DOMAIN markets /\ now >= markets[m].deadline
      BY <1>1, <3>1, <3>2 DEF FinalizeOutcome, OnlyAfterDeadline
    <3>4. DOMAIN outcomes' = DOMAIN outcomes \cup {m}
      BY <3>1 DEF FinalizeOutcome, Put
    <3> QED BY <1>1, <1>4, <3>3, <3>4 DEF TypeOK, OnlyAfterDeadline
  <2>2. CASE outcomes' = outcomes
    BY <1>1, <1>4, <2>2 DEF TypeOK, OnlyAfterDeadline
  <2>3. FinalizeSome \/ outcomes' = outcomes
    BY DEF Next, vars, settlementVars, CreateSome, NewMarket, BeginBlock, AdjustSome,
           Adjust, CommitSome, CommitVote, RevealSome, RevealVote
  <2> QED BY <2>1, <2>2, <2>3
<1> QED BY <1>5, <1>6, <1>7 DEF OnlyAfterDeadline

LEMMA Invariance == Spec => []IInv
<1>1. SettlementInit => IInv
  <2> SUFFICES ASSUME SettlementInit PROVE IInv
    OBVIOUS
  <2>1. DOMAIN commits = {} /\ DOMAIN reveals = {} /\ DOMAIN outcomes = {}
    BY DEF SettlementInit, EmptyStore
  <2> QED BY <2>1, TypeInit DEF IInv, RevealsOpenCommits, OnlyAfterDeadline
<1>2. IInv /\ [Next]_vars => IInv'
  BY TypeNext, RevealsNext, DeadlineNext DEF IInv
<1> QED BY <1>1, <1>2, PTL DEF Spec

\* Every stored reveal opens the stored commitment of its voter and names an
\* outcome of its market, however many messages came between the two.
THEOREM RevealsOpenCommitsHolds == Spec => []RevealsOpenCommits
<1>1. IInv => RevealsOpenCommits
  BY DEF IInv
<1> QED BY <1>1, Invariance, PTL

\* No commitment, reveal or outcome comes before the deadline of its market,
\* although only CommitVote compares the deadline with the clock.
THEOREM OnlyAfterDeadlineHolds == Spec => []OnlyAfterDeadline
<1>1. IInv => OnlyAfterDeadline
  BY DEF IInv
<1> QED BY <1>1, Invariance, PTL

(***************************************************************************)
(* The scans                                                               *)
(***************************************************************************)

\* The text of n, from the texts of smaller numbers.
Digits(f, n) == IF n < 10 THEN <<n>> ELSE Append(f[n \div 10], n % 10)

SpellsUpTo(f, k) == \A n \in 0 .. k : f[n] = Digits(f, n)

LEMMA Tenth ==
  ASSUME NEW n \in Nat, n >= 10
  PROVE  n \div 10 \in 0 .. n - 1 /\ n \div 10 > 0 /\ n % 10 \in 0 .. 9
         /\ n = 10 * (n \div 10) + (n % 10)
OBVIOUS

LEMMA SpellsAlike ==
  ASSUME NEW f, NEW g, NEW k \in Nat, NEW l \in Nat, SpellsUpTo(f, k), SpellsUpTo(g, l),
         NEW n \in Nat, n <= k, n <= l
  PROVE  f[n] = g[n]
<1> DEFINE bad == {m \in Nat : m <= k /\ m <= l /\ f[m] # g[m]}
<1> SUFFICES ASSUME bad # {} PROVE FALSE
  OBVIOUS
<1>1. PICK m \in bad : \A i \in bad : m <= i
  <2>1. bad \in SUBSET Nat /\ bad # {}
    OBVIOUS
  <2> HIDE DEF bad
  <2> QED BY <2>1, LeastMember
<1>2. f[m] = Digits(f, m) /\ g[m] = Digits(g, m)
  BY DEF SpellsUpTo
<1>3. m >= 10
  BY <1>2 DEF Digits
<1>4. m \div 10 \in 0 .. m - 1
  BY <1>3, Tenth
<1>5. f[m \div 10] = g[m \div 10]
  <2>1. m \div 10 \in Nat /\ m \div 10 < m
    BY <1>4
  <2> QED BY <1>1, <2>1
<1> QED BY <1>2, <1>5 DEF Digits

LEMMA SpellingExists == \A k \in Nat : \E f : SpellsUpTo(f, k)
<1> DEFINE bad == {k \in Nat : ~\E f : SpellsUpTo(f, k)}
<1> SUFFICES ASSUME bad # {} PROVE FALSE
  OBVIOUS
<1>1. PICK k \in bad : \A i \in bad : k <= i
  <2>1. bad \in SUBSET Nat /\ bad # {}
    OBVIOUS
  <2> HIDE DEF bad
  <2> QED BY <2>1, LeastMember
<1>2. \E f : \A n \in 0 .. k - 1 : f[n] = Digits(f, n)
  <2>1. CASE k = 0
    BY <2>1
  <2>2. CASE k # 0
    <3>1. k - 1 \in Nat /\ k - 1 < k
      BY <2>2
    <3>2. k - 1 \notin bad
      BY <1>1, <3>1
    <3> QED BY <3>1, <3>2 DEF SpellsUpTo
  <2> QED BY <2>1, <2>2
<1>3. PICK f : \A n \in 0 .. k - 1 : f[n] = Digits(f, n)
  BY <1>2
<1> DEFINE g == [n \in 0 .. k |-> IF n = k THEN Digits(f, k) ELSE f[n]]
<1>4. ASSUME NEW n \in 0 .. k PROVE g[n] = Digits(g, n)
  <2>1. g[n] = Digits(f, n)
    BY <1>3
  <2>2. CASE n < 10
    BY <2>1, <2>2 DEF Digits
  <2>3. CASE n >= 10
    <3>1. n \div 10 \in 0 .. n - 1
      BY <2>3, Tenth
    <3>2. n \div 10 \in 0 .. k /\ n \div 10 # k
      BY <3>1
    <3>3. g[n \div 10] = f[n \div 10]
      BY <3>2
    <3> QED BY <2>1, <3>3 DEF Digits
  <2> QED BY <2>2, <2>3
<1>5. SpellsUpTo(g, k)
  BY <1>4 DEF SpellsUpTo
<1> QED BY <1>5

\* The recursion that defines Decimal has a solution.
LEMMA DecimalSpells == \A n \in Nat : Decimal[n] = Digits(Decimal, n)
<1> DEFINE F(k) == CHOOSE f : SpellsUpTo(f, k)
           V(n) == F(n)[n]
           d == [n \in Nat |-> V(n)]
<1>1. \A k \in Nat : SpellsUpTo(F(k), k)
  BY SpellingExists
<1> HIDE DEF F
<1>2. ASSUME NEW n \in Nat PROVE V(n) = Digits(d, n)
  <2>1. V(n) = Digits(F(n), n)
    BY <1>1 DEF SpellsUpTo
  <2>2. CASE n < 10
    BY <2>1, <2>2 DEF Digits
  <2>3. CASE n >= 10
    <3>1. n \div 10 \in Nat /\ n \div 10 <= n
      BY <2>3, Tenth
    <3>2. F(n)[n \div 10] = V(n \div 10)
      BY <1>1, <3>1, SpellsAlike
    <3> QED BY <2>1, <3>1, <3>2 DEF Digits
  <2> QED BY <2>2, <2>3
<1>3. d = [n \in Nat |-> Digits(d, n)]
  <2> HIDE DEF V
  <2> SUFFICES ASSUME NEW n \in Nat PROVE d[n] = Digits(d, n)
    OBVIOUS
  <2> QED BY <1>2
<1>4. Decimal = CHOOSE f : f = [n \in Nat |-> Digits(f, n)]
  BY DEF Decimal, Digits
<1> HIDE DEF d
<1>5. Decimal = [n \in Nat |-> Digits(Decimal, n)]
  BY <1>3, <1>4
<1> QED BY <1>5

\* The text of an id has digits only.
LEMMA DecimalDigits ==
  ASSUME NEW n \in Nat
  PROVE  Decimal[n] \in Seq(0 .. 9) /\ Len(Decimal[n]) \in Nat \ {0}
<1> DEFINE bad == {m \in Nat : ~(Decimal[m] \in Seq(0 .. 9) /\ Len(Decimal[m]) \in Nat \ {0})}
<1> SUFFICES ASSUME bad # {} PROVE FALSE
  OBVIOUS
<1>1. PICK m \in bad : \A i \in bad : m <= i
  <2>1. bad \in SUBSET Nat /\ bad # {}
    OBVIOUS
  <2> HIDE DEF bad
  <2> QED BY <2>1, LeastMember
<1>2. Decimal[m] = Digits(Decimal, m)
  BY DecimalSpells
<1>3. CASE m < 10
  <2>1. m \in 0 .. 9 /\ Decimal[m] = <<m>>
    BY <1>2, <1>3 DEF Digits
  <2>2. <<m>> \in Seq(0 .. 9) /\ Len(<<m>>) = 1
    BY <2>1
  <2>3. Decimal[m] \in Seq(0 .. 9) /\ Len(Decimal[m]) \in Nat \ {0}
    BY <2>1, <2>2
  <2> QED BY <2>3
<1>4. CASE m >= 10
  <2>1. m \div 10 \in Nat /\ m \div 10 < m /\ m % 10 \in 0 .. 9
    BY <1>4, Tenth
  <2>2. Decimal[m \div 10] \in Seq(0 .. 9) /\ Len(Decimal[m \div 10]) \in Nat \ {0}
    BY <1>1, <2>1
  <2>3. Decimal[m] = Append(Decimal[m \div 10], m % 10)
    BY <1>2, <1>4 DEF Digits
  <2>4. Decimal[m] \in Seq(0 .. 9) /\ Len(Decimal[m]) = Len(Decimal[m \div 10]) + 1
    BY <2>1, <2>2, <2>3, AppendProperties
  <2> QED BY <2>2, <2>4
<1> QED BY <1>3, <1>4

\* A text of one digit, and one of more.
LEMMA DecimalCases ==
  ASSUME NEW n \in Nat
  PROVE  /\ n < 10 => Decimal[n] = <<n>> /\ Len(Decimal[n]) = 1
         /\ n >= 10 => /\ Decimal[n] = Append(Decimal[n \div 10], n % 10)
                       /\ Len(Decimal[n]) = Len(Decimal[n \div 10]) + 1
                       /\ Len(Decimal[n]) > 1
<1>1. Decimal[n] = Digits(Decimal, n)
  BY DecimalSpells
<1>2. CASE n < 10
  <2>1. Decimal[n] = <<n>>
    BY <1>1, <1>2 DEF Digits
  <2> QED BY <1>2, <2>1
<1>3. CASE n >= 10
  <2>1. Decimal[n] = Append(Decimal[n \div 10], n % 10)
    BY <1>1, <1>3 DEF Digits
  <2>2. n \div 10 \in Nat /\ n % 10 \in 0 .. 9
    BY <1>3, Tenth
  <2>3. Decimal[n \div 10] \in Seq(0 .. 9) /\ Len(Decimal[n \div 10]) \in Nat \ {0}
    BY <2>2, DecimalDigits
  <2>4. Len(Decimal[n]) = Len(Decimal[n \div 10]) + 1
    BY <2>1, <2>2, <2>3, AppendProperties
  <2> QED BY <1>3, <2>1, <2>3, <2>4
<1> QED BY <1>2, <1>3

\* Different ids have different texts.
LEMMA DecimalIsOneToOne ==
  ASSUME NEW m \in Nat, NEW n \in Nat, Decimal[m] = Decimal[n]
  PROVE  m = n
<1> DEFINE bad == {i \in Nat : \E j \in Nat : Decimal[i] = Decimal[j] /\ i # j}
<1> SUFFICES ASSUME bad # {} PROVE FALSE
  OBVIOUS
<1>1. PICK i \in bad : \A k \in bad : i <= k
  <2>1. bad \in SUBSET Nat /\ bad # {}
    OBVIOUS
  <2> HIDE DEF bad
  <2> QED BY <2>1, LeastMember
<1>2. PICK j \in Nat : Decimal[i] = Decimal[j] /\ i # j
  OBVIOUS
<1>3. i \in Nat /\ \A k \in Nat : k < i => \A l \in Nat : Decimal[k] = Decimal[l] => k = l
  BY <1>1
<1> HIDE DEF bad
<1>4. CASE i < 10
  <2>1. Decimal[i] = <<i>> /\ Len(Decimal[i]) = 1
    BY <1>3, <1>4, DecimalCases
  <2>2. Len(Decimal[j]) = 1
    BY <1>2, <2>1
  <2>3. j < 10
    BY <1>2, <2>2, DecimalCases
  <2>4. Decimal[j] = <<j>>
    BY <1>2, <2>3, DecimalCases
  <2>5. <<i>>[1] = i /\ <<j>>[1] = j /\ <<i>> = <<j>>
    BY <1>2, <2>1, <2>4
  <2> QED BY <1>2, <2>5
<1>5. CASE i >= 10
  <2>1. Decimal[i] = Append(Decimal[i \div 10], i % 10) /\ Len(Decimal[i]) > 1
    BY <1>3, <1>5, DecimalCases
  <2>2. j >= 10
    <3> SUFFICES ASSUME j < 10 PROVE FALSE
      BY <1>2
    <3>1. Len(Decimal[j]) = 1
      BY <1>2, DecimalCases
    <3> QED BY <1>2, <2>1, <3>1
  <2>3. Decimal[j] = Append(Decimal[j \div 10], j % 10)
    BY <1>2, <2>2, DecimalCases
  <2>4. /\ i \div 10 \in Nat /\ i \div 10 < i /\ i % 10 \in 0 .. 9 /\ i = 10 * (i \div 10) + (i % 10)
        /\ j \div 10 \in Nat /\ j % 10 \in 0 .. 9 /\ j = 10 * (j \div 10) + (j % 10)
    BY <1>2, <1>3, <1>5, <2>2, Tenth
  <2>5. Decimal[i \div 10] \in Seq(0 .. 9) /\ Decimal[j \div 10] \in Seq(0 .. 9)
    BY <2>4, DecimalDigits
  <2>6. Decimal[i \div 10] = Decimal[j \div 10] /\ i % 10 = j % 10
    <3> DEFINE d == 0 .. 9
               x == i % 10
               y == j % 10
               u == Decimal[i \div 10]
               v == Decimal[j \div 10]
    <3>1. x \in d /\ u \in Seq(d) /\ y \in d /\ v \in Seq(d) /\ Append(u, x) = Append(v, y)
      BY <1>2, <2>1, <2>3, <2>4, <2>5
    <3> HIDE DEF d, x, y, u, v
    <3>2. u = v /\ x = y
      BY <3>1, AppendInjective
    <3> QED BY <3>2 DEF x, y, u, v
  <2>7. i \div 10 = j \div 10
    BY <1>3, <2>4, <2>6
  <2> QED BY <1>2, <2>4, <2>6, <2>7
<1> QED BY <1>3, <1>4, <1>5

\* A smaller id has no longer text.
LEMMA DecimalGrows ==
  ASSUME NEW m \in Nat, NEW n \in Nat, m <= n
  PROVE  Len(Decimal[m]) <= Len(Decimal[n])
<1> DEFINE bad == {i \in Nat : \E j \in Nat : i <= j /\ ~(Len(Decimal[i]) <= Len(Decimal[j]))}
<1> SUFFICES ASSUME bad # {} PROVE FALSE
  OBVIOUS
<1>1. PICK i \in bad : \A k \in bad : i <= k
  <2>1. bad \in SUBSET Nat /\ bad # {}
    OBVIOUS
  <2> HIDE DEF bad
  <2> QED BY <2>1, LeastMember
<1>2. PICK j \in Nat : i <= j /\ ~(Len(Decimal[i]) <= Len(Decimal[j]))
  OBVIOUS
<1>3. Len(Decimal[i]) \in Nat \ {0} /\ Len(Decimal[j]) \in Nat \ {0}
  BY DecimalDigits
<1>4. i >= 10
  <2> SUFFICES ASSUME i < 10 PROVE FALSE
    OBVIOUS
  <2>1. Len(Decimal[i]) = 1
    BY DecimalCases
  <2> QED BY <1>2, <1>3, <2>1
<1>5. j >= 10
  BY <1>2, <1>4
<1>6. /\ i \div 10 \in Nat /\ i \div 10 < i /\ j \div 10 \in Nat
      /\ i \div 10 <= j \div 10
  <2>1. i = 10 * (i \div 10) + (i % 10) /\ i % 10 \in 0 .. 9 /\ i \div 10 \in 0 .. i - 1
    BY <1>4, Tenth
  <2>2. j = 10 * (j \div 10) + (j % 10) /\ j % 10 \in 0 .. 9 /\ j \div 10 \in 0 .. j - 1
    BY <1>5, Tenth
  <2> QED BY <1>2, <2>1, <2>2
<1>7. Len(Decimal[i \div 10]) <= Len(Decimal[j \div 10])
  BY <1>1, <1>6
<1>8. /\ Len(Decimal[i]) = Len(Decimal[i \div 10]) + 1
      /\ Len(Decimal[j]) = Len(Decimal[j \div 10]) + 1
  BY <1>4, <1>5, DecimalCases
<1>9. Len(Decimal[i \div 10]) \in Nat /\ Len(Decimal[j \div 10]) \in Nat
  BY <1>6, DecimalDigits
<1> QED BY <1>2, <1>7, <1>8, <1>9

\* A scan prefix ends with the only character that is no digit, so it begins the
\* keys of its own market and no others.
LEMMA KeyMatches ==
  ASSUME NEW m \in Nat, NEW n \in Nat, NEW voter
  PROVE  /\ Matches(MarketVoterKey(n, voter), m) <=> n = m
         /\ Len(ScanPrefix(m)) = Len(Decimal[m]) + 1
         /\ Len(MarketVoterKey(n, voter)) = Len(Decimal[n]) + 1 + AddressLength
<1> DEFINE chars   == 0 .. 9 \cup {Slash, voter}
           address == [i \in 1 .. AddressLength |-> voter]
           p       == ScanPrefix(m)
           q       == ScanPrefix(n)
           key     == MarketVoterKey(n, voter)
           a       == Len(Decimal[m])
           b       == Len(Decimal[n])
<1>1. AddressLength \in Nat /\ Slash \notin 0 .. 9
  BY KeysAssumption
<1>2. /\ Decimal[m] \in Seq(0 .. 9) /\ a \in Nat \ {0}
      /\ Decimal[n] \in Seq(0 .. 9) /\ b \in Nat \ {0}
  BY DecimalDigits
<1>3. Decimal[m] \in Seq(chars) /\ Decimal[n] \in Seq(chars) /\ Slash \in chars
  BY <1>2
<1>4. address \in Seq(chars) /\ Len(address) = AddressLength
  BY <1>1
<1>5. /\ \A i \in 1 .. a : Decimal[m][i] \in 0 .. 9
      /\ \A i \in 1 .. b : Decimal[n][i] \in 0 .. 9
  BY <1>2, ElementOfSeq
<1> HIDE DEF chars, address
<1>6. /\ p \in Seq(chars) /\ Len(p) = a + 1
      /\ \A i \in 1 .. a : p[i] = Decimal[m][i]
      /\ p[a + 1] = Slash
  BY <1>3, AppendProperties DEF ScanPrefix
<1>7. /\ q \in Seq(chars) /\ Len(q) = b + 1
      /\ \A i \in 1 .. b : q[i] = Decimal[n][i]
      /\ q[b + 1] = Slash
  BY <1>3, AppendProperties DEF ScanPrefix
<1>8. key = q \o address
  BY DEF MarketVoterKey, ScanPrefix, address
<1> HIDE DEF p, q, key
<1>9. /\ key \in Seq(chars) /\ Len(key) = b + 1 + AddressLength
      /\ \A i \in 1 .. b + 1 : key[i] = q[i]
  <2>1. /\ key \in Seq(chars) /\ Len(key) = Len(q) + Len(address)
        /\ \A i \in 1 .. Len(q) + Len(address) :
             key[i] = IF i <= Len(q) THEN q[i] ELSE address[i - Len(q)]
    <3>1. q \in Seq(chars) /\ address \in Seq(chars)
      BY <1>4, <1>7
    <3>2. /\ q \o address \in Seq(chars) /\ Len(q \o address) = Len(q) + Len(address)
          /\ \A i \in 1 .. Len(q) + Len(address) :
               (q \o address)[i] = IF i <= Len(q) THEN q[i] ELSE address[i - Len(q)]
      BY <3>1, ConcatProperties, Zenon
    <3> QED BY <1>8, <3>2, Zenon
  <2>2. ASSUME NEW i \in 1 .. b + 1 PROVE key[i] = q[i]
    <3>1. i \in 1 .. Len(q) + Len(address) /\ i <= Len(q)
      BY <1>1, <1>2, <1>4, <1>7
    <3> QED BY <2>1, <3>1
  <2> QED BY <1>4, <1>7, <2>1, <2>2
<1>10. ASSUME n = m PROVE SubSeq(key, 1, Len(p)) = p
  <2>1. p = q /\ a = b
    BY <1>10 DEF p, q
  <2>2. \A i \in 1 .. Len(p) : key[i] = p[i] /\ key[i] \in chars
    BY <1>2, <1>6, <1>9, <2>1, ElementOfSeq
  <2>3. /\ SubSeq(key, 1, Len(p)) \in Seq(chars) /\ Len(SubSeq(key, 1, Len(p))) = Len(p)
        /\ \A i \in 1 .. Len(p) : SubSeq(key, 1, Len(p))[i] = p[i]
    <3> DEFINE l == Len(p)
    <3>1. l \in Nat /\ 1 <= l /\ \A i \in 1 .. l : key[i] \in chars
      BY <1>2, <1>6, <2>2
    <3> HIDE DEF l
    <3>2. /\ SubSeq(key, 1, l) \in Seq(chars) /\ Len(SubSeq(key, 1, l)) = IF 1 <= l THEN l - 1 + 1 ELSE 0
          /\ \A i \in 1 .. l - 1 + 1 : SubSeq(key, 1, l)[i] = key[1 + i - 1]
      BY <3>1, SubSeqProperties
    <3>3. \A i \in 1 .. l : SubSeq(key, 1, l)[i] = key[i]
      BY <3>1, <3>2
    <3> QED BY <2>2, <3>1, <3>2, <3>3 DEF l
  <2> QED BY <1>6, <2>3, SeqEqual
<1>11. ASSUME SubSeq(key, 1, Len(p)) = p PROVE n = m
  <2>1. ASSUME NEW i \in 1 .. a + 1, i <= b + 1 PROVE q[i] = p[i]
    <3>1. SubSeq(key, 1, a + 1)[i] = key[i]
      <4>1. SubSeq(key, 1, a + 1) = [j \in 1 .. a + 1 |-> key[j]]
        BY <1>2 
      <4> QED BY <4>1
    <3>2. i \in 1 .. b + 1
      BY <1>2, <2>1
    <3> QED BY <1>6, <1>9, <1>11, <3>1, <3>2
  <2>2. a = b
    <3>1. CASE a < b
      <4>1. a + 1 \in 1 .. a + 1 /\ a + 1 <= b + 1 /\ a + 1 \in 1 .. b
        BY <1>2, <3>1
      <4>2. q[a + 1] = Slash /\ q[a + 1] = Decimal[n][a + 1]
        BY <1>6, <1>7, <2>1, <4>1
      <4> QED BY <1>1, <1>5, <4>1, <4>2
    <3>2. CASE b < a
      <4>1. b + 1 \in 1 .. a + 1 /\ b + 1 <= b + 1 /\ b + 1 \in 1 .. a
        BY <1>2, <3>2
      <4>2. p[b + 1] = Slash /\ p[b + 1] = Decimal[m][b + 1]
        BY <1>6, <1>7, <2>1, <4>1
      <4> QED BY <1>1, <1>5, <4>1, <4>2
    <3> QED BY <1>2, <3>1, <3>2
  <2>3. \A i \in 1 .. a : Decimal[n][i] = Decimal[m][i]
    <3> TAKE i \in 1 .. a
    <3>1. i \in 1 .. a + 1 /\ i <= b + 1 /\ i \in 1 .. b
      BY <1>2, <2>2
    <3> QED BY <1>6, <1>7, <2>1, <3>1
  <2>4. Decimal[n] = Decimal[m]
    BY <1>3, <2>2, <2>3, SeqEqual
  <2> QED BY <2>4, DecimalIsOneToOne
<1>12. Matches(key, m) <=> SubSeq(key, 1, Len(p)) = p
  BY DEF Matches, p
<1> QED BY <1>6, <1>9, <1>10, <1>11, <1>12 DEF p, key

\* The scan for the votes of a market finds these and no others and does not panic,
\* for any voter and any ids up to MaxMarketId.
THEOREM ScansFindTheirMarket == \A voter : ScanFindsItsMarket(voter)
<1> SUFFICES ASSUME NEW voter, NEW m \in 0 .. MaxMarketId, NEW n \in 0 .. MaxMarketId
             PROVE  /\ SliceFits(MarketVoterKey(n, voter), m)
                    /\ Matches(MarketVoterKey(n, voter), m) <=> n = m
  BY DEF ScanFindsItsMarket
<1>1. AddressLength \in Nat /\ MaxMarketId \in Nat /\ Len(Decimal[MaxMarketId]) <= AddressLength
  BY KeysAssumption
<1>2. m \in Nat /\ n \in Nat /\ m <= MaxMarketId
  BY <1>1
<1>3. Len(Decimal[m]) <= Len(Decimal[MaxMarketId])
  BY <1>1, <1>2, DecimalGrows
<1>4. /\ Len(Decimal[m]) \in Nat /\ Len(Decimal[n]) \in Nat
      /\ Len(Decimal[MaxMarketId]) \in Nat
  BY <1>1, <1>2, DecimalDigits
<1>5. SliceFits(MarketVoterKey(n, voter), m)
  <2>1. /\ Len(ScanPrefix(m)) = Len(Decimal[m]) + 1
        /\ Len(MarketVoterKey(n, voter)) = Len(Decimal[n]) + 1 + AddressLength
    BY <1>2, KeyMatches
  <2> QED BY <1>1, <1>3, <1>4, <2>1 DEF SliceFits
<1> QED BY <1>2, <1>5, KeyMatches

\* Whoever has committed, the scans of any market separate that voter's votes.
THEOREM ScansAreExactHolds == Spec => []ScansAreExact
<1>1. IInv => ScansAreExact
  <2> SUFFICES ASSUME IInv, NEW k \in DOMAIN commits PROVE k[2] \in Scannable
    BY DEF ScansAreExact
  <2>1. k[2] \in Users
    BY DEF IInv, TypeOK
  <2> QED BY <2>1, ScansFindTheirMarket DEF Scannable
<1> QED BY <1>1, Invariance, PTL

(***************************************************************************)
(* Finalization: the heaviest vote, and the scores                         *)
(***************************************************************************)

LEMMA ModSmall == ASSUME NEW w \in Nat, w > 0, NEW x \in 0 .. w - 1 PROVE x % w = x
OBVIOUS

LEMMA ModSelf == ASSUME NEW w \in Nat, w > 0 PROVE w % w = 0
OBVIOUS

\* One up wraps at the largest integer only, and one down never does.
LEMMA AdjustedByOne ==
  ASSUME NEW s \in 0 .. IntMax
  PROVE  /\ Adjusted(s, 1) = IF s = IntMax THEN 0 ELSE s + 1
         /\ Adjusted(s, -1) = IF s = 0 THEN 0 ELSE s - 1
<1> DEFINE w == 2 * (IntMax + 1)
<1>1. IntMax \in Nat /\ w \in Nat /\ w > 0 /\ s \in Nat /\ s <= IntMax
  BY ReputationAssumption
<1>2. Adjusted(s, 1) = IF s = IntMax THEN 0 ELSE s + 1
  <2>1. CASE s = IntMax
    <3>1. (s + 1) + IntMax + 1 = w
      BY <1>1, <2>1
    <3>2. Wrap(s + 1) = 0 - (IntMax + 1)
      <4> HIDE DEF w
      <4>1. ((s + 1) + IntMax + 1) % w = 0
        BY <1>1, <3>1, ModSelf
      <4> QED BY <4>1 DEF Wrap, w
    <3> QED BY <1>1, <2>1, <3>2 DEF Adjusted
  <2>2. CASE s # IntMax
    <3> DEFINE y == (s + 1) + IntMax + 1
    <3>1. y \in 0 .. w - 1
      BY <1>1, <2>2
    <3>2. y % w = y
      <4> HIDE DEF w, y
      <4> QED BY <1>1, <3>1, ModSmall
    <3>3. Wrap(s + 1) = y - (IntMax + 1)
      BY <3>2 DEF Wrap
    <3> QED BY <1>1, <2>2, <3>3 DEF Adjusted
  <2> QED BY <2>1, <2>2
<1>3. Adjusted(s, -1) = IF s = 0 THEN 0 ELSE s - 1
  <2> DEFINE y == (s + (-1)) + IntMax + 1
  <2>1. y \in 0 .. w - 1
    BY <1>1
  <2>2. y % w = y
    <3> HIDE DEF w, y
    <3> QED BY <1>1, <2>1, ModSmall
  <2>3. Wrap(s + (-1)) = y - (IntMax + 1)
    BY <2>2 DEF Wrap
  <2> QED BY <1>1, <2>3 DEF Adjusted
<1> QED BY <1>2, <1>3

LEMMA FinalizationFollowsVotes ==
  ASSUME TypeOK, NEW m, FinalizeOutcome(m)
  PROVE  FollowVotes
<1> DEFINE g    == markets[m].group
           keys == {<<v, g>> : v \in Revealers(m)}
<1>1. PICK c : outcomes' = Put(outcomes, m, c) /\ scores' = ScoresAfter(m, c)
  BY DEF FinalizeOutcome
<1>2. m \notin DOMAIN outcomes /\ outcomes'[m] = c /\ Finalized = {m}
  BY <1>1 DEF FinalizeOutcome, NotFinalized, Put, Finalized
<1> DEFINE Change(v) == IF reveals[<<m, v>>].vote = c THEN 1 ELSE -1
<1>3. scores' = [k \in DOMAIN scores \cup keys |->
                   IF k \in keys THEN Adjusted(ScoreOf(k[1], k[2]), Change(k[1]))
                                 ELSE scores[k]]
  BY <1>1 DEF ScoresAfter
<1>4. \A v \in Revealers(m) : scores'[<<v, g>>] = Moved(v, m)
  <2> TAKE v \in Revealers(m)
  <2>1. ScoreOf(v, g) \in 0 .. IntMax
    BY ReputationAssumption DEF TypeOK, ScoreOf
  <2>2. <<v, g>> \in keys
    OBVIOUS
  <2>3. scores'[<<v, g>>] = Adjusted(ScoreOf(v, g), Change(v))
    <3> HIDE DEF keys, Change, g
    <3> QED BY <1>3, <2>2
  <2>4. CASE reveals[<<m, v>>].vote = c
    <3>1. scores'[<<v, g>>] = Adjusted(ScoreOf(v, g), 1)
      BY <2>3, <2>4
    <3> QED BY <1>2, <2>1, <2>4, <3>1, AdjustedByOne DEF Moved
  <2>5. CASE reveals[<<m, v>>].vote # c
    <3>1. scores'[<<v, g>>] = Adjusted(ScoreOf(v, g), -1)
      BY <2>3, <2>5
    <3> QED BY <1>2, <2>1, <2>5, <3>1, AdjustedByOne DEF Moved
  <2> QED BY <2>4, <2>5
<1>5. \A k \in DOMAIN scores' :
        \/ k \in DOMAIN scores /\ scores'[k] = scores[k]
        \/ k[2] = g /\ k[1] \in Revealers(m)
  <2>1. \A k \in keys : k[2] = g /\ k[1] \in Revealers(m)
    OBVIOUS
  <2> HIDE DEF keys, Change, g
  <2> QED BY <1>3, <2>1
<1> QED BY <1>2, <1>4, <1>5 DEF FollowVotes

\* Finalizing a market moves each of its revealers by one the way its vote says,
\* wraps the largest score to zero, and touches no other score.
THEOREM ScoresFollowVotesHolds == Spec => ScoresFollowVotes
<1>1. TypeOK /\ [Next]_vars => [FollowVotes]_vars
  <2> SUFFICES ASSUME TypeOK, [Next]_vars PROVE FollowVotes \/ UNCHANGED vars
    OBVIOUS
  <2>1. CASE FinalizeSome
    BY <2>1, FinalizationFollowsVotes DEF FinalizeSome
  <2>2. CASE outcomes' = outcomes
    BY <2>2 DEF FollowVotes, Finalized
  <2>3. FinalizeSome \/ outcomes' = outcomes
    BY DEF Next, vars, settlementVars, CreateSome, NewMarket, BeginBlock, AdjustSome,
           Adjust, CommitSome, CommitVote, RevealSome, RevealVote
  <2> QED BY <2>1, <2>2, <2>3
<1> QED BY <1>1, TypeCorrect, PTL DEF Spec, ScoresFollowVotes

(***************************************************************************)
(* The consensus                                                           *)
(***************************************************************************)

LEMMA ModAtMost == ASSUME NEW w \in Nat, w > 0, NEW x \in Nat PROVE x % w <= x
<1>1. CASE x < w
  BY <1>1, ModSmall
<1>2. CASE ~(x < w)
  <2>1. x % w \in 0 .. w - 1
    OBVIOUS
  <2> QED BY <1>2, <2>1
<1> QED BY <1>1, <1>2

\* A sum that fits is itself, and one that does not only gets smaller.
LEMMA WrapNat ==
  ASSUME NEW x \in Nat
  PROVE  /\ Wrap(x) \in Int /\ Wrap(x) <= x
         /\ x <= IntMax => Wrap(x) = x
<1> DEFINE w == 2 * (IntMax + 1)
           y == x + IntMax + 1
<1>1. IntMax \in Nat /\ w \in Nat /\ w > 0 /\ y \in Nat
  BY ReputationAssumption
<1>2. Wrap(x) = (y % w) - (IntMax + 1)
  BY DEF Wrap
<1>3. y % w <= y /\ y % w \in Nat
  <2>1. y % w <= y /\ y % w \in 0 .. w - 1
    <3> HIDE DEF y, w
    <3> QED BY <1>1, ModAtMost
  <2> QED BY <1>1, <2>1
<1>4. x <= IntMax => y % w = y
  <2>1. x <= IntMax => y \in 0 .. w - 1
    BY <1>1
  <2> HIDE DEF y, w
  <2> QED BY <1>1, <2>1, ModSmall
<1> DEFINE r == y % w
<1>5. r \in Nat /\ r <= x + IntMax + 1 /\ (x <= IntMax => r = x + IntMax + 1)
  BY <1>3, <1>4
<1>6. Wrap(x) = r - (IntMax + 1)
  BY <1>2
<1> HIDE DEF r, y, w
<1> QED BY <1>1, <1>5, <1>6

\* Only finitely many votes are ever stored.
FinitelyMany == IsFiniteSet(DOMAIN reveals)

LEMMA FiniteRevealers ==
  ASSUME FinitelyMany, NEW m
  PROVE  IsFiniteSet(Revealers(m))
<1> DEFINE f == [v \in Revealers(m) |-> <<m, v>>]
<1>1. f \in [Revealers(m) -> DOMAIN reveals]
  BY DEF Revealers
<1>2. \A u, v \in Revealers(m) : f[u] = f[v] => u = v
  OBVIOUS
<1>3. f \in Injection(Revealers(m), DOMAIN reveals)
  <2> HIDE DEF f
  <2> QED BY <1>1, <1>2 DEF Injection, IsInjective
<1> QED BY <1>3, FS_Injection DEF FinitelyMany

LEMMA FinitelyManyNext == FinitelyMany /\ [Next]_vars => FinitelyMany'
<1> SUFFICES ASSUME FinitelyMany, [Next]_vars PROVE FinitelyMany'
  OBVIOUS
<1>1. CASE RevealSome
  <2>1. PICK u \in Users, m \in 0 .. marketSeq, v \in Votes, n \in Nonces :
               RevealVote(u, m, v, n)
    BY <1>1 DEF RevealSome
  <2>2. DOMAIN reveals' = DOMAIN reveals \cup {<<m, u>>}
    BY <2>1, PutFacts DEF RevealVote
  <2> QED BY <2>2, FS_AddElement DEF FinitelyMany
<1>2. CASE reveals' = reveals
  BY <1>2 DEF FinitelyMany
<1>3. RevealSome \/ reveals' = reveals
  BY DEF Next, vars, settlementVars, CreateSome, NewMarket, BeginBlock, AdjustSome,
         Adjust, CommitSome, CommitVote, FinalizeSome, FinalizeOutcome
<1> QED BY <1>1, <1>2, <1>3

LEMMA FinitelyManyHolds == Spec => []FinitelyMany
<1>1. SettlementInit => FinitelyMany
  <2> SUFFICES ASSUME SettlementInit PROVE FinitelyMany
    OBVIOUS
  <2>1. DOMAIN reveals = {}
    BY DEF SettlementInit, EmptyStore
  <2> QED BY <2>1, FS_EmptySet DEF FinitelyMany
<1> QED BY <1>1, FinitelyManyNext, PTL DEF Spec

\* A voter's weight is its score, and one at least.
LEMMA WeightIs ==
  ASSUME TypeOK, NEW v, NEW g
  PROVE  /\ Weight(v, g) = IF <<v, g>> \in DOMAIN scores /\ scores[<<v, g>>] > 1
                           THEN scores[<<v, g>>] ELSE 1
         /\ Weight(v, g) \in Nat /\ Weight(v, g) >= 1
<1> DEFINE s == ScoreOf(v, g)
<1>1. s \in 0 .. IntMax /\ IntMax \in Nat
  BY ReputationAssumption DEF TypeOK, ScoreOf
<1>2. Max({1, s}) = IF s > 1 THEN s ELSE 1
  <2> HIDE DEF s
  <2>1. s \in Int
    BY <1>1
  <2> DEFINE x == IF s > 1 THEN s ELSE 1
  <2>2. x \in {1, s} /\ \A y \in {1, s} : x >= y
    BY <2>1
  <2>3. \A z \in {1, s} : (\A y \in {1, s} : z >= y) => z = x
    BY <2>1, <2>2
  <2> QED BY <2>2, <2>3 DEF Max
<1>3. Weight(v, g) = IF s > 1 THEN s ELSE 1
  BY <1>2 DEF Weight
<1>4. s = IF <<v, g>> \in DOMAIN scores THEN scores[<<v, g>>] ELSE 0
  BY DEF ScoreOf
<1> HIDE DEF s
<1> QED BY <1>1, <1>3, <1>4

\* The weight found for a text is the wrapped backing of the text, and somebody
\* is behind every text found.
LEMMA WeightsAreBacking ==
  ASSUME TypeOK, FinitelyMany, NEW m
  PROVE  LET votes == {reveals[<<m, v>>].vote : v \in Revealers(m)}
         IN /\ DOMAIN VoteWeights(m) = votes
            /\ \A t \in votes : /\ Backing(m, t) \in Nat /\ Backing(m, t) >= 1
                                /\ VoteWeights(m)[t] = Wrap(Backing(m, t))
<1> DEFINE votes == {reveals[<<m, v>>].vote : v \in Revealers(m)}
           g == markets[m].group
           W == [v \in Revealers(m) |-> Weight(v, g)]
           V(t) == {v \in Revealers(m) : reveals[<<m, v>>].vote = t}
           B(t) == [v \in V(t) |-> IF <<v, g>> \in DOMAIN scores /\ scores[<<v, g>>] > 1
                                   THEN scores[<<v, g>>] ELSE 1]
<1>1. VoteWeights(m) = [t \in votes |-> Wrap(SumFunctionOnSet(W, V(t)))]
  BY DEF VoteWeights
<1>2. \A t : Backing(m, t) = SumFunctionOnSet(B(t), V(t))
  BY DEF Backing
<1>3. ASSUME NEW t \in votes
      PROVE  /\ SumFunctionOnSet(W, V(t)) = SumFunctionOnSet(B(t), V(t))
             /\ SumFunctionOnSet(W, V(t)) \in Nat /\ SumFunctionOnSet(W, V(t)) >= 1
  <2> DEFINE X == V(t)
             b == B(t)
  <2>1. IsFiniteSet(X)
    <3>1. X \subseteq Revealers(m)
      OBVIOUS
    <3> HIDE DEF X
    <3> QED BY <3>1, FiniteRevealers, FS_Subset
  <2>2. \A v \in X : W[v] = b[v] /\ W[v] \in Nat /\ W[v] >= 1
    BY WeightIs
  <2>3. PICK v \in X : TRUE
    OBVIOUS
  <2> HIDE DEF X, b, W
  <2>4. SumFunctionOnSet(W, X) = SumFunctionOnSet(b, X) /\ SumFunctionOnSet(W, X) \in Nat
    BY <2>1, <2>2, SumSame, SumIsNat
  <2>5. SumFunctionOnSet(W, X) = W[v] + SumFunctionOnSet(W, X \ {v})
    BY <2>1, <2>2, <2>3, SumRemove
  <2>6. SumFunctionOnSet(W, X \ {v}) \in Nat
    <3>1. IsFiniteSet(X \ {v})
      BY <2>1, FS_Subset
    <3> QED BY <2>2, <3>1, SumIsNat
  <2>7. SumFunctionOnSet(W, X) >= 1
    BY <2>2, <2>5, <2>6
  <2> QED BY <2>4, <2>7 DEF X, b
<1> HIDE DEF W, V, B
<1> QED BY <1>1, <1>2, <1>3

LEMMA FinalizationTakesHeaviest ==
  ASSUME TypeOK, FinitelyMany, NEW m, FinalizeOutcome(m)
  PROVE  MostBacked
<1> DEFINE votes == {reveals[<<m, v>>].vote : v \in Revealers(m)}
           weights == VoteWeights(m)
           positive == {t \in DOMAIN weights : weights[t] > 0}
<1>1. PICK c \in Heaviest(weights) : outcomes' = Put(outcomes, m, c)
  BY DEF FinalizeOutcome
<1>2. Finalized = {m} /\ outcomes'[m] = c
  BY <1>1 DEF FinalizeOutcome, NotFinalized, Put, Finalized
<1>3. /\ DOMAIN weights = votes /\ IntMax \in Nat
      /\ \A t \in votes : Backing(m, t) \in Nat /\ Backing(m, t) >= 1
  BY WeightsAreBacking, ReputationAssumption
<1>4. \A t \in votes : /\ weights[t] \in Int /\ weights[t] <= Backing(m, t)
                       /\ Backing(m, t) <= IntMax => weights[t] = Backing(m, t)
  <2>1. ASSUME NEW t \in votes
        PROVE  Backing(m, t) \in Nat /\ weights[t] = Wrap(Backing(m, t))
    BY WeightsAreBacking
  <2> HIDE DEF votes, weights
  <2>2. ASSUME NEW t \in votes
        PROVE  /\ weights[t] \in Int /\ weights[t] <= Backing(m, t)
               /\ Backing(m, t) <= IntMax => weights[t] = Backing(m, t)
    BY <2>1, <2>2, WrapNat
  <2> QED BY <2>2
<1>5. \/ positive = {} /\ c = EmptyText
      \/ c \in positive /\ \A u \in positive : weights[u] <= weights[c]
  BY <1>1 DEF Heaviest
<1> HIDE DEF votes, weights
<1>6. CASE positive = {} /\ c = EmptyText
  <2>1. ASSUME NEW t \in votes PROVE Backing(m, t) > IntMax
    <3>1. ~(weights[t] > 0)
      BY <1>3, <1>6
    <3> QED BY <1>3, <1>4, <3>1
  <2> QED BY <1>2, <1>6, <2>1 DEF MostBacked, votes
<1>7. CASE c \in positive /\ \A u \in positive : weights[u] <= weights[c]
  <2>1. c \in votes
    BY <1>3, <1>7
  <2>2. ASSUME NEW t \in votes, Backing(m, t) <= IntMax
        PROVE  Backing(m, t) <= Backing(m, c)
    <3>1. weights[t] = Backing(m, t) /\ weights[t] > 0
      BY <1>3, <1>4, <2>2
    <3>2. weights[t] <= weights[c]
      BY <1>3, <1>7, <3>1
    <3> QED BY <1>3, <1>4, <2>1, <3>1, <3>2
  <2> QED BY <1>2, <2>1, <2>2 DEF MostBacked, votes
<1> QED BY <1>5, <1>6, <1>7

\* The outcome of a finalized market is a text somebody revealed, with no less
\* reputation behind it than any text whose sum fits an int64; where no sum
\* fits, it may be the empty text.
THEOREM ConsensusIsHeaviestHolds == Spec => ConsensusIsHeaviest
<1>1. TypeOK /\ FinitelyMany /\ [Next]_vars => [MostBacked]_vars
  <2> SUFFICES ASSUME TypeOK, FinitelyMany, [Next]_vars PROVE MostBacked \/ UNCHANGED vars
    OBVIOUS
  <2>1. CASE FinalizeSome
    BY <2>1, FinalizationTakesHeaviest DEF FinalizeSome
  <2>2. CASE outcomes' = outcomes
    BY <2>2 DEF MostBacked, Finalized
  <2>3. FinalizeSome \/ outcomes' = outcomes
    BY DEF Next, vars, settlementVars, CreateSome, NewMarket, BeginBlock, AdjustSome,
           Adjust, CommitSome, CommitVote, RevealSome, RevealVote
  <2> QED BY <2>1, <2>2, <2>3
<1> QED BY <1>1, TypeCorrect, FinitelyManyHolds, PTL DEF Spec, ConsensusIsHeaviest

(***************************************************************************)
(* The election                                                            *)
(*                                                                         *)
(* A market is "trading" until its deadline, "voting" until its first      *)
(* finalization, and "decided" from then on.  CommitVote is Cast,          *)
(* RevealVote is Show and FinalizeOutcome is Decide; a block closes the    *)
(* markets whose deadline it reaches; a new market is open, because its    *)
(* deadline is later than the block; adjustments are stuttering steps.     *)
(***************************************************************************)

ElectionPhase == [m \in DOMAIN markets |-> Phase(m)]
ElectionShown == [k \in DOMAIN reveals |-> reveals[k].vote]

LEMMA PhaseAfter ==
  ASSUME DOMAIN markets' = DOMAIN markets,
         \A m \in DOMAIN markets : Phase(m)' = Phase(m)
  PROVE  ElectionPhase' = ElectionPhase
BY DEF ElectionPhase

LEMMA ElectionStarts == SettlementInit => Election!Init
<1> SUFFICES ASSUME SettlementInit PROVE Election!Init
  OBVIOUS
<1>1. DOMAIN markets = {} /\ DOMAIN commits = {} /\ DOMAIN reveals = {}
  BY DEF SettlementInit, MarketsInit, EmptyStore
<1>2. ElectionPhase = EmptyStore /\ ElectionShown = EmptyStore
  BY <1>1 DEF ElectionPhase, ElectionShown, EmptyStore
<1> QED BY <1>1, <1>2 DEF Election!Init, Election!EmptyStore, EmptyStore, SettlementInit,
           ElectionPhase, ElectionShown

ElectionVars == <<ElectionPhase, DOMAIN commits, ElectionShown, outcomes>>

LEMMA ElectionStutters ==
  ASSUME UNCHANGED <<clockVars, marketVars, settlementVars>>
  PROVE  UNCHANGED ElectionVars
BY DEF ElectionVars, ElectionPhase, ElectionShown, Phase, Ready, clockVars, marketVars,
       settlementVars

LEMMA CreateOpens ==
  ASSUME IInv, IInv', CreateSome
  PROVE  Election!Next
<1>1. PICK u \in Users, q \in Questions \cup {EmptyText}, o \in OutcomeLists,
           g \in Groups, d \in Deadlines : NewMarket(u, q, o, g, d)
  BY DEF CreateSome
<1>2. /\ CreateMarket(u, q, o, g, d) /\ marketSeq < MaxMarkets /\ d > now
      /\ UNCHANGED <<clockVars, scores, settlementVars>>
  BY <1>1 DEF NewMarket, CreateMarket
<1>3. /\ markets \in [0 .. marketSeq - 1 -> Market] /\ marketSeq \in Nat
      /\ now \in Nat /\ d \in Int /\ DOMAIN outcomes \subseteq DOMAIN markets
  BY MarketsAssumption DEF IInv, TypeOK, MarketsTypeOK
<1>4. /\ DOMAIN markets' = DOMAIN markets \cup {marketSeq}
      /\ \A i \in DOMAIN markets : markets'[i] = markets[i]
      /\ markets'[marketSeq].deadline = d
  BY <1>2, <1>3 DEF CreateMarket, Put
<1>5. \A i \in DOMAIN markets : Phase(i)' = Phase(i)
  BY <1>2, <1>4 DEF Phase, Ready, clockVars, settlementVars
<1>6. marketSeq \notin DOMAIN markets /\ marketSeq \in 0 .. MaxMarkets
  BY <1>2, <1>3, MarketsAssumption
<1>7. \A i \in {marketSeq} : Phase(i)' = "trading"
  <2> TAKE i \in {marketSeq}
  <2>1. Phase(i)' = IF i \in DOMAIN outcomes THEN "decided"
                    ELSE IF ~(d > 0 /\ now < d) THEN "voting" ELSE "trading"
    BY <1>2, <1>4, <1>6 DEF Phase, Ready, clockVars, settlementVars
  <2> QED BY <1>2, <1>3, <1>6, <2>1
<1>8. ElectionPhase' = Put(ElectionPhase, marketSeq, "trading")
  BY <1>4, <1>5, <1>6, <1>7 DEF ElectionPhase, Put
<1>9. Election!Open(marketSeq)
  BY <1>2, <1>6, <1>8 DEF Election!Open, Election!Put, Put, ElectionPhase, settlementVars
<1> QED BY <1>6, <1>9 DEF Election!Next

LEMMA BlockCloses ==
  ASSUME IInv, IInv', BeginBlock
  PROVE  Election!Next
<1> DEFINE expired == {m \in DOMAIN markets : Phase(m) = "trading" /\ Phase(m)' # "trading"}
<1>1. /\ now' >= now /\ now \in Nat /\ now' \in Nat
      /\ UNCHANGED <<markets, commits, reveals, outcomes>>
  BY MarketsAssumption DEF IInv, TypeOK, MarketsTypeOK, BeginBlock, NextBlock, marketVars,
     settlementVars
<1>2. \A m \in DOMAIN markets :
        Phase(m)' = IF m \in expired THEN "voting" ELSE Phase(m)
  <2> TAKE m \in DOMAIN markets
  <2>1. markets[m].deadline \in Nat
    BY DEF IInv, TypeOK, MarketsTypeOK, Market
  <2> DEFINE d == markets[m].deadline
  <2>2. Phase(m) = IF m \in DOMAIN outcomes THEN "decided"
                   ELSE IF ~(d > 0 /\ now < d) THEN "voting" ELSE "trading"
    BY DEF Phase, Ready
  <2>3. Phase(m)' = IF m \in DOMAIN outcomes THEN "decided"
                    ELSE IF ~(d > 0 /\ now' < d) THEN "voting" ELSE "trading"
    BY <1>1 DEF Phase, Ready
  <2>4. m \in expired <=> Phase(m) = "trading" /\ Phase(m)' # "trading"
    OBVIOUS
  <2> HIDE DEF d, expired
  <2>5. d \in Nat
    BY <2>1 DEF d
  <2> QED BY <1>1, <2>2, <2>3, <2>4, <2>5
<1>3. Election!Close(expired)
  <2>1. \A m \in expired : ElectionPhase[m] = "trading"
    BY DEF ElectionPhase
  <2>2. ElectionPhase' = [m \in DOMAIN ElectionPhase |->
                            IF m \in expired THEN "voting" ELSE ElectionPhase[m]]
    <3> HIDE DEF expired
    <3> QED BY <1>1, <1>2 DEF ElectionPhase
  <2> HIDE DEF expired
  <2> QED BY <1>1, <2>1, <2>2 DEF Election!Close, ElectionPhase
<1>4. expired \in SUBSET DOMAIN ElectionPhase
  BY DEF ElectionPhase
<1> HIDE DEF expired
<1> QED BY <1>3, <1>4 DEF Election!Next, ElectionPhase

LEMMA PhaseKept ==
  ASSUME UNCHANGED <<clockVars, marketVars, outcomes>>
  PROVE  ElectionPhase' = ElectionPhase
BY DEF ElectionPhase, Phase, Ready, clockVars, marketVars

LEMMA CommitCasts ==
  ASSUME IInv, CommitSome
  PROVE  Election!Next
<1>1. PICK u \in Users, m \in 0 .. marketSeq, c \in Commitments : CommitVote(u, m, c)
  BY DEF CommitSome
<1>2. /\ m \in DOMAIN markets /\ Ready(m) /\ <<m, u>> \notin DOMAIN commits
      /\ DOMAIN commits' = DOMAIN commits \cup {<<m, u>>}
      /\ UNCHANGED <<clockVars, marketVars, scores, reveals, outcomes>>
  BY <1>1 DEF CommitVote, Uncommitted, Put
<1>3. ElectionPhase' = ElectionPhase /\ ElectionPhase[m] # "trading"
  BY <1>2, PhaseKept DEF ElectionPhase, Phase
<1>4. Election!Cast(m, u)
  BY <1>2, <1>3 DEF Election!Cast, ElectionPhase
<1> QED BY <1>2, <1>4 DEF Election!Next

LEMMA RevealShows ==
  ASSUME IInv, RevealSome
  PROVE  Election!Next
<1>1. PICK u \in Users, m \in 0 .. marketSeq, v \in Votes, n \in Nonces :
             RevealVote(u, m, v, n)
  BY DEF RevealSome
<1> DEFINE r == [vote |-> v, nonce |-> n]
<1>2. /\ m \in DOMAIN markets /\ <<m, u>> \in DOMAIN commits
      /\ <<m, u>> \notin DOMAIN reveals /\ reveals' = Put(reveals, <<m, u>>, r)
      /\ UNCHANGED <<clockVars, marketVars, scores, commits, outcomes>>
  BY <1>1 DEF RevealVote
<1>3. ElectionPhase' = ElectionPhase
  BY <1>2, PhaseKept
<1>4. ElectionShown' = Put(ElectionShown, <<m, u>>, v)
  <2>1. r.vote = v
    OBVIOUS
  <2> HIDE DEF r
  <2> QED BY <1>2, <2>1 DEF ElectionShown, Put
<1>5. Election!Show(m, u, v)
  BY <1>2, <1>3, <1>4 DEF Election!Show, Election!Put, Put, ElectionPhase, ElectionShown
<1> QED BY <1>2, <1>5 DEF Election!Next

LEMMA ConsensusWasShown ==
  ASSUME NEW m, NEW c \in Heaviest(VoteWeights(m))
  PROVE  c = EmptyText \/ \E v \in Revealers(m) : c = reveals[<<m, v>>].vote
BY DEF Heaviest, VoteWeights

LEMMA FinalizeDecides ==
  ASSUME IInv, FinalizeSome
  PROVE  Election!Next
<1>1. PICK m \in 0 .. marketSeq : FinalizeOutcome(m)
  BY DEF FinalizeSome
<1>2. PICK c \in Heaviest(VoteWeights(m)) : outcomes' = Put(outcomes, m, c)
  BY <1>1 DEF FinalizeOutcome
<1>3. /\ m \notin DOMAIN outcomes /\ m \in DOMAIN markets /\ Revealers(m) # {}
      /\ UNCHANGED <<clockVars, marketVars, commits, reveals>>
  BY <1>1 DEF FinalizeOutcome, NotFinalized
<1>4. PICK v \in Users : <<m, v>> \in DOMAIN reveals
  BY <1>3 DEF Revealers
<1>5. ElectionPhase[m] = "voting"
  <2>1. now \in Nat /\ markets[m] \in Market
    BY <1>3, MarketsAssumption DEF IInv, TypeOK, MarketsTypeOK
  <2>2. now >= markets[m].deadline
    BY <1>4 DEF IInv, OnlyAfterDeadline
  <2>3. Ready(m)
    BY <2>1, <2>2 DEF Ready, Market
  <2> QED BY <1>3, <2>3 DEF ElectionPhase, Phase
<1>6. ElectionPhase' = [ElectionPhase EXCEPT ![m] = "decided"]
  <2>1. DOMAIN outcomes' = DOMAIN outcomes \cup {m}
    BY <1>2 DEF Put
  <2> QED BY <1>3, <2>1 DEF ElectionPhase, Phase, Ready, clockVars, marketVars
<1> DEFINE shown == {k \in DOMAIN ElectionShown : k[1] = m}
<1>7. <<m, v>> \in shown
  BY <1>4 DEF ElectionShown
<1>8. c \in {ElectionShown[k] : k \in shown} \cup {EmptyText}
  <2>1. CASE c = EmptyText
    BY <2>1
  <2>2. CASE c # EmptyText
    <3>1. PICK w \in Revealers(m) : c = reveals[<<m, w>>].vote
      BY <2>2, ConsensusWasShown
    <3>2. <<m, w>> \in shown /\ c = ElectionShown[<<m, w>>]
      BY <3>1 DEF Revealers, ElectionShown
    <3> HIDE DEF shown
    <3> QED BY <3>2
  <2> QED BY <2>1, <2>2
<1>9. Election!Decide(m, c)
  BY <1>2, <1>3, <1>5, <1>6, <1>7, <1>8
     DEF Election!Decide, Election!Put, Put, ElectionPhase, ElectionShown
<1>10. c \in Votes \cup {EmptyText}
  <2>1. \A k \in DOMAIN reveals : reveals[k].vote \in Votes
    BY DEF IInv, TypeOK
  <2>2. c = EmptyText \/ \E w \in Revealers(m) : c = reveals[<<m, w>>].vote
    BY ConsensusWasShown
  <2> QED BY <2>1, <2>2 DEF Revealers
<1> QED BY <1>3, <1>9, <1>10 DEF Election!Next, ElectionPhase

\* Commit, reveal and finalization implement the election of Oracle: the code's
\* separate checks of deadline, commitment, reveal and outcome add up to ballots
\* after trading, one to a voter, and one decision by what was shown before it.
THEOREM ElectionHolds == Spec => HoldsElections
<1>1. SettlementInit => Election!Init
  BY ElectionStarts
<1>2. IInv /\ IInv' /\ [Next]_vars => [Election!Next]_(Election!vars)
  <2> SUFFICES ASSUME IInv, IInv', [Next]_vars
               PROVE  Election!Next \/ UNCHANGED Election!vars
    OBVIOUS
  <2>1. CASE CreateSome
    BY <2>1, CreateOpens
  <2>2. CASE BeginBlock
    BY <2>2, BlockCloses
  <2>3. CASE CommitSome
    BY <2>3, CommitCasts
  <2>4. CASE RevealSome
    BY <2>4, RevealShows
  <2>5. CASE FinalizeSome
    BY <2>5, FinalizeDecides
  <2>6. CASE AdjustSome \/ UNCHANGED vars
    <3>1. UNCHANGED <<clockVars, marketVars, settlementVars>>
      BY <2>6 DEF AdjustSome, Adjust, vars
    <3> QED BY <3>1, ElectionStutters
            DEF ElectionVars, Election!vars, ElectionPhase, ElectionShown
  <2> QED BY <2>1, <2>2, <2>3, <2>4, <2>5, <2>6 DEF Next
<1> QED BY <1>1, <1>2, Invariance, PTL DEF Spec, HoldsElections, Election!Spec
=============================================================================
