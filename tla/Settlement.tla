----------------------------- MODULE Settlement -----------------------------
(***************************************************************************)
(* Settlement of markets: x/settlement's commit-reveal vote over the       *)
(* markets of x/prediction, weighted by the scores of x/reputation, which  *)
(* the finalization of a market then adjusts.                              *)
(*                                                                         *)
(* A text is a sequence of letters, for two things the code does to texts  *)
(* matter: it compares a vote with the market's outcomes up to case, and   *)
(* it hashes the concatenation of vote and nonce.  SHA-256 is taken to be  *)
(* injective: the digest of a text is the text.                            *)
(***************************************************************************)
EXTENDS Markets, Reputation, Functions, FiniteSetsExt

CONSTANTS
  LowerCase,        \* the lower-case letter of each letter
  Votes,            \* the votes that MsgRevealVote messages carry
  Nonces,           \* the nonces that MsgRevealVote messages carry
  NonceLengths,     \* the nonce lengths accepted, 8 .. 64 in the code
  ShortCommitment   \* a commitment that is not 64 characters long

ASSUME SettlementAssumption ==
  /\ Votes \subseteq Seq(DOMAIN LowerCase)
  /\ Nonces \subseteq Seq(DOMAIN LowerCase)
  /\ NonceLengths \subseteq Nat

VARIABLES
  commits,   \* Keeper.Commits: commitment by <<market id, voter>>
  reveals,   \* Keeper.Reveals: vote and nonce by <<market id, voter>>
  outcomes   \* Keeper.Outcomes: the final outcome by market id

settlementVars == <<commits, reveals, outcomes>>
vars == <<clockVars, marketVars, scores, settlementVars>>

Digest(vote, nonce) == vote \o nonce

\* The digest of a vote with a nonce whose length is not accepted stands for
\* the commitments that nobody can open.
Commitments == {Digest(v, n) : v \in Votes, n \in Nonces} \cup {ShortCommitment}

-----------------------------------------------------------------------------
(* What the handlers compute.  Variants named after what they get wrong are  *)
(* slips that the checks must detect; the specification never uses them.    *)

EqualFold(a, b) ==
  Len(a) = Len(b) /\ \A i \in 1 .. Len(a) : LowerCase[a[i]] = LowerCase[b[i]]

\* The vote is one of the market's outcomes, up to case.
AnyVote(market, vote) == TRUE
ValidateOutcome(market, vote) ==
  \E i \in 1 .. Len(market.outcomes) : EqualFold(market.outcomes[i], vote)

\* The voters whose reveals of market m are stored.
Revealers(m) == {v \in Users : <<m, v>> \in DOMAIN reveals}

\* A voter counts with its score in the market's group, and with one at least.
Weight(voter, group) == Max({1, ScoreOf(voter, group)})

\* The sum of the weights behind each text revealed, in int64 arithmetic.
VoteWeights(m) ==
  LET Voted(v) == reveals[<<m, v>>].vote
  IN [t \in {Voted(v) : v \in Revealers(m)} |->
        Wrap(SumFunctionOnSet([v \in Revealers(m) |-> Weight(v, markets[m].group)],
                              {v \in Revealers(m) : Voted(v) = t}))]

\* The texts that the search for the heaviest vote may end with.  It runs over
\* a Go map, whose iteration order is random, and keeps the first of the
\* heaviest it meets; it starts from an empty text of weight zero.
AnyPositive(weights) == {t \in DOMAIN weights : weights[t] > 0}
Heaviest(weights) ==
  LET positive == {t \in DOMAIN weights : weights[t] > 0}
  IN IF positive = {} THEN {EmptyText}
     ELSE {t \in positive : \A u \in positive : weights[u] <= weights[t]}

ScoresAfterRewardingAll(m, consensus) ==
  LET keys == {<<v, markets[m].group>> : v \in Revealers(m)}
  IN [k \in DOMAIN scores \cup keys |->
        IF k \in keys THEN Adjusted(ScoreOf(k[1], k[2]), 1) ELSE scores[k]]

\* updateReputationScores: one up for the voters with the consensus, one down
\* for the others.
ScoresAfter(m, consensus) ==
  LET group == markets[m].group
      keys  == {<<v, group>> : v \in Revealers(m)}
      Change(v) == IF reveals[<<m, v>>].vote = consensus THEN 1 ELSE -1
  IN [k \in DOMAIN scores \cup keys |->
        IF k \in keys THEN Adjusted(ScoreOf(k[1], k[2]), Change(k[1])) ELSE scores[k]]

-----------------------------------------------------------------------------
SettlementInit ==
  /\ MarketsInit
  /\ ReputationInit
  /\ commits = EmptyStore
  /\ reveals = EmptyStore
  /\ outcomes = EmptyStore

NewMarket(creator, question, labels, group, deadline) ==
  /\ CreateMarket(creator, question, labels, group, deadline)
  /\ UNCHANGED <<clockVars, scores, settlementVars>>

BeginBlock ==
  /\ NextBlock
  /\ UNCHANGED <<marketVars, scores, settlementVars>>

Adjust(user, group, adjustment) ==
  /\ AdjustScore(user, group, adjustment)
  /\ UNCHANGED <<clockVars, marketVars, settlementVars>>

\* A vote may be committed once the market's deadline is reached.
ReadyAlways(m) == TRUE
Ready(m) == ~(markets[m].deadline > 0 /\ now < markets[m].deadline)

NeverCommitted(m, voter) == TRUE
Uncommitted(m, voter) == <<m, voter>> \notin DOMAIN commits

CommitVote(voter, m, commitment) ==
  /\ m \in DOMAIN markets
  /\ Ready(m)
  /\ Uncommitted(m, voter)
  /\ commitment # ShortCommitment
  /\ commits' = Put(commits, <<m, voter>>, commitment)
  /\ UNCHANGED <<clockVars, marketVars, scores, reveals, outcomes>>

RevealVote(voter, m, vote, nonce) ==
  /\ <<m, voter>> \in DOMAIN commits
  /\ commits[<<m, voter>>] = Digest(vote, nonce)
  /\ <<m, voter>> \notin DOMAIN reveals
  /\ m \in DOMAIN markets
  /\ ValidateOutcome(markets[m], vote)
  /\ Len(nonce) \in NonceLengths
  /\ reveals' = Put(reveals, <<m, voter>>, [vote |-> vote, nonce |-> nonce])
  /\ UNCHANGED <<clockVars, marketVars, scores, commits, outcomes>>

\* Anyone may finalize a market that has a reveal and no outcome yet.
FinalizedOrNot(m) == TRUE
NotFinalized(m) == m \notin DOMAIN outcomes

FinalizeOutcome(m) ==
  /\ NotFinalized(m)
  /\ m \in DOMAIN markets
  /\ Revealers(m) # {}
  /\ \E consensus \in Heaviest(VoteWeights(m)) :
       /\ outcomes' = Put(outcomes, m, consensus)
       /\ scores' = ScoresAfter(m, consensus)
  /\ UNCHANGED <<clockVars, marketVars, commits, reveals>>

-----------------------------------------------------------------------------
CreateSome ==
  \E u \in Users, q \in Questions \cup {EmptyText}, o \in OutcomeLists,
     g \in Groups, d \in Deadlines : NewMarket(u, q, o, g, d)

AdjustSome == \E u \in Users, g \in Groups, a \in Adjustments : Adjust(u, g, a)

CommitSome ==
  \E u \in Users, m \in 0 .. marketSeq, c \in Commitments : CommitVote(u, m, c)

RevealSome ==
  \E u \in Users, m \in 0 .. marketSeq, v \in Votes, n \in Nonces : RevealVote(u, m, v, n)

FinalizeSome == \E m \in 0 .. marketSeq : FinalizeOutcome(m)

Next ==
  \/ CreateSome
  \/ BeginBlock
  \/ AdjustSome
  \/ CommitSome
  \/ RevealSome
  \/ FinalizeSome

Spec == SettlementInit /\ [][Next]_vars

\* The chain keeps producing blocks; nothing is assumed about which messages
\* arrive.
FairSpec == Spec /\ WF_vars(BeginBlock)

-----------------------------------------------------------------------------
(* Correctness *)

\* The registries are well typed: commits, reveals and outcomes are keyed by
\* existing markets, and every stored score is an int64 that is not negative.
TypeOK ==
  /\ MarketsTypeOK
  /\ DOMAIN scores \subseteq Users \X Groups
  /\ \A k \in DOMAIN scores : scores[k] \in 0 .. IntMax
  /\ DOMAIN commits \subseteq (DOMAIN markets) \X Users
  /\ \A k \in DOMAIN commits : commits[k] \in Commitments \ {ShortCommitment}
  /\ DOMAIN reveals \subseteq DOMAIN commits
  /\ \A k \in DOMAIN reveals : reveals[k] \in [vote : Votes, nonce : Nonces]
  /\ DOMAIN outcomes \subseteq DOMAIN markets

\* Every stored reveal opens the commitment that its voter still has stored,
\* and names an outcome of the market up to case: CommitVote and RevealVote are
\* separate messages, and nothing may come between them that changes either.
RevealsOpenCommits ==
  \A k \in DOMAIN reveals :
    /\ commits[k] = reveals[k].vote \o reveals[k].nonce
    /\ Len(reveals[k].nonce) \in NonceLengths
    /\ \E i \in DOMAIN markets[k[1]].outcomes :
         EqualFold(reveals[k].vote, markets[k[1]].outcomes[i])

\* Nobody votes on a market, and no outcome is decided, before its deadline.
\* Only CommitVote looks at the clock; reveals and outcomes inherit its check
\* through the stores.
OnlyAfterDeadline ==
  /\ \A k \in (DOMAIN commits) \cup (DOMAIN reveals) : now >= markets[k[1]].deadline
  /\ \A m \in DOMAIN outcomes : now >= markets[m].deadline

Keeps(store, later) ==
  \A k \in DOMAIN store : k \in DOMAIN later /\ later[k] = store[k]

\* A commitment, a reveal and an outcome are written once: no later message
\* removes or replaces one, in whatever order messages arrive.
VotesAreFinal ==
  [][Keeps(commits, commits') /\ Keeps(reveals, reveals') /\ Keeps(outcomes, outcomes')]_vars

\* The reputation behind a text among the reveals of market m, exactly.
Backing(m, text) ==
  LET group == markets[m].group
      voters == {v \in Revealers(m) : reveals[<<m, v>>].vote = text}
  IN SumFunctionOnSet(
       [v \in voters |-> IF <<v, group>> \in DOMAIN scores /\ scores[<<v, group>>] > 1
                         THEN scores[<<v, group>>] ELSE 1], voters)

Finalized == DOMAIN outcomes' \ DOMAIN outcomes

MostBacked ==
  \A m \in Finalized :
    LET outcome == outcomes'[m]
        votes   == {reveals[<<m, v>>].vote : v \in Revealers(m)}
    IN \/ /\ outcome \in votes
          /\ \A t \in votes : Backing(m, t) <= IntMax => Backing(m, t) <= Backing(m, outcome)
       \/ /\ outcome = EmptyText
          /\ \A t \in votes : Backing(m, t) > IntMax

\* The outcome that FinalizeOutcome stores is a text that somebody revealed, and
\* no text has more reputation of the market's group behind it, every voter
\* counting for at least one.  Sums that do not fit an int64 are the exception:
\* such a text may lose against any other, and where no sum fits, the outcome may
\* be the empty text.
ConsensusIsHeaviest == [][MostBacked]_vars

\* The score by which a finalized market has moved a voter: the largest int64
\* plus one is negative, and stored as zero.
Moved(v, m) ==
  LET old == ScoreOf(v, markets[m].group)
      won == reveals[<<m, v>>].vote = outcomes'[m]
  IN IF won THEN (IF old = IntMax THEN 0 ELSE old + 1)
     ELSE IF old = 0 THEN 0 ELSE old - 1

FollowVotes ==
  \A m \in Finalized :
    /\ Finalized = {m}
    /\ \A v \in Revealers(m) : scores'[<<v, markets[m].group>>] = Moved(v, m)
    /\ \A k \in DOMAIN scores' :
         \/ k \in DOMAIN scores /\ scores'[k] = scores[k]
         \/ k[2] = markets[m].group /\ k[1] \in Revealers(m)

\* Finalizing a market moves every revealer one up for the outcome and one down
\* against it, never below zero and from the largest int64 to zero, and touches no
\* score of another group and of nobody who did not reveal.
ScoresFollowVotes == [][FollowVotes]_vars

\* Where a market is on its way: deadline, first finalization.
Phase(m) ==
  IF m \in DOMAIN outcomes THEN "decided" ELSE IF Ready(m) THEN "voting" ELSE "trading"

Election == INSTANCE Oracle WITH
  Ids      <- 0 .. MaxMarkets,
  Voters   <- Users,
  Texts    <- Votes,
  NoText   <- EmptyText,
  phase    <- [m \in DOMAIN markets |-> Phase(m)],
  cast     <- DOMAIN commits,
  shown    <- [k \in DOMAIN reveals |-> reveals[k].vote],
  decision <- outcomes

\* Seen from outside, commit, reveal and finalization hold an election: no ballot
\* before trading ends, one ballot to a voter, one decision to a market, by a text
\* shown before the decision, and nothing shown later changes it.
HoldsElections == Election!Spec
=============================================================================
