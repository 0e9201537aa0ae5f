------------------------------ MODULE Speculod ------------------------------
(***************************************************************************)
(* The chain: the order book, the vote and the scores over one registry of *)
(* markets, and an operator who may export the state, stop the chain and   *)
(* start another one from the exported genesis.                            *)
(*                                                                         *)
(* Trading is the atomic Exchange, which OrderBook implements.  A genesis  *)
(* carries what the modules' ExportGenesis put in it: settlement its       *)
(* commits, reveals and outcomes, prediction and reputation only their     *)
(* empty params.                                                           *)
(***************************************************************************)
EXTENDS Integers, Sequences, FiniteSets

CONSTANTS
  Users, Groups, Labels, Questions, EmptyText, OutcomeLists, Deadlines,
  MaxMarkets, MaxTime, MaxHeight,
  Prices, InvalidPrice, Amounts, Denoms, OutcomeIndexes, MaxOrders,
  LowerCase, Votes, Nonces, NonceLengths, ShortCommitment,
  IntMax, Adjustments, MaxScore

ASSUME SpeculodAssumption ==
  /\ MaxTime \in Nat
  /\ IntMax \in Nat /\ Adjustments \subseteq -IntMax - 1 .. IntMax

VARIABLES
  now, height,                \* the block's time and height
  markets, marketSeq,         \* x/prediction: the markets
  orders, orderSeq, trades,   \* x/prediction: the order book
  scores,                     \* x/reputation
  commits, reveals, outcomes  \* x/settlement

Book == INSTANCE Exchange
Vote == INSTANCE Settlement

chainVars == <<now, height, markets, marketSeq, orders, orderSeq, trades,
               scores, commits, reveals, outcomes>>

-----------------------------------------------------------------------------
(* Genesis.  Variants named after what they lose are slips that the checks   *)
(* must detect; the specification never uses them.                          *)

\* The commits and reveals as they are stored, each naming its market and voter.
StoredCommits ==
  {[market |-> k[1], voter |-> k[2], commitment |-> commits[k]] : k \in DOMAIN commits}
StoredReveals ==
  {[market |-> k[1], voter |-> k[2], opening |-> reveals[k]] : k \in DOMAIN reveals}
StoredOutcomes ==
  {[market |-> m, outcome |-> outcomes[m]] : m \in DOMAIN outcomes}

ExportWithoutCommits ==
  [commits |-> {}, reveals |-> StoredReveals, outcomes |-> StoredOutcomes]

ExportWithoutOutcomes ==
  [commits |-> StoredCommits, reveals |-> StoredReveals, outcomes |-> {}]

\* x/settlement's ExportGenesis.
ExportSettlement ==
  [commits |-> StoredCommits, reveals |-> StoredReveals, outcomes |-> StoredOutcomes]

\* x/settlement's InitGenesis on an empty store: every record is set under the
\* key made of its market and voter.
ImportSettlement(genesis) ==
  LET Key(r) == <<r.market, r.voter>>
  IN /\ commits' = [k \in {Key(c) : c \in genesis.commits} |->
                      (CHOOSE c \in genesis.commits : Key(c) = k).commitment]
     /\ reveals' = [k \in {Key(r) : r \in genesis.reveals} |->
                      (CHOOSE r \in genesis.reveals : Key(r) = k).opening]
     /\ outcomes' = [m \in {o.market : o \in genesis.outcomes} |->
                      (CHOOSE o \in genesis.outcomes : o.market = m).outcome]

ImportOverOldOrders ==
  /\ markets' = Vote!EmptyStore /\ marketSeq' = 0
  /\ UNCHANGED <<orders, orderSeq>>

\* x/prediction's InitGenesis sets params and nothing else: the new chain has no
\* market and no order, and counts their ids from zero again.
ImportPrediction ==
  /\ markets' = Vote!EmptyStore /\ marketSeq' = 0
  /\ orders' = Vote!EmptyStore /\ orderSeq' = 0

\* x/reputation's InitGenesis: no score survives.
ImportReputation == scores' = Vote!EmptyStore

\* ExportAppStateAndValidators after a block, and InitChain of the new chain: it
\* starts one block higher, or at block one after an export for zero height.
Restart ==
  /\ ImportSettlement(ExportSettlement)
  /\ ImportPrediction
  /\ ImportReputation
  /\ trades' = <<>>
  /\ height' \in {height + 1, 1}
  /\ height' <= MaxHeight
  /\ now' \in now .. MaxTime

-----------------------------------------------------------------------------
Init == Vote!SettlementInit /\ orders = Vote!EmptyStore /\ orderSeq = 0 /\ trades = <<>>

\* Blocks, new markets, votes, finalizations and score adjustments.
Voting == Vote!Next /\ UNCHANGED <<orders, orderSeq, trades>>

Trading == Book!Trading /\ UNCHANGED <<scores, commits, reveals, outcomes>>

Next == Voting \/ Trading \/ Restart

Spec == Init /\ [][Next]_chainVars

\* The chain keeps producing blocks.
FairSpec == Spec /\ WF_chainVars(Vote!BeginBlock /\ UNCHANGED <<orders, orderSeq, trades>>)

-----------------------------------------------------------------------------
(* Correctness *)

\* An order names a market that exists and one of its outcomes, also on a chain
\* that was started from an export: PostOrder checks both once, and both
\* registries count their ids from zero again.
OrdersHaveMarkets ==
  \A id \in DOMAIN orders :
    /\ orders[id].market \in DOMAIN markets
    /\ orders[id].outcome < Len(markets[orders[id].market].outcomes)
    /\ orders[id].createdAt >= markets[orders[id].market].createdAt

\* Commitments, reveals and outcomes are written once and outlive the chain they
\* were written on: no message and no export and import loses or changes one.
VotesOutliveTheChain ==
  [][/\ Vote!Keeps(commits, commits')
     /\ Vote!Keeps(reveals, reveals')
     /\ Vote!Keeps(outcomes, outcomes')]_chainVars

\* A reveal stays bound to the commitment of its voter across a restart, so that
\* nobody can commit again and keep the old vote.
RevealsStayBound ==
  \A k \in DOMAIN reveals :
    k \in DOMAIN commits /\ commits[k] = Vote!Digest(reveals[k].vote, reveals[k].nonce)

\* The decided markets of group g in which user u revealed the outcome.
Wins(u, g) ==
  {m \in DOMAIN outcomes \cap DOMAIN markets :
     /\ markets[m].group = g
     /\ <<m, u>> \in DOMAIN reveals
     /\ reveals[<<m, u>>].vote = outcomes[m]}

\* Where the authority only takes reputation away, a score is earned: nobody has
\* more than the decided markets of the group in which they voted with the
\* outcome.  No market pays twice, pays in another group, or pays again after a
\* restart.
ScoresAreEarned ==
  (\A a \in Adjustments : a <= 0) =>
    \A u \in Users, g \in Groups : Vote!ScoreOf(u, g) <= Cardinality(Wins(u, g))
=============================================================================
