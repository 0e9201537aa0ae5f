------------------------------ MODULE Markets ------------------------------
(***************************************************************************)
(* The market registry of x/prediction and the block clock every handler   *)
(* reads through sdk.Context.  Messages of a block run one after the       *)
(* other, all with the block's height and time; a message whose handler    *)
(* returns an error or panics leaves no trace in the store, so a rejected  *)
(* message is an action that is not enabled.                               *)
(***************************************************************************)
EXTENDS Store, Integers, Sequences

CONSTANTS
  Users,          \* account addresses
  Groups,         \* community group ids
  Labels,         \* non-empty outcome names
  Questions,      \* non-empty questions
  EmptyText,      \* the empty string, which the handlers reject
  OutcomeLists,   \* the outcome lists that MsgCreateMarket messages carry
  Deadlines,      \* the deadlines that MsgCreateMarket messages carry
  MaxMarkets,     \* bound on the number of markets
  MaxTime,        \* bound on the block time
  MaxHeight       \* bound on the block height

ASSUME MarketsAssumption ==
  /\ EmptyText \notin Labels \cup Questions
  /\ OutcomeLists \subseteq Seq(Labels \cup {EmptyText})
  /\ Deadlines \subseteq Int
  /\ MaxMarkets \in Nat /\ MaxTime \in Nat /\ MaxHeight \in Nat

VARIABLES
  now,         \* ctx.BlockTime().Unix()
  height,      \* ctx.BlockHeight()
  markets,     \* Keeper.Markets: the stored markets by id
  marketSeq    \* Keeper.MarketIDSeq: the next market id

clockVars  == <<now, height>>
marketVars == <<markets, marketSeq>>

Market ==
  [question : Questions, outcomes : Seq(Labels), group : Groups, deadline : Nat,
   status : {"open"}, creator : Users, createdAt : Nat]

-----------------------------------------------------------------------------
MarketsInit ==
  /\ now = 0
  /\ height = 1
  /\ markets = EmptyStore
  /\ marketSeq = 0

\* CometBFT commits a block and opens the next one: the height grows by one
\* and the block time, truncated to seconds, never goes back.
NextBlock ==
  /\ height < MaxHeight
  /\ height' = height + 1
  /\ now' \in now .. MaxTime

ValidOutcomes(outcomes) ==
  /\ Len(outcomes) >= 2
  /\ \A i \in 1 .. Len(outcomes) : outcomes[i] # EmptyText
  /\ \A i, j \in 1 .. Len(outcomes) : outcomes[i] = outcomes[j] => i = j

CreateMarket(creator, question, outcomes, group, deadline) ==
  /\ marketSeq < MaxMarkets
  /\ ValidOutcomes(outcomes)
  /\ question # EmptyText
  /\ deadline > now
  /\ markets' = Put(markets, marketSeq,
                    [question |-> question, outcomes |-> outcomes, group |-> group,
                     deadline |-> deadline, status |-> "open",
                     creator |-> creator, createdAt |-> now])
  /\ marketSeq' = NextSeq(marketSeq)

MarketsTypeOK ==
  /\ now \in 0 .. MaxTime
  /\ height \in Nat
  /\ marketSeq \in Nat
  /\ markets \in [0 .. marketSeq - 1 -> Market]
=============================================================================
