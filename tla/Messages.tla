------------------------------ MODULE Messages ------------------------------
(***************************************************************************)
(* The protobuf messages of the four modules: the type of each field in    *)
(* the order of the field numbers, which count from one without a gap.     *)
(* Messages that exist in several modules carry the module's name.         *)
(***************************************************************************)
EXTENDS Wire

-----------------------------------------------------------------------------
(* Messages of the Cosmos SDK.                                              *)

\* denom, amount: the text of a math.Int
Coin == <<Text, Integer>>
\* key, offset, limit, count_total, reverse
PageRequest == <<Text, Uint64, Uint64, Bool, Bool>>
\* next_key, total
PageResponse == <<Text, Uint64>>

-----------------------------------------------------------------------------
(* x/prediction *)

\* authority
PredictionModule == <<Text>>
\* id, market_id, creator, side, outcome_index
OrderPlace == <<Uint64, Uint64, Text, Enum, Uint32>>
\* price, amount, filled_amount, status, created_at
OrderTerms == <<Text, Pointer(Coin), Pointer(Coin), Enum, Int64>>
Order == OrderPlace \o OrderTerms
\* market_id, outcome_index, bids, asks
OrderBook == <<Uint64, Uint32, List(Order), List(Order)>>
\* price, total_amount, order_count
OrderBookEntry == <<Text, Pointer(Coin), Uint32>>
PredictionParams == <<>>
\* params
PredictionGenesisState == <<Embedded(PredictionParams)>>
\* market_id, owner, probability, is_buy, amount
Position == <<Uint64, Text, Text, Bool, Pointer(Coin)>>
\* id, question, outcomes, group_id, deadline
MarketTerms == <<Uint64, Text, Texts, Text, Int64>>
\* status, creator, created_at, total_pool, outcome_pools
MarketState == <<Text, Text, Int64, Int64, Texts>>
PredictionMarket == MarketTerms \o MarketState
PredictionQueryParamsRequest == <<>>
\* params
PredictionQueryParamsResponse == <<Embedded(PredictionParams)>>
\* pagination
QueryMarketsRequest == <<Pointer(PageRequest)>>
\* markets, pagination
QueryMarketsResponse == <<List(PredictionMarket), Pointer(PageResponse)>>
\* market_id
QueryMarketRequest == <<Uint64>>
\* market
QueryMarketResponse == <<Embedded(PredictionMarket)>>
\* market_id, outcome_index, pagination
QueryOrdersRequest == <<Uint64, Uint32, Pointer(PageRequest)>>
\* orders, pagination
QueryOrdersResponse == <<List(Order), Pointer(PageResponse)>>
\* order_id
QueryOrderRequest == <<Uint64>>
\* order
QueryOrderResponse == <<Embedded(Order)>>
\* market_id, outcome_index
QueryOrderBookRequest == <<Uint64, Uint32>>
\* order_book
QueryOrderBookResponse == <<Embedded(OrderBook)>>
\* user, pagination
QueryUserOrdersRequest == <<Text, Pointer(PageRequest)>>
\* orders, pagination
QueryUserOrdersResponse == <<List(Order), Pointer(PageResponse)>>
\* creator, question, outcomes, group_id, deadline, initial_pool
MsgCreateMarket == <<Text, Text, Texts, Text, Int64, Pointer(Coin)>>
\* market_id, status
MsgCreateMarketResponse == <<Uint64, Text>>
\* creator, market_id, outcome_index, side, price, amount
MsgPostOrder == <<Text, Uint64, Uint32, Text, Text, Pointer(Coin)>>
\* creator, order_id
MsgCancelOrder == <<Text, Uint64>>
\* status
MsgCancelOrderResponse == <<Text>>
\* filler, order_id, amount
MsgFillOrder == <<Text, Uint64, Pointer(Coin)>>
\* trade_id, market_id, outcome_index
TradePlace == <<Uint64, Uint64, Uint32>>
\* buyer, seller, price, amount, timestamp
TradeTerms == <<Text, Text, Text, Pointer(Coin), Int64>>
Trade == TradePlace \o TradeTerms
\* order_id, status, trades
MsgPostOrderResponse == <<Uint64, Text, List(Trade)>>
\* status, trades
MsgFillOrderResponse == <<Text, List(Trade)>>
\* authority, params
PredictionMsgUpdateParams == <<Text, Embedded(PredictionParams)>>
PredictionMsgUpdateParamsResponse == <<>>

-----------------------------------------------------------------------------
(* x/reputation *)

\* authority
ReputationModule == <<Text>>
ReputationParams == <<>>
\* params
ReputationGenesisState == <<Embedded(ReputationParams)>>
ReputationQueryParamsRequest == <<>>
\* params
ReputationQueryParamsResponse == <<Embedded(ReputationParams)>>
\* address, score, group_id
ReputationScore == <<Text, Text, Text>>
\* authority, params
ReputationMsgUpdateParams == <<Text, Embedded(ReputationParams)>>
ReputationMsgUpdateParamsResponse == <<>>
\* address, group_id, adjustment, authority
MsgAdjustScore == <<Text, Text, Int64, Text>>
MsgAdjustScoreResponse == <<>>

-----------------------------------------------------------------------------
(* x/settlement *)

\* market_id, outcome
MarketOutcome == <<Uint64, Text>>
\* authority
SettlementModule == <<Text>>
SettlementParams == <<>>
SettlementQueryParamsRequest == <<>>
\* params
SettlementQueryParamsResponse == <<Embedded(SettlementParams)>>
\* market_id
QueryCommitsRequest == <<Uint64>>
\* market_id
QueryRevealsRequest == <<Uint64>>
\* market_id
QueryOutcomeRequest == <<Uint64>>
\* outcome
QueryOutcomeResponse == <<Text>>
\* creator, market_id, commitment
MsgCommitVote == <<Text, Uint64, Text>>
MsgCommitVoteResponse == <<>>
\* creator, market_id, vote, nonce
MsgRevealVote == <<Text, Uint64, Text, Text>>
MsgRevealVoteResponse == <<>>
\* creator, market_id
MsgFinalizeOutcome == <<Text, Uint64>>
MsgFinalizeOutcomeResponse == <<>>
\* authority, params
SettlementMsgUpdateParams == <<Text, Embedded(SettlementParams)>>
SettlementMsgUpdateParamsResponse == <<>>
\* market_id, voter, commitment
VoteCommit == <<Uint64, Text, Text>>
\* commits
QueryCommitsResponse == <<List(VoteCommit)>>
\* market_id, voter, vote, nonce
VoteReveal == <<Uint64, Text, Text, Text>>
\* params, commits, reveals, outcomes
SettlementGenesisState == <<Embedded(SettlementParams), List(VoteCommit),
                            List(VoteReveal), List(MarketOutcome)>>
\* reveals
QueryRevealsResponse == <<List(VoteReveal)>>

-----------------------------------------------------------------------------
(* x/speculod *)

\* authority
SpeculodModule == <<Text>>
SpeculodParams == <<>>
\* params
SpeculodGenesisState == <<Embedded(SpeculodParams)>>
SpeculodQueryParamsRequest == <<>>
\* params
SpeculodQueryParamsResponse == <<Embedded(SpeculodParams)>>
\* authority, params
SpeculodMsgUpdateParams == <<Text, Embedded(SpeculodParams)>>
SpeculodMsgUpdateParamsResponse == <<>>

-----------------------------------------------------------------------------
AllMessages ==
  {PredictionModule, Order, OrderBook, OrderBookEntry, PredictionParams,
   PredictionGenesisState, Position, PredictionMarket, PredictionQueryParamsRequest,
   PredictionQueryParamsResponse, QueryMarketsRequest, QueryMarketsResponse,
   QueryMarketRequest, QueryMarketResponse, QueryOrdersRequest, QueryOrdersResponse,
   QueryOrderRequest, QueryOrderResponse, QueryOrderBookRequest,
   QueryOrderBookResponse, QueryUserOrdersRequest, QueryUserOrdersResponse,
   MsgCreateMarket, MsgCreateMarketResponse, MsgPostOrder, MsgCancelOrder,
   MsgCancelOrderResponse, MsgFillOrder, Trade, MsgPostOrderResponse,
   MsgFillOrderResponse, PredictionMsgUpdateParams,
   PredictionMsgUpdateParamsResponse, ReputationModule, ReputationParams,
   ReputationGenesisState, ReputationQueryParamsRequest,
   ReputationQueryParamsResponse, ReputationScore, ReputationMsgUpdateParams,
   ReputationMsgUpdateParamsResponse, MsgAdjustScore, MsgAdjustScoreResponse,
   MarketOutcome, SettlementModule, SettlementParams, SettlementQueryParamsRequest,
   SettlementQueryParamsResponse, QueryCommitsRequest, QueryRevealsRequest,
   QueryOutcomeRequest, QueryOutcomeResponse, MsgCommitVote, MsgCommitVoteResponse,
   MsgRevealVote, MsgRevealVoteResponse, MsgFinalizeOutcome,
   MsgFinalizeOutcomeResponse, SettlementMsgUpdateParams,
   SettlementMsgUpdateParamsResponse, VoteCommit, QueryCommitsResponse, VoteReveal,
   SettlementGenesisState, QueryRevealsResponse, SpeculodModule, SpeculodParams,
   SpeculodGenesisState, SpeculodQueryParamsRequest, SpeculodQueryParamsResponse,
   SpeculodMsgUpdateParams, SpeculodMsgUpdateParamsResponse}

\* All kinds of messages that there are: those of the modules and those of the
\* Cosmos SDK that they embed.
MessageKinds == AllMessages \cup {Coin, PageRequest, PageResponse}
=============================================================================
