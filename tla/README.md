# Verification of Speculo

Speculo is a Cosmos SDK chain for prediction markets. Its own logic is in three
modules under `x/`: `prediction` (markets and an order book), `settlement`
(a commit-reveal vote that decides markets) and `reputation` (scores that weight
the votes). This directory holds TLA+ models of them, of the chain they make
together with its export and restart, and of the protobuf code that all their
messages and records pass through; the TLC configurations that check the models
on small instances; and TLAPS proofs.

Paths below are relative to the repository.

## 1. Inventory

| Component | Code | State | Operations |
|---|---|---|---|
| Markets | `x/prediction/keeper/msg_server.go:25`, `keeper.go:133` | `Markets`, `MarketIDSeq` | `CreateMarket` |
| Order book | `msg_server.go:71-212`, `keeper.go:204-424` | `Orders`, `OrderIDSeq` | `PostOrder` (with `MatchOrder`), `CancelOrder`, `FillOrder` |
| Positions | `keeper.go:159-202` | `Positions` | called by no handler |
| Voting | `x/settlement/keeper/msg_server.go`, `keeper.go` | `Commits`, `Reveals`, `Outcomes` | `CommitVote`, `RevealVote`, `FinalizeOutcome` |
| Scores | `x/reputation/keeper` | `ReputationScores` | `AdjustScore`, `AdjustReputationScore` |
| Genesis | `*/keeper/genesis.go`, `x/settlement/keeper/keeper.go:313-383`, `app/export.go` | all stores | export, import |
| Generated codec | `x/*/types/*.pb.go` | a decoder's position and calls | `Marshal`, `Size`, `Unmarshal`, `skip` |
| Queries | `*/keeper/query.go` | none | read-only views |
| Params | `*/keeper/msg_update_params.go` | empty messages | `UpdateParams` |
| `speculod` module, `app/`, CLI, gateways | | none of its own | wiring |

How they interact. A message arrives as bytes and is unmarshalled; CometBFT
orders messages in blocks, and the SDK runs them one at a time, each on a branch
of the store that is written back only when the handler returns without an error
or a panic. `settlement` reads markets through `prediction`'s keeper and reads
and writes scores through `reputation`'s keeper, inside the same message.
`prediction` calls nobody: the bank keeper is injected and never used, and no
coin moves. Records are marshalled into the stores and unmarshalled when they
are read. An operator may export the state of a chain and start another one from
it.

What makes each component correct, and what is hard about it:

* **Order book.** Fills go in price-time priority, to orders of the same book on
  the other side whose limit is reached; nothing is overfilled, filled after a
  cancel or reopened; what is filled is what was traded; a rejected message
  changes nothing. Hard: the loop works on a snapshot of candidates while it
  writes the store; amounts may be negative and panic half-way; prices that do
  not parse count as zero; cancels, direct fills and posts come in any order.
* **Voting.** A vote is committed after the deadline, revealed as committed, and
  final; the outcome is the one with the most reputation of the market's group
  behind it; scores follow the votes, per group. Hard: checks are spread over
  three messages (only the commit looks at the clock); finalizing one market
  changes the weights of the others in its group; the tally searches a Go map;
  sums and scores are int64s that wrap; votes of all markets share one store with
  textual keys.
* **Scores.** Never negative, isolated per group, changed only by the authority
  and by finalizations.
* **Genesis.** An export and import should lose nothing and mix nothing up. Votes
  survive; markets, orders and scores do not, and their ids start again.
* **Codec.** What is sent is what arrives and what is stored is what is read;
  no bytes make a decoder read outside its slice or run for ever. Hard: varints
  and amounts that spell a number in several ways, amounts that are nil, fields
  that come twice, unknown fields and groups of a later version, messages in
  messages, and lengths that lie, are negative as an `int` or wrap around.

`PROJECT.json` lists the hazards with the lines where they bite and the
properties that watch them.

## 2. Modules

| Module | What it is |
|---|---|
| `Store` | a `collections.Map` is a function, a `collections.Sequence` a counter |
| `Markets` | the market registry and the block clock; `CreateMarket`, `NextBlock` |
| `Orders` | orders, trades and the pure functions of the matching engine |
| `OrderBook` | the order book as a state machine; its properties |
| `Exchange` | what the order book promises: posting as one atomic allocation |
| `MCOrderBook` | instances for TLC; claims the code does not meet |
| `Reputation` | scores in wrapping arithmetic; `AdjustScore` |
| `Settlement` | the vote over `Markets` and `Reputation`; its properties |
| `Oracle` | what the vote promises: an election without commitments, clocks and weights |
| `Keys` | the textual keys of the commits and reveals, and the scans over them |
| `MCSettlement` | instances for TLC; claims the code does not meet |
| `Speculod` | order book, vote and scores on one chain, and its export and restart |
| `MCSpeculod` | instances for TLC; the claim that a restart breaks |
| `Wire` | `Unmarshal` and `skip` as a state machine over bytes; varints, tags and lengths in both directions |
| `Messages` | the fields of the 72 messages of the four modules |
| `Codec` | `Marshal`, `Size`, and a message on its way from sender to store |
| `MCWire` | the messages, unknown fields and raw bytes for TLC |
| `MarketsProofs` | lemmas about stores and the market registry |
| `SumTheorems` | lemmas about sums over finite sets, and the induction they need |
| `OrderBookProofs` | the theorems about single orders and steps of `OrderBook` |
| `ExchangeProofs` | trades add up and honour limits; `OrderBook` implements `Exchange` |
| `SettlementProofs` | votes stay in their stores and under their keys; the heaviest vote wins; scores follow votes; `Settlement` implements `Oracle` |
| `SpeculodProofs` | votes outlive the chain; orders and scores do not outlive their markets |
| `WireProofs` | `Unmarshal` on any bytes, and one field written and read back |
| `CodecProofs` | every message that is marshalled arrives, whole or cut off |

`Markets` extends `Store`; `Orders` extends `Markets`; `OrderBook` and `Exchange`
extend `Orders`, and `OrderBook` instantiates `Exchange` as `Ideal`. `Settlement`
extends `Markets` and `Reputation`, so one state
holds what the three keepers store and a finalization updates votes and scores
in one step, as the code does in one message; `Keys` extends it with the texts
that the stores' keys are. `Speculod` is the composition: it
instantiates `Exchange` (which `OrderBook` implements) for trading and
`Settlement` for everything else over the same markets and clock. `Codec`
extends `Wire`, with the kinds of messages as a constant; `MCWire` gives it those of
`Messages`.

An operator named after a mistake and defined next to the one it resembles
(`FillOverwrites` beside `Fill`) is a slip used by the `mutants` of `PROJECT.json`:
replacing the definition by the slip must make TLC report the property. The
specifications never use them.

### Order book: state and actions

| TLA+ | Code |
|---|---|
| `markets`, `marketSeq`, `orders`, `orderSeq` | the stores of `prediction`'s keeper |
| `now`, `height` | `ctx.BlockTime().Unix()`, `ctx.BlockHeight()` |
| `tx` | the locals of a running `PostOrder`: the new order, the candidates left, `remaining`, `trades`, and the store branch |
| `trades` | history of the trades of committed messages (the code only returns them), each with the ids of the orders it fills |
| `PostOrder` | `msg_server.go:71-129`, up to the loop of `MatchOrder` |
| `MatchStep(c)` | one iteration of the loop, `keeper.go:308-359` |
| `AbortPost(c)` | the panic of `sdk.NewCoin` on a negative fill, `keeper.go:324` |
| `CommitPost` | `keeper.go:361-364` and the end of the message |
| `CancelOrder`, `FillOrder` | `msg_server.go:145-212` |
| `NewMarket`, `BeginBlock` | `msg_server.go:25-68`; a new block |

A rejected message (error return or panic) is an action that is not enabled: it
leaves no trace. The matching loop is kept step by step although nothing can
interleave with it, because its correctness is the heart of the component:
`LoopInvariant` is its loop invariant, and `AtomicExchange` says that seen from
outside it is one step of `Exchange`.

Abstractions. Prices are integers, or `InvalidPrice`, which does not parse and
counts as zero; `LegacyDec`'s comparison is that of the integers. Amounts are
unbounded integers: `math.Int` panics beyond 256 bits, and a filled amount never
exceeds an amount. The refund after a cancel is a `TODO` without effect. The
order of two candidates with equal price and time is that of the scan by id,
because the sort is stable.

### Settlement: state and actions

| TLA+ | Code |
|---|---|
| `commits`, `reveals`, `outcomes` | the stores of `settlement`'s keeper, by `<<market, voter>>` and by market |
| `scores` | `reputation`'s store, by `<<address, group>>` |
| `CommitVote`, `RevealVote`, `FinalizeOutcome` | `x/settlement/keeper/msg_server.go:23-185` with what they call |
| `Adjust` | `MsgAdjustScore` sent by the authority; from anyone else it is rejected |

A text is a sequence of letters, since letter case (`strings.EqualFold`) and the
concatenation of vote and nonce matter; SHA-256 is taken to be injective. Scores
are integers with `Wrap`, two's complement in `-IntMax-1 .. IntMax`. The search
for the heaviest vote runs over a Go map: `Heaviest` is the set of texts it may
end with, and `FinalizeOutcome` picks any of them. `updateReputationScores` is
one update of all revealers, because each voter has one reveal per market.

The stores' keys are texts in the code (`"<market>/<voter>"`, `"<address>:<group>"`)
and pairs in the model. For the first, `Keys` has the texts character by
character and `ScansAreExact` says that they and the prefix scans over them
separate markets: checked up to market 120, proved for any number. The second is one-to-one because no address
contains a colon; `AdjustScore` does not parse the address it is given, and the
model assumes that the authority names an account.

### Chain and restart: state and actions

| TLA+ | Code |
|---|---|
| `Voting`, `Trading` | any message of the modules, or a new block |
| `Restart` | `app/export.go:22-54`, then `InitGenesis` of each module on empty stores |
| `ExportSettlement`, `ImportSettlement` | `x/settlement/keeper/keeper.go:312-383`, record by record |
| `ImportPrediction`, `ImportReputation` | `InitGenesis` and `ExportGenesis` of the two modules, which carry empty params only |

`Restart` may happen after any message. The new chain starts one block higher, or
at block one when the export was for zero height, and its clock is not behind.

### Codec: state and actions

| TLA+ | Code |
|---|---|
| `input`, `pos` | `dAtA`, `iNdEx` |
| `stack` | the running `Unmarshal` calls: the message read so far, and the end of the slice |
| `depth` | `skip`'s count of open groups |
| `ReadNumber`, `ReadText` | the `case` of a varint field, of a string or bytes field |
| `ReadInteger` | the `case` of the SDK's `Coin.Amount`, with the `Unmarshal` of `math.Int` |
| `Ends` | `intStringLen < 0`, `postIndex < 0` and their like after `iNdEx + length` |
| `OpenMessage`, `CloseMessage` | the call of `Unmarshal` for an embedded message, and its return |
| `Skip` | `default:` and `skip`, one tag at a time |
| `Finish`, `Reject` | `return nil`; any error |
| `Marshal`, `Size`, `VarintBytes`, `Sov` | `MarshalToSizedBuffer`, `Size`, `encodeVarint`, `sov` |

The generated code is one shape repeated for every field of every message, so
the model is that shape once, with the kinds of messages as data (`Schemas`): `Messages` gives the type
of every field of every message, and its map entries are the functions in which
the shape is written out. `order.pb.go` stands for the shape in the other
entries. The code of one kind calls that of the kinds it embeds, and never
its own: kinds embed each other at most four deep (`NestingAssumption`), so `Marshal`
is `MarshalBy` four times over, each with the one before as `Inner`, and `Size`
likewise. Numbers are scaled: a `uint64` has 16 bits here, a `uint32` 8, a
fixed field 2 or 1 bytes; a varint still carries 7 bits to a byte. Texts are
bytes, and UTF-8 is not checked by the generated code. Lengths and positions are
`int`s of the width of a `uint64`: a length is converted (`AsInt`) and added with
wrap-around, and a slice has fewer bytes than half of that width (`InMemory`).

`Coin` and the pagination messages are the SDK's, modelled from the fields this
code sets. The amount of a coin is a `math.Int` (`Integer`). Which texts it reads
and which one it writes for each is a constant, `Canonical`; other texts are
rejected, and no bytes at all leave the amount as it is, nil at first. An amount is always
written, a nil one as the text of zero (`Elements`), so that a coin with a nil
amount comes back with zero: `Settled` is a message with its nil amounts replaced, and
what `ArrivesAsSent` compares with. Transactions
reach the node through the SDK's own decoder, which rejects unknown fields before
these functions run; queries and stored records do not pass through it.

## 3. Runs

| Run | Instance | What it shows |
|---|---|---|
| `books` | 2 users, 2 orders, 1 market, 1 block, amounts {-1, 0, 1, 2}, outcome indexes {0, 1, 2} | `FillStatus`, `TradesHonourLimits`, `BookIsolation`, `PostTerminates`, under every accepted and rejected input |
| `matching` | 1 user, 3 orders, 2 blocks, amounts {-1, 1, 2} | `TypeOK`, `NoMissedMatch`, `LoopInvariant`, `FilledIsTraded`, `OrderLifecycle`, `PriceTimePriority`; `AtomicExchange`: `OrderBook` implements `Exchange` |
| `settlement` | 2 voters, 2 markets, 2 groups, 2 blocks, `IntMax` = 3 | `TypeOK`, `RevealsOpenCommits`, `OnlyAfterDeadline`, `ScansAreExact`, `VotesAreFinal`, `ConsensusIsHeaviest`, `ScoresFollowVotes`; `HoldsElections`: `Settlement` implements `Oracle` |
| `speculod` | 1 user, 2 groups, 2 markets, 1 order, heights to 3, any number of restarts | `OrdersHaveMarkets`, `RevealsStayBound`, `ScoresAreEarned`, `VotesOutliveTheChain` |
| `wire` | all 72 messages; numbers 0, 127, 128 and the largest; amounts 0, -1 and nil; 6 unknown fields; every cut; raw bytes of length up to 4 | `ArrivesAsSent`, `NothingSentIsRejected`, `CutMessagesAreParts`, `SizeIsExact`, `ReadsInside`, `DecodingEnds` |
| `crossed_book` | as `matching`, amounts {1, 2} | violated: a partially filled order is never matched again |
| `late_trade` | as `matching`, amounts {1, 2} | violated: trading goes on after the deadline |
| `large_order` | as `matching`, amounts {1, 2}, prices {1, 2} | violated: a large buy does not go on to the asks above its limit |
| `early_outcome` | 2 voters, 1 market | violated: finalized while a commitment is still closed |
| `tie` | 2 voters, 1 market | violated: the outcome of a tie depends on map order |
| `letter_case` | as `tie`, votes in other letter case | violated: the outcome is none of the market's |
| `restart` | 1 voter, 1 market | violated: old reveals decide a new market before its deadline |

The violated ones are statements of the documentation or of a test that the code
does not meet; `PROJECT.json` quotes each of them under `findings`.

Bounds and why they are enough.

* *Order book.* Prices are one value and the unparsable text, so two distinct
  prices and equality at one of them; larger sets add no new comparison
  (`large_order` needs two that parse). Amounts
  1 and 2 give exact, partial and over-sized fills, -1 the panic and the silent
  pass. Two resting orders and one taker are the smallest queue with a priority;
  two orders with two outcomes the smallest case in which books can be mixed up.
  Two blocks separate equal from different creation times and cross the deadline.
* *Vote.* Two voters and two markets are the smallest instance with a
  disagreement and with one finalization that changes the weights of another; an
  adjustment of 2 lets one voter outweigh another. With `IntMax` = 3 scores reach
  the largest integer and the sum of two of them passes it, so the wrapping cases
  of `ConsensusIsHeaviest` and `ScoresFollowVotes` occur. There is one nonce: a
  second one, with which a commitment opens in two ways, is left to the proofs of
  `RevealsOpenCommitsHolds` and `VotesAreFinalHolds`, which hold for any nonces.
  Voters, and groups, are interchangeable (`SYMMETRY`:
  the model compares them for equality only), and `VIEW` leaves out the creators
  of markets, which no action of settlement reads.
* *Chain.* One order, two markets and two groups, with penalties only, let a
  market of the new chain meet the order, the votes and the winner of the old
  one. Three blocks leave room for an export before and after a finalization.
* *Codec.* 127 and 128 are the boundary between one and two bytes, the largest
  number takes all the bytes of a varint and loses bits in every narrower type,
  and 0 is left out. Lists have none or two elements, texts none or two bytes. The unknown fields have
  every wire type, one of them a group in a group, one a tag of two bytes. Amounts are 0, 1 and -1, each of
  them with one or more spellings. Raw
  bytes are tags of fields 0 to 4, lengths, a digit and a continued byte, so they
  contain repeated fields, open groups and lengths that lie: too long by a little,
  the largest `int`, which wraps around when the position is added, and -1. The
  three messages they are read as are a coin, one with a text, a pointer to a coin
  and a narrow number, and one with an embedded message.

`MaxMarkets`, `MaxOrders`, `MaxTime`, `MaxHeight`, `MaxScore` and `MaxRaw` bound
counters, scores that the authority raises, and input, in guards. Deadlock
checking is off: a bounded chain stops at its bounds, the system may be idle,
and a decoder is done when it is done.

Fairness. `OrderBook!FairSpec` has weak fairness of the matching loop and its
commit, and `Codec!FairSpec` of `Unmarshal`: a node that has started a handler or
a decoder runs it to the end. `Settlement!FairSpec` and `Speculod!FairSpec` have
weak fairness of `BeginBlock`: blocks keep coming. Nothing is assumed about
messages, so neither trading nor settling is claimed to happen: the code has no
end blocker that would force them.

## 4. Refinements

`OrderBook` implements `Exchange`: a post that walks through candidates, stores
fills on the way and may panic is, seen from the stores, one allocation or
nothing. The mapping is the identity on the stores; the steps of the loop
stutter, and `CommitPost` is `Post`. `Post` says what each order gets without a
loop: its share is the smaller of what it has and of what the orders ahead of it
leave, and its trade stands at its place in the queue. Checked by `matching`
and proved by `AtomicExchangeHolds`.

`Settlement` implements `Oracle`: commitments become ballots cast, reveals the
texts shown, and the phase of a market (trading, voting, decided) is computed
from its deadline, the clock and the outcomes, as `IsMarketReadyForSettlement`
does. `Oracle` has no clock, hashes, weights or scores, so the refinement says
that what the three handlers check apart adds up: no ballot while a market
trades, one ballot to a voter, one decision to a market, by a text shown before.
Checked by `settlement` and proved by `ElectionHolds`.

## 5. Proofs

All theorems hold for every value of the constants that satisfies the named
assumptions:

| Assumption | What it says, and why the code justifies it |
|---|---|
| `MarketsAssumption`, `OrdersAssumption`, `OrderBookAssumption`, `SettlementAssumption` | what kind of value each constant is; the empty text is no label and no question; `InvalidPrice` is no integer |
| `ReputationAssumption` | `IntMax` is a natural number, and adjustments fit the integer: `adjustment` is an `int64` |
| `SpeculodAssumption` | the constants of the parts that `Speculod` instantiates, as above |
| `KeysAssumption` | a slash is no digit, and no address is shorter than the text of an id: at most 20 digits against 45 characters |
| `WireAssumption`, `SchemasAssumption` | positive widths, and a uint32 is no wider than a uint64; a number field is a single one, only a message is optional, and an embedded message is of a kind that has an `Unmarshal` too and, if it is no pointer, has no amount. No field of the 72 messages is a repeated number, and every coin is behind a pointer |
| `FixedAssumption` | a fixed field has no more bytes than an `int` can count |
| `CanonicalAssumption` | what `math.Int` writes it reads, and it writes the same again; zero is written; no text at all is no integer |
| `NestingAssumption` | all kinds of messages are made of kinds that embed kinds, four levels deep at most, and their field numbers fit a tag. TLC finds it true of the 72 messages |
| `SamplesAssumption` | a message that is sent holds values of its fields' types, the messages in it are among the samples too, and its bytes fit into memory |
| `ExtensionsAssumption` | unknown fields come with any wire type and content, groups are closed in the order they were opened, and outside of a group no number is one that a message knows: it is a later version of the same protocol |
| `RawAssumption` | raw input is bytes, for kinds of messages there are |
| `PowersAssumption` | `2 ^ (n + 1) = 2 * 2 ^ n` and `(2 ^ p) ^ k = 2 ^ (p * k)`, as far as the widths go: the provers know nothing of exponentiation. TLC evaluates it for the widths of the run |

`OrderBookProofs`:

* `TypeCorrect`: `Spec => []TypeOK`.
* `Invariance`: `Spec => []IInv`, with
  `IInv == TypeOK /\ OrdersOK /\ NoMissedMatch /\ LoopInvariant`.
* `FillStatusHolds`, `NoMissedMatchHolds`, `LoopInvariantHolds`: consequences.
* `OrderLifecycleHolds`, `PriceTimePriorityHolds`, `BookIsolationHolds`: action
  properties, each from `IInv` and one step.

Why `IInv` is needed. What a committed post has done is visible only in `tx`, so
`NoMissedMatch`, priority and isolation are not inductive: `CommitPost` publishes
`tx.branch`. `LoopInvariant` carries the obligation through the loop: of the
stored orders that the new order meets, those left as candidates are untouched,
those visited are used up, except the last one once nothing remains, and
everything that ranks before a visited order is used up. `OrdersOK` says of
stored orders what the loop needs when it starts: status and fill agree, and no
creation time lies in the future, so that the sort by creation time agrees with
the order of ids. The proof has one lemma per action and, in it, one step per
conjunct the action can disturb; the facts about `Put`, `Fill` and the order of
candidates are lemmas of their own.

`SumTheorems`: the community modules define `SumFunctionOnSet` by a recursion that
takes the elements of a set in an order nobody knows. Three lemmas about that
recursion (a solution exists, two solutions agree, the operator is one) give what
one expects of a sum: nothing for the empty set, an element more or less, sums of
equal functions, of two functions, of natural numbers. An induction theorem with
an operator as parameter cannot be instantiated, so each is an argument about a
minimal counterexample: `MinimalSubset`, from the well-foundedness of strict
inclusion, and `LeastMember` for natural numbers.

`ExchangeProofs`:

* `FilledIsTradedHolds` and `TradesHonourLimitsHolds`, from
  `TradesInv == StoredTrades /\ LoopTrades`. In a running loop the sums hold of the
  branch and of the trades of the store followed by those of the transaction, the
  new order counting as the next id; `CommitPost` makes that the store, and an
  aborted post drops both. No stored trade names the next id, so nothing has to be
  known of an order that is not there yet.
* `AtomicExchangeHolds`, from `AllocInv`: at every iteration the orders visited are
  ahead of all candidates left, each has got the share that `Exchange` gives it,
  `remaining` is what they leave of the amount, and the trades are theirs, each at
  its place. The share of the next candidate is then the `fill` of the code
  (`NextShare`), its place the number of trades (`PlaceNext`). When the loop ends
  early because nothing remains, everything behind gets nothing (`AllAllocated`);
  when a fill is negative the post aborts, and such a post does not clear. The
  visited prefix is the part that a step-by-step comparison with the stores does
  not see, and what makes the invariant inductive together with `IInv`.

`SettlementProofs`:

* `TypeCorrect`: `Spec => []TypeOK`, with every stored score in `0 .. IntMax`:
  wrapping never leaves the range and the clamp never lets a negative through.
* `VotesAreFinalHolds`, from `StepsAreMonotone`: no step removes or replaces a
  market, a commitment, a reveal or an outcome, and time does not go back.
* `RevealsOpenCommitsHolds` and `OnlyAfterDeadlineHolds`, from
  `IInv == TypeOK /\ RevealsOpenCommits /\ OnlyAfterDeadline`. What was checked when
  a reveal was stored stays true because nothing it was checked against changes
  (`Monotone`); the clock is checked for commitments only, and `TypeOK` carries it
  over, since every reveal has a commitment and every outcome a reveal.
* `ScansFindTheirMarket` and `ScansAreExactHolds`: decimal texts have digits only,
  are one-to-one (`DecimalIsOneToOne`) and do not shrink as ids grow
  (`DecimalGrows`), so the slash that ends a scan prefix can only meet the slash
  of a key of the same market, and no key is shorter than a prefix. `Decimal` is a
  recursive function, and that it has a solution at all is `DecimalSpells`.
* `ConsensusIsHeaviestHolds`: the search over the votes in any order ends with a
  text of the largest weight, and the wrapped weight of a text is the sum of its
  voters' reputation whenever that sum fits (`WrapNat`). Sums over revealers need
  these to be finitely many (`FinitelyMany`, an invariant).
* `ScoresFollowVotesHolds`: the heart is `AdjustedByOne`, which computes the
  two's complement sum: one up wraps at the largest integer and nowhere else, and
  one down never.
* `ElectionHolds`: the initial states map to initial states, and each action maps
  to `Open`, `Close`, `Cast`, `Show`, `Decide` or a stutter, one lemma each. What
  the mapping needs of `IInv` is that votes belong to existing markets past their
  deadline: only then may no new market or block change the phase of a market with
  votes, and only then is a market that is finalized in its voting phase. The
  tally enters only by what it can return: a text revealed, or the empty one.

`SpeculodProofs`:

* `VotesOutliveTheChainHolds` and `RevealsStayBoundHolds`. The step that matters is
  `Restart`: each record exported is found again under its key
  (`CommitsSurvive`, `RevealsSurvive`, `OutcomesSurvive`), because no two records
  have the same market and voter. The inductive invariant says that keys are
  pairs of a market and a voter and that every reveal opens its commitment.
* `OrdersHaveMarketsHolds`, from `ChainInv`: both registries count from zero without
  gaps, and a restart empties them together.
* `ScoresAreEarnedHolds`, from `EarnedInv` over `ChainInv`: a finalization adds its
  market to the wins of exactly the voters it rewards, counted by the cardinality
  of a set of markets. After a restart scores start again while old outcomes stay,
  so the bound is an inequality.

`WireProofs`, about `DecoderSpec`: one `Unmarshal` of any bytes as any kind of message;
and about what Marshal writes for one field:

* `ReadsInsideHolds`: from `WireInv`, in which the slices of the running calls nest
  (`CalledBy`) and lie in the input. Before `postIndex > l` is of any use, the two
  checks for negative numbers must have done their work: a length that is negative as
  an `int`, or of which the end wraps around, is no token, and any other end is the
  sum it seems to be, so that it is not before the start (`TokenIsInside`). With
  one of the two only, a slice could end before it starts, which is a panic.
  `WireInv` also says that what the running calls have read fits the types of its
  fields at every depth: a read of an embedded message goes on with the value that
  the field already has. `DeepFits` says so without recursion: there is a set of
  messages that contains this one, of which all fit, and with each of them the
  messages in its fields.
* `EveryStepUsesUpInput`: each step lowers a natural number, so `Unmarshal` ends on
  any bytes. It is the safety half of `DecodingEnds`, without fairness and
  without a bound on the bytes.
* `VarintReadsBack`: for every number of the width and every width, `Unmarshal` finds
  the end of a varint where Marshal put it and nowhere else, gets the number again, and
  finds none if the slice ends before. The digits of `encodeVarint` are quotients and
  remainders, `Varint` adds them up again: the sum of the first `n` digits is what `x`
  leaves when divided by `Base ^ n` (`DigitsAddUp`).
* `SovCountsBytes`: the length that `sov` computes from the binary form of a number is
  the number of bytes that `encodeVarint` writes for it, the boundaries included.
* `FieldReadsBack`: a field that Marshal wrote, between any other bytes, is one token
  for `Unmarshal`, with its field number, wire type and content, and ends where the
  field ends; cut off, it is no token at all. It holds of unknown fields as well.

`CodecProofs`, about `Codec!Spec`: a message of any kind, with any values, on its way
from the sender to the store of the receiver.

* `ArrivesAsSentHolds`, `NothingSentIsRejectedHolds` and `CutMessagesArePartsHolds`,
  from `CodecInv`. What these properties say of the end of the decoding is not
  inductive, and `CodecInv` says it of every position: as long as the bytes are not
  raw, they are what `Marshal` wrote of `sent`, cut off or between two copies of an
  extension (`Delivered`), and the decoder is at a place in them (`Place`).
  * Among the unknown fields (`AmongUnknown`) it is at the start of the `k`-th, before
    the message with nothing read or behind it with all of it, and `depth` is the
    number of groups that the first `k` fields leave open. At depth 0 no message
    knows the next field, so that it is skipped (`UnknownNext`).
  * In the message (`AmongKnown`) each running call reads a message of its own, whose
    bytes start at its `base` (`Readers`). Each but the innermost is at an element of
    its message and has read what is before it (`ReadsUpTo`), and the call it made
    reads that element, up to where the element ends (`ReadsElement`). The innermost
    has made some `Progress`: it has `Taken` the first fields and, of a list, the
    first elements, and stands at the next one's first byte, or it has all.

  The message that is to arrive is not `sent` but `Due`, which is `sent` with its nil
  amounts replaced by zero. Both are marshalled to the same bytes (`SettledMarshals`),
  and no amount in `Due` is nil at any depth (`Whole`, `SettledIsWhole`): the invariant
  can therefore say of each field that it is read or not, without a third case.

  `FieldReadsBack` then says which token comes next, one lemma per action says that the
  step leads to the next place (`ValueStep`, `OpenStep`, `CloseStep`), and at the end
  of the input only a decoder that has everything is at a place, unless the bytes were
  cut off (`MessageArrived`). What an element of a list adds, what a field that
  is written once replaces, and that an embedded message, a nil pointer and a zero
  value come out as they went in, is `NextTaken`. `Persist` starts all over with what
  was understood, which fits the fields of its kind whatever the bytes were
  (`WireInv`): it is a message like any other.
* `SizeIsExactHolds`: of an element by `SovCountsBytes`, of lists and messages because
  both are folded over the same elements (`AddsLengths`), and of embedded messages one
  level of nesting after the other (`Marshalled`).

Concatenations and folds of the community modules are recursive functions, so the facts
about `FlattenSeq` (where each part is, `Flattened`) are proved as those of
`SumTheorems` are: a solution exists, two solutions agree, and induction on natural
numbers is an argument about the least counterexample.

`CodecInv` is not evaluated by TLC: its existential quantifiers range over all
functions and numbers. What TLC checks are the properties it implies.

Out of the prover's reach: liveness and `ENABLED`; operators declared `RECURSIVE`; and
induction theorems, which have an operator as parameter.

Only model-checked: `PostTerminates` and `DecodingEnds`, which are liveness (of the
second, `EveryStepUsesUpInput` is the part without fairness). Every other property of a
passing run has a theorem.

## 6. Not modelled, and why

* Positions: no handler calls them, the store stays empty.
* Params: every `Params` message is empty.
* Queries: they copy or filter a store and change nothing. What they share with
  the handlers is modelled: the scans (`Keys`) and the readiness of a market
  (`Phase`). `GetSettlementStats` and `GetVoteDistribution` are called by tests
  only.
* `prepForZeroHeightGenesis` of `app/export.go`: it rearranges the stores of the
  SDK's staking, distribution and slashing modules, none of this repository.
* Of the generated code: getters, descriptors, `String`, registration, gRPC stubs
  and HTTP gateways, which hold no state and take no decision.
* Coins (the bank is never called), gas, events, CLI, application wiring.
* Signatures: a message's signer is its creator, and `MsgAdjustScore` is sent by
  the authority or rejected.

## 7. Plan

Done: the order book with `Exchange`, the vote with `Oracle`, the scores, the
chain with its restarts, the codec, and the proofs of section 5. Left:

1. What `OnlyAfterDeadlineHolds` says, for `Speculod` without `Restart`: the theorems
   about `Settlement` hold of every chain between two exports.
2. A second denomination in the order book, which no instance has.

## 8. Running

    tlc -workers 2 -config matching.cfg MCOrderBook
    tlc -workers 2 -config settlement.cfg MCSettlement
    tlc -workers 2 -config speculod.cfg MCSpeculod
    tlc -workers 2 -config wire.cfg MCWire
    tlapm OrderBookProofs.tla
    tlapm ExchangeProofs.tla
    tlapm CodecProofs.tla

Each run takes at most about three minutes, and each proof module two, but for
`CodecProofs` with six.

## 9. Known differences between code and documentation

The violated runs of section 3 are the differences that are checked.

Two more concern what the order book accepts. `docs/testing.md` lists an invalid
price format (line 220) and negative amounts (line 221) under validation errors, and
`PostOrder` accepts both (`x/prediction/keeper/msg_server.go:91-98`). A price that
does not parse counts as zero (`x/prediction/keeper/keeper.go:263`): such an ask sells
at any price, and its text becomes the price of the trade. A negative amount takes
part in matching until a fill panics (`keeper.go:324`). `FillStatus`,
`TradesHonourLimits`, `BookIsolation`, `LoopInvariant` and `AtomicExchange` hold of
the code as it is: they read such a price as zero, and a post that panics changes
nothing.

The run `large_order` is about another expectation of `docs/testing.md` (lines 46-49)
and of the trades written down in `x/prediction/keeper/integration_test.go:198-234`: a
buy of 100 at 100 takes 30 and 40 at 100, and then 30 at 101. `MatchOrder` takes
nothing above the limit of the bid (`keeper.go:281-285`), and that is what
`TradesHonourLimits` and `BookIsolation` say. The test passes because it never calls
`MatchOrder`.

And a few that no property is about: genesis import and export of `prediction`
and `reputation` carry params only (`x/prediction/keeper/genesis.go:10`), while
`readme.md:567` speaks of exporting and importing reputation state; the id of a
trade is the height of its block, although `keeper.go:420` says that it is
incremented; a score at the largest `int64` that gains one becomes zero; a direct
fill makes the filler the buyer even of a bid (`keeper.go:398`, marked `TODO`); and
reveals are accepted after finalization but never counted.
