# Verification of RedpointSwap

RedpointSwap is a Go service for the Osmosis chain. A client simulates a swap
together with an arbitrage that the swap makes possible, and then either

- sends a signed swap to `POST /api/zenith`, which is queued and offered to the
  *Zenith* block auctions together with an arbitrage TX that the service's *hot
  wallet* signs and payments to the block's proposer; or
- posts a signed grant to `POST /api/token`, which lets the hot wallet swap for it,
  gets a token for it, and calls `POST /api/secured/authz`, which makes the hot
  wallet sign one TX with both swaps and submit it.

Either way the client gets an id and polls `GET /api/status`. At every new block the
service bids for the next auctions, looks its TXs up on chain, marks the sets it
finds as committed, and works out the user's share of the arbitrage.

This directory holds TLA+ models of that service, their TLC configurations, and
TLAPS proofs. `PROJECT.json` indexes it: components, runs, the lines each
definition stands for, the mutants that show that a property can fail, findings,
hazards and theorems. Paths below are relative to the repository's `src/`, and a
bare file name is one of those in the table.

    tlc -workers 2 -config MCZenithTrades_ideal.cfg MCZenithTrades
    tlapm ZenithTradesProofs.tla     (about eight minutes, the longest)

## 1. Inventory

### 1.1 Components, state and operations

| Component | Source | State | Operations |
|---|---|---|---|
| Zenith trades | `api/track_arbitrage.go`, `api/types.go`, `api/endpoints/zenith.go` | `txqueue`, a `sync.Map` from request id to `*ZenithArbitrageTxSet` (bid, `LastChainHeight`, `Committed`, TXs, fees, revenue, share) | `QueueZenith` (API); `ExecuteQueuedZenith`, `ParseZenithCommittedTxs` (per block), `UpdateZenithTxSet` |
| Authz trades | `api/track_arbitrage.go`, `api/endpoints/authz.go` | the same map, `*AuthzArbitrageTxSet` | `SwapAuthz`, `AddAuthzTxSet` (API); `AuthzBlockNotificationHandler` (per block) |
| Trade status | `api/endpoints/status.go` | reads `txqueue`'s sets | `GetTradeStatus` |
| Block feed | `osmosis/blocks.go`, `osmosis/track_blocks.go` | the websocket, two failure counters, `lastHeight`, ten samples of the block time and their average | `AwaitBlocks`, `TrackBlocks`, `ProcessNewBlock`, one goroutine per block |
| Future Zenith blocks | `zenith/track_auctions.go`, `zenith/query.go`, `api/endpoints/zenith.go` | `zenithBlocks`, a `sync.Map` from height to what Zenith said of it | `ZenithBlockNotificationHandler` (per block), `getAvailableAuction`, `GetZenithBlocks`, `ZenithAvailableBlocks` (API) |
| Bidding | `zenith/bid.go`, `osmosis/builder.go`, `zenith/zenith_types.go` | none of its own; reads the hot wallet's balance of the start | `IsZenithEligible`, `EstimateArbFees`, `EstimateArbGas`, `BuildArbitrageSwap`, `GetZenithBid`, `PlaceBid` |
| TX parser and books | `osmosis/parser.go`, `api/track_arbitrage.go` | none | `ParseRedpointSwaps` and the scans of a message's log below it; the sums that the handlers enter |
| Authz swap messages | `api/endpoints/authz.go` | none | `buildSwaps` and its gas |
| JWT and authz grants | `api/endpoints/jwt.go`, `api/middleware/auth.go` | none of its own; the chain and the nodes' mempools | `GenerateToken` (API), `ValidateToken` |
| Endpoint rotation | `config/config.go` | `lastRpcSubmitEndpointIndex` and its twins | `GetApiRpcSubmitTxEndpoint`, `GetApiRpcSearchTxEndpoint` |
| Rate limiter | `api/middleware/auth.go` | `connectionTracker`, a counter per client address | `GetClientAuthorizationLevel` |
| TX client, signing | `osmosis/client.go`, `osmosis/swap.go`, `osmosis/query.go` | none | SDK calls: sign, broadcast, `AwaitTx`, account lookups |
| Router, codec, helpers, simulator types, start | `api/middleware/router.go`, `osmosis/codec.go`, `osmosis/helpers.go`, `simulator/`, `main.go` | none | wiring |

### 1.2 How they interact

`main.go` starts three goroutines: `TrackBlocks` (websocket to channel),
`ProcessNewBlock` (channel to subscribers) and the REST server.
`ProcessNewBlock` starts *another* goroutine for every block, which calls the
four subscribers one after the other: `ZenithBlockNotificationHandler`,
`AuthzBlockNotificationHandler`, `ExecuteQueuedZenith`,
`ParseZenithCommittedTxs`. Nothing waits for the previous block's goroutine, and
the subscribers block for seconds (HTTP to Zenith, one RPC of a second per TX
that is searched for), so goroutines of several blocks overlap with each other
and with the API handlers. All of them share the trade sets through pointers and
without a lock; the two `sync.Map`s only protect the maps. Handlers and
subscribers also take their nodes from one unlocked round robin. `gin` recovers
the panic of a request; nothing recovers that of a goroutine, which ends the
process. Nothing is persisted: a restart forgets every set.

### 1.3 What is hard, and what correctness means

- **Zenith trades.** Overlapping goroutines test, bid and record one request;
  a bid may be taken although its reply is lost; a won auction is only noticed
  when the TXs are searched for, and bidding comes first; lookups fail one by
  one. *Correct:* a request is entered for another auction only when it lost
  the previous one; committed means that its TXs are in a block, for good; every
  winner is committed and summarised; fees and revenue are those of the TXs.
- **Authz trades.** Handlers clear and refill `TradeTxs` and the fees while
  others read them; a lookup that cannot make its client ends the process; two TXs
  between two blocks need two account sequences.
  *Correct:* committed only when landed; fees counted once; no index into an
  emptied list; every landed swap summarised; what is tracked was accepted.
- **Trade status.** An answer is put together from fields that goroutines
  overwrite meanwhile. *Correct:* what it says of the chain is true, the bid it
  shows was placed, and asking never fails.
- **Block feed.** Goroutines read the shared `lastHeight`; the average divides
  by the number of samples; connections break. *Correct:* every subscriber hears
  of every block, at its height and never before it; the average is of samples.
- **Future Zenith blocks.** Late handlers, failing queries, a horizon. *Correct:*
  every auction ahead that Zenith knows of is on offer, past ones are removed,
  errors are asked again.
- **Bidding and books.** Splitting a swap into messages that the wallet can fund,
  an estimate of the gas made before the split, percentages, caps and truncation;
  amounts read back out of logs that mention every pool, of nodes that may leave
  logs out. *Correct:* the messages cover the swap, gas fits the messages,
  payments stay within the bid and can be made, the books say what the chain did
  and never half of it.
- **Grants.** A TX is given to one node, looked for at a second and a third, and
  may be lost, dropped or late at each; the address comes with the request.
  *Correct:* a token only for a grant that landed, succeeded and came from the
  address of the token; every request is answered; a grant that landed can earn
  its token. (Of the first only that the grant landed holds: section 6.)
- **Endpoint rotation, rate limiter.** Unlocked counters. *Correct:* round robin,
  no index beyond the list; the limit holds, and nobody is blocked before he has
  had the requests it admits.

`PROJECT.json` lists 40 hazards, each at its line, with the properties that watch
it or the reason why none does.

## 2. The modules

| Module | Models | Step |
|---|---|---|
| `ZenithTrades` | `QueueZenith`, `ExecuteQueuedZenith`, `UpdateZenithTxSet`, `ParseZenithCommittedTxs` in any number of notification goroutines; environment: chain, Zenith, feed | the code between two blocking calls, and between two writes of a set that others may see apart |
| `ZenithPromise` | abstract specification: what the auction side promises | one promise-relevant event |
| `ZenithStatus` | `GetTradeStatus` of a Zenith request, composed with `ZenithTrades` | one read that can disagree with the next |
| `AuthzTrades` | `SwapAuthz`, `AddAuthzTxSet`, `AuthzBlockNotificationHandler`; environment: mempool, account sequence, chain | one access to a shared field |
| `BlockFeed` | `AwaitBlocks`, `TrackBlocks`, `ProcessNewBlock`, the goroutines | one message, one call of a subscriber |
| `ZenithBlocks` | `ZenithBlockNotificationHandler`, `getAvailableAuction` | the code between two HTTP requests |
| `ZenithBid` | one bid, from eligibility to execution | one branch or one round of a loop |
| `BidAccounting` | composed with `ZenithBid`: the messages of an authz swap, the logs of the executed TXs, the parser, the books | the TXs executed, one TX parsed and entered |
| `EndpointRotation` | the submit and search getters, and what becomes of their panics | one access to the index |
| `AuthzGrant` | `GenerateToken` composed with `EndpointRotation`; environment: nodes that lag behind the chain, their mempools, clock, subscribers | the code between two blocking calls; the getter as in `EndpointRotation` |
| `RateLimit` | `GetClientAuthorizationLevel` in production mode | one access to a field of the counter |
| `*Proofs` | theorems about the module of that name; `ZenithTradesProofs` also about `ZenithStatus`, `AuthzGrantProofs` about `EndpointRotation`, `BidAccountingProofs` about `ZenithBid` | |
| `MC*` | instances for TLC: symmetry sets and constants that a `.cfg` cannot write (`BlockFeed` needs none, its `.cfg` files run it directly) | |

**ZenithTrades.** `trade[r]` is the `ZenithArbitrageTxSet` of request `r` (a nil
`SubmittedAuctionBid` is height 0), `txqueue` the keys of the map, `worker[w]` a
notification goroutine: `pc` says between which calls it is, `height` is the
argument its current subscriber was called with, the rest its local variables.
`StartExecute .. UpdateZenithTxSet` are `ExecuteQueuedZenith`, `StartParse ..
NothingToDo` are `ParseZenithCommittedTxs`; every early return and `continue` is
an action or a disjunct of its own. A visit of the map starts with the keys that
are there (`sync.Map.Range` promises no more of keys stored meanwhile) and takes
them in any order. `AwaitTx` sleeps as long as its timeout, so a lookup asks
once: `LookUp` has no retry. `ParseFails` is the exit of a lookup whose client
cannot be made (`parser.go:117`, a `Fatal` of the logger). The bid is recorded
before its TXs (`BidAccepted`, `UpdateZenithTxSet`) and a commit empties `TradeTxs`
before the TXs found are entered (`CommitFound`, `RecordFound`); between the two another goroutine or a
client may look, and `Panic` is the index into the emptied list. TXs are pairs
of a request and the height of the auction they were signed for; height 0 is the
user's own TX, the same in every bid. Amounts are of one denomination, and a
TX's fee is one unit. `ErrorPlacingBid` is left out: it adds a remark to the answer
of `GET /status` and nothing else. `Coins.Add` returns its sum and the code drops
the result, which is why `RecordRevenue` is the identity. It is also why `Summarise` is one
step: with a revenue of zero nothing is signed, so that no call lies between
`Initiated` and the end of the visit (`PaysOut`, `AwaitsShare` and `AwaitShare`
are there for what the code says, and a submission would be a step of its own).

**ZenithPromise** is bound to it by the refinement mapping at the end of
`ZenithTrades`: a bid is *won* when its arbitrage TX is in a block.

**ZenithStatus** adds a `reader` to `ZenithTrades`: it tests the length of
`TradeTxs`, indexes it in a second read, computes `IsAwaitingZenithBlock` there,
and reads bid and commit last. What the share makes of the answer does not occur,
as the sums it is made of are discarded.

**AuthzTrades** is finer: its hazards lie between two statements, so every read
and every write of a shared field is a step. Within one step a slice is read or
written whole; torn reads are not modelled. `process` is "panicked" after an index
into an empty list and "exited" after a `Fatal` of the logger (`ParseFails`);
either way nothing of the service moves any more. A TX pays a fee of one unit;
`ParsedFee` is what the parser reads of it, which of a failed TX is nothing
(`parser.go:126`), although the chain takes the fee all the same.

**BlockFeed.** `CallSubscriber` passes `lastHeight` as it is at the call, because
the closure captures the variable. A failed read counts as two failures (the
empty message fails to parse as well); the number of connections is never reset.
A connection may be to a node that lags behind the chain, by up to `MaxLag`
blocks, and behind the node before it: it sends headers again, or older ones, and
each starts a goroutine. `calls` therefore names the goroutine of a call.

**ZenithBlocks** knows the five codes of `zenith/query.go`; an HTTP status that is
not recognised gives `QueryError` *without* a Go error, as in the code.
`overlapped` is a history variable: it only serves to state what holds as long as
handlers do not overlap.

**ZenithBid** checks arithmetic: `AtMost`, `Payment`, `EstimatedMsgs` and
`GetGasFee` translate the code's functions with truncation and caps, and the
loops of `BuildArbitrageSwap` and of the payments are stepped through. An auction is
a sequence of allocations in percent, with denominations that the code takes or
refuses (`WrongDenom`); they need not make a hundred, and may be zero. Its state
space is a forest: one tree per combination of inputs.

**BidAccounting** carries each of those bids on: the chain executes the user's TX
and the arbitrage TX (each as a whole, or not), a node returns the logs of some
first messages of each, and `ParseRedpointSwaps` reads them as the code does, the
first amount in and the last amount out of one `token_swapped` event. Its loop over
the messages is `MessagesParsed`, a function from the number of messages read to
what was parsed; the scans of a log are `First` and `Final`, which give the element
found as a set of at most one. `Book` enters one TX, as the handlers' loop does. With
`service = "authz"` the same inputs go through `buildSwaps` instead, which splits
with the same code but has no bid, and one TX holds the user's swap, wrapped in
the grant's `MsgExec`, and the arbitrage.

**EndpointRotation, RateLimit** split `x++` on a shared variable into its read and
its write; they carry the same history variable. The count of a client is read
again by each condition (`Decide`, `LimitReached`), and count and time are written
one after the other, since another connection may come in between. The time of
the last request is compared by one read (`BackoffOver`).

**AuthzGrant.** A post is an address and a grant, and nothing relates the two:
`GenerateJWT` signs the address of the post. A handler asks the rotation for its
three endpoints step by step, while subscribers do so too. `landed` are the grants
in a block, `failed` those of them that failed there, and `seen[n]` those in the
blocks that node `n` has: a node gets a block some time after it was made
(`CatchUp`). A node refuses a TX it holds or has seen in a block; it may forget
one, and the reply to a broadcast that it took may be lost. A lookup that gives up
is possible at any time, since a node may be behind or down. The handler checks
kind and expiration of the grant, and neither its granter nor the code of its TX;
so does the model (`CheckGrant`).

Definitions named as mutants in their comments are never used by the
specifications. Each replaces the definition after it in one entry of `mutants`
and makes the property named there fail, which shows that the property depends
on that code.

## 3. Runs

| Run | Instance | Shows |
|---|---|---|
| `zenithtrades_ideal` | one goroutine, requests r1 (eligible) and r2 (not), authz set a1, 4 blocks, auctions at 2 and 3 | `KeepsPromise`: the program implements `ZenithPromise`, liveness included. `WonIsCommitted`, `ZenithFeesExact`, `AtMostOneWin`, `NeverPanics`, `RebidOnlyAfterLoss`, `CommitIsStable`, `ReportedHeightAdvances`, `WonIsSettled` |
| `zenithstatus_hostile` | two goroutines, a client polling r1, 3 blocks; nodes, feed and replies may fail | `CommittedHasEvidence`, `TracksPlacedBids`, `NotWaitingShowsItsBid`, `ReportedCommitIsTrue`: whatever goes wrong, nothing is committed, or reported to be, without a TX in a block, and only placed bids are tracked and shown |
| `zenithtrades_overlapping_bids` (violation) | two goroutines, nothing else fails | `RebidOnlyAfterLoss` fails |
| `zenithtrades_revenue` (violation) | one goroutine, nothing fails | `RevenueIsRecorded` fails |
| `authztrades_one_worker` | one handler, two swaps, 4 blocks | `NeverPanics`, `LandedIsSummarised`; `FeesOfSuccessExact`: the fee of a successful TX is booked once (that of a failed one is not booked, section 6) |
| `authztrades_overlap` | two handlers, two swaps, 3 blocks, failing nodes | `CommittedOnlyWhenLanded` |
| `authztrades_empty_set` (violation) | two handlers, one swap, nothing else fails | `CommittedListsItsTx` fails |
| `blockfeed_feed` | 3 blocks, window 2, 2 connections, nodes up to 2 blocks behind, 2 subscribers, a faulty link | `AverageIsOfSamples`, `NeverBeforeItsBlock`, `SampledNeverPanics`, `AllSubscribersCalled` |
| `zenithblocks_handlers` | two handlers, 5 blocks, horizon 3, queries for 4 and 6 may fail | `NextAuctionsListed`, `SerialPastRemoved` |
| `bidaccounting_bids` | all combinations of the amounts in the cfg, bids and authz swaps | `MessagesCoverTheSwap`, `GasCoversMessages`, `PaymentsWithinBid`; `BooksMatchChain`, `AllOrNothing` of what is booked |
| `authzgrant_race` | a client that posts its grant twice, a subscriber, two nodes that lose TXs and replies and lag behind | `RoundRobin` and `SerialInRange` for calls that do not overlap, `NeverAhead` for all; `TokenRestsOnLandedGrant`, `StrandedForever`, `EveryRequestAnswered` |
| `ratelimit_connections` | two connections, limit 3, pause 4, seven requests, six minutes | `LimitKept` and `BlockedOnlyAtLimit`: requests that do not overlap get what the limit admits, no more and no fewer (what a race does is in section 6) |

The type invariants are properties of the runs of `ZenithStatus` (with that of
`ZenithTrades` in it), `AuthzTrades`, `BlockFeed` and `AuthzGrant` (with that of
`EndpointRotation`). Those of `ZenithBlocks` and `RateLimit` hold by theorem;
`ZenithBid` and `BidAccounting` have none, their invariants fix the values that
matter.

**Bounds.** `MaxHeight` bounds the chain. A request needs at most four blocks from
being queued to being settled (queued and bid at 1, auctioned at 2, noticed and
committed when 2 is notified, looked up again and summarised when 3 is), and a
second auction needs one more; two auctions suffice for a rebid. Two
goroutines are enough for every race the code was found to have: each is a
pair (test and record, clear and read, older and newer height), and the
violations need no third. Two requests make the visit of the queue a loop. The
window of ten samples, ten reconnections and ten failures are 2, 2 and 3: what
counts is that they fill up, overflow, and that a failed read takes two steps. A
lag of two blocks lets the second connection send again what the first has sent,
and older blocks.
In `zenithstatus_hostile`, none of whose
properties is about fees, the estimated fees are zero, which keeps the state space
small. `Lookahead` has the code's value 5 in both modules that use it. In `ZenithBid`
the amounts lie on both sides of the two gas fees (1375 and 2050 units) and of
the multiples of the wallet, with a wallet that funds a swap in one, two, three,
five or more than 25 messages, or not at all; the routes go from none to six, one
more than a bid may have. A node leaves out any number of the last logs of the
arbitrage TX. `RateLimit` scales 20 requests and 60 minutes to 3 and 4.
`AuthzGrant` has two nodes as the example configuration does, and one address in
the run: no step looks at an address, and only `MCAuthzGrant_token` asks about
it, with two. `Reserved` keeps
enough of the bound on calls for the client, so that the bound never stops a
request half way.

**Symmetry** (`Permutations` of workers, connections, authz requests) is
used in runs without liveness only.

**Deadlock** checking is off everywhere: every model ends when the chain, the
clock or the calls reach their bound, and `Panic` and `os.Exit` end the service.

**Fairness.** Weak fairness of a goroutine's steps: Go schedules every runnable
goroutine, and a blocking call is assumed to return. The code bounds two of
them, the lookups of `AwaitTx` (a context with a timeout) and `PlaceBid` (three
seconds); for the other RPCs and for `http.Get` in `zenith/query.go:38`, which
has no timeout, it is an assumption on the node and on Zenith. Weak fairness of
`ReceiveBlock` says that the websocket delivers, and of `ProduceBlock` that the
chain goes on until the bound. In `BlockFeed` a broken connection is noticed and
a header that arrived is read; `ReadGarbage` has no fairness (with it every
process would exit in the end and liveness would be vacuous), and `NewBlock`
has none: no block need ever come. No fairness is asked of clients in
`ZenithTrades`; in `AuthzTrades` a `SwapAuthz` call that began is a goroutine too.
In `AuthzGrant` it is `Serve`: a request that was posted is served, but nobody has
to post and nothing has to land; an answer only comes because lookups end.

## 4. Proofs

| Theorem | States | For |
|---|---|---|
| `ZenithTradesProofs!TypeCorrect` | `[]TypeOK` | all constants that satisfy `ConstantsAssumption`: any requests, goroutines, heights, failures |
| `ZenithTradesProofs!CommittedHasEvidenceHolds`, `TracksPlacedBidsHolds` | `[]CommittedHasEvidence`, `[]TracksPlacedBids` | the same |
| `ZenithTradesProofs!StatusTypeCorrect` | `[]StatusTypeOK` | the same |
| `ZenithTradesProofs!NotWaitingShowsItsBidHolds`, `ReportedCommitIsTrueHolds` | `NotWaitingShowsItsBid`, `ReportedCommitIsTrue` of `ZenithStatus` | the same |
| `ZenithTradesProofs!NeverPanicsHolds` | `[]NeverPanics` | one goroutine at a time; anything may fail |
| `ZenithTradesProofs!ReportedHeightAdvancesHolds` | `ReportedHeightAdvances` | the same |
| `ZenithTradesProofs!CommitIsStableHolds` | `CommitIsStable` | one goroutine, nodes that answer; the feed may skip blocks and replies may be lost |
| `ZenithTradesProofs!WonIsCommittedHolds`, `ZenithFeesExactHolds`, `AtMostOneWinHolds` | `[]WonIsCommitted`, `[]ZenithFeesExact`, `[]AtMostOneWin` | one goroutine, nothing fails |
| `ZenithTradesProofs!RebidOnlyAfterLossHolds` | `RebidOnlyAfterLoss` | the same |
| `ZenithTradesProofs!KeepsPromiseSteps` | `Spec => Promise!Spec`: `ZenithTrades` implements the steps of `ZenithPromise` | the same |
| `ZenithPromiseProofs!AtMostOneWinHolds`, `CommittedWonHolds` | `[]AtMostOneWin`, `[]CommittedWon` of the abstract specification | any requests, any natural `MaxHeight` |
| `AuthzTradesProofs!TypeCorrect` | `[]TypeOK` | all constants that satisfy `AuthzAssumption` |
| `AuthzTradesProofs!CommittedOnlyWhenLandedHolds` | `[]CommittedOnlyWhenLanded` | the same |
| `AuthzTradesProofs!NeverPanicsHolds`, `FeesOfSuccessExactHolds` | `[]NeverPanics`, `[]FeesOfSuccessExact` | one handler at a time; anything may fail |
| `AuthzTradesProofs!CommittedListsItsTxHolds`, `FeesNotDoubledHolds` | `[]CommittedListsItsTx`, `[]FeesNotDoubled` | the same; overlapping handlers break both (section 5, 3, and section 6) |
| `BidAccountingProofs!BooksMatchChainHolds`, `AllOrNothingHolds` | `[]BooksMatchChain`, `[]AllOrNothing` | the same as the next row: any number of messages, pools and payments, any logs left out |
| `BidAccountingProofs!MessagesCoverTheSwapHolds`, `GasCoversMessagesHolds`, `PaymentsWithinBidHolds` | `[]MessagesCoverTheSwap`, `[]GasCoversMessages`, `[]PaymentsWithinBid` | any natural amounts, wallet, percentages and allocations, any gas and fees, `MaxMsgs` above 5 |
| `BlockFeedProofs!TypeCorrect` | `[]FeedTypeOK` | all constants that satisfy the module's assumption: any subscribers, window, reconnections and lag |
| `BlockFeedProofs!AverageIsOfSamplesHolds`, `NeverBeforeItsBlockHolds`, `SampledNeverPanicsHolds` | `[]AverageIsOfSamples`, `[]NeverBeforeItsBlock`, `[]SampledNeverPanics` | the same |
| `BlockFeedProofs!EveryBlockIsNotifiedHolds` | `[]EveryBlockIsNotified` | the same, if each block waits for the last one's subscribers (`BlocksWait`) |
| `ZenithBlocksProofs!NextAuctionsListedHolds`, `SerialPastRemovedHolds` | `[]NextAuctionsListed`, `[]SerialPastRemoved` | any handlers, heights, look-ahead, horizon, auctions and failing queries |
| `AuthzGrantProofs!NeverAheadHolds`, `RoundRobinHolds`, `SerialInRangeHolds` | `[]NeverAhead`, `[]RoundRobin`, `[]SerialInRange` of `EndpointRotation` | finitely many callers, any non-empty list of nodes |
| `AuthzGrantProofs!RotationImplemented` | `GrantSpec => Spec` of `EndpointRotation`, whose theorems so hold of the composition | the same, any grants, addresses and granters |
| `AuthzGrantProofs!GrantTypeCorrect`, `TokenRestsOnLandedGrantHolds` | `[]GrantTypeOK`, `[]TokenRestsOnLandedGrant` | the same |
| `AuthzGrantProofs!StrandedForeverHolds` | `StrandedForever` | the same |
| `RateLimitProofs!LimitKeptHolds`, `BlockedOnlyAtLimitHolds` | `[]LimitKept`, `BlockedOnlyAtLimit` | any connections, any limit above one, any pause |

### 4.1 What is assumed

The assumptions on constants give types, say that the sentinel `NoRequest` is not
a request, that callers are finitely many (they are counted) and that a limit
admits a request at all; every instance that TLC runs is tested
against them.

Some theorems have a hypothesis in their statement. Each assumes only what its
proof uses and is satisfied by the instance of a passing run:

- `OneGoroutine` (`ZenithTrades`) and `OneHandler` (`AuthzTrades`): the set of
  goroutines has one element, so a notification is handled before the next one
  is. The code does not enforce it; it holds as long as the subscribers are
  faster than the chain. That it is necessary is shown by the runs
  `zenithtrades_overlapping_bids` and `authztrades_empty_set` and by
  `MCAuthzTrades_double_fees`. The theorems thus say what the missing lock or
  the missing wait would buy.
- `~RpcMayFail` (`CommitIsStable`): `MCZenithTrades_uncommit` shows one failed
  lookup taking a commit back.
- `Reliable`, which is `~RpcMayFail`, `~FeedMayGap` and `~ReplyMayBeLost`:
  `MCZenithTrades_missed_block` and `_lost_reply` drop the second and the third. The
  first is dropped by the cfg of `_lost_reply` with `ReplyMayBeLost = FALSE`,
  `RpcMayFail = TRUE`, `AuctionHeights = {2, 4}` and `MaxHeight = 5`: TLC finds
  `RebidOnlyAfterLoss` violated there too, by a won bid whose lookup fails.
- `BlocksWait` (`EveryBlockIsNotified`): the next block is processed when the last
  one's subscribers are done, as in the behaviours of `blockfeed_feed` without
  overlap. The code does not enforce it; `MCBlockFeed_shared_height` drops it.
- `MaxMsgs > 5` (`BidAccounting`): a bid has at most five routes, so that with 25
  messages per TX `BuildArbitrageSwap` is never cut off before the swap is covered.

### 4.2 The arguments

*ZenithTrades, any environment.* `CommittedHasEvidence` is not inductive: a
goroutine that found TXs commits a set that another goroutine may have rebid
meanwhile. `IInv` adds `LocalsOK`: what a goroutine looks for or has found belongs
to the request it is working on, was placed, and (what it has found) is on chain;
a goroutine that waits for a reply, or is about to record the TXs, has its bid at
Zenith. The chain and the bids only grow, so no step of another goroutine can
spoil that. `LocalStep` and `StoreStep` state once what a step must keep if it
changes only a goroutine, or also a set; each action's lemma then shows that its
new locals and its new set fit.

*ZenithTrades, one goroutine.* A lemma per action (`...Effect`) says what it does to
the fields that the invariants read; three invariants are then built on each
other, each with the hypotheses it needs:

1. `InStepInv` (whatever fails): a goroutine at work has the height of the last
   notification, no set is ahead of it, a set is bid or searched for only while
   it is not committed, and a committed set lists a TX except while they are
   being recorded. The empty list is thus never indexed.
2. `SeesAllInv` (nodes answer): the TXs of a committed set are on chain, and while
   they are looked up again one is left to look up or one was found. So the
   repeated search of a committed set never comes back empty.
3. `TrackedInv` (nothing fails): of a request's bids all but one (`Open`) are lost,
   and that one is the recorded one, with its TXs; what was won in a block that
   this request was already treated for is committed; the progress of a search
   tells whether the bid won; the fees are those of the winner. `SeenUpTo` and
   `Behind` say which block counts as looked at while the goroutine is half way
   through the queue: bidding for height `h` comes before the search of the block
   `h`, and this order is where a careless invariant breaks. `OnChainIsKnown` is
   about the chain alone: both TXs of a bid are included or neither.

`KeepsPromiseSteps` is step simulation from `TrackedInv`: `PlaceBid`, `ProduceBlock` and
`CommitFound` map to the events of `ZenithPromise`, everything else to a stutter;
a bid is only placed after the earlier ones were lost
(`PlacedAfterLoss`), and a commit is only entered for a winner.

*ZenithStatus.* A step is either the reader's, which writes no set, or one of
`ZenithTrades`, so `IInv` carries over. What is added is that a recorded bid may
be replaced and is never forgotten (`Kept`, shown action by action), that a set
is only searched for with a bid (`BidKnown`), and hence that what the reader
took for not waiting still has a bid when it is read last (`ReadBid`).
`TracksPlacedBids` then says that it was placed.

*AuthzTrades, any handlers.* The danger is the comparison `0 = 0` of a handler that
reads a cleared `TradeTxs`. `SetsOK` says that `TradeTxs` is empty only in a set
that is committed already, `RecordedAreCommitted` that a handler that clears and
refills works on such a set, `LocalsOK` that a positive count of TXs found means
that the TX is on chain. A commit by a handler that found nothing therefore finds
the set committed.

*AuthzTrades, one handler.* `SerialInv` follows the one TX and its fee through the
statements that take them out of the set and enter them again: at each of them it
says which of the set and the handler's locals holds the TX and which holds the
fee (`OneTx`), and that a set no handler is recording has its TX and, once
committed, its fee (`Settled`). `LandsOnce` makes the result of a TX final.

*ZenithPromise.* `AtMostOneWin` follows from `OneOpenAuction` (of two bids of a
request one is lost) and `WonIsPast` (what is won is in a block already, so that
a lost auction stays lost).

*BidAccounting.* `SplitFits`: every message takes between one unit and the whole
wallet, what is entered and what remains add up to the swap, all messages but the
last take the whole wallet, and when nothing remains there are as many as
`EstimateArbGas` assumed before the split. This is where truncation and the cap on
routes meet: `EstimatedMsgs` is bounded by five from the estimate not being
refused, so the loop ends before `MaxMsgs` does. `PaymentsFit`: each payment is the
truncated share of an allocation, the allocations of a bid that is placed sum up
to 100, and truncated shares of 100 percent sum up to no more than the whole.

*BidAccounting, the books.* The lemmas go up the parser layer by layer. `SwapTold`
is what a reader should take from a swap's `token_swapped` event: `AttributesFound`
shows that the first `tokens_in` and the last `tokens_out` are its coins before the
first and after the last pool, whatever the number of pools, and `SwapParsed` that
the parser gets them from the log of that message, or nothing if the log is missing
(`NothingParsed`). `SwapsRead` and `TxRead` are the induction over the messages of a
TX that swaps first and sends then: after `i` messages whose logs are there the
parser has the first `i` swaps, and then the sends, which need no log; `TxGivenUp`
says that one missing log of a swap is enough to give up. From them follows what is
read of each of the three TXs (`UserTxBooked`, `ArbTxBooked`, `AuthzTxBooked`). `ChainInv`
is the inductive invariant: what is on chain are the TXs of the bid or of the authz
swap, with a gain that is the result less what was put in, and the books are a
function of the codes of the TXs and of the numbers of logs that were returned for
those entered so far (`ZenithBooks`, `AuthzBooks`). It needs `AccountingInv`, which
says that messages with a swap go through at least one pool. `EntriesTell` reads
the user's swap, the arbitrage swaps and the profit off the books, and `BooksTell`
is what both theorems follow from.

*BlockFeed.* The samples are natural numbers and no more than the window; the
average of some numbers, truncated, lies between two of them (`AverageIsBetween`,
from bounds of the sum). `HandedOver` keeps the
heights handed over within the chain. A node may send old headers again, so heights
of later goroutines need not be larger; what holds is that `lastHeight` is the
block of the last goroutine (`NotifyInv`), so that a goroutine is told its own
block or that of one started after it. If blocks wait, `NotifiedInv` says that a
goroutine with subscribers left to call is one of the last height, so that each of
its calls hands on its own block.

*Sums.* `Total` is a recursive function over the positions of a sequence. Facts about
it need induction over the natural numbers, and the library's induction theorem
takes an operator as a parameter. `BidAccountingProofs` and `BlockFeedProofs`
therefore state induction for a *set* of numbers (`EveryNat`, from `WFMin` and the
well-foundedness of `<`), prove with it that the recursive function exists
(`SumsExist`), and then what they need of sums. `MessagesParsed` is treated alike
(`ParseExists`).

*ZenithBlocks.* `AheadInv`: as long as an auction is ahead of the chain nothing
else is recorded of its height, and for every block whose handler should ask for
it, it is recorded or that handler has not passed it. A late handler deletes only
what its own block has passed, which is not ahead. `SerialInv`: a single handler
is that of the last block, and it stores at that height or later.

*EndpointRotation.* `IndexInv` counts the callers between `Pick` and the write of
the index: together with the index they never exceed the endpoints given out.
`SerialInv` says where the index is relative to the last endpoint while at most
one caller is under way. The proofs are the first part of `AuthzGrantProofs`.

*AuthzGrant.* `StepImplements` maps every step to one of `EndpointRotation` or to
a stutter. `TokenInv`: who checks a grant has found it in a block of some node, and
nodes only have blocks of the chain, which keeps them. `StrandedForever` is a step
property: nodes keep what they have seen, and one that has seen a grant refuses it,
so that once all have, the way to `await` is closed.

*RateLimit.* `KnownInv`: only a client that has an entry has requests under way.
`SerialInv` follows one request from its read to its decision: at each step it says
how the count, or the value that was read of it, is related to the requests let
through since the last pause. At the limit both theorems read off the same
equation: a request is let through below it and blocked only at it.

### 4.3 Only model-checked

- Liveness, which is beyond the prover: `WonIsSettled`, `LandedIsSummarised`,
  `AllSubscribersCalled`, `EveryRequestAnswered`, and the fairness of
  `KeepsPromise`, whose steps are proved.
- The properties of the configurations of section 6, which are there to fail.

No module declares a `RECURSIVE` operator.

## 5. Findings of the indexed runs

1. **Two overlapping notifications bid one request twice**
   (`api/track_arbitrage.go:109`). Lines 105-107 allow a new bid only if the TXs
   were never submitted or did not win. Both goroutines test before either
   records, and Zenith holds bids of two blocks.
2. **Revenue is never recorded** (`api/track_arbitrage.go:539`).
   `TotalArbitrageRevenue.Add(profit)` returns the sum, which is dropped, so a
   successful arbitrage is summarised with no revenue and the user's share is
   never sent. The same holds for lines 359 and 416.
3. **A committed authz set ends up empty** (`api/track_arbitrage.go:324`). A
   handler reads `TradeTxs` after another one cleared it, searches for nothing,
   finds as many, clears it again. The next summary indexes `TradeTxs[0]` in a
   goroutine without `recover`, and the process ends (`Panic` in the model).

## 6. More that the models show

These configurations are kept beside the indexed runs. In each of them TLC finds
the named property violated:

| Configuration | Property | Why |
|---|---|---|
| `MCZenithTrades_missed_block` | `RebidOnlyAfterLoss` | the feed skips the auctioned block; a won request is bid again before it is searched for |
| `MCZenithTrades_lost_reply` | `RebidOnlyAfterLoss` | Zenith took a bid whose reply was lost |
| `MCZenithTrades_uncommit` | `CommitIsStable` | one failed lookup takes a commit back (`track_arbitrage.go:493`) |
| `MCZenithTrades_partial` | `CommittedTracksAllTxs` | nothing fails, but the block comes between the lookups of the two TXs of a bid; the set is committed with the one looked up after it (`:501`) |
| `MCZenithTrades_authz_blocks` | `EveryRequestIsOffered` | the `Range` callback returns false at an authz set (`:153`) |
| `MCZenithStatus_fails` | `StatusNeverFails` | `TradeTxs` is cleared between the test of its length and the index (`status.go:82`); the client gets a 500 |
| `MCZenithStatus_consistent` | `StatusIsConsistent` | one answer says that a request waits for a block and is committed (`status.go:115`) |
| `MCAuthzTrades_double_fees` | `FeesNotDoubled` | two handlers add the same fee (`:341`) |
| `MCAuthzTrades_no_share` | `InitiatedMeansSent` | "We sent the user profit share TX" (`types.go:26`) is set and nothing is sent |
| `MCAuthzTrades_same_sequence` | `TrackedWasAccepted` | the node refuses the second TX with one sequence; the code of the answer is not looked at (`authz.go:94`) |
| `MCAuthzGrant_token` | `TokenNamesGranter` | "Verifies a user's identity" (`jwt.go:33`): the token is signed for the address in the request (`:153`), which is never compared with the granter |
| `MCAuthzGrant_token` | `TokenForSucceededGrant` | "valid" (`jwt.go:33`): the code of the TX in its block is not looked at, so that a grant that failed earns a token |
| `MCAuthzGrant_second_node` | `SecondNodeDiffers` | "Try a different RPC endpoint" (`jwt.go:86`): others have moved the rotation round to the same node |
| `MCBlockFeed_shared_height` | `EveryBlockIsNotified` | the goroutine reads the captured `lastHeight` (`track_blocks.go:64`) |
| `MCZenithBlocks_stale` | `PastBlocksRemoved` | an older handler stores what a newer one has removed |
| `MCZenithBlocks_error` | `ErrorsAreRequeried` | an unrecognised status is stored (`track_auctions.go:68`) |
| `MCBidAccounting_guarantee` | `ProfitIsGuaranteed` | on chain each message accepts its own input as minimum output (`builder.go:63`) |
| `MCBidAccounting_payable` | `PlacedIsPayable` | a small fee is truncated to a payment of nothing, which no node accepts (`bid.go:228`) |
| `MCBidAccounting_failed_fees` | `FailedTxFeesBooked` | "TX fees are taken whether or not the TX succeeded" (`track_arbitrage.go:337`), but the parser leaves a failed TX before its fee payer (`parser.go:126`) |
| `MCBidAccounting_authz_gas` | `AuthzGasCoversMessages` | the gas of an authz swap does not depend on the number of messages it is split into (`authz.go:167`) |
| `MCRateLimit_stale_count` | `CountIsEarned` | a connection reads the count (`auth.go:48`), another one resets it after the pause, and the first writes its stale sum over the reset: the client is blocked for another hour after one request |

TLC stops at the first property it finds violated; of the two of
`MCAuthzGrant_token` each fails on its own as well.

Read off the code while modelling, and visible without a model:
`GetApiRpcSearchTxEndpoint` (`config/config.go:91`) splits the list of the submit
nodes and moves their index; the loop of `track_auctions.go:55` asks for five
heights, the present one among them, where line 40 says ten; a blocked client is
told minutes computed from 10 while it is blocked for 60 (`auth.go:55`, `:61`); a
two-pool arbitrage that the wallet must split in three is refused as one of too
many routes (`builder.go:96`); the share TX is signed with no gas.

## 7. Not modelled, and why

- **Status of an authz swap** (`convertToAuthzStatus`): every field is read once
  and none is indexed; what can be said of its commit is `CommittedOnlyWhenLanded`.
- **Validation of tokens** (`ValidateToken` and the checks of a request's
  fields): functions of one request without shared state.
- **TX client, signing**: calls into the Cosmos SDK. The account sequence, the
  lookups and their timeouts and the code of a broadcast are in the models of
  their callers.
- **Router, CORS, codec, configuration, simulator types, id generation**: wiring
  and data. That a request's panic is recovered is in `EndpointRotation`.
- **The websocket getter** of the rotation: called once, at start.
- **Restarts**: the service persists nothing, so after a crash it starts from
  `Init` with nothing to recover; what it forgets is not found again.
- **Several denominations, block times and expirations in milliseconds**: one
  denomination (two in `BidAccounting`, to tell an arbitrage), time in blocks.
- **Coins that do not parse and messages of other types** in a TX: the service
  looks up its own TXs only.
- **Headers out of order in the trades.** `ZenithTrades` and `AuthzTrades` take the
  feed as heights that advance, with gaps; that a reconnection may send a block
  again is in `BlockFeed` only, and what its goroutine would do again in the
  trades is not.
- **Fractional and negative allocations** of an auction: percentages are whole
  here. A negative one would panic in `NewCoin` (`bid.go:227`).
- **Gas of the payments**: the estimate of a bid is for its swaps, and so is
  `GasCoversMessages`; the `MsgSend`s of the same TX are counted by neither.
- **Memory growth of the queue** (the deletes are commented out) and torn reads.

## 8. Plan

1. *Done:* the modules of section 2 and the theorems of section 4: every safety
   property of the passing runs, and the steps of the refinement.
2. *Next theorems:* what a repair of a finding would buy, as `BlocksWait` does for
   the feed: a second lookup that asks a node other than the first (`SecondNodeDiffers`),
   and gas by the number of messages (`AuthzGasCoversMessages`).
3. *Composition:* `BlockFeed` with `ZenithTrades`, so that the heights that
   subscribers see are those the captured variable has, and `ZenithBlocks` as the
   source of the auctions on offer. Both are larger than the runs above by the
   product of their goroutines' states and need a coarser feed first.
