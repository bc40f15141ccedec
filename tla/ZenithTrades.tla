---------------------------- MODULE ZenithTrades ----------------------------
(***************************************************************************)
(* The life of a Zenith request: queued by the REST API, offered to every  *)
(* auction until a bid is placed, searched for on chain at every new       *)
(* block, committed, checked again and summarised                          *)
(* (api/track_arbitrage.go).                                               *)
(*                                                                         *)
(* A step is the code between two blocking calls (RPC, HTTP) of one        *)
(* block-notification goroutine; where it leaves a set half updated for    *)
(* others to see (a bid without its TXs, a commit without its TXs) it is   *)
(* two steps.  Go runs one such goroutine per block                        *)
(* (osmosis/track_blocks.go), so several may be in flight: Workers bounds  *)
(* how many.  The chain, the Zenith service and the block feed are the     *)
(* environment; RpcMayFail, FeedMayGap and ReplyMayBeLost say what goes    *)
(* wrong in it.  Time is counted in blocks: a request expires after the    *)
(* block Expiration[r].                                                    *)
(***************************************************************************)
EXTENDS Integers, Sequences, FiniteSets

CONSTANTS
  ZenithRequests,   \* ids of the requests that go through an auction
  AuthzRequests,    \* ids of the authz sets that share the same queue
  NoRequest,        \* no id
  Workers,          \* notification goroutines that may be in flight
  MaxHeight,        \* bound: the last block the chain produces
  Lookahead,        \* heights queried at Zenith per block (5 in the code)
  AuctionHeights,   \* the blocks that Zenith proposers will build
  Expiration,       \* the last block a request may be executed in
  Eligible,         \* requests for which GetZenithBid can build a bid
  EstimatedFees,    \* arbFees: the gas and auction fees of a bid
  ArbProfit,        \* what a successful arbitrage swap earns
  RpcMayFail,       \* a call to an Osmosis node may fail or miss a TX
  FeedMayGap,       \* the websocket may skip blocks
  ReplyMayBeLost    \* Zenith may take a bid whose reply never arrives

Heights == 1..MaxHeight

ASSUME ConstantsAssumption ==
  /\ MaxHeight \in Nat /\ Lookahead \in Nat
  /\ EstimatedFees \in Nat /\ ArbProfit \in Nat
  /\ AuctionHeights \subseteq Heights
  /\ Expiration \in [ZenithRequests -> Nat]
  /\ ZenithRequests \cap AuthzRequests = {}
  /\ NoRequest \notin ZenithRequests
  /\ {RpcMayFail, FeedMayGap, ReplyMayBeLost} \subseteq BOOLEAN

(***************************************************************************)
(* Transactions.  Every bid of a request carries the same signed user      *)
(* swap, and an arbitrage TX that the hot wallet signs for that bid.       *)
(***************************************************************************)
Txs == ZenithRequests \X (0..MaxHeight)
UserTx(r) == <<r, 0>>
ArbTx(r, h) == <<r, h>>
TxsOf(r) == {r} \X (0..MaxHeight)
BidTxs(r, h) == <<UserTx(r), ArbTx(r, h)>>
Listed(txs) == {txs[i] : i \in DOMAIN txs}

VARIABLES
  chainHeight,  \* the chain's height
  onChain,      \* TXs included in a block
  succeeded,    \* those that were included with code 0
  bids,         \* <<r, h>>: Zenith holds a bid of r for block h
  lastHeight,   \* ProcessNewBlock's lastHeight, shared by its goroutines
  txqueue,      \* keys of the sync.Map
  trade,        \* the ZenithArbitrageTxSet of each request
  worker        \* the notification goroutines

env == <<chainHeight, onChain, succeeded, bids>>
vars == <<chainHeight, onChain, succeeded, bids, lastHeight, txqueue, trade, worker>>

(***************************************************************************)
(* The tracked set.  A nil SubmittedAuctionBid is height 0; coins are      *)
(* amounts of the single denomination in use.  ErrorPlacingBid is left     *)
(* out: it only adds a remark to the answer of GET /status.                *)
(***************************************************************************)
ZenithTxSet ==
  [bid : 0..MaxHeight, lastChainHeight : 0..MaxHeight, committed : BOOLEAN,
   tradeTxs : Seq(Txs), userFees : Nat, hotFees : Nat, zenithFees : Nat, revenue : Nat,
   profit : Int, initiated : BOOLEAN, shareSent : BOOLEAN, shareCommitted : BOOLEAN]

NewZenithTxSet ==
  [bid |-> 0, lastChainHeight |-> 0, committed |-> FALSE,
   tradeTxs |-> <<>>, userFees |-> 0, hotFees |-> 0, zenithFees |-> 0, revenue |-> 0,
   profit |-> 0, initiated |-> FALSE, shareSent |-> FALSE, shareCommitted |-> FALSE]

\* Mutants of the next definition: > turned into >=, and the height ignored.
AwaitingAtItsBlock(s) == s.bid = 0 \/ (s.lastChainHeight >= s.bid /\ ~s.committed)
AwaitingUnlessCommitted(s) == s.bid = 0 \/ ~s.committed

IsAwaitingZenithBlock(s) ==
  s.bid = 0 \/ (s.lastChainHeight > s.bid /\ ~s.committed)

(***************************************************************************)
(* A notification goroutine: what it is doing, the height its current      *)
(* subscriber was called with, and that subscriber's local variables.      *)
(***************************************************************************)
Stages == {"idle", "execute", "auctions", "offer", "sign", "reply", "update",
           "parse", "recheck", "dispatch", "search", "record", "panicked", "exited"}

Worker ==
  [pc : Stages, height : 0..MaxHeight, blocks : SUBSET Heights,
   block : 0..MaxHeight, todo : SUBSET (ZenithRequests \cup AuthzRequests),
   req : ZenithRequests \cup {NoRequest}, sought : Seq(Txs), found : Seq(Txs)]

IdleWorker ==
  [pc |-> "idle", height |-> 0, blocks |-> {}, block |-> 0, todo |-> {},
   req |-> NoRequest, sought |-> <<>>, found |-> <<>>]

Init ==
  /\ chainHeight = 0 /\ onChain = {} /\ succeeded = {} /\ bids = {}
  /\ lastHeight = 0
  /\ txqueue = {}
  /\ trade = [r \in ZenithRequests |-> NewZenithTxSet]
  /\ worker = [w \in Workers |-> IdleWorker]

Become(w, me) == worker' = [worker EXCEPT ![w] = me]
Store(r, s) == trade' = [trade EXCEPT ![r] = s]

\* Nothing recovers a panic in a goroutine, and a logger's Fatal exits: either
\* way the process is gone.
running == \A w \in Workers : worker[w].pc \notin {"panicked", "exited"}

(***************************************************************************)
(* The REST API.                                                           *)
(***************************************************************************)
QueueZenith(r) ==
  /\ running /\ r \notin txqueue
  /\ Expiration[r] >= chainHeight
  /\ txqueue' = txqueue \cup {r}
  /\ UNCHANGED <<env, lastHeight, trade, worker>>

AddAuthzTxSet(a) ==
  /\ running /\ a \notin txqueue
  /\ txqueue' = txqueue \cup {a}
  /\ UNCHANGED <<env, lastHeight, trade, worker>>

(***************************************************************************)
(* The environment.  The proposer of an auctioned block includes the TXs   *)
(* of the bids that won; each of them succeeds or fails.                   *)
(***************************************************************************)
Included(winners) == (UNION {Listed(BidTxs(r, chainHeight + 1)) : r \in winners}) \ onChain

ProduceBlock ==
  /\ chainHeight < MaxHeight
  /\ chainHeight' = chainHeight + 1
  /\ \E winners \in SUBSET {r \in ZenithRequests : <<r, chainHeight + 1>> \in bids} :
       /\ onChain' = onChain \cup Included(winners)
       /\ \E ok \in SUBSET Included(winners) : succeeded' = succeeded \cup ok
  /\ UNCHANGED <<bids, lastHeight, txqueue, trade, worker>>

ReceiveBlock(w) ==
  /\ running /\ worker[w].pc = "idle"
  /\ \E h \in (lastHeight + 1)..chainHeight :
       /\ FeedMayGap \/ h = lastHeight + 1
       /\ lastHeight' = h
  /\ Become(w, [worker[w] EXCEPT !.pc = "execute"])
  /\ UNCHANGED <<env, txqueue, trade>>

(***************************************************************************)
(* ExecuteQueuedZenith.  The queue never shrinks: the deletes at the end   *)
(* of the function are commented out.                                      *)
(***************************************************************************)
Expired(r, h) == Expiration[r] < h

\* GetZenithBlocks answers with the future auctions found so far; failing to
\* open the TX client has the effect of finding none.
StartExecute(w) ==
  /\ worker[w].pc = "execute"
  /\ \E found \in SUBSET (AuctionHeights \cap ((lastHeight + 1)..(lastHeight + Lookahead - 1))) :
       Become(w, [worker[w] EXCEPT !.pc = "auctions", !.height = lastHeight,
                                   !.blocks = found])
  /\ UNCHANGED <<env, lastHeight, txqueue, trade>>

OfferToAuction(w) ==
  /\ worker[w].pc = "auctions"
  /\ \E b \in worker[w].blocks :
       Become(w, [worker[w] EXCEPT !.pc = "offer", !.block = b, !.todo = txqueue,
                                   !.blocks = @ \ {b}])
  /\ UNCHANGED <<env, lastHeight, txqueue, trade>>

LeaveRange(w) ==
  Become(w, [worker[w] EXCEPT !.pc = "auctions", !.block = 0, !.todo = {},
                              !.req = NoRequest])

\* The callback returns false for a value that is not a Zenith set.
StopAtAuthz(w) ==
  /\ worker[w].pc = "offer"
  /\ \E a \in AuthzRequests : a \in worker[w].todo
  /\ LeaveRange(w)
  /\ UNCHANGED <<env, lastHeight, txqueue, trade>>

EndRange(w) ==
  /\ worker[w].pc = "offer" /\ worker[w].todo = {}
  /\ LeaveRange(w)
  /\ UNCHANGED <<env, lastHeight, txqueue, trade>>

Touched(r, h) == [trade[r] EXCEPT !.lastChainHeight = h]

PassOver(w, r) ==
  /\ worker[w].pc = "offer" /\ r \in worker[w].todo
  /\ \/ ~IsAwaitingZenithBlock(Touched(r, worker[w].height))
     \/ Expired(r, worker[w].block)
  /\ Store(r, Touched(r, worker[w].height))
  /\ Become(w, [worker[w] EXCEPT !.todo = @ \ {r}])
  /\ UNCHANGED <<env, lastHeight, txqueue>>

ChooseToBid(w, r) ==
  /\ worker[w].pc = "offer" /\ r \in worker[w].todo
  /\ IsAwaitingZenithBlock(Touched(r, worker[w].height))
  /\ ~Expired(r, worker[w].block)
  /\ Store(r, Touched(r, worker[w].height))
  /\ Become(w, [worker[w] EXCEPT !.pc = "sign", !.req = r])
  /\ UNCHANGED <<env, lastHeight, txqueue>>

\* GetZenithBid fails; the callback then returns false, whatever is left to visit.
GetZenithBidFails(w) ==
  /\ worker[w].pc = "sign"
  /\ worker[w].req \notin Eligible \/ RpcMayFail
  /\ LeaveRange(w)
  /\ UNCHANGED <<env, lastHeight, txqueue, trade>>

PlaceBid(w) ==
  /\ worker[w].pc = "sign" /\ worker[w].req \in Eligible
  /\ bids' = bids \cup {<<worker[w].req, worker[w].block>>}
  /\ Become(w, [worker[w] EXCEPT !.pc = "reply"])
  /\ UNCHANGED <<chainHeight, onChain, succeeded, lastHeight, txqueue, trade>>

RecordBidError(w) ==
  /\ Store(worker[w].req, [trade[worker[w].req] EXCEPT !.hotFees = EstimatedFees])
  /\ LeaveRange(w)
  /\ UNCHANGED <<env, lastHeight, txqueue>>

\* Mutant: the error of PlaceBid is tested the wrong way round.
BidRefusedRecorded(w) ==
  /\ worker[w].pc = "sign" /\ worker[w].req \in Eligible
  /\ Store(worker[w].req,
           [trade[worker[w].req] EXCEPT !.bid = worker[w].block,
                                        !.tradeTxs = BidTxs(worker[w].req, worker[w].block)])
  /\ LeaveRange(w)
  /\ UNCHANGED <<env, lastHeight, txqueue>>

BidRefused(w) ==
  /\ worker[w].pc = "sign" /\ worker[w].req \in Eligible
  /\ RecordBidError(w)

BidReplyLost(w) ==
  /\ worker[w].pc = "reply" /\ ReplyMayBeLost
  /\ RecordBidError(w)

\* The bid is recorded first, its TXs after it.
BidAccepted(w) ==
  LET r == worker[w].req
  IN  /\ worker[w].pc = "reply"
      /\ Store(r, [trade[r] EXCEPT !.hotFees = EstimatedFees, !.bid = worker[w].block])
      /\ Become(w, [worker[w] EXCEPT !.pc = "update"])
      /\ UNCHANGED <<env, lastHeight, txqueue>>

\* Mutant: a fresh set replaces the old one, its height included.
WithBidTxsAfresh(s, txs) ==
  [NewZenithTxSet EXCEPT !.hotFees = s.hotFees, !.bid = s.bid, !.tradeTxs = txs]

\* Neither Committed nor the Zenith fees are reset.
WithBidTxs(s, txs) ==
  [s EXCEPT !.tradeTxs = txs, !.userFees = 0, !.revenue = 0,
            !.initiated = FALSE, !.shareSent = FALSE, !.shareCommitted = FALSE]

UpdateZenithTxSet(w) ==
  LET r == worker[w].req
  IN  /\ worker[w].pc = "update"
      /\ Store(r, WithBidTxs(trade[r], BidTxs(r, worker[w].block)))
      /\ LeaveRange(w)
      /\ UNCHANGED <<env, lastHeight, txqueue>>

(***************************************************************************)
(* ParseZenithCommittedTxs.                                                *)
(***************************************************************************)
StartParse(w) ==
  /\ worker[w].pc = "auctions" /\ worker[w].blocks = {}
  /\ Become(w, [worker[w] EXCEPT !.pc = "parse", !.height = lastHeight,
                                 !.todo = txqueue \cap ZenithRequests])
  /\ UNCHANGED <<env, lastHeight, txqueue, trade>>

ParseClientError(w) ==
  /\ worker[w].pc = "auctions" /\ worker[w].blocks = {} /\ RpcMayFail
  /\ Become(w, IdleWorker)
  /\ UNCHANGED <<env, lastHeight, txqueue, trade>>

EndParse(w) ==
  /\ worker[w].pc = "parse" /\ worker[w].todo = {}
  /\ Become(w, IdleWorker)
  /\ UNCHANGED <<env, lastHeight, txqueue, trade>>

\* A committed set whose auction is over is looked up once more.
MustRecheck(s) == s.committed /\ s.bid # 0 /\ s.lastChainHeight > s.bid

VisitTrade(w, r) ==
  LET s == Touched(r, worker[w].height)
      recheck == MustRecheck(s) /\ s.tradeTxs # <<>>
  IN  /\ worker[w].pc = "parse" /\ r \in worker[w].todo
      /\ Store(r, [s EXCEPT !.committed = s.committed /\ (MustRecheck(s) => recheck)])
      /\ Become(w, [worker[w] EXCEPT !.pc = IF recheck THEN "recheck" ELSE "dispatch",
                                     !.req = r,
                                     !.sought = IF recheck THEN s.tradeTxs ELSE <<>>])
      /\ UNCHANGED <<env, lastHeight, txqueue>>

\* queryOsmosisTxs looks the TXs up one after the other and gives up on one
\* that is not found at once: AwaitTx sleeps longer than its timeout, so it
\* never asks twice.
LookUp(w) ==
  LET t == Head(worker[w].sought)
  IN  /\ worker[w].pc \in {"recheck", "search"} /\ worker[w].sought # <<>>
      /\ \E hit \in BOOLEAN :
           /\ hit => t \in onChain
           /\ hit \/ RpcMayFail \/ t \notin onChain
           /\ Become(w, [worker[w] EXCEPT !.sought = Tail(@),
                                          !.found = IF hit THEN Append(@, t) ELSE @])
      /\ UNCHANGED <<env, lastHeight, txqueue, trade>>

\* The parser makes a client of its own for each TX that was found, and one
\* that cannot be made ends the process.
ParseFails(w) ==
  /\ worker[w].pc \in {"recheck", "search"} /\ worker[w].sought # <<>> /\ RpcMayFail
  /\ Head(worker[w].sought) \in onChain
  /\ Become(w, [IdleWorker EXCEPT !.pc = "exited"])
  /\ UNCHANGED <<env, lastHeight, txqueue, trade>>

\* Mutant: the test is inverted.
GoneFromChain(found) == found = <<>>

StillOnChain(found) == found # <<>>

RecheckDone(w) ==
  LET r == worker[w].req
  IN  /\ worker[w].pc = "recheck" /\ worker[w].sought = <<>>
      /\ Store(r, [trade[r] EXCEPT !.committed = @ /\ StillOnChain(worker[w].found)])
      /\ Become(w, [worker[w] EXCEPT !.pc = "dispatch", !.found = <<>>])
      /\ UNCHANGED <<env, lastHeight, txqueue>>

NextTrade(w) ==
  Become(w, [worker[w] EXCEPT !.pc = "parse", !.req = NoRequest, !.found = <<>>,
                              !.todo = @ \ {worker[w].req}])

StartSearch(w) ==
  LET s == trade[worker[w].req]
  IN  /\ worker[w].pc = "dispatch" /\ ~s.committed /\ ~IsAwaitingZenithBlock(s)
      /\ Become(w, [worker[w] EXCEPT !.pc = "search", !.sought = s.tradeTxs])
      /\ UNCHANGED <<env, lastHeight, txqueue, trade>>

\* Mutant: what was found is not looked at.
AnyFound(s, found) == s.tradeTxs # <<>>

\* One of the TXs is enough.
EnoughFound(s, found) == s.tradeTxs # <<>> /\ found # <<>>

\* The set is committed and its TXs are forgotten, to be recorded afresh.
CommitFound(w) ==
  LET r == worker[w].req
  IN  /\ worker[w].pc = "search" /\ worker[w].sought = <<>>
      /\ EnoughFound(trade[r], worker[w].found)
      /\ Store(r, [trade[r] EXCEPT !.committed = TRUE, !.tradeTxs = <<>>, !.hotFees = 0])
      /\ Become(w, [worker[w] EXCEPT !.pc = "record"])
      /\ UNCHANGED <<env, lastHeight, txqueue>>

StillWaiting(w) ==
  /\ worker[w].pc = "search" /\ worker[w].sought = <<>>
  /\ ~EnoughFound(trade[worker[w].req], worker[w].found)
  /\ NextTrade(w)
  /\ UNCHANGED <<env, lastHeight, txqueue, trade>>

\* Mutant: Sub for Add.
SubtractRevenue(total, profit) == total - profit

\* Coins.Add returns the sum, which the code discards.
RecordRevenue(total, profit) == total

\* How many entries of found are among txs: each pays its fee of one.
Charge(found, txs) == Cardinality({i \in DOMAIN found : found[i] \in txs})

\* Mutants: failed TXs charged too; failed TXs not kept; nothing kept.
WithFailedTxs(s, r, found) ==
  [s EXCEPT !.tradeTxs = @ \o found, !.zenithFees = @ + Charge(found, Txs \ {UserTx(r)})]
WithSucceededTxs(s, r, found) ==
  [s EXCEPT !.tradeTxs = SelectSeq(found, LAMBDA t : t \in succeeded)]
WithoutTxs(s, r, found) == s

\* The parser reports no fee payer, sends or swaps for a failed TX.
WithTxs(s, r, found) ==
  LET arbs == Charge(found, succeeded \ {UserTx(r)})
  IN  [s EXCEPT !.tradeTxs = @ \o found,
                !.userFees = @ + Charge(found, succeeded \cap {UserTx(r)}),
                !.hotFees = @ + arbs, !.zenithFees = @ + arbs,
                !.revenue = RecordRevenue(@, ArbProfit * arbs)]

RecordFound(w) ==
  LET r == worker[w].req
  IN  /\ worker[w].pc = "record"
      /\ Store(r, WithTxs(trade[r], r, worker[w].found))
      /\ NextTrade(w)
      /\ UNCHANGED <<env, lastHeight, txqueue>>

\* What is left of the revenue after the hot wallet's fees, and whether the
\* share TX is built at all.
HotWalletProfit(s) == s.revenue - s.hotFees - s.zenithFees
HasRevenue(s) == s.revenue # 0 /\ HotWalletProfit(s) >= 0
PaysOut(s) == HasRevenue(s) /\ HotWalletProfit(s) > 0

\* Initiated is set before anything is sent; sending may fail.  The blocking
\* SignSubmitTx between the two is not a step of its own: it is only reached with
\* revenue, of which RecordRevenue never leaves any.
Summarise(w) ==
  LET s == trade[worker[w].req]
  IN  /\ worker[w].pc = "dispatch" /\ s.committed /\ ~s.initiated
      /\ HasRevenue(s) \/ s.tradeTxs # <<>>
      /\ \E sent \in BOOLEAN :
           /\ sent => PaysOut(s)
           /\ Store(worker[w].req, [s EXCEPT !.initiated = TRUE,
                                              !.profit = HotWalletProfit(s),
                                              !.shareSent = sent])
      /\ NextTrade(w)
      /\ UNCHANGED <<env, lastHeight, txqueue>>

\* Without arbitrage the summary prints TradeTxs[0], which may not be there.
Panic(w) ==
  LET s == trade[worker[w].req]
  IN  /\ worker[w].pc = "dispatch" /\ s.committed /\ ~s.initiated
      /\ ~HasRevenue(s) /\ s.tradeTxs = <<>>
      /\ Become(w, [worker[w] EXCEPT !.pc = "panicked"])
      /\ UNCHANGED <<env, lastHeight, txqueue, trade>>

AwaitsShare(s) == s.committed /\ s.initiated /\ s.profit >= 0 /\ ~s.shareCommitted

\* A share that was never sent has no hash, and its lookup fails.
AwaitShare(w) ==
  LET s == trade[worker[w].req]
  IN  /\ worker[w].pc = "dispatch" /\ AwaitsShare(s)
      /\ \E seen \in BOOLEAN :
           /\ seen => s.shareSent
           /\ Store(worker[w].req, [s EXCEPT !.shareCommitted = seen])
      /\ NextTrade(w)
      /\ UNCHANGED <<env, lastHeight, txqueue>>

NothingToDo(w) ==
  LET s == trade[worker[w].req]
  IN  /\ worker[w].pc = "dispatch"
      /\ s.committed \/ IsAwaitingZenithBlock(s)
      /\ s.committed => s.initiated
      /\ ~AwaitsShare(s)
      /\ NextTrade(w)
      /\ UNCHANGED <<env, lastHeight, txqueue, trade>>

(***************************************************************************)
(* The specification.                                                      *)
(***************************************************************************)
Execute(w) ==
  /\ running
  /\ \/ StartExecute(w) \/ OfferToAuction(w) \/ StopAtAuthz(w) \/ EndRange(w)
     \/ \E r \in ZenithRequests : PassOver(w, r) \/ ChooseToBid(w, r)
     \/ GetZenithBidFails(w) \/ PlaceBid(w) \/ BidRefused(w)
     \/ BidReplyLost(w) \/ BidAccepted(w) \/ UpdateZenithTxSet(w)

Parse(w) ==
  /\ running
  /\ \/ StartParse(w) \/ ParseClientError(w) \/ EndParse(w)
     \/ \E r \in ZenithRequests : VisitTrade(w, r)
     \/ LookUp(w) \/ ParseFails(w) \/ RecheckDone(w) \/ StartSearch(w)
     \/ CommitFound(w) \/ RecordFound(w) \/ StillWaiting(w) \/ Summarise(w) \/ Panic(w) \/ AwaitShare(w) \/ NothingToDo(w)

Next ==
  \/ \E r \in ZenithRequests : QueueZenith(r)
  \/ \E a \in AuthzRequests : AddAuthzTxSet(a)
  \/ ProduceBlock
  \/ \E w \in Workers : ReceiveBlock(w) \/ Execute(w) \/ Parse(w)

Spec == Init /\ [][Next]_vars

(***************************************************************************)
(* Properties.                                                             *)
(***************************************************************************)
TypeOK ==
  /\ chainHeight \in 0..MaxHeight
  /\ onChain \subseteq Txs /\ succeeded \subseteq onChain
  /\ bids \subseteq ZenithRequests \X Heights
  /\ lastHeight \in 0..chainHeight
  /\ txqueue \subseteq ZenithRequests \cup AuthzRequests
  /\ trade \in [ZenithRequests -> ZenithTxSet]
  /\ worker \in [Workers -> Worker]

Won(r, h) == <<r, h>> \in bids /\ ArbTx(r, h) \in onChain
Lost(r, h) == chainHeight >= h /\ ~Won(r, h)

\* Committed means "Once the 'TXs' are committed on-chain" (types.go:53): a
\* committed set has a TX of its request in a block, whatever the nodes, the
\* feed and overlapping goroutines do.
CommittedHasEvidence ==
  \A r \in ZenithRequests : trade[r].committed => TxsOf(r) \cap onChain # {}

\* What Zenith was given for r: the user's swap and the arbitrage TX of each bid.
PlacedTxs(r) == {UserTx(r)} \cup {b \in bids : b[1] = r}

\* The set only tracks TXs that Zenith was given, also while goroutines
\* overwrite each other's results (track_arbitrage.go:228, :507).
TracksPlacedBids ==
  \A r \in ZenithRequests :
    /\ trade[r].bid # 0 => <<r, trade[r].bid>> \in bids
    /\ Listed(trade[r].tradeTxs) \subseteq PlacedTxs(r)

\* track_arbitrage.go:105: a request is offered to an auction only if it was
\* never submitted or did not win the auctions it was submitted to.  (A bid
\* whose block is still to come has not lost.)
RebidOnlyAfterLoss ==
  [][\A r \in ZenithRequests, h, g \in Heights :
       (<<r, h>> \in bids' \ bids /\ <<r, g>> \in bids) => Lost(r, g)]_vars

\* Once the TXs are seen on chain the set stays committed: the second look
\* (track_arbitrage.go:485) never takes back a commit of TXs that are there.
CommitIsStable ==
  [][\A r \in ZenithRequests : trade[r].committed => trade'[r].committed]_vars

\* The height that GET /status reports never goes back.
ReportedHeightAdvances ==
  [][\A r \in ZenithRequests : trade[r].lastChainHeight <= trade'[r].lastChainHeight]_vars

\* Between two notifications, the status of a request whose auction was won
\* in a block already notified says so.
WonIsCommitted ==
  (\A w \in Workers : worker[w].pc = "idle") =>
    \A r \in ZenithRequests, h \in 1..lastHeight : Won(r, h) => trade[r].committed

\* Once what was found is recorded, the hot wallet's auction fees are those of
\* its successful TXs: every one is charged, none twice.
ZenithFeesExact ==
  (\A w \in Workers : worker[w].pc # "record") =>
    \A r \in ZenithRequests :
      trade[r].committed =>
        trade[r].zenithFees = Cardinality((TxsOf(r) \ {UserTx(r)}) \cap succeeded)

\* A handler never indexes an empty TradeTxs (track_arbitrage.go:565), which
\* would end the process.
NeverPanics == \A w \in Workers : worker[w].pc # "panicked"

\* TradeTxs "includes user swap, arb swap, zenith payments" (types.go:57):
\* a committed set tracks the user's swap and the arbitrage TX.
CommittedTracksAllTxs ==
  (\A w \in Workers : worker[w].pc # "record") =>
    \A r \in ZenithRequests :
      trade[r].committed =>
        \E h \in Heights : Listed(BidTxs(r, h)) \subseteq Listed(trade[r].tradeTxs)

\* "Total arbitrage revenue (does not include fees)" (types.go:61): the
\* summary of a set whose arbitrage swap succeeded has its revenue.
RevenueIsRecorded ==
  \A r \in ZenithRequests :
    (trade[r].initiated /\ (Listed(trade[r].tradeTxs) \ {UserTx(r)}) \cap succeeded # {})
      => trade[r].revenue > 0

\* track_arbitrage.go:105 again: when the visit of the queue for an auction
\* ends, no request that should be submitted to it is left unvisited.
EveryRequestIsOffered ==
  [][\A w \in Workers :
       (worker[w].pc = "offer" /\ worker'[w].pc = "auctions") =>
         \A r \in ZenithRequests \cap worker[w].todo :
           \/ ~IsAwaitingZenithBlock(Touched(r, worker[w].height))
           \/ Expired(r, worker[w].block)]_vars

\* The feed delivers every block and a notification goroutine runs to its
\* end: Go schedules it, and every call it makes is assumed to return.
Fairness ==
  /\ WF_vars(ProduceBlock)
  /\ \A w \in Workers : WF_vars(ReceiveBlock(w)) /\ WF_vars(Execute(w) \/ Parse(w))

FairSpec == Spec /\ Fairness

\* A request whose auction was won is eventually summarised (its share is
\* due), if a block follows the one it was won in.
WonIsSettled ==
  \A r \in ZenithRequests, h \in 1..(MaxHeight - 1) :
    Won(r, h) ~> (trade[r].committed /\ trade[r].initiated)

\* When goroutines do not overlap and nothing fails, the program keeps the
\* promise of ZenithPromise (api/track_arbitrage.go:105): a bid of r is won
\* when its arbitrage TX is in a block.
Promise == INSTANCE ZenithPromise WITH
  Requests <- ZenithRequests,
  height <- chainHeight,
  won <- bids \cap onChain,
  committed <- {r \in ZenithRequests : trade[r].committed}

KeepsPromise == Promise!LiveSpec

\* A user's swap is executed once: no request wins two auctions.
AtMostOneWin == Promise!AtMostOneWin
=============================================================================
