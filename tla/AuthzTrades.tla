---------------------------- MODULE AuthzTrades -----------------------------
(***************************************************************************)
(* The life of an authz swap: signed by the hot wallet, submitted, tracked *)
(* (api/endpoints/authz.go), looked up on chain at every new block and     *)
(* summarised (AuthzBlockNotificationHandler, api/track_arbitrage.go).     *)
(*                                                                         *)
(* The handlers share each set through a pointer, without a lock, and Go   *)
(* runs one handler per block, several at a time.  A step is here one      *)
(* access to a shared field, so that every interleaving of their           *)
(* statements is a behaviour.  (A torn read of a slice header is left out: *)
(* a read sees the whole old or the whole new slice.)                      *)
(*                                                                         *)
(* SwapAuthz submits exactly one TX per request: TradeTxs is the number of *)
(* its entries, each of which is that TX, and its fee is the unit of fees. *)
(***************************************************************************)
EXTENDS Integers, FiniteSets

CONSTANTS
  AuthzRequests,   \* POST /secured/authz
  NoRequest,       \* no request
  Workers,         \* notification goroutines that may be in flight
  MaxHeight,       \* bound: the last block the chain produces
  ArbProfit,       \* what a successful arbitrage swap earns
  RpcMayFail       \* a call to a node may fail, and a lookup miss a TX

ASSUME AuthzAssumption ==
  /\ MaxHeight \in Nat /\ ArbProfit \in Nat
  /\ NoRequest \notin AuthzRequests
  /\ RpcMayFail \in BOOLEAN

VARIABLES
  chainHeight,   \* the chain's height
  sequence,      \* the hot wallet's account sequence in the last block
  mempool,       \* TXs the node accepted that are not in a block yet
  onChain,       \* TXs included in a block
  succeeded,     \* those included with code 0
  api,           \* what each SwapAuthz call is doing
  signed,        \* the sequence a request's TX was signed with
  lastHeight,    \* ProcessNewBlock's lastHeight
  txqueue,       \* requests in the sync.Map
  trade,         \* the AuthzArbitrageTxSet of each request
  worker,        \* the notification goroutines
  process        \* "up" until a goroutine panics or a logger's Fatal exits

env == <<chainHeight, sequence, mempool, onChain, succeeded>>
vars == <<chainHeight, sequence, mempool, onChain, succeeded, api, signed, lastHeight,
          txqueue, trade, worker, process>>

running == process = "up"

AuthzTxSet ==
  [committed : BOOLEAN, tradeTxs : Nat, hotFees : Nat, revenue : Nat,
   initiated : BOOLEAN, shareSent : BOOLEAN, shareCommitted : BOOLEAN]

NewAuthzTxSet ==
  [committed |-> FALSE, tradeTxs |-> 1, hotFees |-> 0, revenue |-> 0,
   initiated |-> FALSE, shareSent |-> FALSE, shareCommitted |-> FALSE]

ApiStages == {"new", "signed", "answered", "tracked", "refused"}

Stages == {"idle", "range", "read", "lookup", "compare", "clearTxs", "clearFees",
           "readFees", "writeFees", "readTxs", "writeTxs", "initiate", "summary", "share"}

Worker ==
  [pc : Stages, todo : SUBSET AuthzRequests, req : AuthzRequests \cup {NoRequest},
   sought : Nat, found : Nat, read : Nat]

IdleWorker ==
  [pc |-> "idle", todo |-> {}, req |-> NoRequest, sought |-> 0, found |-> 0, read |-> 0]

Init ==
  /\ chainHeight = 0 /\ sequence = 0 /\ mempool = {} /\ onChain = {} /\ succeeded = {}
  /\ api = [a \in AuthzRequests |-> "new"]
  /\ signed = [a \in AuthzRequests |-> 0]
  /\ lastHeight = 0
  /\ txqueue = {}
  /\ trade = [a \in AuthzRequests |-> NewAuthzTxSet]
  /\ worker = [w \in Workers |-> IdleWorker]
  /\ process = "up"

(***************************************************************************)
(* SwapAuthz.  The TX is signed with the account sequence the node         *)
(* reports, that of the last block.  The node takes a TX into its mempool  *)
(* only with the sequence that follows what the mempool already holds, and *)
(* BroadcastTxSync reports a refusal in the response's code, not as an     *)
(* error.                                                                  *)
(***************************************************************************)
ApiStep(a, stage) == api' = [api EXCEPT ![a] = stage]
server == <<lastHeight, txqueue, trade, worker, process>>

SignSwap(a) ==
  /\ running /\ api[a] = "new"
  /\ ApiStep(a, "signed")
  /\ signed' = [signed EXCEPT ![a] = sequence]
  /\ UNCHANGED <<env, server>>

TakesTx(a) == signed[a] = sequence + Cardinality(mempool)

\* submitTx: the node's answer, whatever its code, goes on to tracking.
SubmitSwap(a) ==
  /\ running /\ api[a] = "signed"
  /\ ApiStep(a, "answered")
  /\ mempool' = IF TakesTx(a) THEN mempool \cup {a} ELSE mempool
  /\ UNCHANGED <<chainHeight, sequence, onChain, succeeded, signed, server>>

\* The call fails, before or after the node took the TX: the client gets an
\* error and nothing is tracked.
SubmitFails(a) ==
  /\ running /\ RpcMayFail /\ api[a] = "signed"
  /\ ApiStep(a, "refused")
  /\ \E reached \in BOOLEAN :
       mempool' = IF reached /\ TakesTx(a) THEN mempool \cup {a} ELSE mempool
  /\ UNCHANGED <<chainHeight, sequence, onChain, succeeded, signed, server>>

AddAuthzTxSet(a) ==
  /\ running /\ api[a] = "answered"
  /\ ApiStep(a, "tracked")
  /\ txqueue' = txqueue \cup {a}
  /\ UNCHANGED <<env, signed, lastHeight, trade, worker, process>>

(***************************************************************************)
(* The chain: a block takes TXs in the order of their sequences.           *)
(***************************************************************************)
ProduceBlock ==
  /\ chainHeight < MaxHeight
  /\ chainHeight' = chainHeight + 1
  /\ \E n \in 0..Cardinality(mempool) :
       LET block == {a \in mempool : signed[a] < sequence + n}
       IN  /\ sequence' = sequence + n
           /\ mempool' = mempool \ block
           /\ onChain' = onChain \cup block
           /\ \E ok \in SUBSET block : succeeded' = succeeded \cup ok
  /\ UNCHANGED <<api, signed, server>>

(***************************************************************************)
(* AuthzBlockNotificationHandler.                                          *)
(***************************************************************************)
Become(w, me) == worker' = [worker EXCEPT ![w] = me]
Store(a, s) == trade' = [trade EXCEPT ![a] = s]
Goto(w, stage) == Become(w, [worker[w] EXCEPT !.pc = stage])
elsewhere == <<env, api, signed, lastHeight, txqueue, process>>

\* Creating the search client may fail; the subscriber then does nothing.
ReceiveBlock(w) ==
  /\ running /\ worker[w].pc = "idle" /\ lastHeight < chainHeight
  /\ lastHeight' = lastHeight + 1
  /\ \/ Become(w, [worker[w] EXCEPT !.pc = "range", !.todo = txqueue])
     \/ RpcMayFail /\ UNCHANGED worker
  /\ UNCHANGED <<env, api, signed, txqueue, trade, process>>

EndRange(w) ==
  /\ running /\ worker[w].pc = "range" /\ worker[w].todo = {}
  /\ Become(w, IdleWorker)
  /\ UNCHANGED <<elsewhere, trade>>

\* The branches on Committed, Initiated and the share's Committed.
Visit(w, a) ==
  LET s == trade[a]
      visiting == [worker[w] EXCEPT !.req = a, !.todo = @ \ {a}]
  IN  /\ running /\ worker[w].pc = "range" /\ a \in worker[w].todo
      /\ Become(w, [visiting EXCEPT !.pc = CASE ~s.committed -> "read"
                                            [] s.committed /\ ~s.initiated -> "initiate"
                                            [] s.committed /\ s.initiated -> "share"])
      /\ UNCHANGED <<elsewhere, trade>>

Initiate(w) ==
  /\ running /\ worker[w].pc = "initiate"
  /\ Store(worker[w].req, [trade[worker[w].req] EXCEPT !.initiated = TRUE])
  /\ Goto(w, "summary")
  /\ UNCHANGED elsewhere

NextTrade(w) ==
  Become(w, [worker[w] EXCEPT !.pc = "range", !.req = NoRequest, !.sought = 0, !.found = 0,
                              !.read = 0])

\* queryOsmosisTxs is called with the entries of TradeTxs as they are now.
ReadTradeTxs(w) ==
  /\ running /\ worker[w].pc = "read"
  /\ Become(w, [worker[w] EXCEPT !.pc = "lookup", !.sought = trade[worker[w].req].tradeTxs])
  /\ UNCHANGED <<elsewhere, trade>>

LookUp(w) ==
  /\ running /\ worker[w].pc = "lookup" /\ worker[w].sought > 0
  /\ \E hit \in BOOLEAN :
       /\ hit => worker[w].req \in onChain
       /\ hit \/ RpcMayFail \/ worker[w].req \notin onChain
       /\ Become(w, [worker[w] EXCEPT !.sought = @ - 1,
                                      !.found = IF hit THEN @ + 1 ELSE @])
  /\ UNCHANGED <<elsewhere, trade>>

\* The parser makes a client of its own for each TX it is handed, and one that
\* cannot be made ends the process: zap's Fatal exits.
ParseFails(w) ==
  /\ running /\ RpcMayFail
  /\ worker[w].pc = "lookup" /\ worker[w].sought > 0 /\ worker[w].req \in onChain
  /\ process' = "exited"
  /\ UNCHANGED <<env, api, signed, lastHeight, txqueue, trade, worker>>

\* Mutants: the number of TXs found is not compared, or >= is turned into >.
FoundAny(found, tracked) == TRUE
FoundMore(found, tracked) == found > tracked

FoundAll(found, tracked) == found = tracked

\* len(osmosisTxs) is compared with the entries TradeTxs has by now.
CommitSet(w) ==
  LET a == worker[w].req
  IN  /\ running /\ worker[w].pc = "lookup" /\ worker[w].sought = 0
      /\ FoundAll(worker[w].found, trade[a].tradeTxs)
      /\ Store(a, [trade[a] EXCEPT !.committed = TRUE])
      /\ Goto(w, "clearTxs")
      /\ UNCHANGED elsewhere

StillWaiting(w) ==
  /\ running /\ worker[w].pc = "lookup" /\ worker[w].sought = 0
  /\ ~FoundAll(worker[w].found, trade[worker[w].req].tradeTxs)
  /\ NextTrade(w)
  /\ UNCHANGED <<elsewhere, trade>>

ClearTradeTxs(w) ==
  /\ running /\ worker[w].pc = "clearTxs"
  /\ Store(worker[w].req, [trade[worker[w].req] EXCEPT !.tradeTxs = 0])
  /\ Goto(w, "clearFees")
  /\ UNCHANGED elsewhere

ClearFees(w) ==
  /\ running /\ worker[w].pc = "clearFees"
  /\ Store(worker[w].req, [trade[worker[w].req] EXCEPT !.hotFees = 0])
  /\ Goto(w, "readFees")
  /\ UNCHANGED elsewhere

\* The loop over what was found: fees, then (discarded) revenue, then TradeTxs.
EndRecord(w) ==
  /\ running /\ worker[w].pc = "readFees" /\ worker[w].found = 0
  /\ NextTrade(w)
  /\ UNCHANGED <<elsewhere, trade>>

ReadFees(w) ==
  /\ running /\ worker[w].pc = "readFees" /\ worker[w].found > 0
  /\ Become(w, [worker[w] EXCEPT !.pc = "writeFees", !.read = trade[worker[w].req].hotFees])
  /\ UNCHANGED <<elsewhere, trade>>

\* What the parser says the TX paid.  It leaves a failed TX before it has read
\* the fee payer, so that the fee such a TX did pay is not booked, although
\* "TX fees are taken whether or not the TX succeeded" (track_arbitrage.go:337).
ParsedFee(a) == IF a \in succeeded THEN 1 ELSE 0

\* Mutant: Sub for Add.
SubtractRevenue(total, profit) == total - profit

\* Mutant: the sum is discarded, as that of the revenue is.
DiscardFees(total, fee) == total

RecordFees(total, fee) == total + fee

\* Coins.Add returns the sum, which the code discards.
RecordRevenue(total, profit) == total

WriteFees(w) ==
  LET a == worker[w].req
      profit == IF a \in succeeded THEN ArbProfit ELSE 0
  IN  /\ running /\ worker[w].pc = "writeFees"
      /\ Store(a, [trade[a] EXCEPT !.hotFees = RecordFees(worker[w].read, ParsedFee(a)),
                                   !.revenue = RecordRevenue(@, profit)])
      /\ Goto(w, "readTxs")
      /\ UNCHANGED elsewhere

ReadForAppend(w) ==
  /\ running /\ worker[w].pc = "readTxs"
  /\ Become(w, [worker[w] EXCEPT !.pc = "writeTxs", !.read = trade[worker[w].req].tradeTxs])
  /\ UNCHANGED <<elsewhere, trade>>

\* Mutant: a TX that failed is not kept.
AppendedIfSucceeded(w) ==
  IF worker[w].req \in succeeded THEN worker[w].read + 1 ELSE worker[w].read

Appended(w) == worker[w].read + 1

AppendTx(w) ==
  /\ running /\ worker[w].pc = "writeTxs"
  /\ Store(worker[w].req, [trade[worker[w].req] EXCEPT !.tradeTxs = Appended(w)])
  /\ Become(w, [worker[w] EXCEPT !.pc = "readFees", !.found = @ - 1])
  /\ UNCHANGED elsewhere

PaysOut(s) == s.revenue # 0 /\ s.revenue > s.hotFees

\* Initiated is already set; the share may be sent, or fail to be.
Summarise(w) ==
  LET s == trade[worker[w].req]
  IN  /\ running /\ worker[w].pc = "summary"
      /\ PaysOut(s) \/ s.tradeTxs > 0
      /\ \E sent \in BOOLEAN :
           /\ sent => PaysOut(s)
           /\ Store(worker[w].req, [s EXCEPT !.shareSent = sent])
      /\ NextTrade(w)
      /\ UNCHANGED elsewhere

\* Without arbitrage the summary prints TradeTxs[0]; nothing recovers the
\* panic of an empty slice in a goroutine, and the process ends.
Panic(w) ==
  /\ running /\ worker[w].pc = "summary"
  /\ ~PaysOut(trade[worker[w].req]) /\ trade[worker[w].req].tradeTxs = 0
  /\ process' = "panicked"
  /\ UNCHANGED <<env, api, signed, lastHeight, txqueue, trade, worker>>

\* The share is looked up until it is seen.  One that was never sent has no
\* hash, and its lookup fails.
AwaitShare(w) ==
  LET s == trade[worker[w].req]
  IN  /\ running /\ worker[w].pc = "share"
      /\ \E seen \in BOOLEAN :
           /\ seen => s.shareSent /\ ~s.shareCommitted
           /\ Store(worker[w].req, [s EXCEPT !.shareCommitted = @ \/ seen])
      /\ NextTrade(w)
      /\ UNCHANGED elsewhere

Notify(w) ==
  \/ EndRange(w) \/ (\E a \in AuthzRequests : Visit(w, a)) \/ ReadTradeTxs(w) \/ LookUp(w)
  \/ ParseFails(w)
  \/ CommitSet(w) \/ StillWaiting(w) \/ ClearTradeTxs(w) \/ ClearFees(w) \/ EndRecord(w)
  \/ ReadFees(w) \/ WriteFees(w) \/ ReadForAppend(w) \/ AppendTx(w)
  \/ Initiate(w) \/ Summarise(w) \/ Panic(w) \/ AwaitShare(w)

SwapAuthz(a) == SignSwap(a) \/ SubmitSwap(a) \/ SubmitFails(a) \/ AddAuthzTxSet(a)

Next ==
  \/ \E a \in AuthzRequests : SwapAuthz(a)
  \/ ProduceBlock
  \/ \E w \in Workers : ReceiveBlock(w) \/ Notify(w)

Spec == Init /\ [][Next]_vars

\* The feed delivers every block, and a notification goroutine and an API
\* call run to their ends: every call they make is assumed to return.
FairSpec ==
  /\ Spec
  /\ WF_vars(ProduceBlock)
  /\ \A w \in Workers : WF_vars(ReceiveBlock(w)) /\ WF_vars(Notify(w))
  /\ \A a \in AuthzRequests : WF_vars(SwapAuthz(a))

(***************************************************************************)
(* Properties.                                                             *)
(***************************************************************************)
TypeOK ==
  /\ chainHeight \in 0..MaxHeight /\ lastHeight \in 0..chainHeight
  /\ sequence \in Nat
  /\ mempool \subseteq AuthzRequests /\ onChain \subseteq AuthzRequests
  /\ succeeded \subseteq onChain
  /\ api \in [AuthzRequests -> ApiStages]
  /\ signed \in [AuthzRequests -> Nat]
  /\ txqueue \subseteq AuthzRequests
  /\ trade \in [AuthzRequests -> AuthzTxSet]
  /\ worker \in [Workers -> Worker]
  /\ process \in {"up", "panicked", "exited"}

Quiet == \A w \in Workers : worker[w].pc = "idle"

\* "Once the 'TXs' are committed on-chain" (types.go:53): however the
\* statements of overlapping handlers interleave, a set is committed only
\* when its TX is in a block.
CommittedOnlyWhenLanded ==
  \A a \in AuthzRequests : trade[a].committed => a \in onChain

\* A handler never indexes an empty TradeTxs (track_arbitrage.go:383).
NeverPanics == process # "panicked"

\* Once the handlers are done, a committed set has the fee of its successful TX
\* exactly once, however often it was looked up and recorded.  (A set is to have
\* the "total fees that the hot wallet paid", types.go:59; of a TX that failed
\* nothing is said here, its fee is lost with ParsedFee.)
FeesOfSuccessExact ==
  Quiet => \A a \in succeeded : trade[a].committed => trade[a].hotFees = 1

\* A tracked swap that is in a block two blocks before the end is summarised.
LandedIsSummarised ==
  \A a \in AuthzRequests :
    (a \in txqueue \cap onChain /\ chainHeight + 2 <= MaxHeight) ~> trade[a].initiated

\* "Total fees that the hot wallet paid for this TX set" (types.go:59): the
\* fee of the set's only TX is never counted twice.
FeesNotDoubled == \A a \in AuthzRequests : trade[a].hotFees <= 1

\* "includes user swap, arb swap, zenith payments" (types.go:57): once the
\* handlers are done, a committed set lists its TX.
CommittedListsItsTx ==
  Quiet => \A a \in AuthzRequests : trade[a].committed => trade[a].tradeTxs > 0

\* "We sent the user profit share TX to the node" (track_arbitrage.go:26):
\* so it is once the summary of a successful arbitrage is done.
InitiatedMeansSent ==
  Quiet => \A a \in succeeded : trade[a].initiated => trade[a].shareSent

\* "Tracks TXs that were already submitted on chain"
\* (track_arbitrage.go:163): the node has taken every TX that is tracked.
TrackedWasAccepted == txqueue \subseteq mempool \cup onChain
=============================================================================
