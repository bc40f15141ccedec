---------------------------- MODULE ZenithStatus ----------------------------
(***************************************************************************)
(* GET /status of a Zenith request (api/endpoints/status.go), while the    *)
(* block-notification goroutines work on the set it reports.  The handler  *)
(* follows the same pointer without a lock and reads field after field;    *)
(* the reads that can disagree are steps of their own: the length of       *)
(* TradeTxs, the TX that is indexed with AwaitingZenithBlock, and the rest *)
(* of the answer.  The estimates come from the request's simulation, which *)
(* nobody writes; the share is never in progress or received because the   *)
(* sums it is made of are discarded (RevenueIsRecorded).                   *)
(***************************************************************************)
EXTENDS ZenithTrades

VARIABLE reader   \* the request being answered, and what it read so far

ReaderStages == {"idle", "hash", "waiting", "rest"}

Reader ==
  [pc : ReaderStages, req : ZenithRequests \cup {NoRequest}, waiting : BOOLEAN]

IdleReader == [pc |-> "idle", req |-> NoRequest, waiting |-> FALSE]

StatusInit == Init /\ reader = IdleReader

Reads(me) == running /\ reader' = me /\ UNCHANGED vars
Reported == trade[reader.req]

\* The request is found in the queue and the length of TradeTxs tested.
Ask(r) ==
  /\ reader.pc = "idle" /\ r \in txqueue
  /\ Reads([reader EXCEPT !.req = r,
                          !.pc = IF Len(trade[r].tradeTxs) > 1 THEN "hash" ELSE "waiting"])

\* TradeTxs is read again and indexed: its second TX is the arbitrage.
ReadWaiting ==
  /\ \/ reader.pc = "waiting"
     \/ reader.pc = "hash" /\ Len(Reported.tradeTxs) > 1
  /\ Reads([reader EXCEPT !.waiting = IsAwaitingZenithBlock(Reported), !.pc = "rest"])

\* It was cleared in the meantime: gin recovers the panic and answers 500.
IndexFails ==
  /\ reader.pc = "hash" /\ Len(Reported.tradeTxs) <= 1
  /\ Reads(IdleReader)

\* SubmittedAuctionBid, LastChainHeight and Committed: the answer is complete.
Answer ==
  /\ reader.pc = "rest"
  /\ Reads(IdleReader)

GetTradeStatus ==
  \/ \E r \in ZenithRequests : Ask(r)
  \/ ReadWaiting \/ IndexFails \/ Answer

StatusNext == GetTradeStatus \/ (Next /\ UNCHANGED reader)

StatusVars == <<vars, reader>>

StatusSpec == StatusInit /\ [][StatusNext]_StatusVars

(***************************************************************************)
(* Properties.                                                             *)
(***************************************************************************)
StatusTypeOK == TypeOK /\ reader \in Reader

\* status.go:26: ZenithBlockBid "will be non-zero if we bid on an auction
\* block".  A request that was read as not waiting is answered with the block
\* of a bid that Zenith was given, though the bid is read later and may have
\* been replaced in between.
NotWaitingShowsItsBid ==
  [][(reader.pc = "rest" /\ reader'.pc = "idle" /\ ~reader.waiting)
       => <<reader.req, Reported.bid>> \in bids]_StatusVars

\* status.go:28: TxsCommitted is "True if our TXs were included in the
\* block": an answer that says so is never ahead of the chain, and it comes
\* with a bid that Zenith was given, whatever the goroutines overwrite.
ReportedCommitIsTrue ==
  [][(reader.pc = "rest" /\ reader'.pc = "idle" /\ Reported.committed)
       => /\ TxsOf(reader.req) \cap onChain # {}
          /\ <<reader.req, Reported.bid>> \in bids]_StatusVars

\* status.go:82: a status request always gets an answer, as the length of
\* TradeTxs is tested before it is indexed.
StatusNeverFails ==
  [][(reader.pc = "hash" /\ reader'.pc # "hash") => reader'.pc = "rest"]_StatusVars

\* status.go:25, :28: a request is not answered to be waiting for a block
\* and to be committed at once.
StatusIsConsistent ==
  [][(reader.pc = "rest" /\ reader'.pc = "idle")
       => ~(reader.waiting /\ Reported.committed)]_StatusVars
=============================================================================
