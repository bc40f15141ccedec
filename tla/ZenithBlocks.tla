---------------------------- MODULE ZenithBlocks ----------------------------
(***************************************************************************)
(* Which of the next blocks Zenith will build: the map zenithBlocks and    *)
(* the handler that fills it (zenith/track_auctions.go), with the query of *)
(* one auction (zenith/query.go).                                          *)
(*                                                                         *)
(* A step is the code between two HTTP requests of one of the handlers     *)
(* that run, one per notified block, several at a time.                    *)
(***************************************************************************)
EXTENDS Integers

CONSTANTS
  Workers,          \* handlers that may run at a time
  MaxHeight,        \* bound: the last block of the chain
  Lookahead,        \* heights queried per block (5 in the code)
  Horizon,          \* how far ahead Zenith answers (10, says the code)
  AuctionHeights,   \* the blocks that Zenith proposers will build
  UnreliableHeights \* queries that Zenith may fail, or answer with HTTP 5xx

Heights == 1..(MaxHeight + Lookahead + Horizon)

ASSUME BlocksAssumption ==
  /\ {MaxHeight, Lookahead, Horizon} \subseteq Nat
  /\ AuctionHeights \cup UnreliableHeights \subseteq Heights

VARIABLES
  chainHeight,    \* the chain's height, which Zenith knows
  lastHeight,     \* ProcessNewBlock's lastHeight
  zenithBlocks,   \* the map: what is known of each height, or Unknown
  handler,        \* the handlers
  overlapped      \* history: a handler began while another one was under way

vars == <<chainHeight, lastHeight, zenithBlocks, handler, overlapped>>

Codes == {"NotZenithAuction", "PastAuction", "AuctionTooFarInFuture", "ZenithAuction", "QueryError"}
Unknown == "not in the map"

Stages == {"idle", "delete", "loop", "request"}

Handler == [pc : Stages, lastChainHeight : 0..MaxHeight, height : 0..(MaxHeight + Lookahead)]
IdleHandler == [pc |-> "idle", lastChainHeight |-> 0, height |-> 0]

Init ==
  /\ chainHeight = 0 /\ lastHeight = 0
  /\ zenithBlocks = [h \in Heights |-> Unknown]
  /\ handler = [w \in Workers |-> IdleHandler]
  /\ overlapped = FALSE

NewBlock ==
  /\ chainHeight < MaxHeight
  /\ chainHeight' = chainHeight + 1
  /\ UNCHANGED <<lastHeight, zenithBlocks, handler, overlapped>>

Quiet == \A w \in Workers : handler[w].pc = "idle"

\* The notification goroutine calls the handler with lastHeight.
Notified(w) ==
  /\ handler[w].pc = "idle" /\ lastHeight < chainHeight
  /\ lastHeight' = lastHeight + 1
  /\ handler' = [handler EXCEPT ![w].pc = "delete", ![w].lastChainHeight = lastHeight + 1]
  /\ overlapped' = (overlapped \/ ~Quiet)
  /\ UNCHANGED <<chainHeight, zenithBlocks>>

\* Mutant: < for <=.
BeforeLast(h, last) == h < last - 1

Happened(h, last) == h <= last

DeletePast(w) ==
  LET last == handler[w].lastChainHeight
  IN  /\ handler[w].pc = "delete"
      /\ zenithBlocks' = [h \in Heights |-> IF Happened(h, last) THEN Unknown ELSE zenithBlocks[h]]
      /\ handler' = [handler EXCEPT ![w].pc = "loop", ![w].height = last]
      /\ UNCHANGED <<chainHeight, lastHeight, overlapped>>

InLoop(w) == handler[w].pc = "loop" /\ handler[w].height < handler[w].lastChainHeight + Lookahead

\* What is in the map is never asked for again.
SkipKnown(w) ==
  /\ InLoop(w) /\ zenithBlocks[handler[w].height] # Unknown
  /\ handler' = [handler EXCEPT ![w].height = @ + 1]
  /\ UNCHANGED <<chainHeight, lastHeight, zenithBlocks, overlapped>>

AskFor(w) ==
  /\ InLoop(w) /\ zenithBlocks[handler[w].height] = Unknown
  /\ handler' = [handler EXCEPT ![w].pc = "request"]
  /\ UNCHANGED <<chainHeight, lastHeight, zenithBlocks, overlapped>>

EndLoop(w) ==
  /\ handler[w].pc = "loop" /\ ~InLoop(w)
  /\ handler' = [handler EXCEPT ![w] = IdleHandler]
  /\ UNCHANGED <<chainHeight, lastHeight, zenithBlocks, overlapped>>

\* The code of the answer to a request for height h.  An HTTP status that
\* is not recognised gives QueryError and, the body being JSON, no error.
Answers(h) ==
  (CASE h <= chainHeight           -> {"PastAuction"}
     [] h > chainHeight + Horizon  -> {"AuctionTooFarInFuture"}
     [] h \in AuctionHeights       -> {"ZenithAuction"}
     [] OTHER                      -> {"NotZenithAuction"})
  \cup (IF h \in UnreliableHeights THEN {"QueryError"} ELSE {})

\* Mutant: an auction that is too far in the future is recorded as none.
RecordedAlways(code) == TRUE

Recorded(code) == code # "AuctionTooFarInFuture"

StoreAnswer(w) ==
  LET h == handler[w].height
  IN  /\ handler[w].pc = "request"
      /\ \E code \in Answers(h) :
           zenithBlocks' = IF Recorded(code) THEN [zenithBlocks EXCEPT ![h] = code] ELSE zenithBlocks
      /\ handler' = [handler EXCEPT ![w].pc = "loop", ![w].height = @ + 1]
      /\ UNCHANGED <<chainHeight, lastHeight, overlapped>>

\* The request fails, or its body is not JSON.
RequestFails(w) ==
  /\ handler[w].pc = "request" /\ handler[w].height \in UnreliableHeights
  /\ handler' = [handler EXCEPT ![w].pc = "loop", ![w].height = @ + 1]
  /\ UNCHANGED <<chainHeight, lastHeight, zenithBlocks, overlapped>>

\* GetZenithBlocks: the auctions offered to the queue and to the clients.
GetZenithBlocks == {h \in Heights : zenithBlocks[h] = "ZenithAuction"}

Handle(w) ==
  \/ DeletePast(w) \/ SkipKnown(w) \/ AskFor(w) \/ EndLoop(w)
  \/ StoreAnswer(w) \/ RequestFails(w)

Next == NewBlock \/ \E w \in Workers : Notified(w) \/ Handle(w)

Spec == Init /\ [][Next]_vars

(***************************************************************************)
(* Properties.                                                             *)
(***************************************************************************)
TypeOK ==
  /\ chainHeight \in 0..MaxHeight /\ lastHeight \in 0..chainHeight
  /\ zenithBlocks \in [Heights -> Codes \cup {Unknown}]
  /\ handler \in [Workers -> Handler]
  /\ overlapped \in BOOLEAN

\* The blocks to come that the handler of a block asks for and Zenith, when
\* the chain is at that block, answers for.
Upcoming(last) ==
  {h \in Heights \ UnreliableHeights : last < h /\ h < last + Lookahead /\ h <= last + Horizon}

\* When the handlers are done, the auctions on offer include every one of
\* the next blocks that Zenith answers for, however late the handlers are.
NextAuctionsListed ==
  (Quiet /\ lastHeight > 0) =>
    {h \in AuctionHeights \cap Upcoming(lastHeight) : h > chainHeight} \subseteq GetZenithBlocks

\* "Any blocks past the current chain height are removed"
\* (track_auctions.go:11), once the handlers are done.
PastBlocksRemoved ==
  Quiet => \A h \in 1..(lastHeight - 1) : zenithBlocks[h] = Unknown

\* So it is as long as handlers do not overlap, whatever their queries return.
SerialPastRemoved == ~overlapped => PastBlocksRemoved

\* "If there was an error or if the auction is too far in the future, we'll
\* need to requery" (track_auctions.go:66): a query that ended in an error
\* does not leave a height in the map, where it is never asked for again.
ErrorsAreRequeried == \A h \in Heights : zenithBlocks[h] # "QueryError"
=============================================================================
