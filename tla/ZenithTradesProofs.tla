------------------------ MODULE ZenithTradesProofs --------------------------
(***************************************************************************)
(* Proofs about ZenithTrades and ZenithStatus, for any requests, auctions  *)
(* and heights.                                                            *)
(*                                                                         *)
(* The first part holds for any number of overlapping goroutines and       *)
(* whatever fails in the environment.  The second shows what a client may  *)
(* believe of the status of a request under the same conditions.  The      *)
(* third is about goroutines that do not overlap: what the program keeps   *)
(* then, up to the promise of ZenithPromise.                               *)
(***************************************************************************)
EXTENDS ZenithStatus, FiniteSetTheorems, TLAPS

(***************************************************************************)
(* PART 1.  Any number of goroutines, whatever fails.                      *)
(***************************************************************************)
InRange == {"offer", "sign", "reply", "update"}
HoldsRequest == {"sign", "reply", "update", "recheck", "dispatch", "search", "record"}
HoldsBid == {"reply", "update"}
LooksUp == {"recheck", "search"}
Looking == LooksUp \cup {"record"}

\* What a goroutine's local variables stand for.
LocalsOK ==
  \A w \in Workers :
    /\ worker[w].pc \in InRange => worker[w].block \in Heights
    /\ worker[w].pc \in HoldsRequest => worker[w].req \in ZenithRequests
    /\ worker[w].pc \in HoldsBid => <<worker[w].req, worker[w].block>> \in bids
    /\ worker[w].pc \notin LooksUp => worker[w].sought = <<>>
    /\ worker[w].pc \notin Looking => worker[w].found = <<>>
    /\ Listed(worker[w].sought) \subseteq PlacedTxs(worker[w].req)
    /\ Listed(worker[w].found) \subseteq PlacedTxs(worker[w].req) \cap onChain

\* What the TXs of a sequence are after a step on it.
LEMMA ListedEmpty == <<>> \in Seq(Txs) /\ Listed(<<>>) = {}
  BY DEF Listed

LEMMA ListedAppend ==
  ASSUME NEW txs \in Seq(Txs), NEW t \in Txs
  PROVE  Append(txs, t) \in Seq(Txs) /\ Listed(Append(txs, t)) = Listed(txs) \cup {t}
<1> DEFINE more == Append(txs, t)
<1>1. /\ more \in Seq(Txs) /\ DOMAIN more = DOMAIN txs \cup {Len(txs) + 1}
      /\ more[Len(txs) + 1] = t /\ \A i \in DOMAIN txs : more[i] = txs[i]
  OBVIOUS
<1> HIDE DEF more
<1>2. Listed(more) = Listed(txs) \cup {t}
  BY <1>1 DEF Listed
<1> QED
  BY <1>1, <1>2 DEF more

LEMMA ListedTail ==
  ASSUME NEW txs \in Seq(Txs), txs # <<>>
  PROVE  /\ Head(txs) \in Txs /\ Head(txs) \in Listed(txs)
         /\ Tail(txs) \in Seq(Txs) /\ Listed(Tail(txs)) \subseteq Listed(txs)
  BY DEF Listed

LEMMA ListedConcat ==
  ASSUME NEW txs \in Seq(Txs), NEW more \in Seq(Txs)
  PROVE  txs \o more \in Seq(Txs) /\ Listed(txs \o more) = Listed(txs) \cup Listed(more)
<1> DEFINE all == txs \o more
<1>1. /\ all \in Seq(Txs) /\ DOMAIN all = 1..(Len(txs) + Len(more))
      /\ \A i \in 1..Len(txs) : all[i] = txs[i]
      /\ \A i \in (Len(txs) + 1)..(Len(txs) + Len(more)) : all[i] = more[i - Len(txs)]
  OBVIOUS
<1>2. Len(txs) \in Nat /\ Len(more) \in Nat /\ DOMAIN txs = 1..Len(txs) /\ DOMAIN more = 1..Len(more)
  OBVIOUS
<1> HIDE DEF all
<1>3. \A i \in 1..Len(more) : all[i + Len(txs)] = more[i] /\ i + Len(txs) \in DOMAIN all
  BY <1>1, <1>2
<1>4. Listed(all) \subseteq Listed(txs) \cup Listed(more)
  <2> SUFFICES ASSUME NEW i \in DOMAIN all PROVE all[i] \in Listed(txs) \cup Listed(more)
    BY DEF Listed
  <2>1. CASE i \in 1..Len(txs)
    BY <1>1, <1>2, <2>1 DEF Listed
  <2>2. CASE i \in (Len(txs) + 1)..(Len(txs) + Len(more))
    <3>1. i - Len(txs) \in DOMAIN more /\ all[i] = more[i - Len(txs)]
      BY <1>1, <1>2, <2>2
    <3> QED
      BY <3>1 DEF Listed
  <2> QED
    BY <1>1, <1>2, <2>1, <2>2
<1>5. Listed(txs) \cup Listed(more) \subseteq Listed(all)
  <2>1. Listed(txs) \subseteq Listed(all)
    BY <1>1, <1>2 DEF Listed
  <2>2. ASSUME NEW i \in DOMAIN more PROVE more[i] \in Listed(all)
    <3>1. all[i + Len(txs)] = more[i] /\ i + Len(txs) \in DOMAIN all
      BY <1>2, <1>3
    <3> QED
      BY <3>1 DEF Listed
  <2> QED
    BY <2>1, <2>2 DEF Listed
<1> QED
  BY <1>1, <1>4, <1>5 DEF all

LEMMA ChargeType == ASSUME NEW txs \in Seq(Txs), NEW S PROVE Charge(txs, S) \in Nat
<1>1. IsFiniteSet({i \in DOMAIN txs : txs[i] \in S})
  BY FS_Interval, FS_Subset
<1> QED
  BY <1>1, FS_CardinalityType DEF Charge

IInv == TypeOK /\ LocalsOK /\ CommittedHasEvidence /\ TracksPlacedBids

LEMMA InvInit == Init => IInv
  BY ConstantsAssumption, ListedEmpty
     DEF Init, IInv, TypeOK, LocalsOK, CommittedHasEvidence, TracksPlacedBids, IdleWorker,
         Worker, Stages, NewZenithTxSet, ZenithTxSet, Heights, InRange, HoldsRequest, HoldsBid,
         LooksUp, Looking

\* A step that changes one goroutine, its locals being right afterwards, and
\* neither the sets nor the chain.
LocalsFit(me) ==
  /\ me \in Worker
  /\ me.pc \in InRange => me.block \in Heights
  /\ me.pc \in HoldsRequest => me.req \in ZenithRequests
  /\ me.pc \in HoldsBid => <<me.req, me.block>> \in bids
  /\ me.pc \notin LooksUp => me.sought = <<>>
  /\ me.pc \notin Looking => me.found = <<>>
  /\ Listed(me.sought) \subseteq PlacedTxs(me.req)
  /\ Listed(me.found) \subseteq PlacedTxs(me.req) \cap onChain

LEMMA LocalStep ==
  ASSUME IInv, UNCHANGED <<env, txqueue, trade>>, lastHeight' \in 0..chainHeight,
         NEW w \in Workers, NEW me, LocalsFit(me), Become(w, me)
  PROVE  IInv'
<1>1. TypeOK'
  BY DEF IInv, TypeOK, env, Become, LocalsFit
<1>2. LocalsOK'
  BY DEF IInv, TypeOK, LocalsOK, env, PlacedTxs, Become, LocalsFit
<1>3. CommittedHasEvidence' /\ TracksPlacedBids'
  BY DEF IInv, CommittedHasEvidence, TracksPlacedBids, env, PlacedTxs
<1> QED
  BY <1>1, <1>2, <1>3 DEF IInv

LEMMA FitsNow == ASSUME IInv, NEW w \in Workers PROVE LocalsFit(worker[w])
  BY DEF IInv, TypeOK, LocalsOK, LocalsFit

\* A step that also stores a set that is right.
SetFits(r, s) ==
  /\ s \in ZenithTxSet
  /\ s.committed => TxsOf(r) \cap onChain # {}
  /\ s.bid # 0 => <<r, s.bid>> \in bids
  /\ Listed(s.tradeTxs) \subseteq PlacedTxs(r)

LEMMA SetFitsNow == ASSUME IInv, NEW r \in ZenithRequests PROVE SetFits(r, trade[r])
  BY DEF IInv, TypeOK, CommittedHasEvidence, TracksPlacedBids, SetFits

LEMMA StoreStep ==
  ASSUME IInv, UNCHANGED <<env, lastHeight, txqueue>>,
         NEW r \in ZenithRequests, NEW s, SetFits(r, s), Store(r, s),
         NEW w \in Workers, NEW me, LocalsFit(me), Become(w, me)
  PROVE  IInv'
<1>1. TypeOK'
  BY DEF IInv, TypeOK, env, Become, LocalsFit, Store, SetFits
<1>2. LocalsOK'
  BY DEF IInv, TypeOK, LocalsOK, env, PlacedTxs, Become, LocalsFit
<1>3. CommittedHasEvidence' /\ TracksPlacedBids'
  BY DEF IInv, TypeOK, CommittedHasEvidence, TracksPlacedBids, env, PlacedTxs, Store, SetFits
<1> QED
  BY <1>1, <1>2, <1>3 DEF IInv

(***************************************************************************)
(* The API and the chain.                                                  *)
(***************************************************************************)
LEMMA QueueInv ==
  ASSUME IInv, NEW i \in ZenithRequests \cup AuthzRequests,
         txqueue' = txqueue \cup {i}, UNCHANGED <<env, lastHeight, trade, worker>>
  PROVE  IInv'
<1>1. TypeOK' /\ LocalsOK'
  BY DEF IInv, TypeOK, LocalsOK, env, PlacedTxs
<1>2. CommittedHasEvidence' /\ TracksPlacedBids'
  BY DEF IInv, CommittedHasEvidence, TracksPlacedBids, env, PlacedTxs
<1> QED
  BY <1>1, <1>2 DEF IInv

LEMMA ProduceBlockInv == ASSUME IInv, ProduceBlock PROVE IInv'
<1>1. onChain \subseteq onChain' /\ TypeOK'
  <2>1. chainHeight \in Nat /\ chainHeight' = chainHeight + 1 /\ chainHeight' \in 0..MaxHeight
    BY ConstantsAssumption DEF ProduceBlock, IInv, TypeOK
  <2> PICK winners \in SUBSET {r \in ZenithRequests : <<r, chainHeight + 1>> \in bids} :
        /\ onChain' = onChain \cup Included(winners)
        /\ \E ok \in SUBSET Included(winners) : succeeded' = succeeded \cup ok
    BY Zenon DEF ProduceBlock
  <2> PICK ok \in SUBSET Included(winners) : succeeded' = succeeded \cup ok
    OBVIOUS
  <2>2. Included(winners) \subseteq Txs
    <3> SUFFICES ASSUME NEW r \in ZenithRequests PROVE Listed(BidTxs(r, chainHeight + 1)) \subseteq Txs
      BY DEF Included
    <3>1. UserTx(r) \in Txs /\ ArbTx(r, chainHeight + 1) \in Txs
      BY <2>1, ConstantsAssumption DEF UserTx, ArbTx, Txs
    <3> QED
      BY <3>1 DEF BidTxs, Listed
  <2>4. onChain' \subseteq Txs /\ succeeded' \subseteq onChain'
    BY <2>2 DEF IInv, TypeOK
  <2>5. UNCHANGED <<bids, lastHeight, txqueue, trade, worker>>
    BY DEF ProduceBlock
  <2>6. lastHeight' \in 0..chainHeight'
    BY <2>1, <2>5 DEF IInv, TypeOK
  <2> QED
    BY <2>1, <2>4, <2>5, <2>6 DEF IInv, TypeOK
<1>2. UNCHANGED <<bids, trade, worker>>
  BY DEF ProduceBlock
<1>3. LocalsOK' /\ TracksPlacedBids'
  BY <1>1, <1>2 DEF IInv, LocalsOK, TracksPlacedBids, PlacedTxs
<1>4. CommittedHasEvidence'
  BY <1>1, <1>2 DEF IInv, CommittedHasEvidence
<1> QED
  BY <1>1, <1>3, <1>4 DEF IInv

LEMMA ReceiveBlockInv == ASSUME IInv, NEW w \in Workers, ReceiveBlock(w) PROVE IInv'
<1> DEFINE me == [worker[w] EXCEPT !.pc = "execute"]
<1>1. LocalsFit(me)
  BY FitsNow DEF ReceiveBlock, LocalsFit, Worker, Stages, InRange, HoldsRequest, HoldsBid,
         LooksUp, Looking
<1> QED
  BY <1>1, LocalStep DEF ReceiveBlock, IInv, TypeOK, env

(***************************************************************************)
(* ExecuteQueuedZenith.                                                    *)
(***************************************************************************)
LEMMA StartExecuteInv == ASSUME IInv, NEW w \in Workers, StartExecute(w) PROVE IInv'
<1> PICK found \in SUBSET (AuctionHeights \cap ((lastHeight + 1)..(lastHeight + Lookahead - 1))) :
      Become(w, [worker[w] EXCEPT !.pc = "auctions", !.height = lastHeight, !.blocks = found])
  BY DEF StartExecute
<1> DEFINE me == [worker[w] EXCEPT !.pc = "auctions", !.height = lastHeight, !.blocks = found]
<1>1. found \subseteq Heights /\ lastHeight \in 0..MaxHeight
  BY ConstantsAssumption DEF IInv, TypeOK
<1>2. LocalsFit(me)
  BY <1>1, FitsNow
     DEF StartExecute, LocalsFit, Worker, Stages, InRange, HoldsRequest, HoldsBid,
         LooksUp, Looking
<1> QED
  BY <1>2, LocalStep DEF StartExecute, IInv, TypeOK, env

LEMMA OfferToAuctionInv == ASSUME IInv, NEW w \in Workers, OfferToAuction(w) PROVE IInv'
<1> PICK b \in worker[w].blocks :
      Become(w, [worker[w] EXCEPT !.pc = "offer", !.block = b, !.todo = txqueue,
                                  !.blocks = @ \ {b}])
  BY DEF OfferToAuction
<1> DEFINE me == [worker[w] EXCEPT !.pc = "offer", !.block = b, !.todo = txqueue,
                                   !.blocks = @ \ {b}]
<1>1. b \in Heights /\ b \in 0..MaxHeight /\ txqueue \subseteq ZenithRequests \cup AuthzRequests
  BY ConstantsAssumption, FitsNow DEF IInv, TypeOK, LocalsFit, Worker, Heights
<1>2. LocalsFit(me)
  BY <1>1, FitsNow
     DEF OfferToAuction, LocalsFit, Worker, Stages, InRange, HoldsRequest, HoldsBid,
         LooksUp, Looking
<1> QED
  BY <1>2, LocalStep DEF OfferToAuction, IInv, TypeOK, env

\* Leaving the range keeps the locals right in every stage in which nothing
\* is being looked up.
LEMMA LeaveRangeFits ==
  ASSUME IInv, NEW w \in Workers, worker[w].pc \notin Looking
  PROVE  LocalsFit([worker[w] EXCEPT !.pc = "auctions", !.block = 0, !.todo = {},
                                     !.req = NoRequest])
<1> DEFINE me == [worker[w] EXCEPT !.pc = "auctions", !.block = 0, !.todo = {}, !.req = NoRequest]
<1>1. worker[w] \in Worker /\ worker[w].sought = <<>> /\ worker[w].found = <<>>
  BY FitsNow DEF LocalsFit, LooksUp, Looking
<1>2. me \in Worker
  <2>1. 0 \in 0..MaxHeight /\ "auctions" \in Stages
    BY ConstantsAssumption DEF Stages
  <2> QED
    BY <1>1, <2>1 DEF Worker
<1>3. me.pc = "auctions" /\ me.sought = <<>> /\ me.found = <<>>
  BY <1>1 DEF Worker
<1> QED
  BY <1>2, <1>3, ListedEmpty DEF LocalsFit, InRange, HoldsRequest, HoldsBid,
         LooksUp, Looking

LEMMA LeaveRangeInv ==
  ASSUME IInv, NEW w \in Workers, worker[w].pc \notin Looking, LeaveRange(w),
         UNCHANGED <<env, lastHeight, txqueue, trade>>
  PROVE  IInv'
  BY LeaveRangeFits, LocalStep DEF LeaveRange, IInv, TypeOK, env

LEMMA TouchedFits ==
  ASSUME IInv, NEW w \in Workers, NEW r \in ZenithRequests
  PROVE  SetFits(r, Touched(r, worker[w].height))
<1> DEFINE s == Touched(r, worker[w].height)
<1>1. trade[r] \in ZenithTxSet /\ worker[w].height \in 0..MaxHeight
  BY SetFitsNow, FitsNow DEF SetFits, LocalsFit, Worker
<1>2. s \in ZenithTxSet
  BY <1>1 DEF ZenithTxSet, Touched
<1>3. s.committed = trade[r].committed /\ s.bid = trade[r].bid /\ s.tradeTxs = trade[r].tradeTxs
  BY <1>1 DEF ZenithTxSet, Touched
<1> QED
  BY <1>2, <1>3, SetFitsNow DEF SetFits

LEMMA VisitToBidInv ==
  ASSUME IInv, NEW w \in Workers, NEW r \in ZenithRequests, PassOver(w, r) \/ ChooseToBid(w, r)
  PROVE  IInv'
<1> DEFINE s == Touched(r, worker[w].height)
           pass == [worker[w] EXCEPT !.todo = @ \ {r}]
           bid == [worker[w] EXCEPT !.pc = "sign", !.req = r]
<1>1. worker[w].pc = "offer" /\ Store(r, s)
  BY DEF PassOver, ChooseToBid
<1>2. SetFits(r, s)
  BY TouchedFits
<1>3. CASE PassOver(w, r)
  <2>1. LocalsFit(pass)
    BY <1>1, FitsNow DEF LocalsFit, Worker, InRange, HoldsRequest, HoldsBid,
         LooksUp, Looking
  <2> QED
    BY <1>1, <1>2, <1>3, <2>1, StoreStep DEF PassOver
<1>4. CASE ChooseToBid(w, r)
  <2>1. LocalsFit(bid)
    BY <1>1, FitsNow, ListedEmpty
       DEF LocalsFit, Worker, Stages, InRange, HoldsRequest, HoldsBid, LooksUp, Looking
  <2> QED
    BY <1>1, <1>2, <1>4, <2>1, StoreStep DEF ChooseToBid
<1> QED
  BY <1>3, <1>4

\* Zenith takes the bid: what it holds only grows.
LEMMA PlaceBidInv == ASSUME IInv, NEW w \in Workers, PlaceBid(w) PROVE IInv'
<1> DEFINE me == [worker[w] EXCEPT !.pc = "reply"]
<1>1. /\ worker[w].pc = "sign" /\ worker[w].req \in ZenithRequests /\ worker[w].block \in Heights
      /\ bids' = bids \cup {<<worker[w].req, worker[w].block>>}
      /\ UNCHANGED <<chainHeight, onChain, succeeded, lastHeight, txqueue, trade>>
      /\ Become(w, me)
  BY FitsNow DEF PlaceBid, LocalsFit, InRange, HoldsRequest
<1>2. me \in Worker
  BY FitsNow DEF LocalsFit, Worker, Stages
<1>3. TypeOK'
  BY <1>1, <1>2 DEF IInv, TypeOK, Become
<1>4. LocalsOK'
  <2> SUFFICES ASSUME NEW v \in Workers PROVE LocalsFit(worker[v])'
    BY DEF LocalsOK, LocalsFit
  <2>1. LocalsFit(worker[v]) /\ worker'[v] \in Worker
    BY <1>1, <1>2, FitsNow DEF LocalsFit, Become, IInv, TypeOK
  <2>2. CASE v = w
    BY <1>1, <2>1, <2>2
       DEF IInv, TypeOK, LocalsFit, Become, Worker, PlacedTxs, InRange, HoldsRequest, HoldsBid,
         LooksUp, Looking
  <2>3. CASE v # w
    <3>1. worker'[v] = worker[v]
      BY <1>1, <2>3 DEF IInv, TypeOK, Become
    <3> QED
      BY <1>1, <2>1, <3>1 DEF LocalsFit, PlacedTxs
  <2> QED
    BY <2>2, <2>3
<1>5. CommittedHasEvidence' /\ TracksPlacedBids'
  BY <1>1 DEF IInv, CommittedHasEvidence, TracksPlacedBids, PlacedTxs
<1> QED
  BY <1>3, <1>4, <1>5 DEF IInv

LEMMA RecordBidErrorInv ==
  ASSUME IInv, NEW w \in Workers, worker[w].pc \in {"sign", "reply"}, RecordBidError(w)
  PROVE  IInv'
<1> DEFINE r == worker[w].req
           s == [trade[r] EXCEPT !.hotFees = EstimatedFees]
<1>1. r \in ZenithRequests
  BY FitsNow DEF LocalsFit, HoldsRequest
<1>2. SetFits(r, trade[r])
  BY <1>1, SetFitsNow
<1>3. s \in ZenithTxSet
  BY <1>2, ConstantsAssumption DEF SetFits, ZenithTxSet
<1>4. SetFits(r, s)
  BY <1>2, <1>3 DEF SetFits, ZenithTxSet
<1> QED
  BY <1>1, <1>4, LeaveRangeFits, StoreStep DEF RecordBidError, LeaveRange, LooksUp, Looking

LEMMA BidAcceptedInv == ASSUME IInv, NEW w \in Workers, BidAccepted(w) PROVE IInv'
<1> DEFINE r == worker[w].req
           b == worker[w].block
           s == [trade[r] EXCEPT !.hotFees = EstimatedFees, !.bid = b]
           me == [worker[w] EXCEPT !.pc = "update"]
<1>1. /\ worker[w].pc = "reply" /\ r \in ZenithRequests /\ b \in Heights /\ <<r, b>> \in bids
      /\ Store(r, s) /\ Become(w, me) /\ UNCHANGED <<env, lastHeight, txqueue>>
  BY FitsNow DEF BidAccepted, LocalsFit, HoldsRequest, HoldsBid, InRange
<1>2. SetFits(r, trade[r])
  BY <1>1, SetFitsNow
<1>3. s \in ZenithTxSet
  <2>1. trade[r] \in ZenithTxSet /\ b \in 0..MaxHeight /\ EstimatedFees \in Nat
    BY <1>1, <1>2, ConstantsAssumption DEF SetFits, Heights
  <2> HIDE DEF b
  <2> QED
    BY <2>1 DEF ZenithTxSet
<1>4. s.committed = trade[r].committed /\ s.bid = b /\ s.tradeTxs = trade[r].tradeTxs
  BY <1>2 DEF SetFits, ZenithTxSet
<1>5. SetFits(r, s)
  BY <1>1, <1>2, <1>3, <1>4 DEF SetFits
<1>6. LocalsFit(me)
  BY <1>1, FitsNow DEF LocalsFit, Worker, Stages, InRange, HoldsRequest, HoldsBid,
         LooksUp, Looking
<1> QED
  BY <1>1, <1>5, <1>6, StoreStep

LEMMA UpdateZenithTxSetInv == ASSUME IInv, NEW w \in Workers, UpdateZenithTxSet(w) PROVE IInv'
<1> DEFINE r == worker[w].req
           b == worker[w].block
           s == WithBidTxs(trade[r], BidTxs(r, b))
<1>1. worker[w].pc = "update" /\ r \in ZenithRequests /\ b \in Heights /\ <<r, b>> \in bids
  BY FitsNow DEF UpdateZenithTxSet, LocalsFit, HoldsRequest, HoldsBid, InRange
<1>2. BidTxs(r, b) \in Seq(Txs) /\ Listed(BidTxs(r, b)) \subseteq PlacedTxs(r)
  <2>1. UserTx(r) \in Txs /\ ArbTx(r, b) \in Txs
    BY <1>1, ConstantsAssumption DEF UserTx, ArbTx, Txs, Heights
  <2>2. UserTx(r) \in PlacedTxs(r) /\ ArbTx(r, b) \in PlacedTxs(r)
    BY <1>1 DEF PlacedTxs, ArbTx
  <2> QED
    BY <2>1, <2>2 DEF BidTxs, Listed
<1>3. SetFits(r, trade[r])
  BY <1>1, SetFitsNow
<1>4. s \in ZenithTxSet
  BY <1>2, <1>3 DEF SetFits, ZenithTxSet, WithBidTxs
<1>5. s.committed = trade[r].committed /\ s.bid = trade[r].bid /\ s.tradeTxs = BidTxs(r, b)
  BY <1>3 DEF SetFits, ZenithTxSet, WithBidTxs
<1>6. SetFits(r, s)
  BY <1>2, <1>3, <1>4, <1>5 DEF SetFits
<1> QED
  BY <1>1, <1>6, LeaveRangeFits, StoreStep DEF UpdateZenithTxSet, LeaveRange, LooksUp, Looking

LEMMA ExecuteInv == ASSUME IInv, NEW w \in Workers, Execute(w) PROVE IInv'
<1>1. CASE StopAtAuthz(w) \/ EndRange(w) \/ GetZenithBidFails(w)
  BY <1>1, LeaveRangeInv DEF StopAtAuthz, EndRange, GetZenithBidFails, LooksUp, Looking
<1>2. CASE BidRefused(w) \/ BidReplyLost(w)
  BY <1>2, RecordBidErrorInv DEF BidRefused, BidReplyLost
<1> QED
  BY <1>1, <1>2, StartExecuteInv, OfferToAuctionInv, VisitToBidInv, PlaceBidInv, BidAcceptedInv,
     UpdateZenithTxSetInv
     DEF Execute

(***************************************************************************)
(* ParseZenithCommittedTxs.                                                *)
(***************************************************************************)
LEMMA IdleFits == ASSUME IInv PROVE LocalsFit(IdleWorker)
<1>1. 0 \in 0..MaxHeight /\ "idle" \in Stages
  BY ConstantsAssumption DEF Stages
<1> QED
  BY <1>1, ListedEmpty DEF LocalsFit, IdleWorker, Worker, InRange, HoldsRequest, HoldsBid,
         LooksUp, Looking

LEMMA StartParseInv == ASSUME IInv, NEW w \in Workers, StartParse(w) PROVE IInv'
<1> DEFINE me == [worker[w] EXCEPT !.pc = "parse", !.height = lastHeight,
                                   !.todo = txqueue \cap ZenithRequests]
<1>1. lastHeight \in 0..MaxHeight /\ "parse" \in Stages
  BY ConstantsAssumption DEF IInv, TypeOK, Stages
<1>2. worker[w].pc = "auctions" /\ Become(w, me) /\ UNCHANGED <<env, lastHeight, txqueue, trade>>
  BY DEF StartParse
<1>3. LocalsFit(me)
  BY <1>1, <1>2, FitsNow DEF LocalsFit, Worker, InRange, HoldsRequest, HoldsBid,
         LooksUp, Looking
<1> QED
  BY <1>2, <1>3, LocalStep DEF IInv, TypeOK, env

LEMMA StopParseInv ==
  ASSUME IInv, NEW w \in Workers, ParseClientError(w) \/ EndParse(w) PROVE IInv'
  BY IdleFits, LocalStep DEF ParseClientError, EndParse, IInv, TypeOK, env

LEMMA VisitTradeInv ==
  ASSUME IInv, NEW w \in Workers, NEW r \in ZenithRequests, VisitTrade(w, r) PROVE IInv'
<1> DEFINE s == Touched(r, worker[w].height)
           recheck == MustRecheck(s) /\ s.tradeTxs # <<>>
           new == [s EXCEPT !.committed = s.committed /\ (MustRecheck(s) => recheck)]
           me == [worker[w] EXCEPT !.pc = IF recheck THEN "recheck" ELSE "dispatch", !.req = r,
                                   !.sought = IF recheck THEN s.tradeTxs ELSE <<>>]
<1>1. worker[w].pc = "parse" /\ Store(r, new) /\ Become(w, me) /\ UNCHANGED <<env, lastHeight, txqueue>>
  BY DEF VisitTrade
<1>2. SetFits(r, s)
  BY TouchedFits
<1>3. SetFits(r, new)
  BY <1>2 DEF SetFits, ZenithTxSet, MustRecheck
<1>4. LocalsFit(me)
  <2>1. Listed(s.tradeTxs) \subseteq PlacedTxs(r) /\ s.tradeTxs \in Seq(Txs)
    BY <1>2 DEF SetFits, ZenithTxSet
  <2>2. worker[w] \in Worker /\ worker[w].sought = <<>> /\ worker[w].found = <<>>
    BY <1>1, FitsNow DEF LocalsFit, LooksUp, Looking
  <2>3. CASE recheck
    BY <2>1, <2>2, <2>3, ListedEmpty DEF LocalsFit, Worker, Stages, InRange, HoldsRequest, HoldsBid,
         LooksUp, Looking
  <2>4. CASE ~recheck
    BY <2>2, <2>4, ListedEmpty DEF LocalsFit, Worker, Stages, InRange, HoldsRequest, HoldsBid,
         LooksUp, Looking
  <2> QED
    BY <2>3, <2>4
<1> QED
  BY <1>1, <1>3, <1>4, StoreStep

LEMMA LookUpInv == ASSUME IInv, NEW w \in Workers, LookUp(w) PROVE IInv'
<1> DEFINE t == Head(worker[w].sought)
<1> PICK hit \in BOOLEAN :
      /\ hit => t \in onChain
      /\ Become(w, [worker[w] EXCEPT !.sought = Tail(@),
                                     !.found = IF hit THEN Append(@, t) ELSE @])
  BY DEF LookUp
<1> DEFINE me == [worker[w] EXCEPT !.sought = Tail(@),
                                   !.found = IF hit THEN Append(@, t) ELSE @]
<1>1. /\ worker[w].pc \in LooksUp /\ worker[w].sought # <<>>
      /\ UNCHANGED <<env, lastHeight, txqueue, trade>>
  BY DEF LookUp, LooksUp
<1>2. worker[w] \in Worker /\ worker[w].sought \in Seq(Txs) /\ worker[w].found \in Seq(Txs)
  BY FitsNow DEF LocalsFit, Worker
<1>3. /\ t \in Txs /\ t \in Listed(worker[w].sought) /\ Tail(worker[w].sought) \in Seq(Txs)
      /\ Listed(Tail(worker[w].sought)) \subseteq Listed(worker[w].sought)
  BY <1>1, <1>2, ListedTail
<1>4. /\ Append(worker[w].found, t) \in Seq(Txs)
      /\ Listed(Append(worker[w].found, t)) = Listed(worker[w].found) \cup {t}
  BY <1>2, <1>3, ListedAppend
<1> HIDE DEF t
<1>5. /\ me \in Worker /\ me.pc = worker[w].pc /\ me.req = worker[w].req
      /\ me.block = worker[w].block /\ me.sought = Tail(worker[w].sought)
      /\ me.found = IF hit THEN Append(worker[w].found, t) ELSE worker[w].found
  BY <1>2, <1>3, <1>4 DEF Worker
<1>6. /\ Listed(me.sought) \subseteq Listed(worker[w].sought)
      /\ Listed(me.found) \subseteq Listed(worker[w].found) \cup (Listed(worker[w].sought) \cap onChain)
  BY <1>3, <1>4, <1>5
<1>7. LocalsFit(me)
  BY <1>1, <1>5, <1>6, FitsNow DEF LocalsFit, Looking
<1> QED
  BY <1>1, <1>7, LocalStep DEF IInv, TypeOK, env

\* A second look only ever takes a commit back.
LEMMA RecheckDoneInv == ASSUME IInv, NEW w \in Workers, RecheckDone(w) PROVE IInv'
<1> DEFINE r == worker[w].req
           s == [trade[r] EXCEPT !.committed = @ /\ StillOnChain(worker[w].found)]
           me == [worker[w] EXCEPT !.pc = "dispatch", !.found = <<>>]
<1>1. /\ worker[w].pc = "recheck" /\ worker[w].sought = <<>> /\ r \in ZenithRequests
      /\ Store(r, s) /\ Become(w, me) /\ UNCHANGED <<env, lastHeight, txqueue>>
  BY FitsNow DEF RecheckDone, LocalsFit, HoldsRequest
<1>2. SetFits(r, s)
  <2>1. SetFits(r, trade[r])
    BY <1>1, SetFitsNow
  <2>2. (trade[r].committed /\ StillOnChain(worker[w].found)) \in BOOLEAN
    BY <2>1, Zenon DEF SetFits, ZenithTxSet, StillOnChain
  <2>3. s \in ZenithTxSet
    BY <2>1, <2>2 DEF SetFits, ZenithTxSet
  <2>4. s.bid = trade[r].bid /\ s.tradeTxs = trade[r].tradeTxs
    BY <2>1 DEF SetFits, ZenithTxSet
  <2>5. s.committed => trade[r].committed
    BY <2>1 DEF SetFits, ZenithTxSet
  <2> QED
    BY <2>1, <2>3, <2>4, <2>5 DEF SetFits
<1>3. LocalsFit(me)
  BY <1>1, FitsNow, ListedEmpty DEF LocalsFit, Worker, Stages, InRange, HoldsRequest, HoldsBid,
         LooksUp, Looking
<1> QED
  BY <1>1, <1>2, <1>3, StoreStep

\* Going on to the next set is right in every stage in which nothing is
\* left to be looked up.
LEMMA NextTradeFits ==
  ASSUME IInv, NEW w \in Workers, worker[w].sought = <<>>
  PROVE  LocalsFit([worker[w] EXCEPT !.pc = "parse", !.req = NoRequest, !.found = <<>>,
                                     !.todo = @ \ {worker[w].req}])
<1> DEFINE me == [worker[w] EXCEPT !.pc = "parse", !.req = NoRequest, !.found = <<>>,
                                   !.todo = @ \ {worker[w].req}]
<1>1. worker[w] \in Worker /\ "parse" \in Stages
  BY FitsNow DEF LocalsFit, Stages
<1>2. me \in Worker
  BY <1>1 DEF Worker
<1>3. me.pc = "parse" /\ me.sought = <<>> /\ me.found = <<>>
  BY <1>1 DEF Worker
<1> QED
  BY <1>2, <1>3, ListedEmpty DEF LocalsFit, InRange, HoldsRequest, HoldsBid,
         LooksUp, Looking

LEMMA StartSearchInv == ASSUME IInv, NEW w \in Workers, StartSearch(w) PROVE IInv'
<1> DEFINE r == worker[w].req
           me == [worker[w] EXCEPT !.pc = "search", !.sought = trade[r].tradeTxs]
<1>1. /\ worker[w].pc = "dispatch" /\ r \in ZenithRequests /\ Become(w, me)
      /\ UNCHANGED <<env, lastHeight, txqueue, trade>>
  BY FitsNow DEF StartSearch, LocalsFit, HoldsRequest
<1>2. trade[r].tradeTxs \in Seq(Txs) /\ Listed(trade[r].tradeTxs) \subseteq PlacedTxs(r)
  BY <1>1, SetFitsNow DEF SetFits, ZenithTxSet
<1>3. LocalsFit(me)
  BY <1>1, <1>2, FitsNow DEF LocalsFit, Worker, Stages, InRange, HoldsRequest, HoldsBid,
         LooksUp, Looking
<1> QED
  BY <1>1, <1>3, LocalStep DEF IInv, TypeOK, env

\* What was found is on chain and belongs to the request: the evidence.
LEMMA CommitFoundInv == ASSUME IInv, NEW w \in Workers, CommitFound(w) PROVE IInv'
<1> DEFINE r == worker[w].req
           found == worker[w].found
           s == [trade[r] EXCEPT !.committed = TRUE, !.tradeTxs = <<>>, !.hotFees = 0]
           me == [worker[w] EXCEPT !.pc = "record"]
<1>1. /\ worker[w].pc = "search" /\ worker[w].sought = <<>> /\ r \in ZenithRequests
      /\ found # <<>> /\ Store(r, s) /\ Become(w, me) /\ UNCHANGED <<env, lastHeight, txqueue>>
  BY FitsNow DEF CommitFound, EnoughFound, LocalsFit, HoldsRequest
<1>2. found \in Seq(Txs) /\ Listed(found) \subseteq PlacedTxs(r) \cap onChain
  BY <1>1, FitsNow DEF LocalsFit, Worker
<1>3. TxsOf(r) \cap onChain # {}
  <2>1. found[1] \in Txs /\ found[1] \in PlacedTxs(r) /\ found[1] \in onChain
    BY <1>1, <1>2 DEF Listed
  <2> QED
    BY <2>1 DEF TxsOf, PlacedTxs, UserTx, Txs
<1>4. SetFits(r, trade[r])
  BY <1>1, SetFitsNow
<1>5. s \in ZenithTxSet
  BY <1>4, ListedEmpty DEF SetFits, ZenithTxSet
<1>6. s.bid = trade[r].bid /\ s.tradeTxs = <<>>
  BY <1>4 DEF SetFits, ZenithTxSet
<1>7. SetFits(r, s)
  BY <1>3, <1>4, <1>5, <1>6, ListedEmpty DEF SetFits
<1>8. LocalsFit(me)
  BY <1>1, FitsNow DEF LocalsFit, Worker, Stages, InRange, HoldsRequest, HoldsBid,
         LooksUp, Looking
<1> QED
  BY <1>1, <1>7, <1>8, StoreStep

LEMMA RecordFoundInv == ASSUME IInv, NEW w \in Workers, RecordFound(w) PROVE IInv'
<1> DEFINE r == worker[w].req
           found == worker[w].found
           s == WithTxs(trade[r], r, found)
<1>1. /\ worker[w].pc = "record" /\ worker[w].sought = <<>> /\ r \in ZenithRequests
      /\ Store(r, s) /\ NextTrade(w) /\ UNCHANGED <<env, lastHeight, txqueue>>
  BY FitsNow DEF RecordFound, LocalsFit, HoldsRequest, LooksUp
<1>2. found \in Seq(Txs) /\ Listed(found) \subseteq PlacedTxs(r)
  BY FitsNow DEF LocalsFit, Worker
<1>3. SetFits(r, trade[r]) /\ trade[r] \in ZenithTxSet /\ trade[r].tradeTxs \in Seq(Txs)
  BY <1>1, SetFitsNow DEF SetFits, ZenithTxSet
<1>4. /\ trade[r].tradeTxs \o found \in Seq(Txs)
      /\ Listed(trade[r].tradeTxs \o found) = Listed(trade[r].tradeTxs) \cup Listed(found)
  BY <1>2, <1>3, ListedConcat
<1>5. s \in ZenithTxSet
  <2> DEFINE arbs == Charge(found, succeeded \ {UserTx(r)})
             users == Charge(found, succeeded \cap {UserTx(r)})
  <2>1. arbs \in Nat /\ users \in Nat
    BY <1>2, ChargeType
  <2>3. s = [trade[r] EXCEPT !.tradeTxs = @ \o found, !.userFees = @ + users,
                             !.hotFees = @ + arbs, !.zenithFees = @ + arbs,
                             !.revenue = RecordRevenue(@, ArbProfit * arbs)]
    BY DEF WithTxs
  <2> HIDE DEF arbs, users, s
  <2>2. /\ trade[r].userFees + users \in Nat /\ trade[r].hotFees + arbs \in Nat
        /\ trade[r].zenithFees + arbs \in Nat
        /\ RecordRevenue(trade[r].revenue, ArbProfit * arbs) \in Nat
    <3>1. /\ trade[r].userFees \in Nat /\ trade[r].hotFees \in Nat
          /\ trade[r].zenithFees \in Nat /\ trade[r].revenue \in Nat
      BY <1>3 DEF ZenithTxSet
    <3> QED
      BY <2>1, <3>1 DEF RecordRevenue
  <2> QED
    BY <1>3, <1>4, <2>2, <2>3 DEF ZenithTxSet
<1>6. /\ s.committed = trade[r].committed /\ s.bid = trade[r].bid
      /\ s.tradeTxs = trade[r].tradeTxs \o found
  BY <1>3 DEF ZenithTxSet, WithTxs
<1>7. SetFits(r, s)
  BY <1>2, <1>3, <1>4, <1>5, <1>6 DEF SetFits
<1> QED
  BY <1>1, <1>7, NextTradeFits, StoreStep DEF NextTrade

LEMMA PanicInv == ASSUME IInv, NEW w \in Workers, Panic(w) PROVE IInv'
<1> DEFINE me == [worker[w] EXCEPT !.pc = "panicked"]
<1>1. worker[w].pc = "dispatch" /\ Become(w, me) /\ UNCHANGED <<env, lastHeight, txqueue, trade>>
  BY DEF Panic
<1>2. LocalsFit(me)
  BY <1>1, FitsNow, ListedEmpty DEF LocalsFit, Worker, Stages, InRange, HoldsRequest, HoldsBid,
         LooksUp, Looking
<1> QED
  BY <1>1, <1>2, LocalStep DEF IInv, TypeOK, env

LEMMA ParseFailsInv == ASSUME IInv, NEW w \in Workers, ParseFails(w) PROVE IInv'
<1> DEFINE me == [IdleWorker EXCEPT !.pc = "exited"]
<1>1. Become(w, me) /\ UNCHANGED <<env, lastHeight, txqueue, trade>>
  BY DEF ParseFails
<1>2. 0 \in 0..MaxHeight /\ "exited" \in Stages
  BY ConstantsAssumption DEF Stages
<1>3. LocalsFit(me)
  BY <1>2, ListedEmpty DEF IdleWorker, LocalsFit, Worker, InRange, HoldsRequest, HoldsBid,
         LooksUp, Looking
<1> QED
  BY <1>1, <1>3, LocalStep DEF IInv, TypeOK, env

LEMMA SettleInv ==
  ASSUME IInv, NEW w \in Workers, Summarise(w) \/ AwaitShare(w) PROVE IInv'
<1> DEFINE r == worker[w].req
<1>1. /\ worker[w].pc = "dispatch" /\ worker[w].sought = <<>> /\ r \in ZenithRequests
      /\ NextTrade(w) /\ UNCHANGED <<env, lastHeight, txqueue>>
  BY FitsNow DEF Summarise, AwaitShare, LocalsFit, HoldsRequest, LooksUp
<1>2. SetFits(r, trade[r])
  BY <1>1, SetFitsNow
<1>3. PICK sent \in BOOLEAN, seen \in BOOLEAN :
        \/ Store(r, [trade[r] EXCEPT !.initiated = TRUE, !.profit = HotWalletProfit(trade[r]),
                                     !.shareSent = sent])
        \/ Store(r, [trade[r] EXCEPT !.shareCommitted = seen])
  BY Zenon DEF Summarise, AwaitShare
<1> DEFINE summary == [trade[r] EXCEPT !.initiated = TRUE, !.profit = HotWalletProfit(trade[r]),
                                       !.shareSent = sent]
           awaited == [trade[r] EXCEPT !.shareCommitted = seen]
<1>4. SetFits(r, summary)
  <2>1. HotWalletProfit(trade[r]) \in Int
    BY <1>2 DEF SetFits, ZenithTxSet, HotWalletProfit
  <2>2. summary \in ZenithTxSet
    BY <1>2, <2>1 DEF SetFits, ZenithTxSet
  <2>3. /\ summary.bid = trade[r].bid /\ summary.tradeTxs = trade[r].tradeTxs
        /\ summary.committed = trade[r].committed
    BY <1>2 DEF SetFits, ZenithTxSet
  <2> QED
    BY <1>2, <2>2, <2>3 DEF SetFits
<1>5. SetFits(r, awaited)
  <2>1. awaited \in ZenithTxSet
    BY <1>2 DEF SetFits, ZenithTxSet
  <2>2. /\ awaited.bid = trade[r].bid /\ awaited.tradeTxs = trade[r].tradeTxs
        /\ awaited.committed = trade[r].committed
    BY <1>2 DEF SetFits, ZenithTxSet
  <2> QED
    BY <1>2, <2>1, <2>2 DEF SetFits
<1> DEFINE me == [worker[w] EXCEPT !.pc = "parse", !.req = NoRequest, !.found = <<>>,
                                   !.todo = @ \ {worker[w].req}]
<1>6. LocalsFit(me) /\ Become(w, me)
  BY <1>1, NextTradeFits DEF NextTrade
<1>7. Store(r, summary) \/ Store(r, awaited)
  BY <1>3
<1> HIDE DEF summary, awaited, me
<1> QED
  BY <1>1, <1>4, <1>5, <1>6, <1>7, StoreStep

LEMMA LeaveTradeInv ==
  ASSUME IInv, NEW w \in Workers, StillWaiting(w) \/ NothingToDo(w) PROVE IInv'
<1>1. worker[w].sought = <<>> /\ NextTrade(w) /\ UNCHANGED <<env, lastHeight, txqueue, trade>>
  BY FitsNow DEF StillWaiting, NothingToDo, LocalsFit, LooksUp
<1> QED
  BY <1>1, NextTradeFits, LocalStep DEF NextTrade, IInv, TypeOK, env

LEMMA ParseInv == ASSUME IInv, NEW w \in Workers, Parse(w) PROVE IInv'
  BY StartParseInv, StopParseInv, VisitTradeInv, LookUpInv, RecheckDoneInv, StartSearchInv,
     CommitFoundInv, RecordFoundInv, PanicInv, ParseFailsInv, SettleInv, LeaveTradeInv
     DEF Parse

(***************************************************************************)
(* The theorems.                                                           *)
(***************************************************************************)
LEMMA InvNext == IInv /\ [Next]_vars => IInv'
<1> SUFFICES ASSUME IInv, [Next]_vars PROVE IInv'
  OBVIOUS
<1>1. ASSUME NEW r \in ZenithRequests, QueueZenith(r) PROVE IInv'
  BY <1>1, QueueInv DEF QueueZenith
<1>2. ASSUME NEW a \in AuthzRequests, AddAuthzTxSet(a) PROVE IInv'
  BY <1>2, QueueInv DEF AddAuthzTxSet
<1>3. ASSUME NEW w \in Workers, ReceiveBlock(w) \/ Execute(w) \/ Parse(w) PROVE IInv'
  BY <1>3, ReceiveBlockInv, ExecuteInv, ParseInv
<1>4. CASE UNCHANGED vars
  <2>1. TypeOK' /\ LocalsOK'
    BY <1>4 DEF vars, IInv, TypeOK, LocalsOK, PlacedTxs
  <2>2. CommittedHasEvidence' /\ TracksPlacedBids'
    BY <1>4 DEF vars, IInv, CommittedHasEvidence, TracksPlacedBids, PlacedTxs
  <2> QED
    BY <2>1, <2>2 DEF IInv
<1> QED
  BY <1>1, <1>2, <1>3, <1>4, ProduceBlockInv DEF Next

LEMMA Invariance == Spec => []IInv
  BY InvInit, InvNext, PTL DEF Spec

\* The variables keep their types: the bids name requests and heights, and
\* the feed never runs ahead of the chain.
THEOREM TypeCorrect == Spec => []TypeOK
<1>1. IInv => TypeOK
  BY DEF IInv
<1> QED
  BY <1>1, Invariance, PTL

\* Whatever the nodes answer, the feed skips and the goroutines overwrite, a
\* request is only reported as committed when one of its TXs is in a block.
THEOREM CommittedHasEvidenceHolds == Spec => []CommittedHasEvidence
<1>1. IInv => CommittedHasEvidence
  BY DEF IInv
<1> QED
  BY <1>1, Invariance, PTL

\* In the same environments, a set only tracks TXs that Zenith was given.
THEOREM TracksPlacedBidsHolds == Spec => []TracksPlacedBids
<1>1. IInv => TracksPlacedBids
  BY DEF IInv
<1> QED
  BY <1>1, Invariance, PTL

(***************************************************************************)
(* PART 2.  The status of a request.  What part 1 shows of the sets        *)
(* carries over, as the reader writes none of them; on top of it, the      *)
(* recorded bid of a set may be replaced but is never forgotten.           *)
(***************************************************************************)
ReaderOK == reader \in Reader /\ (reader.pc # "idle" => reader.req \in ZenithRequests)

\* Sets that are committed, or searched for, have a bid.
BidKnown ==
  /\ \A r \in ZenithRequests : trade[r].committed => trade[r].bid # 0
  /\ \A w \in Workers : worker[w].pc = "search" => trade[worker[w].req].bid # 0

\* What a request answered as not waiting was read from is still there.
ReadBid == (reader.pc = "rest" /\ ~reader.waiting) => trade[reader.req].bid # 0

StatusInv == IInv /\ ReaderOK /\ BidKnown /\ ReadBid

(***************************************************************************)
(* What a step of a goroutine keeps of the sets: a bid is not forgotten,   *)
(* and only a search commits.                                              *)
(***************************************************************************)
BidKept(r) == trade[r].bid # 0 => trade'[r].bid # 0

CommitsBySearch(w, r) ==
  trade'[r].committed => trade[r].committed \/ (worker[w].pc = "search" /\ worker[w].req = r)

SearchKept(w) ==
  worker'[w].pc = "search" =>
    /\ worker'[w].req = worker[w].req /\ worker[w].req \in ZenithRequests
    /\ worker[w].pc = "search" \/ trade[worker[w].req].bid # 0

Kept(w) ==
  /\ \A r \in ZenithRequests : BidKept(r) /\ CommitsBySearch(w, r)
  /\ \A v \in Workers \ {w} : worker'[v] = worker[v]
  /\ SearchKept(w)

\* The goroutine's next step is no search.
NotSearching(w) ==
  (\A v \in Workers \ {w} : worker'[v] = worker[v]) /\ worker'[w].pc # "search"

\* A step that stores a set.
LEMMA StoringKeeps ==
  ASSUME IInv, NEW w \in Workers, NEW r \in ZenithRequests, NEW s, Store(r, s),
         s.bid = trade[r].bid \/ s.bid \in Heights,
         s.committed => trade[r].committed \/ (worker[w].pc = "search" /\ worker[w].req = r),
         NotSearching(w)
  PROVE  Kept(w)
<1>1. trade' = [trade EXCEPT ![r] = s] /\ r \in DOMAIN trade
  BY DEF Store, IInv, TypeOK
<1>2. ASSUME NEW q \in ZenithRequests PROVE BidKept(q) /\ CommitsBySearch(w, q)
  <2>1. CASE q = r
    BY <1>1, <2>1, ConstantsAssumption DEF BidKept, CommitsBySearch, Heights
  <2>2. CASE q # r
    BY <1>1, <2>2 DEF BidKept, CommitsBySearch
  <2> QED
    BY <2>1, <2>2
<1> QED
  BY <1>2 DEF Kept, SearchKept, NotSearching

\* A step that stores none and begins no search.
LEMMA ReadingKeeps ==
  ASSUME IInv, NEW w \in Workers, trade' = trade, NotSearching(w)
  PROVE  Kept(w)
BY DEF Kept, BidKept, CommitsBySearch, SearchKept, NotSearching

LEMMA ExecuteKeeps == ASSUME IInv, NEW w \in Workers, Execute(w) PROVE Kept(w)
<1> USE DEF IInv, TypeOK, Worker, ZenithTxSet
<1>1. /\ worker[w].pc \in HoldsRequest => worker[w].req \in ZenithRequests
      /\ worker[w].pc \in InRange => worker[w].block \in Heights
  BY DEF LocalsOK
<1>2. ASSUME NEW r \in ZenithRequests, PassOver(w, r) \/ ChooseToBid(w, r) PROVE Kept(w)
  <2>1. Store(r, Touched(r, worker[w].height))
    BY <1>2 DEF PassOver, ChooseToBid
  <2>2. NotSearching(w)
    BY <1>2 DEF PassOver, ChooseToBid, Become, NotSearching
  <2>3. /\ Touched(r, worker[w].height).bid = trade[r].bid
        /\ Touched(r, worker[w].height).committed = trade[r].committed
    BY DEF Touched
  <2> QED
    BY <2>1, <2>2, <2>3, StoringKeeps
<1>3. CASE BidRefused(w) \/ BidReplyLost(w)
  <2>1. RecordBidError(w) /\ worker[w].req \in ZenithRequests
    BY <1>1, <1>3 DEF BidRefused, BidReplyLost, HoldsRequest
  <2> DEFINE s == [trade[worker[w].req] EXCEPT !.hotFees = EstimatedFees]
  <2>2. s.bid = trade[worker[w].req].bid /\ s.committed = trade[worker[w].req].committed
    BY <2>1
  <2>3. Store(worker[w].req, s) /\ NotSearching(w)
    BY <2>1, <1>3 DEF RecordBidError, LeaveRange, Become, NotSearching, BidRefused, BidReplyLost
  <2> HIDE DEF s
  <2> QED
    BY <2>1, <2>2, <2>3, StoringKeeps
<1>4. CASE BidAccepted(w)
  <2> DEFINE r == worker[w].req
             s == [trade[r] EXCEPT !.hotFees = EstimatedFees, !.bid = worker[w].block]
  <2>1. r \in ZenithRequests /\ worker[w].block \in Heights
    BY <1>1, <1>4 DEF BidAccepted, HoldsRequest, InRange
  <2>2. s.bid = worker[w].block /\ s.committed = trade[r].committed
    BY <2>1
  <2>3. Store(r, s) /\ NotSearching(w)
    BY <1>4 DEF BidAccepted, Become, NotSearching
  <2> HIDE DEF s, r
  <2> QED
    BY <2>1, <2>2, <2>3, StoringKeeps
<1>5. CASE UpdateZenithTxSet(w)
  <2> DEFINE r == worker[w].req
             s == WithBidTxs(trade[r], BidTxs(r, worker[w].block))
  <2>1. r \in ZenithRequests
    BY <1>1, <1>5 DEF UpdateZenithTxSet, HoldsRequest
  <2>2. s.bid = trade[r].bid /\ s.committed = trade[r].committed
    BY <2>1 DEF WithBidTxs
  <2>3. Store(r, s) /\ NotSearching(w)
    BY <1>5 DEF UpdateZenithTxSet, LeaveRange, Become, NotSearching
  <2> HIDE DEF s, r
  <2> QED
    BY <2>1, <2>2, <2>3, StoringKeeps
<1>6. CASE StartExecute(w) \/ OfferToAuction(w) \/ StopAtAuthz(w) \/ EndRange(w)
           \/ GetZenithBidFails(w) \/ PlaceBid(w)
  <2>1. trade' = trade /\ NotSearching(w)
    BY <1>6
    DEF StartExecute, OfferToAuction, StopAtAuthz, EndRange, GetZenithBidFails, PlaceBid, LeaveRange,
        Become, NotSearching
  <2> QED
    BY <2>1, ReadingKeeps
<1> QED
  BY <1>2, <1>3, <1>4, <1>5, <1>6 DEF Execute

LEMMA ParseKeeps == ASSUME IInv, NEW w \in Workers, Parse(w) PROVE Kept(w)
<1> USE DEF IInv, TypeOK, Worker, ZenithTxSet
<1>1. worker[w].pc \in HoldsRequest => worker[w].req \in ZenithRequests
  BY DEF LocalsOK
<1>2. ASSUME NEW r \in ZenithRequests, VisitTrade(w, r) PROVE Kept(w)
  <2>1. PICK stay \in BOOLEAN : Store(r, [Touched(r, worker[w].height) EXCEPT !.committed =
                                            Touched(r, worker[w].height).committed /\ stay])
    BY <1>2, Zenon DEF VisitTrade
  <2> DEFINE s == [Touched(r, worker[w].height) EXCEPT !.committed =
                     Touched(r, worker[w].height).committed /\ stay]
  <2>2. s.bid = trade[r].bid /\ (s.committed => trade[r].committed)
    BY DEF Touched
  <2>3. NotSearching(w)
    BY <1>2 DEF VisitTrade, Become, NotSearching
  <2>4. Store(r, s)
    BY <2>1
  <2> HIDE DEF s
  <2> QED
    BY <2>2, <2>3, <2>4, StoringKeeps
<1>3. CASE RecheckDone(w)
  <2> DEFINE r == worker[w].req
             s == [trade[r] EXCEPT !.committed = @ /\ StillOnChain(worker[w].found)]
  <2>1. r \in ZenithRequests
    BY <1>1, <1>3 DEF RecheckDone, HoldsRequest
  <2>2. s.bid = trade[r].bid /\ (s.committed => trade[r].committed)
    BY <2>1
  <2>3. Store(r, s) /\ NotSearching(w)
    BY <1>3 DEF RecheckDone, Become, NotSearching
  <2> HIDE DEF s, r
  <2> QED
    BY <2>1, <2>2, <2>3, StoringKeeps
<1>4. CASE CommitFound(w)
  <2> DEFINE r == worker[w].req
             s == [trade[r] EXCEPT !.committed = TRUE, !.tradeTxs = <<>>, !.hotFees = 0]
  <2>1. r \in ZenithRequests /\ worker[w].pc = "search"
    BY <1>1, <1>4 DEF CommitFound, HoldsRequest
  <2>2. s.bid = trade[r].bid
    BY <2>1
  <2>3. Store(r, s) /\ NotSearching(w)
    BY <1>4 DEF CommitFound, Become, NotSearching
  <2>4. worker[w].pc = "search" /\ worker[w].req = r
    BY <2>1
  <2> HIDE DEF s, r
  <2> QED
    BY <2>1, <2>2, <2>3, <2>4, StoringKeeps
<1>5. CASE RecordFound(w)
  <2> DEFINE r == worker[w].req
             s == WithTxs(trade[r], r, worker[w].found)
  <2>1. r \in ZenithRequests
    BY <1>1, <1>5 DEF RecordFound, HoldsRequest
  <2>2. s.bid = trade[r].bid /\ s.committed = trade[r].committed
    BY <2>1 DEF WithTxs
  <2>3. Store(r, s) /\ NotSearching(w)
    BY <1>5 DEF RecordFound, NextTrade, Become, NotSearching
  <2> HIDE DEF s, r
  <2> QED
    BY <2>1, <2>2, <2>3, StoringKeeps
<1>6. CASE Summarise(w) \/ AwaitShare(w)
  <2> DEFINE r == worker[w].req
  <2>1. r \in ZenithRequests
    BY <1>1, <1>6 DEF Summarise, AwaitShare, HoldsRequest
  <2>2. PICK sent \in BOOLEAN, seen \in BOOLEAN :
          \/ Store(r, [trade[r] EXCEPT !.initiated = TRUE, !.profit = HotWalletProfit(trade[r]),
                                       !.shareSent = sent])
          \/ Store(r, [trade[r] EXCEPT !.shareCommitted = seen])
    BY <1>6, Zenon DEF Summarise, AwaitShare
  <2> DEFINE summary == [trade[r] EXCEPT !.initiated = TRUE, !.profit = HotWalletProfit(trade[r]),
                                         !.shareSent = sent]
             awaited == [trade[r] EXCEPT !.shareCommitted = seen]
  <2>3. /\ summary.bid = trade[r].bid /\ summary.committed = trade[r].committed
        /\ awaited.bid = trade[r].bid /\ awaited.committed = trade[r].committed
    BY <2>1
  <2>5. Store(r, summary) \/ Store(r, awaited)
    BY <2>2
  <2>4. NotSearching(w)
    BY <1>6 DEF Summarise, AwaitShare, NextTrade, Become, NotSearching
  <2> HIDE DEF r, summary, awaited
  <2> QED
    BY <2>1, <2>3, <2>4, <2>5, StoringKeeps
<1>7. CASE StartParse(w) \/ ParseClientError(w) \/ EndParse(w) \/ StillWaiting(w) \/ Panic(w)
           \/ ParseFails(w) \/ NothingToDo(w)
  <2>1. trade' = trade
    BY <1>7 DEF StartParse, ParseClientError, EndParse, StillWaiting, Panic, ParseFails, NothingToDo
  <2>2. NotSearching(w)
    <3> USE DEF Become, NotSearching
    <3>1. CASE StartParse(w) BY <3>1 DEF StartParse
    <3>2. CASE ParseClientError(w) \/ EndParse(w)
      BY <3>2 DEF ParseClientError, EndParse, IdleWorker
    <3>3. CASE StillWaiting(w) \/ NothingToDo(w)
      <4>1. NextTrade(w)
        BY <3>3 DEF StillWaiting, NothingToDo
      <4> QED
        BY <4>1 DEF NextTrade
    <3>4. CASE Panic(w) BY <3>4 DEF Panic
    <3>5. CASE ParseFails(w) BY <3>5 DEF ParseFails, IdleWorker
    <3> QED
      BY <1>7, <3>1, <3>2, <3>3, <3>4, <3>5
  <2> QED
    BY <2>1, <2>2, ReadingKeeps
<1>8. CASE LookUp(w) \/ StartSearch(w)
  <2>1. /\ trade' = trade
        /\ \A v \in Workers \ {w} : worker'[v] = worker[v]
        /\ worker'[w].req = worker[w].req
    BY <1>8 DEF LookUp, StartSearch, Become
  <2>2. worker'[w].pc = worker[w].pc \/ trade[worker[w].req].bid # 0
    BY <1>8 DEF LookUp, StartSearch, Become, IsAwaitingZenithBlock
  <2>3. worker[w].req \in ZenithRequests
    BY <1>1, <1>8 DEF LookUp, StartSearch, HoldsRequest
  <2> QED
    BY <2>1, <2>2, <2>3 DEF Kept, BidKept, CommitsBySearch, SearchKept
<1> QED
  BY <1>2, <1>3, <1>4, <1>5, <1>6, <1>7, <1>8 DEF Parse

LEMMA NextKeeps ==
  ASSUME IInv, BidKnown, [Next]_vars
  PROVE  BidKnown' /\ \A r \in ZenithRequests : BidKept(r)
<1>1. ASSUME NEW w \in Workers, Kept(w) PROVE BidKnown' /\ \A r \in ZenithRequests : BidKept(r)
  <2>1. \A v \in Workers : worker[v].pc = "search" => worker[v].req \in ZenithRequests
    BY DEF IInv, LocalsOK, HoldsRequest
  <2>2. \A r \in ZenithRequests : trade'[r].committed => trade'[r].bid # 0
    BY <1>1 DEF Kept, BidKept, CommitsBySearch, BidKnown
  <2>3. ASSUME NEW v \in Workers, worker'[v].pc = "search" PROVE trade'[worker'[v].req].bid # 0
    <3>1. worker'[v].req = worker[v].req /\ trade[worker[v].req].bid # 0
      BY <1>1, <2>3 DEF Kept, SearchKept, BidKnown
    <3>2. worker[v].req \in ZenithRequests
      BY <1>1, <2>1, <2>3 DEF Kept, SearchKept
    <3> QED
      BY <1>1, <3>1, <3>2 DEF Kept, BidKept
  <2> QED
    BY <1>1, <2>2, <2>3 DEF BidKnown, Kept
<1>2. CASE UNCHANGED <<trade, worker>>
  BY <1>2 DEF BidKnown, BidKept
<1>3. ASSUME NEW w \in Workers, ReceiveBlock(w) PROVE Kept(w)
  <2>1. trade' = trade /\ NotSearching(w)
    BY <1>3 DEF ReceiveBlock, IInv, TypeOK, Worker, Become, NotSearching
  <2> QED
    BY <2>1, ReadingKeeps
<1>4. UNCHANGED <<trade, worker>> \/ \E w \in Workers : ReceiveBlock(w) \/ Execute(w) \/ Parse(w)
  BY DEF Next, vars, QueueZenith, AddAuthzTxSet, ProduceBlock
<1> QED
  BY <1>1, <1>2, <1>3, <1>4, ExecuteKeeps, ParseKeeps

(***************************************************************************)
(* The invariant.                                                          *)
(***************************************************************************)
LEMMA StatusInvInit == StatusInit => StatusInv
<1> SUFFICES ASSUME StatusInit PROVE StatusInv
  OBVIOUS
<1>1. IInv
  BY InvInit DEF StatusInit
<1>2. ReaderOK /\ ReadBid
  BY DEF StatusInit, IdleReader, ReaderOK, ReadBid, Reader, ReaderStages
<1>3. BidKnown
  BY DEF StatusInit, Init, NewZenithTxSet, IdleWorker, BidKnown
<1> QED
  BY <1>1, <1>2, <1>3 DEF StatusInv

LEMMA StatusInvNext == StatusInv /\ [StatusNext]_StatusVars => StatusInv'
<1> SUFFICES ASSUME StatusInv, [StatusNext]_StatusVars PROVE StatusInv'
  OBVIOUS
<1>1. CASE reader' = reader /\ [Next]_vars
  <2>1. IInv' /\ BidKnown' /\ \A r \in ZenithRequests : BidKept(r)
    BY <1>1, InvNext, NextKeeps DEF StatusInv
  <2> QED
    BY <1>1, <2>1 DEF StatusInv, ReaderOK, ReadBid, BidKept
<1>2. CASE GetTradeStatus
  <2>1. UNCHANGED vars
    BY <1>2 DEF GetTradeStatus, Ask, ReadWaiting, IndexFails, Answer, Reads
  <2>2. IInv' /\ BidKnown'
    BY <2>1, InvNext, NextKeeps DEF StatusInv
  <2>3. ReaderOK' /\ ReadBid'
    <3> USE DEF StatusInv, ReaderOK, ReadBid, Reader, ReaderStages, Reads
    <3>1. ASSUME NEW r \in ZenithRequests, Ask(r) PROVE ReaderOK' /\ ReadBid'
      BY <3>1 DEF Ask
    <3>2. CASE ReadWaiting
      <4>1. PICK waiting \in BOOLEAN :
              /\ waiting <=> IsAwaitingZenithBlock(Reported)
              /\ reader' = [reader EXCEPT !.waiting = waiting, !.pc = "rest"]
        BY <3>2, Zenon DEF ReadWaiting, IsAwaitingZenithBlock
      <4>2. ReaderOK'
        BY <3>2, <4>1 DEF ReadWaiting
      <4>3. ReadBid'
        BY <2>1, <4>1 DEF vars, IsAwaitingZenithBlock, Reported
      <4> QED
        BY <4>2, <4>3
    <3>3. CASE IndexFails \/ Answer
      <4>1. reader' = IdleReader
        BY <3>3 DEF IndexFails, Answer
      <4> QED
        BY <4>1 DEF IdleReader
    <3> QED
      BY <1>2, <3>1, <3>2, <3>3 DEF GetTradeStatus
  <2> QED
    BY <2>2, <2>3 DEF StatusInv
<1> QED
  BY <1>1, <1>2 DEF StatusNext, StatusVars

LEMMA StatusInvariance == StatusSpec => []StatusInv
  BY StatusInvInit, StatusInvNext, PTL DEF StatusSpec

(***************************************************************************)
(* The theorems.                                                           *)
(***************************************************************************)
\* Every reachable state of the reader and of what it reads is well typed.
THEOREM StatusTypeCorrect == StatusSpec => []StatusTypeOK
<1>1. StatusInv => StatusTypeOK
  BY DEF StatusInv, IInv, ReaderOK, StatusTypeOK
<1> QED
  BY <1>1, StatusInvariance, PTL

\* A request answered as not waiting shows the block of a bid that Zenith was
\* given (status.go:26), though the bid is read last.
THEOREM NotWaitingShowsItsBidHolds == StatusSpec => NotWaitingShowsItsBid
<1>1. ASSUME StatusInv, reader.pc = "rest", ~reader.waiting
      PROVE  <<reader.req, Reported.bid>> \in bids
  BY <1>1 DEF StatusInv, ReaderOK, ReadBid, IInv, TracksPlacedBids, Reported
<1>2. StatusInv =>
        [(reader.pc = "rest" /\ reader'.pc = "idle" /\ ~reader.waiting)
           => <<reader.req, Reported.bid>> \in bids]_StatusVars
  BY <1>1
<1> QED
  BY <1>2, StatusInvariance, PTL DEF NotWaitingShowsItsBid

\* An answer that says committed is never ahead of the chain, and comes with
\* a bid that Zenith was given (status.go:28).
THEOREM ReportedCommitIsTrueHolds == StatusSpec => ReportedCommitIsTrue
<1>1. ASSUME StatusInv, reader.pc = "rest", Reported.committed
      PROVE  TxsOf(reader.req) \cap onChain # {} /\ <<reader.req, Reported.bid>> \in bids
  BY <1>1
  DEF StatusInv, ReaderOK, BidKnown, IInv, TracksPlacedBids, CommittedHasEvidence, Reported
<1>2. StatusInv =>
        [(reader.pc = "rest" /\ reader'.pc = "idle" /\ Reported.committed)
           => /\ TxsOf(reader.req) \cap onChain # {}
              /\ <<reader.req, Reported.bid>> \in bids]_StatusVars
  BY <1>1
<1> QED
  BY <1>2, StatusInvariance, PTL DEF ReportedCommitIsTrue

(***************************************************************************)
(* PART 3.  What ZenithTrades guarantees when a block is handled before    *)
(* the next one is notified, so that one goroutine runs at a time.  The    *)
(* results assume, in this order, nothing else; that the nodes answer and  *)
(* miss no TX; and that the feed delivers every block and Zenith every     *)
(* reply too.                                                              *)
(***************************************************************************)
OneGoroutine == \E w : Workers = {w}

Reliable == ~RpcMayFail /\ ~FeedMayGap /\ ~ReplyMayBeLost

Bidding == {"sign", "reply", "update"}
Executing == {"auctions", "offer"} \cup Bidding
Parsing == {"parse", "recheck", "dispatch", "search", "record"}

\* The goroutine treats r in one of the stages.
At(w, r, stages) == worker[w].pc \in stages /\ worker[w].req = r

(***************************************************************************)
(* What each action does to the goroutine's locals and to the fields of    *)
(* the set it stores that the invariants below read.                       *)
(***************************************************************************)
OthersKept(r) == \A q \in ZenithRequests \ {r} : trade'[q] = trade[q]

\* The set of r keeps its bid, its TXs, its commit and its fees.
Unaltered(r) ==
  /\ trade'[r].bid = trade[r].bid /\ trade'[r].tradeTxs = trade[r].tradeTxs
  /\ trade'[r].committed = trade[r].committed
  /\ trade'[r].zenithFees = trade[r].zenithFees

\* The goroutine's height, auctions and what it looked up stay.
KeepsHeight(w) == worker'[w].height = worker[w].height
KeepsAuction(w) ==
  /\ worker'[w].blocks = worker[w].blocks /\ worker'[w].block = worker[w].block
KeepsLookups(w) ==
  /\ worker'[w].sought = worker[w].sought /\ worker'[w].found = worker[w].found

LEMMA BecomeIs ==
  ASSUME IInv, NEW w \in Workers, NEW me, Become(w, me)
  PROVE  worker'[w] = me /\ worker[w] \in Worker
  BY DEF IInv, TypeOK, Become

LEMMA StoreIs ==
  ASSUME IInv, NEW r \in ZenithRequests, NEW s, Store(r, s)
  PROVE  trade'[r] = s /\ OthersKept(r) /\ trade[r] \in ZenithTxSet
  BY DEF IInv, TypeOK, Store, OthersKept

LEMMA ReceiveBlockEffect ==
  ASSUME IInv, NEW w \in Workers, ReceiveBlock(w)
  PROVE  /\ worker[w].pc = "idle" /\ worker'[w].pc = "execute"
         /\ lastHeight' \in (lastHeight + 1)..chainHeight
         /\ FeedMayGap \/ lastHeight' = lastHeight + 1
         /\ KeepsHeight(w) /\ KeepsAuction(w) /\ KeepsLookups(w)
         /\ worker'[w].req = worker[w].req /\ worker'[w].todo = worker[w].todo
         /\ UNCHANGED <<env, txqueue, trade>>
<1>1. /\ Become(w, [worker[w] EXCEPT !.pc = "execute"]) /\ UNCHANGED <<env, txqueue, trade>>
      /\ worker[w].pc = "idle" /\ lastHeight' \in (lastHeight + 1)..chainHeight
      /\ FeedMayGap \/ lastHeight' = lastHeight + 1
  BY DEF ReceiveBlock
<1>2. worker'[w] = [worker[w] EXCEPT !.pc = "execute"] /\ worker[w] \in Worker
  BY <1>1, BecomeIs
<1> QED
  BY <1>1, <1>2 DEF Worker, KeepsHeight, KeepsAuction, KeepsLookups

LEMMA StartExecuteEffect ==
  ASSUME IInv, NEW w \in Workers, StartExecute(w)
  PROVE  /\ worker[w].pc = "execute" /\ worker'[w].pc = "auctions"
         /\ worker'[w].height = lastHeight
         /\ \A b \in worker'[w].blocks : b \in Heights /\ b > lastHeight
         /\ KeepsLookups(w)
         /\ worker'[w].req = worker[w].req /\ worker'[w].todo = worker[w].todo
         /\ UNCHANGED <<env, lastHeight, txqueue, trade>>
<1> PICK found \in SUBSET (AuctionHeights \cap ((lastHeight + 1)..(lastHeight + Lookahead - 1))) :
      Become(w, [worker[w] EXCEPT !.pc = "auctions", !.height = lastHeight, !.blocks = found])
  BY DEF StartExecute
<1>1. worker[w].pc = "execute" /\ UNCHANGED <<env, lastHeight, txqueue, trade>>
  BY DEF StartExecute
<1>2. /\ worker'[w] = [worker[w] EXCEPT !.pc = "auctions", !.height = lastHeight, !.blocks = found]
      /\ worker[w] \in Worker
  BY BecomeIs
<1>3. \A b \in found : b \in Heights /\ b > lastHeight
  BY ConstantsAssumption DEF IInv, TypeOK
<1> QED
  BY <1>1, <1>2, <1>3 DEF Worker, KeepsLookups

LEMMA OfferToAuctionEffect ==
  ASSUME IInv, NEW w \in Workers, OfferToAuction(w)
  PROVE  /\ worker[w].pc = "auctions" /\ worker'[w].pc = "offer"
         /\ worker'[w].block \in worker[w].blocks /\ worker'[w].blocks \subseteq worker[w].blocks
         /\ worker'[w].todo = txqueue
         /\ KeepsHeight(w) /\ KeepsLookups(w) /\ worker'[w].req = worker[w].req
         /\ UNCHANGED <<env, lastHeight, txqueue, trade>>
<1> PICK b \in worker[w].blocks :
      Become(w, [worker[w] EXCEPT !.pc = "offer", !.block = b, !.todo = txqueue,
                                  !.blocks = @ \ {b}])
  BY DEF OfferToAuction
<1>1. worker[w].pc = "auctions" /\ UNCHANGED <<env, lastHeight, txqueue, trade>>
  BY DEF OfferToAuction
<1>2. /\ worker'[w] = [worker[w] EXCEPT !.pc = "offer", !.block = b, !.todo = txqueue,
                                        !.blocks = @ \ {b}]
      /\ worker[w] \in Worker
  BY BecomeIs
<1> QED
  BY <1>1, <1>2 DEF Worker, KeepsHeight, KeepsLookups

LEMMA LeaveRangeEffect ==
  ASSUME IInv, NEW w \in Workers, LeaveRange(w)
  PROVE  /\ worker'[w].pc = "auctions" /\ worker'[w].req = NoRequest /\ worker'[w].todo = {}
         /\ worker'[w].blocks = worker[w].blocks
         /\ KeepsHeight(w) /\ KeepsLookups(w)
<1>1. /\ worker'[w] = [worker[w] EXCEPT !.pc = "auctions", !.block = 0, !.todo = {},
                                        !.req = NoRequest]
      /\ worker[w] \in Worker
  BY BecomeIs DEF LeaveRange
<1> QED
  BY <1>1 DEF Worker, KeepsHeight, KeepsLookups

\* A visit of the queue stores the height of the set it passes over or offers.
LEMMA PassOverEffect ==
  ASSUME IInv, NEW w \in Workers, NEW r \in ZenithRequests, PassOver(w, r)
  PROVE  /\ worker[w].pc = "offer" /\ worker'[w].pc = "offer"
         /\ worker'[w].todo = worker[w].todo \ {r} /\ worker'[w].req = worker[w].req
         /\ KeepsHeight(w) /\ KeepsAuction(w) /\ KeepsLookups(w)
         /\ trade'[r].lastChainHeight = worker[w].height /\ Unaltered(r) /\ OthersKept(r)
         /\ UNCHANGED <<env, lastHeight, txqueue>>
<1>1. worker[w].pc = "offer" /\ UNCHANGED <<env, lastHeight, txqueue>>
  BY DEF PassOver
<1>2. worker'[w] = [worker[w] EXCEPT !.todo = @ \ {r}] /\ worker[w] \in Worker
  BY BecomeIs DEF PassOver
<1>3. /\ trade'[r] = [trade[r] EXCEPT !.lastChainHeight = worker[w].height]
      /\ OthersKept(r) /\ trade[r] \in ZenithTxSet
  BY StoreIs DEF PassOver, Touched
<1>4. trade'[r].lastChainHeight = worker[w].height /\ Unaltered(r)
  BY <1>3 DEF ZenithTxSet, Unaltered
<1> QED
  BY <1>1, <1>2, <1>3, <1>4 DEF Worker, KeepsHeight, KeepsAuction, KeepsLookups

LEMMA ChooseToBidEffect ==
  ASSUME IInv, NEW w \in Workers, NEW r \in ZenithRequests, ChooseToBid(w, r)
  PROVE  /\ worker[w].pc = "offer" /\ worker'[w].pc = "sign"
         /\ r \in worker[w].todo /\ worker'[w].todo = worker[w].todo /\ worker'[w].req = r
         /\ trade[r].bid = 0 \/ (worker[w].height > trade[r].bid /\ ~trade[r].committed)
         /\ KeepsHeight(w) /\ KeepsAuction(w) /\ KeepsLookups(w)
         /\ trade'[r].lastChainHeight = worker[w].height /\ Unaltered(r) /\ OthersKept(r)
         /\ UNCHANGED <<env, lastHeight, txqueue>>
<1>1. /\ worker[w].pc = "offer" /\ r \in worker[w].todo /\ UNCHANGED <<env, lastHeight, txqueue>>
      /\ IsAwaitingZenithBlock([trade[r] EXCEPT !.lastChainHeight = worker[w].height])
  BY DEF ChooseToBid, Touched
<1>2. worker'[w] = [worker[w] EXCEPT !.pc = "sign", !.req = r] /\ worker[w] \in Worker
  BY BecomeIs DEF ChooseToBid
<1>3. /\ trade'[r] = [trade[r] EXCEPT !.lastChainHeight = worker[w].height]
      /\ OthersKept(r) /\ trade[r] \in ZenithTxSet
  BY StoreIs DEF ChooseToBid, Touched
<1>4. trade'[r].lastChainHeight = worker[w].height /\ Unaltered(r)
  BY <1>3 DEF ZenithTxSet, Unaltered
<1>5. trade[r].bid = 0 \/ (worker[w].height > trade[r].bid /\ ~trade[r].committed)
  BY <1>1, <1>3 DEF ZenithTxSet, IsAwaitingZenithBlock
<1> QED
  BY <1>1, <1>2, <1>3, <1>4, <1>5 DEF Worker, KeepsHeight, KeepsAuction, KeepsLookups

LEMMA PlaceBidEffect ==
  ASSUME IInv, NEW w \in Workers, PlaceBid(w)
  PROVE  /\ worker[w].pc = "sign" /\ worker'[w].pc = "reply"
         /\ worker[w].req \in ZenithRequests /\ worker[w].block \in Heights
         /\ bids' = bids \cup {<<worker[w].req, worker[w].block>>}
         /\ worker'[w].req = worker[w].req /\ worker'[w].todo = worker[w].todo
         /\ KeepsHeight(w) /\ KeepsAuction(w) /\ KeepsLookups(w)
         /\ UNCHANGED <<chainHeight, onChain, succeeded, lastHeight, txqueue, trade>>
<1>1. /\ worker[w].pc = "sign" /\ bids' = bids \cup {<<worker[w].req, worker[w].block>>}
      /\ UNCHANGED <<chainHeight, onChain, succeeded, lastHeight, txqueue, trade>>
  BY DEF PlaceBid
<1>2. worker'[w] = [worker[w] EXCEPT !.pc = "reply"] /\ worker[w] \in Worker
  BY BecomeIs DEF PlaceBid
<1>3. worker[w].req \in ZenithRequests /\ worker[w].block \in Heights
  BY <1>1, FitsNow DEF LocalsFit, InRange, HoldsRequest
<1> QED
  BY <1>1, <1>2, <1>3 DEF Worker, KeepsHeight, KeepsAuction, KeepsLookups

LEMMA RecordBidErrorEffect ==
  ASSUME IInv, NEW w \in Workers, worker[w].pc \in {"sign", "reply"}, RecordBidError(w)
  PROVE  LET r == worker[w].req
         IN  /\ r \in ZenithRequests
             /\ LeaveRange(w)
             /\ trade'[r].lastChainHeight = trade[r].lastChainHeight
             /\ Unaltered(r) /\ OthersKept(r)
             /\ UNCHANGED <<env, lastHeight, txqueue>>
<1> DEFINE r == worker[w].req
<1>1. r \in ZenithRequests /\ LeaveRange(w) /\ UNCHANGED <<env, lastHeight, txqueue>>
  BY FitsNow DEF RecordBidError, LocalsFit, HoldsRequest
<1>2. /\ trade'[r] = [trade[r] EXCEPT !.hotFees = EstimatedFees]
      /\ OthersKept(r) /\ trade[r] \in ZenithTxSet
  BY <1>1, StoreIs DEF RecordBidError
<1>3. trade'[r].lastChainHeight = trade[r].lastChainHeight /\ Unaltered(r)
  BY <1>2 DEF ZenithTxSet, Unaltered
<1> QED
  BY <1>1, <1>2, <1>3

LEMMA BidAcceptedEffect ==
  ASSUME IInv, NEW w \in Workers, BidAccepted(w)
  PROVE  LET r == worker[w].req
         IN  /\ worker[w].pc = "reply" /\ worker'[w].pc = "update"
             /\ r \in ZenithRequests /\ worker[w].block \in Heights
             /\ worker'[w].req = r /\ worker'[w].todo = worker[w].todo
             /\ KeepsHeight(w) /\ KeepsAuction(w) /\ KeepsLookups(w)
             /\ trade'[r].bid = worker[w].block /\ trade'[r].tradeTxs = trade[r].tradeTxs
             /\ trade'[r].committed = trade[r].committed
             /\ trade'[r].zenithFees = trade[r].zenithFees
             /\ trade'[r].lastChainHeight = trade[r].lastChainHeight /\ OthersKept(r)
             /\ UNCHANGED <<env, lastHeight, txqueue>>
<1> DEFINE r == worker[w].req
<1>1. /\ worker[w].pc = "reply" /\ r \in ZenithRequests /\ worker[w].block \in Heights
      /\ UNCHANGED <<env, lastHeight, txqueue>>
  BY FitsNow DEF BidAccepted, LocalsFit, InRange, HoldsRequest
<1>2. worker'[w] = [worker[w] EXCEPT !.pc = "update"] /\ worker[w] \in Worker
  BY BecomeIs DEF BidAccepted
<1>3. /\ trade'[r] = [trade[r] EXCEPT !.hotFees = EstimatedFees,
                                      !.bid = worker[w].block]
      /\ OthersKept(r) /\ trade[r] \in ZenithTxSet
  BY <1>1, StoreIs DEF BidAccepted
<1>4. /\ trade'[r].bid = worker[w].block /\ trade'[r].tradeTxs = trade[r].tradeTxs
      /\ trade'[r].committed = trade[r].committed /\ trade'[r].zenithFees = trade[r].zenithFees
      /\ trade'[r].lastChainHeight = trade[r].lastChainHeight
  BY <1>3 DEF ZenithTxSet
<1> QED
  BY <1>1, <1>2, <1>3, <1>4 DEF Worker, KeepsHeight, KeepsAuction, KeepsLookups

LEMMA UpdateZenithTxSetEffect ==
  ASSUME IInv, NEW w \in Workers, UpdateZenithTxSet(w)
  PROVE  LET r == worker[w].req
         IN  /\ worker[w].pc = "update" /\ r \in ZenithRequests
             /\ LeaveRange(w)
             /\ trade'[r].bid = trade[r].bid /\ trade'[r].tradeTxs = BidTxs(r, worker[w].block)
             /\ trade'[r].committed = trade[r].committed
             /\ trade'[r].zenithFees = trade[r].zenithFees
             /\ trade'[r].lastChainHeight = trade[r].lastChainHeight /\ OthersKept(r)
             /\ UNCHANGED <<env, lastHeight, txqueue>>
<1> DEFINE r == worker[w].req
           txs == BidTxs(r, worker[w].block)
<1>1. /\ worker[w].pc = "update" /\ r \in ZenithRequests /\ LeaveRange(w)
      /\ UNCHANGED <<env, lastHeight, txqueue>>
  BY FitsNow DEF UpdateZenithTxSet, LocalsFit, HoldsRequest
<1>2. /\ trade'[r] = WithBidTxs(trade[r], txs)
      /\ OthersKept(r) /\ trade[r] \in ZenithTxSet
  BY <1>1, StoreIs DEF UpdateZenithTxSet
<1> HIDE DEF txs
<1>3. /\ trade'[r].bid = trade[r].bid /\ trade'[r].tradeTxs = txs
      /\ trade'[r].committed = trade[r].committed /\ trade'[r].zenithFees = trade[r].zenithFees
      /\ trade'[r].lastChainHeight = trade[r].lastChainHeight
  BY <1>2 DEF ZenithTxSet, WithBidTxs
<1> QED
  BY <1>1, <1>2, <1>3 DEF txs

LEMMA StartParseEffect ==
  ASSUME IInv, NEW w \in Workers, StartParse(w)
  PROVE  /\ worker[w].pc = "auctions" /\ worker'[w].pc = "parse"
         /\ worker'[w].height = lastHeight /\ worker'[w].todo = txqueue \cap ZenithRequests
         /\ worker'[w].req = worker[w].req
         /\ KeepsAuction(w) /\ KeepsLookups(w)
         /\ UNCHANGED <<env, lastHeight, txqueue, trade>>
<1>1. worker[w].pc = "auctions" /\ UNCHANGED <<env, lastHeight, txqueue, trade>>
  BY DEF StartParse
<1>2. /\ worker'[w] = [worker[w] EXCEPT !.pc = "parse", !.height = lastHeight,
                                        !.todo = txqueue \cap ZenithRequests]
      /\ worker[w] \in Worker
  BY BecomeIs DEF StartParse
<1> QED
  BY <1>1, <1>2 DEF Worker, KeepsAuction, KeepsLookups

LEMMA StopParseEffect ==
  ASSUME IInv, NEW w \in Workers, ParseClientError(w) \/ EndParse(w)
  PROVE  /\ \/ worker[w].pc = "auctions" /\ RpcMayFail
            \/ worker[w].pc = "parse" /\ worker[w].todo = {}
         /\ worker'[w] = IdleWorker
         /\ UNCHANGED <<env, lastHeight, txqueue, trade>>
  BY BecomeIs DEF ParseClientError, EndParse

LEMMA VisitTradeEffect ==
  ASSUME IInv, NEW w \in Workers, NEW r \in ZenithRequests, VisitTrade(w, r)
  PROVE  LET again == /\ trade[r].committed /\ trade[r].bid # 0
                      /\ worker[w].height > trade[r].bid
         IN  /\ worker[w].pc = "parse" /\ r \in worker[w].todo
             /\ worker'[w].req = r /\ worker'[w].todo = worker[w].todo
             /\ worker'[w].found = worker[w].found
             /\ KeepsHeight(w) /\ KeepsAuction(w)
             /\ \/ /\ again /\ trade[r].tradeTxs # <<>>
                   /\ worker'[w].pc = "recheck" /\ worker'[w].sought = trade[r].tradeTxs
                   /\ trade'[r].committed = trade[r].committed
                \/ /\ again /\ trade[r].tradeTxs = <<>>
                   /\ worker'[w].pc = "dispatch" /\ worker'[w].sought = <<>>
                   /\ trade'[r].committed = FALSE
                \/ /\ ~again
                   /\ worker'[w].pc = "dispatch" /\ worker'[w].sought = <<>>
                   /\ trade'[r].committed = trade[r].committed
             /\ trade'[r].lastChainHeight = worker[w].height
             /\ trade'[r].bid = trade[r].bid /\ trade'[r].tradeTxs = trade[r].tradeTxs
             /\ trade'[r].zenithFees = trade[r].zenithFees /\ OthersKept(r)
             /\ UNCHANGED <<env, lastHeight, txqueue>>
<1> DEFINE s == Touched(r, worker[w].height)
           recheck == MustRecheck(s) /\ s.tradeTxs # <<>>
           again == trade[r].committed /\ trade[r].bid # 0 /\ worker[w].height > trade[r].bid
<1>1. /\ worker[w].pc = "parse" /\ r \in worker[w].todo /\ UNCHANGED <<env, lastHeight, txqueue>>
  BY DEF VisitTrade
<1>2. /\ worker'[w] = [worker[w] EXCEPT !.pc = IF recheck THEN "recheck" ELSE "dispatch",
                                        !.req = r,
                                        !.sought = IF recheck THEN s.tradeTxs ELSE <<>>]
      /\ worker[w] \in Worker
  BY BecomeIs DEF VisitTrade
<1>3. /\ trade'[r] = [s EXCEPT !.committed = s.committed /\ (MustRecheck(s) => recheck)]
      /\ OthersKept(r) /\ trade[r] \in ZenithTxSet
  BY StoreIs DEF VisitTrade
<1>4. /\ s.lastChainHeight = worker[w].height /\ s.bid = trade[r].bid
      /\ s.tradeTxs = trade[r].tradeTxs /\ s.committed = trade[r].committed
      /\ s.zenithFees = trade[r].zenithFees /\ DOMAIN s = DOMAIN trade[r]
      /\ DOMAIN s = DOMAIN NewZenithTxSet
  BY <1>3 DEF Touched, ZenithTxSet, NewZenithTxSet
<1>5. MustRecheck(s) <=> again
  BY <1>4 DEF MustRecheck
<1>6. trade[r].committed \in BOOLEAN
  BY <1>3 DEF ZenithTxSet
<1> HIDE DEF s
<1>7. /\ trade'[r].lastChainHeight = worker[w].height
      /\ trade'[r].bid = trade[r].bid /\ trade'[r].tradeTxs = trade[r].tradeTxs
      /\ trade'[r].zenithFees = trade[r].zenithFees
      /\ trade'[r].committed = (trade[r].committed /\ (again => trade[r].tradeTxs # <<>>))
  BY <1>3, <1>4, <1>5 DEF NewZenithTxSet
<1>8. /\ worker'[w].req = r /\ worker'[w].todo = worker[w].todo
      /\ worker'[w].found = worker[w].found /\ KeepsHeight(w) /\ KeepsAuction(w)
      /\ worker'[w].pc = IF again /\ trade[r].tradeTxs # <<>> THEN "recheck" ELSE "dispatch"
      /\ worker'[w].sought = IF again /\ trade[r].tradeTxs # <<>> THEN trade[r].tradeTxs ELSE <<>>
  BY <1>2, <1>4, <1>5 DEF Worker, KeepsHeight, KeepsAuction
<1> HIDE DEF again
<1>9. CASE again /\ trade[r].tradeTxs # <<>>
  BY <1>1, <1>3, <1>6, <1>7, <1>8, <1>9 DEF again
<1>10. CASE again /\ trade[r].tradeTxs = <<>>
  BY <1>1, <1>3, <1>6, <1>7, <1>8, <1>10 DEF again
<1>11. CASE ~again
  BY <1>1, <1>3, <1>6, <1>7, <1>8, <1>11 DEF again
<1> QED
  BY <1>9, <1>10, <1>11

LEMMA LookUpEffect ==
  ASSUME IInv, NEW w \in Workers, LookUp(w)
  PROVE  LET t == Head(worker[w].sought)
         IN  /\ worker[w].pc \in LooksUp /\ worker[w].sought # <<>>
             /\ worker'[w].pc = worker[w].pc /\ worker'[w].req = worker[w].req
             /\ worker'[w].todo = worker[w].todo
             /\ KeepsHeight(w) /\ KeepsAuction(w)
             /\ worker'[w].sought = Tail(worker[w].sought)
             /\ \/ t \in onChain /\ worker'[w].found = Append(worker[w].found, t)
                \/ (RpcMayFail \/ t \notin onChain) /\ worker'[w].found = worker[w].found
             /\ UNCHANGED <<env, lastHeight, txqueue, trade>>
<1> DEFINE t == Head(worker[w].sought)
<1> PICK hit \in BOOLEAN :
      /\ hit => t \in onChain
      /\ hit \/ RpcMayFail \/ t \notin onChain
      /\ Become(w, [worker[w] EXCEPT !.sought = Tail(@),
                                     !.found = IF hit THEN Append(@, t) ELSE @])
  BY DEF LookUp
<1>1. /\ worker[w].pc \in LooksUp /\ worker[w].sought # <<>>
      /\ UNCHANGED <<env, lastHeight, txqueue, trade>>
  BY DEF LookUp, LooksUp
<1>2. /\ worker'[w] = [worker[w] EXCEPT !.sought = Tail(@),
                                        !.found = IF hit THEN Append(@, t) ELSE @]
      /\ worker[w] \in Worker
  BY BecomeIs
<1> HIDE DEF t
<1>3. /\ worker'[w].pc = worker[w].pc /\ worker'[w].req = worker[w].req
      /\ worker'[w].todo = worker[w].todo /\ KeepsHeight(w) /\ KeepsAuction(w)
      /\ worker'[w].sought = Tail(worker[w].sought)
      /\ worker'[w].found = IF hit THEN Append(worker[w].found, t) ELSE worker[w].found
  BY <1>2 DEF Worker, KeepsHeight, KeepsAuction
<1> QED
  BY <1>1, <1>3 DEF t

LEMMA RecheckDoneEffect ==
  ASSUME IInv, NEW w \in Workers, RecheckDone(w)
  PROVE  LET r == worker[w].req
         IN  /\ worker[w].pc = "recheck" /\ worker[w].sought = <<>> /\ r \in ZenithRequests
             /\ worker'[w].pc = "dispatch" /\ worker'[w].req = r
             /\ worker'[w].todo = worker[w].todo
             /\ worker'[w].sought = worker[w].sought /\ worker'[w].found = <<>>
             /\ KeepsHeight(w) /\ KeepsAuction(w)
             /\ \/ worker[w].found = <<>> /\ trade'[r].committed = FALSE
                \/ worker[w].found # <<>> /\ trade'[r].committed = trade[r].committed
             /\ trade'[r].lastChainHeight = trade[r].lastChainHeight
             /\ trade'[r].bid = trade[r].bid /\ trade'[r].tradeTxs = trade[r].tradeTxs
             /\ trade'[r].zenithFees = trade[r].zenithFees /\ OthersKept(r)
             /\ UNCHANGED <<env, lastHeight, txqueue>>
<1> DEFINE r == worker[w].req
           still == trade[r].committed /\ worker[w].found # <<>>
<1>1. /\ worker[w].pc = "recheck" /\ worker[w].sought = <<>> /\ r \in ZenithRequests
      /\ UNCHANGED <<env, lastHeight, txqueue>>
  BY FitsNow DEF RecheckDone, LocalsFit, HoldsRequest
<1>2. worker'[w] = [worker[w] EXCEPT !.pc = "dispatch", !.found = <<>>] /\ worker[w] \in Worker
  BY BecomeIs DEF RecheckDone
<1>3. /\ trade'[r] = [trade[r] EXCEPT !.committed = still]
      /\ OthersKept(r) /\ trade[r] \in ZenithTxSet
  BY <1>1, StoreIs DEF RecheckDone, StillOnChain
<1>4. trade[r].committed \in BOOLEAN
  BY <1>3 DEF ZenithTxSet
<1>5. worker[w].found = <<>> => still = FALSE
  BY Zenon
<1>6. worker[w].found # <<>> => still = trade[r].committed
  BY <1>4, Zenon
<1> HIDE DEF still
<1>7. /\ trade'[r].lastChainHeight = trade[r].lastChainHeight /\ trade'[r].bid = trade[r].bid
      /\ trade'[r].tradeTxs = trade[r].tradeTxs /\ trade'[r].zenithFees = trade[r].zenithFees
      /\ trade'[r].committed = still
  BY <1>3 DEF ZenithTxSet
<1> QED
  BY <1>1, <1>2, <1>3, <1>5, <1>6, <1>7 DEF Worker, KeepsHeight, KeepsAuction

LEMMA NextTradeEffect ==
  ASSUME IInv, NEW w \in Workers, NextTrade(w)
  PROVE  /\ worker'[w].pc = "parse" /\ worker'[w].req = NoRequest
         /\ worker'[w].todo = worker[w].todo \ {worker[w].req}
         /\ worker'[w].sought = worker[w].sought /\ worker'[w].found = <<>>
         /\ KeepsHeight(w) /\ KeepsAuction(w)
<1>1. /\ worker'[w] = [worker[w] EXCEPT !.pc = "parse", !.req = NoRequest, !.found = <<>>,
                                        !.todo = @ \ {worker[w].req}]
      /\ worker[w] \in Worker
  BY BecomeIs DEF NextTrade
<1> QED
  BY <1>1 DEF Worker, KeepsHeight, KeepsAuction

LEMMA StartSearchEffect ==
  ASSUME IInv, NEW w \in Workers, StartSearch(w)
  PROVE  LET r == worker[w].req
         IN  /\ worker[w].pc = "dispatch" /\ r \in ZenithRequests /\ worker'[w].pc = "search"
             /\ ~trade[r].committed /\ trade[r].bid # 0
             /\ worker'[w].req = r /\ worker'[w].todo = worker[w].todo
             /\ worker'[w].sought = trade[r].tradeTxs /\ worker'[w].found = <<>>
             /\ KeepsHeight(w) /\ KeepsAuction(w)
             /\ UNCHANGED <<env, lastHeight, txqueue, trade>>
<1> DEFINE r == worker[w].req
<1>1. /\ worker[w].pc = "dispatch" /\ r \in ZenithRequests /\ worker[w].found = <<>>
      /\ UNCHANGED <<env, lastHeight, txqueue, trade>>
  BY FitsNow DEF StartSearch, LocalsFit, HoldsRequest, Looking, LooksUp
<1>2. ~trade[r].committed /\ trade[r].bid # 0
  BY DEF StartSearch, IsAwaitingZenithBlock
<1>3. /\ worker'[w] = [worker[w] EXCEPT !.pc = "search", !.sought = trade[r].tradeTxs]
      /\ worker[w] \in Worker
  BY BecomeIs DEF StartSearch
<1> QED
  BY <1>1, <1>2, <1>3 DEF Worker, KeepsHeight, KeepsAuction

LEMMA CommitFoundEffect ==
  ASSUME IInv, NEW w \in Workers, CommitFound(w)
  PROVE  LET r == worker[w].req
         IN  /\ worker[w].pc = "search" /\ worker[w].sought = <<>> /\ r \in ZenithRequests
             /\ worker[w].found # <<>>
             /\ worker'[w].pc = "record" /\ worker'[w].req = r
             /\ worker'[w].todo = worker[w].todo
             /\ KeepsHeight(w) /\ KeepsAuction(w) /\ KeepsLookups(w)
             /\ trade'[r].committed = TRUE /\ trade'[r].tradeTxs = <<>>
             /\ trade'[r].lastChainHeight = trade[r].lastChainHeight
             /\ trade'[r].bid = trade[r].bid /\ trade'[r].zenithFees = trade[r].zenithFees
             /\ OthersKept(r)
             /\ UNCHANGED <<env, lastHeight, txqueue>>
<1> DEFINE r == worker[w].req
<1>1. /\ worker[w].pc = "search" /\ worker[w].sought = <<>> /\ r \in ZenithRequests
      /\ worker[w].found # <<>> /\ UNCHANGED <<env, lastHeight, txqueue>>
  BY FitsNow DEF CommitFound, EnoughFound, LocalsFit, HoldsRequest
<1>2. worker'[w] = [worker[w] EXCEPT !.pc = "record"] /\ worker[w] \in Worker
  BY BecomeIs DEF CommitFound
<1>3. /\ trade'[r] = [trade[r] EXCEPT !.committed = TRUE, !.tradeTxs = <<>>, !.hotFees = 0]
      /\ OthersKept(r) /\ trade[r] \in ZenithTxSet
  BY <1>1, StoreIs DEF CommitFound
<1>4. /\ trade'[r].committed = TRUE /\ trade'[r].tradeTxs = <<>>
      /\ trade'[r].lastChainHeight = trade[r].lastChainHeight
      /\ trade'[r].bid = trade[r].bid /\ trade'[r].zenithFees = trade[r].zenithFees
  BY <1>3 DEF ZenithTxSet
<1> QED
  BY <1>1, <1>2, <1>3, <1>4 DEF Worker, KeepsHeight, KeepsAuction, KeepsLookups

LEMMA RecordFoundEffect ==
  ASSUME IInv, NEW w \in Workers, RecordFound(w)
  PROVE  LET r == worker[w].req
         IN  /\ worker[w].pc = "record" /\ worker[w].sought = <<>> /\ r \in ZenithRequests
             /\ NextTrade(w)
             /\ trade'[r].tradeTxs = trade[r].tradeTxs \o worker[w].found
             /\ trade'[r].committed = trade[r].committed
             /\ trade'[r].lastChainHeight = trade[r].lastChainHeight
             /\ trade'[r].bid = trade[r].bid
             /\ trade'[r].zenithFees
                  = trade[r].zenithFees + Charge(worker[w].found, succeeded \ {UserTx(r)})
             /\ OthersKept(r)
             /\ UNCHANGED <<env, lastHeight, txqueue>>
<1> DEFINE r == worker[w].req
           found == worker[w].found
           arbs == Charge(found, succeeded \ {UserTx(r)})
           paid == trade[r].userFees + Charge(found, succeeded \cap {UserTx(r)})
           hot == trade[r].hotFees + arbs
           charged == trade[r].zenithFees + arbs
           earned == RecordRevenue(trade[r].revenue, ArbProfit * arbs)
           all == trade[r].tradeTxs \o found
<1>1. /\ worker[w].pc = "record" /\ worker[w].sought = <<>> /\ r \in ZenithRequests
      /\ NextTrade(w) /\ UNCHANGED <<env, lastHeight, txqueue>>
  BY FitsNow DEF RecordFound, LocalsFit, HoldsRequest, LooksUp
<1>2. /\ trade'[r] = WithTxs(trade[r], r, found)
      /\ OthersKept(r) /\ trade[r] \in ZenithTxSet
  BY <1>1, StoreIs DEF RecordFound
<1>3. WithTxs(trade[r], r, found)
        = [trade[r] EXCEPT !.tradeTxs = all, !.userFees = paid, !.hotFees = hot,
                           !.zenithFees = charged, !.revenue = earned]
  BY DEF WithTxs
<1> HIDE DEF paid, hot, charged, earned, all
<1>4. /\ trade'[r].tradeTxs = all
      /\ trade'[r].committed = trade[r].committed
      /\ trade'[r].lastChainHeight = trade[r].lastChainHeight
      /\ trade'[r].bid = trade[r].bid /\ trade'[r].zenithFees = charged
  BY <1>2, <1>3 DEF ZenithTxSet
<1> QED
  BY <1>1, <1>2, <1>4 DEF charged, all

LEMMA SettleEffect ==
  ASSUME IInv, NEW w \in Workers, Summarise(w) \/ AwaitShare(w)
  PROVE  LET r == worker[w].req
         IN  /\ worker[w].pc = "dispatch" /\ worker[w].sought = <<>> /\ r \in ZenithRequests
             /\ trade[r].committed
             /\ NextTrade(w)
             /\ trade'[r].lastChainHeight = trade[r].lastChainHeight
             /\ Unaltered(r) /\ OthersKept(r)
             /\ UNCHANGED <<env, lastHeight, txqueue>>
<1> DEFINE r == worker[w].req
           s == trade[r]
<1>1. /\ worker[w].pc = "dispatch" /\ worker[w].sought = <<>> /\ r \in ZenithRequests
      /\ s.committed /\ NextTrade(w) /\ UNCHANGED <<env, lastHeight, txqueue>>
  BY FitsNow DEF Summarise, AwaitShare, AwaitsShare, LocalsFit, HoldsRequest, LooksUp
<1>2. PICK sent \in BOOLEAN, seen \in BOOLEAN :
        \/ Store(r, [s EXCEPT !.initiated = TRUE, !.profit = HotWalletProfit(s),
                              !.shareSent = sent])
        \/ Store(r, [s EXCEPT !.shareCommitted = seen])
  BY Zenon DEF Summarise, AwaitShare
<1> DEFINE summary == [s EXCEPT !.initiated = TRUE, !.profit = HotWalletProfit(s),
                                !.shareSent = sent]
           awaited == [s EXCEPT !.shareCommitted = seen]
<1> HIDE DEF summary, awaited
<1>3. (trade'[r] = summary \/ trade'[r] = awaited) /\ OthersKept(r) /\ s \in ZenithTxSet
  <2>1. Store(r, summary) \/ Store(r, awaited)
    BY <1>2 DEF summary, awaited
  <2> QED
    BY <1>1, <2>1, StoreIs
<1>4. ASSUME NEW new \in {summary, awaited}
      PROVE  /\ new.lastChainHeight = s.lastChainHeight /\ new.bid = s.bid
             /\ new.tradeTxs = s.tradeTxs /\ new.committed = s.committed
             /\ new.zenithFees = s.zenithFees
  <2>1. CASE new = summary
    BY <1>3, <2>1 DEF ZenithTxSet, summary
  <2>2. CASE new = awaited
    BY <1>3, <2>2 DEF ZenithTxSet, awaited
  <2> QED
    BY <2>1, <2>2
<1>5. trade'[r].lastChainHeight = trade[r].lastChainHeight /\ Unaltered(r)
  BY <1>3, <1>4 DEF Unaltered
<1> QED
  BY <1>1, <1>3, <1>5

LEMMA StillWaitingEffect ==
  ASSUME IInv, NEW w \in Workers, StillWaiting(w)
  PROVE  LET r == worker[w].req
         IN  /\ worker[w].pc = "search" /\ worker[w].sought = <<>> /\ r \in ZenithRequests
             /\ worker[w].found = <<>> \/ trade[r].tradeTxs = <<>>
             /\ NextTrade(w) /\ UNCHANGED <<env, lastHeight, txqueue, trade>>
  BY FitsNow DEF StillWaiting, EnoughFound, LocalsFit, HoldsRequest

LEMMA NothingToDoEffect ==
  ASSUME IInv, NEW w \in Workers, NothingToDo(w)
  PROVE  LET r == worker[w].req
         IN  /\ worker[w].pc = "dispatch" /\ worker[w].sought = <<>> /\ r \in ZenithRequests
             /\ \/ trade[r].committed \/ trade[r].bid = 0
                \/ trade[r].lastChainHeight > trade[r].bid
             /\ NextTrade(w) /\ UNCHANGED <<env, lastHeight, txqueue, trade>>
  BY FitsNow DEF NothingToDo, IsAwaitingZenithBlock, LocalsFit, HoldsRequest, LooksUp

LEMMA PanicEffect ==
  ASSUME IInv, NEW w \in Workers, Panic(w)
  PROVE  LET r == worker[w].req
         IN  /\ worker[w].pc = "dispatch" /\ r \in ZenithRequests
             /\ trade[r].committed /\ trade[r].tradeTxs = <<>>
  BY FitsNow DEF Panic, LocalsFit, HoldsRequest

LEMMA ParseFailsEffect ==
  ASSUME IInv, NEW w \in Workers, ParseFails(w)
  PROVE  /\ RpcMayFail /\ worker[w].pc \in LooksUp
         /\ worker'[w].pc = "exited" /\ worker'[w].todo = {}
         /\ UNCHANGED <<env, lastHeight, txqueue, trade>>
  BY DEF ParseFails, Become, IdleWorker, LooksUp, IInv, TypeOK

LEMMA Types ==
  ASSUME IInv
  PROVE  /\ lastHeight \in Nat /\ chainHeight \in Nat /\ lastHeight <= chainHeight
         /\ NoRequest \notin ZenithRequests
         /\ \A r \in ZenithRequests :
              /\ trade[r].bid \in 0..MaxHeight /\ trade[r].bid \in Nat
              /\ trade[r].lastChainHeight \in Nat /\ trade[r].zenithFees \in Nat
              /\ trade[r].committed \in BOOLEAN /\ trade[r].tradeTxs \in Seq(Txs)
  BY ConstantsAssumption DEF IInv, TypeOK, ZenithTxSet

(***************************************************************************)
(* One goroutine, whatever fails: the sets carry the height of the last    *)
(* block notified, and a committed set lists a TX except while its TXs are *)
(* being recorded afresh.                                                  *)
(***************************************************************************)
SetInStep(w, r) ==
  /\ trade[r].lastChainHeight <= lastHeight
  /\ trade[r].committed => trade[r].bid # 0
  /\ trade[r].committed => trade[r].tradeTxs # <<>> \/ At(w, r, {"record"})
  /\ At(w, r, Bidding \cup {"search"}) => ~trade[r].committed
  /\ At(w, r, {"search"}) => trade[r].bid # 0
  /\ At(w, r, {"record"}) => trade[r].committed

InStep(w) ==
  /\ worker[w].pc # "panicked"
  /\ worker[w].pc \in Executing \cup Parsing => worker[w].height = lastHeight
  /\ worker[w].pc = "record" => worker[w].found # <<>>
  /\ \A r \in ZenithRequests : SetInStep(w, r)

LEMMA InStepInit == ASSUME Init, NEW w \in Workers PROVE InStep(w)
  BY DEF Init, IdleWorker, NewZenithTxSet, InStep, SetInStep, At, Executing, Parsing, Bidding

\* Steps that store no set and start no stage that an invariant speaks of.
LEMMA InStepLocal ==
  ASSUME IInv, NEW w \in Workers, InStep(w), trade' = trade, lastHeight' \in Nat,
         lastHeight' >= lastHeight,
         worker[w].pc # "record", worker'[w].pc \notin {"panicked", "record"},
         worker'[w].pc \in Executing \cup Parsing => worker'[w].height = lastHeight',
         worker'[w].pc \in Bidding \cup {"search"} =>
           /\ worker[w].pc \in Bidding \cup {"search"} /\ worker'[w].req = worker[w].req
           /\ worker'[w].pc = "search" => worker[w].pc = "search"
  PROVE  InStep(w)'
<1> SUFFICES ASSUME NEW r \in ZenithRequests PROVE SetInStep(w, r)'
  BY DEF InStep
<1> QED
  BY Types DEF InStep, SetInStep, At

LEMMA InStepQueue ==
  ASSUME IInv, NEW w \in Workers, InStep(w), UNCHANGED <<lastHeight, trade, worker>>
  PROVE  InStep(w)'
  BY DEF InStep, SetInStep, At

LEMMA InStepReceive ==
  ASSUME IInv, NEW w \in Workers, InStep(w), ReceiveBlock(w) PROVE InStep(w)'
  BY ReceiveBlockEffect, Types, InStepLocal DEF Executing, Parsing, Bidding

\* The visits of the queue and the bids.
LEMMA InStepExecute ==
  ASSUME IInv, NEW w \in Workers, InStep(w), Execute(w) PROVE InStep(w)'
<1> USE Types DEF Executing, Parsing, Bidding
<1>1. CASE StartExecute(w)
  BY <1>1, StartExecuteEffect, InStepLocal
<1>2. CASE OfferToAuction(w)
  BY <1>2, OfferToAuctionEffect, InStepLocal DEF InStep, KeepsHeight
<1>3. ASSUME LeaveRange(w), worker[w].pc \in {"offer"} \cup Bidding,
             UNCHANGED <<lastHeight, trade>>
      PROVE  InStep(w)'
  BY <1>3, LeaveRangeEffect, InStepLocal DEF InStep, KeepsHeight
<1>4. CASE StopAtAuthz(w) \/ EndRange(w) \/ GetZenithBidFails(w)
  BY <1>3, <1>4 DEF StopAtAuthz, EndRange, GetZenithBidFails
<1>5. ASSUME NEW r \in ZenithRequests, PassOver(w, r) PROVE InStep(w)'
  BY <1>5, PassOverEffect DEF InStep, SetInStep, At, KeepsHeight, Unaltered, OthersKept
<1>6. ASSUME NEW r \in ZenithRequests, ChooseToBid(w, r) PROVE InStep(w)'
  BY <1>6, ChooseToBidEffect DEF InStep, SetInStep, At, KeepsHeight, Unaltered, OthersKept
<1>7. CASE PlaceBid(w)
  BY <1>7, PlaceBidEffect, InStepLocal DEF InStep, KeepsHeight
<1>8. CASE BidRefused(w) \/ BidReplyLost(w)
  <2>1. worker[w].pc \in {"sign", "reply"} /\ RecordBidError(w)
    BY <1>8 DEF BidRefused, BidReplyLost
  <2> QED
    BY <2>1, RecordBidErrorEffect, LeaveRangeEffect
       DEF InStep, SetInStep, At, KeepsHeight, Unaltered, OthersKept
<1>9. CASE BidAccepted(w)
  BY <1>9, BidAcceptedEffect DEF InStep, SetInStep, At, KeepsHeight, OthersKept, Heights
<1>10. CASE UpdateZenithTxSet(w)
  <2>1. BidTxs(worker[w].req, worker[w].block) # <<>>
    BY DEF BidTxs
  <2> QED
    BY <1>10, <2>1, UpdateZenithTxSetEffect, LeaveRangeEffect
       DEF InStep, SetInStep, At, KeepsHeight, OthersKept
<1> QED
  BY <1>1, <1>2, <1>4, <1>5, <1>6, <1>7, <1>8, <1>9, <1>10 DEF Execute

\* The search on chain and the second look.
LEMMA InStepParse ==
  ASSUME IInv, NEW w \in Workers, InStep(w), Parse(w) PROVE InStep(w)'
<1> USE Types DEF Executing, Parsing, Bidding
<1>1. CASE StartParse(w)
  BY <1>1, StartParseEffect, InStepLocal
<1>2. CASE ParseClientError(w) \/ EndParse(w)
  BY <1>2, StopParseEffect, InStepLocal DEF IdleWorker
<1>3. ASSUME NEW r \in ZenithRequests, VisitTrade(w, r) PROVE InStep(w)'
  <2>1. /\ worker'[w].req = r /\ worker'[w].pc \in {"recheck", "dispatch"}
        /\ worker[w].pc = "parse" /\ KeepsHeight(w)
        /\ trade'[r].committed => trade[r].committed
        /\ trade'[r].lastChainHeight = worker[w].height /\ OthersKept(r)
        /\ trade'[r].bid = trade[r].bid /\ trade'[r].tradeTxs = trade[r].tradeTxs
        /\ UNCHANGED lastHeight
    BY <1>3, VisitTradeEffect
  <2> QED
    BY <2>1 DEF InStep, SetInStep, At, KeepsHeight, OthersKept
<1>4. CASE LookUp(w)
  <2>1. /\ worker[w].pc \in {"recheck", "search"} /\ worker'[w].pc = worker[w].pc
        /\ worker'[w].req = worker[w].req /\ KeepsHeight(w) /\ UNCHANGED <<lastHeight, trade>>
    BY <1>4, LookUpEffect DEF LooksUp
  <2> QED
    BY <2>1, InStepLocal DEF InStep, KeepsHeight
<1>5. CASE RecheckDone(w)
  <2> DEFINE r == worker[w].req
  <2>1. /\ r \in ZenithRequests /\ worker[w].pc = "recheck" /\ worker'[w].pc = "dispatch"
        /\ worker'[w].req = r /\ KeepsHeight(w) /\ UNCHANGED lastHeight
        /\ trade'[r].committed => trade[r].committed
        /\ trade'[r].lastChainHeight = trade[r].lastChainHeight /\ OthersKept(r)
        /\ trade'[r].bid = trade[r].bid /\ trade'[r].tradeTxs = trade[r].tradeTxs
    BY <1>5, RecheckDoneEffect
  <2> HIDE DEF r
  <2> QED
    BY <2>1 DEF InStep, SetInStep, At, KeepsHeight, OthersKept
<1>6. CASE StartSearch(w)
  <2>1. worker[w].pc = "dispatch" /\ worker'[w].pc = "search" /\ KeepsHeight(w)
    BY <1>6, StartSearchEffect
  <2>2. ASSUME NEW r \in ZenithRequests PROVE SetInStep(w, r)'
    BY <1>6, StartSearchEffect DEF InStep, SetInStep, At
  <2> QED
    BY <1>6, <2>1, <2>2, StartSearchEffect DEF InStep, KeepsHeight
<1>7. CASE CommitFound(w)
  <2> DEFINE r == worker[w].req
  <2>1. /\ r \in ZenithRequests /\ worker[w].pc = "search" /\ worker'[w].pc = "record"
        /\ worker[w].req = r /\ worker'[w].req = r /\ worker'[w].found # <<>>
        /\ KeepsHeight(w) /\ UNCHANGED lastHeight
        /\ trade'[r].lastChainHeight = trade[r].lastChainHeight
        /\ trade'[r].bid = trade[r].bid /\ trade'[r].committed /\ OthersKept(r)
    BY <1>7, CommitFoundEffect DEF KeepsLookups
  <2> HIDE DEF r
  <2> QED
    BY <2>1 DEF InStep, SetInStep, At, KeepsHeight, OthersKept
<1>8. CASE RecordFound(w)
  <2> DEFINE r == worker[w].req
  <2>1. /\ r \in ZenithRequests /\ worker[w].pc = "record" /\ worker'[w].pc = "parse"
        /\ worker[w].req = r /\ KeepsHeight(w) /\ UNCHANGED lastHeight
        /\ trade'[r].lastChainHeight = trade[r].lastChainHeight
        /\ trade'[r].bid = trade[r].bid /\ trade'[r].committed = trade[r].committed
        /\ OthersKept(r)
    BY <1>8, RecordFoundEffect, NextTradeEffect
  <2>2. trade'[r].tradeTxs # <<>>
    <3>1. trade[r].tradeTxs \in Seq(Txs) /\ worker[w].found \in Seq(Txs) /\ worker[w].found # <<>>
      BY <2>1, FitsNow DEF InStep, LocalsFit, Worker
    <3>2. trade'[r].tradeTxs = trade[r].tradeTxs \o worker[w].found
      BY <1>8, RecordFoundEffect
    <3> QED
      BY <3>1, <3>2
  <2> HIDE DEF r
  <2> QED
    BY <2>1, <2>2 DEF InStep, SetInStep, At, KeepsHeight, OthersKept
<1>9. CASE StillWaiting(w) \/ NothingToDo(w)
  BY <1>9, StillWaitingEffect, NothingToDoEffect, NextTradeEffect, InStepLocal
     DEF InStep, KeepsHeight
<1>10. CASE Summarise(w) \/ AwaitShare(w)
  BY <1>10, SettleEffect, NextTradeEffect
     DEF InStep, SetInStep, At, KeepsHeight, Unaltered, OthersKept
<1>11. CASE Panic(w)
  BY <1>11, PanicEffect DEF InStep, SetInStep, At
<1>12. CASE ParseFails(w)
  BY <1>12, ParseFailsEffect, InStepLocal, Types DEF LooksUp
<1> QED
  BY <1>1, <1>2, <1>3, <1>4, <1>5, <1>6, <1>7, <1>8, <1>9, <1>10, <1>11, <1>12 DEF Parse

InStepInv == IInv /\ \A w \in Workers : InStep(w)

LEMMA InStepNext == ASSUME OneGoroutine, InStepInv, [Next]_vars PROVE InStepInv'
<1> PICK w : Workers = {w}
  BY DEF OneGoroutine
<1>1. IInv /\ IInv' /\ InStep(w) /\ w \in Workers
  BY InvNext DEF InStepInv
<1>2. InStep(w)'
  <2>1. CASE \E r \in ZenithRequests : QueueZenith(r)
    BY <1>1, <2>1, InStepQueue DEF QueueZenith
  <2>2. CASE \E a \in AuthzRequests : AddAuthzTxSet(a)
    BY <1>1, <2>2, InStepQueue DEF AddAuthzTxSet
  <2>3. CASE ProduceBlock
    BY <1>1, <2>3, InStepQueue DEF ProduceBlock
  <2>4. CASE UNCHANGED vars
    BY <1>1, <2>4, InStepQueue DEF vars
  <2> QED
    BY <1>1, <2>1, <2>2, <2>3, <2>4, InStepReceive, InStepExecute, InStepParse DEF Next
<1> QED
  BY <1>1, <1>2 DEF InStepInv

LEMMA InStepInvariance == ASSUME OneGoroutine PROVE Spec => []InStepInv
<1>1. Init => InStepInv
  BY InvInit, InStepInit DEF InStepInv
<1>2. InStepInv /\ [Next]_vars => InStepInv'
  BY InStepNext
<1> QED
  BY <1>1, <1>2, PTL DEF Spec

\* Without overlap no handler indexes an empty TradeTxs, whatever the nodes,
\* the feed and Zenith do: the process does not panic.
THEOREM NeverPanicsHolds == ASSUME OneGoroutine PROVE Spec => []NeverPanics
<1>1. InStepInv => NeverPanics
  BY DEF InStepInv, InStep, NeverPanics
<1> QED
  BY <1>1, InStepInvariance, PTL

\* Every height stored in a set is the last one notified, at least as high as
\* any before it.
LEMMA HeightAdvances ==
  ASSUME OneGoroutine, InStepInv, [Next]_vars, NEW r \in ZenithRequests
  PROVE  trade[r].lastChainHeight <= trade'[r].lastChainHeight
<1> PICK w : Workers = {w}
  BY DEF OneGoroutine
<1>1. IInv /\ InStep(w) /\ w \in Workers
  BY DEF InStepInv
<1>2. trade[r].lastChainHeight \in Nat /\ trade[r].lastChainHeight <= lastHeight
  BY <1>1, Types DEF InStep, SetInStep
<1>3. SUFFICES ASSUME trade' # trade
               PROVE  \/ trade'[r].lastChainHeight = trade[r].lastChainHeight
                      \/ trade'[r].lastChainHeight = lastHeight
  BY <1>2
<1>4. CASE Execute(w)
  <2> USE <1>1 DEF Executing, Parsing, Bidding
  <2>1. ASSUME NEW q \in ZenithRequests, PassOver(w, q) \/ ChooseToBid(w, q)
        PROVE  trade'[r].lastChainHeight \in {trade[r].lastChainHeight, lastHeight}
    BY <2>1, PassOverEffect, ChooseToBidEffect DEF InStep, OthersKept
  <2>2. CASE BidRefused(w) \/ BidReplyLost(w)
    BY <2>2, RecordBidErrorEffect DEF BidRefused, BidReplyLost, OthersKept
  <2>3. CASE BidAccepted(w) \/ UpdateZenithTxSet(w)
    BY <2>3, BidAcceptedEffect, UpdateZenithTxSetEffect DEF OthersKept
  <2> QED
    BY <1>3, <1>4, <2>1, <2>2, <2>3
       DEF Execute, StartExecute, OfferToAuction, StopAtAuthz, EndRange, GetZenithBidFails, PlaceBid
<1>5. CASE Parse(w)
  <2> USE <1>1 DEF Executing, Parsing, Bidding
  <2>1. ASSUME NEW q \in ZenithRequests, VisitTrade(w, q)
        PROVE  trade'[r].lastChainHeight \in {trade[r].lastChainHeight, lastHeight}
    BY <2>1, VisitTradeEffect DEF InStep, OthersKept
  <2>2. CASE RecheckDone(w) \/ CommitFound(w) \/ RecordFound(w)
    BY <2>2, RecheckDoneEffect, CommitFoundEffect, RecordFoundEffect DEF OthersKept
  <2>3. CASE Summarise(w) \/ AwaitShare(w)
    BY <2>3, SettleEffect DEF OthersKept
  <2> QED
    BY <1>3, <1>5, <2>1, <2>2, <2>3
       DEF Parse, StartParse, ParseClientError, EndParse, LookUp, ParseFails, StartSearch,
           StillWaiting, Panic, NothingToDo
<1> QED
  BY <1>1, <1>3, <1>4, <1>5
     DEF Next, QueueZenith, AddAuthzTxSet, ProduceBlock, ReceiveBlock, vars

\* Without overlap the height that GET /status reports never goes back,
\* whatever fails.
THEOREM ReportedHeightAdvancesHolds == ASSUME OneGoroutine PROVE Spec => ReportedHeightAdvances
<1>1. InStepInv /\ [Next]_vars =>
        [\A r \in ZenithRequests : trade[r].lastChainHeight <= trade'[r].lastChainHeight]_vars
  BY HeightAdvances
<1> QED
  BY <1>1, InStepInvariance, PTL DEF Spec, ReportedHeightAdvances

(***************************************************************************)
(* One goroutine and nodes that answer: the TXs of a committed set are on  *)
(* chain, so the second look always finds them.                            *)
(***************************************************************************)
SetOnChain(w, r) ==
  /\ trade[r].committed => Listed(trade[r].tradeTxs) \subseteq onChain
  /\ At(w, r, {"record"}) => trade[r].tradeTxs = <<>>

SeesAll(w) ==
  /\ worker[w].pc = "recheck" =>
       /\ Listed(worker[w].sought) \subseteq onChain
       /\ worker[w].sought # <<>> \/ worker[w].found # <<>>
  /\ \A r \in ZenithRequests : SetOnChain(w, r)

\* Steps that store no set and look nothing up again.
LEMMA SeesAllLocal ==
  ASSUME NEW w \in Workers, SeesAll(w), trade' = trade, onChain \subseteq onChain',
         worker'[w] = worker[w] \/ worker'[w].pc \notin {"recheck", "record"}
  PROVE  SeesAll(w)'
<1>1. ASSUME NEW r \in ZenithRequests PROVE SetOnChain(w, r)'
  BY DEF SeesAll, SetOnChain, At
<1> QED
  BY <1>1 DEF SeesAll

\* Steps that keep the TXs of a set.
LEMMA SeesAllKept ==
  ASSUME NEW w \in Workers, SeesAll(w), NEW r \in ZenithRequests, OthersKept(r),
         trade'[r].tradeTxs = trade[r].tradeTxs,
         trade'[r].committed => trade[r].committed,
         onChain' = onChain, worker'[w].pc \notin {"recheck", "record"}
  PROVE  SeesAll(w)'
<1>1. ASSUME NEW q \in ZenithRequests PROVE SetOnChain(w, q)'
  BY DEF SeesAll, SetOnChain, At, OthersKept
<1> QED
  BY <1>1 DEF SeesAll

LEMMA SeesAllExecute ==
  ASSUME NEW w \in Workers, IInv, InStep(w), SeesAll(w), Execute(w) PROVE SeesAll(w)'
<1>1. CASE StartExecute(w) \/ OfferToAuction(w) \/ PlaceBid(w)
  BY <1>1, StartExecuteEffect, OfferToAuctionEffect, PlaceBidEffect, SeesAllLocal DEF env
<1>2. CASE StopAtAuthz(w) \/ EndRange(w) \/ GetZenithBidFails(w)
  BY <1>2, LeaveRangeEffect, SeesAllLocal DEF StopAtAuthz, EndRange, GetZenithBidFails, env
<1>3. ASSUME NEW r \in ZenithRequests, PassOver(w, r) \/ ChooseToBid(w, r) PROVE SeesAll(w)'
  BY <1>3, PassOverEffect, ChooseToBidEffect, SeesAllKept DEF Unaltered, env
<1>4. CASE BidRefused(w) \/ BidReplyLost(w)
  <2>1. worker[w].pc \in {"sign", "reply"} /\ RecordBidError(w)
    BY <1>4 DEF BidRefused, BidReplyLost
  <2> QED
    BY <2>1, RecordBidErrorEffect, LeaveRangeEffect, SeesAllKept DEF Unaltered, env
<1>5. CASE BidAccepted(w)
  BY <1>5, BidAcceptedEffect, SeesAllKept DEF env
<1>6. CASE UpdateZenithTxSet(w)
  <2> DEFINE r == worker[w].req
  <2>1. /\ r \in ZenithRequests /\ worker'[w].pc = "auctions" /\ OthersKept(r)
        /\ onChain' = onChain /\ trade'[r].committed = trade[r].committed /\ worker[w].pc = "update"
    BY <1>6, UpdateZenithTxSetEffect, LeaveRangeEffect DEF env
  <2>2. ~trade'[r].committed
    BY <2>1 DEF InStep, SetInStep, At, Bidding
  <2> HIDE DEF r
  <2>3. ASSUME NEW q \in ZenithRequests PROVE SetOnChain(w, q)'
    BY <2>1, <2>2 DEF SeesAll, SetOnChain, At, OthersKept
  <2> QED
    BY <2>1, <2>3 DEF SeesAll
<1> QED
  BY <1>1, <1>2, <1>3, <1>4, <1>5, <1>6 DEF Execute

LEMMA SeesAllParse ==
  ASSUME ~RpcMayFail, NEW w \in Workers, IInv, InStep(w), SeesAll(w), Parse(w) PROVE SeesAll(w)'
<1>1. CASE StartParse(w)
  BY <1>1, StartParseEffect, SeesAllLocal DEF env
<1>2. CASE ParseClientError(w) \/ EndParse(w)
  BY <1>2, StopParseEffect, SeesAllLocal DEF IdleWorker, env
<1>3. ASSUME NEW r \in ZenithRequests, VisitTrade(w, r) PROVE SeesAll(w)'
  <2>1. /\ worker'[w].req = r /\ worker'[w].pc \in {"recheck", "dispatch"} /\ OthersKept(r)
        /\ trade'[r].committed => trade[r].committed
        /\ trade'[r].tradeTxs = trade[r].tradeTxs /\ onChain' = onChain
        /\ worker'[w].pc = "recheck" =>
             /\ trade[r].committed /\ trade[r].tradeTxs # <<>>
             /\ worker'[w].sought = trade[r].tradeTxs
    BY <1>3, VisitTradeEffect DEF env
  <2>2. ASSUME NEW q \in ZenithRequests PROVE SetOnChain(w, q)'
    BY <2>1 DEF SeesAll, SetOnChain, At, OthersKept
  <2> QED
    BY <2>1, <2>2 DEF SeesAll, SetOnChain
<1>4. CASE LookUp(w)
  <2> DEFINE t == Head(worker[w].sought)
  <2>1. /\ worker[w].pc \in LooksUp /\ worker[w].sought # <<>> /\ trade' = trade
        /\ worker'[w].pc = worker[w].pc /\ onChain' = onChain
        /\ worker'[w].sought = Tail(worker[w].sought)
        /\ t \in onChain => worker'[w].found = Append(worker[w].found, t)
    BY <1>4, LookUpEffect DEF env
  <2>2. worker[w].sought \in Seq(Txs) /\ worker[w].found \in Seq(Txs)
    BY FitsNow DEF LocalsFit, Worker
  <2>3. /\ t \in Listed(worker[w].sought) /\ t \in Txs
        /\ Listed(Tail(worker[w].sought)) \subseteq Listed(worker[w].sought)
    BY <2>1, <2>2, ListedTail
  <2> HIDE DEF t
  <2>4. Append(worker[w].found, t) # <<>>
    BY <2>2, <2>3
  <2>5. ASSUME NEW q \in ZenithRequests PROVE SetOnChain(w, q)'
    BY <2>1 DEF SeesAll, SetOnChain, At, LooksUp
  <2>6. CASE worker[w].pc = "recheck"
    BY <2>1, <2>3, <2>4, <2>5, <2>6 DEF SeesAll
  <2>7. CASE worker[w].pc # "recheck"
    BY <2>1, <2>5, <2>7 DEF SeesAll
  <2> QED
    BY <2>6, <2>7
<1>5. CASE RecheckDone(w)
  BY <1>5, RecheckDoneEffect, SeesAllKept DEF env
<1>6. CASE StartSearch(w)
  BY <1>6, StartSearchEffect, SeesAllLocal DEF env
<1>7. CASE CommitFound(w)
  <2> DEFINE r == worker[w].req
  <2>1. /\ r \in ZenithRequests /\ worker'[w].pc = "record" /\ worker'[w].req = r
        /\ trade'[r].tradeTxs = <<>> /\ OthersKept(r) /\ onChain' = onChain
    BY <1>7, CommitFoundEffect DEF env
  <2> HIDE DEF r
  <2>2. ASSUME NEW q \in ZenithRequests PROVE SetOnChain(w, q)'
    BY <2>1, ListedEmpty DEF SeesAll, SetOnChain, At, OthersKept
  <2> QED
    BY <2>1, <2>2 DEF SeesAll
<1>8. CASE RecordFound(w)
  <2> DEFINE r == worker[w].req
             found == worker[w].found
  <2>1. /\ r \in ZenithRequests /\ worker[w].pc = "record" /\ worker'[w].pc = "parse"
        /\ OthersKept(r) /\ onChain' = onChain /\ worker[w].req = r
        /\ trade'[r].tradeTxs = trade[r].tradeTxs \o found
    BY <1>8, RecordFoundEffect, NextTradeEffect DEF env
  <2>2. found \in Seq(Txs) /\ Listed(found) \subseteq onChain
    BY FitsNow DEF LocalsFit, Worker
  <2>3. trade[r].tradeTxs = <<>>
    BY <2>1 DEF SeesAll, SetOnChain, At
  <2>4. Listed(trade'[r].tradeTxs) \subseteq onChain
    BY <2>1, <2>2, <2>3
  <2>5. ASSUME NEW q \in ZenithRequests PROVE SetOnChain(w, q)'
    BY <2>1, <2>4 DEF SeesAll, SetOnChain, At, OthersKept
  <2> QED
    BY <2>1, <2>5 DEF SeesAll
<1>9. CASE StillWaiting(w) \/ NothingToDo(w)
  BY <1>9, StillWaitingEffect, NothingToDoEffect, NextTradeEffect, SeesAllLocal DEF env
<1>10. CASE Summarise(w) \/ AwaitShare(w)
  BY <1>10, SettleEffect, NextTradeEffect, SeesAllKept DEF Unaltered, env
<1>11. CASE Panic(w)
  BY <1>11, PanicEffect DEF InStep, SetInStep, At
<1> QED
  BY <1>1, <1>2, <1>3, <1>4, <1>5, <1>6, <1>7, <1>8, <1>9, <1>10, <1>11 DEF Parse, ParseFails

SeesAllInv == InStepInv /\ \A w \in Workers : SeesAll(w)

LEMMA SeesAllNext ==
  ASSUME OneGoroutine, ~RpcMayFail, SeesAllInv, [Next]_vars PROVE SeesAllInv'
<1> PICK w : Workers = {w}
  BY DEF OneGoroutine
<1>1. InStepInv /\ InStepInv' /\ IInv /\ InStep(w) /\ SeesAll(w) /\ w \in Workers
  BY InStepNext DEF SeesAllInv, InStepInv
<1>2. SeesAll(w)'
  <2>1. CASE \E i \in ZenithRequests \cup AuthzRequests : QueueZenith(i) \/ AddAuthzTxSet(i)
    BY <1>1, <2>1, SeesAllLocal DEF QueueZenith, AddAuthzTxSet, env
  <2>2. CASE ProduceBlock
    BY <1>1, <2>2, SeesAllLocal DEF ProduceBlock
  <2>3. CASE ReceiveBlock(w)
    BY <1>1, <2>3, ReceiveBlockEffect, SeesAllLocal DEF env
  <2>4. CASE UNCHANGED vars
    BY <1>1, <2>4, SeesAllLocal DEF vars
  <2> QED
    BY <1>1, <2>1, <2>2, <2>3, <2>4, SeesAllExecute, SeesAllParse DEF Next
<1> QED
  BY <1>1, <1>2 DEF SeesAllInv

LEMMA SeesAllInvariance == ASSUME OneGoroutine, ~RpcMayFail PROVE Spec => []SeesAllInv
<1>1. Init => SeesAllInv
  BY InvInit, InStepInit
     DEF SeesAllInv, InStepInv, Init, SeesAll, SetOnChain, At, IdleWorker, NewZenithTxSet
<1>2. SeesAllInv /\ [Next]_vars => SeesAllInv'
  BY SeesAllNext
<1> QED
  BY <1>1, <1>2, PTL DEF Spec

\* A second look finds what a commit rests on, and nothing else takes a
\* commit back.
LEMMA CommitKept ==
  ASSUME OneGoroutine, SeesAllInv, [Next]_vars, NEW r \in ZenithRequests, trade[r].committed
  PROVE  trade'[r].committed
<1> PICK w : Workers = {w}
  BY DEF OneGoroutine
<1>1. IInv /\ InStep(w) /\ SeesAll(w) /\ w \in Workers
  BY DEF SeesAllInv, InStepInv
<1> SUFFICES ASSUME trade' # trade PROVE trade'[r].committed
  OBVIOUS
<1>2. CASE Execute(w)
  <2>1. ASSUME NEW q \in ZenithRequests, PassOver(w, q) \/ ChooseToBid(w, q)
        PROVE  trade'[r].committed
    BY <1>1, <2>1, PassOverEffect, ChooseToBidEffect DEF OthersKept, Unaltered
  <2>2. CASE BidRefused(w) \/ BidReplyLost(w)
    BY <1>1, <2>2, RecordBidErrorEffect DEF BidRefused, BidReplyLost, OthersKept, Unaltered
  <2>3. CASE BidAccepted(w) \/ UpdateZenithTxSet(w)
    BY <1>1, <2>3, BidAcceptedEffect, UpdateZenithTxSetEffect DEF OthersKept
  <2> QED
    BY <1>2, <2>1, <2>2, <2>3
       DEF Execute, StartExecute, OfferToAuction, StopAtAuthz, EndRange, GetZenithBidFails, PlaceBid
<1>3. CASE Parse(w)
  <2>1. ASSUME NEW q \in ZenithRequests, VisitTrade(w, q) PROVE trade'[r].committed
    <3>1. worker[w].pc = "parse" /\ OthersKept(q)
      BY <1>1, <2>1, VisitTradeEffect
    <3>2. trade[r].tradeTxs # <<>>
      BY <1>1, <3>1 DEF InStep, SetInStep, At
    <3> QED
      BY <1>1, <2>1, <3>1, <3>2, VisitTradeEffect DEF OthersKept
  <2>2. CASE RecheckDone(w)
    BY <1>1, <2>2, RecheckDoneEffect DEF SeesAll, OthersKept
  <2>3. CASE CommitFound(w) \/ RecordFound(w)
    BY <1>1, <2>3, CommitFoundEffect, RecordFoundEffect DEF OthersKept
  <2>4. CASE Summarise(w) \/ AwaitShare(w)
    BY <1>1, <2>4, SettleEffect DEF OthersKept, Unaltered
  <2> QED
    BY <1>3, <2>1, <2>2, <2>3, <2>4
       DEF Parse, StartParse, ParseClientError, EndParse, LookUp, ParseFails, StartSearch,
           StillWaiting, Panic, NothingToDo
<1> QED
  BY <1>1, <1>2, <1>3
     DEF Next, QueueZenith, AddAuthzTxSet, ProduceBlock, ReceiveBlock, vars

\* Without overlap and with nodes that answer, a set that was committed
\* stays committed, even if the feed skips blocks and replies are lost.
THEOREM CommitIsStableHolds == ASSUME OneGoroutine, ~RpcMayFail PROVE Spec => CommitIsStable
<1>1. SeesAllInv /\ [Next]_vars =>
        [\A r \in ZenithRequests : trade[r].committed => trade'[r].committed]_vars
  BY CommitKept
<1> QED
  BY <1>1, SeesAllInvariance, PTL DEF Spec, CommitIsStable

(***************************************************************************)
(* What is on chain was bid for, and both TXs of a bid were included, or   *)
(* neither: this needs nothing of the environment or the goroutines.       *)
(***************************************************************************)
OnChainIsKnown ==
  \A r \in ZenithRequests :
    /\ \A h \in Heights : ArbTx(r, h) \in onChain => <<r, h>> \in bids /\ h <= chainHeight
    /\ UserTx(r) \in onChain <=> \E h \in Heights : ArbTx(r, h) \in onChain
    /\ \A h \in Heights : <<r, h>> \in bids => r \in txqueue

\* A goroutine only treats requests that were queued.
TreatsQueued(w) ==
  /\ worker[w].todo \subseteq txqueue
  /\ worker[w].pc \in HoldsRequest => worker[w].req \in txqueue

LEMMA KnownKept ==
  ASSUME OnChainIsKnown, UNCHANGED env, txqueue \subseteq txqueue'
  PROVE  OnChainIsKnown'
  BY DEF OnChainIsKnown, env

LEMMA IncludedAre ==
  ASSUME chainHeight \in Nat, NEW winners \in SUBSET ZenithRequests
  PROVE  /\ \A r \in ZenithRequests :
              /\ UserTx(r) \in onChain \cup Included(winners) <=> UserTx(r) \in onChain \/ r \in winners
              /\ \A h \in Heights :
                   ArbTx(r, h) \in onChain \cup Included(winners) <=>
                     ArbTx(r, h) \in onChain \/ (r \in winners /\ h = chainHeight + 1)
         /\ Included(winners) \cap onChain = {}
<1>1. \A r : Listed(BidTxs(r, chainHeight + 1)) = {UserTx(r), ArbTx(r, chainHeight + 1)}
  BY DEF Listed, BidTxs
<1>2. ASSUME NEW t
      PROVE  t \in onChain \cup Included(winners) <=>
               t \in onChain \/ \E r \in winners : t \in {UserTx(r), ArbTx(r, chainHeight + 1)}
  BY <1>1 DEF Included
<1>3. chainHeight + 1 # 0 /\ \A h \in Heights : h # 0
  BY DEF Heights
<1> QED
  BY <1>2, <1>3 DEF UserTx, ArbTx, Included

\* What a block changes: the TXs of the winners, and whether they succeed.
LEMMA ProduceBlockEffect ==
  ASSUME IInv, ProduceBlock
  PROVE  /\ chainHeight' = chainHeight + 1
         /\ UNCHANGED <<bids, lastHeight, txqueue, trade, worker>>
         /\ onChain \subseteq onChain'
         /\ \A t \in onChain : t \in succeeded' <=> t \in succeeded
         /\ \E winners \in SUBSET {r \in ZenithRequests : <<r, chainHeight + 1>> \in bids} :
              \A r \in ZenithRequests :
                /\ UserTx(r) \in onChain' <=> UserTx(r) \in onChain \/ r \in winners
                /\ \A h \in Heights :
                     ArbTx(r, h) \in onChain' <=>
                       ArbTx(r, h) \in onChain \/ (r \in winners /\ h = chainHeight + 1)
<1> PICK winners \in SUBSET {r \in ZenithRequests : <<r, chainHeight + 1>> \in bids} :
      /\ onChain' = onChain \cup Included(winners)
      /\ \E ok \in SUBSET Included(winners) : succeeded' = succeeded \cup ok
  BY Zenon DEF ProduceBlock
<1>1. /\ chainHeight' = chainHeight + 1 /\ chainHeight \in Nat
      /\ UNCHANGED <<bids, lastHeight, txqueue, trade, worker>>
  BY Types DEF ProduceBlock
<1>2. winners \in SUBSET ZenithRequests
  OBVIOUS
<1>3. /\ \A r \in ZenithRequests :
           /\ UserTx(r) \in onChain' <=> UserTx(r) \in onChain \/ r \in winners
           /\ \A h \in Heights :
                ArbTx(r, h) \in onChain' <=>
                  ArbTx(r, h) \in onChain \/ (r \in winners /\ h = chainHeight + 1)
      /\ Included(winners) \cap onChain = {}
  BY <1>1, <1>2, IncludedAre
<1>4. \A t \in onChain : t \in succeeded' <=> t \in succeeded
  BY <1>3
<1> QED
  BY <1>1, <1>3, <1>4

LEMMA ProduceKnown == ASSUME IInv, OnChainIsKnown, ProduceBlock PROVE OnChainIsKnown'
<1> PICK winners \in SUBSET {r \in ZenithRequests : <<r, chainHeight + 1>> \in bids} :
      \A r \in ZenithRequests :
        /\ UserTx(r) \in onChain' <=> UserTx(r) \in onChain \/ r \in winners
        /\ \A h \in Heights :
             ArbTx(r, h) \in onChain' <=>
               ArbTx(r, h) \in onChain \/ (r \in winners /\ h = chainHeight + 1)
  BY ProduceBlockEffect
<1>1. /\ chainHeight' = chainHeight + 1 /\ chainHeight \in Nat /\ chainHeight + 1 \in Heights
      /\ bids' = bids /\ txqueue' = txqueue
  BY ProduceBlockEffect, Types, ConstantsAssumption DEF ProduceBlock, IInv, TypeOK, Heights
<1> SUFFICES ASSUME NEW r \in ZenithRequests
             PROVE  /\ \A h \in Heights : ArbTx(r, h) \in onChain' => <<r, h>> \in bids' /\ h <= chainHeight'
                    /\ UserTx(r) \in onChain' <=> \E h \in Heights : ArbTx(r, h) \in onChain'
                    /\ \A h \in Heights : <<r, h>> \in bids' => r \in txqueue'
  BY DEF OnChainIsKnown, ArbTx, UserTx
<1>2. \A h \in Heights : ArbTx(r, h) \in onChain' => <<r, h>> \in bids' /\ h <= chainHeight'
  BY <1>1 DEF OnChainIsKnown, Heights
<1>3. UserTx(r) \in onChain' <=> \E h \in Heights : ArbTx(r, h) \in onChain'
  BY <1>1 DEF OnChainIsKnown
<1> QED
  BY <1>1, <1>2, <1>3 DEF OnChainIsKnown

LEMMA PlaceKnown ==
  ASSUME IInv, NEW w \in Workers, TreatsQueued(w), OnChainIsKnown, PlaceBid(w)
  PROVE  OnChainIsKnown'
<1>1. worker[w].req \in txqueue
  BY PlaceBidEffect DEF TreatsQueued, HoldsRequest
<1>2. /\ bids' = bids \cup {<<worker[w].req, worker[w].block>>}
      /\ UNCHANGED <<chainHeight, onChain, txqueue>>
  BY PlaceBidEffect
<1> QED
  BY <1>1, <1>2 DEF OnChainIsKnown

LEMMA TreatsKept ==
  ASSUME NEW w \in Workers, TreatsQueued(w), txqueue \subseteq txqueue',
         worker'[w].todo \subseteq txqueue,
         worker'[w].pc \in HoldsRequest => worker'[w].req \in txqueue
  PROVE  TreatsQueued(w)'
  BY DEF TreatsQueued

LEMMA TreatsExecute ==
  ASSUME IInv, NEW w \in Workers, TreatsQueued(w), Execute(w) PROVE TreatsQueued(w)'
<1> USE DEF TreatsQueued, HoldsRequest
<1>1. CASE StartExecute(w) \/ OfferToAuction(w)
  BY <1>1, StartExecuteEffect, OfferToAuctionEffect, TreatsKept
<1>2. ASSUME LeaveRange(w), UNCHANGED txqueue PROVE TreatsQueued(w)'
  BY <1>2, LeaveRangeEffect, TreatsKept
<1>3. CASE StopAtAuthz(w) \/ EndRange(w) \/ GetZenithBidFails(w)
  BY <1>2, <1>3 DEF StopAtAuthz, EndRange, GetZenithBidFails
<1>4. ASSUME NEW r \in ZenithRequests, PassOver(w, r) \/ ChooseToBid(w, r) PROVE TreatsQueued(w)'
  BY <1>4, PassOverEffect, ChooseToBidEffect, TreatsKept
<1>5. CASE PlaceBid(w)
  BY <1>5, PlaceBidEffect, TreatsKept
<1>6. CASE BidRefused(w) \/ BidReplyLost(w) \/ UpdateZenithTxSet(w)
  BY <1>2, <1>6 DEF BidRefused, BidReplyLost, RecordBidError, UpdateZenithTxSet
<1>7. CASE BidAccepted(w)
  BY <1>7, BidAcceptedEffect, TreatsKept
<1> QED
  BY <1>1, <1>3, <1>4, <1>5, <1>6, <1>7 DEF Execute

LEMMA TreatsParse ==
  ASSUME IInv, NEW w \in Workers, TreatsQueued(w), Parse(w) PROVE TreatsQueued(w)'
<1> USE DEF TreatsQueued, HoldsRequest
<1>1. CASE StartParse(w)
  BY <1>1, StartParseEffect, TreatsKept
<1>2. CASE ParseClientError(w) \/ EndParse(w)
  BY <1>2, StopParseEffect, TreatsKept DEF IdleWorker
<1>3. ASSUME NEW r \in ZenithRequests, VisitTrade(w, r) PROVE TreatsQueued(w)'
  BY <1>3, VisitTradeEffect, TreatsKept
<1>4. CASE LookUp(w)
  BY <1>4, LookUpEffect, TreatsKept DEF LooksUp
<1>5. CASE RecheckDone(w) \/ StartSearch(w) \/ CommitFound(w)
  BY <1>5, RecheckDoneEffect, StartSearchEffect, CommitFoundEffect, TreatsKept
<1>6. ASSUME NextTrade(w), UNCHANGED txqueue PROVE TreatsQueued(w)'
  BY <1>6, NextTradeEffect, TreatsKept
<1>7. CASE RecordFound(w) \/ StillWaiting(w) \/ Summarise(w) \/ AwaitShare(w) \/ NothingToDo(w)
  BY <1>6, <1>7 DEF RecordFound, StillWaiting, Summarise, AwaitShare, NothingToDo
<1>8. CASE Panic(w)
  <2>1. /\ worker'[w] = [worker[w] EXCEPT !.pc = "panicked"] /\ worker[w] \in Worker
        /\ txqueue' = txqueue
    BY <1>8, BecomeIs DEF Panic
  <2>2. worker'[w].pc = "panicked" /\ worker'[w].todo = worker[w].todo
    BY <2>1 DEF Worker
  <2> QED
    BY <2>1, <2>2, TreatsKept
<1>9. CASE ParseFails(w)
  BY <1>9, ParseFailsEffect, TreatsKept
<1> QED
  BY <1>1, <1>2, <1>3, <1>4, <1>5, <1>7, <1>8, <1>9 DEF Parse

(***************************************************************************)
(* One goroutine in a reliable environment: the bids of a request and what *)
(* the search finds of them.                                               *)
(***************************************************************************)
\* The only bid of r that may not be lost.
Open(w, r) == IF At(w, r, {"reply"}) THEN worker[w].block ELSE trade[r].bid

\* The TXs of the last block notified were not looked up yet for r.
Behind(w, r) ==
  \/ worker[w].pc \in {"execute"} \cup Executing
  \/ worker[w].pc \in Parsing /\ r \in worker[w].todo

SeenUpTo(w, r, h) == h < lastHeight \/ (h = lastHeight /\ ~Behind(w, r))

\* All but one bid is lost, that one is recorded with its TXs, and what was
\* won in a block already looked at is committed.
BidTracked(w, r) ==
  /\ \A h \in Heights : <<r, h>> \in bids => h = Open(w, r) \/ Lost(r, h)
  /\ At(w, r, {"sign"}) => trade[r].bid = 0 \/ trade[r].bid < lastHeight
  /\ At(w, r, {"update"}) => trade[r].bid = worker[w].block
  /\ \A h \in Heights : Won(r, h) /\ SeenUpTo(w, r, h) => trade[r].committed
  /\ trade[r].committed => ArbTx(r, trade[r].bid) \in onChain
  /\ \/ trade[r].committed \/ trade[r].bid = 0 \/ At(w, r, {"update"})
     \/ trade[r].tradeTxs = BidTxs(r, trade[r].bid)

InTime(r) == ArbTx(r, trade[r].bid) \in onChain /\ trade[r].bid <= lastHeight

\* The search finds the arbitrage TX of the bid if it finds anything, and it
\* finds it if its block was notified.
SearchTracked(w, r) ==
  LET u == UserTx(r)
      a == ArbTx(r, trade[r].bid)
      me == worker[w]
  IN  /\ At(w, r, {"search"}) =>
           \/ me.sought = <<u, a>> /\ me.found = <<>>
           \/ me.sought = <<a>> /\ me.found = <<u>> /\ a \in onChain
           \/ me.sought = <<a>> /\ me.found = <<>> /\ ~InTime(r)
           \/ me.sought = <<>> /\ me.found \in {<<u, a>>, <<a>>} /\ a \in onChain
           \/ me.sought = <<>> /\ me.found = <<>> /\ ~InTime(r)
      /\ At(w, r, {"record"}) => me.found \in {<<u, a>>, <<a>>}

\* The arbitrage TX is charged once, when it is recorded, if it succeeded.
FeesTracked(w, r) ==
  trade[r].zenithFees =
    IF /\ trade[r].committed /\ ~At(w, r, {"record"})
       /\ ArbTx(r, trade[r].bid) \in succeeded
    THEN 1 ELSE 0

Tracked(w, r) == BidTracked(w, r) /\ SearchTracked(w, r) /\ FeesTracked(w, r)

\* Stages in which an invariant says more of the request than its set does.
Marked == {"sign", "reply", "update", "search", "record"}

\* A step that leaves the set of r as it is tracks it still, unless it starts
\* a marked stage, ends one that the set depends on, or ends the treatment.
LEMMA Quiet ==
  ASSUME NEW w \in Workers, NEW r \in ZenithRequests, Tracked(w, r),
         UNCHANGED <<env, lastHeight>>, Unaltered(r),
         ~At(w, r, {"reply", "update", "record"}), ~At(w, r, Marked)',
         Behind(w, r)' \/ ~Behind(w, r)
  PROVE  Tracked(w, r)'
<1>1. BidTracked(w, r)'
  BY DEF Tracked, BidTracked, env, Unaltered, At, Marked, Open, Lost, Won, SeenUpTo
<1>2. SearchTracked(w, r)'
  BY DEF At, Marked, SearchTracked
<1>3. FeesTracked(w, r)'
  BY DEF Tracked, FeesTracked, env, Unaltered, At, Marked
<1> QED
  BY <1>1, <1>2, <1>3 DEF Tracked

\* A request that is being offered again has lost every auction so far.
LEMMA AllLost ==
  ASSUME IInv, OnChainIsKnown, NEW w \in Workers, NEW r \in ZenithRequests, InStep(w),
         Tracked(w, r), At(w, r, {"sign"})
  PROVE  \A h \in Heights : <<r, h>> \in bids => Lost(r, h)
<1> SUFFICES ASSUME NEW h \in Heights, <<r, h>> \in bids, h = trade[r].bid PROVE Lost(r, h)
  BY DEF Tracked, BidTracked, Open, At
<1>1. h < lastHeight /\ h \in Nat
  BY DEF Tracked, BidTracked, Heights
<1>2. ~trade[r].committed
  BY DEF InStep, SetInStep, At, Bidding
<1>3. ~Won(r, h)
  BY <1>1, <1>2 DEF Tracked, BidTracked, SeenUpTo
<1> QED
  BY <1>1, <1>3, Types DEF Lost

LEMMA TrackedWon ==
  ASSUME NEW w \in Workers, NEW r \in ZenithRequests, Tracked(w, r), ~At(w, r, {"reply"}),
         NEW h \in Heights, Won(r, h)
  PROVE  h = trade[r].bid
  BY DEF Tracked, BidTracked, Open, Lost, Won

LEMMA ProduceTracked ==
  ASSUME IInv, OnChainIsKnown, NEW w \in Workers, NEW r \in ZenithRequests, InStep(w),
         Tracked(w, r), ProduceBlock
  PROVE  Tracked(w, r)'
<1>1. /\ chainHeight' = chainHeight + 1 /\ chainHeight \in Nat /\ lastHeight \in Nat
      /\ lastHeight <= chainHeight
      /\ UNCHANGED <<bids, lastHeight, trade, worker>> /\ onChain \subseteq onChain'
  BY ProduceBlockEffect, Types
<1>2. \A h \in Heights : h <= chainHeight => (ArbTx(r, h) \in onChain' <=> ArbTx(r, h) \in onChain)
  BY <1>1, ProduceBlockEffect DEF Heights
<1>3. trade[r].bid # 0 => trade[r].bid \in Heights
  BY Types DEF Heights
<1>4. trade[r].bid \in Nat /\ trade[r].bid \in 0..MaxHeight
  BY Types
<1>5. BidTracked(w, r)'
  <2>1. ASSUME NEW h \in Heights, <<r, h>> \in bids' PROVE h = Open(w, r)' \/ Lost(r, h)'
    <3>1. h = Open(w, r) \/ Lost(r, h)
      BY <1>1, <2>1 DEF Tracked, BidTracked
    <3> QED
      BY <1>1, <1>2, <3>1 DEF Open, At, Lost, Won, Heights
  <2>2. ASSUME NEW h \in Heights, Won(r, h)', SeenUpTo(w, r, h)' PROVE trade'[r].committed
    <3>1. h <= chainHeight /\ SeenUpTo(w, r, h)
      BY <1>1, <2>2 DEF SeenUpTo, Behind, Heights
    <3>2. Won(r, h)
      BY <1>1, <1>2, <2>2, <3>1 DEF Won
    <3> QED
      BY <1>1, <3>1, <3>2 DEF Tracked, BidTracked
  <2> QED
    BY <1>1, <2>1, <2>2 DEF Tracked, BidTracked, At
<1>6. SearchTracked(w, r)'
  <2>1. InTime(r)' => InTime(r) \/ trade[r].bid = 0
    BY <1>1, <1>2, <1>3, <1>4 DEF InTime
  <2>2. trade[r].bid = 0 => ~At(w, r, {"search"})
    BY DEF InStep, SetInStep, At
  <2> QED
    BY <1>1, <2>1, <2>2 DEF Tracked, SearchTracked, At
<1>7. FeesTracked(w, r)'
  BY <1>1, ProduceBlockEffect DEF Tracked, BidTracked, FeesTracked, At
<1> QED
  BY <1>5, <1>6, <1>7 DEF Tracked

LEMMA ReceiveTracked ==
  ASSUME ~FeedMayGap, IInv, NEW w \in Workers, NEW r \in ZenithRequests, Tracked(w, r),
         ReceiveBlock(w)
  PROVE  Tracked(w, r)'
<1>1. /\ worker[w].pc = "idle" /\ worker'[w].pc = "execute" /\ lastHeight' = lastHeight + 1
      /\ lastHeight \in Nat /\ UNCHANGED <<env, trade>>
  BY ReceiveBlockEffect, Types
<1>2. BidTracked(w, r)'
  <2>1. ASSUME NEW h \in Heights, SeenUpTo(w, r, h)' PROVE SeenUpTo(w, r, h)
    BY <1>1, <2>1 DEF SeenUpTo, Behind, Executing, Bidding, Parsing, Heights
  <2> QED
    BY <1>1, <2>1 DEF Tracked, BidTracked, env, At, Open, Lost, Won
<1>3. SearchTracked(w, r)' /\ FeesTracked(w, r)'
  BY <1>1 DEF Tracked, SearchTracked, FeesTracked, env, At
<1> QED
  BY <1>2, <1>3 DEF Tracked

\* Zenith takes one more bid of a request whose other bids are lost.
LEMMA PlaceTracked ==
  ASSUME IInv, OnChainIsKnown, NEW w \in Workers, InStep(w),
         NEW r \in ZenithRequests, Tracked(w, r), PlaceBid(w)
  PROVE  Tracked(w, r)'
<1> DEFINE q == worker[w].req
           b == worker[w].block
<1>1. /\ worker[w].pc = "sign" /\ worker'[w].pc = "reply" /\ q \in ZenithRequests /\ b \in Heights
      /\ bids' = bids \cup {<<q, b>>} /\ worker'[w].req = q /\ worker'[w].block = b
      /\ worker'[w].todo = worker[w].todo
      /\ UNCHANGED <<chainHeight, onChain, succeeded, lastHeight, trade>>
  BY PlaceBidEffect DEF KeepsAuction
<1>2. \A h \in Heights : Won(r, h)' <=> Won(r, h)
  BY <1>1 DEF Won, OnChainIsKnown
<1>3. \A h \in Heights : Lost(r, h)' <=> Lost(r, h)
  BY <1>1, <1>2 DEF Lost
<1>4. CASE r = q
  <2>1. At(w, r, {"sign"}) /\ At(w, r, {"reply"})'
    BY <1>1, <1>4 DEF At
  <2>2. \A h \in Heights : <<r, h>> \in bids => Lost(r, h)
    BY <2>1, AllLost
  <2>3. \A h \in Heights : <<r, h>> \in bids' => h = Open(w, r)' \/ Lost(r, h)'
    BY <1>1, <1>3, <2>1, <2>2 DEF Open
  <2>4. \A h \in Heights : SeenUpTo(w, r, h)' => SeenUpTo(w, r, h)
    BY <1>1 DEF SeenUpTo, Behind, Executing, Bidding
  <2>5. BidTracked(w, r)'
    BY <1>1, <1>2, <2>1, <2>3, <2>4 DEF Tracked, BidTracked, At
  <2>6. SearchTracked(w, r)' /\ FeesTracked(w, r)'
    BY <1>1 DEF Tracked, SearchTracked, FeesTracked, At
  <2> QED
    BY <2>5, <2>6 DEF Tracked
<1>5. CASE r # q
  <2>1. \A h \in Heights : <<r, h>> \in bids' => h = Open(w, r)' \/ Lost(r, h)'
    BY <1>1, <1>3, <1>5 DEF Tracked, BidTracked, Open, At
  <2>2. \A h \in Heights : SeenUpTo(w, r, h)' => SeenUpTo(w, r, h)
    BY <1>1 DEF SeenUpTo, Behind, Executing, Bidding
  <2>3. BidTracked(w, r)'
    BY <1>1, <1>2, <1>5, <2>1, <2>2 DEF Tracked, BidTracked, At
  <2>4. SearchTracked(w, r)' /\ FeesTracked(w, r)'
    BY <1>1 DEF Tracked, SearchTracked, FeesTracked, At
  <2> QED
    BY <2>3, <2>4 DEF Tracked
<1> QED
  BY <1>4, <1>5

LEMMA AcceptedTracked ==
  ASSUME IInv, NEW w \in Workers, InStep(w), NEW r \in ZenithRequests, Tracked(w, r),
         BidAccepted(w), worker[w].req = r
  PROVE  Tracked(w, r)'
<1>1. /\ worker[w].pc = "reply" /\ worker'[w].pc = "update" /\ worker'[w].req = r
      /\ worker'[w].block = worker[w].block /\ trade'[r].bid = worker[w].block
      /\ trade'[r].committed = trade[r].committed /\ trade'[r].zenithFees = trade[r].zenithFees
      /\ UNCHANGED <<env, lastHeight>>
  BY BidAcceptedEffect DEF KeepsAuction
<1>2. ~trade[r].committed
  BY <1>1 DEF InStep, SetInStep, At, Bidding
<1>3. \A h \in Heights : SeenUpTo(w, r, h)' => SeenUpTo(w, r, h)
  BY <1>1 DEF SeenUpTo, Behind, Executing, Bidding
<1>4. BidTracked(w, r)'
  BY <1>1, <1>2, <1>3 DEF Tracked, BidTracked, env, At, Open, Lost, Won
<1>5. SearchTracked(w, r)' /\ FeesTracked(w, r)'
  BY <1>1, <1>2 DEF Tracked, SearchTracked, FeesTracked, At
<1> QED
  BY <1>4, <1>5 DEF Tracked

LEMMA UpdateTracked ==
  ASSUME IInv, NEW w \in Workers, InStep(w), NEW r \in ZenithRequests, Tracked(w, r),
         UpdateZenithTxSet(w), worker[w].req = r
  PROVE  Tracked(w, r)'
<1>1. /\ worker[w].pc = "update" /\ worker'[w].pc = "auctions"
      /\ trade'[r].bid = trade[r].bid /\ trade'[r].tradeTxs = BidTxs(r, worker[w].block)
      /\ trade'[r].committed = trade[r].committed /\ trade'[r].zenithFees = trade[r].zenithFees
      /\ UNCHANGED <<env, lastHeight>>
  BY UpdateZenithTxSetEffect, LeaveRangeEffect
<1>2. trade[r].bid = worker[w].block
  BY <1>1 DEF Tracked, BidTracked, At
<1>3. \A h \in Heights : SeenUpTo(w, r, h)' => SeenUpTo(w, r, h)
  BY <1>1 DEF SeenUpTo, Behind, Executing, Bidding
<1>4. BidTracked(w, r)'
  BY <1>1, <1>2, <1>3 DEF Tracked, BidTracked, env, At, Open, Lost, Won
<1>5. SearchTracked(w, r)' /\ FeesTracked(w, r)'
  BY <1>1 DEF Tracked, SearchTracked, FeesTracked, env, At
<1> QED
  BY <1>4, <1>5 DEF Tracked

LEMMA ChooseTracked ==
  ASSUME IInv, NEW w \in Workers, InStep(w), NEW r \in ZenithRequests, Tracked(w, r),
         ChooseToBid(w, r)
  PROVE  Tracked(w, r)'
<1>1. /\ worker[w].pc = "offer" /\ worker'[w].pc = "sign" /\ worker'[w].req = r
      /\ trade[r].bid = 0 \/ worker[w].height > trade[r].bid
      /\ Unaltered(r) /\ UNCHANGED <<env, lastHeight>>
  BY ChooseToBidEffect
<1>2. worker[w].height = lastHeight
  BY <1>1 DEF InStep, Executing
<1>3. \A h \in Heights : SeenUpTo(w, r, h)' => SeenUpTo(w, r, h)
  BY <1>1 DEF SeenUpTo, Behind, Executing, Bidding
<1>4. BidTracked(w, r)'
  BY <1>1, <1>2, <1>3, Types DEF Tracked, BidTracked, env, At, Open, Lost, Won, Unaltered
<1>5. SearchTracked(w, r)' /\ FeesTracked(w, r)'
  BY <1>1 DEF Tracked, SearchTracked, FeesTracked, env, At, Unaltered
<1> QED
  BY <1>4, <1>5 DEF Tracked

LEMMA StartSearchTracked ==
  ASSUME IInv, NEW w \in Workers, InStep(w), NEW r \in ZenithRequests, Tracked(w, r),
         StartSearch(w), worker[w].req = r
  PROVE  Tracked(w, r)'
<1>1. /\ worker[w].pc = "dispatch" /\ worker'[w].pc = "search" /\ worker'[w].req = r
      /\ ~trade[r].committed /\ trade[r].bid # 0 /\ worker'[w].todo = worker[w].todo
      /\ worker'[w].sought = trade[r].tradeTxs /\ worker'[w].found = <<>>
      /\ UNCHANGED <<env, lastHeight, trade>>
  BY StartSearchEffect
<1>2. trade[r].tradeTxs = BidTxs(r, trade[r].bid)
  BY <1>1 DEF Tracked, BidTracked, At
<1>3. \A h \in Heights : SeenUpTo(w, r, h)' => SeenUpTo(w, r, h)
  BY <1>1 DEF SeenUpTo, Behind, Executing, Bidding, Parsing
<1>4. BidTracked(w, r)'
  BY <1>1, <1>3 DEF Tracked, BidTracked, env, At, Open, Lost, Won
<1>5. SearchTracked(w, r)'
  BY <1>1, <1>2 DEF SearchTracked, At, BidTxs
<1>6. FeesTracked(w, r)'
  BY <1>1 DEF Tracked, FeesTracked, env, At
<1> QED
  BY <1>4, <1>5, <1>6 DEF Tracked

LEMMA CommitTracked ==
  ASSUME IInv, NEW w \in Workers, InStep(w), NEW r \in ZenithRequests, Tracked(w, r),
         CommitFound(w), worker[w].req = r
  PROVE  Tracked(w, r)' /\ Won(r, trade[r].bid) /\ trade[r].bid \in Heights
<1>1. /\ worker[w].pc = "search" /\ worker'[w].pc = "record" /\ worker'[w].req = r
      /\ worker[w].sought = <<>> /\ worker[w].found # <<>> /\ worker'[w].found = worker[w].found
      /\ worker'[w].todo = worker[w].todo
      /\ trade'[r].committed = TRUE /\ trade'[r].bid = trade[r].bid
      /\ trade'[r].zenithFees = trade[r].zenithFees
      /\ UNCHANGED <<env, lastHeight>>
  BY CommitFoundEffect DEF KeepsLookups
<1>2. /\ worker[w].found \in {<<UserTx(r), ArbTx(r, trade[r].bid)>>, <<ArbTx(r, trade[r].bid)>>}
      /\ ArbTx(r, trade[r].bid) \in onChain
  BY <1>1 DEF Tracked, SearchTracked, At
<1>3. trade[r].bid # 0 /\ ~trade[r].committed
  BY <1>1 DEF InStep, SetInStep, At
<1>4. trade[r].bid \in Heights /\ <<r, trade[r].bid>> \in bids
  BY <1>3, Types DEF IInv, TracksPlacedBids, Heights
<1>5. BidTracked(w, r)'
  BY <1>1, <1>2 DEF Tracked, BidTracked, env, At, Open, Lost, Won
<1>6. SearchTracked(w, r)' /\ FeesTracked(w, r)'
  BY <1>1, <1>2, <1>3 DEF Tracked, SearchTracked, FeesTracked, At
<1> QED
  BY <1>2, <1>4, <1>5, <1>6 DEF Tracked, Won

\* What is recorded has the arbitrage TX once.
LEMMA ChargeOnce ==
  ASSUME NEW r \in ZenithRequests, NEW h \in Heights,
         NEW found \in {<<UserTx(r), ArbTx(r, h)>>, <<ArbTx(r, h)>>}
  PROVE  Charge(found, succeeded \ {UserTx(r)}) = IF ArbTx(r, h) \in succeeded THEN 1 ELSE 0
<1> DEFINE at == {i \in DOMAIN found : found[i] \in succeeded \ {UserTx(r)}}
<1>1. ArbTx(r, h) # UserTx(r)
  BY DEF ArbTx, UserTx, Heights
<1>2. at = IF ArbTx(r, h) \in succeeded THEN {Len(found)} ELSE {}
  <2>1. CASE found = <<UserTx(r), ArbTx(r, h)>>
    BY <1>1, <2>1
  <2>2. CASE found = <<ArbTx(r, h)>>
    BY <1>1, <2>2
  <2> QED
    BY <2>1, <2>2
<1> HIDE DEF at
<1>3. Cardinality(at) = IF ArbTx(r, h) \in succeeded THEN 1 ELSE 0
  BY <1>2, FS_EmptySet, FS_Singleton
<1> QED
  BY <1>3 DEF Charge, at

LEMMA RecordTracked ==
  ASSUME IInv, NEW w \in Workers, InStep(w), NEW r \in ZenithRequests, Tracked(w, r),
         RecordFound(w), worker[w].req = r
  PROVE  Tracked(w, r)'
<1>1. /\ worker[w].pc = "record" /\ worker'[w].pc = "parse"
      /\ trade'[r].committed = trade[r].committed /\ trade'[r].bid = trade[r].bid
      /\ trade'[r].zenithFees
           = trade[r].zenithFees + Charge(worker[w].found, succeeded \ {UserTx(r)})
      /\ UNCHANGED <<env, lastHeight>>
  BY RecordFoundEffect, NextTradeEffect
<1>2. trade[r].committed /\ trade[r].bid \in Heights
  BY <1>1, Types DEF InStep, SetInStep, At, Heights
<1>3. worker[w].found \in {<<UserTx(r), ArbTx(r, trade[r].bid)>>, <<ArbTx(r, trade[r].bid)>>}
  BY <1>1 DEF Tracked, SearchTracked, At
<1>4. trade[r].zenithFees = 0
  BY <1>1 DEF Tracked, FeesTracked, At
<1>5. trade'[r].zenithFees = IF ArbTx(r, trade[r].bid) \in succeeded THEN 1 ELSE 0
  <2> DEFINE charge == Charge(worker[w].found, succeeded \ {UserTx(r)})
  <2>1. charge = IF ArbTx(r, trade[r].bid) \in succeeded THEN 1 ELSE 0
    BY <1>2, <1>3, ChargeOnce, Zenon
  <2>2. trade'[r].zenithFees = 0 + charge
    BY <1>1, <1>4
  <2> HIDE DEF charge
  <2> QED
    BY <2>1, <2>2
<1>6. BidTracked(w, r)'
  BY <1>1, <1>2 DEF Tracked, BidTracked, env, At, Open, Lost, Won
<1>7. SearchTracked(w, r)' /\ FeesTracked(w, r)'
  BY <1>1, <1>2, <1>5 DEF SearchTracked, FeesTracked, env, At
<1> QED
  BY <1>6, <1>7 DEF Tracked

LEMMA AppendPair == ASSUME NEW t, NEW u PROVE Append(<<t>>, u) = <<t, u>>
<1> DEFINE S == {t, u}
           one == <<t>>
           two == <<t, u>>
<1>1. /\ one \in Seq(S) /\ Len(one) = 1 /\ one[1] = t /\ u \in S
      /\ two \in Seq(S) /\ Len(two) = 2 /\ two[1] = t /\ two[2] = u
  OBVIOUS
<1> HIDE DEF S, one, two
<1>2. Append(one, u) \in Seq(S) /\ Len(Append(one, u)) = 2
  BY <1>1 DEF one
<1>3. \A i \in 1..2 : Append(one, u)[i] = two[i]
  BY <1>1 DEF one, two
<1>4. Append(one, u) = two
  BY <1>1, <1>2, <1>3
<1> QED
  BY <1>4 DEF one, two

\* One TX is looked up: the arbitrage TX is found if it is there.
LEMMA LookUpTracked ==
  ASSUME ~RpcMayFail, IInv, OnChainIsKnown, NEW w \in Workers, InStep(w),
         NEW r \in ZenithRequests, Tracked(w, r), LookUp(w), At(w, r, {"search"})
  PROVE  Tracked(w, r)'
<1> DEFINE u == UserTx(r)
           a == ArbTx(r, trade[r].bid)
           sought == worker[w].sought
           found == worker[w].found
<1>1. /\ sought # <<>> /\ worker'[w].pc = "search" /\ worker'[w].req = r
      /\ worker'[w].todo = worker[w].todo /\ worker'[w].sought = Tail(sought)
      /\ \/ Head(sought) \in onChain /\ worker'[w].found = Append(found, Head(sought))
         \/ Head(sought) \notin onChain /\ worker'[w].found = found
      /\ UNCHANGED <<env, lastHeight, trade>>
  BY LookUpEffect DEF At
<1>2. BidTracked(w, r)'
  <2>1. \A h \in Heights : SeenUpTo(w, r, h)' => SeenUpTo(w, r, h)
    BY <1>1 DEF SeenUpTo, Behind, Executing, Bidding, Parsing, At
  <2> QED
    BY <1>1, <2>1 DEF Tracked, BidTracked, env, At, Open, Lost, Won
<1>3. FeesTracked(w, r)'
  BY <1>1 DEF Tracked, FeesTracked, env, At
<1>4. /\ trade[r].bid \in Heights
      /\ u \in onChain => a \in onChain
      /\ a \in onChain => u \in onChain
  <2>1. trade[r].bid # 0 /\ trade[r].bid \in Heights
    BY Types DEF InStep, SetInStep, At, Heights
  <2>2. ASSUME u \in onChain PROVE a \in onChain
    <3> PICK h \in Heights : ArbTx(r, h) \in onChain
      BY <2>2 DEF OnChainIsKnown
    <3>1. Won(r, h)
      BY DEF Won, OnChainIsKnown
    <3>2. h = trade[r].bid
      BY <3>1, TrackedWon DEF At
    <3> QED
      BY <3>2
  <2> QED
    BY <2>1, <2>2 DEF OnChainIsKnown
<1>5. SearchTracked(w, r)'
  <2>1. \/ sought = <<u, a>> /\ found = <<>>
        \/ sought = <<a>> /\ found = <<u>> /\ a \in onChain
        \/ sought = <<a>> /\ found = <<>> /\ ~InTime(r)
    BY <1>1 DEF Tracked, SearchTracked
  <2>2. InTime(r)' <=> InTime(r)
    BY <1>1 DEF InTime, env
  <2> HIDE DEF u, a, sought, found
  <2>3. CASE sought = <<u, a>> /\ found = <<>>
    <3>1. Tail(sought) = <<a>> /\ Head(sought) = u /\ Append(found, u) = <<u>>
      BY <2>3
    <3>2. worker'[w].sought = <<a>>
      BY <1>1, <3>1
    <3>3. \/ worker'[w].found = <<u>> /\ a \in onChain
          \/ worker'[w].found = <<>> /\ a \notin onChain
      BY <1>1, <1>4, <2>3, <3>1
    <3>4. a \notin onChain => ~InTime(r)
      BY DEF InTime, a
    <3> QED
      BY <1>1, <2>2, <3>2, <3>3, <3>4 DEF SearchTracked, At, u, a, env
  <2>4. CASE sought = <<a>> /\ found = <<u>> /\ a \in onChain
    <3>1. Tail(<<a>>) = <<>> /\ Head(<<a>>) = a /\ Append(<<u>>, a) = <<u, a>>
      BY AppendPair
    <3>2. worker'[w].sought = <<>> /\ worker'[w].found = <<u, a>>
      BY <1>1, <2>4, <3>1
    <3> QED
      BY <1>1, <2>4, <3>2 DEF SearchTracked, At, u, a, env
  <2>5. CASE sought = <<a>> /\ found = <<>> /\ ~InTime(r)
    <3>1. Tail(sought) = <<>> /\ Head(sought) = a /\ Append(found, a) = <<a>>
      BY <2>5
    <3>2. worker'[w].sought = <<>>
      BY <1>1, <3>1
    <3>3. \/ worker'[w].found = <<a>> /\ a \in onChain
          \/ worker'[w].found = <<>>
      BY <1>1, <2>5, <3>1
    <3> QED
      BY <1>1, <2>2, <2>5, <3>2, <3>3 DEF SearchTracked, At, u, a, env
  <2> QED
    BY <2>1, <2>3, <2>4, <2>5
<1> QED
  BY <1>2, <1>3, <1>5 DEF Tracked

\* The treatment of a request ends when all that was won so far is committed.
LEMMA NextTradeTracked ==
  ASSUME IInv, NEW w \in Workers, NEW r \in ZenithRequests, Tracked(w, r),
         NextTrade(w), At(w, r, {"dispatch", "search"}), Unaltered(r), UNCHANGED <<env, lastHeight>>,
         \A h \in Heights : Won(r, h) /\ h <= lastHeight => trade[r].committed
  PROVE  Tracked(w, r)'
<1>1. worker'[w].pc = "parse"
  BY NextTradeEffect
<1>2. \A h \in Heights : SeenUpTo(w, r, h)' => h <= lastHeight
  BY Types DEF SeenUpTo, Heights
<1>3. BidTracked(w, r)'
  BY <1>1, <1>2 DEF Tracked, BidTracked, env, At, Open, Lost, Won, Unaltered
<1>4. SearchTracked(w, r)' /\ FeesTracked(w, r)'
  BY <1>1 DEF Tracked, SearchTracked, FeesTracked, env, At, Unaltered
<1> QED
  BY <1>3, <1>4 DEF Tracked

LEMMA StillWaitingTracked ==
  ASSUME IInv, NEW w \in Workers, InStep(w), NEW r \in ZenithRequests, Tracked(w, r),
         StillWaiting(w), worker[w].req = r
  PROVE  Tracked(w, r)'
<1>1. /\ worker[w].pc = "search" /\ worker[w].sought = <<>>
      /\ worker[w].found = <<>> \/ trade[r].tradeTxs = <<>>
      /\ NextTrade(w) /\ UNCHANGED <<env, lastHeight, txqueue, trade>>
  BY StillWaitingEffect
<1>2. trade[r].bid # 0 /\ ~trade[r].committed
  BY <1>1 DEF InStep, SetInStep, At, Bidding
<1>3. trade[r].tradeTxs # <<>>
  BY <1>1, <1>2 DEF Tracked, BidTracked, At, BidTxs
<1>4. ~InTime(r)
  BY <1>1, <1>3 DEF Tracked, SearchTracked, At
<1>5. \A h \in Heights : Won(r, h) => h = trade[r].bid
  BY <1>1, TrackedWon DEF At
<1>6. \A h \in Heights : Won(r, h) /\ h <= lastHeight => trade[r].committed
  BY <1>4, <1>5 DEF InTime, Won
<1> QED
  BY <1>1, <1>6, NextTradeTracked DEF At, Unaltered

LEMMA DispatchTracked ==
  ASSUME IInv, NEW w \in Workers, InStep(w), NEW r \in ZenithRequests, Tracked(w, r),
         NothingToDo(w) \/ Summarise(w) \/ AwaitShare(w), worker[w].req = r
  PROVE  Tracked(w, r)'
<1>1. /\ worker[w].pc = "dispatch" /\ NextTrade(w) /\ UNCHANGED <<env, lastHeight>> /\ Unaltered(r)
      /\ trade[r].committed \/ trade[r].bid = 0 \/ trade[r].lastChainHeight > trade[r].bid
  BY NothingToDoEffect, SettleEffect DEF Unaltered
<1>2. ASSUME NEW h \in Heights, Won(r, h) PROVE trade[r].committed
  <2>1. h = trade[r].bid /\ h # 0
    BY <1>1, <1>2, TrackedWon DEF At, Heights
  <2>2. trade[r].lastChainHeight <= lastHeight
    BY DEF InStep, SetInStep
  <2>3. ASSUME trade[r].lastChainHeight > trade[r].bid PROVE SeenUpTo(w, r, h)
    BY <2>1, <2>2, <2>3, Types DEF SeenUpTo
  <2> QED
    BY <1>1, <1>2, <2>1, <2>3 DEF Tracked, BidTracked
<1> QED
  BY <1>1, <1>2, NextTradeTracked DEF At

\* A goroutine starts to parse the queued requests; the others have no bid.
LEMMA StartParseTracked ==
  ASSUME IInv, OnChainIsKnown, NEW w \in Workers, NEW r \in ZenithRequests, Tracked(w, r),
         StartParse(w)
  PROVE  Tracked(w, r)'
<1>1. /\ worker[w].pc = "auctions" /\ worker'[w].pc = "parse"
      /\ worker'[w].todo = txqueue \cap ZenithRequests /\ UNCHANGED <<env, lastHeight, trade>>
  BY StartParseEffect
<1>2. CASE r \in txqueue
  BY <1>1, <1>2, Quiet DEF Unaltered, At, Marked, Behind, Parsing
<1>3. CASE r \notin txqueue
  <2>1. \A h \in Heights : <<r, h>> \notin bids
    BY <1>3 DEF OnChainIsKnown
  <2>2. BidTracked(w, r)'
    BY <1>1, <2>1 DEF Tracked, BidTracked, env, At, Won
  <2>3. SearchTracked(w, r)' /\ FeesTracked(w, r)'
    BY <1>1 DEF Tracked, SearchTracked, FeesTracked, env, At
  <2> QED
    BY <2>2, <2>3 DEF Tracked
<1> QED
  BY <1>2, <1>3

LEMMA ExecuteTracked ==
  ASSUME Reliable, IInv, OnChainIsKnown, NEW w \in Workers, InStep(w),
         NEW r \in ZenithRequests, Tracked(w, r), Execute(w)
  PROVE  Tracked(w, r)'
<1> USE DEF Executing, Bidding
<1>1. CASE StartExecute(w) \/ OfferToAuction(w)
  <2>1. /\ worker[w].pc \in {"execute", "auctions"} /\ worker'[w].pc \in {"auctions", "offer"}
        /\ UNCHANGED <<env, lastHeight, trade>>
    BY <1>1, StartExecuteEffect, OfferToAuctionEffect
  <2> QED
    BY <2>1, Quiet DEF At, Marked, Behind, Unaltered
<1>2. ASSUME LeaveRange(w), worker[w].pc \in {"offer", "sign"}, Unaltered(r),
             UNCHANGED <<env, lastHeight>>
      PROVE  Tracked(w, r)'
  <2>1. worker'[w].pc = "auctions"
    BY <1>2, LeaveRangeEffect
  <2> QED
    BY <1>2, <2>1, Quiet DEF At, Marked, Behind
<1>3. CASE StopAtAuthz(w) \/ EndRange(w) \/ GetZenithBidFails(w)
  BY <1>2, <1>3 DEF StopAtAuthz, EndRange, GetZenithBidFails, Unaltered
<1>4. ASSUME NEW q \in ZenithRequests, PassOver(w, q) PROVE Tracked(w, r)'
  <2>1. /\ worker[w].pc = "offer" /\ worker'[w].pc = "offer" /\ Unaltered(r)
        /\ UNCHANGED <<env, lastHeight>>
    BY <1>4, PassOverEffect DEF OthersKept, Unaltered
  <2> QED
    BY <2>1, Quiet DEF At, Marked, Behind
<1>5. ASSUME NEW q \in ZenithRequests, ChooseToBid(w, q) PROVE Tracked(w, r)'
  <2>1. CASE q = r
    BY <1>5, <2>1, ChooseTracked
  <2>2. CASE q # r
    <3>1. /\ worker[w].pc = "offer" /\ worker'[w].pc = "sign" /\ worker'[w].req # r
          /\ Unaltered(r) /\ UNCHANGED <<env, lastHeight>>
      BY <1>5, <2>2, ChooseToBidEffect DEF OthersKept, Unaltered
    <3> QED
      BY <3>1, Quiet DEF At, Marked, Behind
  <2> QED
    BY <2>1, <2>2
<1>6. CASE PlaceBid(w)
  BY <1>6, PlaceTracked
<1>7. CASE BidRefused(w)
  <2>1. worker[w].pc = "sign" /\ RecordBidError(w)
    BY <1>7 DEF BidRefused
  <2>2. LeaveRange(w) /\ Unaltered(r) /\ UNCHANGED <<env, lastHeight>>
    BY <2>1, RecordBidErrorEffect DEF OthersKept, Unaltered
  <2> QED
    BY <1>2, <2>1, <2>2
<1>8. CASE BidAccepted(w)
  <2>1. CASE worker[w].req = r
    BY <1>8, <2>1, AcceptedTracked
  <2>2. CASE worker[w].req # r
    <3>1. /\ worker[w].pc = "reply" /\ worker'[w].pc = "update" /\ worker'[w].req # r
          /\ Unaltered(r) /\ UNCHANGED <<env, lastHeight>>
      BY <1>8, <2>2, BidAcceptedEffect DEF OthersKept, Unaltered
    <3> QED
      BY <2>2, <3>1, Quiet DEF At, Behind
  <2> QED
    BY <2>1, <2>2
<1>9. CASE UpdateZenithTxSet(w)
  <2>1. CASE worker[w].req = r
    BY <1>9, <2>1, UpdateTracked
  <2>2. CASE worker[w].req # r
    <3>1. /\ worker[w].pc = "update" /\ worker'[w].pc = "auctions"
          /\ Unaltered(r) /\ UNCHANGED <<env, lastHeight>>
      BY <1>9, <2>2, UpdateZenithTxSetEffect, LeaveRangeEffect DEF OthersKept, Unaltered
    <3> QED
      BY <2>2, <3>1, Quiet DEF At, Marked, Behind
  <2> QED
    BY <2>1, <2>2
<1> QED
  BY <1>1, <1>3, <1>4, <1>5, <1>6, <1>7, <1>8, <1>9 DEF Execute, Reliable, BidReplyLost

LEMMA ParseTracked ==
  ASSUME OneGoroutine, Reliable, SeesAllInv, OnChainIsKnown, NEW w \in Workers,
         NEW r \in ZenithRequests, Tracked(w, r), Parse(w), [Next]_vars
  PROVE  Tracked(w, r)'
<1>1. IInv /\ InStep(w)
  BY DEF SeesAllInv, InStepInv
<1>2. trade[r].committed => trade'[r].committed
  BY CommitKept
<1>3. CASE StartParse(w)
  BY <1>1, <1>3, StartParseTracked
<1>4. CASE EndParse(w)
  <2>1. worker[w].pc = "parse" /\ worker[w].todo = {}
    BY <1>4 DEF EndParse
  <2>2. worker'[w] = IdleWorker /\ UNCHANGED <<env, lastHeight, trade>>
    BY <1>1, <1>4, StopParseEffect
  <2>3. worker'[w].pc = "idle"
    BY <2>2 DEF IdleWorker
  <2> QED
    BY <2>1, <2>2, <2>3, Quiet DEF At, Marked, Behind, Unaltered, Executing, Bidding, Parsing
<1>5. ASSUME NEW q \in ZenithRequests, VisitTrade(w, q) PROVE Tracked(w, r)'
  <2>1. /\ worker[w].pc = "parse" /\ worker'[w].pc \in {"recheck", "dispatch"}
        /\ worker'[w].todo = worker[w].todo /\ UNCHANGED <<env, lastHeight>>
    BY <1>1, <1>5, VisitTradeEffect
  <2>2. Unaltered(r)
    <3>1. CASE q = r
      BY <1>1, <1>2, <1>5, <3>1, VisitTradeEffect DEF Unaltered
    <3>2. CASE q # r
      BY <1>1, <1>5, <3>2, VisitTradeEffect DEF OthersKept, Unaltered
    <3> QED
      BY <3>1, <3>2
  <2> QED
    BY <2>1, <2>2, Quiet DEF At, Marked, Behind, Executing, Bidding, Parsing
<1>6. CASE RecheckDone(w)
  <2>1. /\ worker[w].pc = "recheck" /\ worker'[w].pc = "dispatch"
        /\ worker'[w].todo = worker[w].todo /\ UNCHANGED <<env, lastHeight>>
    BY <1>1, <1>6, RecheckDoneEffect
  <2>2. Unaltered(r)
    <3>1. CASE worker[w].req = r
      BY <1>1, <1>2, <1>6, <3>1, RecheckDoneEffect, Types DEF Unaltered
    <3>2. CASE worker[w].req # r
      BY <1>1, <1>6, <3>2, RecheckDoneEffect DEF OthersKept, Unaltered
    <3> QED
      BY <3>1, <3>2
  <2> QED
    BY <2>1, <2>2, Quiet DEF At, Marked, Behind, Executing, Bidding, Parsing
<1>7. CASE LookUp(w)
  <2>1. /\ worker[w].pc \in LooksUp /\ worker'[w].pc = worker[w].pc
        /\ worker'[w].req = worker[w].req /\ worker'[w].todo = worker[w].todo
        /\ UNCHANGED <<env, lastHeight, trade>>
    BY <1>1, <1>7, LookUpEffect
  <2>2. CASE At(w, r, {"search"})
    BY <1>1, <1>7, <2>2, LookUpTracked DEF Reliable
  <2>3. CASE ~At(w, r, {"search"})
    BY <2>1, <2>3, Quiet DEF At, Marked, Behind, Unaltered, LooksUp, Executing, Bidding, Parsing
  <2> QED
    BY <2>2, <2>3
<1>8. CASE /\ worker[w].req = r
           /\ \/ StartSearch(w) \/ CommitFound(w) \/ RecordFound(w) \/ StillWaiting(w)
              \/ NothingToDo(w) \/ Summarise(w) \/ AwaitShare(w)
  BY <1>1, <1>8, StartSearchTracked, CommitTracked, RecordTracked, StillWaitingTracked,
     DispatchTracked
<1>9. CASE worker[w].req # r /\ (StartSearch(w) \/ CommitFound(w))
  <2>1. /\ worker[w].pc \in {"dispatch", "search"} /\ worker'[w].pc \in {"search", "record"}
        /\ worker'[w].req = worker[w].req /\ worker'[w].todo = worker[w].todo
        /\ Unaltered(r) /\ UNCHANGED <<env, lastHeight>>
    BY <1>1, <1>9, StartSearchEffect, CommitFoundEffect DEF OthersKept, Unaltered
  <2> QED
    BY <1>9, <2>1, Quiet DEF At, Behind, Executing, Bidding, Parsing
<1>10. CASE /\ worker[w].req # r
            /\ \/ RecordFound(w) \/ StillWaiting(w) \/ NothingToDo(w)
               \/ Summarise(w) \/ AwaitShare(w)
  <2>1. /\ worker[w].pc \in {"record", "search", "dispatch"} /\ NextTrade(w)
        /\ Unaltered(r) /\ UNCHANGED <<env, lastHeight>>
    BY <1>1, <1>10, RecordFoundEffect, StillWaitingEffect, NothingToDoEffect, SettleEffect
       DEF OthersKept, Unaltered
  <2>2. /\ worker'[w].pc = "parse" /\ worker'[w].todo = worker[w].todo \ {worker[w].req}
    BY <1>1, <2>1, NextTradeEffect
  <2> QED
    BY <1>10, <2>1, <2>2, Quiet DEF At, Marked, Behind, Executing, Bidding, Parsing
<1>11. CASE Panic(w)
  BY <1>1, <1>11, PanicEffect DEF InStep, SetInStep, At
<1> QED
  BY <1>3, <1>4, <1>5, <1>6, <1>7, <1>8, <1>9, <1>10, <1>11
     DEF Parse, Reliable, ParseClientError, ParseFails

TrackedInv ==
  /\ SeesAllInv /\ OnChainIsKnown
  /\ \A w \in Workers : TreatsQueued(w) /\ \A r \in ZenithRequests : Tracked(w, r)

LEMMA TrackedInit == ASSUME Init PROVE TrackedInv
<1> USE DEF Init, IdleWorker, NewZenithTxSet
<1>1. SeesAllInv
  BY InvInit, InStepInit DEF SeesAllInv, InStepInv, SeesAll, SetOnChain, At
<1>2. OnChainIsKnown
  BY DEF OnChainIsKnown
<1>3. \A w \in Workers : TreatsQueued(w)
  BY DEF TreatsQueued, HoldsRequest
<1>4. ASSUME NEW w \in Workers, NEW r \in ZenithRequests PROVE Tracked(w, r)
  BY DEF Tracked, BidTracked, SearchTracked, FeesTracked, At, Won
<1> QED
  BY <1>1, <1>2, <1>3, <1>4 DEF TrackedInv

LEMMA TrackedNext ==
  ASSUME OneGoroutine, Reliable, TrackedInv, [Next]_vars PROVE TrackedInv'
<1> PICK w : Workers = {w}
  BY DEF OneGoroutine
<1>1. /\ SeesAllInv /\ SeesAllInv' /\ IInv /\ InStep(w) /\ OnChainIsKnown /\ w \in Workers
      /\ TreatsQueued(w) /\ \A r \in ZenithRequests : Tracked(w, r)
  BY SeesAllNext DEF TrackedInv, SeesAllInv, InStepInv, Reliable
<1>2. OnChainIsKnown' /\ TreatsQueued(w)' /\ \A r \in ZenithRequests : Tracked(w, r)'
  <2>1. CASE /\ \/ \E r \in ZenithRequests : QueueZenith(r)
                \/ \E a \in AuthzRequests : AddAuthzTxSet(a)
                \/ UNCHANGED vars
    <3>1. txqueue \subseteq txqueue' /\ UNCHANGED <<env, lastHeight, trade, worker>>
      BY <2>1 DEF QueueZenith, AddAuthzTxSet, vars, env
    <3>2. TreatsQueued(w)'
      BY <1>1, <3>1 DEF TreatsQueued
    <3>3. ASSUME NEW r \in ZenithRequests PROVE Tracked(w, r)'
      BY <1>1, <3>1 DEF Tracked, BidTracked, SearchTracked, FeesTracked, At, Open, Lost, Won,
                        SeenUpTo, Behind, InTime, env
    <3> QED
      BY <1>1, <3>1, <3>2, <3>3, KnownKept
  <2>2. CASE ProduceBlock
    <3>1. TreatsQueued(w)'
      BY <1>1, <2>2 DEF TreatsQueued, ProduceBlock
    <3> QED
      BY <1>1, <2>2, <3>1, ProduceKnown, ProduceTracked
  <2>3. CASE ReceiveBlock(w)
    <3>1. /\ worker'[w].pc = "execute" /\ worker'[w].todo = worker[w].todo
          /\ UNCHANGED <<env, txqueue>>
      BY <1>1, <2>3, ReceiveBlockEffect
    <3>2. TreatsQueued(w)'
      BY <1>1, <3>1 DEF TreatsQueued, HoldsRequest
    <3> QED
      BY <1>1, <2>3, <3>1, <3>2, KnownKept, ReceiveTracked DEF Reliable
  <2>4. CASE Execute(w)
    <3>1. OnChainIsKnown'
      <4>1. CASE PlaceBid(w)
        BY <1>1, <4>1, PlaceKnown
      <4>2. CASE ~PlaceBid(w)
        <5>1. UNCHANGED <<env, txqueue>>
          BY <2>4, <4>2
             DEF Execute, StartExecute, OfferToAuction, StopAtAuthz, EndRange, PassOver,
                 ChooseToBid, GetZenithBidFails, BidRefused, BidReplyLost, RecordBidError,
                 BidAccepted, UpdateZenithTxSet
        <5> QED
          BY <1>1, <5>1, KnownKept
      <4> QED
        BY <4>1, <4>2
    <3> QED
      BY <1>1, <2>4, <3>1, TreatsExecute, ExecuteTracked
  <2>5. CASE Parse(w)
    <3>1. UNCHANGED <<env, txqueue>>
      BY <2>5 DEF Parse, StartParse, ParseClientError, EndParse, VisitTrade, LookUp, ParseFails, RecheckDone,
                  StartSearch, CommitFound, RecordFound, StillWaiting, Summarise, Panic,
                  AwaitShare, NothingToDo
    <3> QED
      BY <1>1, <2>5, <3>1, KnownKept, TreatsParse, ParseTracked
  <2> QED
    BY <2>1, <2>2, <2>3, <2>4, <2>5 DEF Next
<1> QED
  BY <1>1, <1>2 DEF TrackedInv

LEMMA TrackedInvariance == ASSUME OneGoroutine, Reliable PROVE Spec => []TrackedInv
<1>1. Init => TrackedInv
  BY TrackedInit
<1>2. TrackedInv /\ [Next]_vars => TrackedInv'
  BY TrackedNext
<1> QED
  BY <1>1, <1>2, PTL DEF Spec

\* Between two notifications what was won in a block notified is committed
\* (track_arbitrage.go:501).
THEOREM WonIsCommittedHolds == ASSUME OneGoroutine, Reliable PROVE Spec => []WonIsCommitted
<1>1. ASSUME TrackedInv PROVE WonIsCommitted
  <2> PICK w : Workers = {w}
    BY DEF OneGoroutine
  <2> SUFFICES ASSUME worker[w].pc = "idle", NEW r \in ZenithRequests, NEW h \in 1..lastHeight,
                      Won(r, h)
               PROVE  trade[r].committed
    BY DEF WonIsCommitted
  <2>1. w \in Workers /\ IInv /\ Tracked(w, r)
    BY <1>1 DEF TrackedInv, SeesAllInv, InStepInv
  <2>2. h \in Heights
    <3>1. lastHeight <= chainHeight /\ chainHeight <= MaxHeight /\ lastHeight \in Nat
      BY <2>1, Types, ConstantsAssumption DEF IInv, TypeOK
    <3>2. chainHeight \in Nat /\ MaxHeight \in Nat
      BY <2>1, Types, ConstantsAssumption
    <3> QED
      BY <3>1, <3>2 DEF Heights
  <2>3. SeenUpTo(w, r, h)
    BY <2>1, Types DEF SeenUpTo, Behind, Executing, Bidding, Parsing
  <2> QED
    BY <2>1, <2>2, <2>3 DEF Tracked, BidTracked
<1> QED
  BY <1>1, TrackedInvariance, PTL

\* The auction fees of a committed set are those of the one arbitrage TX that
\* won, if it succeeded.
THEOREM ZenithFeesExactHolds == ASSUME OneGoroutine, Reliable PROVE Spec => []ZenithFeesExact
<1>1. ASSUME TrackedInv PROVE ZenithFeesExact
  <2> PICK w : Workers = {w}
    BY DEF OneGoroutine
  <2> SUFFICES ASSUME worker[w].pc # "record", NEW r \in ZenithRequests, trade[r].committed
               PROVE  trade[r].zenithFees = Cardinality((TxsOf(r) \ {UserTx(r)}) \cap succeeded)
    BY DEF ZenithFeesExact
  <2> DEFINE h == trade[r].bid
             mine == (TxsOf(r) \ {UserTx(r)}) \cap succeeded
  <2>1. w \in Workers /\ IInv /\ OnChainIsKnown /\ InStep(w) /\ Tracked(w, r)
    BY <1>1 DEF TrackedInv, SeesAllInv, InStepInv
  <2>2. h \in Heights /\ ~At(w, r, {"reply"})
    BY <2>1, Types DEF InStep, SetInStep, At, Bidding, Heights
  <2>3. mine \subseteq {ArbTx(r, h)}
    <3> SUFFICES ASSUME NEW g \in 0..MaxHeight, g # 0, <<r, g>> \in succeeded PROVE g = h
      BY DEF TxsOf, UserTx, ArbTx
    <3>1. g \in Heights
      BY ConstantsAssumption DEF Heights
    <3>2. Won(r, g)
      BY <2>1, <3>1 DEF Won, OnChainIsKnown, ArbTx, IInv, TypeOK
    <3> QED
      BY <2>1, <2>2, <3>1, <3>2, TrackedWon
  <2>4. ArbTx(r, h) \in mine <=> ArbTx(r, h) \in succeeded
    BY <2>2, ConstantsAssumption DEF TxsOf, UserTx, ArbTx, Heights
  <2>5. trade[r].zenithFees = IF ArbTx(r, h) \in succeeded THEN 1 ELSE 0
    BY <2>1 DEF Tracked, FeesTracked, At
  <2> HIDE DEF mine
  <2>6. mine = IF ArbTx(r, h) \in succeeded THEN {ArbTx(r, h)} ELSE {}
    BY <2>3, <2>4
  <2>7. Cardinality(mine) = IF ArbTx(r, h) \in succeeded THEN 1 ELSE 0
    BY <2>6, FS_EmptySet, FS_Singleton
  <2> QED
    BY <2>5, <2>7 DEF mine
<1> QED
  BY <1>1, TrackedInvariance, PTL

\* A user's swap is executed once.
THEOREM AtMostOneWinHolds == ASSUME OneGoroutine, Reliable PROVE Spec => []AtMostOneWin
<1>1. ASSUME TrackedInv PROVE AtMostOneWin
  <2> PICK w : Workers = {w}
    BY DEF OneGoroutine
  <2> SUFFICES ASSUME NEW r \in ZenithRequests, NEW h \in Heights, NEW g \in Heights,
                      Won(r, h), Won(r, g)
               PROVE  h = g
    BY DEF AtMostOneWin, Promise!AtMostOneWin, Won, ArbTx, Heights
  <2>1. BidTracked(w, r)
    BY <1>1 DEF TrackedInv, Tracked
  <2>2. <<r, h>> \in bids /\ <<r, g>> \in bids /\ ~Lost(r, h) /\ ~Lost(r, g)
    BY DEF Won, Lost
  <2>3. h = Open(w, r) /\ g = Open(w, r)
    BY <2>1, <2>2 DEF BidTracked
  <2> QED
    BY <2>3
<1> QED
  BY <1>1, TrackedInvariance, PTL

\* Only PlaceBid enters a request for an auction.
LEMMA BidsPlaced ==
  ASSUME NEW w, Workers = {w}, [Next]_vars, bids' # bids
  PROVE  PlaceBid(w)
<1>1. ~(UNCHANGED vars) /\ ~ProduceBlock /\ ~ReceiveBlock(w)
  BY DEF vars, ProduceBlock, ReceiveBlock, env
<1>2. ~\E i : QueueZenith(i) \/ AddAuthzTxSet(i)
  BY DEF QueueZenith, AddAuthzTxSet, env
<1>3. ~Parse(w)
  BY DEF Parse, StartParse, ParseClientError, EndParse, VisitTrade, LookUp, ParseFails, RecheckDone,
         StartSearch, CommitFound, RecordFound, StillWaiting, Summarise, Panic, AwaitShare,
         NothingToDo, env
<1>4. Execute(w)
  BY <1>1, <1>2, <1>3 DEF Next
<1> QED
  BY <1>4
     DEF Execute, StartExecute, OfferToAuction, StopAtAuthz, EndRange, PassOver, ChooseToBid,
         GetZenithBidFails, BidRefused, BidReplyLost, RecordBidError, BidAccepted,
         UpdateZenithTxSet, env

\* A request is entered for an auction only when it lost all those before.
LEMMA PlacedAfterLoss ==
  ASSUME NEW w \in Workers, TrackedInv, PlaceBid(w)
  PROVE  \A g \in Heights : <<worker[w].req, g>> \in bids => Lost(worker[w].req, g)
<1>1. IInv /\ InStep(w) /\ OnChainIsKnown
  BY DEF TrackedInv, SeesAllInv, InStepInv
<1>2. worker[w].req \in ZenithRequests /\ At(w, worker[w].req, {"sign"})
  BY <1>1, PlaceBidEffect DEF At
<1>3. Tracked(w, worker[w].req)
  BY <1>2 DEF TrackedInv
<1> QED
  BY <1>1, <1>2, <1>3, AllLost

\* A request is entered for a further auction only when it lost the others
\* (track_arbitrage.go:105).
THEOREM RebidOnlyAfterLossHolds ==
  ASSUME OneGoroutine, Reliable PROVE Spec => RebidOnlyAfterLoss
<1>1. ASSUME TrackedInv, [Next]_vars, NEW r \in ZenithRequests, NEW h \in Heights,
             NEW g \in Heights, <<r, h>> \in bids' \ bids, <<r, g>> \in bids
      PROVE  Lost(r, g)
  <2> PICK w : Workers = {w}
    BY DEF OneGoroutine
  <2>1. PlaceBid(w) /\ w \in Workers
    BY <1>1, BidsPlaced
  <2>2. r = worker[w].req
    BY <1>1, <2>1 DEF PlaceBid
  <2> QED
    BY <1>1, <2>1, <2>2, PlacedAfterLoss
<1>2. TrackedInv /\ [Next]_vars =>
        [\A r \in ZenithRequests, h, g \in Heights :
           (<<r, h>> \in bids' \ bids /\ <<r, g>> \in bids) => Lost(r, g)]_vars
  BY <1>1
<1> QED
  BY <1>2, TrackedInvariance, PTL DEF Spec, RebidOnlyAfterLoss

(***************************************************************************)
(* The program keeps the safety part of the promise, step by step: a block *)
(* is Produce, a bid taken is Bid, a search that finds is Commit, and      *)
(* every other step changes nothing the promise is about.                  *)
(***************************************************************************)
LEMMA ProduceRefines ==
  ASSUME IInv, OnChainIsKnown, ProduceBlock PROVE Promise!Produce
<1> DEFINE next == chainHeight + 1
           due == {b \in bids : b[2] = next}
<1> PICK winners \in SUBSET {r \in ZenithRequests : <<r, next>> \in bids} :
      \A r \in ZenithRequests : \A h \in Heights :
        ArbTx(r, h) \in onChain' <=> ArbTx(r, h) \in onChain \/ (r \in winners /\ h = next)
  BY ProduceBlockEffect
<1>1. /\ chainHeight < MaxHeight /\ chainHeight' = next
      /\ UNCHANGED <<bids, trade>> /\ bids \subseteq ZenithRequests \X Heights
  BY DEF ProduceBlock, IInv, TypeOK
<1> DEFINE taken == {b \in due : b[1] \in winners}
<1>2. bids' \cap onChain' = (bids \cap onChain) \cup taken
  <2> SUFFICES ASSUME NEW b \in bids
               PROVE  b \in onChain' <=> b \in onChain \/ b \in taken
    BY <1>1
  <2> PICK r \in ZenithRequests, h \in Heights : b = <<r, h>>
    BY <1>1
  <2>1. b \in taken <=> r \in winners /\ h = next
    OBVIOUS
  <2> QED
    BY <2>1 DEF ArbTx
<1>3. taken \in SUBSET due
  OBVIOUS
<1> QED
  BY <1>1, <1>2, <1>3 DEF Promise!Produce

LEMMA PlaceRefines ==
  ASSUME NEW w \in Workers, TrackedInv, PlaceBid(w)
  PROVE  Promise!Bid(worker[w].req, worker[w].block)
<1> DEFINE q == worker[w].req
           b == worker[w].block
<1>1. /\ q \in ZenithRequests /\ b \in Heights /\ bids' = bids \cup {<<q, b>>}
      /\ UNCHANGED <<chainHeight, onChain, trade>> /\ chainHeight \in Nat
  BY PlaceBidEffect, Types DEF TrackedInv, SeesAllInv, InStepInv
<1>2. \A g \in 1..MaxHeight : <<q, g>> \in bids => Promise!Lost(q, g)
  <2>1. \A g \in Heights : <<q, g>> \in bids => Lost(q, g)
    BY PlacedAfterLoss
  <2> QED
    BY <1>1, <2>1 DEF Promise!Lost, Lost, Won, ArbTx, Heights
<1>3. <<q, b>> \in onChain => <<q, b>> \in bids
  BY <1>1 DEF TrackedInv, OnChainIsKnown, ArbTx
<1>4. bids' \cap onChain' = bids \cap onChain
  BY <1>1, <1>3
<1> QED
  BY <1>1, <1>2, <1>4 DEF Promise!Bid

\* Only CommitFound commits a request.
LEMMA CommitsFound ==
  ASSUME IInv, NEW w \in Workers, Workers = {w}, [Next]_vars, ~CommitFound(w),
         NEW r \in ZenithRequests, trade'[r].committed
  PROVE  trade[r].committed
<1>1. CASE \/ \E i : QueueZenith(i) \/ AddAuthzTxSet(i)
           \/ ProduceBlock \/ ReceiveBlock(w) \/ UNCHANGED vars
  BY <1>1 DEF QueueZenith, AddAuthzTxSet, ProduceBlock, ReceiveBlock, vars
<1>2. CASE Execute(w)
  <2>1. ASSUME NEW q \in ZenithRequests, PassOver(w, q) \/ ChooseToBid(w, q)
        PROVE  trade[r].committed
    BY <2>1, PassOverEffect, ChooseToBidEffect DEF OthersKept, Unaltered
  <2>2. CASE BidRefused(w) \/ BidReplyLost(w)
    BY <2>2, RecordBidErrorEffect DEF BidRefused, BidReplyLost, OthersKept, Unaltered
  <2>3. CASE BidAccepted(w) \/ UpdateZenithTxSet(w)
    BY <2>3, BidAcceptedEffect, UpdateZenithTxSetEffect DEF OthersKept
  <2> QED
    BY <1>2, <2>1, <2>2, <2>3
       DEF Execute, StartExecute, OfferToAuction, StopAtAuthz, EndRange, GetZenithBidFails, PlaceBid
<1>3. CASE Parse(w)
  <2>1. ASSUME NEW q \in ZenithRequests, VisitTrade(w, q) PROVE trade[r].committed
    BY <2>1, VisitTradeEffect DEF OthersKept
  <2>2. CASE RecheckDone(w)
    BY <2>2, RecheckDoneEffect DEF OthersKept
  <2>3. CASE RecordFound(w)
    BY <2>3, RecordFoundEffect DEF OthersKept
  <2>4. CASE Summarise(w) \/ AwaitShare(w)
    BY <2>4, SettleEffect DEF OthersKept, Unaltered
  <2> QED
    BY <1>3, <2>1, <2>2, <2>3, <2>4
       DEF Parse, StartParse, ParseClientError, EndParse, LookUp, ParseFails, StartSearch,
           StillWaiting, Panic, NothingToDo
<1> QED
  BY <1>1, <1>2, <1>3 DEF Next

LEMMA CommitRefines ==
  ASSUME NEW w \in Workers, NEW q \in ZenithRequests, TrackedInv, CommitFound(w),
         worker[w].req = q
  PROVE  Promise!Commit(q)
<1>1. IInv /\ InStep(w)
  BY DEF TrackedInv, SeesAllInv, InStepInv
<1>2. /\ trade'[q].committed = TRUE /\ OthersKept(q)
      /\ UNCHANGED <<chainHeight, onChain, bids>>
  BY <1>1, CommitFoundEffect DEF env
<1>3. Won(q, trade[q].bid) /\ trade[q].bid \in Heights
  BY <1>1, <1>2, CommitTracked DEF TrackedInv
<1>4. <<q, trade[q].bid>> \in bids \cap onChain /\ trade[q].bid \in 1..MaxHeight
  BY <1>3 DEF Won, ArbTx, Heights
<1>5. {r \in ZenithRequests : trade'[r].committed}
        = {r \in ZenithRequests : trade[r].committed} \cup {q}
  BY <1>2 DEF OthersKept
<1> QED
  BY <1>2, <1>4, <1>5 DEF Promise!Commit

LEMMA StepRefines ==
  ASSUME OneGoroutine, Reliable, TrackedInv, [Next]_vars PROVE [Promise!Next]_(Promise!vars)
<1> PICK w : Workers = {w}
  BY DEF OneGoroutine
<1>1. w \in Workers /\ IInv /\ OnChainIsKnown /\ SeesAllInv
  BY DEF TrackedInv, SeesAllInv, InStepInv
<1>2. CASE ProduceBlock
  BY <1>1, <1>2, ProduceRefines DEF Promise!Next
<1>3. CASE PlaceBid(w)
  <2>1. worker[w].req \in ZenithRequests /\ worker[w].block \in 1..MaxHeight
    BY <1>1, <1>3, PlaceBidEffect DEF Heights
  <2> QED
    BY <1>1, <1>3, <2>1, PlaceRefines DEF Promise!Next
<1>4. CASE CommitFound(w)
  <2> PICK q \in ZenithRequests : worker[w].req = q
    BY <1>1, <1>4, CommitFoundEffect
  <2>1. Promise!Commit(q)
    BY <1>1, <1>4, CommitRefines
  <2> QED
    BY <2>1 DEF Promise!Next
<1>5. CASE ~ProduceBlock /\ ~PlaceBid(w) /\ ~CommitFound(w)
  <2>1. UNCHANGED <<chainHeight, onChain, bids>>
    BY <1>5
       DEF Next, vars, env, QueueZenith, AddAuthzTxSet, ReceiveBlock, Execute, StartExecute,
           OfferToAuction, StopAtAuthz, EndRange, PassOver, ChooseToBid, GetZenithBidFails,
           BidRefused, BidReplyLost, RecordBidError, BidAccepted, UpdateZenithTxSet, Parse,
           StartParse, ParseClientError, EndParse, VisitTrade, LookUp, ParseFails, RecheckDone,
           StartSearch, RecordFound, StillWaiting, Summarise, Panic, AwaitShare, NothingToDo
  <2>2. \A r \in ZenithRequests : trade'[r].committed <=> trade[r].committed
    BY <1>1, <1>5, CommitsFound, CommitKept
  <2>3. {r \in ZenithRequests : trade'[r].committed} = {r \in ZenithRequests : trade[r].committed}
    BY <2>2
  <2> QED
    BY <2>1, <2>3 DEF Promise!vars
<1> QED
  BY <1>2, <1>3, <1>4, <1>5

\* Every behaviour of the program is one that the promise allows: what is left
\* of KeepsPromise is that a won request is eventually committed.
THEOREM KeepsPromiseSteps == ASSUME OneGoroutine, Reliable PROVE Spec => Promise!Spec
<1>1. Init => Promise!Init
  BY DEF Init, Promise!Init, NewZenithTxSet
<1>2. TrackedInv /\ [Next]_vars => [Promise!Next]_(Promise!vars)
  BY StepRefines
<1> QED
  BY <1>1, <1>2, TrackedInvariance, PTL DEF Spec, Promise!Spec
=============================================================================
