------------------------- MODULE AuthzTradesProofs --------------------------
(***************************************************************************)
(* A set is reported as committed only when its TX is in a block, however  *)
(* many handlers overlap and however their statements interleave.          *)
(*                                                                         *)
(* The danger is a handler that sees TradeTxs while another one has        *)
(* cleared it: it finds as many TXs as there are, none.  The invariant     *)
(* says that TradeTxs is empty only in a set that is already committed.    *)
(*                                                                         *)
(* What overlapping handlers break, a single one keeps, whatever fails: it *)
(* never indexes an empty TradeTxs, lists the TX of every committed set    *)
(* and counts its fee once.  Its invariant follows the TX and the fee      *)
(* through the statements that take both out of the set and record them    *)
(* again.                                                                  *)
(***************************************************************************)
EXTENDS AuthzTrades, TLAPS

\* The stages in which a handler has found TXs that it has yet to record.
Holding == {"writeFees", "readTxs", "writeTxs"}
Recording == {"clearTxs", "clearFees", "readFees"} \cup Holding

\* What a goroutine's local variables stand for.
LocalsFit(me) ==
  /\ me \in Worker
  /\ me.pc \notin {"idle", "range"} => me.req \in AuthzRequests
  /\ me.pc \in {"idle", "range"} => me.found = 0
  /\ me.pc \in Holding => me.found > 0
  /\ me.found > 0 => me.req \in onChain

\* A set that is stored: commits are for good and of TXs that landed, and
\* TradeTxs is empty only in a committed set.
SetFits(a, s) ==
  /\ s \in AuthzTxSet
  /\ trade[a].committed => s.committed
  /\ s.committed => a \in onChain
  /\ s.tradeTxs = 0 => s.committed

LocalsOK == \A w \in Workers : LocalsFit(worker[w])
SetsOK == \A a \in AuthzRequests : SetFits(a, trade[a])
RecordedAreCommitted ==
  \A w \in Workers : worker[w].pc \in Recording => trade[worker[w].req].committed

IInv == TypeOK /\ LocalsOK /\ SetsOK /\ RecordedAreCommitted

LEMMA InvInit == Init => IInv
<1> SUFFICES ASSUME Init PROVE IInv
  OBVIOUS
<1>1. IdleWorker \in Worker /\ NewAuthzTxSet \in AuthzTxSet
  BY DEF IdleWorker, Worker, Stages, NewAuthzTxSet, AuthzTxSet
<1>2. TypeOK
  BY <1>1, AuthzAssumption DEF Init, TypeOK, ApiStages
<1>3. LocalsOK /\ RecordedAreCommitted
  BY <1>1 DEF Init, LocalsOK, LocalsFit, RecordedAreCommitted, IdleWorker, Holding, Recording
<1>4. SetsOK
  BY <1>1 DEF Init, SetsOK, SetFits, NewAuthzTxSet
<1> QED
  BY <1>2, <1>3, <1>4 DEF IInv

\* What holds of one goroutine and of one set.
LEMMA FitsNow == ASSUME IInv, NEW w \in Workers PROVE LocalsFit(worker[w])
  BY DEF IInv, LocalsOK

LEMMA SetFitsNow == ASSUME IInv, NEW a \in AuthzRequests PROVE SetFits(a, trade[a])
  BY DEF IInv, SetsOK

\* A step of one goroutine that leaves the sets as they are.
LEMMA LocalStep ==
  ASSUME IInv, UNCHANGED <<env, api, signed, txqueue, trade>>,
         lastHeight' \in 0..chainHeight, process' \in {"up", "panicked", "exited"},
         NEW w \in Workers, NEW me, LocalsFit(me), Become(w, me),
         me.pc \in Recording => trade[me.req].committed
  PROVE  IInv'
<1>1. TypeOK'
  BY DEF IInv, TypeOK, env, Become, LocalsFit
<1>2. LocalsOK'
  BY DEF IInv, TypeOK, LocalsOK, env, Become, LocalsFit
<1>3. SetsOK'
  BY DEF IInv, SetsOK, SetFits, env
<1>4. RecordedAreCommitted'
  BY DEF IInv, TypeOK, RecordedAreCommitted, Become
<1> QED
  BY <1>1, <1>2, <1>3, <1>4 DEF IInv

\* A step of one goroutine that stores one set.
LEMMA StoreStep ==
  ASSUME IInv, UNCHANGED elsewhere,
         NEW a \in AuthzRequests, NEW s, SetFits(a, s), Store(a, s),
         NEW w \in Workers, NEW me, LocalsFit(me), Become(w, me),
         me.pc \in Recording => (IF me.req = a THEN s ELSE trade[me.req]).committed
  PROVE  IInv'
<1>1. TypeOK'
  BY DEF IInv, TypeOK, elsewhere, env, Become, LocalsFit, Store, SetFits
<1>2. LocalsOK'
  BY DEF IInv, TypeOK, LocalsOK, elsewhere, env, Become, LocalsFit
<1>3. SetsOK'
  BY DEF IInv, TypeOK, SetsOK, SetFits, elsewhere, env, Store
<1>4. \A b \in AuthzRequests : trade[b].committed => trade'[b].committed
  BY DEF IInv, TypeOK, Store, SetFits
<1>5. RecordedAreCommitted'
  <2> SUFFICES ASSUME NEW v \in Workers, worker'[v].pc \in Recording
               PROVE  trade'[worker'[v].req].committed
    BY DEF RecordedAreCommitted
  <2>1. CASE v = w
    <3>1. worker'[v] = me /\ me.req \in AuthzRequests
      BY <2>1 DEF Become, IInv, TypeOK, LocalsFit, Recording, Holding
    <3> QED
      BY <3>1 DEF Store, IInv, TypeOK
  <2>2. CASE v # w
    <3>1. worker'[v] = worker[v] /\ worker[v].req \in AuthzRequests
      BY <2>2, FitsNow DEF Become, IInv, TypeOK, LocalsFit, Recording, Holding
    <3> QED
      BY <1>4, <3>1 DEF IInv, RecordedAreCommitted
  <2> QED
    BY <2>1, <2>2
<1> QED
  BY <1>1, <1>2, <1>3, <1>5 DEF IInv
(***************************************************************************)
(* SwapAuthz and the chain.                                                *)
(***************************************************************************)
LEMMA SwapAuthzInv == ASSUME IInv, NEW a \in AuthzRequests, SwapAuthz(a) PROVE IInv'
<1>1. /\ UNCHANGED <<chainHeight, sequence, onChain, succeeded, lastHeight, trade, worker,
                     process>>
      /\ mempool' \subseteq mempool \cup {a} /\ txqueue' \subseteq txqueue \cup {a}
  BY DEF SwapAuthz, SignSwap, SubmitSwap, SubmitFails, AddAuthzTxSet, env, server
<1>2. signed' = signed \/ signed' = [signed EXCEPT ![a] = sequence]
  BY DEF SwapAuthz, SignSwap, SubmitSwap, SubmitFails, AddAuthzTxSet
<1>3. \E stage \in ApiStages : ApiStep(a, stage)
  BY DEF SwapAuthz, SignSwap, SubmitSwap, SubmitFails, AddAuthzTxSet, ApiStages
<1>4. TypeOK'
  BY <1>1, <1>2, <1>3 DEF IInv, TypeOK, ApiStep
<1>5. LocalsOK' /\ SetsOK' /\ RecordedAreCommitted'
  BY <1>1 DEF IInv, LocalsOK, LocalsFit, SetsOK, SetFits, RecordedAreCommitted
<1> QED
  BY <1>4, <1>5 DEF IInv

LEMMA ProduceBlockInv == ASSUME IInv, ProduceBlock PROVE IInv'
<1>1. /\ chainHeight' = chainHeight + 1 /\ chainHeight' \in 0..MaxHeight
      /\ UNCHANGED <<api, signed, server>>
  BY AuthzAssumption DEF ProduceBlock, IInv, TypeOK
<1>2. PICK n \in 0..Cardinality(mempool) :
        LET block == {a \in mempool : signed[a] < sequence + n}
        IN  /\ sequence' = sequence + n
            /\ mempool' = mempool \ block
            /\ onChain' = onChain \cup block
            /\ \E ok \in SUBSET block : succeeded' = succeeded \cup ok
  BY Zenon DEF ProduceBlock
<1>3. sequence' \in Nat
  BY <1>2 DEF IInv, TypeOK
<1>4. /\ mempool' \subseteq mempool /\ onChain \subseteq onChain'
      /\ onChain' \subseteq AuthzRequests /\ succeeded' \subseteq onChain'
  BY <1>2 DEF IInv, TypeOK
<1>5. lastHeight' \in 0..chainHeight'
  BY <1>1 DEF IInv, TypeOK, server
<1>6. TypeOK'
  BY <1>1, <1>3, <1>4, <1>5 DEF IInv, TypeOK, server
<1>7. LocalsOK' /\ SetsOK' /\ RecordedAreCommitted'
  BY <1>1, <1>4 DEF IInv, LocalsOK, LocalsFit, SetsOK, SetFits, RecordedAreCommitted, server
<1> QED
  BY <1>6, <1>7 DEF IInv

(***************************************************************************)
(* The notification handler.                                               *)
(***************************************************************************)
LEMMA ReceiveBlockInv == ASSUME IInv, NEW w \in Workers, ReceiveBlock(w) PROVE IInv'
<1> DEFINE me == [worker[w] EXCEPT !.pc = "range", !.todo = txqueue]
<1>1. /\ worker[w].pc = "idle" /\ UNCHANGED <<env, api, signed, txqueue, trade, process>>
      /\ lastHeight' \in 0..chainHeight /\ process' \in {"up", "panicked", "exited"}
  BY DEF ReceiveBlock, IInv, TypeOK
<1>2. Become(w, me) \/ Become(w, worker[w])
  BY DEF ReceiveBlock, Become, IInv, TypeOK
<1>3. LocalsFit(worker[w]) /\ worker[w].pc \notin Recording
  BY <1>1, FitsNow DEF Recording, Holding
<1>4. me \in Worker /\ me.pc = "range" /\ me.found = worker[w].found /\ me.req = worker[w].req
  BY <1>3 DEF IInv, TypeOK, LocalsFit, Worker, Stages
<1>5. LocalsFit(me) /\ me.pc \notin Recording
  BY <1>1, <1>3, <1>4 DEF LocalsFit, Recording, Holding
<1> HIDE DEF me
<1> QED
  BY <1>1, <1>2, <1>3, <1>5, LocalStep

\* The steps that move a goroutine on without touching a set: where it goes,
\* and what it carries there.
LEMMA MoveOn ==
  ASSUME IInv, NEW w \in Workers, UNCHANGED <<elsewhere, trade>>,
         NEW me, me \in Worker, Become(w, me), me.req \in AuthzRequests,
         me.pc \in Recording => trade[me.req].committed,
         me.pc \in {"idle", "range"} => me.found = 0,
         me.pc \in Holding => me.found > 0,
         me.found > 0 => me.req \in onChain
  PROVE  IInv'
<1>1. LocalsFit(me)
  BY DEF LocalsFit
<1>2. lastHeight' \in 0..chainHeight /\ process' \in {"up", "panicked", "exited"}
  BY DEF elsewhere, IInv, TypeOK
<1> QED
  BY <1>1, <1>2, LocalStep DEF elsewhere

LEMMA VisitInv ==
  ASSUME IInv, NEW w \in Workers, NEW a \in AuthzRequests, Visit(w, a) PROVE IInv'
<1>1. PICK stage \in {"read", "initiate", "share"} :
        Become(w, [[worker[w] EXCEPT !.req = a, !.todo = @ \ {a}] EXCEPT !.pc = stage])
  <2>1. trade[a].committed \in BOOLEAN /\ trade[a].initiated \in BOOLEAN
    BY SetFitsNow DEF SetFits, AuthzTxSet
  <2> QED
    BY <2>1 DEF Visit
<1> DEFINE me == [worker[w] EXCEPT !.req = a, !.todo = @ \ {a}, !.pc = stage]
<1>2. /\ worker[w].pc = "range" /\ worker[w] \in Worker /\ worker[w].found = 0
      /\ UNCHANGED <<elsewhere, trade>>
  BY FitsNow DEF Visit, LocalsFit
<1>3. /\ me \in Worker /\ me.pc = stage /\ me.req = a /\ me.found = 0
  BY <1>2 DEF Worker, Stages
<1>4. Become(w, me)
  BY <1>1, <1>2 DEF Become, Worker
<1> HIDE DEF me
<1> QED
  BY <1>2, <1>3, <1>4, MoveOn DEF Recording, Holding
LEMMA EndRangeInv == ASSUME IInv, NEW w \in Workers, EndRange(w) PROVE IInv'
<1>1. LocalsFit(IdleWorker) /\ IdleWorker.pc \notin Recording
  BY DEF IdleWorker, LocalsFit, Worker, Stages, Recording, Holding
<1>2. lastHeight' \in 0..chainHeight /\ process' \in {"up", "panicked", "exited"}
  BY DEF EndRange, elsewhere, IInv, TypeOK
<1> QED
  BY <1>1, <1>2, LocalStep DEF EndRange, elsewhere

\* Where NextTrade leads.
LEMMA NextTradeFits ==
  ASSUME IInv, NEW w \in Workers, NextTrade(w)
  PROVE  \E me : LocalsFit(me) /\ me.pc \notin Recording /\ Become(w, me)
<1> DEFINE me == [worker[w] EXCEPT !.pc = "range", !.req = NoRequest, !.sought = 0,
                                   !.found = 0, !.read = 0]
<1>1. worker[w] \in Worker
  BY FitsNow DEF LocalsFit
<1>2. me \in Worker /\ me.pc = "range" /\ me.found = 0
  BY <1>1 DEF Worker, Stages
<1>3. LocalsFit(me) /\ me.pc \notin Recording
  BY <1>2 DEF LocalsFit, Recording, Holding
<1> QED
  BY <1>3 DEF NextTrade

LEMMA LeaveTradeInv ==
  ASSUME IInv, NEW w \in Workers, StillWaiting(w) \/ EndRecord(w) PROVE IInv'
<1>1. NextTrade(w) /\ UNCHANGED <<elsewhere, trade>>
  BY DEF StillWaiting, EndRecord
<1>2. lastHeight' \in 0..chainHeight /\ process' \in {"up", "panicked", "exited"}
  BY <1>1 DEF elsewhere, IInv, TypeOK
<1> QED
  BY <1>1, <1>2, NextTradeFits, LocalStep DEF elsewhere

LEMMA ReadTradeTxsInv == ASSUME IInv, NEW w \in Workers, ReadTradeTxs(w) PROVE IInv'
<1> DEFINE a == worker[w].req
           me == [worker[w] EXCEPT !.pc = "lookup", !.sought = trade[a].tradeTxs]
<1>1. /\ worker[w] \in Worker /\ a \in AuthzRequests /\ (worker[w].found > 0 => a \in onChain)
  BY FitsNow DEF ReadTradeTxs, LocalsFit
<1>2. trade[a].tradeTxs \in Nat
  BY <1>1, SetFitsNow DEF SetFits, AuthzTxSet
<1>3. me \in Worker /\ me.pc = "lookup" /\ me.req = a /\ me.found = worker[w].found
  BY <1>1, <1>2 DEF Worker, Stages
<1> HIDE DEF me
<1> QED
  BY <1>1, <1>3, MoveOn DEF ReadTradeTxs, Recording, Holding, me

\* Only a TX that is in a block is found.
LEMMA LookUpInv == ASSUME IInv, NEW w \in Workers, LookUp(w) PROVE IInv'
<1> DEFINE a == worker[w].req
<1>1. PICK hit \in BOOLEAN :
        /\ hit => a \in onChain
        /\ Become(w, [worker[w] EXCEPT !.sought = @ - 1, !.found = IF hit THEN @ + 1 ELSE @])
  BY DEF LookUp
<1> DEFINE me == [worker[w] EXCEPT !.sought = @ - 1, !.found = IF hit THEN @ + 1 ELSE @]
<1>2. /\ worker[w] \in Worker /\ worker[w].pc = "lookup" /\ worker[w].sought > 0
      /\ a \in AuthzRequests /\ (worker[w].found > 0 => a \in onChain)
      /\ UNCHANGED <<elsewhere, trade>>
  <2>1. /\ worker[w].pc = "lookup" /\ worker[w].sought > 0 /\ UNCHANGED <<elsewhere, trade>>
    BY Zenon DEF LookUp
  <2> QED
    BY <2>1, FitsNow DEF LocalsFit
<1>3. me \in Worker /\ me.pc = "lookup" /\ me.req = a
  <2>1. worker[w].sought - 1 \in Nat /\ (IF hit THEN worker[w].found + 1 ELSE worker[w].found) \in Nat
    BY <1>2 DEF Worker
  <2> QED
    BY <1>2, <2>1 DEF Worker
<1>4. me.found > 0 => a \in onChain
  BY <1>1, <1>2 DEF Worker
<1>5. Become(w, me)
  BY <1>1
<1> HIDE DEF me
<1> QED
  BY <1>2, <1>3, <1>4, <1>5, MoveOn DEF Recording, Holding
\* A handler that finds as many TXs as TradeTxs has: either at least one,
\* and the TX landed, or none in a set that was already committed.
LEMMA CommitSetInv == ASSUME IInv, NEW w \in Workers, CommitSet(w) PROVE IInv'
<1> DEFINE a == worker[w].req
           s == [trade[a] EXCEPT !.committed = TRUE]
           me == [worker[w] EXCEPT !.pc = "clearTxs"]
<1>1. /\ worker[w].pc = "lookup" /\ worker[w].found = trade[a].tradeTxs
      /\ Store(a, s) /\ Become(w, me) /\ UNCHANGED elsewhere
  BY DEF CommitSet, FoundAll, Goto
<1>2. /\ worker[w] \in Worker /\ a \in AuthzRequests
      /\ (worker[w].found > 0 => a \in onChain)
  BY <1>1, FitsNow DEF LocalsFit
<1>3. SetFits(a, trade[a])
  BY <1>2, SetFitsNow
<1>4. a \in onChain
  <2>1. CASE trade[a].tradeTxs = 0
    BY <1>3, <2>1 DEF SetFits
  <2>2. CASE trade[a].tradeTxs > 0
    BY <1>1, <1>2, <2>2
  <2> QED
    BY <1>3, <2>1, <2>2 DEF SetFits, AuthzTxSet
<1>5. s \in AuthzTxSet /\ s.committed
  BY <1>3 DEF SetFits, AuthzTxSet
<1>6. SetFits(a, s)
  BY <1>4, <1>5 DEF SetFits
<1>7. /\ me \in Worker /\ me.pc = "clearTxs" /\ me.req = a /\ me.found = worker[w].found
  BY <1>2 DEF Worker, Stages
<1>8. LocalsFit(me)
  BY <1>2, <1>7 DEF LocalsFit, Holding
<1> HIDE DEF me, s
<1> QED
  BY <1>1, <1>2, <1>5, <1>6, <1>7, <1>8, StoreStep

\* A field of a committed set is overwritten: whatever is written, the set
\* stays right.
LEMMA OverwriteStep ==
  ASSUME IInv, UNCHANGED elsewhere, NEW w \in Workers,
         worker[w].req \in AuthzRequests, trade[worker[w].req].committed,
         NEW s \in AuthzTxSet, s.committed, Store(worker[w].req, s),
         NEW me, LocalsFit(me), me.req = worker[w].req \/ me.pc \notin Recording, Become(w, me)
  PROVE  IInv'
<1>1. SetFits(worker[w].req, trade[worker[w].req])
  BY SetFitsNow
<1>2. SetFits(worker[w].req, s)
  BY <1>1 DEF SetFits
<1> QED
  BY <1>2, StoreStep

\* The set a handler records into is committed.
LEMMA Recorded ==
  ASSUME IInv, NEW w \in Workers, worker[w].pc \in Recording
  PROVE  /\ worker[w] \in Worker /\ worker[w].req \in AuthzRequests
         /\ trade[worker[w].req] \in AuthzTxSet /\ trade[worker[w].req].committed
         /\ (worker[w].found > 0 => worker[w].req \in onChain)
         /\ (worker[w].pc \in Holding => worker[w].found > 0)
<1>1. /\ worker[w] \in Worker /\ worker[w].req \in AuthzRequests
      /\ (worker[w].found > 0 => worker[w].req \in onChain)
      /\ (worker[w].pc \in Holding => worker[w].found > 0)
  BY FitsNow DEF LocalsFit, Recording, Holding
<1> QED
  BY <1>1, SetFitsNow DEF IInv, RecordedAreCommitted, SetFits

LEMMA ClearInv ==
  ASSUME IInv, NEW w \in Workers, ClearTradeTxs(w) \/ ClearFees(w) PROVE IInv'
<1> DEFINE a == worker[w].req
<1>1. PICK stage \in {"clearFees", "readFees"} :
        /\ \/ Store(a, [trade[a] EXCEPT !.tradeTxs = 0])
           \/ Store(a, [trade[a] EXCEPT !.hotFees = 0])
        /\ Become(w, [worker[w] EXCEPT !.pc = stage])
        /\ worker[w].pc \in Recording /\ UNCHANGED elsewhere
  BY DEF ClearTradeTxs, ClearFees, Goto, Recording
<1> DEFINE me == [worker[w] EXCEPT !.pc = stage]
<1>2. /\ me \in Worker /\ me.pc = stage /\ me.req = a /\ me.found = worker[w].found
  BY <1>1, Recorded DEF Worker, Stages
<1>3. LocalsFit(me)
  BY <1>1, <1>2, Recorded DEF LocalsFit, Holding
<1>4. /\ [trade[a] EXCEPT !.tradeTxs = 0] \in AuthzTxSet
      /\ [trade[a] EXCEPT !.tradeTxs = 0].committed
      /\ [trade[a] EXCEPT !.hotFees = 0] \in AuthzTxSet
      /\ [trade[a] EXCEPT !.hotFees = 0].committed
  BY <1>1, Recorded DEF AuthzTxSet
<1>5. Become(w, me)
  BY <1>1
<1> HIDE DEF me
<1> QED
  BY <1>1, <1>2, <1>3, <1>4, <1>5, Recorded, OverwriteStep
LEMMA WriteInv ==
  ASSUME IInv, NEW w \in Workers, WriteFees(w) \/ AppendTx(w) PROVE IInv'
<1> DEFINE a == worker[w].req
<1>1. worker[w].pc \in Recording /\ worker[w].pc \in Holding /\ UNCHANGED elsewhere
  BY DEF WriteFees, AppendTx, Recording, Holding
<1>2. /\ worker[w].read \in Nat /\ worker[w].found > 0
      /\ worker[w].found \in Nat /\ a \in onChain
  BY <1>1, Recorded DEF Worker
<1>3. CASE WriteFees(w)
  <2> DEFINE total == RecordFees(worker[w].read, ParsedFee(a))
             s == [trade[a] EXCEPT !.hotFees = total]
             me == [worker[w] EXCEPT !.pc = "readTxs"]
  <2>1. Store(a, [trade[a] EXCEPT !.hotFees = total, !.revenue = @]) /\ Become(w, me)
    BY <1>3 DEF WriteFees, Goto, RecordRevenue
  <2>2. total \in Nat
    BY <1>2 DEF ParsedFee, RecordFees
  <2> HIDE DEF total
  <2>3. [trade[a] EXCEPT !.hotFees = total, !.revenue = @] = s
    BY <1>1, Recorded DEF AuthzTxSet
  <2>4. s \in AuthzTxSet /\ s.committed
    BY <1>1, <2>2, Recorded DEF AuthzTxSet
  <2>5. me \in Worker /\ me.pc = "readTxs" /\ me.req = a /\ me.found = worker[w].found
    BY <1>1, Recorded DEF Worker, Stages
  <2>6. LocalsFit(me)
    BY <1>1, <1>2, <2>5, Recorded DEF LocalsFit
  <2> HIDE DEF me, s
  <2> QED
    BY <1>1, <2>1, <2>3, <2>4, <2>5, <2>6, Recorded, OverwriteStep
<1>4. CASE AppendTx(w)
  <2> DEFINE s == [trade[a] EXCEPT !.tradeTxs = Appended(w)]
             me == [worker[w] EXCEPT !.pc = "readFees", !.found = @ - 1]
  <2>1. Store(a, s) /\ Become(w, me)
    BY <1>4 DEF AppendTx
  <2>2. Appended(w) \in Nat /\ worker[w].found - 1 \in Nat
    BY <1>2 DEF Appended
  <2>3. s \in AuthzTxSet /\ s.committed
    BY <1>1, <2>2, Recorded DEF AuthzTxSet
  <2>4. me \in Worker /\ me.pc = "readFees" /\ me.req = a
    BY <1>1, <2>2, Recorded DEF Worker, Stages
  <2>5. LocalsFit(me)
    BY <1>1, <1>2, <2>4, Recorded DEF LocalsFit, Holding
  <2> HIDE DEF me, s
  <2> QED
    BY <1>1, <2>1, <2>3, <2>4, <2>5, Recorded, OverwriteStep
<1> QED
  BY <1>3, <1>4

LEMMA ReadInv ==
  ASSUME IInv, NEW w \in Workers, ReadFees(w) \/ ReadForAppend(w) PROVE IInv'
<1> DEFINE a == worker[w].req
<1>1. /\ worker[w].pc \in Recording /\ worker[w].found > 0 /\ UNCHANGED <<elsewhere, trade>>
  BY Recorded DEF ReadFees, ReadForAppend, Recording, Holding
<1>2. PICK stage \in {"writeFees", "writeTxs"}, read \in Nat :
        Become(w, [worker[w] EXCEPT !.pc = stage, !.read = read])
  BY <1>1, Recorded DEF ReadFees, ReadForAppend, AuthzTxSet
<1> DEFINE me == [worker[w] EXCEPT !.pc = stage, !.read = read]
<1>3. /\ me \in Worker /\ me.pc = stage /\ me.req = a /\ me.found = worker[w].found
  BY <1>1, Recorded DEF Worker, Stages
<1>4. Become(w, me)
  BY <1>2
<1> HIDE DEF me
<1> QED
  BY <1>1, <1>3, <1>4, Recorded, MoveOn DEF Recording, Holding

\* The summary and the share never touch Committed or TradeTxs.
LEMMA SummaryInv ==
  ASSUME IInv, NEW w \in Workers, Summarise(w) \/ AwaitShare(w) PROVE IInv'
<1> DEFINE a == worker[w].req
<1>1. a \in AuthzRequests /\ NextTrade(w) /\ UNCHANGED elsewhere
  BY FitsNow DEF Summarise, AwaitShare, LocalsFit
<1>2. PICK b \in BOOLEAN : \/ Store(a, [trade[a] EXCEPT !.shareSent = b])
                          \/ Store(a, [trade[a] EXCEPT !.shareCommitted = b])
  BY <1>1, SetFitsNow DEF Summarise, AwaitShare, SetFits, AuthzTxSet
<1> DEFINE s == [trade[a] EXCEPT !.shareSent = b]
           t == [trade[a] EXCEPT !.shareCommitted = b]
<1>3. /\ s \in AuthzTxSet /\ s.committed = trade[a].committed /\ s.tradeTxs = trade[a].tradeTxs
      /\ t \in AuthzTxSet /\ t.committed = trade[a].committed /\ t.tradeTxs = trade[a].tradeTxs
  BY <1>1, SetFitsNow DEF SetFits, AuthzTxSet
<1>4. Store(a, s) \/ Store(a, t)
  BY <1>2
<1> HIDE DEF s, t
<1>5. SetFits(a, s) /\ SetFits(a, t)
  BY <1>1, <1>3, SetFitsNow DEF SetFits
<1> QED
  BY <1>1, <1>4, <1>5, NextTradeFits, StoreStep

LEMMA InitiateInv == ASSUME IInv, NEW w \in Workers, Initiate(w) PROVE IInv'
<1> DEFINE a == worker[w].req
           s == [trade[a] EXCEPT !.initiated = TRUE]
           me == [worker[w] EXCEPT !.pc = "summary"]
<1>1. /\ a \in AuthzRequests /\ worker[w] \in Worker /\ (worker[w].found > 0 => a \in onChain)
      /\ Store(a, s) /\ Become(w, me) /\ UNCHANGED elsewhere
  BY FitsNow DEF Initiate, Goto, LocalsFit
<1>2. SetFits(a, trade[a])
  BY <1>1, SetFitsNow
<1>3. s \in AuthzTxSet /\ s.committed = trade[a].committed /\ s.tradeTxs = trade[a].tradeTxs
  BY <1>2 DEF SetFits, AuthzTxSet
<1>4. SetFits(a, s)
  BY <1>2, <1>3 DEF SetFits
<1>5. me \in Worker /\ me.pc = "summary" /\ me.req = a /\ me.found = worker[w].found
  BY <1>1 DEF Worker, Stages
<1>6. LocalsFit(me) /\ me.pc \notin Recording
  BY <1>1, <1>5 DEF LocalsFit, Recording, Holding
<1> HIDE DEF me, s
<1> QED
  BY <1>1, <1>4, <1>6, StoreStep

\* The end of the process leaves everything else as it is.
LEMMA ProcessEndsInv ==
  ASSUME IInv, NEW w \in Workers, Panic(w) \/ ParseFails(w) PROVE IInv'
<1>1. TypeOK'
  BY DEF Panic, ParseFails, IInv, TypeOK, env
<1>2. LocalsOK' /\ SetsOK' /\ RecordedAreCommitted'
  BY DEF Panic, ParseFails, IInv, LocalsOK, LocalsFit, SetsOK, SetFits, RecordedAreCommitted, env
<1> QED
  BY <1>1, <1>2 DEF IInv

(***************************************************************************)
(* The invariant of every behaviour.                                       *)
(***************************************************************************)
LEMMA NotifyInv == ASSUME IInv, NEW w \in Workers, Notify(w) PROVE IInv'
  BY EndRangeInv, VisitInv, ReadTradeTxsInv, LookUpInv, CommitSetInv, LeaveTradeInv, ClearInv,
     ReadInv, WriteInv, InitiateInv, SummaryInv, ProcessEndsInv
     DEF Notify

LEMMA StutterInv == ASSUME IInv, UNCHANGED vars PROVE IInv'
  BY DEF vars, IInv, TypeOK, LocalsOK, LocalsFit, SetsOK, SetFits, RecordedAreCommitted

\* The invariant holds in every state, for any number of requests and
\* overlapping handlers.
THEOREM Invariance == Spec => []IInv
<1>1. IInv /\ [Next]_vars => IInv'
  BY SwapAuthzInv, ProduceBlockInv, ReceiveBlockInv, NotifyInv, StutterInv DEF Next
<1> QED
  BY InvInit, <1>1, PTL DEF Spec

\* The state has its types: counts of fees and of entries stay natural.
THEOREM TypeCorrect == Spec => []TypeOK
  BY Invariance, PTL DEF IInv

\* A set is reported as committed only when its TX is in a block
\* (types.go:53).
THEOREM CommittedOnlyWhenLandedHolds == Spec => []CommittedOnlyWhenLanded
<1>1. IInv => CommittedOnlyWhenLanded
  BY DEF IInv, SetsOK, SetFits, CommittedOnlyWhenLanded
<1> QED
  BY <1>1, Invariance, PTL

(***************************************************************************)
(* One handler at a time, whatever fails: the set has its one TX and, once *)
(* committed, its fee, except while the handler records both afresh.       *)
(***************************************************************************)
OneHandler == \E w : Workers = {w}

At(me, a, stages) == me.pc \in stages /\ me.req = a
Fee(a) == IF a \in succeeded THEN 1 ELSE 0

\* A TX is submitted once and lands once, so that its result is final.
LandsOnce ==
  /\ mempool \cap onChain = {}
  /\ \A a \in AuthzRequests : api[a] \in {"new", "signed"} => a \notin mempool \cup onChain

\* A goroutine searches for one TX, of a set that is not committed.
SearchFits(me, s, a) ==
  /\ At(me, a, {"read", "lookup"}) => ~s.committed
  /\ At(me, a, {"read"}) => me.found = 0
  /\ At(me, a, {"lookup"}) => me.sought + me.found <= 1

\* What is left to record of the TX it found, and what is recorded.
RecordFits(me, s, a) ==
  /\ At(me, a, {"clearTxs", "clearFees"} \cup Holding) => me.found = 1
  /\ At(me, a, {"clearFees"} \cup Holding) => s.tradeTxs = 0
  /\ At(me, a, {"readFees"}) =>
       \/ me.found = 1 /\ s.tradeTxs = 0 /\ s.hotFees = 0
       \/ me.found = 0 /\ s.tradeTxs = 1 /\ s.hotFees = Fee(a)
  /\ At(me, a, {"writeFees"}) => s.hotFees = 0
  /\ At(me, a, {"readTxs", "writeTxs"}) => s.hotFees = Fee(a)
  /\ At(me, a, {"writeFees", "writeTxs"}) => me.read = 0

\* Nothing of the set is being recorded.
Settled(s, a) == s.tradeTxs = 1 /\ (s.committed => s.hotFees = Fee(a))

OneTx(me, s, a) ==
  /\ SearchFits(me, s, a) /\ RecordFits(me, s, a) /\ s.hotFees <= 1
  /\ At(me, a, Recording) \/ Settled(s, a)

HandlerFits(w) == \A a \in AuthzRequests : OneTx(worker[w], trade[a], a)

SerialInv == IInv /\ LandsOnce /\ NeverPanics /\ \A w \in Workers : HandlerFits(w)

LEMMA SerialInit == ASSUME OneHandler, Init PROVE SerialInv
<1>1. LandsOnce /\ NeverPanics /\ IInv
  BY InvInit DEF Init, LandsOnce, NeverPanics
<1>2. ASSUME NEW w \in Workers, NEW a \in AuthzRequests PROVE OneTx(worker[w], trade[a], a)
  <2>1. /\ worker[w].pc = "idle" /\ trade[a].tradeTxs = 1 /\ ~trade[a].committed
        /\ trade[a].hotFees = 0
    BY <1>2 DEF Init, IdleWorker, NewAuthzTxSet
  <2> QED
    BY <2>1 DEF OneTx, SearchFits, RecordFits, Settled, At, Holding
<1> QED
  BY <1>1, <1>2 DEF SerialInv, HandlerFits

LEMMA LandsOnceNext == ASSUME IInv, LandsOnce, [Next]_vars PROVE LandsOnce'
<1>1. CASE UNCHANGED <<mempool, onChain, api>>
  BY <1>1 DEF LandsOnce
<1>2. ASSUME NEW a \in AuthzRequests, SwapAuthz(a) PROVE LandsOnce'
  <2>1. /\ UNCHANGED onChain
        /\ \/ mempool' = mempool
           \/ api[a] = "signed" /\ mempool' = mempool \cup {a} /\ api'[a] \notin {"new", "signed"}
        /\ api[a] \in {"new", "signed"} \/ api'[a] \notin {"new", "signed"}
        /\ \A b \in AuthzRequests \ {a} : api'[b] = api[b]
    BY <1>2 DEF SwapAuthz, SignSwap, SubmitSwap, SubmitFails, AddAuthzTxSet, ApiStep, env,
                IInv, TypeOK
  <2> QED
    BY <2>1 DEF LandsOnce
<1>3. CASE ProduceBlock
  <2>1. PICK n \in 0..Cardinality(mempool) :
          LET block == {a \in mempool : signed[a] < sequence + n}
          IN  mempool' = mempool \ block /\ onChain' = onChain \cup block
    BY <1>3, Zenon DEF ProduceBlock
  <2>2. api' = api
    BY <1>3 DEF ProduceBlock
  <2> QED
    BY <2>1, <2>2 DEF LandsOnce
<1>4. ASSUME NEW w \in Workers, ReceiveBlock(w) \/ Notify(w)
      PROVE  UNCHANGED <<mempool, onChain, api>>
  BY <1>4
     DEF ReceiveBlock, Notify, EndRange, Visit, ReadTradeTxs, LookUp, ParseFails, CommitSet, StillWaiting,
         ClearTradeTxs, ClearFees, EndRecord, ReadFees, WriteFees, ReadForAppend, AppendTx,
         Initiate, Summarise, Panic, AwaitShare, elsewhere, env
<1> QED
  BY <1>1, <1>2, <1>3, <1>4 DEF Next, vars

\* A TX that is in a block keeps its result.
LEMMA ResultIsFinal ==
  ASSUME IInv, LandsOnce, ProduceBlock, NEW a \in onChain PROVE Fee(a)' = Fee(a)
<1>1. PICK n \in 0..Cardinality(mempool) :
        LET block == {b \in mempool : signed[b] < sequence + n}
        IN  \E ok \in SUBSET block : succeeded' = succeeded \cup ok
  BY Zenon DEF ProduceBlock
<1> QED
  BY <1>1 DEF Fee, LandsOnce

\* The API and the chain leave the handler where it is.
LEMMA EnvironmentStep ==
  ASSUME SerialInv, IInv', LandsOnce', UNCHANGED <<trade, worker>>, NeverPanics',
         \A a \in onChain : Fee(a)' = Fee(a)
  PROVE  SerialInv'
<1>1. ASSUME NEW w \in Workers, NEW a \in AuthzRequests
      PROVE  OneTx(worker[w], trade[a], a)'
  <2>1. OneTx(worker[w], trade[a], a) /\ IInv
    BY <1>1 DEF SerialInv, HandlerFits
  <2>2. CASE a \in onChain
    BY <2>1, <2>2 DEF OneTx, SearchFits, RecordFits, Settled
  <2>3. CASE a \notin onChain
    <3>1. ~trade[a].committed
      BY <2>1, <2>3, SetFitsNow DEF SetFits
    <3>2. ~At(worker[w], a, Recording)
      BY <2>1, <3>1 DEF IInv, RecordedAreCommitted, At
    <3> QED
      BY <2>1, <3>1, <3>2 DEF OneTx, SearchFits, RecordFits, Settled, At, Recording, Holding
  <2> QED
    BY <2>2, <2>3
<1> QED
  BY <1>1 DEF SerialInv, HandlerFits

\* The handler's step is judged by the set it treats: the others are settled.
LEMMA TreatStep ==
  ASSUME SerialInv, IInv', LandsOnce', UNCHANGED <<succeeded, process>>,
         NEW w, Workers = {w}, NEW a \in AuthzRequests,
         worker[w].req = a \/ worker[w].pc \notin Recording,
         NEW me, Become(w, me), me.req = a \/ me.pc \in {"idle", "range"},
         NEW s, Store(a, s), OneTx(me, s, a)
  PROVE  SerialInv'
<1>1. worker'[w] = me /\ trade'[a] = s
  BY DEF SerialInv, IInv, TypeOK, Become, Store
<1>2. ASSUME NEW b \in AuthzRequests PROVE OneTx(worker[w], trade[b], b)'
  <2>1. CASE b = a
    BY <1>1, <2>1 DEF OneTx, SearchFits, RecordFits, Settled, Fee, At
  <2>2. CASE b # a
    <3>1. trade'[b] = trade[b]
      BY <2>2 DEF SerialInv, IInv, TypeOK, Store
    <3>2. OneTx(worker[w], trade[b], b) /\ ~At(worker[w], b, Recording)
      BY <2>2 DEF SerialInv, HandlerFits, At
    <3>3. Settled(trade[b], b) /\ trade[b].hotFees <= 1
      BY <3>2 DEF OneTx
    <3> QED
      BY <1>1, <2>2, <3>1, <3>3 DEF OneTx, SearchFits, RecordFits, Settled, At, Holding, Fee
  <2> QED
    BY <2>1, <2>2
<1> QED
  BY <1>2 DEF SerialInv, HandlerFits, NeverPanics

\* The same, of a step that touches no set.
LEMMA GoOnStep ==
  ASSUME SerialInv, IInv', LandsOnce', UNCHANGED <<succeeded, process, trade>>,
         NEW w, Workers = {w}, NEW a \in AuthzRequests,
         worker[w].req = a \/ worker[w].pc \notin Recording,
         NEW me, Become(w, me), me.req = a \/ me.pc \in {"idle", "range"},
         OneTx(me, trade[a], a)
  PROVE  SerialInv'
<1>1. Store(a, trade[a])
  BY DEF Store, SerialInv, IInv, TypeOK
<1> QED
  BY <1>1, TreatStep

\* What is known of a handler that treats a set.
LEMMA Treated ==
  ASSUME SerialInv, NEW w \in Workers, worker[w].pc \notin {"idle", "range"}
  PROVE  /\ worker[w].req \in AuthzRequests /\ worker[w] \in Worker
         /\ trade[worker[w].req] \in AuthzTxSet
         /\ OneTx(worker[w], trade[worker[w].req], worker[w].req)
<1>1. worker[w].req \in AuthzRequests /\ worker[w] \in Worker
  BY FitsNow DEF SerialInv, LocalsFit
<1> QED
  BY <1>1, SetFitsNow DEF SerialInv, SetFits, HandlerFits

\* A handler may leave a set that is settled.
LEMMA LeaveStep ==
  ASSUME SerialInv, IInv', LandsOnce', UNCHANGED <<succeeded, process>>,
         NEW w, Workers = {w}, NEW a \in AuthzRequests, worker[w].req = a,
         NextTrade(w), NEW s, Store(a, s), Settled(s, a), s.hotFees <= 1
  PROVE  SerialInv'
<1> DEFINE me == [worker[w] EXCEPT !.pc = "range", !.req = NoRequest, !.sought = 0,
                                   !.found = 0, !.read = 0]
<1>1. worker[w] \in Worker
  BY FitsNow DEF SerialInv, LocalsFit
<1>2. me.pc = "range"
  BY <1>1 DEF Worker
<1>3. OneTx(me, s, a)
  BY <1>2 DEF OneTx, SearchFits, RecordFits, At, Holding
<1>4. Become(w, me)
  BY DEF NextTrade
<1> HIDE DEF me
<1> QED
  BY <1>2, <1>3, <1>4, TreatStep

LEMMA SerialReceive ==
  ASSUME SerialInv, IInv', LandsOnce', NEW w, Workers = {w}, ReceiveBlock(w)
  PROVE  SerialInv'
<1>1. CASE UNCHANGED worker
  BY <1>1, EnvironmentStep DEF ReceiveBlock, env, Fee, SerialInv, NeverPanics
<1> DEFINE me == [worker[w] EXCEPT !.pc = "range", !.todo = txqueue]
<1>2. CASE Become(w, me)
  <2>1. worker[w] \in Worker
    BY FitsNow DEF SerialInv, LocalsFit
  <2>2. me.pc = "range"
    BY <2>1 DEF Worker
  <2>3. worker[w].pc = "idle" /\ UNCHANGED <<succeeded, process, trade>>
    BY DEF ReceiveBlock, env
  <2>4. ASSUME NEW a \in AuthzRequests PROVE SerialInv'
    <3>1. Settled(trade[a], a) /\ trade[a].hotFees <= 1
      BY <2>3 DEF SerialInv, HandlerFits, OneTx, At, Recording, Holding
    <3>2. OneTx(me, trade[a], a)
      BY <2>2, <3>1 DEF OneTx, SearchFits, RecordFits, At, Holding
    <3> HIDE DEF me
    <3> QED
      BY <1>2, <2>2, <2>3, <3>2, GoOnStep DEF Recording, Holding
  <2> QED
    BY <2>3, <2>4 DEF SerialInv, HandlerFits, NeverPanics
<1> QED
  BY <1>1, <1>2 DEF ReceiveBlock

LEMMA SerialEndRange ==
  ASSUME SerialInv, IInv', LandsOnce', NEW w, Workers = {w}, EndRange(w)
  PROVE  SerialInv'
<1>1. /\ worker[w].pc = "range" /\ UNCHANGED <<succeeded, process, trade>>
      /\ Become(w, IdleWorker) /\ IdleWorker.pc = "idle"
  BY DEF EndRange, elsewhere, env, IdleWorker
<1>2. ASSUME NEW a \in AuthzRequests PROVE SerialInv'
  <2>1. Settled(trade[a], a) /\ trade[a].hotFees <= 1
    BY <1>1 DEF SerialInv, HandlerFits, OneTx, At, Recording, Holding
  <2>2. OneTx(IdleWorker, trade[a], a)
    BY <1>1, <2>1 DEF OneTx, SearchFits, RecordFits, At, Holding
  <2> QED
    BY <1>1, <2>2, GoOnStep DEF Recording, Holding
<1> QED
  BY <1>1, <1>2 DEF SerialInv, HandlerFits, NeverPanics

LEMMA SerialVisit ==
  ASSUME SerialInv, IInv', LandsOnce', NEW w, Workers = {w},
         NEW a \in AuthzRequests, Visit(w, a)
  PROVE  SerialInv'
<1> DEFINE stage == CASE ~trade[a].committed -> "read"
                      [] trade[a].committed /\ ~trade[a].initiated -> "initiate"
                      [] trade[a].committed /\ trade[a].initiated -> "share"
           me == [[worker[w] EXCEPT !.req = a, !.todo = @ \ {a}] EXCEPT !.pc = stage]
<1>1. /\ worker[w].pc = "range" /\ UNCHANGED <<succeeded, process, trade>> /\ Become(w, me)
  BY DEF Visit, elsewhere, env
<1>2. worker[w] \in Worker /\ worker[w].found = 0
  BY <1>1, FitsNow DEF SerialInv, LocalsFit
<1>3. trade[a].committed \in BOOLEAN /\ trade[a].initiated \in BOOLEAN
  BY SetFitsNow DEF SerialInv, SetFits, AuthzTxSet
<1>4. /\ stage \in {"read", "initiate", "share"}
      /\ stage = "read" => ~trade[a].committed
  BY <1>3
<1>5. me.pc = stage /\ me.req = a /\ me.found = 0
  BY <1>2 DEF Worker
<1>6. Settled(trade[a], a) /\ trade[a].hotFees <= 1
  BY <1>1 DEF SerialInv, HandlerFits, OneTx, At, Recording, Holding
<1> HIDE DEF me, stage
<1>7. OneTx(me, trade[a], a)
  BY <1>4, <1>5, <1>6 DEF OneTx, SearchFits, RecordFits, At, Holding
<1> QED
  BY <1>1, <1>5, <1>7, GoOnStep DEF Recording, Holding

LEMMA SerialSearch ==
  ASSUME SerialInv, IInv', LandsOnce', NEW w, Workers = {w}, ReadTradeTxs(w) \/ LookUp(w)
  PROVE  SerialInv'
<1> DEFINE a == worker[w].req
<1>1. /\ worker[w].pc \in {"read", "lookup"} /\ UNCHANGED <<succeeded, process, trade>>
  BY Zenon DEF ReadTradeTxs, LookUp, elsewhere, env
<1>2. /\ a \in AuthzRequests /\ worker[w] \in Worker /\ trade[a] \in AuthzTxSet
      /\ OneTx(worker[w], trade[a], a)
  BY <1>1, Treated
<1>3. Settled(trade[a], a) /\ ~trade[a].committed /\ trade[a].hotFees <= 1
  BY <1>1, <1>2 DEF OneTx, At, SearchFits, Recording, Holding
<1>4. CASE ReadTradeTxs(w)
  <2> DEFINE me == [worker[w] EXCEPT !.pc = "lookup", !.sought = trade[a].tradeTxs]
  <2>1. Become(w, me) /\ worker[w].found = 0
    BY <1>2, <1>4 DEF ReadTradeTxs, OneTx, SearchFits, At
  <2>2. me.pc = "lookup" /\ me.req = a /\ me.sought = 1 /\ me.found = 0
    BY <1>2, <1>3, <2>1 DEF Worker, Settled
  <2>3. OneTx(me, trade[a], a)
    BY <1>3, <2>2 DEF OneTx, SearchFits, RecordFits, At, Holding
  <2> HIDE DEF me
  <2> QED
    BY <1>1, <1>2, <2>1, <2>2, <2>3, GoOnStep
<1>5. CASE LookUp(w)
  <2>1. PICK hit \in BOOLEAN :
          Become(w, [worker[w] EXCEPT !.sought = @ - 1, !.found = IF hit THEN @ + 1 ELSE @])
    BY <1>5 DEF LookUp
  <2> DEFINE me == [worker[w] EXCEPT !.sought = @ - 1, !.found = IF hit THEN @ + 1 ELSE @]
  <2>2. worker[w].pc = "lookup" /\ worker[w].sought + worker[w].found <= 1
    BY <1>2, <1>5 DEF LookUp, OneTx, SearchFits, At
  <2>3. /\ me.pc = "lookup" /\ me.req = a
        /\ me.sought = worker[w].sought - 1
        /\ me.found = IF hit THEN worker[w].found + 1 ELSE worker[w].found
    BY <1>2, <2>2 DEF Worker
  <2>4. me.sought + me.found <= 1
    BY <1>2, <2>2, <2>3 DEF Worker
  <2>5. Become(w, me)
    BY <2>1
  <2> HIDE DEF me
  <2>6. OneTx(me, trade[a], a)
    BY <1>3, <2>3, <2>4 DEF OneTx, SearchFits, RecordFits, At, Holding
  <2> QED
    BY <1>1, <1>2, <2>3, <2>5, <2>6, GoOnStep
<1> QED
  BY <1>4, <1>5

\* The handler found as many TXs as the set tracks, which is one: it records
\* what it found, or turns to the next set.
LEMMA SerialDecide ==
  ASSUME SerialInv, IInv', LandsOnce', NEW w, Workers = {w}, CommitSet(w) \/ StillWaiting(w)
  PROVE  SerialInv'
<1> DEFINE a == worker[w].req
<1>1. worker[w].pc = "lookup" /\ UNCHANGED <<succeeded, process>>
  BY DEF CommitSet, StillWaiting, elsewhere, env
<1>2. /\ a \in AuthzRequests /\ worker[w] \in Worker /\ trade[a] \in AuthzTxSet
      /\ OneTx(worker[w], trade[a], a)
  BY <1>1, Treated
<1>3. Settled(trade[a], a) /\ trade[a].hotFees <= 1
  BY <1>1, <1>2 DEF OneTx, At, Recording, Holding
<1>4. CASE CommitSet(w)
  <2> DEFINE me == [worker[w] EXCEPT !.pc = "clearTxs"]
             s == [trade[a] EXCEPT !.committed = TRUE]
  <2>1. Become(w, me) /\ Store(a, s) /\ worker[w].found = 1
    BY <1>3, <1>4 DEF CommitSet, Goto, FoundAll, Settled
  <2>2. me.pc = "clearTxs" /\ me.req = a /\ me.found = 1 /\ s.hotFees <= 1
    BY <1>2, <1>3, <2>1 DEF Worker, AuthzTxSet
  <2> HIDE DEF me, s
  <2>3. OneTx(me, s, a)
    BY <2>2 DEF OneTx, SearchFits, RecordFits, At, Recording, Holding
  <2> QED
    BY <1>1, <1>2, <2>1, <2>2, <2>3, TreatStep
<1>5. CASE StillWaiting(w)
  <2>1. NextTrade(w) /\ Store(a, trade[a])
    BY <1>5 DEF StillWaiting, Store, SerialInv, IInv, TypeOK
  <2> QED
    BY <1>1, <1>2, <1>3, <2>1, LeaveStep
<1> QED
  BY <1>4, <1>5

LEMMA SerialClear ==
  ASSUME SerialInv, IInv', LandsOnce', NEW w, Workers = {w}, ClearTradeTxs(w) \/ ClearFees(w)
  PROVE  SerialInv'
<1> DEFINE a == worker[w].req
<1>1. worker[w].pc \in {"clearTxs", "clearFees"} /\ UNCHANGED <<succeeded, process>>
  BY DEF ClearTradeTxs, ClearFees, elsewhere, env
<1>2. /\ a \in AuthzRequests /\ worker[w] \in Worker /\ trade[a] \in AuthzTxSet
      /\ OneTx(worker[w], trade[a], a)
  BY <1>1, Treated
<1>3. worker[w].found = 1 /\ trade[a].hotFees <= 1
  BY <1>1, <1>2 DEF OneTx, RecordFits, At
<1>4. CASE ClearTradeTxs(w)
  <2> DEFINE me == [worker[w] EXCEPT !.pc = "clearFees"]
             s == [trade[a] EXCEPT !.tradeTxs = 0]
  <2>1. Become(w, me) /\ Store(a, s)
    BY <1>4 DEF ClearTradeTxs, Goto
  <2>2. /\ me.pc = "clearFees" /\ me.req = a /\ me.found = 1
        /\ s.tradeTxs = 0 /\ s.hotFees <= 1
    BY <1>2, <1>3 DEF Worker, AuthzTxSet
  <2> HIDE DEF me, s
  <2>3. OneTx(me, s, a)
    BY <2>2 DEF OneTx, SearchFits, RecordFits, At, Recording, Holding
  <2> QED
    BY <1>1, <1>2, <2>1, <2>2, <2>3, TreatStep
<1>5. CASE ClearFees(w)
  <2> DEFINE me == [worker[w] EXCEPT !.pc = "readFees"]
             s == [trade[a] EXCEPT !.hotFees = 0]
  <2>1. Become(w, me) /\ Store(a, s) /\ trade[a].tradeTxs = 0
    BY <1>2, <1>5 DEF ClearFees, Goto, OneTx, RecordFits, At
  <2>2. me.pc = "readFees" /\ me.req = a /\ me.found = 1 /\ s.tradeTxs = 0 /\ s.hotFees = 0
    BY <1>2, <1>3, <2>1 DEF Worker, AuthzTxSet
  <2> HIDE DEF me, s
  <2>3. OneTx(me, s, a)
    BY <2>2 DEF OneTx, SearchFits, RecordFits, At, Recording, Holding
  <2> QED
    BY <1>1, <1>2, <2>1, <2>2, <2>3, TreatStep
<1> QED
  BY <1>4, <1>5

\* The loop over what was found begins with no fee and ends with the TX's.
LEMMA SerialLoop ==
  ASSUME SerialInv, IInv', LandsOnce', NEW w, Workers = {w},
         ReadFees(w) \/ EndRecord(w) \/ ReadForAppend(w)
  PROVE  SerialInv'
<1> DEFINE a == worker[w].req
<1>1. worker[w].pc \in {"readFees", "readTxs"} /\ UNCHANGED <<succeeded, process, trade>>
  BY DEF ReadFees, EndRecord, ReadForAppend, elsewhere, env
<1>2. /\ a \in AuthzRequests /\ worker[w] \in Worker /\ trade[a] \in AuthzTxSet
      /\ OneTx(worker[w], trade[a], a)
  BY <1>1, Treated
<1>3. CASE ReadFees(w)
  <2> DEFINE me == [worker[w] EXCEPT !.pc = "writeFees", !.read = trade[a].hotFees]
  <2>1. /\ Become(w, me) /\ worker[w].found = 1
        /\ trade[a].tradeTxs = 0 /\ trade[a].hotFees = 0
    BY <1>2, <1>3 DEF ReadFees, OneTx, RecordFits, At
  <2>2. me.pc = "writeFees" /\ me.req = a /\ me.found = 1 /\ me.read = 0
    BY <1>2, <2>1 DEF Worker
  <2> HIDE DEF me
  <2>3. OneTx(me, trade[a], a)
    BY <2>1, <2>2 DEF OneTx, SearchFits, RecordFits, At, Recording, Holding
  <2> QED
    BY <1>1, <1>2, <2>1, <2>2, <2>3, GoOnStep
<1>4. CASE ReadForAppend(w)
  <2> DEFINE me == [worker[w] EXCEPT !.pc = "writeTxs", !.read = trade[a].tradeTxs]
  <2>1. /\ Become(w, me) /\ worker[w].found = 1
        /\ trade[a].tradeTxs = 0 /\ trade[a].hotFees = Fee(a) /\ trade[a].hotFees <= 1
    BY <1>2, <1>4 DEF ReadForAppend, OneTx, RecordFits, At, Holding
  <2>2. me.pc = "writeTxs" /\ me.req = a /\ me.found = 1 /\ me.read = 0
    BY <1>2, <2>1 DEF Worker
  <2> HIDE DEF me
  <2>3. OneTx(me, trade[a], a)
    BY <2>1, <2>2 DEF OneTx, SearchFits, RecordFits, At, Recording, Holding
  <2> QED
    BY <1>1, <1>2, <2>1, <2>2, <2>3, GoOnStep
<1>5. CASE EndRecord(w)
  <2>1. NextTrade(w) /\ Store(a, trade[a])
    BY <1>5 DEF EndRecord, Store, SerialInv, IInv, TypeOK
  <2>2. Settled(trade[a], a) /\ trade[a].hotFees <= 1
    BY <1>2, <1>5 DEF EndRecord, OneTx, RecordFits, At, Settled
  <2> QED
    BY <1>1, <1>2, <2>1, <2>2, LeaveStep
<1> QED
  BY <1>3, <1>4, <1>5

LEMMA SerialWrite ==
  ASSUME SerialInv, IInv', LandsOnce', NEW w, Workers = {w}, WriteFees(w) \/ AppendTx(w)
  PROVE  SerialInv'
<1> DEFINE a == worker[w].req
<1>1. worker[w].pc \in {"writeFees", "writeTxs"} /\ UNCHANGED <<succeeded, process>>
  BY DEF WriteFees, AppendTx, elsewhere, env
<1>2. /\ a \in AuthzRequests /\ worker[w] \in Worker /\ trade[a] \in AuthzTxSet
      /\ OneTx(worker[w], trade[a], a)
  BY <1>1, Treated
<1>3. worker[w].found = 1 /\ worker[w].read = 0 /\ trade[a].tradeTxs = 0
  BY <1>1, <1>2 DEF OneTx, RecordFits, At, Holding
<1>4. CASE WriteFees(w)
  <2> DEFINE profit == IF a \in succeeded THEN ArbProfit ELSE 0
             me == [worker[w] EXCEPT !.pc = "readTxs"]
             s == [trade[a] EXCEPT !.hotFees = RecordFees(worker[w].read, ParsedFee(a)),
                                   !.revenue = RecordRevenue(@, profit)]
  <2>1. Become(w, me) /\ Store(a, s)
    BY <1>4 DEF WriteFees, Goto
  <2>2. s.hotFees = 0 + ParsedFee(a) /\ s.tradeTxs = 0
    BY <1>2, <1>3 DEF AuthzTxSet, RecordFees
  <2>3. s.hotFees = Fee(a) /\ s.hotFees <= 1
    BY <2>2 DEF Fee, ParsedFee
  <2>4. me.pc = "readTxs" /\ me.req = a /\ me.found = 1
    BY <1>2, <1>3 DEF Worker
  <2> HIDE DEF me, s
  <2>5. OneTx(me, s, a)
    BY <2>2, <2>3, <2>4 DEF OneTx, SearchFits, RecordFits, At, Recording, Holding
  <2> QED
    BY <1>1, <1>2, <2>1, <2>4, <2>5, TreatStep
<1>5. CASE AppendTx(w)
  <2> DEFINE me == [worker[w] EXCEPT !.pc = "readFees", !.found = @ - 1]
             s == [trade[a] EXCEPT !.tradeTxs = Appended(w)]
  <2>1. Become(w, me) /\ Store(a, s) /\ trade[a].hotFees = Fee(a)
    BY <1>2, <1>5 DEF AppendTx, OneTx, RecordFits, At
  <2>2. s.tradeTxs = 1 /\ s.hotFees = Fee(a) /\ s.hotFees <= 1
    BY <1>2, <1>3, <2>1 DEF AuthzTxSet, Appended, Fee
  <2>3. me.pc = "readFees" /\ me.req = a /\ me.found = 0
    BY <1>2, <1>3 DEF Worker
  <2> HIDE DEF me, s
  <2>4. OneTx(me, s, a)
    BY <2>2, <2>3 DEF OneTx, SearchFits, RecordFits, At, Recording, Holding
  <2> QED
    BY <1>1, <1>2, <2>1, <2>3, <2>4, TreatStep
<1> QED
  BY <1>4, <1>5

\* The summary and the share leave fees and TradeTxs alone, and the summary
\* finds a TX to print.
LEMMA SerialSummary ==
  ASSUME SerialInv, IInv', LandsOnce', NEW w, Workers = {w},
         Initiate(w) \/ Summarise(w) \/ AwaitShare(w)
  PROVE  SerialInv'
<1> DEFINE a == worker[w].req
<1>1. worker[w].pc \in {"initiate", "summary", "share"} /\ UNCHANGED <<succeeded, process>>
  BY DEF Initiate, Summarise, AwaitShare, elsewhere, env
<1>2. /\ a \in AuthzRequests /\ worker[w] \in Worker /\ trade[a] \in AuthzTxSet
      /\ OneTx(worker[w], trade[a], a)
  BY <1>1, Treated
<1>3. Settled(trade[a], a) /\ trade[a].hotFees <= 1
  BY <1>1, <1>2 DEF OneTx, At, Recording, Holding
<1>4. CASE Initiate(w)
  <2> DEFINE me == [worker[w] EXCEPT !.pc = "summary"]
             s == [trade[a] EXCEPT !.initiated = TRUE]
  <2>1. Become(w, me) /\ Store(a, s)
    BY <1>4 DEF Initiate, Goto
  <2>2. me.pc = "summary" /\ me.req = a
    BY <1>2 DEF Worker
  <2>3. Settled(s, a) /\ s.hotFees <= 1
    BY <1>2, <1>3 DEF Settled, AuthzTxSet
  <2> HIDE DEF me, s
  <2>4. OneTx(me, s, a)
    BY <2>2, <2>3 DEF OneTx, SearchFits, RecordFits, At, Holding
  <2> QED
    BY <1>1, <1>2, <2>1, <2>2, <2>4, TreatStep
<1>5. CASE Summarise(w) \/ AwaitShare(w)
  <2>1. NextTrade(w)
    BY <1>5 DEF Summarise, AwaitShare
  <2>2. PICK b : \/ Store(a, [trade[a] EXCEPT !.shareSent = b])
                 \/ Store(a, [trade[a] EXCEPT !.shareCommitted = b])
    BY <1>2, <1>5 DEF Summarise, AwaitShare, AuthzTxSet
  <2> DEFINE s == [trade[a] EXCEPT !.shareSent = b]
             t == [trade[a] EXCEPT !.shareCommitted = b]
  <2>3. Settled(s, a) /\ Settled(t, a) /\ s.hotFees <= 1 /\ t.hotFees <= 1
    BY <1>2, <1>3 DEF Settled, AuthzTxSet
  <2>4. Store(a, s) \/ Store(a, t)
    BY <2>2
  <2> HIDE DEF s, t
  <2> QED
    BY <1>1, <1>2, <2>1, <2>3, <2>4, LeaveStep
<1> QED
  BY <1>4, <1>5

LEMMA NeverEmpty == ASSUME SerialInv, NEW w \in Workers PROVE ~Panic(w)
<1> SUFFICES ASSUME Panic(w) PROVE FALSE
  OBVIOUS
<1>1. worker[w].pc = "summary" /\ trade[worker[w].req].tradeTxs = 0
  BY DEF Panic
<1> QED
  BY <1>1, Treated DEF OneTx, At, Settled, Recording, Holding

\* A client that cannot be made ends the process, not by a panic.
LEMMA SerialExit ==
  ASSUME SerialInv, IInv', LandsOnce', NEW w \in Workers, ParseFails(w) PROVE SerialInv'
<1>1. UNCHANGED <<trade, worker, succeeded>> /\ NeverPanics'
  BY DEF ParseFails, NeverPanics, env
<1> QED
  BY <1>1, EnvironmentStep DEF Fee

LEMMA SerialNext == ASSUME OneHandler, SerialInv, [Next]_vars PROVE SerialInv'
<1>1. IInv'
  BY SwapAuthzInv, ProduceBlockInv, ReceiveBlockInv, NotifyInv, StutterInv DEF Next, SerialInv
<1>2. LandsOnce'
  BY LandsOnceNext DEF SerialInv
<1>3. CASE UNCHANGED vars
  BY <1>1, <1>2, <1>3, EnvironmentStep DEF vars, Fee, SerialInv, NeverPanics
<1>4. ASSUME NEW a \in AuthzRequests, SwapAuthz(a) PROVE SerialInv'
  BY <1>1, <1>2, <1>4, EnvironmentStep
     DEF SwapAuthz, SignSwap, SubmitSwap, SubmitFails, AddAuthzTxSet, env, server, Fee,
         SerialInv, NeverPanics
<1>5. CASE ProduceBlock
  <2>1. UNCHANGED <<trade, worker>> /\ NeverPanics'
    BY <1>5 DEF ProduceBlock, server, SerialInv, NeverPanics
  <2> QED
    BY <1>1, <1>2, <1>5, <2>1, ResultIsFinal, EnvironmentStep DEF SerialInv
<1>6. ASSUME NEW w \in Workers, ReceiveBlock(w) \/ Notify(w) PROVE SerialInv'
  <2>1. Workers = {w}
    BY <1>6 DEF OneHandler
  <2> QED
    BY <1>1, <1>2, <1>6, <2>1, SerialReceive, SerialEndRange, SerialVisit, SerialSearch,
       SerialDecide, SerialClear, SerialLoop, SerialWrite, SerialSummary, SerialExit, NeverEmpty
       DEF Notify
<1> QED
  BY <1>3, <1>4, <1>5, <1>6 DEF Next

LEMMA SerialInvariance == ASSUME OneHandler PROVE Spec => []SerialInv
  BY SerialInit, SerialNext, PTL DEF Spec

\* One handler at a time never indexes an empty TradeTxs
\* (track_arbitrage.go:383), for any number of requests and whatever the
\* nodes answer.
THEOREM NeverPanicsHolds == ASSUME OneHandler PROVE Spec => []NeverPanics
<1>1. SerialInv => NeverPanics
  BY DEF SerialInv, NeverPanics
<1> QED
  BY <1>1, SerialInvariance, PTL

\* Between the blocks, one handler leaves in a committed set the fee of its
\* successful TX exactly once (types.go:59), whatever failed before.  Of a TX
\* that failed it says nothing: the parser loses that fee (parser.go:126).
THEOREM FeesOfSuccessExactHolds == ASSUME OneHandler PROVE Spec => []FeesOfSuccessExact
<1>1. ASSUME SerialInv PROVE FeesOfSuccessExact
  <2> SUFFICES ASSUME Quiet, NEW a \in succeeded, trade[a].committed
               PROVE  trade[a].hotFees = 1
    BY DEF FeesOfSuccessExact
  <2>1. PICK w \in Workers : TRUE
    BY DEF OneHandler
  <2>2. a \in AuthzRequests
    BY <1>1 DEF SerialInv, IInv, TypeOK
  <2>3. OneTx(worker[w], trade[a], a) /\ worker[w].pc = "idle"
    BY <1>1, <2>2 DEF SerialInv, HandlerFits, Quiet
  <2> QED
    BY <2>3 DEF OneTx, At, Settled, Recording, Holding, Fee
<1> QED
  BY <1>1, SerialInvariance, PTL

\* One handler lists the TX of every committed set (types.go:57): only
\* handlers that overlap lose it.
THEOREM CommittedListsItsTxHolds == ASSUME OneHandler PROVE Spec => []CommittedListsItsTx
<1>1. ASSUME SerialInv PROVE CommittedListsItsTx
  <2> SUFFICES ASSUME Quiet, NEW a \in AuthzRequests PROVE trade[a].tradeTxs > 0
    BY DEF CommittedListsItsTx
  <2>1. PICK w \in Workers : TRUE
    BY DEF OneHandler
  <2>2. OneTx(worker[w], trade[a], a) /\ worker[w].pc = "idle"
    BY <1>1 DEF SerialInv, HandlerFits, Quiet
  <2> QED
    BY <2>2 DEF OneTx, At, Settled, Recording, Holding
<1> QED
  BY <1>1, SerialInvariance, PTL

\* One handler never counts a fee twice (types.go:59), in any state.
THEOREM FeesNotDoubledHolds == ASSUME OneHandler PROVE Spec => []FeesNotDoubled
<1>1. SerialInv => FeesNotDoubled
  BY DEF SerialInv, HandlerFits, OneTx, OneHandler, FeesNotDoubled
<1> QED
  BY <1>1, SerialInvariance, PTL
=============================================================================
