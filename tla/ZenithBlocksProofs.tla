-------------------------- MODULE ZenithBlocksProofs ------------------------
(***************************************************************************)
(* For any number of overlapping handlers, any heights and any failures of *)
(* the queries: the auctions to come are on offer once the handlers are    *)
(* done.  If handlers do not overlap, past blocks are gone as well.        *)
(***************************************************************************)
EXTENDS ZenithBlocks, TLAPS

(***************************************************************************)
(* Types, and where a handler is between its height and the last it asks   *)
(* for.                                                                    *)
(***************************************************************************)
Asking(r) ==
  /\ r.lastChainHeight <= r.height
  /\ r.height <= r.lastChainHeight + Lookahead
  /\ r.pc = "request" => r.height < r.lastChainHeight + Lookahead

HandlerOK(r) ==
  r.pc # "idle" =>
    /\ 1 <= r.lastChainHeight /\ r.lastChainHeight <= lastHeight
    /\ r.pc # "delete" => Asking(r)

TypeInv == TypeOK /\ \A w \in Workers : HandlerOK(handler[w])

LEMMA HeightInHeights ==
  ASSUME TypeInv, NEW w \in Workers, handler[w].pc \in {"loop", "request"},
         handler[w].height < handler[w].lastChainHeight + Lookahead
  PROVE  handler[w].height \in Heights
<1>1. MaxHeight \in Nat /\ Lookahead \in Nat /\ Horizon \in Nat
  BY BlocksAssumption
<1>2. handler[w] \in Handler /\ HandlerOK(handler[w])
  BY DEF TypeInv, TypeOK
<1>3. handler[w].height \in 0..(MaxHeight + Lookahead) /\ handler[w].lastChainHeight \in 0..MaxHeight
  BY <1>2 DEF Handler
<1>4. 1 <= handler[w].height
  BY <1>2, <1>3 DEF HandlerOK, Asking
<1>5. QED
  BY <1>1, <1>3, <1>4 DEF Heights

LEMMA InitType == Init => TypeInv
<1> SUFFICES ASSUME Init PROVE TypeInv
  OBVIOUS
<1>1. chainHeight \in 0..MaxHeight /\ lastHeight \in 0..chainHeight
  BY BlocksAssumption DEF Init
<1>2. zenithBlocks \in [Heights -> Codes \cup {Unknown}] /\ overlapped \in BOOLEAN
  BY Zenon DEF Init
<1>3. IdleHandler \in Handler
  BY BlocksAssumption DEF IdleHandler, Handler, Stages
<1>4. handler \in [Workers -> Handler] /\ \A w \in Workers : HandlerOK(handler[w])
  BY <1>3 DEF Init, IdleHandler, HandlerOK
<1>5. QED
  BY <1>1, <1>2, <1>4, Zenon DEF TypeInv, TypeOK

LEMMA NextType == TypeInv /\ [Next]_vars => TypeInv'
<1> SUFFICES ASSUME TypeInv, [Next]_vars PROVE TypeInv'
  OBVIOUS
<1> USE BlocksAssumption DEF TypeInv, TypeOK, HandlerOK, Asking, Handler, Stages
<1>1. CASE UNCHANGED vars
  BY <1>1 DEF vars
<1>2. CASE NewBlock
  BY <1>2 DEF NewBlock
<1>3. ASSUME NEW w \in Workers, Notified(w) PROVE TypeInv'
  <2>1. overlapped' \in BOOLEAN
    BY <1>3 DEF Notified
  <2>2. lastHeight' \in 0..chainHeight' /\ chainHeight' \in 0..MaxHeight
    BY <1>3 DEF Notified
  <2>3. handler' \in [Workers -> Handler]
    <3>1. lastHeight + 1 \in 0..MaxHeight
      BY <1>3 DEF Notified
    <3>2. [handler[w] EXCEPT !.pc = "delete", !.lastChainHeight = lastHeight + 1] \in Handler
      BY <3>1
    <3>3. QED
      BY <1>3, <3>2 DEF Notified
  <2>4. \A v \in Workers : HandlerOK(handler[v])'
    BY <1>3, <2>2 DEF Notified
  <2>5. zenithBlocks' \in [Heights -> Codes \cup {Unknown}]
    BY <1>3 DEF Notified
  <2>6. QED
    BY <2>1, <2>2, <2>3, <2>4, <2>5, Zenon DEF TypeInv, TypeOK
<1>4. ASSUME NEW w \in Workers, DeletePast(w) PROVE TypeInv'
  <2>1. zenithBlocks' \in [Heights -> Codes \cup {Unknown}]
    BY <1>4 DEF DeletePast
  <2>2. handler' \in [Workers -> Handler] /\ \A v \in Workers : HandlerOK(handler[v])'
    <3> DEFINE me == [handler[w] EXCEPT !.pc = "loop", !.height = handler[w].lastChainHeight]
    <3>1. handler[w].lastChainHeight \in 0..(MaxHeight + Lookahead)
      OBVIOUS
    <3>2. me \in Handler /\ HandlerOK(me)
      <4>1. me \in Handler
        BY <3>1
      <4>2. /\ me.pc = "loop" /\ me.height = me.lastChainHeight
            /\ me.lastChainHeight = handler[w].lastChainHeight /\ me.lastChainHeight \in Nat
        OBVIOUS
      <4>3. 1 <= handler[w].lastChainHeight /\ handler[w].lastChainHeight <= lastHeight
        BY <1>4 DEF DeletePast
      <4> HIDE DEF me
      <4>4. QED
        BY <4>1, <4>2, <4>3
    <3>3. handler' = [handler EXCEPT ![w] = me] /\ lastHeight' = lastHeight
      BY <1>4 DEF DeletePast
    <3> HIDE DEF me
    <3>4. QED
      BY <3>2, <3>3
  <2>3. chainHeight' \in 0..MaxHeight /\ lastHeight' \in 0..chainHeight' /\ overlapped' \in BOOLEAN
    BY <1>4 DEF DeletePast
  <2>4. QED
    BY <2>1, <2>2, <2>3, Zenon DEF TypeInv, TypeOK
<1>5. ASSUME NEW w \in Workers, SkipKnown(w) \/ AskFor(w) PROVE TypeInv'
  BY <1>5 DEF SkipKnown, AskFor, InLoop
<1>6. ASSUME NEW w \in Workers, EndLoop(w) PROVE TypeInv'
  BY <1>6 DEF EndLoop, IdleHandler
<1>7. ASSUME NEW w \in Workers, StoreAnswer(w) PROVE TypeInv'
  <2>1. \A h \in Heights : Answers(h) \subseteq Codes
    BY DEF Answers, Codes
  <2>2. handler[w].height \in Heights
    BY <1>7, HeightInHeights DEF StoreAnswer
  <2>3. zenithBlocks' \in [Heights -> Codes \cup {Unknown}]
    BY <1>7, <2>1, <2>2 DEF StoreAnswer
  <2>4. QED
    BY <1>7, <2>3 DEF StoreAnswer
<1>8. ASSUME NEW w \in Workers, RequestFails(w) PROVE TypeInv'
  BY <1>8 DEF RequestFails
<1>9. QED
  BY <1>1, <1>2, <1>3, <1>4, <1>5, <1>6, <1>7, <1>8 DEF Next, Handle

\* Every reachable state of the handlers and the map is well typed.
THEOREM TypeCorrect == Spec => []TypeOK
<1>1. TypeInv => TypeOK
  BY DEF TypeInv
<1>2. QED
  BY <1>1, InitType, NextType, PTL DEF Spec

(***************************************************************************)
(* Auctions to come.  Nothing else is ever recorded of one of them, and    *)
(* until it is recorded, the handler of each block that should ask for it  *)
(* has not passed it.                                                      *)
(***************************************************************************)
ToCome == {h \in (AuctionHeights \cap Heights) \ UnreliableHeights : h > chainHeight}

\* The handler has h still to ask for.
WillAsk(r, last, h) ==
  r.lastChainHeight = last /\ r.pc # "idle" /\ (r.pc # "delete" => r.height <= h)

AheadInv ==
  \A h \in ToCome :
    /\ zenithBlocks[h] \in {Unknown, "ZenithAuction"}
    /\ \A last \in 1..lastHeight :
         (h \in Upcoming(last) /\ zenithBlocks[h] = Unknown) =>
           \E w \in Workers : WillAsk(handler[w], last, h)

LEMMA InitAhead == Init => AheadInv
BY DEF Init, AheadInv, ToCome

\* A step of one handler that passes no auction to come without recording it.
LEMMA AheadStep ==
  ASSUME TypeInv, TypeInv', AheadInv, NEW w \in Workers, UNCHANGED <<chainHeight, lastHeight>>,
         \A v \in Workers \ {w} : handler'[v] = handler[v],
         \A h \in ToCome : zenithBlocks'[h] \in {zenithBlocks[h], "ZenithAuction"},
         \A h \in ToCome, last \in 1..lastHeight :
           (WillAsk(handler[w], last, h) /\ h \in Upcoming(last) /\ zenithBlocks'[h] = Unknown) =>
             WillAsk(handler'[w], last, h)
  PROVE  AheadInv'
<1>1. ToCome' = ToCome
  BY DEF ToCome
<1> SUFFICES ASSUME NEW h \in ToCome
             PROVE  /\ zenithBlocks'[h] \in {Unknown, "ZenithAuction"}
                    /\ \A last \in 1..lastHeight :
                         (h \in Upcoming(last) /\ zenithBlocks'[h] = Unknown) =>
                           \E v \in Workers : WillAsk(handler'[v], last, h)
  BY <1>1 DEF AheadInv, WillAsk
<1>2. zenithBlocks'[h] \in {Unknown, "ZenithAuction"}
  BY DEF AheadInv
<1>3. ASSUME NEW last \in 1..lastHeight, h \in Upcoming(last), zenithBlocks'[h] = Unknown
      PROVE  \E v \in Workers : WillAsk(handler'[v], last, h)
  <2>1. zenithBlocks[h] = Unknown
    BY <1>3 DEF Unknown
  <2>2. PICK v \in Workers : WillAsk(handler[v], last, h)
    BY <1>3, <2>1 DEF AheadInv
  <2>3. WillAsk(handler'[v], last, h)
    <3>1. CASE v = w BY <1>3, <2>2, <3>1
    <3>2. CASE v # w BY <2>2, <3>2
    <3>3. QED BY <3>1, <3>2
  <2>4. QED
    BY <2>3
<1>4. QED
  BY <1>2, <1>3

LEMMA NextAhead == TypeInv /\ TypeInv' /\ AheadInv /\ [Next]_vars => AheadInv'
<1> SUFFICES ASSUME TypeInv, TypeInv', AheadInv, [Next]_vars PROVE AheadInv'
  OBVIOUS
<1> USE BlocksAssumption DEF TypeInv, TypeOK
<1>1. CASE UNCHANGED vars
  BY <1>1 DEF vars, AheadInv, ToCome, WillAsk
<1>2. CASE NewBlock
  <2>1. ToCome' \subseteq ToCome
    BY <1>2 DEF NewBlock, ToCome, Heights
  <2>2. zenithBlocks' = zenithBlocks /\ handler' = handler /\ lastHeight' = lastHeight
    BY <1>2 DEF NewBlock
  <2>3. QED
    BY <2>1, <2>2 DEF AheadInv, WillAsk
<1>3. ASSUME NEW w \in Workers, Notified(w) PROVE AheadInv'
  <2>1. ToCome' = ToCome /\ zenithBlocks' = zenithBlocks /\ lastHeight' = lastHeight + 1
    BY <1>3 DEF Notified, ToCome
  <2>2. handler[w].pc = "idle" /\ \A v \in Workers \ {w} : handler'[v] = handler[v]
    BY <1>3 DEF Notified
  <2>3. handler'[w].pc = "delete" /\ handler'[w].lastChainHeight = lastHeight + 1
    BY <1>3 DEF Notified, Handler
  <2>4. ASSUME NEW h \in ToCome, NEW last \in 1..(lastHeight + 1),
               h \in Upcoming(last), zenithBlocks[h] = Unknown
        PROVE  \E v \in Workers : WillAsk(handler'[v], last, h)
    <3>1. CASE last = lastHeight + 1
      BY <2>3, <3>1 DEF WillAsk
    <3>2. CASE last \in 1..lastHeight
      <4>1. PICK v \in Workers : WillAsk(handler[v], last, h)
        BY <2>4, <3>2 DEF AheadInv
      <4>2. v # w
        BY <2>2, <4>1 DEF WillAsk
      <4>3. QED
        BY <2>2, <4>1, <4>2
    <3>3. QED
      BY <3>1, <3>2
  <2>5. QED
    BY <2>1, <2>4 DEF AheadInv, WillAsk
<1>4. ASSUME NEW w \in Workers, DeletePast(w) PROVE AheadInv'
  <2>1. handler[w].pc = "delete" /\ handler[w].lastChainHeight <= chainHeight
    BY <1>4 DEF DeletePast, HandlerOK, Handler
  <2>2. \A h \in ToCome : zenithBlocks'[h] = zenithBlocks[h]
    BY <1>4, <2>1 DEF DeletePast, Happened, ToCome, Handler, Heights
  <2>3. /\ handler'[w].pc = "loop" /\ handler'[w].lastChainHeight = handler[w].lastChainHeight
        /\ handler'[w].height = handler[w].lastChainHeight
    BY <1>4 DEF DeletePast, Handler
  <2>4. \A h \in ToCome : handler'[w].height <= h
    BY <2>1, <2>3 DEF ToCome, Handler, Heights
  <2>5. QED
    BY <1>4, <2>2, <2>3, <2>4, AheadStep DEF DeletePast, WillAsk
<1>5. ASSUME NEW w \in Workers, SkipKnown(w) \/ AskFor(w) \/ EndLoop(w) PROVE AheadInv'
  <2>1. /\ zenithBlocks' = zenithBlocks /\ UNCHANGED <<chainHeight, lastHeight>>
        /\ \A v \in Workers \ {w} : handler'[v] = handler[v]
    BY <1>5 DEF SkipKnown, AskFor, EndLoop
  <2>2. ASSUME NEW h \in ToCome, NEW last \in 1..lastHeight, h \in Upcoming(last),
               zenithBlocks[h] = Unknown, WillAsk(handler[w], last, h)
        PROVE  WillAsk(handler'[w], last, h)
    <3>1. CASE SkipKnown(w)
      <4>1. handler[w].height \in Int /\ h \in Int /\ handler[w].height # h
        BY <2>2, <3>1 DEF SkipKnown, ToCome, Heights, Handler
      <4>2. QED
        BY <2>2, <3>1, <4>1 DEF SkipKnown, InLoop, WillAsk, Handler
    <3>2. CASE AskFor(w)
      BY <2>2, <3>2 DEF AskFor, InLoop, WillAsk, Handler
    <3>3. CASE EndLoop(w)
      BY <2>2, <3>3 DEF EndLoop, InLoop, WillAsk, Upcoming, ToCome, Heights, Handler
    <3>4. QED
      BY <1>5, <3>1, <3>2, <3>3
  <2>3. QED
    BY <2>1, <2>2, AheadStep
<1>6. ASSUME NEW w \in Workers, StoreAnswer(w) PROVE AheadInv'
  <2>1. /\ handler[w].pc = "request" /\ handler[w].height \in Heights
        /\ UNCHANGED <<chainHeight, lastHeight>>
        /\ \A v \in Workers \ {w} : handler'[v] = handler[v]
    BY <1>6, HeightInHeights DEF StoreAnswer, HandlerOK, Asking
  <2>2. PICK code \in Answers(handler[w].height) :
          zenithBlocks' = IF Recorded(code) THEN [zenithBlocks EXCEPT ![handler[w].height] = code]
                                            ELSE zenithBlocks
    BY <1>6 DEF StoreAnswer
  <2>3. ASSUME NEW h \in ToCome, h = handler[w].height
        PROVE  /\ code \in {"ZenithAuction", "AuctionTooFarInFuture"}
               /\ h <= handler[w].lastChainHeight + Horizon => code = "ZenithAuction"
    BY <2>1, <2>2, <2>3 DEF Answers, ToCome, Heights, HandlerOK, Handler
  <2>4. \A h \in ToCome : zenithBlocks'[h] \in {zenithBlocks[h], "ZenithAuction"}
    BY <2>1, <2>2, <2>3 DEF Recorded, ToCome
  <2>5. ASSUME NEW h \in ToCome, NEW last \in 1..lastHeight, h \in Upcoming(last),
               zenithBlocks'[h] = Unknown, WillAsk(handler[w], last, h)
        PROVE  WillAsk(handler'[w], last, h)
    <3>1. handler[w].height # h
      <4> SUFFICES ASSUME h = handler[w].height PROVE FALSE
        OBVIOUS
      <4>1. code = "ZenithAuction"
        BY <2>3, <2>5 DEF WillAsk, Upcoming
      <4>2. zenithBlocks'[h] = "ZenithAuction"
        BY <2>1, <2>2, <4>1 DEF Recorded
      <4>3. QED
        BY <2>5, <4>2 DEF Unknown
    <3>2. QED
      BY <1>6, <2>1, <2>5, <3>1 DEF StoreAnswer, WillAsk, Handler, ToCome, Heights
  <2>6. QED
    BY <2>1, <2>4, <2>5, AheadStep
<1>7. ASSUME NEW w \in Workers, RequestFails(w) PROVE AheadInv'
  <2>1. /\ handler[w].pc = "request" /\ handler[w].height \in UnreliableHeights
        /\ zenithBlocks' = zenithBlocks /\ UNCHANGED <<chainHeight, lastHeight>>
        /\ \A v \in Workers \ {w} : handler'[v] = handler[v]
    BY <1>7 DEF RequestFails
  <2>2. ASSUME NEW h \in ToCome, NEW last \in 1..lastHeight, WillAsk(handler[w], last, h)
        PROVE  WillAsk(handler'[w], last, h)
    BY <1>7, <2>1, <2>2 DEF RequestFails, WillAsk, Handler, ToCome, Heights
  <2>3. QED
    BY <2>1, <2>2, AheadStep
<1>8. QED
  BY <1>1, <1>2, <1>3, <1>4, <1>5, <1>6, <1>7 DEF Next, Handle

\* Once the handlers are done, the auctions on offer include every one of the
\* next blocks that Zenith answers for (track_auctions.go:55), however many
\* handlers overlap and however late they are.
THEOREM NextAuctionsListedHolds == Spec => []NextAuctionsListed
<1>1. ASSUME TypeInv, AheadInv PROVE NextAuctionsListed
  <2> SUFFICES ASSUME Quiet, lastHeight > 0, NEW h \in AuctionHeights \cap Upcoming(lastHeight),
                      h > chainHeight
               PROVE  h \in GetZenithBlocks
    BY DEF NextAuctionsListed
  <2>1. h \in ToCome /\ lastHeight \in 1..lastHeight /\ h \in Heights
    BY <1>1 DEF TypeInv, TypeOK, ToCome, Upcoming
  <2>2. zenithBlocks[h] # Unknown
    BY <1>1, <2>1 DEF AheadInv, Quiet, WillAsk
  <2>3. QED
    BY <1>1, <2>1, <2>2 DEF AheadInv, GetZenithBlocks
<1>2. QED
  BY <1>1, InitType, NextType, InitAhead, NextAhead, PTL DEF Spec

(***************************************************************************)
(* One handler at a time: it is the handler of the last block, and what it *)
(* has removed stays removed, as it asks for later blocks only.            *)
(***************************************************************************)
Only(w) == \A v \in Workers \ {w} : handler[v].pc = "idle"

SerialInv ==
  ~overlapped =>
    /\ \A w \in Workers :
         handler[w].pc # "idle" => Only(w) /\ handler[w].lastChainHeight = lastHeight
    /\ (\A w \in Workers : handler[w].pc # "delete") =>
         \A h \in 1..(lastHeight - 1) : zenithBlocks[h] = Unknown

LEMMA InitSerial == Init => SerialInv
BY DEF Init, IdleHandler, SerialInv

LEMMA NextSerial == TypeInv /\ SerialInv /\ [Next]_vars => SerialInv'
<1> SUFFICES ASSUME TypeInv, SerialInv, [Next]_vars, ~overlapped' PROVE SerialInv'
  BY DEF SerialInv
<1> USE BlocksAssumption DEF TypeInv, TypeOK
<1>1. CASE UNCHANGED vars
  BY <1>1 DEF vars, SerialInv, Only
<1>2. CASE NewBlock
  BY <1>2 DEF NewBlock, SerialInv, Only
<1>3. ASSUME NEW w \in Workers, Notified(w) PROVE SerialInv'
  <2>1. Quiet
    BY <1>3 DEF Notified
  <2>2. /\ handler'[w].pc = "delete" /\ handler'[w].lastChainHeight = lastHeight'
        /\ \A v \in Workers \ {w} : handler'[v].pc = "idle"
    BY <1>3, <2>1 DEF Notified, Quiet, Handler
  <2>3. QED
    BY <2>2 DEF SerialInv, Only
<1>4. ASSUME NEW w \in Workers, Handle(w) PROVE SerialInv'
  <2>1. handler[w].pc # "idle" /\ UNCHANGED <<chainHeight, lastHeight, overlapped>>
    BY <1>4 DEF Handle, DeletePast, SkipKnown, AskFor, EndLoop, StoreAnswer, RequestFails, InLoop
  <2>2. Only(w) /\ handler[w].lastChainHeight = lastHeight
    BY <2>1 DEF SerialInv
  <2>3. /\ \A v \in Workers \ {w} : handler'[v] = handler[v]
        /\ handler'[w].pc \in {"idle", "loop", "request"}
        /\ handler'[w].pc # "idle" => handler'[w].lastChainHeight = lastHeight
    <3> USE DEF Handler
    <3>1. CASE DeletePast(w) BY <2>2, <3>1 DEF DeletePast
    <3>2. CASE SkipKnown(w) BY <2>2, <3>2 DEF SkipKnown, InLoop
    <3>3. CASE AskFor(w) BY <2>2, <3>3 DEF AskFor
    <3>4. CASE EndLoop(w) BY <2>2, <3>4 DEF EndLoop, IdleHandler
    <3>5. CASE StoreAnswer(w) BY <2>2, <3>5 DEF StoreAnswer
    <3>6. CASE RequestFails(w) BY <2>2, <3>6 DEF RequestFails
    <3>7. QED BY <1>4, <3>1, <3>2, <3>3, <3>4, <3>5, <3>6 DEF Handle
  <2>4. ASSUME NEW h \in 1..(lastHeight - 1) PROVE zenithBlocks'[h] = Unknown
    <3>1. h \in Heights /\ h <= lastHeight
      BY DEF Heights
    <3>2. CASE DeletePast(w)
      BY <2>2, <3>1, <3>2 DEF DeletePast, Happened
    <3>3. CASE ~DeletePast(w)
      <4>1. handler[w].pc # "delete" /\ \A v \in Workers : handler[v].pc # "delete"
        BY <1>4, <2>2, <3>3
        DEF Handle, SkipKnown, AskFor, EndLoop, StoreAnswer, RequestFails, InLoop, Only
      <4>2. zenithBlocks[h] = Unknown
        BY <2>1, <4>1 DEF SerialInv
      <4>3. CASE StoreAnswer(w)
        <5>1. handler[w].height # h
          BY <2>2, <4>3 DEF StoreAnswer, HandlerOK, Asking, Handler
        <5>2. QED
          BY <3>1, <4>2, <4>3, <5>1 DEF StoreAnswer
      <4>4. CASE ~StoreAnswer(w)
        BY <1>4, <3>3, <4>2, <4>4 DEF Handle, SkipKnown, AskFor, EndLoop, RequestFails
      <4>5. QED
        BY <4>3, <4>4
    <3>4. QED
      BY <3>2, <3>3
  <2>5. QED
    BY <2>1, <2>2, <2>3, <2>4 DEF SerialInv, Only
<1>5. QED
  BY <1>1, <1>2, <1>3, <1>4 DEF Next

\* "Any blocks past the current chain height are removed"
\* (track_auctions.go:11) as long as handlers do not overlap, whatever their
\* queries return.
THEOREM SerialPastRemovedHolds == Spec => []SerialPastRemoved
<1>1. TypeInv /\ SerialInv => SerialPastRemoved
  BY DEF SerialInv, SerialPastRemoved, PastBlocksRemoved, Quiet
<1>2. QED
  BY <1>1, InitType, NextType, InitSerial, NextSerial, PTL DEF Spec
=============================================================================
