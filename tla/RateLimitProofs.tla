--------------------------- MODULE RateLimitProofs --------------------------
(***************************************************************************)
(* For any number of connections and requests, and any limit: requests     *)
(* that do not overlap are held to the limit, and only the limit blocks    *)
(* them.                                                                   *)
(***************************************************************************)
EXTENDS RateLimit, TLAPS

(***************************************************************************)
(* Types.                                                                  *)
(***************************************************************************)
LEMMA InitType == Init => TypeOK
<1> SUFFICES ASSUME Init PROVE TypeOK
  OBVIOUS
<1>1. now \in 0..MaxTime /\ sent \in 0..MaxRequests /\ lastRequest \in 0..now
  BY LimitAssumption DEF Init
<1>2. connection \in [Connections -> Connection]
  BY DEF Init, Connection, Stages
<1>3. known \in BOOLEAN /\ overlapped \in BOOLEAN
  BY Zenon DEF Init
<1>4. unverifiedRequests \in Nat /\ allowed \in Nat
  BY DEF Init
<1>5. QED
  BY <1>1, <1>2, <1>3, <1>4, Zenon DEF TypeOK

LEMMA NextType == TypeOK /\ [Next]_vars => TypeOK'
<1> SUFFICES ASSUME TypeOK, [Next]_vars PROVE TypeOK'
  OBVIOUS
<1> USE LimitAssumption DEF TypeOK, Connection, Stages
<1>1. CASE UNCHANGED vars
  BY <1>1 DEF vars, counter
<1>2. CASE Tick
  BY <1>2 DEF Tick, counter
<1>3. ASSUME NEW c \in Connections, Request(c) PROVE TypeOK'
  <2>1. CASE FirstRequest(c) BY <2>1 DEF FirstRequest, Send
  <2>2. CASE NextRequest(c) BY <2>2 DEF NextRequest, Send, Goto, counter
  <2>3. CASE ReadCount(c) BY <2>3 DEF ReadCount, counter
  <2>4. CASE WriteCount(c)
    <3>1. CountUp(connection[c].read) \in Nat
      BY DEF CountUp
    <3>2. QED BY <2>4, <3>1 DEF WriteCount, Goto
  <2>5. CASE Decide(c) BY <2>5 DEF Decide, Goto, counter
  <2>6. CASE LimitReached(c) BY <2>6 DEF LimitReached, Goto, counter
  <2>7. CASE BackoffOver(c) BY <2>7 DEF BackoffOver, Goto, counter
  <2>8. CASE Block(c) BY <2>8 DEF Block, Goto, counter
  <2>9. CASE Allow(c) BY <2>9 DEF Allow, Goto
  <2>10. CASE ResetBackoff(c) BY <2>10 DEF ResetBackoff, Goto
  <2>11. CASE AllowAfterPause(c) BY <2>11 DEF AllowAfterPause, Goto
  <2>12. QED
    BY <1>3, <2>1, <2>2, <2>3, <2>4, <2>5, <2>6, <2>7, <2>8, <2>9, <2>10, <2>11 DEF Request
<1>4. QED
  BY <1>1, <1>2, <1>3 DEF Next

\* Every reachable state of the counter is well typed.
THEOREM TypeCorrect == Spec => []TypeOK
BY InitType, NextType, PTL DEF Spec

\* A client with a request under way has a counter.
KnownInv == \A c \in Connections : connection[c].pc # "idle" => known

LEMMA InitKnown == Init => KnownInv
BY DEF Init, KnownInv

LEMMA NextKnown == TypeOK /\ KnownInv /\ [Next]_vars => KnownInv'
BY DEF TypeOK, KnownInv, Connection, vars, counter, Goto, Next, Tick, Request, FirstRequest, Send,
       NextRequest, ReadCount, WriteCount, Decide, LimitReached, BackoffOver, Block, Allow,
       ResetBackoff, AllowAfterPause

(***************************************************************************)
(* Requests that do not overlap: what has been let through since the last  *)
(* pause is what has been counted, up to the limit.                        *)
(***************************************************************************)
Alone(c) == \A d \in Connections \ {c} : connection[d].pc = "idle"

\* Of n counted requests.
LetThrough(n) == IF n < maxAllowedRequests THEN n ELSE maxAllowedRequests - 1

SerialConnection(c) ==
  /\ connection[c].pc \in {"read", "write"} => allowed = LetThrough(unverifiedRequests)
  /\ connection[c].pc = "write" => connection[c].read = unverifiedRequests
  /\ connection[c].pc \in {"decide", "allow"} =>
       unverifiedRequests # 0 /\ allowed = LetThrough(unverifiedRequests - 1)
  /\ connection[c].pc = "allow" => unverifiedRequests < maxAllowedRequests
  /\ connection[c].pc \in {"limit", "pause"} =>
       unverifiedRequests >= maxAllowedRequests /\ allowed = maxAllowedRequests - 1
  /\ connection[c].pc = "stamp" => unverifiedRequests = 1

SerialInv ==
  ~overlapped =>
    /\ allowed < maxAllowedRequests
    /\ (\A c \in Connections : connection[c].pc = "idle") => allowed = LetThrough(unverifiedRequests)
    /\ \A c \in Connections : connection[c].pc # "idle" => Alone(c) /\ SerialConnection(c)

LEMMA InitSerial == Init => SerialInv
BY LimitAssumption DEF Init, SerialInv, LetThrough

LEMMA NextSerial == TypeOK /\ KnownInv /\ SerialInv /\ [Next]_vars => SerialInv'
<1> SUFFICES ASSUME TypeOK, KnownInv, SerialInv, [Next]_vars, ~overlapped' PROVE SerialInv'
  BY DEF SerialInv
<1> USE LimitAssumption DEF TypeOK, Connection, Stages
<1>1. CASE UNCHANGED vars
  BY <1>1 DEF vars, counter, SerialInv, Alone, SerialConnection, LetThrough
<1>2. CASE Tick
  BY <1>2 DEF Tick, counter, SerialInv, Alone, SerialConnection, LetThrough
<1>3. ASSUME NEW c \in Connections, FirstRequest(c) PROVE SerialInv'
  <2>1. \A d \in Connections : connection'[d].pc = "idle"
    BY <1>3 DEF FirstRequest, KnownInv
  <2>2. QED
    BY <1>3, <2>1 DEF FirstRequest, SerialInv, LetThrough
<1>4. ASSUME NEW c \in Connections, NextRequest(c) PROVE SerialInv'
  <2>1. ~overlapped /\ \A d \in Connections : connection[d].pc = "idle"
    BY <1>4 DEF NextRequest
  <2>2. /\ \A d \in Connections \ {c} : connection'[d].pc = "idle"
        /\ connection'[c].pc = "read"
        /\ UNCHANGED <<unverifiedRequests, allowed>>
    BY <1>4, <2>1 DEF NextRequest, Goto, counter
  <2>3. QED
    BY <2>1, <2>2 DEF SerialInv, Alone, SerialConnection, LetThrough
<1>5. ASSUME NEW c \in Connections,
             \/ ReadCount(c) \/ WriteCount(c) \/ Decide(c) \/ LimitReached(c) \/ BackoffOver(c)
             \/ Block(c) \/ Allow(c) \/ ResetBackoff(c) \/ AllowAfterPause(c)
      PROVE  SerialInv'
  <2>1. connection[c].pc # "idle" /\ ~overlapped
    BY <1>5 DEF ReadCount, WriteCount, Decide, LimitReached, BackoffOver, Block, Allow, ResetBackoff,
                AllowAfterPause
  <2>2. Alone(c) /\ SerialConnection(c) /\ allowed < maxAllowedRequests
    BY <2>1 DEF SerialInv
  <2>3. \A d \in Connections \ {c} : connection'[d] = connection[d]
    BY <1>5 DEF ReadCount, WriteCount, Decide, LimitReached, BackoffOver, Block, Allow, ResetBackoff,
                AllowAfterPause, Goto
  <2>4. Alone(c)'
    BY <2>2, <2>3 DEF Alone
  <2>5. /\ SerialConnection(c)' /\ allowed' < maxAllowedRequests
        /\ connection'[c].pc = "idle" => allowed' = LetThrough(unverifiedRequests')
    <3> USE <2>2 DEF SerialConnection, LetThrough
    <3>1. CASE ReadCount(c)
      BY <3>1 DEF ReadCount, counter
    <3>2. CASE WriteCount(c)
      BY <3>2 DEF WriteCount, Goto, CountUp
    <3>3. CASE Decide(c)
      BY <3>3 DEF Decide, Below, Goto, counter
    <3>4. CASE LimitReached(c) \/ BackoffOver(c)
      BY <3>4 DEF LimitReached, BackoffOver, Below, Goto, counter
    <3>5. CASE Block(c)
      BY <3>5 DEF Block, Below, Goto, counter
    <3>6. CASE Allow(c)
      BY <3>6 DEF Allow, Goto
    <3>7. CASE ResetBackoff(c)
      BY <3>7 DEF ResetBackoff, Goto
    <3>8. CASE AllowAfterPause(c)
      BY <3>8 DEF AllowAfterPause, Goto
    <3>9. QED
      BY <1>5, <3>1, <3>2, <3>3, <3>4, <3>5, <3>6, <3>7, <3>8
  <2>6. QED
    BY <2>4, <2>5 DEF SerialInv, Alone
<1>6. QED
  BY <1>1, <1>2, <1>3, <1>4, <1>5 DEF Next, Request

LEMMA Invariance == Spec => [](TypeOK /\ KnownInv /\ SerialInv)
BY InitType, NextType, InitKnown, NextKnown, InitSerial, NextSerial, PTL DEF Spec

\* A client whose requests do not overlap gets fewer than maxAllowedRequests
\* of them through before it has to pause, whenever it sends them
\* (auth.go:51).
THEOREM LimitKeptHolds == Spec => []LimitKept
<1>1. SerialInv => LimitKept
  BY DEF SerialInv, LimitKept
<1>2. QED
  BY <1>1, Invariance, PTL

\* Such a client is blocked only when it has had all its requests since its last
\* pause (auth.go:60), for any limit and whenever the clock ticks.
THEOREM BlockedOnlyAtLimitHolds == Spec => BlockedOnlyAtLimit
<1>1. TypeOK /\ SerialInv =>
        (~overlapped => \A c \in Connections : Block(c) => allowed = maxAllowedRequests - 1)
  BY LimitAssumption DEF SerialInv, SerialConnection, Block, Below, TypeOK
<1>2. QED
  BY <1>1, Invariance, PTL DEF BlockedOnlyAtLimit
=============================================================================
