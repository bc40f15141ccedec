-------------------------- MODULE AuthzGrantProofs --------------------------
(***************************************************************************)
(* Proofs about EndpointRotation and about AuthzGrant, which composes it   *)
(* with the handlers of POST /token.  For any number of callers and nodes: *)
(* the index never runs ahead of the endpoints given out, and calls that   *)
(* do not overlap go round robin and stay in range.  For any number of     *)
(* clients, users, grants and nodes, some of which lag: what the handlers  *)
(* do with the endpoints is the round robin, a token is only issued on an  *)
(* acceptable grant that a block holds, and a grant that landed unawaited  *)
(* never earns one once every node has its block.                          *)
(***************************************************************************)
EXTENDS AuthzGrant, FiniteSetTheorems, TLAPS

(***************************************************************************)
(* Types.                                                                  *)
(***************************************************************************)
LEMMA InitType == Init => TypeOK
<1> SUFFICES ASSUME Init PROVE TypeOK
  OBVIOUS
<1>1. given \in Seq(Nodes)
  BY DEF Init
<1>2. caller \in [Callers -> Caller]
  BY DEF Init, Caller, Stages
<1>3. QED
  BY <1>1, <1>2 DEF Init, TypeOK

LEMMA NextType == TypeOK /\ [Next]_vars => TypeOK'
<1> SUFFICES ASSUME TypeOK, [Next]_vars PROVE TypeOK'
  OBVIOUS
<1> USE DEF TypeOK, Caller, Stages, index
<1>1. CASE UNCHANGED vars
  BY <1>1 DEF vars
<1>2. ASSUME NEW c \in Callers, Call(c) PROVE TypeOK'
  BY <1>2 DEF Call, Goto
<1>3. ASSUME NEW c \in Callers, Get(c) PROVE TypeOK'
  <2>1. CASE Check(c) BY <2>1 DEF Check, Goto
  <2>2. CASE Reset(c) BY <2>2 DEF Reset, Goto
  <2>3. CASE Pick(c)
    <3>1. Position(index) \in Nodes
      BY <2>3, EndpointAssumption DEF Pick, Position, Nodes
    <3>2. QED BY <2>3, <3>1 DEF Pick, Goto
  <2>4. CASE OutOfRange(c) BY <2>4 DEF OutOfRange, Goto
  <2>5. CASE ReadIndex(c) BY <2>5 DEF ReadIndex
  <2>6. CASE WriteIndex(c)
    <3>1. Incremented(caller[c].read) \in Nat
      BY <1>3 DEF Incremented
    <3>2. QED BY <2>6, <3>1 DEF WriteIndex, Goto
  <2>7. QED BY <1>3, <2>1, <2>2, <2>3, <2>4, <2>5, <2>6 DEF Get
<1>4. ASSUME NEW c \in Callers, Recover(c) PROVE TypeOK'
  BY <1>4 DEF Recover, Goto
<1>5. QED
  BY <1>1, <1>2, <1>3, <1>4 DEF Next

\* Every reachable state of the round robin is well typed: an endpoint that
\* is given out is one of the list, however calls race (config.go:84).
THEOREM TypeCorrect == Spec => []TypeOK
<1>1. QED
  BY InitType, NextType, PTL DEF Spec

(***************************************************************************)
(* The index and the endpoints given out.  Every caller between Pick and   *)
(* WriteIndex has been given an endpoint it has not yet counted, and what  *)
(* it will write counts it once, whatever it read.                         *)
(***************************************************************************)
Uncounted == {c \in Callers : caller[c].pc \in {"read", "write"}}

IndexInv ==
  /\ lastRpcSubmitEndpointIndex + Cardinality(Uncounted) <= Len(given)
  /\ \A c \in Callers :
       caller[c].pc = "write" => caller[c].read + Cardinality(Uncounted) <= Len(given)

LEMMA UncountedFinite == IsFiniteSet(Uncounted) /\ Cardinality(Uncounted) \in Nat
BY EndpointAssumption, FS_Subset, FS_CardinalityType DEF Uncounted

LEMMA InitIndex == Init => IndexInv
<1> SUFFICES ASSUME Init PROVE IndexInv
  OBVIOUS
<1>1. Uncounted = {}
  BY DEF Init, Uncounted
<1>2. QED
  BY <1>1, FS_EmptySet DEF Init, IndexInv

\* A step that leaves the index, what was given and who is uncounted alone.
LEMMA SameUncounted ==
  ASSUME IndexInv, TypeOK, Uncounted' = Uncounted, given' = given,
         lastRpcSubmitEndpointIndex' \in {lastRpcSubmitEndpointIndex, 0},
         \A c \in Callers :
           caller[c].pc' = "write" =>
             caller[c].read' = lastRpcSubmitEndpointIndex
               \/ (caller[c].pc = "write" /\ caller[c].read' = caller[c].read)
  PROVE  IndexInv'
BY UncountedFinite DEF IndexInv, TypeOK

LEMMA NextIndex == TypeOK /\ IndexInv /\ [Next]_vars => IndexInv'
<1> SUFFICES ASSUME TypeOK, IndexInv, [Next]_vars PROVE IndexInv'
  OBVIOUS
<1> USE DEF TypeOK, Caller, Stages, index
<1>1. CASE UNCHANGED vars
  BY <1>1 DEF vars, IndexInv, Uncounted
<1>2. ASSUME NEW c \in Callers, Call(c) \/ Check(c) \/ Reset(c) \/ OutOfRange(c) \/ Recover(c)
      PROVE  IndexInv'
  <2>1. /\ caller[c].pc \notin {"read", "write"} /\ given' = given
        /\ \E stage \in Stages \ {"read", "write"} : caller' = [caller EXCEPT ![c].pc = stage]
        /\ lastRpcSubmitEndpointIndex' \in {lastRpcSubmitEndpointIndex, 0}
    BY <1>2 DEF Call, Check, Reset, OutOfRange, Recover, Goto
  <2>2. Uncounted' = Uncounted
    BY <2>1 DEF Uncounted
  <2>3. QED
    BY <2>1, <2>2, SameUncounted
<1>3. ASSUME NEW c \in Callers, Pick(c) PROVE IndexInv'
  <2>1. Uncounted' = Uncounted \cup {c} /\ c \notin Uncounted
    BY <1>3 DEF Pick, Goto, Uncounted
  <2>2. Cardinality(Uncounted') = Cardinality(Uncounted) + 1
    BY <2>1, UncountedFinite, FS_AddElement
  <2>3. Len(given') = Len(given) + 1
    BY <1>3 DEF Pick
  <2>4. \A d \in Callers : caller'[d].pc = "write" => caller[d].pc = "write" /\ caller'[d] = caller[d]
    BY <1>3 DEF Pick, Goto
  <2>5. QED
    BY <1>3, <2>2, <2>3, <2>4, UncountedFinite DEF IndexInv, Pick
<1>4. ASSUME NEW c \in Callers, ReadIndex(c) PROVE IndexInv'
  <2>1. Uncounted' = Uncounted
    BY <1>4 DEF ReadIndex, Uncounted
  <2>2. QED
    BY <1>4, <2>1, SameUncounted DEF ReadIndex
<1>5. ASSUME NEW c \in Callers, WriteIndex(c) PROVE IndexInv'
  <2>1. Uncounted' = Uncounted \ {c} /\ c \in Uncounted
    BY <1>5 DEF WriteIndex, Goto, Uncounted
  <2>2. Cardinality(Uncounted') = Cardinality(Uncounted) - 1
    BY <2>1, UncountedFinite, FS_RemoveElement
  <2>3. lastRpcSubmitEndpointIndex' = caller[c].read + 1 /\ given' = given
    BY <1>5 DEF WriteIndex, Incremented
  <2>4. \A d \in Callers : caller'[d].pc = "write" => caller[d].pc = "write" /\ caller'[d] = caller[d]
    BY <1>5 DEF WriteIndex, Goto
  <2>5. caller[c].pc = "write"
    BY <1>5 DEF WriteIndex
  <2>6. QED
    BY <2>2, <2>3, <2>4, <2>5, UncountedFinite DEF IndexInv
<1>6. QED
  BY <1>1, <1>2, <1>3, <1>4, <1>5 DEF Next, Get

\* However callers race, the index does not run ahead of the endpoints given
\* out: increments are lost but never made up (config.go:85).
THEOREM NeverAheadHolds == Spec => []NeverAhead
<1>1. TypeOK /\ IndexInv => NeverAhead
  BY UncountedFinite DEF TypeOK, IndexInv, NeverAhead
<1>2. QED
  BY <1>1, InitType, NextType, InitIndex, NextIndex, PTL DEF Spec

(***************************************************************************)
(* Calls that do not overlap.                                              *)
(***************************************************************************)
LastGiven == IF given = <<>> THEN 0 ELSE given[Len(given)]

\* Where the index is, relative to the endpoint given last, while one caller
\* at most is under way.
SerialCaller(c) ==
  /\ caller[c].pc \in {"idle", "check"} => lastRpcSubmitEndpointIndex = LastGiven
  /\ caller[c].pc = "reset" => LastGiven = Len(SubmitNodes)
  /\ caller[c].pc = "pick" =>
       /\ lastRpcSubmitEndpointIndex < Len(SubmitNodes)
       /\ lastRpcSubmitEndpointIndex = LastGiven % Len(SubmitNodes)
  /\ caller[c].pc \in {"read", "write"} => lastRpcSubmitEndpointIndex + 1 = LastGiven
  /\ caller[c].pc = "write" => caller[c].read = lastRpcSubmitEndpointIndex
  /\ caller[c].pc # "panicked"

Alone(c) == \A d \in Callers \ {c} : caller[d].pc = "idle"

SerialInv ==
  ~overlapped =>
    /\ \A c \in Callers : caller[c].pc # "idle" => Alone(c) /\ SerialCaller(c)
    /\ (\A c \in Callers : caller[c].pc = "idle") => lastRpcSubmitEndpointIndex = LastGiven
    /\ \A i \in 1..(Len(given) - 1) : given[i + 1] = (given[i] % Len(SubmitNodes)) + 1

LEMMA LastGivenRange ==
  ASSUME TypeOK
  PROVE  LastGiven \in {0} \cup Nodes /\ LastGiven \in Nat
BY EndpointAssumption DEF TypeOK, LastGiven, Nodes

\* i % n for the i that occur.
LEMMA Wrap ==
  ASSUME NEW n \in Nat \ {0}, NEW i \in 0..n
  PROVE  i % n = IF i = n THEN 0 ELSE i
OBVIOUS

LEMMA InitSerial == Init => SerialInv
BY DEF Init, SerialInv, LastGiven

InRoundRobin ==
  \A i \in 1..(Len(given) - 1) : given[i + 1] = (given[i] % Len(SubmitNodes)) + 1

\* It is enough to look at the one caller that is under way.
LEMMA SerialStep ==
  ASSUME NEW c \in Callers, Alone(c), SerialCaller(c)', InRoundRobin',
         \A d \in Callers \ {c} : caller'[d] = caller[d]
  PROVE  SerialInv'
<1>1. Alone(c)'
  BY DEF Alone
<1>2. \A d \in Callers : (caller[d].pc # "idle")' => d = c
  BY <1>1 DEF Alone
<1>3. (\A d \in Callers : caller[d].pc = "idle")' => lastRpcSubmitEndpointIndex' = LastGiven'
  BY DEF SerialCaller
<1>4. QED
  BY <1>1, <1>2, <1>3 DEF SerialInv, InRoundRobin

LEMMA NextSerial == TypeOK /\ SerialInv /\ [Next]_vars => SerialInv'
<1> SUFFICES ASSUME TypeOK, SerialInv, [Next]_vars, ~overlapped' PROVE SerialInv'
  BY DEF SerialInv
<1>1. CASE UNCHANGED vars
  BY <1>1 DEF vars, SerialInv, Alone, SerialCaller, LastGiven
<1>2. ASSUME NEW c \in Callers, Call(c) PROVE SerialInv'
  <2>1. ~overlapped /\ \A d \in Callers : caller[d].pc = "idle"
    BY <1>2 DEF Call
  <2>2. lastRpcSubmitEndpointIndex = LastGiven /\ Alone(c) /\ InRoundRobin
    BY <2>1 DEF SerialInv, Alone, InRoundRobin
  <2>3. (caller[c].pc = "check")' /\ \A d \in Callers \ {c} : caller'[d] = caller[d]
    BY <1>2 DEF Call, Goto, TypeOK, Caller
  <2>4. SerialCaller(c)' /\ InRoundRobin'
    BY <1>2, <2>2, <2>3 DEF Call, index, SerialCaller, LastGiven, InRoundRobin
  <2>5. QED
    BY <2>2, <2>3, <2>4, SerialStep
<1>3. ASSUME NEW c \in Callers, Get(c) \/ Recover(c) PROVE SerialInv'
  <2>1. caller[c].pc # "idle" /\ ~overlapped
    BY <1>3 DEF Get, Check, Reset, Pick, OutOfRange, ReadIndex, WriteIndex, Recover
  <2>2. Alone(c) /\ SerialCaller(c) /\ InRoundRobin
    BY <2>1 DEF SerialInv, InRoundRobin
  <2>3. \A d \in Callers \ {c} : caller'[d] = caller[d]
    BY <1>3 DEF Get, Check, Reset, Pick, OutOfRange, ReadIndex, WriteIndex, Recover, Goto, TypeOK
  <2>4. LastGiven \in 0..Len(SubmitNodes) /\ Len(SubmitNodes) \in Nat \ {0}
    BY LastGivenRange, EndpointAssumption DEF Nodes
  <2>5. SerialCaller(c)' /\ InRoundRobin'
    <3>1. CASE Check(c)
      <4>1. lastRpcSubmitEndpointIndex = LastGiven /\ LastGiven' = LastGiven /\ InRoundRobin'
        BY <2>2, <3>1 DEF Check, SerialCaller, LastGiven, InRoundRobin
      <4>2. LastGiven % Len(SubmitNodes) = IF LastGiven = Len(SubmitNodes) THEN 0 ELSE LastGiven
        BY <2>4, Wrap
      <4>3. caller'[c].pc = IF LastGiven > Len(SubmitNodes) - 1 THEN "reset" ELSE "pick"
        BY <3>1, <4>1 DEF Check, TooLarge, Goto, TypeOK, Caller, index
      <4>4. QED
        BY <2>4, <3>1, <4>1, <4>2, <4>3 DEF Check, SerialCaller, index
    <3>2. CASE Reset(c)
      <4>1. LastGiven = Len(SubmitNodes) /\ LastGiven' = LastGiven /\ InRoundRobin'
        BY <2>2, <3>2 DEF Reset, SerialCaller, LastGiven, InRoundRobin
      <4>2. LastGiven % Len(SubmitNodes) = 0
        BY <2>4, <4>1, Wrap
      <4>3. caller'[c].pc = "pick" /\ lastRpcSubmitEndpointIndex' = 0
        BY <3>2 DEF Reset, Goto, TypeOK, Caller
      <4>4. QED
        BY <2>4, <4>1, <4>2, <4>3 DEF SerialCaller
    <3>3. CASE Pick(c)
      <4>1. /\ lastRpcSubmitEndpointIndex = LastGiven % Len(SubmitNodes)
            /\ given' = Append(given, lastRpcSubmitEndpointIndex + 1)
            /\ lastRpcSubmitEndpointIndex' = lastRpcSubmitEndpointIndex
        BY <2>2, <3>3 DEF Pick, SerialCaller, Position, index
      <4>2. LastGiven' = lastRpcSubmitEndpointIndex + 1
        BY <4>1 DEF LastGiven, TypeOK
      <4>3. caller'[c].pc = "read"
        BY <3>3 DEF Pick, Goto, TypeOK, Caller
      <4>4. InRoundRobin'
        <5>1. ASSUME NEW i \in 1..(Len(given') - 1)
              PROVE  given'[i + 1] = (given'[i] % Len(SubmitNodes)) + 1
          <6>1. CASE i < Len(given)
            BY <2>2, <4>1, <6>1 DEF InRoundRobin, TypeOK
          <6>2. CASE i = Len(given)
            BY <4>1, <6>2 DEF LastGiven, TypeOK
          <6>3. QED
            BY <4>1, <6>1, <6>2 DEF TypeOK
        <5>2. QED
          BY <5>1 DEF InRoundRobin
      <4>5. QED
        BY <4>1, <4>2, <4>3, <4>4 DEF SerialCaller
    <3>4. CASE ReadIndex(c)
      <4>1. /\ lastRpcSubmitEndpointIndex + 1 = LastGiven
            /\ LastGiven' = LastGiven /\ InRoundRobin'
            /\ lastRpcSubmitEndpointIndex' = lastRpcSubmitEndpointIndex
        BY <2>2, <3>4 DEF ReadIndex, SerialCaller, LastGiven, InRoundRobin, index
      <4>2. caller'[c].pc = "write" /\ caller'[c].read = lastRpcSubmitEndpointIndex
        BY <3>4 DEF ReadIndex, TypeOK, Caller, index
      <4>3. QED
        BY <4>1, <4>2 DEF SerialCaller
    <3>5. CASE WriteIndex(c)
      <4>1. lastRpcSubmitEndpointIndex' = LastGiven /\ LastGiven' = LastGiven /\ InRoundRobin'
        BY <2>2, <3>5 DEF WriteIndex, Incremented, SerialCaller, LastGiven, InRoundRobin
      <4>2. caller'[c].pc = "idle"
        BY <3>5 DEF WriteIndex, Goto, TypeOK, Caller
      <4>3. QED
        BY <4>1, <4>2 DEF SerialCaller
    <3>6. CASE OutOfRange(c)
      BY <2>2, <3>6 DEF OutOfRange, SerialCaller, index, TypeOK
    <3>7. CASE Recover(c)
      BY <2>2, <3>7 DEF Recover, SerialCaller
    <3>8. QED
      BY <1>3, <3>1, <3>2, <3>3, <3>4, <3>5, <3>6, <3>7 DEF Get
  <2>6. QED
    BY <2>2, <2>3, <2>5, SerialStep
<1>4. QED
  BY <1>1, <1>2, <1>3 DEF Next

\* As long as calls do not overlap, each is given the node that follows the
\* one given before (config.go:78).
THEOREM RoundRobinHolds == Spec => []RoundRobin
<1>1. SerialInv => RoundRobin
  BY DEF SerialInv, RoundRobin
<1>2. QED
  BY <1>1, InitType, NextType, InitSerial, NextSerial, PTL DEF Spec

\* Calls that do not overlap never index beyond the list (config.go:84).
THEOREM SerialInRangeHolds == Spec => []SerialInRange
<1>1. SerialInv => SerialInRange
  BY DEF SerialInv, SerialCaller, SerialInRange
<1>2. QED
  BY <1>1, InitType, NextType, InitSerial, NextSerial, PTL DEF Spec

(***************************************************************************)
(* AuthzGrant implements EndpointRotation.                                 *)
(***************************************************************************)
LEMMA StepImplements ==
  ASSUME [GrantNext]_GrantVars
  PROVE  [Next]_vars
<1>1. CASE UNCHANGED GrantVars
  BY <1>1 DEF GrantVars
<1>2. ASSUME NEW c \in ApiCallers, GenerateToken(c) PROVE [Next]_vars
  <2>1. c \in Callers
    BY EndpointAssumption
  <2>2. Call(c) \/ Get(c) \/ Recover(c) \/ UNCHANGED vars
    BY <1>2 DEF GenerateToken, Ask, GetEndpoint, PanicAnswered, ClientFails, SubmitClientReady,
         SearchClientReady, BroadcastAccepted, BroadcastRefused, BroadcastReplyLost, Found,
         TrySecondNode, SecondNodeFails, CheckGrant
  <2>3. QED
    BY <2>1, <2>2 DEF Next
<1>3. ASSUME NEW c \in Callers \ ApiCallers, Subscriber(c) PROVE [Next]_vars
  BY <1>3 DEF Subscriber, Next
<1>4. ASSUME NEW g \in Grants, Land(g) \/ Expire(g) \/ \E n \in Nodes : CatchUp(n, g) \/ Drop(n, g)
      PROVE  [Next]_vars
  BY <1>4 DEF Land, Expire, CatchUp, Drop
<1>5. QED
  BY <1>1, <1>2, <1>3, <1>4 DEF GrantNext

\* What clients and subscribers do with the endpoints is the round robin of
\* EndpointRotation, so that its properties hold of the composition.
THEOREM RotationImplemented == GrantSpec => Spec
<1>1. GrantInit => Init
  BY DEF GrantInit
<1>2. QED
  BY <1>1, StepImplements, PTL DEF GrantSpec, Spec

\* The index does not run ahead of the endpoints given out, calls that do not
\* overlap go round robin and in range, with any clients and subscribers.
THEOREM RotationHolds == GrantSpec => [](TypeOK /\ NeverAhead /\ RoundRobin /\ SerialInRange)
<1>1. QED
  BY RotationImplemented, TypeCorrect, NeverAheadHolds, RoundRobinHolds, SerialInRangeHolds, PTL

(***************************************************************************)
(* Types.                                                                  *)
(***************************************************************************)
LEMMA InitGrantType == GrantInit => GrantTypeOK
<1> SUFFICES ASSUME GrantInit PROVE GrantTypeOK
  OBVIOUS
<1>1. TypeOK
  BY InitType DEF GrantInit
<1>2. request \in [ApiCallers -> Request]
  BY GrantAssumption DEF GrantInit, Request, NoNode, GrantStages
<1>3. QED
  BY <1>1, <1>2 DEF GrantInit, GrantTypeOK

\* The answer, and the way to another stage, of a well-typed request.
LEMMA AnswerType ==
  ASSUME GrantTypeOK, NEW c \in ApiCallers, Answer(c)
  PROVE  request' \in [ApiCallers -> Request]
<1> DEFINE me == [request[c] EXCEPT !.pc = "idle", !.post = {}, !.node = NoNode]
<1>1. request[c] \in Request /\ "idle" \in GrantStages /\ NoNode \in [AskStages -> {0} \cup Nodes]
  BY DEF GrantTypeOK, GrantStages, NoNode
<1>2. me \in Request
  BY <1>1 DEF Request
<1>3. request' = [request EXCEPT ![c] = me]
  BY DEF Answer
<1> HIDE DEF me
<1>4. QED
  BY <1>2, <1>3 DEF GrantTypeOK

LEMMA EnterType ==
  ASSUME GrantTypeOK, NEW c \in ApiCallers, NEW s \in GrantStages, Enter(c, s)
  PROVE  request' \in [ApiCallers -> Request]
BY DEF GrantTypeOK, Enter, Request

LEMMA PostType ==
  ASSUME GrantTypeOK, NEW c \in ApiCallers, NEW p \in request[c].post
  PROVE  p \in Posts /\ p.grant \in Grants /\ request[c].post = {p}
BY DEF GrantTypeOK, Request, Posts

\* A broadcast only adds a TX that the node has in no block.
LEMMA TakesType ==
  ASSUME GrantTypeOK, NEW c \in ApiCallers, NEW p \in request[c].post,
         Takes(SubmitNode(c), p.grant), UNCHANGED seen
  PROVE  /\ mempool' \in [Nodes -> SUBSET Grants]
         /\ \A n \in Nodes : mempool'[n] \cap seen'[n] = {}
<1> DEFINE g == p.grant
           n == SubmitNode(c)
<1>1. g \in Grants
  BY PostType
<1>2. /\ mempool \in [Nodes -> SUBSET Grants]
      /\ \A m \in Nodes : mempool[m] \cap seen[m] = {}
  BY DEF GrantTypeOK
<1>3. g \notin seen[n] /\ mempool' = [mempool EXCEPT ![n] = @ \cup {g}]
  BY DEF Takes, KnownTo
<1> HIDE DEF g, n
<1>4. QED
  BY <1>1, <1>2, <1>3

\* A step of one client's handler: what is the chain's own, and the other
\* clients', stays; only the check signs tokens.
LEMMA ClientStep ==
  ASSUME NEW c \in ApiCallers, GenerateToken(c)
  PROVE  /\ UNCHANGED <<acceptable, landed, failed, seen, expired>>
         /\ CheckGrant(c) \/ tokens' = tokens
         /\ BroadcastAccepted(c) \/ BroadcastReplyLost(c) \/ mempool' = mempool
BY DEF GenerateToken, Ask, GetEndpoint, PanicAnswered, ClientFails, SubmitClientReady,
   SearchClientReady, BroadcastAccepted, BroadcastRefused, BroadcastReplyLost, Found,
   TrySecondNode, SecondNodeFails, CheckGrant, chain

LEMMA OthersStay ==
  ASSUME GrantTypeOK, NEW c \in ApiCallers, GenerateToken(c), NEW d \in ApiCallers \ {c}
  PROVE  request'[d] = request[d] /\ caller'[d] = caller[d]
<1>1. request'[d] = request[d]
  BY DEF GenerateToken, Ask, GetEndpoint, PanicAnswered, ClientFails, SubmitClientReady,
     SearchClientReady, BroadcastAccepted, BroadcastRefused, BroadcastReplyLost, Found,
     TrySecondNode, SecondNodeFails, CheckGrant, Refused, GivesUp, Answer, Enter, GrantTypeOK
<1>2. Call(c) \/ Get(c) \/ Recover(c) \/ UNCHANGED vars
  BY DEF GenerateToken, Ask, GetEndpoint, PanicAnswered, ClientFails, SubmitClientReady,
     SearchClientReady, BroadcastAccepted, BroadcastRefused, BroadcastReplyLost, Found,
     TrySecondNode, SecondNodeFails, CheckGrant
<1>3. caller'[d] = caller[d]
  BY <1>2, EndpointAssumption
     DEF Call, Get, Check, Reset, Pick, OutOfRange, ReadIndex, WriteIndex, Recover, Goto, vars,
         GrantTypeOK, TypeOK
<1>4. QED
  BY <1>1, <1>3

LEMMA NextGrantType == GrantTypeOK /\ [GrantNext]_GrantVars => GrantTypeOK'
<1> SUFFICES ASSUME GrantTypeOK, [GrantNext]_GrantVars PROVE GrantTypeOK'
  OBVIOUS
<1>1. TypeOK'
  BY StepImplements, NextType DEF GrantTypeOK
<1>2. CASE UNCHANGED GrantVars
  BY <1>1, <1>2 DEF GrantVars, chain, GrantTypeOK
<1>3. ASSUME NEW c \in ApiCallers, GenerateToken(c) PROVE GrantTypeOK'
  <2>1. request' \in [ApiCallers -> Request]
    <3>1. CASE \E p \in Posts : Ask(c, p)
      BY <3>1, GrantAssumption DEF Ask, GrantTypeOK, Request, GrantStages, AskStages
    <3>2. CASE GetEndpoint(c)
      <4>1. CASE Len(given') > Len(given)
        <5>1. Pick(c)
          BY <3>2, <4>1 DEF GetEndpoint, Get, Check, Reset, OutOfRange, ReadIndex, WriteIndex
        <5>2. Position(index) \in Nodes
          BY <5>1, EndpointAssumption DEF Pick, GrantTypeOK, TypeOK, Position, Nodes, index
        <5>3. QED
          BY <3>2, <4>1, <5>2 DEF GetEndpoint, GrantTypeOK, Request
      <4>2. QED
        BY <3>2, <4>1 DEF GetEndpoint, GrantTypeOK
    <3>3. CASE PanicAnswered(c) \/ ClientFails(c) \/ BroadcastRefused(c) \/ BroadcastReplyLost(c)
               \/ SecondNodeFails(c) \/ CheckGrant(c)
      BY <3>3, AnswerType DEF PanicAnswered, ClientFails, BroadcastRefused, Refused,
           BroadcastReplyLost, SecondNodeFails, GivesUp, CheckGrant
    <3>4. CASE SubmitClientReady(c) \/ SearchClientReady(c) \/ BroadcastAccepted(c) \/ Found(c)
               \/ TrySecondNode(c)
      BY <3>4, EnterType DEF SubmitClientReady, SearchClientReady, BroadcastAccepted, Found,
           TrySecondNode, GrantStages, AskStages
    <3>5. QED
      BY <1>3, <3>1, <3>2, <3>3, <3>4 DEF GenerateToken
  <2>2. /\ mempool' \in [Nodes -> SUBSET Grants]
        /\ \A n \in Nodes : mempool'[n] \cap seen'[n] = {}
    <3>1. CASE BroadcastAccepted(c) \/ BroadcastReplyLost(c)
      BY <1>3, <3>1, ClientStep, TakesType DEF BroadcastAccepted, BroadcastReplyLost
    <3>2. CASE mempool' = mempool
      BY <1>3, <3>2, ClientStep DEF GrantTypeOK
    <3>3. QED
      BY <1>3, <3>1, <3>2, ClientStep
  <2>3. tokens' \subseteq Posts
    <3>1. CASE CheckGrant(c)
      BY <3>1, PostType DEF CheckGrant, GrantTypeOK
    <3>2. QED
      BY <1>3, <3>1, ClientStep DEF GrantTypeOK
  <2>4. QED
    BY <1>1, <1>3, <2>1, <2>2, <2>3, ClientStep DEF GrantTypeOK
<1>4. ASSUME NEW c \in Callers \ ApiCallers, Subscriber(c) PROVE GrantTypeOK'
  BY <1>1, <1>4 DEF Subscriber, chain, GrantTypeOK
<1>5. ASSUME NEW g \in Grants, Land(g) PROVE GrantTypeOK'
  BY <1>1, <1>5 DEF Land, GrantTypeOK
<1>6. ASSUME NEW g \in Grants, NEW n \in Nodes, CatchUp(n, g) PROVE GrantTypeOK'
  <2>1. seen' \in [Nodes -> SUBSET landed] /\ mempool' \in [Nodes -> SUBSET Grants]
    BY <1>6 DEF CatchUp, GrantTypeOK
  <2>2. ASSUME NEW m \in Nodes PROVE mempool'[m] \cap seen'[m] = {}
    BY <1>6 DEF CatchUp, GrantTypeOK
  <2>3. QED
    BY <1>1, <1>6, <2>1, <2>2 DEF CatchUp, GrantTypeOK
<1>7. ASSUME NEW g \in Grants, Expire(g) \/ \E n \in Nodes : Drop(n, g) PROVE GrantTypeOK'
  BY <1>1, <1>7 DEF Expire, Drop, GrantTypeOK
<1>8. QED
  BY <1>2, <1>3, <1>4, <1>5, <1>6, <1>7 DEF GrantNext

\* Every reachable state of the composition is well typed.
THEOREM GrantTypeCorrect == GrantSpec => []GrantTypeOK
<1>1. QED
  BY InitGrantType, NextGrantType, PTL DEF GrantSpec

(***************************************************************************)
(* The nodes a handler asks are of the list: it has an endpoint, from the  *)
(* pick on, before it makes a client of it.                                *)
(***************************************************************************)
AsksNodes(c) ==
  /\ request[c].pc \in AskStages /\ caller[c].pc \in {"idle", "read", "write"}
       => request[c].node[request[c].pc] \in Nodes
  /\ request[c].pc \notin AskStages => caller[c].pc = "idle"
  /\ request[c].pc \notin {"idle", "submit"} => request[c].node["submit"] \in Nodes
  /\ request[c].pc \in {"broadcast", "await", "second", "again"}
       => request[c].node["search"] \in Nodes
  /\ request[c].pc = "again" => request[c].node["second"] \in Nodes

NodeInv == \A c \in ApiCallers : AsksNodes(c)

LEMMA InitNode == GrantInit => NodeInv
BY EndpointAssumption DEF GrantInit, Init, NodeInv, AsksNodes, AskStages

\* What an answer, a call and the way to another stage leave behind.
LEMMA AfterAnswer ==
  ASSUME GrantTypeOK, NEW c \in ApiCallers, Answer(c), caller'[c].pc = "idle"
  PROVE  AsksNodes(c)'
BY DEF Answer, GrantTypeOK, Request, AsksNodes, AskStages

LEMMA AfterCall ==
  ASSUME GrantTypeOK, NEW c \in ApiCallers, Call(c)
  PROVE  caller'[c].pc = "check"
BY EndpointAssumption DEF Call, Goto, GrantTypeOK, TypeOK, Caller

LEMMA AfterEnter ==
  ASSUME GrantTypeOK, NEW c \in ApiCallers, NEW s \in GrantStages, Enter(c, s)
  PROVE  request'[c].pc = s /\ request'[c].node = request[c].node
BY DEF Enter, GrantTypeOK, Request

LEMMA GetNode ==
  ASSUME GrantTypeOK, NEW c \in ApiCallers, AsksNodes(c), GetEndpoint(c)
  PROVE  AsksNodes(c)'
<1>1. c \in Callers /\ caller[c].pc # "idle" /\ request[c].pc \in AskStages
  BY EndpointAssumption
     DEF GetEndpoint, Get, Check, Reset, Pick, OutOfRange, ReadIndex, WriteIndex, AsksNodes
<1>2. CASE Pick(c)
  <2> DEFINE node == [request[c].node EXCEPT ![request[c].pc] = Position(index)]
  <2>1. Len(given') > Len(given)
    BY <1>2 DEF Pick, GrantTypeOK, TypeOK
  <2>2. request' = [request EXCEPT ![c].node = node]
    BY <2>1 DEF GetEndpoint
  <2>3. Position(index) \in Nodes
    BY <1>2, EndpointAssumption DEF Pick, GrantTypeOK, TypeOK, Position, Nodes, index
  <2>4. /\ node[request[c].pc] \in Nodes
        /\ \A s \in AskStages : node[s] = request[c].node[s] \/ node[s] \in Nodes
    BY <1>1, <2>3 DEF GrantTypeOK, Request
  <2> HIDE DEF node
  <2>5. request'[c].pc = request[c].pc /\ request'[c].node = node
    BY <2>2 DEF GrantTypeOK, Request
  <2>6. QED
    BY <1>1, <2>4, <2>5 DEF AsksNodes, AskStages
<1>3. CASE ~Pick(c)
  <2>1. request' = request
    BY <1>3 DEF GetEndpoint, Get, Check, Reset, OutOfRange, ReadIndex, WriteIndex
  <2>2. caller'[c].pc \in {"idle", "read", "write"} => caller[c].pc \in {"read", "write"}
    BY <1>1, <1>3
       DEF GetEndpoint, Get, Check, Reset, OutOfRange, ReadIndex, WriteIndex, Goto, GrantTypeOK,
           TypeOK, Caller
  <2>3. QED
    BY <1>1, <2>1, <2>2 DEF AsksNodes
<1>4. QED
  BY <1>2, <1>3

LEMMA ClientNode ==
  ASSUME GrantTypeOK, NEW c \in ApiCallers, AsksNodes(c), GenerateToken(c)
  PROVE  AsksNodes(c)'
<1> USE DEF At, AskStages, GrantStages
<1>1. CASE \E p \in Posts : Ask(c, p)
  <2>1. request'[c].pc = "submit" /\ caller'[c].pc = "check"
    BY <1>1, AfterCall DEF Ask, GrantTypeOK, Request
  <2>2. QED
    BY <2>1 DEF AsksNodes
<1>2. CASE GetEndpoint(c)
  BY <1>2, GetNode
<1>3. CASE \/ PanicAnswered(c) \/ ClientFails(c) \/ BroadcastRefused(c) \/ BroadcastReplyLost(c)
           \/ SecondNodeFails(c) \/ CheckGrant(c)
  <2>1. Answer(c)
    BY <1>3 DEF PanicAnswered, ClientFails, BroadcastRefused, Refused, BroadcastReplyLost,
                SecondNodeFails, GivesUp, CheckGrant
  <2>2. caller'[c].pc = "idle"
    <3>1. CASE PanicAnswered(c)
      BY <3>1, EndpointAssumption DEF PanicAnswered, Recover, Goto, GrantTypeOK, TypeOK, Caller
    <3>2. CASE ~PanicAnswered(c)
      BY <1>3, <3>2 DEF ClientFails, HasEndpoint, BroadcastRefused, BroadcastReplyLost,
           SecondNodeFails, CheckGrant, AsksNodes, vars
    <3>3. QED
      BY <3>1, <3>2
  <2>3. QED
    BY <2>1, <2>2, AfterAnswer
<1>4. CASE SubmitClientReady(c)
  <2>1. request'[c].pc = "search" /\ request'[c].node = request[c].node /\ caller'[c].pc = "check"
    BY <1>4, AfterCall, AfterEnter DEF SubmitClientReady
  <2>2. QED
    BY <1>4, <2>1 DEF SubmitClientReady, HasEndpoint, AsksNodes
<1>5. CASE TrySecondNode(c)
  <2>1. request'[c].pc = "second" /\ request'[c].node = request[c].node /\ caller'[c].pc = "check"
    BY <1>5, AfterCall, AfterEnter DEF TrySecondNode
  <2>2. QED
    BY <1>5, <2>1 DEF TrySecondNode, AsksNodes
<1>6. CASE SearchClientReady(c) \/ BroadcastAccepted(c) \/ Found(c)
  <2>1. caller' = caller /\ request'[c].node = request[c].node
    BY <1>6, AfterEnter DEF SearchClientReady, BroadcastAccepted, Found, vars
  <2>2. \/ request[c].pc = "search" /\ HasEndpoint(c) /\ request'[c].pc = "broadcast"
        \/ request[c].pc = "second" /\ HasEndpoint(c) /\ request'[c].pc = "again"
        \/ request[c].pc = "broadcast" /\ request'[c].pc = "await"
        \/ request[c].pc \in {"await", "again"} /\ request'[c].pc = "check"
    BY <1>6, AfterEnter DEF SearchClientReady, BroadcastAccepted, Found
  <2>3. QED
    BY <2>1, <2>2 DEF HasEndpoint, AsksNodes
<1>7. QED
  BY <1>1, <1>2, <1>3, <1>4, <1>5, <1>6 DEF GenerateToken

\* What the environment leaves of the clients' handlers.
LEMMA EnvironmentStep ==
  ASSUME GrantTypeOK,
         \/ \E c \in Callers \ ApiCallers : Subscriber(c)
         \/ \E g \in Grants : Land(g) \/ Expire(g) \/ \E n \in Nodes : CatchUp(n, g) \/ Drop(n, g)
  PROVE  /\ UNCHANGED <<request, acceptable, tokens>>
         /\ landed \subseteq landed'
         /\ \A n \in Nodes : seen[n] \subseteq seen'[n]
         /\ \A c \in ApiCallers : caller'[c] = caller[c]
<1>1. CASE \E c \in Callers \ ApiCallers : Subscriber(c)
  BY <1>1, EndpointAssumption
     DEF Subscriber, chain, Call, Get, Check, Reset, Pick, OutOfRange, ReadIndex, WriteIndex,
         Goto, GrantTypeOK, TypeOK
<1>2. CASE \E g \in Grants : Land(g) \/ Expire(g) \/ \E n \in Nodes : CatchUp(n, g) \/ Drop(n, g)
  BY <1>2 DEF Land, Expire, CatchUp, Drop, vars, GrantTypeOK
<1>3. QED
  BY <1>1, <1>2

LEMMA NextNode == GrantTypeOK /\ NodeInv /\ [GrantNext]_GrantVars => NodeInv'
<1> SUFFICES ASSUME GrantTypeOK, NodeInv, [GrantNext]_GrantVars, NEW d \in ApiCallers
             PROVE  AsksNodes(d)'
  BY DEF NodeInv
<1>1. AsksNodes(d)
  BY DEF NodeInv
<1>2. ASSUME NEW c \in ApiCallers, GenerateToken(c) PROVE AsksNodes(d)'
  <2>1. CASE c = d
    BY <1>1, <1>2, <2>1, ClientNode
  <2>2. CASE c # d
    BY <1>1, <1>2, <2>2, OthersStay DEF AsksNodes
  <2>3. QED
    BY <2>1, <2>2
<1>3. CASE UNCHANGED GrantVars
  BY <1>1, <1>3 DEF GrantVars, vars, AsksNodes
<1>4. CASE ~(\E c \in ApiCallers : GenerateToken(c)) /\ ~UNCHANGED GrantVars
  BY <1>1, <1>4, EnvironmentStep DEF GrantNext, AsksNodes
<1>5. QED
  BY <1>2, <1>3, <1>4

(***************************************************************************)
(* Tokens.                                                                 *)
(***************************************************************************)
\* A handler that checks a grant has found it in a block that a node has.
TokenInv ==
  /\ TokenRestsOnLandedGrant
  /\ \A c \in ApiCallers : At(c, "check") => \A p \in request[c].post : p.grant \in landed

LEMMA InitToken == GrantInit => TokenInv
BY DEF GrantInit, TokenInv, TokenRestsOnLandedGrant, At

\* Only a grant that was found is checked.
LEMMA ChecksFound ==
  ASSUME GrantTypeOK, NodeInv, TokenInv, NEW c \in ApiCallers, GenerateToken(c),
         request'[c].pc = "check", NEW p \in request'[c].post
  PROVE  p.grant \in landed
<1> USE DEF At
<1>1. CASE Found(c)
  <2>1. SearchNode(c) \in Nodes
    BY <1>1 DEF Found, SearchNode, NodeInv, AsksNodes
  <2>2. request'[c].post = request[c].post
    BY <1>1 DEF Found, Enter, GrantTypeOK, Request
  <2>3. PICK q \in request[c].post : q.grant \in seen[SearchNode(c)]
    BY <1>1 DEF Found
  <2>4. p = q
    BY <2>2, <2>3, PostType
  <2>5. QED
    BY <2>1, <2>3, <2>4 DEF GrantTypeOK
<1>2. CASE GetEndpoint(c)
  <2> DEFINE node == [request[c].node EXCEPT ![request[c].pc] = Position(index)]
  <2>1. request' = request \/ request' = [request EXCEPT ![c].node = node]
    BY <1>2 DEF GetEndpoint
  <2> HIDE DEF node
  <2>2. request'[c].pc = request[c].pc /\ request'[c].post = request[c].post
    BY <2>1 DEF GrantTypeOK, Request
  <2>3. QED
    BY <2>2 DEF TokenInv
<1>3. CASE ~Found(c) /\ ~GetEndpoint(c)
  <2>1. CASE \E q \in Posts : Ask(c, q)
    BY <2>1 DEF Ask, GrantTypeOK, Request
  <2>2. CASE Answer(c)
    BY <2>2 DEF Answer, GrantTypeOK, Request
  <2>3. ASSUME NEW stage, stage # "check", Enter(c, stage) PROVE FALSE
    BY <2>3 DEF Enter, GrantTypeOK, Request
  <2>4. QED
    BY <1>3, <2>1, <2>2, <2>3
       DEF GenerateToken, PanicAnswered, ClientFails, BroadcastRefused, BroadcastReplyLost,
           SecondNodeFails, CheckGrant, Refused, GivesUp, SubmitClientReady, SearchClientReady,
           BroadcastAccepted, TrySecondNode
<1>4. QED
  BY <1>1, <1>2, <1>3

LEMMA NextToken == GrantTypeOK /\ NodeInv /\ TokenInv /\ [GrantNext]_GrantVars => TokenInv'
<1> SUFFICES ASSUME GrantTypeOK, NodeInv, TokenInv, [GrantNext]_GrantVars PROVE TokenInv'
  OBVIOUS
<1>1. CASE UNCHANGED GrantVars
  BY <1>1 DEF GrantVars, chain, TokenInv, TokenRestsOnLandedGrant, At
<1>2. ASSUME NEW c \in ApiCallers, GenerateToken(c) PROVE TokenInv'
  <2>1. \A t \in tokens' : t.grant \in landed \cap acceptable
    <3>1. CASE CheckGrant(c)
      BY <3>1 DEF CheckGrant, Earned, TokenInv, TokenRestsOnLandedGrant
    <3>2. QED
      BY <1>2, <3>1, ClientStep DEF TokenInv, TokenRestsOnLandedGrant
  <2>2. ASSUME NEW d \in ApiCallers, request'[d].pc = "check", NEW p \in request'[d].post
        PROVE  p.grant \in landed
    <3>1. CASE d = c
      BY <1>2, <2>2, <3>1, ChecksFound
    <3>2. CASE d # c
      BY <1>2, <2>2, <3>2, OthersStay DEF TokenInv, At
    <3>3. QED
      BY <3>1, <3>2
  <2>3. QED
    BY <1>2, <2>1, <2>2, ClientStep DEF TokenInv, TokenRestsOnLandedGrant, At
<1>3. CASE ~(\E c \in ApiCallers : GenerateToken(c)) /\ ~UNCHANGED GrantVars
  BY <1>3, EnvironmentStep DEF GrantNext, TokenInv, TokenRestsOnLandedGrant, At
<1>4. QED
  BY <1>1, <1>2, <1>3

\* The invariant of the composition.
GrantIInv == GrantTypeOK /\ NodeInv /\ TokenInv

LEMMA GrantInvariance == GrantSpec => []GrantIInv
<1>1. GrantInit => GrantIInv
  BY InitGrantType, InitNode, InitToken DEF GrantIInv
<1>2. GrantIInv /\ [GrantNext]_GrantVars => GrantIInv'
  BY NextGrantType, NextNode, NextToken DEF GrantIInv
<1>3. QED
  BY <1>1, <1>2, PTL DEF GrantSpec

\* A token rests on a grant of the kind that is asked for which a block holds
\* (jwt.go:82), with any clients, users, grants and nodes that lag.  Neither that
\* the token names the granter nor that the grant succeeded follows.
THEOREM TokenRestsOnLandedGrantHolds == GrantSpec => []TokenRestsOnLandedGrant
<1>1. GrantIInv => TokenRestsOnLandedGrant
  BY DEF GrantIInv, TokenInv
<1>2. QED
  BY <1>1, GrantInvariance, PTL

(***************************************************************************)
(* A grant that landed while no handler waited for it.                     *)
(***************************************************************************)
WaitStages == {"await", "second", "again", "check"}

LEMMA StrandedStep ==
  ASSUME GrantIInv, [GrantNext]_GrantVars, NEW g \in Grants, Stranded(g)
  PROVE  Stranded(g)'
<1> USE DEF At, Posted, GrantIInv
<1>1. /\ \A n \in Nodes : g \in seen[n]
      /\ \A t \in tokens : t.grant # g
      /\ \A c \in ApiCallers : \A p \in request[c].post : p.grant = g => request[c].pc \notin WaitStages
  BY DEF Stranded, Awaited, WaitStages
<1> DEFINE Over == /\ \A n \in Nodes : g \in seen'[n]
                   /\ \A t \in tokens' : t.grant # g
                   /\ \A c \in ApiCallers : \A p \in request'[c].post :
                        p.grant = g => request'[c].pc \notin WaitStages
<1>2. SUFFICES Over
  BY DEF Stranded, Awaited, WaitStages
<1>3. CASE UNCHANGED GrantVars
  BY <1>1, <1>3 DEF GrantVars, chain
<1>4. ASSUME NEW c \in ApiCallers, GenerateToken(c) PROVE Over
  <2>1. seen' = seen
    BY <1>4, ClientStep
  <2>2. \A t \in tokens' : t.grant # g
    <3>1. CASE CheckGrant(c)
      BY <1>1, <3>1 DEF CheckGrant, WaitStages
    <3>2. QED
      BY <1>1, <1>4, <3>1, ClientStep
  <2>3. ASSUME NEW p \in request'[c].post, p.grant = g PROVE request'[c].pc \notin WaitStages
    <3>1. CASE \E q \in Posts : Ask(c, q)
      BY <3>1 DEF Ask, WaitStages, GrantTypeOK, Request
    <3>2. CASE GetEndpoint(c)
      <4>1. request'[c].pc = request[c].pc /\ request'[c].post = request[c].post
        BY <3>2 DEF GetEndpoint, GrantTypeOK, Request
      <4>2. QED
        BY <1>1, <2>3, <4>1
    <3>3. CASE PanicAnswered(c) \/ ClientFails(c) \/ BroadcastRefused(c) \/ BroadcastReplyLost(c)
               \/ SecondNodeFails(c) \/ CheckGrant(c)
      BY <3>3 DEF PanicAnswered, ClientFails, BroadcastRefused, Refused, BroadcastReplyLost,
           SecondNodeFails, GivesUp, CheckGrant, Answer, WaitStages, GrantTypeOK, Request
    <3>4. CASE SubmitClientReady(c) \/ SearchClientReady(c) \/ Found(c) \/ TrySecondNode(c)
      BY <1>1, <2>3, <3>4 DEF SubmitClientReady, SearchClientReady, Found, TrySecondNode, Enter,
           WaitStages, GrantTypeOK, Request
    <3>5. CASE BroadcastAccepted(c)
      <4>1. PICK q \in request[c].post : Takes(SubmitNode(c), q.grant)
        BY <3>5 DEF BroadcastAccepted
      <4>2. request'[c].post = request[c].post /\ request[c].pc = "broadcast"
        BY <3>5 DEF BroadcastAccepted, Enter, GrantTypeOK, Request
      <4>3. SubmitNode(c) \in Nodes
        BY <4>2 DEF SubmitNode, NodeInv, AsksNodes
      <4>4. q.grant # g
        BY <1>1, <4>1, <4>3 DEF Takes, KnownTo
      <4>5. QED
        BY <2>3, <4>1, <4>2, <4>4, PostType
    <3>6. QED
      BY <1>4, <3>1, <3>2, <3>3, <3>4, <3>5 DEF GenerateToken
  <2>4. QED
    BY <1>1, <1>4, <2>1, <2>2, <2>3, OthersStay
<1>5. CASE ~(\E c \in ApiCallers : GenerateToken(c)) /\ ~UNCHANGED GrantVars
  BY <1>1, <1>5, EnvironmentStep DEF GrantNext
<1>6. QED
  BY <1>3, <1>4, <1>5

\* Once every node has a grant's block and no handler waits for the grant,
\* posting it again never earns a token (jwt.go:76).
THEOREM StrandedForeverHolds == GrantSpec => StrandedForever
<1>1. GrantIInv /\ [GrantNext]_GrantVars
        => [\A g \in Grants : Stranded(g) => Stranded(g)']_GrantVars
  BY StrandedStep
<1>2. QED
  BY <1>1, GrantInvariance, PTL DEF GrantSpec, StrandedForever
=============================================================================
