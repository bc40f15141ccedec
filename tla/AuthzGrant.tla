----------------------------- MODULE AuthzGrant -----------------------------
(***************************************************************************)
(* POST /token (api/endpoints/jwt.go): a client posts a signed authz grant *)
(* and an address, the handler broadcasts the grant at one node, waits for *)
(* it at another, tries a third endpoint when the second does not find it, *)
(* and signs a token for the address when the grant is in a block and      *)
(* passes its checks.  The endpoints come from the shared round robin,     *)
(* which the subscribers use at the same time.                             *)
(*                                                                         *)
(* A block holds a TX before every node has the block.  No property        *)
(* relates the blocks of two grants, so that what a node has is a set of   *)
(* grants.  A lookup of AwaitTx, however often it is repeated until its    *)
(* timeout, is one step: it finds a TX whose block the node has, or it     *)
(* gives up, which a node that is down can always lead to.                 *)
(***************************************************************************)
EXTENDS EndpointRotation

CONSTANTS
  Users,         \* addresses
  Grants,        \* signed TXs that are posted
  Granter,       \* the address whose account gives each grant
  MaxRequests    \* bound: how often a client may post

ASSUME GrantAssumption ==
  /\ Granter \in [Grants -> Users]
  /\ MaxRequests \in Nat

VARIABLES
  acceptable,  \* the TXs that hold one grant, of the kind and for the time the API asks
  request,     \* what each client's handler is doing
  mempool,     \* the TXs each node has taken and knows of in no block
  landed,      \* the TXs in a block
  failed,      \* those that failed in it
  seen,        \* the TXs in the blocks that each node has
  expired,     \* the grants whose expiration is past
  tokens       \* the posts a token was issued for

chain == <<acceptable, mempool, landed, failed, seen, expired>>
GrantVars == <<vars, request, chain, tokens>>

AskStages == {"submit", "search", "second"}
GrantStages == AskStages \cup {"idle", "broadcast", "await", "again", "check"}

\* The node of each endpoint that the handler asked for, 0 before.
NoNode == [s \in AskStages |-> 0]

\* TokenRequest: nothing ties the address to the grant.
Posts == [address : Users, grant : Grants]

Request ==
  [pc : GrantStages, post : {{}} \cup {{p} : p \in Posts}, node : [AskStages -> {0} \cup Nodes],
   posts : 0..MaxRequests]

GrantInit ==
  /\ Init
  /\ acceptable \in SUBSET Grants
  /\ request = [c \in ApiCallers |->
                  [pc |-> "idle", post |-> {}, node |-> NoNode, posts |-> 0]]
  /\ mempool = [n \in Nodes |-> {}] /\ seen = [n \in Nodes |-> {}]
  /\ landed = {} /\ failed = {} /\ expired = {} /\ tokens = {}

(***************************************************************************)
(* The handler of client c.                                                *)
(***************************************************************************)
At(c, stage) == request[c].pc = stage
Posted(c, g) == \E p \in request[c].post : p.grant = g
Enter(c, stage) == Running /\ request' = [request EXCEPT ![c].pc = stage]

\* Every answer, a token or an error, ends the request.
Answer(c) ==
  /\ Running
  /\ request' = [request EXCEPT ![c].pc = "idle", ![c].post = {}, ![c].node = NoNode]

Ask(c, p) ==
  /\ At(c, "idle") /\ request[c].posts < MaxRequests
  /\ Call(c)
  /\ request' = [request EXCEPT ![c].pc = "submit", ![c].post = {p}, ![c].posts = @ + 1]
  /\ UNCHANGED <<chain, tokens>>

\* One step of the getter; the endpoint is the handler's from Pick on.
GetEndpoint(c) ==
  /\ Get(c)
  /\ request' = IF Len(given') > Len(given)
                THEN [request EXCEPT ![c].node[request[c].pc] = Position(index)]
                ELSE request
  /\ UNCHANGED <<chain, tokens>>

PanicAnswered(c) ==
  /\ Recover(c)
  /\ Answer(c)
  /\ UNCHANGED <<chain, tokens>>

\* The getter has returned an endpoint.
HasEndpoint(c) == request[c].pc \in AskStages /\ caller[c].pc = "idle"

\* GetOsmosisTxClient fails: "server misconfiguration".
ClientFails(c) ==
  /\ HasEndpoint(c)
  /\ Answer(c)
  /\ UNCHANGED <<vars, chain, tokens>>

SubmitClientReady(c) ==
  /\ At(c, "submit") /\ HasEndpoint(c)
  /\ Call(c) /\ Enter(c, "search")
  /\ UNCHANGED <<chain, tokens>>

SearchClientReady(c) ==
  /\ \/ At(c, "search") /\ HasEndpoint(c) /\ Enter(c, "broadcast")
     \/ At(c, "second") /\ HasEndpoint(c) /\ Enter(c, "again")
  /\ UNCHANGED <<vars, chain, tokens>>

(***************************************************************************)
(* The broadcast.                                                          *)
(***************************************************************************)
SubmitNode(c) == request[c].node["submit"]

PendingAt(n, g) == g \in mempool[n]

\* A node refuses a TX it holds, and one whose sequence is used up in the blocks
\* that it has.
KnownTo(n, g) == PendingAt(n, g) \/ g \in seen[n]

Takes(n, g) == ~KnownTo(n, g) /\ mempool' = [mempool EXCEPT ![n] = @ \cup {g}]

\* Code 0.
BroadcastAccepted(c) ==
  /\ At(c, "broadcast")
  /\ \E p \in request[c].post : Takes(SubmitNode(c), p.grant)
  /\ Enter(c, "await")
  /\ UNCHANGED <<vars, acceptable, landed, failed, seen, expired, tokens>>

\* Mutant: the code of the answer is not looked at.
CodeIgnored(c) == Enter(c, "await")

Refused(c) == Answer(c)

\* Another code, for a TX the node knows of or for any reason of its own, or
\* no answer at all.
BroadcastRefused(c) ==
  /\ At(c, "broadcast")
  /\ Refused(c)
  /\ UNCHANGED <<vars, chain, tokens>>

\* The node took the TX and its answer is lost.
BroadcastReplyLost(c) ==
  /\ At(c, "broadcast")
  /\ \E p \in request[c].post : Takes(SubmitNode(c), p.grant)
  /\ Answer(c)
  /\ UNCHANGED <<vars, acceptable, landed, failed, seen, expired, tokens>>

(***************************************************************************)
(* The wait.                                                               *)
(***************************************************************************)
SearchNode(c) == request[c].node[IF At(c, "await") THEN "search" ELSE "second"]

\* The result of the TX, TxResponse.Code, is not looked at.
Found(c) ==
  /\ At(c, "await") \/ At(c, "again")
  /\ \E p \in request[c].post : p.grant \in seen[SearchNode(c)]
  /\ Enter(c, "check")
  /\ UNCHANGED <<vars, chain, tokens>>

\* "Try a different RPC endpoint".
TrySecondNode(c) ==
  /\ At(c, "await")
  /\ Call(c) /\ Enter(c, "second")
  /\ UNCHANGED <<chain, tokens>>

\* Mutant: the error of the second lookup is not looked at.
GoesOn(c) == Enter(c, "check")

\* Mutant: the second lookup has no timeout.
WaitsOn(c) == UNCHANGED request

GivesUp(c) == Answer(c)

SecondNodeFails(c) ==
  /\ At(c, "again")
  /\ GivesUp(c)
  /\ UNCHANGED <<vars, chain, tokens>>

Earned(g) == g \in acceptable \ expired

\* The grant is of the kind that is asked for and still valid: GenerateJWT
\* signs a token for the address of the post, which nothing has compared with
\* the granter.
CheckGrant(c) ==
  /\ At(c, "check")
  /\ tokens' = tokens \cup {p \in request[c].post : Earned(p.grant)}
  /\ Answer(c)
  /\ UNCHANGED <<vars, chain>>

GenerateToken(c) ==
  \/ \E p \in Posts : Ask(c, p)
  \/ GetEndpoint(c) \/ PanicAnswered(c) \/ ClientFails(c)
  \/ SubmitClientReady(c) \/ SearchClientReady(c)
  \/ BroadcastAccepted(c) \/ BroadcastRefused(c) \/ BroadcastReplyLost(c)
  \/ Found(c) \/ TrySecondNode(c) \/ SecondNodeFails(c) \/ CheckGrant(c)

(***************************************************************************)
(* The chain, the clock, and the subscribers that use the same endpoints.  *)
(***************************************************************************)
Land(g) ==
  /\ g \notin landed /\ \E n \in Nodes : PendingAt(n, g)
  /\ landed' = landed \cup {g}
  /\ failed' \in {failed, failed \cup {g}}
  /\ UNCHANGED <<vars, request, acceptable, mempool, seen, expired, tokens>>

\* A node gets the block.
CatchUp(n, g) ==
  /\ g \in landed \ seen[n]
  /\ seen' = [seen EXCEPT ![n] = @ \cup {g}]
  /\ mempool' = [mempool EXCEPT ![n] = @ \ {g}]
  /\ UNCHANGED <<vars, request, acceptable, landed, failed, expired, tokens>>

\* A node restarts or its mempool is full.
Drop(n, g) ==
  /\ PendingAt(n, g)
  /\ mempool' = [mempool EXCEPT ![n] = @ \ {g}]
  /\ UNCHANGED <<vars, request, acceptable, landed, failed, seen, expired, tokens>>

Expire(g) ==
  /\ g \notin expired
  /\ expired' = expired \cup {g}
  /\ UNCHANGED <<vars, request, acceptable, mempool, landed, failed, seen, tokens>>

\* The endpoints that requests to come may need: the bound on the calls is
\* never what stops a client.
Reserved == 3 * MaxRequests * Cardinality(ApiCallers)

Subscriber(c) ==
  /\ \/ Call(c) /\ Len(given) + Reserved + Cardinality(Callers) <= MaxCalls
     \/ Get(c)
  /\ UNCHANGED <<request, chain, tokens>>

GrantNext ==
  \/ \E c \in ApiCallers : GenerateToken(c)
  \/ \E c \in Callers \ ApiCallers : Subscriber(c)
  \/ \E g \in Grants : Land(g) \/ Expire(g) \/ \E n \in Nodes : CatchUp(n, g) \/ Drop(n, g)

\* The handlers are goroutines that the scheduler runs, and every call they
\* make returns; nobody has to post, and nothing has to land.
Serve(c) == GenerateToken(c) /\ ~At(c, "idle")

Fairness == \A c \in ApiCallers : WF_GrantVars(Serve(c))

GrantSpec == GrantInit /\ [][GrantNext]_GrantVars /\ Fairness

(***************************************************************************)
(* Properties.                                                             *)
(***************************************************************************)
GrantTypeOK ==
  /\ TypeOK
  /\ request \in [ApiCallers -> Request]
  /\ mempool \in [Nodes -> SUBSET Grants] /\ seen \in [Nodes -> SUBSET landed]
  /\ \A n \in Nodes : mempool[n] \cap seen[n] = {}
  /\ acceptable \cup landed \cup expired \subseteq Grants
  /\ failed \subseteq landed
  /\ tokens \subseteq Posts

\* "Wait at most two blocks for the TX" (jwt.go:82): a token rests on a grant of
\* the kind that is asked for which a block holds, whichever node lost it, lags
\* behind or answered late.  That the address of the token is the granter's, or
\* that the grant did not fail in its block, is not said here: neither holds.
TokenRestsOnLandedGrant ==
  \A t \in tokens : t.grant \in landed \cap acceptable

\* Once every node has the block of a grant and no handler waits for the grant
\* any more, because both lookups missed it or the reply to the broadcast was
\* lost, posting it again never earns a token: the nodes refuse it (jwt.go:76).
Awaited(g) ==
  \E c \in ApiCallers : Posted(c, g) /\ request[c].pc \in {"await", "second", "again", "check"}

Stranded(g) ==
  /\ \A n \in Nodes : g \in seen[n]
  /\ \A t \in tokens : t.grant # g
  /\ ~Awaited(g)

StrandedForever == [][\A g \in Grants : Stranded(g) => Stranded(g)']_GrantVars

\* "Verifies a user's identity through a valid, signed authz grant"
\* (jwt.go:33): the address of a token is the one whose account gave the grant.
TokenNamesGranter == \A t \in tokens : t.address = Granter[t.grant]

\* A "valid" grant (jwt.go:33) is one that the chain has recorded: its TX did
\* not fail in its block.
TokenForSucceededGrant == \A t \in tokens : t.grant \notin failed

\* Every request is answered, however the index is raced for (the panic is
\* recovered) and whatever the nodes do, unless the process ends
\* (jwt.go:34, config.go:84).
EveryRequestAnswered ==
  \A c \in ApiCallers : ~At(c, "idle") ~> (At(c, "idle") \/ ~Running)

\* "Try a different RPC endpoint" ... "this is just to search on a diff
\* node" (jwt.go:86, :94): with several nodes the second lookup does not ask
\* the one that was asked before.
SecondNodeDiffers ==
  Len(SubmitNodes) > 1 =>
    \A c \in ApiCallers :
      At(c, "again") => request[c].node["second"] # request[c].node["search"]
=============================================================================
