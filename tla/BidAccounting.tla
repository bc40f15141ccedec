--------------------------- MODULE BidAccounting ----------------------------
(***************************************************************************)
(* From a swap on chain to the books: what the chain logs for the TXs of a *)
(* bid, or for the TX of an authz swap (api/endpoints/authz.go), how       *)
(* osmosis/parser.go reads amounts out of the logs, and what the block     *)
(* notification handlers enter for them (api/track_arbitrage.go).          *)
(*                                                                         *)
(* A swap through several pools is logged as one token_swapped event with  *)
(* the attributes of every pool: the first amount in and the last amount   *)
(* out are the swap's.  The code allows for nodes that return fewer logs   *)
(* than messages.                                                          *)
(***************************************************************************)
EXTENDS ZenithBid, FiniteSets

CONSTANT UserFee   \* gas fee of the user's TX

ASSUME AccountingAssumption == UserFee \in Nat

VARIABLES
  service,    \* "zenith" or "authz": nothing is bid for an authz swap
  chainTxs,   \* the TXs as the chain executed them
  logged,     \* how many message logs the node returned for each of them
  books       \* what the set records of them

accounting == <<service, chainTxs, logged, books>>
AccountingVars == <<vars, accounting>>

NoBooks == [swaps |-> <<>>, zenithFees |-> 0, userFees |-> 0, hotFees |-> 0]

AccountingInit ==
  /\ Init
  /\ service \in {"zenith", "authz"}
  /\ service = "authz" => auction = <<>> /\ conf.percent = 0 /\ conf.maxBid = 0
  /\ chainTxs = <<>> /\ logged = <<>>
  /\ books = NoBooks

(***************************************************************************)
(* The TXs and their logs.                                                 *)
(***************************************************************************)
Swap(sender, in, out) == [type |-> "swap", sender |-> sender, in |-> in, out |-> out]
Send(amount) == [type |-> "send", sender |-> "hotWallet", receiver |-> "proposer", amount |-> amount]

\* The hot wallet executes another's swap, by the authz grant.
Exec(swap) == [type |-> "exec", sender |-> "hotWallet", inner |-> swap]

Coin(denom, amount) == [denom |-> denom, amount |-> amount]
Attribute(key, value) == [key |-> key, value |-> value]

\* The pools that a message's swap goes through; the user's goes through one.
Hops(m) == IF m.sender = "user" THEN 1 ELSE sim.routes

\* The coins before the first pool, between two pools, and after the last.
\* An arbitrage ends in the denomination it started with.
CoinAt(m, j) ==
  CASE j = 0       -> Coin(IF m.sender = "user" THEN "other" ELSE "base", m.in)
    [] j = Hops(m) -> Coin("base", m.out)
    [] OTHER       -> Coin("other", 10 * m.in + j)

\* Three of them for every pool.
SwapAttributes(m) ==
  [a \in 1..(3 * Hops(m)) |->
    LET pool == (a + 2) \div 3
    IN  CASE a % 3 = 1 -> Attribute("sender", m.sender)
          [] a % 3 = 2 -> Attribute("tokens_in", CoinAt(m, pool - 1))
          [] OTHER     -> Attribute("tokens_out", CoinAt(m, pool))]

\* The swap that a message other than a send makes.
SwapOf(m) == IF m.type = "exec" THEN m.inner ELSE m

Action(m) == [type |-> "message", attributes |-> <<Attribute("action", m.type)>>]
TokenSwapped(m) == [type |-> "token_swapped", attributes |-> SwapAttributes(SwapOf(m))]

Events(m) == IF m.type = "send" THEN <<Action(m)>> ELSE <<Action(m), TokenSwapped(m)>>

\* The answer to GetTx when the node has the logs of the first n messages.
Logs(tx, n) == [i \in 1..n |-> [index |-> i, events |-> Events(tx.msgs[i])]]

(***************************************************************************)
(* The parser.  What may be missing is a set of at most one element.       *)
(***************************************************************************)
First(s, Test(_)) ==
  {s[i] : i \in {i \in DOMAIN s : Test(s[i]) /\ \A j \in 1..(i - 1) : ~Test(s[j])}}

Final(s, Test(_)) ==
  {s[i] : i \in {i \in DOMAIN s : Test(s[i]) /\ \A j \in (i + 1)..Len(s) : ~Test(s[j])}}

GetMessageLogForIndex(logs, index) == First(logs, LAMBDA l : l.index = index)

GetEventWithType(type, log) == UNION {First(l.events, LAMBDA e : e.type = type) : l \in log}

GetValueForAttribute(key, event) ==
  {a.value : a \in UNION {First(e.attributes, LAMBDA a : a.key = key) : e \in event}}

\* Mutant: the first amount out, which is that of the first pool.
FirstValueForAttribute(key, event) == GetValueForAttribute(key, event)

GetLastValueForAttribute(key, event) ==
  {a.value : a \in UNION {Final(e.attributes, LAMBDA a : a.key = key) : e \in event}}

IsMessageActionEquals(type, log) ==
  \E e \in GetEventWithType("message", log) : \E i \in DOMAIN e.attributes :
    e.attributes[i] = Attribute("action", type)

\* The swap, if the log tells it; the action is that of the outer message.
ParseMsgSwapExactAmountIn(swap, type, log) ==
  LET event == GetEventWithType("token_swapped", log)
  IN  {[address |-> swap.sender, tokenIn |-> in, tokenOut |-> out] :
         in \in IF IsMessageActionEquals(type, log) /\ GetValueForAttribute("sender", event) # {}
                THEN GetValueForAttribute("tokens_in", event) ELSE {},
         out \in GetLastValueForAttribute("tokens_out", event)}

Parsed(tx) == [ok |-> TRUE, swaps |-> <<>>, sends |-> <<>>, payer |-> tx.payer, fee |-> tx.fee]

\* Mutant: a message that cannot be parsed is left out.
SkipMessage(p) == p

GiveUp(p) == [p EXCEPT !.ok = FALSE]

ParseMessage(p, m, log) ==
  IF ~p.ok THEN p
  ELSE IF m.type = "send" THEN [p EXCEPT !.sends = Append(@, m)]
  ELSE LET swaps == ParseMsgSwapExactAmountIn(SwapOf(m), m.type, log)
       IN  IF swaps = {} THEN GiveUp(p)
           ELSE [p EXCEPT !.swaps = Append(@, CHOOSE swap \in swaps : TRUE)]

\* What was parsed after the first i messages, for every i.
MessagesParsed(tx, logs) ==
  LET parsed[i \in 0..Len(tx.msgs)] ==
        IF i = 0 THEN Parsed(tx)
        ELSE ParseMessage(parsed[i - 1], tx.msgs[i], GetMessageLogForIndex(logs, i))
  IN  parsed

\* A failed TX has neither payer nor fees.
ParseRedpointSwaps(tx, n) ==
  IF tx.code # 0 THEN [Parsed(tx) EXCEPT !.ok = FALSE, !.payer = "nobody", !.fee = 0]
  ELSE MessagesParsed(tx, Logs(tx, n))[Len(tx.msgs)]

(***************************************************************************)
(* Execution: each TX succeeds as a whole or fails as a whole; the gain    *)
(* falls on message k of the arbitrage, the first or the last.             *)
(***************************************************************************)
UserSwap == Swap("user", 5, 4)
Gainers == DOMAIN arbSwaps \cap {1, Len(arbSwaps)}

UserTx(code) == [payer |-> "user", fee |-> UserFee, code |-> code, msgs |-> <<UserSwap>>]

HotWalletTx(gas, code, msgs) ==
  [payer |-> "hotWallet", fee |-> gas \div 200, code |-> code, msgs |-> msgs]

ArbMsgs(k, gain) ==
  [i \in DOMAIN arbSwaps |->
     Swap("hotWallet", arbSwaps[i], arbSwaps[i] + IF i = k THEN gain ELSE 0)]

PaymentMsgs == [i \in DOMAIN payments |-> Send(payments[i])]

ArbTx(code, k, gain) == HotWalletTx(EstimateArbGas, code, ArbMsgs(k, gain) \o PaymentMsgs)

ExecuteBid ==
  /\ chainTxs = <<>>
  /\ Execute
  /\ \E code \in {0, 1}, k \in Gainers :
       chainTxs' = <<UserTx(code), ArbTx(0, k, result' - Total(arbSwaps))>>
  /\ UNCHANGED <<service, logged, books>>

\* The arbitrage is gone: a message would return less than it put in.
ArbFails ==
  /\ pc = "bid" /\ Payable /\ chainTxs = <<>>
  /\ UNCHANGED vars
  /\ \E code \in {0, 1} : chainTxs' = <<UserTx(code), ArbTx(1, 0, 0)>>
  /\ UNCHANGED <<service, logged, books>>

(***************************************************************************)
(* An authz swap: buildSwaps neither weighs fees nor asks whether the      *)
(* messages cover the swap, and counts the routes of the gas once.         *)
(***************************************************************************)
StartAuthz ==
  /\ pc = "new"
  /\ pc' = "split" /\ remaining' = (IF sim.routes = 0 THEN 0 ELSE sim.in)
  /\ UNCHANGED <<input, arbSwaps, payments, result>>

\* A request with arbitrage but without routes for it.
RefuseAuthz == pc = "new" /\ sim.routes = 0 /\ Refuse

BuildSwaps == StartAuthz \/ RefuseAuthz \/ SplitOff \/ EndSplit

getGasFee(routes) == 200000 * routes
AuthzGas == getGasFee(1) + getGasFee(sim.routes)

AuthzTx(code, k, gain) ==
  HotWalletTx(AuthzGas, code, <<Exec(UserSwap)>> \o ArbMsgs(k, gain))

\* A node takes no message that swaps nothing.
AuthzLands ==
  /\ pc = "fees" /\ \A i \in DOMAIN arbSwaps : arbSwaps[i] > 0
  /\ pc' = "landed"
  /\ \E code \in {0, 1}, k \in Gainers \cup {0}, gain \in {0, Revenue} :
       /\ gain > 0 => code = 0 /\ k > 0
       /\ gain >= 0
       /\ result' = Total(arbSwaps) + gain
       /\ chainTxs' = <<AuthzTx(code, k, gain)>>
  /\ UNCHANGED <<input, remaining, arbSwaps, payments, service, logged, books>>

(***************************************************************************)
(* The books of the set.                                                   *)
(***************************************************************************)
IsArbitrageSwap(swap) ==
  swap.address = "hotWallet" /\ swap.tokenIn.denom = swap.tokenOut.denom

toSubmittedTx(p) == IF p.ok THEN p.swaps ELSE <<>>

IsZenithFee(send) == send.sender = "hotWallet" /\ send.receiver # "user"

\* The payments of a TX that was parsed to its end.
ZenithFees(p) ==
  IF ~p.ok THEN 0
  ELSE LET sends == p.sends
       IN  Total([i \in DOMAIN sends |-> IF IsZenithFee(sends[i]) THEN sends[i].amount ELSE 0])

Enter(b, p) ==
  [swaps      |-> b.swaps \o toSubmittedTx(p),
   zenithFees |-> b.zenithFees + ZenithFees(p),
   userFees   |-> b.userFees + IF p.payer = "user" THEN p.fee ELSE 0,
   hotFees    |-> b.hotFees + IF p.payer = "hotWallet" THEN p.fee ELSE 0]

\* The next of the TXs that were found, with all its logs or some.
Book ==
  /\ Len(logged) < Len(chainTxs)
  /\ LET tx == chainTxs[Len(logged) + 1]
     IN  \E n \in 0..Len(tx.msgs) :
           /\ logged' = Append(logged, n)
           /\ books' = Enter(books, ParseRedpointSwaps(tx, n))
  /\ UNCHANGED <<vars, service, chainTxs>>

Zenith == service = "zenith" /\ ((Bidding /\ UNCHANGED accounting) \/ ExecuteBid \/ ArbFails)
SwapAuthz == service = "authz" /\ ((BuildSwaps /\ UNCHANGED accounting) \/ AuthzLands)

AccountingNext == Zenith \/ SwapAuthz \/ Book

AccountingSpec == AccountingInit /\ [][AccountingNext]_AccountingVars

(***************************************************************************)
(* Properties.                                                             *)
(***************************************************************************)
UserSwaps == {i \in DOMAIN books.swaps : books.swaps[i].address = "user"}
ArbSwaps == {i \in DOMAIN books.swaps : IsArbitrageSwap(books.swaps[i])}

Profit ==
  LET swaps == books.swaps
  IN  Total([i \in DOMAIN swaps |->
        IF IsArbitrageSwap(swaps[i])
        THEN swaps[i].tokenOut.amount - swaps[i].tokenIn.amount ELSE 0])

Booked == chainTxs # <<>> /\ Len(logged) = Len(chainTxs)
AllLogged(i) == chainTxs[i].code = 0 /\ logged[i] = Len(chainTxs[i].msgs)

\* The arbitrage TX, or the one TX of an authz swap.
HotWalletsTx == chainTxs[Len(chainTxs)]

\* When the node returns the logs of every message, the books say what the
\* chain did, whatever the pools between and the number of messages: the
\* user's swap is recorded once, also one that the hot wallet executed for
\* the user, the profit of the recorded arbitrage is the arbitrage's and the
\* Zenith fees are the payments (parser.go:179, :220, :228).  Each wallet's
\* fees are its own for every TX that succeeded, whatever logs are left out.
BooksMatchChain ==
  Booked =>
    /\ AllLogged(1) =>
         \E i \in UserSwaps :
           /\ UserSwaps = {i}
           /\ books.swaps[i] = [address |-> "user", tokenIn |-> Coin("other", UserSwap.in),
                                tokenOut |-> Coin("base", UserSwap.out)]
    /\ AllLogged(Len(chainTxs)) =>
         Profit = result - Total(arbSwaps) /\ books.zenithFees = Total(payments)
    /\ chainTxs[1].code = 0 => books.userFees = IF service = "zenith" THEN UserFee ELSE 0
    /\ HotWalletsTx.code = 0 => books.hotFees = HotWalletsTx.fee

\* Whatever logs a node leaves out, the payments and the swaps of the
\* arbitrage TX are in the books together or not at all, and every swap of
\* them if any, so that the profit is the whole one or none: the parser gives
\* a TX up at the first message it cannot read (parser.go:146,
\* track_arbitrage.go:526).
AllOrNothing ==
  Booked =>
    \/ /\ Cardinality(ArbSwaps) = Len(arbSwaps) /\ books.zenithFees = Total(payments)
       /\ Profit = result - Total(arbSwaps)
    \/ ArbSwaps = {} /\ books.zenithFees = 0 /\ Profit = 0

\* "TX fees are taken whether or not the TX succeeded"
\* (track_arbitrage.go:337, :514): the hot wallet's are in the books even if
\* its TX failed.
FailedTxFeesBooked == Booked => books.hotFees = HotWalletsTx.fee

\* An authz swap is signed for the gas that its messages need by the estimate
\* that bids are signed with (client.go:189, authz.go:167).
AuthzGasCoversMessages ==
  (service = "authz" /\ pc \in {"fees", "landed"}) =>
    getGasFee(sim.routes) >= GetGasFee(sim.routes * Len(arbSwaps))
=============================================================================
