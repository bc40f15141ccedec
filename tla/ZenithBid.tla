------------------------------ MODULE ZenithBid -----------------------------
(***************************************************************************)
(* One bid for one auction: is the arbitrage worth it (IsZenithEligible,   *)
(* EstimateArbFees), the split of the swap into messages the hot wallet    *)
(* can fund (BuildArbitrageSwap, EstimateArbGas, osmosis/builder.go), and  *)
(* the payments to the proposer (GetZenithBid, zenith/bid.go).             *)
(*                                                                         *)
(* Amounts are integers of the one denomination; a percentage is a whole   *)
(* number of hundredths, so that amounts times percentages are exact, as   *)
(* the code's decimals are.  An auction's allocations, which the code      *)
(* takes as they come, are hundredths too and none is negative: what       *)
(* Zenith may send beyond that is not modelled.                            *)
(***************************************************************************)
EXTENDS Integers, Sequences

CONSTANTS
  AmountsIn,      \* arbitrage amounts that simulations propose
  AmountsOut,     \* and what they expect to get
  RouteLengths,   \* pools per arbitrage route
  Wallets,        \* HotWalletArbBalance, read once at start
  BidPercents,    \* the configured share of the revenue to bid
  MaxBids,        \* the configured MaximumBidAmount
  Auctions,       \* sequences of the allocations an auction asks for
  MaxMsgs         \* messages per TX (25 in the code)

ASSUME BidAssumption ==
  /\ AmountsIn \cup AmountsOut \cup RouteLengths \cup Wallets \cup BidPercents \cup MaxBids
       \subseteq Nat
  /\ Auctions \subseteq Seq(Nat)
  /\ MaxMsgs \in Nat \ {0}

VARIABLES
  conf,        \* the hot wallet's balance and the configuration
  sim,         \* the simulated arbitrage of the request
  auction,     \* the allocations
  pc,          \* "new", "split", "fees", "match", "pay", "sign", "bid", "executed" or "refused"
  remaining,   \* amountRemaining of BuildArbitrageSwap
  arbSwaps,    \* the amounts of its messages, in and at least out
  payments,    \* the MsgSends to the proposer
  result       \* what the arbitrage swap returned once executed

input == <<conf, sim, auction>>
vars == <<conf, sim, auction, pc, remaining, arbSwaps, payments, result>>

Init ==
  /\ conf \in [wallet : Wallets, percent : BidPercents, maxBid : MaxBids]
  /\ sim \in [in : AmountsIn, out : AmountsOut, routes : RouteLengths]
  /\ auction \in Auctions
  /\ pc = "new"
  /\ remaining = 0 /\ arbSwaps = <<>> /\ payments = <<>> /\ result = 0

(***************************************************************************)
(* Amounts.                                                                *)
(***************************************************************************)
AtMost(a, b) == IF a > b THEN b ELSE a

Revenue == sim.out - sim.in

\* zenithFee is a decimal: here in hundredths.
ZenithFeeCents == AtMost(Revenue * conf.percent, conf.maxBid * 100)
ZenithFee == ZenithFeeCents \div 100

\* Mutant: a default for the routes that the table does not know.
GetGasFeeDefault(n) == IF n \in {2, 3} THEN 275000 ELSE 410000

GetGasFee(n) == IF n \in {2, 3} THEN 275000 ELSE IF n \in {4, 5} THEN 410000 ELSE 0

\* How often EstimateArbGas goes round its loop: until the amount is spent,
\* or 25 times, which is also what a wallet without funds leads to.
EstimatedMsgs ==
  IF sim.in = 0 THEN 0
  ELSE IF conf.wallet = 0 THEN MaxMsgs
  ELSE AtMost((sim.in + conf.wallet - 1) \div conf.wallet, MaxMsgs)

EstimateArbGas == GetGasFee(sim.routes * EstimatedMsgs)

TotalFees == EstimateArbGas \div 200 + ZenithFee

\* The fees of a swap worth a bid, -1 for the others.  GET /status shows them.
EstimateArbFees ==
  IF Revenue <= 0 \/ ZenithFeeCents <= 0 \/ sim.routes = 0 \/ EstimateArbGas = 0
  THEN -1 ELSE TotalFees

(***************************************************************************)
(* IsZenithEligible.                                                       *)
(***************************************************************************)
Refuse ==
  /\ pc' = "refused"
  /\ UNCHANGED <<input, remaining, arbSwaps, payments, result>>

NotProfitable == pc = "new" /\ Revenue <= 0 /\ Refuse

NoFee == pc = "new" /\ Revenue > 0 /\ ZenithFeeCents <= 0 /\ Refuse

BadRoutes ==
  /\ pc = "new" /\ Revenue > 0 /\ ZenithFeeCents > 0
  /\ sim.routes = 0 \/ EstimateArbGas = 0
  /\ Refuse

StartSplit ==
  /\ pc = "new" /\ EstimateArbFees # -1
  /\ pc' = "split" /\ remaining' = sim.in
  /\ UNCHANGED <<input, arbSwaps, payments, result>>

\* Mutant: the wallet's balance is not looked at.
WholeAmount == remaining

MessageAmount == AtMost(remaining, conf.wallet)

\* One round of BuildArbitrageSwap's loop.
SplitOff ==
  /\ pc = "split" /\ remaining > 0 /\ Len(arbSwaps) < MaxMsgs
  /\ arbSwaps' = Append(arbSwaps, MessageAmount)
  /\ remaining' = remaining - MessageAmount
  /\ UNCHANGED <<input, pc, payments, result>>

EndSplit ==
  /\ pc = "split" /\ (remaining = 0 \/ Len(arbSwaps) = MaxMsgs)
  /\ pc' = "fees"
  /\ UNCHANGED <<input, remaining, arbSwaps, payments, result>>

FeesExceed == sim.in + TotalFees > sim.out

TooExpensive == pc = "fees" /\ FeesExceed /\ Refuse

Eligible ==
  /\ pc = "fees" /\ ~FeesExceed
  /\ pc' = "match"
  /\ UNCHANGED <<input, remaining, arbSwaps, payments, result>>

(***************************************************************************)
(* GetZenithBid.                                                           *)
(***************************************************************************)
\* The user's TX swaps what was simulated, within half a percent, or not.
MatchUserTx ==
  /\ pc = "match"
  /\ \/ pc' = "pay" /\ UNCHANGED <<input, remaining, arbSwaps, payments, result>>
     \/ Refuse

\* Mutant: every payment is rounded up.
PaymentRoundedUp(allocation) == (ZenithFee * allocation + 99) \div 100

\* The payment is the truncated share of the truncated fee.
Payment(allocation) == (ZenithFee * allocation) \div 100

PayNext ==
  /\ pc = "pay" /\ Len(payments) < Len(auction)
  /\ payments' = Append(payments, Payment(auction[Len(payments) + 1]))
  /\ UNCHANGED <<input, pc, remaining, arbSwaps, result>>

\* The next payment is asked for in another denomination.
WrongDenom == pc = "pay" /\ Len(payments) < Len(auction) /\ Refuse

\* The sums of the first i elements of s, for every i.
PartialSums(s) ==
  LET sum[i \in 0..Len(s)] == IF i = 0 THEN 0 ELSE sum[i - 1] + s[i] IN sum

Total(s) == PartialSums(s)[Len(s)]

\* The allocations are floats: with three or more of them the sum may be off
\* by a rounding error.
BadAllocations ==
  /\ pc = "pay" /\ Len(payments) = Len(auction)
  /\ Total(auction) # 100 \/ Len(auction) > 2
  /\ Refuse

GoodAllocations ==
  /\ pc = "pay" /\ Len(payments) = Len(auction) /\ Total(auction) = 100
  /\ pc' = "sign"
  /\ UNCHANGED <<input, remaining, arbSwaps, payments, result>>

Sign ==
  /\ pc = "sign"
  /\ \/ pc' = "bid" /\ UNCHANGED <<input, remaining, arbSwaps, payments, result>>
     \/ Refuse

(***************************************************************************)
(* The chain: the arbitrage TX succeeds only if every message returns at   *)
(* least what it put in; the market may have moved since the simulation.   *)
(* A MsgSend of nothing makes the whole TX invalid.                        *)
(***************************************************************************)
Payable == \A i \in DOMAIN payments : payments[i] > 0

Execute ==
  /\ pc = "bid" /\ Payable
  /\ \E out \in {sim.in, sim.out} :
       /\ out >= Total(arbSwaps)
       /\ result' = out
  /\ pc' = "executed"
  /\ UNCHANGED <<input, remaining, arbSwaps, payments>>

Bidding ==
  \/ NotProfitable \/ NoFee \/ BadRoutes \/ StartSplit \/ SplitOff \/ EndSplit
  \/ TooExpensive \/ Eligible \/ MatchUserTx \/ PayNext \/ WrongDenom \/ BadAllocations
  \/ GoodAllocations \/ Sign

Next == Bidding \/ Execute

Spec == Init /\ [][Next]_vars

(***************************************************************************)
(* Properties.                                                             *)
(***************************************************************************)
IsBid == pc \in {"bid", "executed"}

\* A bid's messages put in the whole simulated amount, each of them no more
\* than the hot wallet holds and none of them nothing (builder.go:54): the
\* cap of 25 messages never leaves a part of the swap out.
MessagesCoverTheSwap ==
  IsBid =>
    /\ Total(arbSwaps) = sim.in
    /\ \A i \in DOMAIN arbSwaps : arbSwaps[i] \in 1..conf.wallet

\* The gas that is signed for was estimated for as many swaps as the TX has: the
\* estimate's loop and the builder's loop agree (builder.go:54, :86).  The
\* payments come on top: nothing is estimated for their messages.
GasCoversMessages == IsBid => EstimateArbGas = GetGasFee(sim.routes * Len(arbSwaps))

\* The hot wallet pays the proposer no more than the configured maximum, nor
\* more than it weighed against the revenue (bid.go:66, :219).
PaymentsWithinBid ==
  IsBid => Total(payments) <= ZenithFee /\ ZenithFee <= conf.maxBid

\* "only submitting bids in a way that guarantees profits (e.g. arb profits >
\* bid amount)" (bid.go:169): an executed bid returns what it put in, the
\* gas and the payments.
ProfitIsGuaranteed ==
  pc = "executed" => result >= sim.in + EstimateArbGas \div 200 + Total(payments)

\* "submitting bids in a way that guarantees profits" (bid.go:169): a bid
\* that is placed can be executed, none of its payments was truncated to
\* nothing (bid.go:228).
PlacedIsPayable == IsBid => Payable
=============================================================================
