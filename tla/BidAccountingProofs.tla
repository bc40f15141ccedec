------------------------- MODULE BidAccountingProofs ------------------------
(***************************************************************************)
(* What holds of every bid that is placed, for any amounts, wallet,        *)
(* configuration and auction, and for any number of messages per TX above  *)
(* five (25 in the code).                                                  *)
(***************************************************************************)
EXTENDS BidAccounting, SequenceTheorems, FiniteSetTheorems, WellFoundedInduction, TLAPS

\* Induction over the natural numbers, for a set: what holds is the set of
\* the numbers it holds for.
LEMMA EveryNat ==
  ASSUME NEW T, 0 \in T, \A n \in Nat : n \in T => n + 1 \in T
  PROVE  \A n \in Nat : n \in T
<1> SUFFICES ASSUME Nat \ T # {} PROVE FALSE
  OBVIOUS
<1>1. PICK x \in Nat \ T : \A y \in Nat \ T : ~(<<y, x>> \in OpToRel(<, Nat))
  BY NatLessThanWellFounded, WFMin, Zenon
<1>2. x # 0 /\ x - 1 \in Nat
  OBVIOUS
<1>3. x - 1 \in Nat \ T
  BY <1>2
<1>4. <<x - 1, x>> \in OpToRel(<, Nat)
  BY <1>2 DEF OpToRel
<1> QED
  BY <1>1, <1>3, <1>4

(***************************************************************************)
(* Sums.                                                                   *)
(***************************************************************************)
\* p holds the sums of the first i elements of s, up to i = n.
IsSums(p, s, n) == p = [i \in 0..n |-> IF i = 0 THEN 0 ELSE p[i - 1] + s[i]]

LEMMA SumsExist == ASSUME NEW s PROVE \A n \in Nat : \E p : IsSums(p, s, n)
<1> DEFINE T == {n \in Nat : \E p : IsSums(p, s, n)}
<1>1. 0 \in T
  <2> DEFINE p == [i \in 0..0 |-> 0]
  <2>1. IsSums(p, s, 0)
    BY DEF IsSums
  <2> QED
    BY <2>1
<1>2. ASSUME NEW n \in Nat, n \in T PROVE n + 1 \in T
  <2>1. PICK p : IsSums(p, s, n)
    BY <1>2
  <2> DEFINE q == [i \in 0..(n + 1) |-> IF i = 0 THEN 0 ELSE p[i - 1] + s[i]]
  <2>2. \A i \in 0..n : q[i] = p[i]
    BY <2>1 DEF IsSums
  <2>3. \A i \in 1..(n + 1) : i - 1 \in 0..n
    OBVIOUS
  <2>4. ASSUME NEW i \in 0..(n + 1) PROVE q[i] = IF i = 0 THEN 0 ELSE q[i - 1] + s[i]
    <3>1. CASE i = 0
      BY <3>1
    <3>2. CASE i # 0
      <4>1. i \in 1..(n + 1)
        BY <3>2
      <4>2. q[i - 1] = p[i - 1]
        BY <2>2, <2>3, <4>1
      <4> QED
        BY <3>2, <4>2
    <3> QED
      BY <3>1, <3>2
  <2>5. q = [i \in 0..(n + 1) |-> q[i]]
    OBVIOUS
  <2> HIDE DEF q
  <2>6. IsSums(q, s, n + 1)
    BY <2>4, <2>5 DEF IsSums
  <2> QED
    BY <2>6
<1> HIDE DEF T
<1>3. \A n \in Nat : n \in T
  BY <1>1, <1>2, EveryNat
<1> QED
  BY <1>3 DEF T

\* The sums are what their definition says.
LEMMA SumsStep ==
  ASSUME NEW s, Len(s) \in Nat
  PROVE  /\ PartialSums(s)[0] = 0
         /\ \A i \in 1..Len(s) : PartialSums(s)[i] = PartialSums(s)[i - 1] + s[i]
<1>1. \E p : IsSums(p, s, Len(s))
  BY SumsExist
<1>2. PartialSums(s) = CHOOSE p : IsSums(p, s, Len(s))
  BY DEF PartialSums, IsSums
<1>3. IsSums(PartialSums(s), s, Len(s))
  BY <1>1, <1>2
<1> QED
  BY <1>3 DEF IsSums

\* Sequences that begin alike have the same first sums.
LEMMA SumsAgree ==
  ASSUME NEW s, NEW t, Len(s) \in Nat, Len(t) \in Nat, Len(s) <= Len(t),
         \A i \in 1..Len(s) : s[i] = t[i]
  PROVE  \A n \in 0..Len(s) : PartialSums(s)[n] = PartialSums(t)[n]
<1> DEFINE T == {n \in Nat : n <= Len(s) => PartialSums(s)[n] = PartialSums(t)[n]}
<1>1. 0 \in T
  BY SumsStep
<1>2. ASSUME NEW n \in Nat, n \in T PROVE n + 1 \in T
  <2> SUFFICES ASSUME n + 1 <= Len(s) PROVE PartialSums(s)[n + 1] = PartialSums(t)[n + 1]
    OBVIOUS
  <2>1. n + 1 \in 1..Len(s) /\ n + 1 \in 1..Len(t) /\ (n + 1) - 1 = n
    OBVIOUS
  <2>2. PartialSums(s)[n] = PartialSums(t)[n]
    BY <1>2
  <2>3. /\ PartialSums(s)[n + 1] = PartialSums(s)[n] + s[n + 1]
        /\ PartialSums(t)[n + 1] = PartialSums(t)[n] + t[n + 1]
    BY <2>1, SumsStep
  <2> QED
    BY <2>1, <2>2, <2>3
<1> HIDE DEF T
<1>3. \A n \in Nat : n \in T
  BY <1>1, <1>2, EveryNat
<1> QED
  BY <1>3 DEF T

LEMMA SumsAreNat ==
  ASSUME NEW s \in Seq(Nat)
  PROVE  \A n \in 0..Len(s) : PartialSums(s)[n] \in Nat
<1> DEFINE T == {n \in Nat : n <= Len(s) => PartialSums(s)[n] \in Nat}
<1>1. 0 \in T
  BY SumsStep
<1>2. ASSUME NEW n \in Nat, n \in T PROVE n + 1 \in T
  <2> SUFFICES ASSUME n + 1 <= Len(s) PROVE PartialSums(s)[n + 1] \in Nat
    OBVIOUS
  <2>1. n + 1 \in 1..Len(s) /\ (n + 1) - 1 = n /\ s[n + 1] \in Nat
    OBVIOUS
  <2>2. PartialSums(s)[n] \in Nat
    BY <1>2
  <2>3. PartialSums(s)[n + 1] = PartialSums(s)[n] + s[n + 1]
    BY <2>1, SumsStep
  <2> QED
    BY <2>1, <2>2, <2>3
<1> HIDE DEF T
<1>3. \A n \in Nat : n \in T
  BY <1>1, <1>2, EveryNat
<1> QED
  BY <1>3 DEF T

\* A sum is a number, that of no elements is zero, and a further element is
\* added to it.
LEMMA TotalIsNat == ASSUME NEW s \in Seq(Nat) PROVE Total(s) \in Nat
  BY SumsAreNat DEF Total

LEMMA TotalOfNone == Total(<<>>) = 0
<1>1. Len(<<>>) = 0
  OBVIOUS
<1> QED
  BY <1>1, SumsStep DEF Total

LEMMA TotalAppend ==
  ASSUME NEW s \in Seq(Nat), NEW x \in Nat
  PROVE  Total(Append(s, x)) = Total(s) + x
<1> DEFINE t == Append(s, x)
<1>1. /\ Len(t) = Len(s) + 1 /\ Len(s) \in Nat /\ t[Len(s) + 1] = x
      /\ \A i \in 1..Len(s) : s[i] = t[i]
  OBVIOUS
<1> HIDE DEF t
<1>2. Len(t) \in 1..Len(t) /\ Len(t) - 1 = Len(s) /\ Len(s) \in 0..Len(s)
  BY <1>1
<1>3. PartialSums(t)[Len(t)] = PartialSums(t)[Len(s)] + t[Len(t)]
  BY <1>1, <1>2, SumsStep
<1>4. PartialSums(s)[Len(s)] = PartialSums(t)[Len(s)]
  BY <1>1, <1>2, SumsAgree
<1>5. Total(t) = Total(s) + x
  BY <1>1, <1>3, <1>4 DEF Total
<1> QED
  BY <1>5 DEF t

\* The sum of elements that are all zero, but for element k if k > 0.
LEMMA TotalOfOne ==
  ASSUME NEW s, Len(s) \in Nat, NEW k \in 0..Len(s), NEW x \in Int,
         \A i \in 1..Len(s) : s[i] = IF i = k THEN x ELSE 0
  PROVE  Total(s) = IF k = 0 THEN 0 ELSE x
<1> DEFINE T == {n \in Nat : n <= Len(s) =>
                   PartialSums(s)[n] = IF k # 0 /\ k <= n THEN x ELSE 0}
<1>1. 0 \in T
  BY SumsStep
<1>2. ASSUME NEW n \in Nat, n \in T PROVE n + 1 \in T
  <2> SUFFICES ASSUME n + 1 <= Len(s)
               PROVE  PartialSums(s)[n + 1] = IF k # 0 /\ k <= n + 1 THEN x ELSE 0
    OBVIOUS
  <2>1. n + 1 \in 1..Len(s) /\ (n + 1) - 1 = n
    OBVIOUS
  <2>2. PartialSums(s)[n] = IF k # 0 /\ k <= n THEN x ELSE 0
    BY <1>2
  <2>3. PartialSums(s)[n + 1] = PartialSums(s)[n] + IF n + 1 = k THEN x ELSE 0
    BY <2>1, SumsStep
  <2> QED
    BY <2>1, <2>2, <2>3
<1> HIDE DEF T
<1>3. \A n \in Nat : n \in T
  BY <1>1, <1>2, EveryNat
<1> QED
  BY <1>3 DEF T, Total

\* Truncated shares of an amount add up to at most the share of the sum.
LEMMA SharesAreBounded ==
  ASSUME NEW s \in Seq(Nat), NEW t \in Seq(Nat), Len(s) = Len(t), NEW amount \in Nat,
         \A i \in 1..Len(s) : s[i] = (amount * t[i]) \div 100
  PROVE  100 * Total(s) <= amount * Total(t)
<1> DEFINE T == {n \in Nat :
                   n <= Len(s) => 100 * PartialSums(s)[n] <= amount * PartialSums(t)[n]}
<1>1. 0 \in T
  BY SumsStep
<1>2. ASSUME NEW n \in Nat, n \in T PROVE n + 1 \in T
  <2> SUFFICES ASSUME n + 1 <= Len(s)
               PROVE  100 * PartialSums(s)[n + 1] <= amount * PartialSums(t)[n + 1]
    OBVIOUS
  <2>1. /\ n + 1 \in 1..Len(s) /\ (n + 1) - 1 = n /\ n \in 0..Len(s)
        /\ s[n + 1] \in Nat /\ t[n + 1] \in Nat
    OBVIOUS
  <2>2. 100 * PartialSums(s)[n] <= amount * PartialSums(t)[n]
    BY <1>2
  <2>3. PartialSums(s)[n] \in Nat /\ PartialSums(t)[n] \in Nat
    BY <2>1, SumsAreNat
  <2>4. /\ PartialSums(s)[n + 1] = PartialSums(s)[n] + s[n + 1]
        /\ PartialSums(t)[n + 1] = PartialSums(t)[n] + t[n + 1]
    BY <2>1, SumsStep
  <2>5. 100 * s[n + 1] <= amount * t[n + 1]
    <3> DEFINE product == amount * t[n + 1]
    <3>1. s[n + 1] = product \div 100
      BY <2>1
    <3>2. product \in Nat
      <4>1. ASSUME NEW a \in Nat PROVE amount * a \in Nat
        OBVIOUS
      <4> QED
        BY <2>1, <4>1
    <3> HIDE DEF product
    <3>3. 100 * s[n + 1] <= product
      BY <3>1, <3>2
    <3> QED
      BY <3>3 DEF product
  <2>6. ASSUME NEW a \in Nat, NEW b \in Nat, NEW c \in Nat, NEW d \in Nat,
               100 * a <= amount * b, 100 * c <= amount * d
        PROVE  100 * (a + c) <= amount * (b + d)
    <3>1. amount * (b + d) = amount * b + amount * d
      OBVIOUS
    <3>2. amount * b \in Nat /\ amount * d \in Nat
      OBVIOUS
    <3> QED
      BY <2>6, <3>1, <3>2
  <2>7. 100 * (PartialSums(s)[n] + s[n + 1]) <= amount * (PartialSums(t)[n] + t[n + 1])
    BY <2>1, <2>2, <2>3, <2>5, <2>6
  <2> QED
    BY <2>4, <2>7
<1> HIDE DEF T
<1>3. \A n \in Nat : n \in T
  BY <1>1, <1>2, EveryNat
<1> QED
  BY <1>3 DEF T, Total

(***************************************************************************)
(* The invariant of a bid.                                                 *)
(***************************************************************************)
Building == {"split", "fees", "match", "pay", "sign", "bid", "executed"}
Paying == {"pay", "sign", "bid", "executed"}
Paid == {"sign", "bid", "executed"}

InputOK ==
  /\ conf.wallet \in Nat /\ conf.percent \in Nat /\ conf.maxBid \in Nat
  /\ sim.in \in Nat /\ sim.out \in Nat /\ sim.routes \in Nat
  /\ auction \in Seq(Nat)

\* The messages so far, and what is left of the amount: all but the last
\* message take the whole wallet.
SplitFits ==
  /\ arbSwaps \in Seq(Nat) /\ remaining \in Nat
  /\ \A i \in DOMAIN arbSwaps : arbSwaps[i] \in 1..conf.wallet
  /\ Total(arbSwaps) + remaining = sim.in
  /\ remaining > 0 => sim.in = Len(arbSwaps) * conf.wallet + remaining
  /\ remaining = 0 => Len(arbSwaps) = EstimatedMsgs
  /\ pc # "split" => remaining = 0

\* A payment for each allocation so far.
PaymentsFit ==
  /\ payments \in Seq(Nat) /\ Len(payments) <= Len(auction)
  /\ \A i \in DOMAIN payments : payments[i] = Payment(auction[i])
  /\ pc \notin Paying => payments = <<>>
  /\ pc \in Paid => Len(payments) = Len(auction) /\ Total(auction) = 100

BidInv ==
  /\ InputOK
  /\ pc = "new" => arbSwaps = <<>> /\ payments = <<>>
  /\ pc \in Building => EstimateArbFees # -1 /\ SplitFits /\ PaymentsFit

\* What the fees of a swap worth a bid say: the wallet funds the swap in one
\* to five messages, and the share of the revenue is within the maximum.
LEMMA WorthABid ==
  ASSUME InputOK, MaxMsgs > 5, EstimateArbFees # -1
  PROVE  /\ conf.wallet > 0 /\ sim.in > 0
         /\ EstimatedMsgs \in 1..5
         /\ (EstimatedMsgs - 1) * conf.wallet < sim.in
         /\ sim.in <= EstimatedMsgs * conf.wallet
         /\ ZenithFee \in Nat /\ ZenithFee <= conf.maxBid
<1>1. ZenithFeeCents > 0 /\ sim.routes # 0 /\ EstimateArbGas # 0
  <2>1. ZenithFeeCents \in Int
    <3>1. Revenue * conf.percent \in Int
      BY DEF InputOK, Revenue
    <3> QED
      BY <3>1 DEF ZenithFeeCents, AtMost, InputOK
  <2>2. ~(ZenithFeeCents <= 0 \/ sim.routes = 0 \/ EstimateArbGas = 0)
    BY DEF EstimateArbFees
  <2> QED
    BY <2>1, <2>2
<1>2. sim.routes * EstimatedMsgs \in 2..5
  BY <1>1 DEF EstimateArbGas, GetGasFee
<1>3. MaxMsgs \in Nat
  BY BidAssumption
<1> DEFINE q == (sim.in + conf.wallet - 1) \div conf.wallet
<1>4. sim.in # 0
  <2>1. sim.in = 0 => EstimatedMsgs = 0
    BY DEF EstimatedMsgs
  <2> QED
    BY <1>2, <2>1 DEF InputOK
<1>5. ASSUME NEW r \in Nat \ {0}, NEW m \in Nat, r * m \in 2..5 PROVE m \in 1..5
  <2>1. m # 0
    BY <1>5
  <2>2. CASE m > 5
    <3>1. r * m >= m
      <4>1. PICK k \in Nat : r = k + 1
        BY <1>5
      <4>2. r * m = k * m + m /\ k * m \in Nat
        BY <1>5, <4>1
      <4> QED
        BY <4>2
    <3> QED
      BY <1>5, <2>2, <3>1
  <2> QED
    BY <1>5, <2>1, <2>2
<1>6. conf.wallet # 0
  <2> SUFFICES ASSUME conf.wallet = 0 PROVE FALSE
    OBVIOUS
  <2>1. EstimatedMsgs = MaxMsgs
    BY <1>4 DEF EstimatedMsgs
  <2> QED
    BY <1>1, <1>2, <1>3, <1>5, <2>1 DEF InputOK
<1>7. ASSUME NEW a \in Nat \ {0}, NEW w \in Nat \ {0}
      PROVE  LET d == (a + w - 1) \div w
             IN  d \in Nat /\ (d - 1) * w < a /\ a <= d * w
  <2> DEFINE d == (a + w - 1) \div w
             e == (a + w - 1) % w
  <2>1. d \in Int /\ e \in 0..(w - 1) /\ a + w - 1 = w * d + e
    OBVIOUS
  <2> HIDE DEF d, e
  <2>2. w * d = d * w /\ (d - 1) * w = d * w - w
    BY <2>1
  <2>3. (d - 1) * w < a /\ a <= d * w
    BY <2>1, <2>2
  <2>4. d >= 0
    <3> SUFFICES ASSUME d < 0 PROVE FALSE
      BY <2>1
    <3>1. PICK k \in Nat : d = -1 - k
      BY <2>1
    <3>2. d * w = -(w + k * w) /\ k * w \in Nat
      BY <3>1
    <3> QED
      BY <2>3, <3>2
  <2> QED
    BY <2>1, <2>3, <2>4 DEF d
<1>8. q \in Nat /\ (q - 1) * conf.wallet < sim.in /\ sim.in <= q * conf.wallet
  BY <1>4, <1>6, <1>7 DEF InputOK
<1>9. EstimatedMsgs = AtMost(q, MaxMsgs)
  BY <1>4, <1>6 DEF EstimatedMsgs
<1> HIDE DEF q
<1>10. EstimatedMsgs \in 1..5
  BY <1>1, <1>2, <1>3, <1>5, <1>8, <1>9 DEF InputOK, AtMost
<1>11. EstimatedMsgs = q
  BY <1>3, <1>8, <1>9, <1>10 DEF AtMost
<1>12. ZenithFee \in Nat /\ ZenithFee <= conf.maxBid
  <2>1. ZenithFeeCents \in Nat /\ ZenithFeeCents <= conf.maxBid * 100
    <3>1. Revenue * conf.percent \in Int
      BY DEF InputOK, Revenue
    <3> QED
      BY <1>1, <3>1 DEF ZenithFeeCents, AtMost, InputOK
  <2> QED
    BY <2>1 DEF ZenithFee, InputOK
<1> QED
  BY <1>4, <1>6, <1>8, <1>10, <1>11, <1>12 DEF InputOK

\* What is computed of the request, the wallet and the auction stays.
LEMMA InputKept ==
  ASSUME UNCHANGED input
  PROVE  /\ InputOK <=> InputOK'
         /\ EstimateArbFees' = EstimateArbFees /\ EstimatedMsgs' = EstimatedMsgs
         /\ ZenithFee' = ZenithFee /\ sim' = sim /\ conf' = conf /\ auction' = auction
<1>1. sim' = sim /\ conf' = conf /\ auction' = auction
  BY DEF input
<1>2. EstimatedMsgs' = EstimatedMsgs /\ ZenithFeeCents' = ZenithFeeCents /\ Revenue' = Revenue
  BY <1>1 DEF EstimatedMsgs, ZenithFeeCents, Revenue
<1>3. EstimateArbGas' = EstimateArbGas /\ ZenithFee' = ZenithFee
  BY <1>1, <1>2 DEF EstimateArbGas, ZenithFee
<1>4. EstimateArbFees' = EstimateArbFees
  BY <1>1, <1>2, <1>3 DEF EstimateArbFees, TotalFees
<1> QED
  BY <1>1, <1>2, <1>3, <1>4 DEF InputOK

LEMMA BidInit == ASSUME Init PROVE BidInv
<1>1. conf.wallet \in Nat /\ conf.percent \in Nat /\ conf.maxBid \in Nat
  BY BidAssumption DEF Init
<1>2. sim.in \in Nat /\ sim.out \in Nat /\ sim.routes \in Nat
  BY BidAssumption DEF Init
<1>3. auction \in Seq(Nat)
  BY BidAssumption DEF Init
<1> QED
  BY <1>1, <1>2, <1>3 DEF Init, BidInv, InputOK, Building

\* A step that only moves on.
LEMMA MoveOn ==
  ASSUME BidInv, UNCHANGED <<input, remaining, arbSwaps, payments>>, pc \in Building,
         pc' # "new",
         pc' = "split" \/ remaining = 0,
         pc' \in Paying \/ pc \notin Paying,
         pc' \in Paid => Len(payments) = Len(auction) /\ Total(auction) = 100
  PROVE  BidInv'
<1>1. EstimateArbFees # -1 /\ SplitFits /\ PaymentsFit
  BY DEF BidInv
<1>2. EstimateArbFees' # -1 /\ EstimatedMsgs' = EstimatedMsgs /\ ZenithFee' = ZenithFee /\ InputOK'
  BY <1>1, InputKept DEF BidInv
<1>3. SplitFits'
  BY <1>1, <1>2, InputKept DEF SplitFits
<1>4. PaymentsFit'
  BY <1>1, <1>2, InputKept DEF PaymentsFit, Payment, Paying, Paid
<1> QED
  BY <1>2, <1>3, <1>4 DEF BidInv

LEMMA RefuseInv == ASSUME BidInv, Refuse PROVE BidInv'
  BY InputKept DEF BidInv, Refuse, Building

LEMMA StartSplitInv == ASSUME BidInv, MaxMsgs > 5, StartSplit PROVE BidInv'
<1>1. /\ pc = "new" /\ pc' = "split" /\ remaining' = sim.in /\ EstimateArbFees # -1
      /\ UNCHANGED <<input, arbSwaps, payments>>
  BY DEF StartSplit
<1>2. arbSwaps = <<>> /\ payments = <<>> /\ InputOK
  BY <1>1 DEF BidInv
<1>3. EstimateArbFees' # -1 /\ EstimatedMsgs' = EstimatedMsgs /\ InputOK'
      /\ sim' = sim /\ conf' = conf /\ auction' = auction
  BY <1>1, <1>2, InputKept
<1>4. sim.in > 0 /\ sim.in \in Nat /\ conf.wallet \in Nat
  BY <1>1, <1>2, WorthABid DEF InputOK
<1>5. /\ arbSwaps' = <<>> /\ payments' = <<>> /\ Len(<<>>) = 0
      /\ <<>> \in Seq(Nat) /\ DOMAIN <<>> = {}
  BY <1>1, <1>2
<1>6. Total(arbSwaps') = 0
  BY <1>5, TotalOfNone
<1>7. SplitFits'
  BY <1>1, <1>3, <1>4, <1>5, <1>6 DEF SplitFits
<1>8. PaymentsFit'
  BY <1>1, <1>2, <1>3, <1>5 DEF PaymentsFit, InputOK, Paying, Paid
<1> QED
  BY <1>1, <1>3, <1>7, <1>8 DEF BidInv

\* One round of the loop: the wallet is taken whole, or what is left of the
\* amount, which makes the message the last of those estimated.
LEMMA SplitOffInv == ASSUME BidInv, MaxMsgs > 5, SplitOff PROVE BidInv'
<1> DEFINE w == conf.wallet
           n == Len(arbSwaps)
           x == MessageAmount
<1>1. /\ pc = "split" /\ pc' = "split" /\ remaining > 0
      /\ arbSwaps' = Append(arbSwaps, x) /\ remaining' = remaining - x
      /\ UNCHANGED <<input, payments>>
  BY DEF SplitOff
<1>2. InputOK /\ EstimateArbFees # -1 /\ SplitFits /\ PaymentsFit
  BY <1>1 DEF BidInv, Building
<1>3. EstimateArbFees' # -1 /\ EstimatedMsgs' = EstimatedMsgs /\ InputOK'
      /\ sim' = sim /\ conf' = conf /\ auction' = auction /\ ZenithFee' = ZenithFee
  BY <1>1, <1>2, InputKept
<1>4. /\ w \in Nat \ {0} /\ EstimatedMsgs \in 1..5
      /\ (EstimatedMsgs - 1) * w < sim.in /\ sim.in <= EstimatedMsgs * w
  BY <1>2, WorthABid DEF InputOK
<1>5. /\ n \in Nat /\ arbSwaps \in Seq(Nat) /\ remaining \in Nat
      /\ Total(arbSwaps) + remaining = sim.in /\ sim.in = n * w + remaining
  BY <1>1, <1>2 DEF SplitFits
<1>6. x \in 1..w /\ x <= remaining /\ (x = w \/ x = remaining)
  BY <1>1, <1>4, <1>5 DEF MessageAmount, AtMost
<1> HIDE DEF x
<1>7. Total(arbSwaps') + remaining' = sim.in
  <2>1. Total(arbSwaps') = Total(arbSwaps) + x
    BY <1>1, <1>5, <1>6, TotalAppend
  <2> QED
    BY <1>1, <1>5, <1>6, <2>1, TotalIsNat
<1>8. /\ arbSwaps' \in Seq(Nat) /\ Len(arbSwaps') = n + 1 /\ remaining' \in Nat
      /\ \A i \in DOMAIN arbSwaps' : arbSwaps'[i] \in 1..w
  <2>1. /\ arbSwaps' \in Seq(Nat) /\ Len(arbSwaps') = n + 1 /\ remaining' \in Nat
    BY <1>1, <1>5, <1>6
  <2>2. ASSUME NEW i \in 1..(n + 1) PROVE arbSwaps'[i] = IF i = n + 1 THEN x ELSE arbSwaps[i]
    BY <1>1, <1>5
  <2>3. \A i \in 1..n : arbSwaps[i] \in 1..w
    BY <1>2 DEF SplitFits
  <2>4. DOMAIN arbSwaps' = 1..(n + 1)
    BY <2>1
  <2>5. ASSUME NEW i \in 1..(n + 1) PROVE arbSwaps'[i] \in 1..w
    <3>1. CASE i = n + 1
      BY <1>6, <2>2, <3>1
    <3>2. CASE i # n + 1
      <4>1. i \in 1..n
        BY <1>5, <3>2
      <4> QED
        BY <2>2, <2>3, <3>2, <4>1
    <3> QED
      BY <3>1, <3>2
  <2> QED
    BY <2>1, <2>4, <2>5
<1> HIDE DEF w, n
<1>9. (n + 1) * w = n * w + w /\ n * w \in Nat
  BY <1>4, <1>5
<1>10. remaining' > 0 => sim.in = (n + 1) * w + remaining'
  BY <1>1, <1>5, <1>6, <1>9
<1>11. remaining' = 0 => n + 1 = EstimatedMsgs
  <2> SUFFICES ASSUME remaining' = 0 PROVE n + 1 = EstimatedMsgs
    OBVIOUS
  <2>1. n * w < sim.in /\ sim.in <= (n + 1) * w
    BY <1>1, <1>4, <1>5, <1>6, <1>9
  <2>2. ASSUME NEW a \in Nat, NEW b \in Nat, a * w < b * w PROVE a < b
    <3> SUFFICES ASSUME b <= a PROVE FALSE
      OBVIOUS
    <3>1. PICK k \in Nat : a = b + k
      BY <2>2
    <3>2. a * w = b * w + k * w /\ k * w \in Nat /\ b * w \in Nat
      BY <1>4, <3>1
    <3> QED
      BY <2>2, <3>2
  <2> DEFINE e == EstimatedMsgs
  <2>3. e \in Nat /\ e - 1 \in Nat /\ n + 1 \in Nat /\ n \in Nat
    BY <1>4, <1>5
  <2> HIDE DEF e
  <2>4. n * w < e * w /\ (e - 1) * w < (n + 1) * w
    <3>1. ASSUME NEW a \in Nat PROVE a * w \in Nat
      BY <1>4
    <3>2. n * w \in Nat /\ (n + 1) * w \in Nat /\ e * w \in Nat /\ (e - 1) * w \in Nat
      BY <2>3, <3>1
    <3> QED
      BY <1>4, <1>5, <2>1, <3>2 DEF e
  <2>5. n < e /\ e - 1 < n + 1
    BY <2>2, <2>3, <2>4
  <2> QED
    BY <2>3, <2>5 DEF e
<1>12. SplitFits'
  BY <1>1, <1>3, <1>7, <1>8, <1>10, <1>11 DEF SplitFits, w, n
<1>13. PaymentsFit'
  BY <1>1, <1>2, <1>3 DEF PaymentsFit, Payment, Paying, Paid
<1> QED
  BY <1>1, <1>3, <1>12, <1>13 DEF BidInv

\* The cap on the messages is never what ends the loop.
LEMMA EndSplitInv == ASSUME BidInv, MaxMsgs > 5, EndSplit PROVE BidInv'
<1>1. /\ pc = "split" /\ pc' = "fees" /\ (remaining = 0 \/ Len(arbSwaps) = MaxMsgs)
      /\ UNCHANGED <<input, remaining, arbSwaps, payments>>
  BY DEF EndSplit
<1>2. InputOK /\ EstimateArbFees # -1 /\ SplitFits
  BY <1>1 DEF BidInv, Building
<1>3. remaining = 0
  <2> SUFFICES ASSUME remaining > 0, Len(arbSwaps) = MaxMsgs PROVE FALSE
    BY <1>1, <1>2 DEF SplitFits
  <2> DEFINE w == conf.wallet
             n == Len(arbSwaps)
             e == EstimatedMsgs
  <2>1. w \in Nat \ {0} /\ e \in 1..5 /\ sim.in <= e * w /\ n \in Nat /\ n > 5
    BY <1>2, WorthABid, BidAssumption DEF InputOK, SplitFits
  <2>2. sim.in = n * w + remaining /\ remaining \in Nat
    BY <1>2 DEF SplitFits
  <2> HIDE DEF w, n, e
  <2>3. PICK k \in Nat : n = e + k
    BY <2>1
  <2>4. n * w = e * w + k * w /\ k * w \in Nat /\ e * w \in Nat
    BY <2>1, <2>3
  <2> QED
    BY <2>1, <2>2, <2>4
<1> QED
  BY <1>1, <1>3, MoveOn DEF Building, Paying, Paid

LEMMA PayNextInv == ASSUME BidInv, MaxMsgs > 5, PayNext PROVE BidInv'
<1> DEFINE n == Len(payments)
           x == Payment(auction[n + 1])
<1>1. /\ pc = "pay" /\ pc' = "pay" /\ n < Len(auction) /\ payments' = Append(payments, x)
      /\ UNCHANGED <<input, remaining, arbSwaps>>
  BY DEF PayNext
<1>2. InputOK /\ EstimateArbFees # -1 /\ SplitFits /\ PaymentsFit
  BY <1>1 DEF BidInv, Building
<1>3. EstimateArbFees' # -1 /\ EstimatedMsgs' = EstimatedMsgs /\ ZenithFee' = ZenithFee /\ InputOK'
      /\ sim' = sim /\ conf' = conf /\ auction' = auction
  BY <1>1, <1>2, InputKept
<1>4. ZenithFee \in Nat
  BY <1>2, WorthABid
<1>5. n \in Nat /\ payments \in Seq(Nat) /\ auction[n + 1] \in Nat
  <2>1. payments \in Seq(Nat) /\ auction \in Seq(Nat)
    BY <1>2 DEF InputOK, PaymentsFit
  <2>2. n \in Nat /\ Len(auction) \in Nat
    BY <2>1
  <2>3. n + 1 \in 1..Len(auction)
    BY <1>1, <2>2
  <2> QED
    BY <2>1, <2>2, <2>3, ElementOfSeq
<1>6. x \in Nat
  <2>1. ASSUME NEW a \in Nat, NEW b \in Nat PROVE (a * b) \div 100 \in Nat
    <3>1. a * b \in Nat
      OBVIOUS
    <3> DEFINE c == a * b
    <3> HIDE DEF c
    <3>2. c \in Nat => c \div 100 \in Nat
      OBVIOUS
    <3> QED
      BY <3>1, <3>2 DEF c
  <2> QED
    BY <1>4, <1>5, <2>1 DEF Payment
<1> HIDE DEF x
<1>7. payments' \in Seq(Nat) /\ Len(payments') = n + 1
  BY <1>1, <1>5, <1>6
<1>8. ASSUME NEW i \in DOMAIN payments' PROVE payments'[i] = Payment(auction[i])
  <2>1. i \in 1..(n + 1)
    BY <1>7
  <2>2. payments'[i] = IF i = n + 1 THEN x ELSE payments[i]
    BY <1>1, <1>5, <2>1
  <2>3. CASE i = n + 1
    BY <2>2, <2>3 DEF x
  <2>4. CASE i # n + 1
    <3>1. i \in DOMAIN payments
      BY <1>5, <2>1, <2>4
    <3> QED
      BY <1>2, <2>2, <2>4, <3>1 DEF PaymentsFit
  <2> QED
    BY <2>3, <2>4
<1>9. PaymentsFit'
  <2>1. \A i \in DOMAIN payments' : payments'[i] = Payment(auction[i])'
    BY <1>3, <1>8 DEF Payment
  <2>2. n + 1 <= Len(auction)
    BY <1>1, <1>2, <1>5 DEF InputOK
  <2> QED
    BY <1>1, <1>3, <1>7, <2>1, <2>2 DEF PaymentsFit, Paying, Paid
<1>10. SplitFits'
  BY <1>1, <1>2, <1>3 DEF SplitFits
<1> QED
  BY <1>1, <1>3, <1>9, <1>10 DEF BidInv

\* The steps after the split, up to the chain's.
LEMMA LaterInv ==
  ASSUME BidInv,
         TooExpensive \/ Eligible \/ MatchUserTx \/ BadAllocations \/ GoodAllocations \/ Sign
           \/ Execute
  PROVE  BidInv'
<1>1. CASE Refuse
  BY <1>1, RefuseInv
<1>2. ASSUME ~Refuse PROVE BidInv'
  <2>1. /\ UNCHANGED <<input, remaining, arbSwaps, payments>>
        /\ \/ pc = "fees" /\ pc' = "match"
           \/ pc = "match" /\ pc' = "pay"
           \/ pc = "pay" /\ pc' = "sign" /\ Len(payments) = Len(auction) /\ Total(auction) = 100
           \/ pc = "sign" /\ pc' = "bid"
           \/ pc = "bid" /\ pc' = "executed"
    BY <1>2 DEF TooExpensive, Eligible, MatchUserTx, BadAllocations, GoodAllocations, Sign, Execute
  <2>2. pc \in Building /\ remaining = 0
    BY <2>1 DEF BidInv, SplitFits, Building
  <2>3. pc \in Paid => Len(payments) = Len(auction) /\ Total(auction) = 100
    BY <2>2 DEF BidInv, PaymentsFit
  <2> QED
    BY <2>1, <2>2, <2>3, MoveOn DEF Paying, Paid
<1> QED
  BY <1>1, <1>2

LEMMA BiddingInv == ASSUME BidInv, MaxMsgs > 5, Bidding \/ Execute PROVE BidInv'
  BY StartSplitInv, SplitOffInv, EndSplitInv, PayNextInv, LaterInv, RefuseInv
     DEF Bidding, NotProfitable, NoFee, BadRoutes, WrongDenom

\* What the invariant says of a bid that was placed.
LEMMA BidCovers == ASSUME BidInv, MaxMsgs > 5 PROVE MessagesCoverTheSwap
<1> SUFFICES ASSUME IsBid PROVE MessagesCoverTheSwap
  BY DEF MessagesCoverTheSwap
<1>1. SplitFits /\ InputOK /\ remaining = 0
  BY DEF BidInv, IsBid, SplitFits, Building
<1> QED
  BY <1>1, TotalIsNat DEF MessagesCoverTheSwap, SplitFits

LEMMA BidGas == ASSUME BidInv PROVE GasCoversMessages
<1> SUFFICES ASSUME IsBid PROVE EstimateArbGas = GetGasFee(sim.routes * Len(arbSwaps))
  BY DEF GasCoversMessages
<1>1. Len(arbSwaps) = EstimatedMsgs
  BY DEF BidInv, IsBid, SplitFits, Building
<1> QED
  BY <1>1 DEF EstimateArbGas

LEMMA BidPays == ASSUME BidInv, MaxMsgs > 5 PROVE PaymentsWithinBid
<1> SUFFICES ASSUME IsBid PROVE Total(payments) <= ZenithFee /\ ZenithFee <= conf.maxBid
  BY DEF PaymentsWithinBid
<1>1. InputOK /\ EstimateArbFees # -1 /\ PaymentsFit
  BY DEF BidInv, IsBid, Building
<1>2. ZenithFee \in Nat /\ ZenithFee <= conf.maxBid
  BY <1>1, WorthABid
<1>3. /\ payments \in Seq(Nat) /\ auction \in Seq(Nat) /\ Len(payments) = Len(auction)
      /\ Total(auction) = 100
  BY <1>1 DEF PaymentsFit, InputOK, IsBid, Paid
<1>4. \A i \in 1..Len(payments) : payments[i] = (ZenithFee * auction[i]) \div 100
  BY <1>1, <1>3 DEF PaymentsFit, Payment
<1>5. 100 * Total(payments) <= ZenithFee * Total(auction)
  BY <1>2, <1>3, <1>4, SharesAreBounded
<1> QED
  BY <1>2, <1>3, <1>5, TotalIsNat

(***************************************************************************)
(* The parser finds in a full log what the chain put there.                *)
(***************************************************************************)
\* The swap as it is to be read from the log: from the coin before the first
\* pool to that after the last.
SwapTold(s) ==
  [address |-> s.sender, tokenIn |-> CoinAt(s, 0), tokenOut |-> CoinAt(s, Hops(s))]

\* A message's log is found if the node returned it.
LEMMA LogFound ==
  ASSUME NEW tx, NEW n \in Nat, NEW i \in Nat \ {0}
  PROVE  GetMessageLogForIndex(Logs(tx, n), i) =
           IF i <= n THEN {[index |-> i, events |-> Events(tx.msgs[i])]} ELSE {}
<1> DEFINE logs == Logs(tx, n)
<1>1. DOMAIN logs = 1..n
  BY DEF Logs
<1>2. \A j \in 1..n : logs[j] = [index |-> j, events |-> Events(tx.msgs[j])] /\ logs[j].index = j
  BY DEF Logs
<1> HIDE DEF logs
<1>3. GetMessageLogForIndex(logs, i) =
        {logs[j] : j \in {j \in 1..n : logs[j].index = i /\ \A k \in 1..(j - 1) : ~(logs[k].index = i)}}
  BY <1>1 DEF GetMessageLogForIndex, First
<1>4. {j \in 1..n : logs[j].index = i /\ \A k \in 1..(j - 1) : ~(logs[k].index = i)}
        = IF i <= n THEN {i} ELSE {}
  <2>1. ASSUME NEW j \in 1..n PROVE \A k \in 1..(j - 1) : k \in 1..n /\ k # j
    OBVIOUS
  <2>2. ASSUME NEW j \in 1..n
        PROVE  (logs[j].index = i /\ \A k \in 1..(j - 1) : ~(logs[k].index = i)) <=> j = i
    BY <1>2, <2>1
  <2>3. {j \in 1..n : logs[j].index = i /\ \A k \in 1..(j - 1) : ~(logs[k].index = i)}
          = {j \in 1..n : j = i}
    BY <2>2
  <2> QED
    BY <2>3
<1>5. CASE i <= n
  <2>1. i \in 1..n
    BY <1>5
  <2>2. GetMessageLogForIndex(logs, i) = {logs[i]}
    BY <1>3, <1>4, <1>5
  <2> QED
    BY <1>2, <1>5, <2>1, <2>2 DEF logs
<1>6. CASE ~(i <= n)
  BY <1>3, <1>4, <1>6 DEF logs
<1> QED
  BY <1>5, <1>6

\* The two events of a message that swaps.
LEMMA EventsFound ==
  ASSUME NEW m, m.type # "send", NEW i
  PROVE  LET log == {[index |-> i, events |-> Events(m)]}
         IN  /\ GetEventWithType("message", log) = {Action(m)}
             /\ GetEventWithType("token_swapped", log) = {TokenSwapped(m)}
<1> DEFINE s == Events(m)
<1>1. /\ DOMAIN s = {1, 2} /\ s[1] = Action(m) /\ s[2] = TokenSwapped(m)
      /\ s[1].type = "message" /\ s[2].type = "token_swapped"
  BY DEF Events, Action, TokenSwapped
<1> HIDE DEF s
<1>2. ASSUME NEW type, NEW b \in {1, 2},
             {j \in {1, 2} : s[j].type = type /\ \A k \in 1..(j - 1) : ~(s[k].type = type)} = {b}
      PROVE  GetEventWithType(type, {[index |-> i, events |-> s]}) = {s[b]}
  BY <1>1, <1>2 DEF GetEventWithType, First
<1>3. /\ {j \in {1, 2} : s[j].type = "message" /\ \A k \in 1..(j - 1) : ~(s[k].type = "message")} = {1}
      /\ {j \in {1, 2} : s[j].type = "token_swapped" /\ \A k \in 1..(j - 1) : ~(s[k].type = "token_swapped")}
           = {2}
  <2>1. 1..(1 - 1) = {} /\ 1..(2 - 1) = {1}
    OBVIOUS
  <2> QED
    BY <1>1, <2>1
<1>4. /\ GetEventWithType("message", {[index |-> i, events |-> s]}) = {s[1]}
      /\ GetEventWithType("token_swapped", {[index |-> i, events |-> s]}) = {s[2]}
  BY <1>2, <1>3
<1> QED
  BY <1>1, <1>4 DEF s

\* The first amount in and the last amount out are those of the first pool
\* and of the last.
LEMMA AttributesFound ==
  ASSUME NEW m, Hops(SwapOf(m)) \in Nat \ {0}
  PROVE  LET s == SwapOf(m)  event == {TokenSwapped(m)}
         IN  /\ GetValueForAttribute("sender", event) = {s.sender}
             /\ GetValueForAttribute("tokens_in", event) = {CoinAt(s, 0)}
             /\ GetLastValueForAttribute("tokens_out", event) = {CoinAt(s, Hops(s))}
<1> DEFINE s == SwapOf(m)
           h == Hops(s)
           t == SwapAttributes(s)
<1>1. h \in Nat /\ h >= 1
  OBVIOUS
<1>2. DOMAIN t = 1..(3 * h) /\ Len(t) = 3 * h
  BY <1>1 DEF SwapAttributes
<1>3. ASSUME NEW a \in 1..(3 * h)
      PROVE  /\ a % 3 = 1 => t[a] = Attribute("sender", s.sender)
             /\ a % 3 = 2 => t[a] = Attribute("tokens_in", CoinAt(s, (a + 2) \div 3 - 1))
             /\ a % 3 = 0 => t[a] = Attribute("tokens_out", CoinAt(s, (a + 2) \div 3))
  BY <1>1 DEF SwapAttributes
<1> HIDE DEF s, h, t
<1>4. ASSUME NEW a \in 1..(3 * h)
      PROVE  /\ t[a].key = "sender" <=> a % 3 = 1
             /\ t[a].key = "tokens_in" <=> a % 3 = 2
             /\ t[a].key = "tokens_out" <=> a % 3 = 0
  <2> DEFINE in == CoinAt(s, (a + 2) \div 3 - 1)
             out == CoinAt(s, (a + 2) \div 3)
             r == a % 3
  <2>1. /\ r = 1 => t[a] = Attribute("sender", s.sender)
        /\ r = 2 => t[a] = Attribute("tokens_in", in)
        /\ r = 0 => t[a] = Attribute("tokens_out", out)
    BY <1>3
  <2>2. r \in {0, 1, 2}
    BY <1>1
  <2> HIDE DEF in, out, r
  <2>3. t[a].key = IF r = 1 THEN "sender" ELSE IF r = 2 THEN "tokens_in" ELSE "tokens_out"
    BY <2>1, <2>2 DEF Attribute
  <2> QED
    BY <2>2, <2>3 DEF r
<1>5. /\ 1 \in 1..(3 * h) /\ 2 \in 1..(3 * h) /\ 3 * h \in 1..(3 * h)
      /\ 1 % 3 = 1 /\ 2 % 3 = 2 /\ (3 * h) % 3 = 0
      /\ (2 + 2) \div 3 - 1 = 0 /\ (3 * h + 2) \div 3 = h
  BY <1>1
<1>6. /\ t[1].value = s.sender /\ t[2].value = CoinAt(s, 0) /\ t[3 * h].value = CoinAt(s, h)
  <2>1. t[1] = Attribute("sender", s.sender)
    BY <1>3, <1>5
  <2>2. t[2] = Attribute("tokens_in", CoinAt(s, 0))
    BY <1>3, <1>5
  <2>3. t[3 * h] = Attribute("tokens_out", CoinAt(s, h))
    BY <1>3, <1>5
  <2> QED
    BY <2>1, <2>2, <2>3 DEF Attribute
<1>7. ASSUME NEW key, NEW b \in 1..(3 * h), t[b].key = key,
             \A a \in 1..(b - 1) : t[a].key # key
      PROVE  First(t, LAMBDA a : a.key = key) = {t[b]}
  <2>1. {i \in 1..(3 * h) : t[i].key = key /\ \A j \in 1..(i - 1) : ~(t[j].key = key)} = {b}
    <3>1. ASSUME NEW i \in 1..(3 * h), t[i].key = key, i # b PROVE b \in 1..(i - 1)
      BY <1>1, <1>7, <3>1
    <3> QED
      BY <1>7, <3>1
  <2> QED
    BY <1>2, <2>1 DEF First
<1>8. First(t, LAMBDA a : a.key = "sender") = {t[1]}
  <2>1. t[1].key = "sender" /\ 1..(1 - 1) = {}
    BY <1>4, <1>5
  <2> QED
    BY <1>5, <1>7, <2>1
<1>9. First(t, LAMBDA a : a.key = "tokens_in") = {t[2]}
  <2>1. t[2].key = "tokens_in" /\ t[1].key # "tokens_in" /\ \A a \in 1..(2 - 1) : a = 1
    BY <1>4, <1>5
  <2> QED
    BY <1>5, <1>7, <2>1
<1>10. Final(t, LAMBDA a : a.key = "tokens_out") = {t[3 * h]}
  <2>1. {i \in 1..(3 * h) : t[i].key = "tokens_out"
            /\ \A j \in (i + 1)..(3 * h) : ~(t[j].key = "tokens_out")} = {3 * h}
    <3>1. ASSUME NEW i \in 1..(3 * h), i # 3 * h PROVE 3 * h \in (i + 1)..(3 * h)
      BY <1>1, <3>1
    <3>2. (3 * h + 1)..(3 * h) = {}
      BY <1>1
    <3> QED
      BY <1>4, <1>5, <3>1, <3>2
  <2> QED
    BY <1>2, <2>1 DEF Final
<1>11. TokenSwapped(m).attributes = t
  BY DEF TokenSwapped, t, s
<1> DEFINE event == TokenSwapped(m)
<1> HIDE DEF event
<1>12. event.attributes = t
  BY <1>11 DEF event
<1>13. GetValueForAttribute("sender", {event}) = {t[1].value}
  BY <1>8, <1>12 DEF GetValueForAttribute
<1>14. GetValueForAttribute("tokens_in", {event}) = {t[2].value}
  BY <1>9, <1>12 DEF GetValueForAttribute
<1>15. GetLastValueForAttribute("tokens_out", {event}) = {t[3 * h].value}
  BY <1>10, <1>12 DEF GetLastValueForAttribute
<1> QED
  BY <1>6, <1>13, <1>14, <1>15 DEF s, h, event

\* A message whose log is there tells its swap, one whose log is missing
\* nothing.
LEMMA SwapParsed ==
  ASSUME NEW m, m.type # "send", Hops(SwapOf(m)) \in Nat \ {0}, NEW i
  PROVE  ParseMsgSwapExactAmountIn(SwapOf(m), m.type, {[index |-> i, events |-> Events(m)]})
           = {SwapTold(SwapOf(m))}
<1> DEFINE log == {[index |-> i, events |-> Events(m)]}
           s == SwapOf(m)
           type == m.type
<1>1. /\ GetEventWithType("message", log) = {Action(m)}
      /\ GetEventWithType("token_swapped", log) = {TokenSwapped(m)}
  BY EventsFound
<1>2. /\ GetValueForAttribute("sender", {TokenSwapped(m)}) = {s.sender}
      /\ GetValueForAttribute("tokens_in", {TokenSwapped(m)}) = {CoinAt(s, 0)}
      /\ GetLastValueForAttribute("tokens_out", {TokenSwapped(m)}) = {CoinAt(s, Hops(s))}
  BY AttributesFound
<1>3. 1 \in DOMAIN Action(m).attributes /\ Action(m).attributes[1] = Attribute("action", type)
  BY DEF Action
<1> HIDE DEF log, s, type
<1>4. IsMessageActionEquals(type, log)
  BY <1>1, <1>3 DEF IsMessageActionEquals
<1>5. ParseMsgSwapExactAmountIn(s, type, log)
        = {[address |-> s.sender, tokenIn |-> in, tokenOut |-> out] :
             in \in {CoinAt(s, 0)}, out \in {CoinAt(s, Hops(s))}}
  BY <1>1, <1>2, <1>4 DEF ParseMsgSwapExactAmountIn
<1> QED
  BY <1>5 DEF SwapTold, log, s, type

LEMMA NothingParsed ==
  ASSUME NEW swap, NEW type PROVE ParseMsgSwapExactAmountIn(swap, type, {}) = {}
<1>1. GetEventWithType("message", {}) = {} /\ GetEventWithType("token_swapped", {}) = {}
  BY DEF GetEventWithType
<1>2. ~IsMessageActionEquals(type, {})
  BY <1>1 DEF IsMessageActionEquals
<1> QED
  BY <1>1, <1>2 DEF ParseMsgSwapExactAmountIn

\* p holds what was parsed after the first i messages, up to i = n.
IsParse(p, tx, logs, n) ==
  p = [i \in 0..n |-> IF i = 0 THEN Parsed(tx)
                      ELSE ParseMessage(p[i - 1], tx.msgs[i], GetMessageLogForIndex(logs, i))]

LEMMA ParseExists == ASSUME NEW tx, NEW logs PROVE \A n \in Nat : \E p : IsParse(p, tx, logs, n)
<1> DEFINE T == {n \in Nat : \E p : IsParse(p, tx, logs, n)}
           Next1(q, i) == ParseMessage(q, tx.msgs[i], GetMessageLogForIndex(logs, i))
<1>1. 0 \in T
  <2> DEFINE p == [i \in 0..0 |-> Parsed(tx)]
  <2>1. IsParse(p, tx, logs, 0)
    BY DEF IsParse
  <2> QED
    BY <2>1
<1>2. ASSUME NEW n \in Nat, n \in T PROVE n + 1 \in T
  <2>1. PICK p : IsParse(p, tx, logs, n)
    BY <1>2
  <2> DEFINE q == [i \in 0..(n + 1) |-> IF i = 0 THEN Parsed(tx) ELSE Next1(p[i - 1], i)]
  <2> HIDE DEF Next1
  <2>2. \A i \in 0..n : p[i] = IF i = 0 THEN Parsed(tx) ELSE Next1(p[i - 1], i)
    BY <2>1 DEF IsParse, Next1
  <2>3. \A i \in 0..n : q[i] = p[i]
    BY <2>2
  <2>4. \A i \in 1..(n + 1) : i - 1 \in 0..n
    OBVIOUS
  <2>5. ASSUME NEW i \in 0..(n + 1) PROVE q[i] = IF i = 0 THEN Parsed(tx) ELSE Next1(q[i - 1], i)
    <3>1. CASE i = 0
      BY <3>1
    <3>2. CASE i # 0
      <4>1. i - 1 \in 0..n
        BY <2>4, <3>2
      <4>2. q[i - 1] = p[i - 1]
        BY <2>3, <4>1
      <4> QED
        BY <3>2, <4>2
    <3> QED
      BY <3>1, <3>2
  <2>6. q = [i \in 0..(n + 1) |-> q[i]]
    OBVIOUS
  <2> HIDE DEF q
  <2>7. IsParse(q, tx, logs, n + 1)
    BY <2>5, <2>6 DEF IsParse, Next1
  <2> QED
    BY <2>7
<1> HIDE DEF T
<1>3. \A n \in Nat : n \in T
  BY <1>1, <1>2, EveryNat
<1> QED
  BY <1>3 DEF T

\* The messages are parsed one after the other.
LEMMA ParseStep ==
  ASSUME NEW tx, NEW logs, Len(tx.msgs) \in Nat
  PROVE  LET parsed == MessagesParsed(tx, logs)
         IN  /\ parsed[0] = Parsed(tx)
             /\ \A i \in 1..Len(tx.msgs) :
                  parsed[i] =
                    ParseMessage(parsed[i - 1], tx.msgs[i], GetMessageLogForIndex(logs, i))
<1> DEFINE parsed == MessagesParsed(tx, logs)
<1>1. \E p : IsParse(p, tx, logs, Len(tx.msgs))
  BY ParseExists
<1>2. parsed = CHOOSE p : IsParse(p, tx, logs, Len(tx.msgs))
  BY DEF MessagesParsed, IsParse
<1>3. IsParse(parsed, tx, logs, Len(tx.msgs))
  BY <1>1, <1>2
<1> HIDE DEF parsed
<1>4. 0 \in 0..Len(tx.msgs) /\ \A i \in 1..Len(tx.msgs) : i \in 0..Len(tx.msgs) /\ i # 0
  OBVIOUS
<1>5. \A i \in 0..Len(tx.msgs) :
        parsed[i] = IF i = 0 THEN Parsed(tx)
                    ELSE ParseMessage(parsed[i - 1], tx.msgs[i], GetMessageLogForIndex(logs, i))
  BY <1>3, Zenon DEF IsParse
<1> QED
  BY <1>4, <1>5 DEF parsed

LEMMA AppendNext ==
  ASSUME NEW f, NEW k \in Nat
  PROVE  Append([j \in 1..k |-> f[j]], f[k + 1]) = [j \in 1..(k + 1) |-> f[j]]
<1> DEFINE s == [j \in 1..k |-> f[j]]
<1>1. s \in Seq({f[j] : j \in 1..k}) /\ Len(s) = k
  OBVIOUS
<1> QED
  BY <1>1

\* A TX of swaps and then sends: the first a messages swap, the others send.
SwapsFirst(tx, a) ==
  /\ Len(tx.msgs) \in Nat /\ a \in 0..Len(tx.msgs)
  /\ \A i \in 1..a : tx.msgs[i].type # "send" /\ Hops(SwapOf(tx.msgs[i])) \in Nat \ {0}
  /\ \A i \in (a + 1)..Len(tx.msgs) : tx.msgs[i].type = "send"

\* What is known of it after k swaps and l sends.
ReadSoFar(tx, a, k, l) ==
  [ok |-> TRUE, swaps |-> [j \in 1..k |-> SwapTold(SwapOf(tx.msgs[j]))],
   sends |-> [j \in 1..l |-> tx.msgs[a + j]], payer |-> tx.payer, fee |-> tx.fee]

LEMMA SwapsRead ==
  ASSUME NEW tx, NEW n \in Nat, NEW a, SwapsFirst(tx, a)
  PROVE  \A i \in 0..a :
           i <= n => MessagesParsed(tx, Logs(tx, n))[i] = ReadSoFar(tx, a, i, 0)
<1> DEFINE logs == Logs(tx, n)
           parsed == MessagesParsed(tx, logs)
           T == {i \in Nat : i <= a /\ i <= n => parsed[i] = ReadSoFar(tx, a, i, 0)}
<1>1. a \in Nat /\ Len(tx.msgs) \in Nat /\ a <= Len(tx.msgs)
  BY DEF SwapsFirst
<1>2. /\ parsed[0] = Parsed(tx)
      /\ \A i \in 1..Len(tx.msgs) :
           parsed[i] = ParseMessage(parsed[i - 1], tx.msgs[i], GetMessageLogForIndex(logs, i))
  BY <1>1, ParseStep
<1> HIDE DEF parsed
<1>3. 0 \in T
  <2>1. [j \in 1..0 |-> SwapTold(SwapOf(tx.msgs[j]))] = <<>>
        /\ [j \in 1..0 |-> tx.msgs[a + j]] = <<>>
    OBVIOUS
  <2>2. ReadSoFar(tx, a, 0, 0) = Parsed(tx)
    BY <2>1 DEF ReadSoFar, Parsed
  <2> QED
    BY <1>2, <2>2
<1>4. ASSUME NEW i \in Nat, i \in T PROVE i + 1 \in T
  <2> SUFFICES ASSUME i + 1 <= a, i + 1 <= n PROVE parsed[i + 1] = ReadSoFar(tx, a, i + 1, 0)
    OBVIOUS
  <2> DEFINE m == tx.msgs[i + 1]
             told == [j \in 1..(i + 1) |-> SwapTold(SwapOf(tx.msgs[j]))]
  <2>1. i + 1 \in 1..a /\ i + 1 \in 1..Len(tx.msgs) /\ (i + 1) - 1 = i /\ i + 1 \in Nat \ {0}
    BY <1>1
  <2>2. parsed[i] = ReadSoFar(tx, a, i, 0)
    BY <1>1, <1>4
  <2>3. GetMessageLogForIndex(logs, i + 1) = {[index |-> i + 1, events |-> Events(m)]}
    BY <2>1, LogFound
  <2>4. m.type # "send" /\ Hops(SwapOf(m)) \in Nat \ {0}
    BY <2>1 DEF SwapsFirst
  <2>5. ParseMsgSwapExactAmountIn(SwapOf(m), m.type, GetMessageLogForIndex(logs, i + 1))
          = {SwapTold(SwapOf(m))}
    BY <2>3, <2>4, SwapParsed
  <2>6. parsed[i + 1] = ParseMessage(ReadSoFar(tx, a, i, 0), m, GetMessageLogForIndex(logs, i + 1))
    BY <1>2, <2>1, <2>2
  <2>7. Append([j \in 1..i |-> SwapTold(SwapOf(tx.msgs[j]))], SwapTold(SwapOf(m))) = told
    <3>1. /\ told[i + 1] = SwapTold(SwapOf(m))
          /\ [j \in 1..i |-> told[j]] = [j \in 1..i |-> SwapTold(SwapOf(tx.msgs[j]))]
          /\ [j \in 1..(i + 1) |-> told[j]] = told
      BY <2>1
    <3> HIDE DEF told
    <3> QED
      BY <3>1, AppendNext
  <2> HIDE DEF told, m
  <2>8. ReadSoFar(tx, a, i, 0).ok
    BY DEF ReadSoFar
  <2>9. parsed[i + 1]
          = [ReadSoFar(tx, a, i, 0) EXCEPT !.swaps = Append(@, SwapTold(SwapOf(m)))]
    BY <2>4, <2>5, <2>6, <2>8 DEF ParseMessage
  <2> QED
    BY <2>7, <2>9 DEF ReadSoFar, told
<1> HIDE DEF T
<1>5. \A i \in Nat : i \in T
  BY <1>3, <1>4, EveryNat
<1> QED
  BY <1>1, <1>5 DEF T, parsed

\* A TX whose swaps are all logged is read to its end.
LEMMA TxRead ==
  ASSUME NEW tx, tx.code = 0, NEW n \in Nat, NEW a, SwapsFirst(tx, a), a <= n
  PROVE  ParseRedpointSwaps(tx, n) = ReadSoFar(tx, a, a, Len(tx.msgs) - a)
<1> DEFINE logs == Logs(tx, n)
           parsed == MessagesParsed(tx, logs)
           T == {l \in Nat : a + l <= Len(tx.msgs) => parsed[a + l] = ReadSoFar(tx, a, a, l)}
<1>1. a \in Nat /\ Len(tx.msgs) \in Nat /\ a <= Len(tx.msgs)
  BY DEF SwapsFirst
<1>2. \A i \in 1..Len(tx.msgs) :
        parsed[i] = ParseMessage(parsed[i - 1], tx.msgs[i], GetMessageLogForIndex(logs, i))
  BY <1>1, ParseStep
<1>3. 0 \in T
  <2>1. a \in 0..a /\ a + 0 = a
    BY <1>1
  <2> QED
    BY <2>1, SwapsRead
<1> HIDE DEF parsed
<1>4. ASSUME NEW l \in Nat, l \in T PROVE l + 1 \in T
  <2> SUFFICES ASSUME a + (l + 1) <= Len(tx.msgs)
               PROVE  parsed[a + (l + 1)] = ReadSoFar(tx, a, a, l + 1)
    OBVIOUS
  <2> DEFINE i == a + (l + 1)
             m == tx.msgs[i]
             sent == [j \in 1..(l + 1) |-> tx.msgs[a + j]]
  <2>1. i \in (a + 1)..Len(tx.msgs) /\ i \in 1..Len(tx.msgs) /\ i - 1 = a + l
    BY <1>1
  <2>2. parsed[a + l] = ReadSoFar(tx, a, a, l)
    BY <1>1, <1>4
  <2>3. m.type = "send"
    BY <2>1 DEF SwapsFirst
  <2>4. parsed[i] = ParseMessage(ReadSoFar(tx, a, a, l), m, GetMessageLogForIndex(logs, i))
    BY <1>2, <2>1, <2>2
  <2>5. Append([j \in 1..l |-> tx.msgs[a + j]], m) = sent
    <3>1. /\ sent[l + 1] = m
          /\ [j \in 1..l |-> sent[j]] = [j \in 1..l |-> tx.msgs[a + j]]
          /\ [j \in 1..(l + 1) |-> sent[j]] = sent
      BY <1>1
    <3> HIDE DEF sent
    <3> QED
      BY <3>1, AppendNext
  <2> HIDE DEF i, m, sent
  <2>6. ReadSoFar(tx, a, a, l).ok
    BY DEF ReadSoFar
  <2>7. parsed[i] = [ReadSoFar(tx, a, a, l) EXCEPT !.sends = Append(@, m)]
    BY <2>3, <2>4, <2>6 DEF ParseMessage
  <2>8. parsed[i] = ReadSoFar(tx, a, a, l + 1)
    BY <2>5, <2>7 DEF ReadSoFar, sent
  <2> QED
    BY <2>8 DEF i
<1> HIDE DEF T
<1>5. \A l \in Nat : l \in T
  BY <1>3, <1>4, EveryNat
<1>6. Len(tx.msgs) - a \in Nat /\ a + (Len(tx.msgs) - a) = Len(tx.msgs)
  BY <1>1
<1> QED
  BY <1>1, <1>5, <1>6 DEF T, parsed, ParseRedpointSwaps

\* A TX with a swap that is not logged is given up.
LEMMA TxGivenUp ==
  ASSUME NEW tx, tx.code = 0, NEW n \in Nat, NEW a, SwapsFirst(tx, a), n < a
  PROVE  LET p == ParseRedpointSwaps(tx, n)
         IN  ~p.ok /\ p.payer = tx.payer /\ p.fee = tx.fee
<1> DEFINE logs == Logs(tx, n)
           parsed == MessagesParsed(tx, logs)
           given == GiveUp(ReadSoFar(tx, a, n, 0))
           T == {l \in Nat : n + 1 + l <= Len(tx.msgs) => parsed[n + 1 + l] = given}
<1>1. a \in Nat /\ Len(tx.msgs) \in Nat /\ a <= Len(tx.msgs)
  BY DEF SwapsFirst
<1>2. \A i \in 1..Len(tx.msgs) :
        parsed[i] = ParseMessage(parsed[i - 1], tx.msgs[i], GetMessageLogForIndex(logs, i))
  BY <1>1, ParseStep
<1>3. parsed[n] = ReadSoFar(tx, a, n, 0)
  BY <1>1, SwapsRead
<1> HIDE DEF parsed
<1>4. ~given.ok /\ given.payer = tx.payer /\ given.fee = tx.fee
  BY DEF GiveUp, ReadSoFar
<1>5. 0 \in T
  <2> DEFINE m == tx.msgs[n + 1]
             log == GetMessageLogForIndex(logs, n + 1)
  <2>1. n + 1 \in 1..a /\ n + 1 \in 1..Len(tx.msgs) /\ n + 1 + 0 = n + 1 /\ (n + 1) - 1 = n
        /\ n + 1 \in Nat \ {0} /\ ~(n + 1 <= n)
    BY <1>1
  <2>2. log = {}
    BY <2>1, LogFound
  <2>3. m.type # "send"
    BY <2>1 DEF SwapsFirst
  <2>4. parsed[n + 1] = ParseMessage(ReadSoFar(tx, a, n, 0), m, log)
    BY <1>2, <1>3, <2>1
  <2>5. ReadSoFar(tx, a, n, 0).ok
    BY DEF ReadSoFar
  <2> HIDE DEF m, log
  <2>6. ParseMessage(ReadSoFar(tx, a, n, 0), m, log) = given
    BY <2>2, <2>3, <2>5, NothingParsed DEF ParseMessage
  <2> QED
    BY <2>1, <2>4, <2>6
<1> HIDE DEF given
<1>6. ASSUME NEW l \in Nat, l \in T PROVE l + 1 \in T
  <2> SUFFICES ASSUME n + 1 + (l + 1) <= Len(tx.msgs) PROVE parsed[n + 1 + (l + 1)] = given
    OBVIOUS
  <2> DEFINE i == n + 1 + (l + 1)
  <2>1. i \in 1..Len(tx.msgs) /\ i - 1 = n + 1 + l
    BY <1>1
  <2>2. parsed[i - 1] = given
    BY <1>1, <1>6, <2>1
  <2> HIDE DEF i
  <2>3. parsed[i] = ParseMessage(given, tx.msgs[i], GetMessageLogForIndex(logs, i))
    BY <1>2, <2>1, <2>2
  <2>4. parsed[i] = given
    BY <1>4, <2>3 DEF ParseMessage
  <2> QED
    BY <2>4 DEF i
<1> HIDE DEF T
<1>7. \A l \in Nat : l \in T
  BY <1>5, <1>6, EveryNat
<1>8. PICK l \in Nat : n + 1 + l = Len(tx.msgs)
  <2> DEFINE len == Len(tx.msgs)
  <2>1. n + 1 \in Nat /\ n + 1 <= a /\ a <= len /\ len \in Nat /\ a \in Nat
    BY <1>1
  <2> HIDE DEF len
  <2>2. len - (n + 1) \in Nat /\ n + 1 + (len - (n + 1)) = len
    BY <2>1
  <2> QED
    BY <2>2 DEF len
<1>9. parsed[Len(tx.msgs)] = given
  <2>1. l \in T /\ n + 1 + l <= Len(tx.msgs)
    BY <1>1, <1>7, <1>8
  <2>2. parsed[n + 1 + l] = given
    BY <2>1 DEF T
  <2> QED
    BY <1>8, <2>2
<1> QED
  BY <1>4, <1>9 DEF ParseRedpointSwaps, parsed

(***************************************************************************)
(* What each of the TXs enters into the books.                             *)
(***************************************************************************)
\* The books' entries of the user's swap and of the arbitrage's messages.
UserEntry ==
  [address |-> "user", tokenIn |-> Coin("other", UserSwap.in),
   tokenOut |-> Coin("base", UserSwap.out)]

ArbEntry(amounts, k, gain, i) ==
  [address |-> "hotWallet", tokenIn |-> Coin("base", amounts[i]),
   tokenOut |-> Coin("base", amounts[i] + IF i = k THEN gain ELSE 0)]

ArbEntries(amounts, m, k, gain) == [i \in 1..m |-> ArbEntry(amounts, k, gain, i)]

\* The user's swap if u = 1, then m messages of the arbitrage.
Entries(amounts, u, m, k, gain) ==
  [i \in 1..(u + m) |-> IF i <= u THEN UserEntry ELSE ArbEntry(amounts, k, gain, i - u)]


\* The messages and the gas of a bid are kept as long as what they are made
\* from is.
LEMMA TxsKept ==
  ASSUME UNCHANGED <<input, arbSwaps, payments>>, NEW code, NEW k, NEW gain
  PROVE  /\ ArbTx(code, k, gain)' = ArbTx(code, k, gain)
         /\ AuthzTx(code, k, gain)' = AuthzTx(code, k, gain)
         /\ EstimateArbGas' = EstimateArbGas /\ AuthzGas' = AuthzGas
<1>1. sim' = sim /\ conf' = conf
  BY DEF input
<1>2. EstimateArbGas' = EstimateArbGas
  BY <1>1 DEF EstimateArbGas, EstimatedMsgs
<1>3. AuthzGas' = AuthzGas
  BY <1>1 DEF AuthzGas, getGasFee
<1>4. ArbMsgs(k, gain)' = ArbMsgs(k, gain) /\ PaymentMsgs' = PaymentMsgs
  BY DEF ArbMsgs, PaymentMsgs, Swap, Send
<1> QED
  BY <1>2, <1>3, <1>4 DEF ArbTx, AuthzTx, HotWalletTx

LEMMA UserSwapTold ==
  /\ UserSwap.type = "swap" /\ SwapOf(UserSwap) = UserSwap /\ Hops(UserSwap) = 1
  /\ SwapTold(UserSwap) = UserEntry
<1>1. /\ UserSwap.type = "swap" /\ UserSwap.sender = "user"
      /\ UserSwap.in = 5 /\ UserSwap.out = 4
  BY DEF UserSwap, Swap
<1>2. SwapOf(UserSwap) = UserSwap /\ Hops(UserSwap) = 1
  BY <1>1 DEF SwapOf, Hops
<1>3. CoinAt(UserSwap, 0) = Coin("other", UserSwap.in) /\ CoinAt(UserSwap, 1) = Coin("base", UserSwap.out)
  BY <1>1, <1>2 DEF CoinAt
<1> QED
  BY <1>1, <1>2, <1>3 DEF SwapTold, UserEntry

LEMMA ArbSwapTold ==
  ASSUME sim.routes \in Nat \ {0}, NEW k, NEW gain, NEW i \in DOMAIN arbSwaps
  PROVE  LET m == ArbMsgs(k, gain)[i]
         IN  /\ m.type = "swap" /\ SwapOf(m) = m /\ Hops(m) \in Nat \ {0}
             /\ SwapTold(m) = ArbEntry(arbSwaps, k, gain, i)
<1> DEFINE out == arbSwaps[i] + IF i = k THEN gain ELSE 0
           m == ArbMsgs(k, gain)[i]
<1>1. m = Swap("hotWallet", arbSwaps[i], out)
  BY DEF ArbMsgs
<1> HIDE DEF out, m
<1>2. m.type = "swap" /\ m.sender = "hotWallet" /\ m.in = arbSwaps[i] /\ m.out = out
  BY <1>1 DEF Swap
<1>3. SwapOf(m) = m /\ Hops(m) = sim.routes
  BY <1>2 DEF SwapOf, Hops
<1>4. CoinAt(m, 0) = Coin("base", arbSwaps[i]) /\ CoinAt(m, Hops(m)) = Coin("base", out)
  BY <1>2, <1>3 DEF CoinAt
<1>5. SwapTold(m) = ArbEntry(arbSwaps, k, gain, i)
  BY <1>2, <1>4 DEF SwapTold, ArbEntry, out
<1> QED
  BY <1>2, <1>3, <1>5 DEF m

\* The user's TX enters the user's swap, if it succeeded and its log is there.
LEMMA UserTxBooked ==
  ASSUME NEW code \in {0, 1}, NEW n \in Nat
  PROVE  LET p == ParseRedpointSwaps(UserTx(code), n)
         IN  /\ toSubmittedTx(p) = IF code = 0 /\ n >= 1 THEN <<UserEntry>> ELSE <<>>
             /\ ZenithFees(p) = 0
             /\ p.payer = IF code = 0 THEN "user" ELSE "nobody"
             /\ code = 0 => p.fee = UserFee
<1> DEFINE tx == UserTx(code)
           p == ParseRedpointSwaps(tx, n)
<1>1. tx.code = code /\ tx.msgs = <<UserSwap>> /\ tx.payer = "user" /\ tx.fee = UserFee
  BY DEF UserTx
<1> HIDE DEF tx
<1>2. Len(tx.msgs) = 1 /\ tx.msgs[1] = UserSwap
  BY <1>1
<1>3. SwapsFirst(tx, 1)
  <2>1. \A i \in 1..1 : i = 1
    OBVIOUS
  <2>2. (1 + 1)..1 = {}
    OBVIOUS
  <2> QED
    BY <1>2, <2>1, <2>2, UserSwapTold DEF SwapsFirst
<1>4. CASE code = 0 /\ n >= 1
  <2>1. p = ReadSoFar(tx, 1, 1, 0)
    <3>1. Len(tx.msgs) - 1 = 0 /\ 1 <= n
      BY <1>2, <1>4
    <3> QED
      BY <1>1, <1>3, <1>4, <3>1, TxRead
  <2>2. [j \in 1..1 |-> SwapTold(SwapOf(tx.msgs[j]))] = <<UserEntry>>
    BY <1>2, UserSwapTold
  <2>3. p.ok /\ p.swaps = <<UserEntry>> /\ p.sends = [j \in 1..0 |-> tx.msgs[1 + j]]
        /\ p.payer = "user" /\ p.fee = UserFee
    BY <1>1, <2>1, <2>2 DEF ReadSoFar
  <2>4. p.sends = <<>>
    BY <2>3
  <2> HIDE DEF p
  <2>5. [i \in DOMAIN p.sends |-> IF IsZenithFee(p.sends[i]) THEN p.sends[i].amount ELSE 0] = <<>>
    BY <2>4
  <2>6. ZenithFees(p) = 0
    BY <2>3, <2>5, TotalOfNone DEF ZenithFees
  <2> QED
    BY <1>4, <2>3, <2>6 DEF toSubmittedTx, p, tx
<1>5. CASE code = 0 /\ ~(n >= 1)
  <2>1. ~p.ok /\ p.payer = "user" /\ p.fee = UserFee
    BY <1>1, <1>3, <1>5, TxGivenUp
  <2> QED
    BY <1>5, <2>1 DEF toSubmittedTx, ZenithFees, tx
<1>6. CASE code # 0
  <2>1. ~p.ok /\ p.payer = "nobody"
    BY <1>1, <1>6 DEF ParseRedpointSwaps, Parsed
  <2> QED
    BY <1>6, <2>1 DEF toSubmittedTx, ZenithFees, tx
<1> QED
  BY <1>4, <1>5, <1>6

\* The messages of the arbitrage TX: its swaps, then the payments.
LEMMA ArbTxMsgs ==
  ASSUME arbSwaps \in Seq(Nat), payments \in Seq(Nat), NEW k, NEW gain
  PROVE  LET msgs == ArbMsgs(k, gain) \o PaymentMsgs
             a == Len(arbSwaps)
             b == Len(payments)
         IN  /\ Len(msgs) = a + b
             /\ \A i \in 1..a : msgs[i] = ArbMsgs(k, gain)[i]
             /\ \A i \in 1..b : msgs[a + i] = Send(payments[i])
<1> DEFINE a == Len(arbSwaps)
           b == Len(payments)
<1>1. a \in Nat /\ b \in Nat /\ DOMAIN arbSwaps = 1..a /\ DOMAIN payments = 1..b
  OBVIOUS
<1> DEFINE s == ArbMsgs(k, gain)
           t == PaymentMsgs
           S == {s[i] : i \in 1..a} \cup {t[i] : i \in 1..b}
<1>2. s \in Seq(S) /\ Len(s) = a
  BY <1>1 DEF ArbMsgs
<1>3. t \in Seq(S) /\ Len(t) = b /\ \A i \in 1..b : t[i] = Send(payments[i])
  BY <1>1 DEF PaymentMsgs
<1> HIDE DEF s, t, S
<1>4. /\ Len(s \o t) = a + b
      /\ \A i \in 1..(a + b) : (s \o t)[i] = IF i <= a THEN s[i] ELSE t[i - a]
  <2>1. s \in Seq(S) /\ t \in Seq(S)
    BY <1>2, <1>3
  <2>2. /\ Len(s \o t) = Len(s) + Len(t)
        /\ \A i \in 1..(Len(s) + Len(t)) :
             (s \o t)[i] = IF i <= Len(s) THEN s[i] ELSE t[i - Len(s)]
    BY <2>1, ConcatProperties, Zenon
  <2> QED
    BY <1>2, <1>3, <2>2, Zenon
<1>5. \A i \in 1..a : (s \o t)[i] = s[i]
  BY <1>1, <1>4
<1>6. ASSUME NEW i \in 1..b PROVE (s \o t)[a + i] = t[i]
  <2>1. a + i \in 1..(a + b) /\ ~(a + i <= a) /\ (a + i) - a = i
    BY <1>1
  <2> QED
    BY <1>4, <2>1
<1> QED
  BY <1>3, <1>4, <1>5, <1>6 DEF s, t

\* And of an authz swap's: the user's swap, then the arbitrage's.
LEMMA AuthzTxMsgs ==
  ASSUME arbSwaps \in Seq(Nat), NEW k, NEW gain
  PROVE  LET msgs == <<Exec(UserSwap)>> \o ArbMsgs(k, gain)
             a == Len(arbSwaps)
         IN  /\ Len(msgs) = 1 + a /\ msgs[1] = Exec(UserSwap)
             /\ \A i \in 1..a : msgs[1 + i] = ArbMsgs(k, gain)[i]
<1> DEFINE a == Len(arbSwaps)
<1>1. a \in Nat /\ DOMAIN arbSwaps = 1..a
  OBVIOUS
<1> DEFINE s == ArbMsgs(k, gain)
           t == <<Exec(UserSwap)>>
           S == {s[i] : i \in 1..a} \cup {t[1]}
<1>2. s \in Seq(S) /\ Len(s) = a
  BY <1>1 DEF ArbMsgs
<1>3. t \in Seq(S) /\ Len(t) = 1 /\ t[1] = Exec(UserSwap)
  OBVIOUS
<1> HIDE DEF s, t, S
<1>4. /\ Len(t \o s) = 1 + a
      /\ \A i \in 1..(1 + a) : (t \o s)[i] = IF i <= 1 THEN t[i] ELSE s[i - 1]
  <2>1. t \in Seq(S) /\ s \in Seq(S)
    BY <1>2, <1>3
  <2>2. /\ Len(t \o s) = Len(t) + Len(s)
        /\ \A i \in 1..(Len(t) + Len(s)) :
             (t \o s)[i] = IF i <= Len(t) THEN t[i] ELSE s[i - Len(t)]
    BY <2>1, ConcatProperties, Zenon
  <2> QED
    BY <1>2, <1>3, <2>2, Zenon
<1>5. (t \o s)[1] = t[1]
  BY <1>1, <1>4
<1>6. ASSUME NEW i \in 1..a PROVE (t \o s)[1 + i] = s[i]
  <2>1. 1 + i \in 1..(1 + a) /\ ~(1 + i <= 1) /\ (1 + i) - 1 = i
    BY <1>1
  <2> QED
    BY <1>4, <2>1
<1> QED
  BY <1>3, <1>4, <1>5, <1>6 DEF s, t

\* The arbitrage TX enters its swaps and its payments, if it succeeded and
\* the log of every swap is there.
LEMMA ArbTxBooked ==
  ASSUME arbSwaps \in Seq(Nat), payments \in Seq(Nat), sim.routes \in Nat \ {0},
         NEW code \in {0, 1}, NEW k, NEW gain, NEW n \in Nat
  PROVE  LET p == ParseRedpointSwaps(ArbTx(code, k, gain), n)
             read == code = 0 /\ n >= Len(arbSwaps)
         IN  /\ toSubmittedTx(p) =
                  IF read THEN [i \in 1..Len(arbSwaps) |-> ArbEntry(arbSwaps, k, gain, i)] ELSE <<>>
             /\ ZenithFees(p) = IF read THEN Total(payments) ELSE 0
             /\ p.payer = IF code = 0 THEN "hotWallet" ELSE "nobody"
             /\ code = 0 => p.fee = EstimateArbGas \div 200
<1> DEFINE tx == ArbTx(code, k, gain)
           p == ParseRedpointSwaps(tx, n)
           a == Len(arbSwaps)
           b == Len(payments)
<1>1. /\ tx.code = code /\ tx.msgs = ArbMsgs(k, gain) \o PaymentMsgs /\ tx.payer = "hotWallet"
      /\ tx.fee = EstimateArbGas \div 200
  BY DEF ArbTx, HotWalletTx
<1> HIDE DEF tx
<1>2. a \in Nat /\ b \in Nat /\ DOMAIN arbSwaps = 1..a /\ DOMAIN payments = 1..b
  OBVIOUS
<1>3. /\ Len(tx.msgs) = a + b
      /\ \A i \in 1..a : tx.msgs[i] = ArbMsgs(k, gain)[i]
      /\ \A i \in 1..b : tx.msgs[a + i] = Send(payments[i])
  <2> DEFINE msgs == ArbMsgs(k, gain) \o PaymentMsgs
  <2>1. /\ Len(msgs) = a + b
        /\ \A i \in 1..a : msgs[i] = ArbMsgs(k, gain)[i]
        /\ \A i \in 1..b : msgs[a + i] = Send(payments[i])
    BY ArbTxMsgs
  <2> HIDE DEF msgs
  <2> QED
    BY <1>1, <2>1 DEF msgs
<1>4. \A i \in 1..a : /\ tx.msgs[i].type # "send" /\ Hops(SwapOf(tx.msgs[i])) \in Nat \ {0}
                      /\ SwapTold(SwapOf(tx.msgs[i])) = ArbEntry(arbSwaps, k, gain, i)
  BY <1>2, <1>3, ArbSwapTold
<1>5. SwapsFirst(tx, a)
  <2>1. ASSUME NEW i \in (a + 1)..(a + b) PROVE tx.msgs[i].type = "send"
    <3>1. i - a \in 1..b /\ a + (i - a) = i
      BY <1>2
    <3>2. tx.msgs[i] = Send(payments[i - a])
      BY <1>3, <3>1
    <3> QED
      BY <3>2 DEF Send
  <2> QED
    BY <1>2, <1>3, <1>4, <2>1 DEF SwapsFirst
<1> HIDE DEF a, b
<1>6. CASE code = 0 /\ n >= a
  <2>1. p = ReadSoFar(tx, a, a, b)
    <3>1. Len(tx.msgs) - a = b
      BY <1>2, <1>3
    <3> QED
      BY <1>1, <1>2, <1>5, <1>6, <3>1, TxRead
  <2>2. [j \in 1..a |-> SwapTold(SwapOf(tx.msgs[j]))] = [i \in 1..a |-> ArbEntry(arbSwaps, k, gain, i)]
    BY <1>4
  <2>3. [j \in 1..b |-> tx.msgs[a + j]] = [j \in 1..b |-> Send(payments[j])]
    BY <1>3
  <2>4. /\ p.ok /\ p.swaps = [i \in 1..a |-> ArbEntry(arbSwaps, k, gain, i)]
        /\ p.sends = [j \in 1..b |-> Send(payments[j])]
        /\ p.payer = "hotWallet" /\ p.fee = EstimateArbGas \div 200
    <3>1. /\ p.ok /\ p.swaps = [j \in 1..a |-> SwapTold(SwapOf(tx.msgs[j]))]
          /\ p.sends = [j \in 1..b |-> tx.msgs[a + j]] /\ p.payer = tx.payer /\ p.fee = tx.fee
      BY <2>1 DEF ReadSoFar
    <3> QED
      BY <1>1, <2>2, <2>3, <3>1
  <2> HIDE DEF p
  <2>5. [i \in DOMAIN p.sends |-> IF IsZenithFee(p.sends[i]) THEN p.sends[i].amount ELSE 0] = payments
    <3>1. DOMAIN p.sends = 1..b
      BY <2>4
    <3>2. \A i \in 1..b : IsZenithFee(p.sends[i]) /\ p.sends[i].amount = payments[i]
      BY <2>4 DEF IsZenithFee, Send
    <3>3. payments = [i \in 1..b |-> payments[i]]
      BY <1>2
    <3> QED
      BY <3>1, <3>2, <3>3
  <2>6. ZenithFees(p) = Total(payments)
    BY <2>4, <2>5 DEF ZenithFees
  <2> QED
    BY <1>6, <2>4, <2>6 DEF toSubmittedTx, p, tx, a
<1>7. CASE code = 0 /\ ~(n >= a)
  <2>1. ~p.ok /\ p.payer = "hotWallet" /\ p.fee = EstimateArbGas \div 200
    BY <1>1, <1>2, <1>5, <1>7, TxGivenUp
  <2> QED
    BY <1>7, <2>1 DEF toSubmittedTx, ZenithFees, tx, a
<1>8. CASE code # 0
  <2>1. ~p.ok /\ p.payer = "nobody"
    BY <1>1, <1>8 DEF ParseRedpointSwaps, Parsed
  <2> QED
    BY <1>8, <2>1 DEF toSubmittedTx, ZenithFees, tx
<1> QED
  BY <1>6, <1>7, <1>8

\* The TX of an authz swap enters the user's swap and the arbitrage's.
LEMMA AuthzTxBooked ==
  ASSUME arbSwaps \in Seq(Nat), sim.routes \in Nat \ {0} \/ arbSwaps = <<>>,
         NEW code \in {0, 1}, NEW k, NEW gain, NEW n \in Nat
  PROVE  LET p == ParseRedpointSwaps(AuthzTx(code, k, gain), n)
         IN  /\ toSubmittedTx(p) =
                  IF code = 0 /\ n > Len(arbSwaps)
                  THEN Entries(arbSwaps, 1, Len(arbSwaps), k, gain) ELSE <<>>
             /\ ZenithFees(p) = 0
             /\ p.payer = IF code = 0 THEN "hotWallet" ELSE "nobody"
             /\ code = 0 => p.fee = AuthzGas \div 200
<1> DEFINE tx == AuthzTx(code, k, gain)
           p == ParseRedpointSwaps(tx, n)
           a == Len(arbSwaps)
<1>1. /\ tx.code = code /\ tx.msgs = <<Exec(UserSwap)>> \o ArbMsgs(k, gain)
      /\ tx.payer = "hotWallet" /\ tx.fee = AuthzGas \div 200
  BY DEF AuthzTx, HotWalletTx
<1> HIDE DEF tx
<1>2. a \in Nat /\ DOMAIN arbSwaps = 1..a
  OBVIOUS
<1>3. /\ Len(tx.msgs) = 1 + a /\ tx.msgs[1] = Exec(UserSwap)
      /\ \A i \in 1..a : tx.msgs[1 + i] = ArbMsgs(k, gain)[i]
  BY <1>1, AuthzTxMsgs
<1>4. ASSUME NEW i \in 1..(1 + a)
      PROVE  /\ tx.msgs[i].type # "send" /\ Hops(SwapOf(tx.msgs[i])) \in Nat \ {0}
             /\ SwapTold(SwapOf(tx.msgs[i])) = Entries(arbSwaps, 1, a, k, gain)[i]
  <2>1. Entries(arbSwaps, 1, a, k, gain)[i] = IF i <= 1 THEN UserEntry ELSE ArbEntry(arbSwaps, k, gain, i - 1)
    BY DEF Entries
  <2>2. CASE i = 1
    <3>1. Exec(UserSwap).type = "exec" /\ SwapOf(Exec(UserSwap)) = UserSwap
      BY DEF Exec, SwapOf
    <3> QED
      BY <1>3, <2>1, <2>2, <3>1, UserSwapTold
  <2>3. CASE i # 1
    <3>1. i - 1 \in 1..a /\ 1 + (i - 1) = i /\ ~(i <= 1)
      BY <1>2, <2>3
    <3>2. arbSwaps # <<>>
      BY <3>1
    <3>3. tx.msgs[i] = ArbMsgs(k, gain)[i - 1]
      BY <1>3, <3>1
    <3> QED
      BY <1>2, <2>1, <3>1, <3>2, <3>3, ArbSwapTold
  <2> QED
    BY <2>2, <2>3
<1>5. SwapsFirst(tx, 1 + a)
  <2>1. ((1 + a) + 1)..(1 + a) = {} /\ 1 + a \in Nat /\ 1 + a \in 0..(1 + a)
    BY <1>2
  <2>2. \A i \in 1..(1 + a) : tx.msgs[i].type # "send" /\ Hops(SwapOf(tx.msgs[i])) \in Nat \ {0}
    BY <1>4
  <2>3. Len(tx.msgs) = 1 + a
    BY <1>3
  <2> QED
    BY <2>1, <2>2, <2>3 DEF SwapsFirst
<1> HIDE DEF a
<1>6. CASE code = 0 /\ n > a
  <2>1. p = ReadSoFar(tx, 1 + a, 1 + a, 0)
    <3>1. Len(tx.msgs) - (1 + a) = 0 /\ 1 + a <= n
      BY <1>2, <1>3, <1>6
    <3> QED
      BY <1>1, <1>5, <1>6, <3>1, TxRead
  <2>2. [j \in 1..(1 + a) |-> SwapTold(SwapOf(tx.msgs[j]))] = Entries(arbSwaps, 1, a, k, gain)
    <3>1. Entries(arbSwaps, 1, a, k, gain) = [j \in 1..(1 + a) |-> Entries(arbSwaps, 1, a, k, gain)[j]]
      BY DEF Entries
    <3> QED
      BY <1>4, <3>1
  <2>3. /\ p.ok /\ p.swaps = Entries(arbSwaps, 1, a, k, gain)
        /\ p.sends = [j \in 1..0 |-> tx.msgs[(1 + a) + j]]
        /\ p.payer = "hotWallet" /\ p.fee = AuthzGas \div 200
    <3>1. /\ p.ok /\ p.swaps = [j \in 1..(1 + a) |-> SwapTold(SwapOf(tx.msgs[j]))]
          /\ p.sends = [j \in 1..0 |-> tx.msgs[(1 + a) + j]]
          /\ p.payer = tx.payer /\ p.fee = tx.fee
      BY <2>1 DEF ReadSoFar
    <3> QED
      BY <1>1, <2>2, <3>1
  <2>4. p.sends = <<>>
    BY <2>3
  <2> HIDE DEF p
  <2>5. [i \in DOMAIN p.sends |-> IF IsZenithFee(p.sends[i]) THEN p.sends[i].amount ELSE 0] = <<>>
    BY <2>4
  <2>6. ZenithFees(p) = 0
    BY <2>3, <2>5, TotalOfNone DEF ZenithFees
  <2> QED
    BY <1>6, <2>3, <2>6 DEF toSubmittedTx, p, tx, a
<1>7. CASE code = 0 /\ ~(n > a)
  <2>1. n < 1 + a
    BY <1>2, <1>7
  <2>2. ~p.ok /\ p.payer = "hotWallet" /\ p.fee = AuthzGas \div 200
    BY <1>1, <1>5, <1>7, <2>1, TxGivenUp
  <2> QED
    BY <1>7, <2>2 DEF toSubmittedTx, ZenithFees, tx, a
<1>8. CASE code # 0
  <2>1. ~p.ok /\ p.payer = "nobody"
    BY <1>1, <1>8 DEF ParseRedpointSwaps, Parsed
  <2> QED
    BY <1>8, <2>1 DEF toSubmittedTx, ZenithFees, tx
<1> QED
  BY <1>6, <1>7, <1>8

LEMMA EntriesOfNone ==
  ASSUME NEW amounts, NEW k, NEW gain
  PROVE  /\ Entries(amounts, 0, 0, k, gain) = <<>>
         /\ Entries(amounts, 1, 0, k, gain) = <<UserEntry>>
<1>1. Entries(amounts, 0, 0, k, gain) = <<>>
  BY DEF Entries
<1>2. Entries(amounts, 1, 0, k, gain) = <<UserEntry>>
  <2>1. DOMAIN Entries(amounts, 1, 0, k, gain) = 1..1 /\ Entries(amounts, 1, 0, k, gain)[1] = UserEntry
    BY DEF Entries
  <2>2. Entries(amounts, 1, 0, k, gain) = [i \in 1..1 |-> UserEntry]
    BY DEF Entries
  <2> QED
    BY <2>2
<1> QED
  BY <1>1, <1>2

\* The books list the user's swap and then the arbitrage's.
LEMMA EntriesJoin ==
  ASSUME NEW amounts, NEW k, NEW gain, NEW u \in {0, 1}, NEW m \in Nat
  PROVE  Entries(amounts, u, 0, k, gain) \o ArbEntries(amounts, m, k, gain)
           = Entries(amounts, u, m, k, gain)
<1> DEFINE s == Entries(amounts, u, 0, k, gain)
           t == ArbEntries(amounts, m, k, gain)
           r == Entries(amounts, u, m, k, gain)
           S == {s[i] : i \in 1..u} \cup {t[i] : i \in 1..m}
<1>1. s \in Seq(S) /\ Len(s) = u
  BY DEF Entries
<1>2. t \in Seq(S) /\ Len(t) = m
  BY DEF ArbEntries
<1>3. r = [i \in 1..(u + m) |-> r[i]]
  BY DEF Entries
<1>4. ASSUME NEW i \in 1..(u + m) PROVE r[i] = IF i <= u THEN s[i] ELSE t[i - u]
  <2>1. CASE i <= u
    <3>1. s[i] = UserEntry /\ r[i] = UserEntry
      BY <2>1 DEF Entries
    <3> QED
      BY <2>1, <3>1
  <2>2. CASE ~(i <= u)
    <3>1. i - u \in 1..m
      BY <2>2
    <3>2. t[i - u] = ArbEntry(amounts, k, gain, i - u) /\ r[i] = ArbEntry(amounts, k, gain, i - u)
      BY <2>2, <3>1 DEF Entries, ArbEntries
    <3> QED
      BY <2>2, <3>2
  <2> QED
    BY <2>1, <2>2
<1> HIDE DEF s, t, r, S
<1>5. s \in Seq(S) /\ t \in Seq(S)
  BY <1>1, <1>2
<1>6. /\ s \o t \in Seq(S) /\ Len(s \o t) = Len(s) + Len(t)
      /\ \A i \in 1..(Len(s) + Len(t)) :
           (s \o t)[i] = IF i <= Len(s) THEN s[i] ELSE t[i - Len(s)]
  BY <1>5, ConcatProperties, Zenon
<1>7. s \o t = [i \in 1..Len(s \o t) |-> (s \o t)[i]]
  <2> DEFINE c == s \o t
  <2>1. c \in Seq(S)
    BY <1>6
  <2> HIDE DEF c
  <2>2. c = [i \in 1..Len(c) |-> c[i]]
    BY <2>1
  <2> QED
    BY <2>2 DEF c
<1>8. Len(s \o t) = u + m /\ \A i \in 1..(u + m) : (s \o t)[i] = IF i <= u THEN s[i] ELSE t[i - u]
  BY <1>1, <1>2, <1>6, Zenon
<1>9. s \o t = r
  BY <1>3, <1>4, <1>7, <1>8
<1> QED
  BY <1>9 DEF s, t, r

\* What is told of books with these entries: whose the swaps are, and the
\* profit of the arbitrage.
LEMMA EntriesTell ==
  ASSUME arbSwaps \in Seq(Nat), NEW u \in {0, 1}, NEW m \in {0, Len(arbSwaps)},
         NEW k \in 0..Len(arbSwaps), NEW gain \in Int,
         books.swaps = Entries(arbSwaps, u, m, k, gain)
  PROVE  /\ UserSwaps = 1..u /\ ArbSwaps = (u + 1)..(u + m)
         /\ u = 1 => books.swaps[1] = UserEntry
         /\ Profit = IF m = 0 \/ k = 0 THEN 0 ELSE gain
<1> DEFINE s == books.swaps
<1>1. DOMAIN s = 1..(u + m) /\ m \in Nat /\ Len(arbSwaps) \in Nat
  BY DEF Entries
<1>2. \A i \in 1..(u + m) :
        s[i] = IF i <= u THEN UserEntry ELSE ArbEntry(arbSwaps, k, gain, i - u)
  BY DEF Entries
<1> HIDE DEF s
<1>3. /\ UserEntry.address = "user" /\ ~IsArbitrageSwap(UserEntry)
  BY DEF UserEntry, IsArbitrageSwap
<1>4. ASSUME NEW i \in 1..(u + m), ~(i <= u)
      PROVE  /\ s[i].address # "user" /\ IsArbitrageSwap(s[i])
             /\ s[i].tokenOut.amount - s[i].tokenIn.amount = IF i - u = k THEN gain ELSE 0
  <2>1. i - u \in 1..Len(arbSwaps)
    BY <1>1, <1>4
  <2>2. arbSwaps[i - u] \in Nat
    BY <2>1
  <2> DEFINE e == ArbEntry(arbSwaps, k, gain, i - u)
  <2>3. /\ e.address = "hotWallet" /\ e.tokenIn.denom = "base" /\ e.tokenOut.denom = "base"
        /\ e.tokenIn.amount = arbSwaps[i - u]
        /\ e.tokenOut.amount = arbSwaps[i - u] + IF i - u = k THEN gain ELSE 0
    BY DEF ArbEntry, Coin
  <2>4. s[i] = e
    BY <1>2, <1>4
  <2> HIDE DEF e
  <2> QED
    BY <2>2, <2>3, <2>4 DEF IsArbitrageSwap
<1>5. UserSwaps = 1..u
  <2>1. UserSwaps = {i \in 1..(u + m) : s[i].address = "user"}
    BY <1>1 DEF UserSwaps, s
  <2>2. \A i \in 1..(u + m) : s[i].address = "user" <=> i <= u
    BY <1>2, <1>3, <1>4
  <2> QED
    BY <1>1, <2>1, <2>2
<1>6. \A i \in 1..(u + m) : IsArbitrageSwap(s[i]) <=> ~(i <= u)
  BY <1>2, <1>3, <1>4
<1>7. ArbSwaps = (u + 1)..(u + m)
  <2>1. ArbSwaps = {i \in 1..(u + m) : IsArbitrageSwap(s[i])}
    BY <1>1 DEF ArbSwaps, s
  <2> QED
    BY <1>1, <1>6, <2>1
<1>8. Profit = IF m = 0 \/ k = 0 THEN 0 ELSE gain
  <2> DEFINE d == [i \in DOMAIN s |->
                     IF IsArbitrageSwap(s[i]) THEN s[i].tokenOut.amount - s[i].tokenIn.amount ELSE 0]
             one == IF m = 0 \/ k = 0 THEN 0 ELSE u + k
  <2>1. Profit = Total(d)
    BY DEF Profit, s
  <2>2. Len(d) = u + m /\ one \in 0..(u + m)
    BY <1>1
  <2>3. ASSUME NEW i \in 1..(u + m) PROVE d[i] = IF i = one THEN gain ELSE 0
    <3>1. d[i] = IF IsArbitrageSwap(s[i]) THEN s[i].tokenOut.amount - s[i].tokenIn.amount ELSE 0
      BY <1>1
    <3> HIDE DEF d
    <3>2. CASE i <= u
      <4>1. i # one
        BY <1>1, <3>2
      <4> QED
        BY <1>6, <3>1, <3>2, <4>1
    <3>3. CASE ~(i <= u)
      <4>1. m # 0 /\ (i - u = k <=> i = one)
        BY <1>1, <3>3
      <4> QED
        BY <1>4, <1>6, <3>1, <3>3, <4>1
    <3> QED
      BY <3>2, <3>3
  <2> HIDE DEF d
  <2>4. Total(d) = IF one = 0 THEN 0 ELSE gain
    <3>1. Len(d) \in Nat /\ one \in 0..Len(d)
      BY <1>1, <2>2
    <3>2. \A i \in 1..Len(d) : d[i] = IF i = one THEN gain ELSE 0
      BY <2>2, <2>3
    <3> HIDE DEF one
    <3> QED
      BY <3>1, <3>2, TotalOfOne
  <2> QED
    BY <1>1, <2>1, <2>4
<1>9. u = 1 => s[1] = UserEntry
  BY <1>1, <1>2
<1> QED
  BY <1>5, <1>7, <1>8, <1>9 DEF s

(***************************************************************************)
(* The invariant of the accounting.                                        *)
(***************************************************************************)
\* An authz swap is never a bid, it pays nobody, and without routes it has
\* no arbitrage.
AuthzInv ==
  /\ pc \in {"new", "split", "fees", "refused", "landed"}
  /\ InputOK
  /\ arbSwaps \in Seq(Nat) /\ remaining \in Nat /\ payments = <<>>
  /\ pc = "new" => arbSwaps = <<>>
  /\ sim.routes = 0 => arbSwaps = <<>> /\ remaining = 0

AccountingInv ==
  /\ service = "zenith" => BidInv
  /\ service = "authz" => AuthzInv
  /\ service \in {"zenith", "authz"}

LEMMA AccountingInvInit == ASSUME AccountingInit PROVE AccountingInv
<1>1. Init /\ service \in {"zenith", "authz"}
  BY DEF AccountingInit
<1>2. BidInv
  BY <1>1, BidInit
<1>3. AuthzInv
  BY <1>1, <1>2 DEF Init, AuthzInv, BidInv
<1> QED
  BY <1>1, <1>2, <1>3 DEF AccountingInv

LEMMA AuthzStep ==
  ASSUME AuthzInv, BuildSwaps \/ AuthzLands
  PROVE  AuthzInv'
<1>1. InputOK' /\ sim' = sim
  BY InputKept
     DEF AuthzInv, BuildSwaps, StartAuthz, RefuseAuthz, SplitOff, EndSplit, Refuse, AuthzLands
<1>2. CASE SplitOff
  <2>1. /\ pc = "split" /\ pc' = pc /\ remaining > 0 /\ arbSwaps' = Append(arbSwaps, MessageAmount)
        /\ remaining' = remaining - MessageAmount /\ payments' = payments
    BY <1>2 DEF SplitOff
  <2>2. remaining \in Nat /\ conf.wallet \in Nat /\ sim.routes # 0 /\ arbSwaps \in Seq(Nat)
    BY <2>1 DEF AuthzInv, InputOK
  <2>3. MessageAmount \in Nat /\ MessageAmount <= remaining
    BY <2>2 DEF MessageAmount, AtMost
  <2>4. arbSwaps' \in Seq(Nat) /\ remaining' \in Nat
    BY <2>1, <2>2, <2>3
  <2> QED
    BY <1>1, <2>1, <2>2, <2>4 DEF AuthzInv
<1>3. CASE StartAuthz
  <2>1. /\ pc = "new" /\ pc' = "split" /\ remaining' = (IF sim.routes = 0 THEN 0 ELSE sim.in)
        /\ arbSwaps' = arbSwaps /\ payments' = payments
    BY <1>3 DEF StartAuthz
  <2>2. remaining' \in Nat
    BY <2>1 DEF AuthzInv, InputOK
  <2> QED
    BY <1>1, <2>1, <2>2 DEF AuthzInv
<1>4. CASE RefuseAuthz \/ EndSplit \/ AuthzLands
  <2>1. pc' \in {"fees", "refused", "landed"} /\ UNCHANGED <<remaining, arbSwaps, payments>>
    BY <1>4 DEF RefuseAuthz, EndSplit, AuthzLands, Refuse
  <2> QED
    BY <1>1, <2>1 DEF AuthzInv
<1> QED
  BY <1>2, <1>3, <1>4 DEF BuildSwaps

LEMMA AccountingStep ==
  ASSUME AccountingInv, MaxMsgs > 5, [AccountingNext]_AccountingVars PROVE AccountingInv'
<1>1. CASE service = "zenith" /\ service' = service /\ (Bidding \/ Execute)
  BY <1>1, BiddingInv DEF AccountingInv
<1>2. CASE service = "authz" /\ service' = service /\ (BuildSwaps \/ AuthzLands)
  BY <1>2, AuthzStep DEF AccountingInv
<1>3. CASE UNCHANGED <<vars, service>>
  <2>1. UNCHANGED <<input, pc, remaining, arbSwaps, payments>>
    BY <1>3 DEF vars, input
  <2>2. BidInv => BidInv'
    BY <2>1, InputKept DEF BidInv, SplitFits, PaymentsFit, Payment
  <2>3. AuthzInv => AuthzInv'
    BY <2>1, InputKept DEF AuthzInv
  <2> QED
    BY <1>3, <2>2, <2>3 DEF AccountingInv
<1> QED
  BY <1>1, <1>2, <1>3
     DEF AccountingNext, Zenith, SwapAuthz, ExecuteBid, ArbFails, AuthzLands, Book, AccountingVars,
         accounting

LEMMA AccountingInvariance == ASSUME MaxMsgs > 5 PROVE AccountingSpec => []AccountingInv
  BY AccountingInvInit, AccountingStep, PTL DEF AccountingSpec

\* A bid puts in the whole simulated amount, in messages that the hot wallet
\* can fund (builder.go:54), whatever the amounts.
THEOREM MessagesCoverTheSwapHolds ==
  ASSUME MaxMsgs > 5 PROVE AccountingSpec => []MessagesCoverTheSwap
<1>1. AccountingInv => MessagesCoverTheSwap
  BY BidCovers DEF AccountingInv, AuthzInv, MessagesCoverTheSwap, IsBid
<1> QED
  BY <1>1, AccountingInvariance, PTL

\* The estimate's loop and the builder's loop go round equally often
\* (builder.go:54, :86): a bid's gas is that of its messages.
THEOREM GasCoversMessagesHolds ==
  ASSUME MaxMsgs > 5 PROVE AccountingSpec => []GasCoversMessages
<1>1. AccountingInv => GasCoversMessages
  BY BidGas DEF AccountingInv, AuthzInv, GasCoversMessages, IsBid
<1> QED
  BY <1>1, AccountingInvariance, PTL

\* Truncated or not, the payments of a bid are within what was weighed
\* against the revenue, and that within the maximum (bid.go:66, :219).
THEOREM PaymentsWithinBidHolds ==
  ASSUME MaxMsgs > 5 PROVE AccountingSpec => []PaymentsWithinBid
<1>1. AccountingInv => PaymentsWithinBid
  BY BidPays DEF AccountingInv, AuthzInv, PaymentsWithinBid, IsBid
<1> QED
  BY <1>1, AccountingInvariance, PTL
(***************************************************************************)
(* The invariant of the books: what was bid or signed is kept once it is   *)
(* on chain, and the books are those of the TXs that were entered so far.  *)
(***************************************************************************)
\* After the TXs of a bid: code and last are the codes of the two, and the
\* gain fell on message k.
ZenithBooks(code, last, k, gain) ==
  LET userRead == Len(logged) >= 1 /\ code = 0 /\ logged[1] >= 1
      arbRead == Len(logged) = 2 /\ last = 0 /\ logged[2] >= Len(arbSwaps)
  IN  [swaps      |-> Entries(arbSwaps, IF userRead THEN 1 ELSE 0,
                              IF arbRead THEN Len(arbSwaps) ELSE 0, k, gain),
       zenithFees |-> IF arbRead THEN Total(payments) ELSE 0,
       userFees   |-> IF Len(logged) >= 1 /\ code = 0 THEN UserFee ELSE 0,
       hotFees    |-> IF Len(logged) = 2 /\ last = 0 THEN EstimateArbGas \div 200 ELSE 0]

\* After the one TX of an authz swap.
AuthzBooks(last, k, gain) ==
  LET read == Len(logged) = 1 /\ last = 0 /\ logged[1] > Len(arbSwaps)
  IN  [swaps      |-> Entries(arbSwaps, IF read THEN 1 ELSE 0,
                              IF read THEN Len(arbSwaps) ELSE 0, k, gain),
       zenithFees |-> 0,
       userFees   |-> 0,
       hotFees    |-> IF Len(logged) = 1 /\ last = 0 THEN AuthzGas \div 200 ELSE 0]

OnChain(code, last, k, gain) ==
  /\ chainTxs = IF service = "zenith" THEN <<UserTx(code), ArbTx(last, k, gain)>>
                ELSE <<AuthzTx(last, k, gain)>>
  /\ last = 0 => gain = result - Total(arbSwaps) /\ (k = 0 => gain = 0)
  /\ books = IF service = "zenith" THEN ZenithBooks(code, last, k, gain)
             ELSE AuthzBooks(last, k, gain)

ChainInv ==
  /\ result \in Nat
  /\ logged \in Seq(Nat) /\ Len(logged) <= Len(chainTxs)
  /\ chainTxs = <<>> => books = NoBooks
  /\ chainTxs # <<>> =>
       /\ pc \in IF service = "zenith" THEN {"bid", "executed"} ELSE {"landed"}
       /\ \E code \in {0, 1}, last \in {0, 1}, k \in 0..Len(arbSwaps), gain \in Int :
            OnChain(code, last, k, gain)

\* What is on chain has messages that can be entered.
LEMMA TxsFit ==
  ASSUME AccountingInv,
         pc \in IF service = "zenith" THEN {"bid", "executed"} ELSE {"landed"}
  PROVE  /\ arbSwaps \in Seq(Nat) /\ payments \in Seq(Nat)
         /\ service = "zenith" => sim.routes \in Nat \ {0}
         /\ sim.routes \in Nat \ {0} \/ arbSwaps = <<>>
         /\ service # "zenith" => service = "authz" /\ payments = <<>>
<1>1. CASE service = "zenith"
  <2>1. InputOK /\ EstimateArbFees # -1 /\ SplitFits /\ PaymentsFit
    BY <1>1 DEF AccountingInv, BidInv, Building
  <2>2. sim.routes # 0
    BY <2>1 DEF EstimateArbFees
  <2> QED
    BY <1>1, <2>1, <2>2 DEF InputOK, SplitFits, PaymentsFit
<1>2. CASE service # "zenith"
  <2>1. service = "authz" /\ AuthzInv
    BY <1>2 DEF AccountingInv
  <2>2. /\ arbSwaps \in Seq(Nat) /\ payments = <<>> /\ sim.routes \in Nat
        /\ sim.routes = 0 => arbSwaps = <<>>
    BY <2>1 DEF AuthzInv, InputOK
  <2>3. <<>> \in Seq(Nat)
    OBVIOUS
  <2> QED
    BY <1>2, <2>1, <2>2, <2>3
<1> QED
  BY <1>1, <1>2

LEMMA TxsOfChain ==
  ASSUME NEW code, NEW last, NEW k, NEW gain, OnChain(code, last, k, gain)
  PROVE  /\ chainTxs # <<>>
         /\ service = "zenith" =>
              Len(chainTxs) = 2 /\ chainTxs[1] = UserTx(code) /\ chainTxs[2] = ArbTx(last, k, gain)
         /\ service # "zenith" => Len(chainTxs) = 1 /\ chainTxs[1] = AuthzTx(last, k, gain)
<1>1. CASE service = "zenith"
  <2>1. chainTxs = <<UserTx(code), ArbTx(last, k, gain)>>
    BY <1>1 DEF OnChain
  <2> QED
    BY <1>1, <2>1
<1>2. CASE service # "zenith"
  <2>1. chainTxs = <<AuthzTx(last, k, gain)>>
    BY <1>2 DEF OnChain
  <2> QED
    BY <1>2, <2>1
<1> QED
  BY <1>1, <1>2

\* Nothing is entered before the chain has the TXs.
LEMMA NothingBooked ==
  ASSUME logged = <<>>, NEW code, NEW last, NEW k, NEW gain
  PROVE  ZenithBooks(code, last, k, gain) = NoBooks /\ AuthzBooks(last, k, gain) = NoBooks
<1>1. Len(logged) = 0
  OBVIOUS
<1>2. Entries(arbSwaps, 0, 0, k, gain) = <<>>
  BY EntriesOfNone
<1> QED
  BY <1>1, <1>2 DEF ZenithBooks, AuthzBooks, NoBooks

\* A step of the chain that brings the TXs on it.
LEMMA ChainAppears ==
  ASSUME ChainInv, chainTxs = <<>>, UNCHANGED <<input, arbSwaps, payments, service, logged, books>>,
         result' \in Nat,
         pc' \in IF service = "zenith" THEN {"bid", "executed"} ELSE {"landed"},
         NEW code \in {0, 1}, NEW last \in {0, 1}, NEW k \in 0..Len(arbSwaps), NEW gain \in Int,
         chainTxs' = IF service = "zenith" THEN <<UserTx(code), ArbTx(last, k, gain)>>
                     ELSE <<AuthzTx(last, k, gain)>>,
         last = 0 => gain = result' - Total(arbSwaps) /\ (k = 0 => gain = 0)
  PROVE  ChainInv'
<1>1. logged = <<>> /\ books = NoBooks
  <2>1. logged \in Seq(Nat) /\ Len(logged) <= 0 /\ books = NoBooks
    BY DEF ChainInv
  <2> QED
    BY <2>1
<1>2. ZenithBooks(code, last, k, gain)' = NoBooks /\ AuthzBooks(last, k, gain)' = NoBooks
  <2>1. logged' = <<>> /\ Len(logged') = 0
    BY <1>1
  <2>2. Entries(arbSwaps', 0, 0, k, gain) = <<>>
    BY EntriesOfNone
  <2> QED
    BY <2>1, <2>2 DEF ZenithBooks, AuthzBooks, NoBooks
<1>3. ArbTx(last, k, gain)' = ArbTx(last, k, gain) /\ AuthzTx(last, k, gain)' = AuthzTx(last, k, gain)
  BY TxsKept
<1>4. OnChain(code, last, k, gain)'
  BY <1>1, <1>2, <1>3 DEF OnChain
<1>5. chainTxs' # <<>> /\ 0 <= Len(chainTxs')
  BY <1>4
<1> QED
  BY <1>1, <1>4, <1>5 DEF ChainInv

\* Entering the user's TX.
LEMMA EnterUserTx ==
  ASSUME service = "zenith", logged = <<>>, NEW n \in Nat,
         NEW code \in {0, 1}, NEW last \in {0, 1}, NEW k, NEW gain,
         UNCHANGED <<input, arbSwaps, payments>>, logged' = <<n>>,
         books' = Enter(NoBooks, ParseRedpointSwaps(UserTx(code), n))
  PROVE  books' = ZenithBooks(code, last, k, gain)'
<1> DEFINE p == ParseRedpointSwaps(UserTx(code), n)
           u == IF code = 0 /\ n >= 1 THEN 1 ELSE 0
<1>1. /\ toSubmittedTx(p) = IF code = 0 /\ n >= 1 THEN <<UserEntry>> ELSE <<>>
      /\ ZenithFees(p) = 0 /\ p.payer = IF code = 0 THEN "user" ELSE "nobody"
      /\ code = 0 => p.fee = UserFee
  BY UserTxBooked
<1> HIDE DEF p
<1>2. <<>> \o toSubmittedTx(p) = Entries(arbSwaps, u, 0, k, gain)
  <2>1. Entries(arbSwaps, 0, 0, k, gain) = <<>> /\ Entries(arbSwaps, 1, 0, k, gain) = <<UserEntry>>
    BY EntriesOfNone
  <2>2. <<>> \o <<>> = <<>> /\ <<>> \o <<UserEntry>> = <<UserEntry>>
    OBVIOUS
  <2> QED
    BY <1>1, <2>1, <2>2
<1>3. books' = [swaps |-> Entries(arbSwaps, u, 0, k, gain), zenithFees |-> 0,
                userFees |-> IF code = 0 THEN UserFee ELSE 0, hotFees |-> 0]
  <2>1. books' = [swaps |-> <<>> \o toSubmittedTx(p), zenithFees |-> 0 + ZenithFees(p),
                  userFees |-> 0 + IF p.payer = "user" THEN p.fee ELSE 0,
                  hotFees |-> 0 + IF p.payer = "hotWallet" THEN p.fee ELSE 0]
    BY DEF Enter, NoBooks, p
  <2>2. 0 + ZenithFees(p) = 0
        /\ (0 + IF p.payer = "user" THEN p.fee ELSE 0) = (IF code = 0 THEN UserFee ELSE 0)
        /\ (0 + IF p.payer = "hotWallet" THEN p.fee ELSE 0) = 0
    BY <1>1, AccountingAssumption
  <2> QED
    BY <1>2, <2>1, <2>2
<1>4. Len(logged') = 1 /\ logged'[1] = n
  OBVIOUS
<1> QED
  BY <1>3, <1>4 DEF ZenithBooks

LEMMA ArbEntriesJoin ==
  \A k, gain : \A v \in {0, 1}, w \in Nat :
    Entries(arbSwaps, v, 0, k, gain) \o ArbEntries(arbSwaps, w, k, gain)
      = Entries(arbSwaps, v, w, k, gain)
  BY EntriesJoin

\* Entering the arbitrage TX after it.
LEMMA EnterArbTx ==
  ASSUME arbSwaps \in Seq(Nat), payments \in Seq(Nat), sim.routes \in Nat \ {0}, InputOK,
         service = "zenith", NEW l \in Nat, logged = <<l>>, NEW n \in Nat,
         NEW code \in {0, 1}, NEW last \in {0, 1}, NEW k, NEW gain,
         UNCHANGED <<input, arbSwaps, payments>>, logged' = <<l, n>>,
         books = ZenithBooks(code, last, k, gain),
         books' = Enter(books, ParseRedpointSwaps(ArbTx(last, k, gain), n))
  PROVE  books' = ZenithBooks(code, last, k, gain)'
<1> DEFINE p == ParseRedpointSwaps(ArbTx(last, k, gain), n)
           v == IF code = 0 /\ l >= 1 THEN 1 ELSE 0
           read == last = 0 /\ n >= Len(arbSwaps)
           w == IF read THEN Len(arbSwaps) ELSE 0
           fee == EstimateArbGas \div 200
           user == IF code = 0 THEN UserFee ELSE 0
<1>1. /\ toSubmittedTx(p) =
           IF read THEN [i \in 1..Len(arbSwaps) |-> ArbEntry(arbSwaps, k, gain, i)] ELSE <<>>
      /\ ZenithFees(p) = IF read THEN Total(payments) ELSE 0
      /\ p.payer = IF last = 0 THEN "hotWallet" ELSE "nobody"
      /\ last = 0 => p.fee = fee
  BY ArbTxBooked
<1> HIDE DEF p
<1>2. books = [swaps |-> Entries(arbSwaps, v, 0, k, gain), zenithFees |-> 0,
               userFees |-> user, hotFees |-> 0]
  <2>1. Len(logged) = 1 /\ logged[1] = l
    OBVIOUS
  <2> QED
    BY <2>1 DEF ZenithBooks
<1>3. Entries(arbSwaps, v, 0, k, gain) \o toSubmittedTx(p) = Entries(arbSwaps, v, w, k, gain)
  <2>1. w \in Nat /\ v \in {0, 1}
    OBVIOUS
  <2>2. toSubmittedTx(p) = ArbEntries(arbSwaps, w, k, gain)
    <3>1. [i \in 1..0 |-> ArbEntry(arbSwaps, k, gain, i)] = <<>>
      OBVIOUS
    <3> QED
      BY <1>1, <3>1 DEF ArbEntries
  <2> HIDE DEF w, v
  <2>3. Entries(arbSwaps, v, 0, k, gain) \o ArbEntries(arbSwaps, w, k, gain)
          = Entries(arbSwaps, v, w, k, gain)
    BY <2>1, ArbEntriesJoin, Zenon
  <2> QED
    BY <2>2, <2>3
<1>4. fee \in Int /\ Total(payments) \in Nat /\ user \in Nat
  <2>1. EstimateArbGas \in Nat
    BY DEF EstimateArbGas, GetGasFee
  <2> QED
    BY <2>1, TotalIsNat, AccountingAssumption
<1>5. books' = [swaps |-> Entries(arbSwaps, v, w, k, gain),
                zenithFees |-> IF read THEN Total(payments) ELSE 0,
                userFees |-> user, hotFees |-> IF last = 0 THEN fee ELSE 0]
  <2>1. books' = [swaps |-> books.swaps \o toSubmittedTx(p),
                  zenithFees |-> books.zenithFees + ZenithFees(p),
                  userFees |-> books.userFees + IF p.payer = "user" THEN p.fee ELSE 0,
                  hotFees |-> books.hotFees + IF p.payer = "hotWallet" THEN p.fee ELSE 0]
    BY DEF Enter, p
  <2>2. /\ books.swaps = Entries(arbSwaps, v, 0, k, gain) /\ books.zenithFees = 0
        /\ books.userFees = user /\ books.hotFees = 0
    BY <1>2
  <2> HIDE DEF v, w, read, fee, user
  <2>3. books.zenithFees + ZenithFees(p) = IF read THEN Total(payments) ELSE 0
    BY <1>1, <1>4, <2>2
  <2>4. (books.userFees + IF p.payer = "user" THEN p.fee ELSE 0) = user
    BY <1>1, <1>4, <2>2
  <2>5. (books.hotFees + IF p.payer = "hotWallet" THEN p.fee ELSE 0) = IF last = 0 THEN fee ELSE 0
    BY <1>1, <1>4, <2>2
  <2> QED
    BY <1>3, <2>1, <2>2, <2>3, <2>4, <2>5
<1>6. Len(logged') = 2 /\ logged'[1] = l /\ logged'[2] = n
  OBVIOUS
<1>7. EstimateArbGas' = EstimateArbGas
  BY TxsKept
<1>8. ZenithBooks(code, last, k, gain)'
        = [swaps |-> Entries(arbSwaps, v, w, k, gain),
           zenithFees |-> IF read THEN Total(payments) ELSE 0,
           userFees |-> user, hotFees |-> IF last = 0 THEN fee ELSE 0]
  <2>1. /\ Len(logged') >= 1 /\ code = 0 /\ logged'[1] >= 1 <=> code = 0 /\ l >= 1
        /\ Len(logged') = 2 /\ last = 0 /\ logged'[2] >= Len(arbSwaps) <=> read
        /\ Len(logged') >= 1 /\ code = 0 <=> code = 0
        /\ Len(logged') = 2 /\ last = 0 <=> last = 0
    BY <1>6
  <2> HIDE DEF read
  <2> QED
    BY <1>7, <2>1, Zenon DEF ZenithBooks
<1> QED
  BY <1>5, <1>8

\* Entering the TX of an authz swap.
LEMMA EnterAuthzTx ==
  ASSUME arbSwaps \in Seq(Nat), sim.routes \in Nat \ {0} \/ arbSwaps = <<>>, InputOK,
         logged = <<>>, NEW n \in Nat,
         NEW last \in {0, 1}, NEW k, NEW gain,
         UNCHANGED <<input, arbSwaps, payments>>, logged' = <<n>>,
         books' = Enter(NoBooks, ParseRedpointSwaps(AuthzTx(last, k, gain), n))
  PROVE  books' = AuthzBooks(last, k, gain)'
<1> DEFINE p == ParseRedpointSwaps(AuthzTx(last, k, gain), n)
           read == last = 0 /\ n > Len(arbSwaps)
           fee == AuthzGas \div 200
           entries == IF read THEN Entries(arbSwaps, 1, Len(arbSwaps), k, gain) ELSE <<>>
<1>1. /\ toSubmittedTx(p) = entries /\ ZenithFees(p) = 0
      /\ p.payer = IF last = 0 THEN "hotWallet" ELSE "nobody"
      /\ last = 0 => p.fee = fee
  BY AuthzTxBooked
<1> HIDE DEF p
<1>2. <<>> \o entries = entries
        /\ entries = Entries(arbSwaps, IF read THEN 1 ELSE 0,
                             IF read THEN Len(arbSwaps) ELSE 0, k, gain)
  <2>1. Entries(arbSwaps, 0, 0, k, gain) = <<>>
    BY EntriesOfNone
  <2>2. entries \in Seq({entries[i] : i \in DOMAIN entries})
    <3> DEFINE e == Entries(arbSwaps, 1, Len(arbSwaps), k, gain)
    <3>1. e \in Seq({e[i] : i \in DOMAIN e})
      BY DEF Entries
    <3>2. <<>> \in Seq({<<>>[i] : i \in DOMAIN <<>>})
      OBVIOUS
    <3> HIDE DEF e
    <3> QED
      BY <3>1, <3>2 DEF e
  <2>3. ASSUME NEW S, NEW e \in Seq(S) PROVE <<>> \o e = e
    BY <2>3, ConcatEmptySeq
  <2> QED
    BY <2>1, <2>2, <2>3
<1>3. fee \in Int
  BY DEF AuthzGas, getGasFee, InputOK
<1>4. books' = [swaps |-> entries, zenithFees |-> 0, userFees |-> 0,
                hotFees |-> IF last = 0 THEN fee ELSE 0]
  <2>1. books' = [swaps |-> <<>> \o toSubmittedTx(p), zenithFees |-> 0 + ZenithFees(p),
                  userFees |-> 0 + IF p.payer = "user" THEN p.fee ELSE 0,
                  hotFees |-> 0 + IF p.payer = "hotWallet" THEN p.fee ELSE 0]
    BY DEF Enter, NoBooks, p
  <2> HIDE DEF entries, fee, read
  <2>2. 0 + ZenithFees(p) = 0
        /\ (0 + IF p.payer = "user" THEN p.fee ELSE 0) = 0
        /\ (0 + IF p.payer = "hotWallet" THEN p.fee ELSE 0) = IF last = 0 THEN fee ELSE 0
    BY <1>1, <1>3
  <2> QED
    BY <1>1, <1>2, <2>1, <2>2
<1>5. Len(logged') = 1 /\ logged'[1] = n
  OBVIOUS
<1>6. AuthzGas' = AuthzGas
  BY TxsKept
<1> QED
  BY <1>2, <1>4, <1>5, <1>6 DEF AuthzBooks

LEMMA ChainInvInit == ASSUME AccountingInit PROVE ChainInv
<1>1. result = 0 /\ logged = <<>> /\ chainTxs = <<>> /\ books = NoBooks
  BY DEF AccountingInit, Init
<1>2. logged \in Seq(Nat) /\ Len(logged) <= Len(chainTxs)
  BY <1>1
<1> QED
  BY <1>1, <1>2 DEF ChainInv

LEMMA ChainKept == ASSUME ChainInv, UNCHANGED <<vars, accounting>> PROVE ChainInv'
<1>1. UNCHANGED <<input, pc, arbSwaps, payments, result, service, chainTxs, logged, books>>
  BY DEF vars, accounting, input
<1>2. ASSUME NEW code, NEW last, NEW k, NEW gain, OnChain(code, last, k, gain)
      PROVE  OnChain(code, last, k, gain)'
  <2>1. /\ ArbTx(last, k, gain)' = ArbTx(last, k, gain)
        /\ AuthzTx(last, k, gain)' = AuthzTx(last, k, gain)
        /\ EstimateArbGas' = EstimateArbGas /\ AuthzGas' = AuthzGas
    BY <1>1, TxsKept
  <2>2. /\ ZenithBooks(code, last, k, gain)' = ZenithBooks(code, last, k, gain)
        /\ AuthzBooks(last, k, gain)' = AuthzBooks(last, k, gain)
    BY <1>1, <2>1 DEF ZenithBooks, AuthzBooks
  <2> QED
    BY <1>1, <1>2, <2>1, <2>2 DEF OnChain
<1>3. \A code, last, k, gain : OnChain(code, last, k, gain) => OnChain(code, last, k, gain)'
  BY <1>2
<1> QED
  BY <1>1, <1>3 DEF ChainInv

LEMMA OneElement == ASSUME NEW s \in Seq(Nat), Len(s) = 1 PROVE \E x \in Nat : s = <<x>>
<1>1. 1 \in 1..Len(s)
  OBVIOUS
<1>2. s[1] \in Nat
  BY <1>1, ElementOfSeq
<1>3. s = <<s[1]>>
  OBVIOUS
<1> QED
  BY <1>2, <1>3

LEMMA AppendToOne == ASSUME NEW x \in Nat, NEW y \in Nat PROVE Append(<<x>>, y) = <<x, y>>
<1> DEFINE s == Append(<<x>>, y)
           t == <<x, y>>
<1>1. /\ Len(s) = 2 /\ s[1] = x /\ s[2] = y
      /\ Len(t) = 2 /\ t[1] = x /\ t[2] = y
  OBVIOUS
<1>2. s = [i \in 1..2 |-> s[i]] /\ t = [i \in 1..2 |-> t[i]]
  OBVIOUS
<1> HIDE DEF s, t
<1>3. \A i \in 1..2 : s[i] = t[i]
  BY <1>1
<1>4. s = t
  BY <1>2, <1>3
<1> QED
  BY <1>4 DEF s, t

LEMMA OnlyOne == \A a \in Nat : a # 0 /\ a < 2 => a = 1 /\ a + 1 = 2
  OBVIOUS

\* One more TX is entered.
LEMMA BookStep == ASSUME AccountingInv, ChainInv, Book PROVE ChainInv'
<1>1. /\ Len(logged) < Len(chainTxs)
      /\ UNCHANGED <<input, pc, arbSwaps, payments, result, service, chainTxs>>
  BY DEF Book, vars, input
<1>2. PICK n \in 0..Len(chainTxs[Len(logged) + 1].msgs) :
        /\ logged' = Append(logged, n)
        /\ books' = Enter(books, ParseRedpointSwaps(chainTxs[Len(logged) + 1], n))
  BY DEF Book
<1>3. n \in Nat /\ logged \in Seq(Nat) /\ result \in Nat
  BY DEF ChainInv
<1>4. chainTxs # <<>>
  <2>1. Len(logged) >= 0 /\ Len(<<>>) = 0
    BY <1>3
  <2> QED
    BY <1>1, <1>3, <2>1
<1>5. pc \in IF service = "zenith" THEN {"bid", "executed"} ELSE {"landed"}
  BY <1>4 DEF ChainInv
<1>6. PICK code \in {0, 1}, last \in {0, 1}, k \in 0..Len(arbSwaps), gain \in Int :
        OnChain(code, last, k, gain)
  BY <1>4 DEF ChainInv
<1>7. /\ arbSwaps \in Seq(Nat) /\ payments \in Seq(Nat) /\ InputOK
      /\ service = "zenith" => sim.routes \in Nat \ {0}
      /\ sim.routes \in Nat \ {0} \/ arbSwaps = <<>>
  BY <1>5, TxsFit DEF AccountingInv, BidInv, AuthzInv
<1>8. /\ service = "zenith" =>
           Len(chainTxs) = 2 /\ chainTxs[1] = UserTx(code) /\ chainTxs[2] = ArbTx(last, k, gain)
      /\ service # "zenith" => Len(chainTxs) = 1 /\ chainTxs[1] = AuthzTx(last, k, gain)
  BY <1>6, TxsOfChain
<1>9. logged = <<>> => books = NoBooks
  <2>1. service = "zenith" => books = ZenithBooks(code, last, k, gain)
    BY <1>6 DEF OnChain
  <2>2. service # "zenith" => books = AuthzBooks(last, k, gain)
    BY <1>6 DEF OnChain
  <2> QED
    BY <2>1, <2>2, NothingBooked
<1>10. ASSUME service = "zenith", Len(logged) = 0
       PROVE  books' = ZenithBooks(code, last, k, gain)'
  <2>1. logged = <<>> /\ logged' = <<n>> /\ Len(logged) + 1 = 1
    BY <1>2, <1>3, <1>10
  <2>2. books' = Enter(NoBooks, ParseRedpointSwaps(UserTx(code), n))
    BY <1>2, <1>8, <1>9, <1>10, <2>1
  <2> QED
    BY <1>1, <1>3, <1>10, <2>1, <2>2, EnterUserTx
<1>11. ASSUME service = "zenith", Len(logged) # 0
       PROVE  books' = ZenithBooks(code, last, k, gain)'
  <2>1. Len(logged) = 1 /\ Len(logged) + 1 = 2
    <3>1. Len(chainTxs) = 2
      BY <1>8, <1>11
    <3>2. Len(logged) \in Nat
      BY <1>3
    <3>3. Len(logged) < 2
      BY <1>1, <3>1
    <3> QED
      BY <1>11, <3>2, <3>3, OnlyOne
  <2>2. PICK l \in Nat : logged = <<l>>
    BY <1>3, <2>1, OneElement
  <2>3. logged' = <<l, n>>
    BY <1>2, <1>3, <2>2, AppendToOne
  <2>4. books = ZenithBooks(code, last, k, gain)
    BY <1>6, <1>11 DEF OnChain
  <2>5. books' = Enter(books, ParseRedpointSwaps(ArbTx(last, k, gain), n))
    BY <1>2, <1>8, <1>11, <2>1
  <2> QED
    BY <1>1, <1>3, <1>7, <1>11, <2>2, <2>3, <2>4, <2>5, EnterArbTx
<1>12. ASSUME service # "zenith"
       PROVE  books' = AuthzBooks(last, k, gain)'
  <2>1. Len(logged) = 0
    BY <1>1, <1>3, <1>8, <1>12
  <2>2. logged = <<>> /\ logged' = <<n>> /\ Len(logged) + 1 = 1
    BY <1>2, <1>3, <2>1
  <2>3. books' = Enter(NoBooks, ParseRedpointSwaps(AuthzTx(last, k, gain), n))
    BY <1>2, <1>8, <1>9, <1>12, <2>2
  <2> QED
    BY <1>1, <1>3, <1>7, <1>12, <2>2, <2>3, EnterAuthzTx
<1> DEFINE Entered == books' = IF service = "zenith" THEN ZenithBooks(code, last, k, gain)'
                               ELSE AuthzBooks(last, k, gain)'
<1>13. Entered
  BY <1>10, <1>11, <1>12
<1>14. OnChain(code, last, k, gain)'
  <2>1. ArbTx(last, k, gain)' = ArbTx(last, k, gain) /\ AuthzTx(last, k, gain)' = AuthzTx(last, k, gain)
    BY <1>1, TxsKept
  <2>2. /\ chainTxs = IF service = "zenith" THEN <<UserTx(code), ArbTx(last, k, gain)>>
                      ELSE <<AuthzTx(last, k, gain)>>
        /\ last = 0 => gain = result - Total(arbSwaps) /\ (k = 0 => gain = 0)
    BY <1>6 DEF OnChain
  <2> QED
    BY <1>1, <1>13, <2>1, <2>2 DEF OnChain
<1>15. logged' \in Seq(Nat) /\ Len(logged') = Len(logged) + 1
  BY <1>2, <1>3
<1>16. Len(logged') <= Len(chainTxs')
  BY <1>1, <1>3, <1>8, <1>15
<1> QED
  BY <1>1, <1>3, <1>4, <1>5, <1>14, <1>15, <1>16 DEF ChainInv

\* The steps before the chain has anything.
LEMMA BuildingStep ==
  ASSUME ChainInv, UNCHANGED <<result, accounting>>, pc \notin {"bid", "executed", "landed"}
  PROVE  ChainInv'
<1>1. UNCHANGED <<result, service, chainTxs, logged, books>>
  BY DEF accounting
<1>2. chainTxs = <<>>
  BY DEF ChainInv
<1> QED
  BY <1>1, <1>2 DEF ChainInv

LEMMA ExecuteStep == ASSUME AccountingInv, ChainInv, service = "zenith", ExecuteBid PROVE ChainInv'
<1>1. /\ chainTxs = <<>> /\ pc = "bid" /\ pc' = "executed"
      /\ UNCHANGED <<input, arbSwaps, payments, service, logged, books>>
  BY DEF ExecuteBid, Execute
<1>2. PICK code \in {0, 1}, k \in Gainers :
        chainTxs' = <<UserTx(code), ArbTx(0, k, result' - Total(arbSwaps))>>
  BY DEF ExecuteBid
<1>3. InputOK /\ result' \in {sim.in, sim.out}
  BY <1>1 DEF AccountingInv, BidInv, ExecuteBid, Execute
<1>4. arbSwaps \in Seq(Nat)
  BY <1>1, TxsFit
<1>5. result' \in Nat /\ Total(arbSwaps) \in Nat
  BY <1>3, <1>4, TotalIsNat DEF InputOK
<1>6. result' - Total(arbSwaps) \in Int
  BY <1>5
<1>7. k \in 0..Len(arbSwaps) /\ k # 0
  BY <1>4 DEF Gainers
<1> DEFINE gain == result' - Total(arbSwaps)
<1>8. chainTxs' = IF service = "zenith" THEN <<UserTx(code), ArbTx(0, k, gain)>>
                  ELSE <<AuthzTx(0, k, gain)>>
  BY <1>2
<1>9. gain \in Int /\ gain = result' - Total(arbSwaps)
  BY <1>6
<1> HIDE DEF gain
<1> QED
  BY <1>1, <1>5, <1>7, <1>8, <1>9, ChainAppears

LEMMA FailStep == ASSUME AccountingInv, ChainInv, service = "zenith", ArbFails PROVE ChainInv'
<1>1. /\ chainTxs = <<>> /\ pc = "bid" /\ pc' = pc /\ result' = result
      /\ UNCHANGED <<input, arbSwaps, payments, service, logged, books>>
  BY DEF ArbFails, vars, input
<1>2. PICK code \in {0, 1} : chainTxs' = <<UserTx(code), ArbTx(1, 0, 0)>>
  BY DEF ArbFails
<1>3. arbSwaps \in Seq(Nat)
  BY <1>1, TxsFit
<1>4. result' \in Nat /\ 0 \in 0..Len(arbSwaps)
  BY <1>1, <1>3 DEF ChainInv
<1> QED
  BY <1>1, <1>2, <1>4, ChainAppears

LEMMA AuthzLandsStep ==
  ASSUME AccountingInv, ChainInv, service = "authz", AuthzLands PROVE ChainInv'
<1>1. /\ pc = "fees" /\ pc' = "landed"
      /\ UNCHANGED <<input, arbSwaps, payments, service, logged, books>>
  BY DEF AuthzLands
<1>2. chainTxs = <<>>
  BY <1>1 DEF ChainInv
<1>3. PICK code \in {0, 1}, k \in Gainers \cup {0}, gain \in {0, Revenue} :
        /\ gain > 0 => code = 0 /\ k > 0
        /\ gain >= 0
        /\ result' = Total(arbSwaps) + gain
        /\ chainTxs' = <<AuthzTx(code, k, gain)>>
  BY DEF AuthzLands
<1>4. AuthzInv
  BY DEF AccountingInv
<1>5. arbSwaps \in Seq(Nat) /\ gain \in Int
  BY <1>4 DEF AuthzInv, InputOK, Revenue
<1>6. Total(arbSwaps) \in Nat
  BY <1>5, TotalIsNat
<1>7. result' \in Nat /\ gain = result' - Total(arbSwaps)
  BY <1>3, <1>5, <1>6
<1>8. k \in 0..Len(arbSwaps)
  BY <1>3, <1>5 DEF Gainers
<1>9. k = 0 => gain = 0
  BY <1>3, <1>5
<1> QED
  BY <1>1, <1>2, <1>3, <1>5, <1>7, <1>8, <1>9, ChainAppears

LEMMA ChainStep ==
  ASSUME AccountingInv, ChainInv, [AccountingNext]_AccountingVars PROVE ChainInv'
<1>1. CASE service = "zenith" /\ Bidding /\ UNCHANGED accounting
  <2>1. pc \notin {"bid", "executed", "landed"} /\ result' = result
    BY <1>1 DEF Bidding, NotProfitable, NoFee, BadRoutes, StartSplit, SplitOff, EndSplit,
                TooExpensive, Eligible, MatchUserTx, PayNext, WrongDenom, BadAllocations,
                GoodAllocations, Sign, Refuse
  <2> QED
    BY <1>1, <2>1, BuildingStep
<1>2. CASE service = "authz" /\ BuildSwaps /\ UNCHANGED accounting
  <2>1. pc \notin {"bid", "executed", "landed"} /\ result' = result
    BY <1>2 DEF BuildSwaps, StartAuthz, RefuseAuthz, SplitOff, EndSplit, Refuse
  <2> QED
    BY <1>2, <2>1, BuildingStep
<1>3. CASE UNCHANGED AccountingVars
  <2>1. UNCHANGED <<vars, accounting>>
    BY <1>3 DEF AccountingVars
  <2> QED
    BY <2>1, ChainKept
<1> QED
  BY <1>1, <1>2, <1>3, ExecuteStep, FailStep, AuthzLandsStep, BookStep
     DEF AccountingNext, Zenith, SwapAuthz

LEMMA BooksInvariance ==
  ASSUME MaxMsgs > 5 PROVE AccountingSpec => [](AccountingInv /\ ChainInv)
<1>1. AccountingInit => AccountingInv /\ ChainInv
  BY AccountingInvInit, ChainInvInit
<1>2. AccountingInv /\ ChainInv /\ [AccountingNext]_AccountingVars => (AccountingInv /\ ChainInv)'
  BY AccountingStep, ChainStep
<1> QED
  BY <1>1, <1>2, PTL DEF AccountingSpec

\* What the books tell once every TX is entered: read says whether the
\* arbitrage was, or all of an authz swap.
LEMMA BooksTell ==
  ASSUME AccountingInv, ChainInv, Booked
  PROVE  \E u \in {0, 1}, read \in BOOLEAN, k \in 0..Len(arbSwaps), gain \in Int :
           /\ books.swaps = Entries(arbSwaps, u, IF read THEN Len(arbSwaps) ELSE 0, k, gain)
           /\ books.zenithFees = IF read THEN Total(payments) ELSE 0
           /\ read => gain = result - Total(arbSwaps) /\ (k = 0 => gain = 0)
           /\ AllLogged(1) => u = 1
           /\ AllLogged(Len(chainTxs)) => read
           /\ chainTxs[1].code = 0 => books.userFees = IF service = "zenith" THEN UserFee ELSE 0
           /\ HotWalletsTx.code = 0 => books.hotFees = HotWalletsTx.fee
<1>1. chainTxs # <<>> /\ Len(logged) = Len(chainTxs)
  BY DEF Booked
<1>2. PICK code \in {0, 1}, last \in {0, 1}, k \in 0..Len(arbSwaps), gain \in Int :
        OnChain(code, last, k, gain)
  BY <1>1 DEF ChainInv
<1>3. arbSwaps \in Seq(Nat) /\ payments \in Seq(Nat) /\ (service # "zenith" => payments = <<>>)
  BY <1>1, TxsFit DEF ChainInv
<1>4. Len(arbSwaps) \in Nat /\ Len(payments) \in Nat
  BY <1>3
<1>5. last = 0 => gain = result - Total(arbSwaps) /\ (k = 0 => gain = 0)
  BY <1>2 DEF OnChain
<1>6. CASE service = "zenith"
  <2> DEFINE u == IF code = 0 /\ logged[1] >= 1 THEN 1 ELSE 0
             read == last = 0 /\ logged[2] >= Len(arbSwaps)
  <2>1. Len(chainTxs) = 2 /\ chainTxs[1] = UserTx(code) /\ chainTxs[2] = ArbTx(last, k, gain)
    BY <1>2, <1>6, TxsOfChain
  <2>2. Len(logged) = 2
    BY <1>1, <2>1
  <2>3. books = ZenithBooks(code, last, k, gain)
    BY <1>2, <1>6 DEF OnChain
  <2>4. books = [swaps      |-> Entries(arbSwaps, u, IF read THEN Len(arbSwaps) ELSE 0, k, gain),
                 zenithFees |-> IF read THEN Total(payments) ELSE 0,
                 userFees   |-> IF code = 0 THEN UserFee ELSE 0,
                 hotFees    |-> IF last = 0 THEN EstimateArbGas \div 200 ELSE 0]
    <3>1. Len(logged) >= 1
      BY <2>2
    <3> QED
      BY <2>2, <2>3, <3>1 DEF ZenithBooks
  <2>5. chainTxs[1].code = code /\ (AllLogged(1) => u = 1)
    <3>1. UserTx(code).code = code /\ UserTx(code).msgs = <<UserSwap>>
      BY DEF UserTx
    <3>2. Len(<<UserSwap>>) = 1
      OBVIOUS
    <3>3. AllLogged(1) => code = 0 /\ logged[1] = 1
      BY <2>1, <3>1, <3>2 DEF AllLogged
    <3> QED
      BY <2>1, <3>1, <3>3
  <2>6. AllLogged(2) => read
    <3>1. /\ ArbTx(last, k, gain).code = last
          /\ ArbTx(last, k, gain).msgs = ArbMsgs(k, gain) \o PaymentMsgs
      BY DEF ArbTx, HotWalletTx
    <3>2. Len(ArbMsgs(k, gain) \o PaymentMsgs) = Len(arbSwaps) + Len(payments)
      BY <1>3, ArbTxMsgs
    <3>3. AllLogged(2) => last = 0 /\ logged[2] = Len(arbSwaps) + Len(payments)
      BY <2>1, <3>1, <3>2 DEF AllLogged
    <3> QED
      BY <1>4, <3>3
  <2>7. HotWalletsTx.code = last /\ HotWalletsTx.fee = EstimateArbGas \div 200
    BY <2>1 DEF HotWalletsTx, ArbTx, HotWalletTx
  <2>8. u \in {0, 1} /\ read \in BOOLEAN /\ (read => last = 0)
    OBVIOUS
  <2> HIDE DEF u, read
  <2> QED
    BY <1>5, <1>6, <2>1, <2>4, <2>5, <2>6, <2>7, <2>8
<1>7. CASE service # "zenith"
  <2> DEFINE read == last = 0 /\ logged[1] > Len(arbSwaps)
             u == IF read THEN 1 ELSE 0
  <2>1. Len(chainTxs) = 1 /\ chainTxs[1] = AuthzTx(last, k, gain)
    BY <1>2, <1>7, TxsOfChain
  <2>2. Len(logged) = 1
    BY <1>1, <2>1
  <2>3. books = AuthzBooks(last, k, gain)
    BY <1>2, <1>7 DEF OnChain
  <2>4. books = [swaps      |-> Entries(arbSwaps, u, IF read THEN Len(arbSwaps) ELSE 0, k, gain),
                 zenithFees |-> 0,
                 userFees   |-> 0,
                 hotFees    |-> IF last = 0 THEN AuthzGas \div 200 ELSE 0]
    BY <2>2, <2>3 DEF AuthzBooks
  <2>5. AllLogged(1) => u = 1 /\ read
    <3>1. /\ AuthzTx(last, k, gain).code = last
          /\ AuthzTx(last, k, gain).msgs = <<Exec(UserSwap)>> \o ArbMsgs(k, gain)
      BY DEF AuthzTx, HotWalletTx
    <3>2. Len(<<Exec(UserSwap)>> \o ArbMsgs(k, gain)) = 1 + Len(arbSwaps)
      BY <1>3, AuthzTxMsgs
    <3>3. AllLogged(1) => last = 0 /\ logged[1] = 1 + Len(arbSwaps)
      BY <2>1, <3>1, <3>2 DEF AllLogged
    <3> QED
      BY <1>4, <3>3
  <2>6. HotWalletsTx.code = last /\ HotWalletsTx.fee = AuthzGas \div 200
    BY <2>1 DEF HotWalletsTx, AuthzTx, HotWalletTx
  <2>7. Total(payments) = 0
    BY <1>3, <1>7, TotalOfNone
  <2>8. u \in {0, 1} /\ read \in BOOLEAN /\ (read => last = 0)
    OBVIOUS
  <2> HIDE DEF u, read
  <2> QED
    BY <1>5, <1>7, <2>1, <2>4, <2>5, <2>6, <2>7, <2>8
<1> QED
  BY <1>6, <1>7

\* When the node returns the logs of every message, the books say what the
\* chain did (parser.go:179, :220, :228): for any number of messages, any
\* number of pools between, any auction and any amounts, of a bid and of an
\* authz swap.  The fees of a TX that succeeded need no log.
THEOREM BooksMatchChainHolds ==
  ASSUME MaxMsgs > 5 PROVE AccountingSpec => []BooksMatchChain
<1>1. ASSUME AccountingInv, ChainInv PROVE BooksMatchChain
  <2> SUFFICES ASSUME Booked
               PROVE  /\ AllLogged(1) =>
                           \E i \in UserSwaps :
                             /\ UserSwaps = {i}
                             /\ books.swaps[i] =
                                  [address |-> "user", tokenIn |-> Coin("other", UserSwap.in),
                                   tokenOut |-> Coin("base", UserSwap.out)]
                      /\ AllLogged(Len(chainTxs)) =>
                           Profit = result - Total(arbSwaps) /\ books.zenithFees = Total(payments)
                      /\ chainTxs[1].code = 0 =>
                           books.userFees = IF service = "zenith" THEN UserFee ELSE 0
                      /\ HotWalletsTx.code = 0 => books.hotFees = HotWalletsTx.fee
    BY DEF BooksMatchChain
  <2>1. PICK u \in {0, 1}, read \in BOOLEAN, k \in 0..Len(arbSwaps), gain \in Int :
          /\ books.swaps = Entries(arbSwaps, u, IF read THEN Len(arbSwaps) ELSE 0, k, gain)
          /\ books.zenithFees = IF read THEN Total(payments) ELSE 0
          /\ read => gain = result - Total(arbSwaps) /\ (k = 0 => gain = 0)
          /\ AllLogged(1) => u = 1
          /\ AllLogged(Len(chainTxs)) => read
          /\ chainTxs[1].code = 0 => books.userFees = IF service = "zenith" THEN UserFee ELSE 0
          /\ HotWalletsTx.code = 0 => books.hotFees = HotWalletsTx.fee
    BY <1>1, BooksTell
  <2> DEFINE w == IF read THEN Len(arbSwaps) ELSE 0
  <2>2. arbSwaps \in Seq(Nat)
    BY <1>1, TxsFit DEF ChainInv, Booked
  <2>3. w \in {0, Len(arbSwaps)}
    OBVIOUS
  <2>4. books.swaps = Entries(arbSwaps, u, w, k, gain)
    BY <2>1
  <2> HIDE DEF w
  <2>5. /\ UserSwaps = 1..u
        /\ u = 1 => books.swaps[1] = UserEntry
        /\ Profit = IF w = 0 \/ k = 0 THEN 0 ELSE gain
    BY <2>2, <2>3, <2>4, EntriesTell
  <2>6. ASSUME AllLogged(1)
        PROVE  \E i \in UserSwaps :
                 /\ UserSwaps = {i}
                 /\ books.swaps[i] = [address |-> "user", tokenIn |-> Coin("other", UserSwap.in),
                                      tokenOut |-> Coin("base", UserSwap.out)]
    <3>1. UserSwaps = {1}
      BY <2>1, <2>5, <2>6
    <3>2. books.swaps[1] = [address |-> "user", tokenIn |-> Coin("other", UserSwap.in),
                            tokenOut |-> Coin("base", UserSwap.out)]
      BY <2>1, <2>5, <2>6 DEF UserEntry
    <3> QED
      BY <3>1, <3>2
  <2>7. ASSUME AllLogged(Len(chainTxs)) PROVE Profit = result - Total(arbSwaps)
    <3>1. w = Len(arbSwaps) /\ gain = result - Total(arbSwaps) /\ (k = 0 => gain = 0)
      BY <2>1, <2>7 DEF w
    <3>2. w = 0 => k = 0
      BY <3>1
    <3> QED
      BY <2>5, <3>1, <3>2
  <2> QED
    BY <2>1, <2>6, <2>7
<1> QED
  BY <1>1, BooksInvariance, PTL

\* Whatever logs a node leaves out, the payments and the swaps of the
\* arbitrage TX are in the books together or not at all, and so is its profit
\* (parser.go:146, track_arbitrage.go:526), for any number of messages.
THEOREM AllOrNothingHolds ==
  ASSUME MaxMsgs > 5 PROVE AccountingSpec => []AllOrNothing
<1>1. ASSUME AccountingInv, ChainInv, Booked
      PROVE  \/ /\ Cardinality(ArbSwaps) = Len(arbSwaps) /\ books.zenithFees = Total(payments)
                /\ Profit = result - Total(arbSwaps)
             \/ ArbSwaps = {} /\ books.zenithFees = 0 /\ Profit = 0
  <2>1. PICK u \in {0, 1}, read \in BOOLEAN, k \in 0..Len(arbSwaps), gain \in Int :
          /\ books.swaps = Entries(arbSwaps, u, IF read THEN Len(arbSwaps) ELSE 0, k, gain)
          /\ books.zenithFees = IF read THEN Total(payments) ELSE 0
          /\ read => gain = result - Total(arbSwaps) /\ (k = 0 => gain = 0)
    BY <1>1, BooksTell
  <2> DEFINE w == IF read THEN Len(arbSwaps) ELSE 0
  <2>2. arbSwaps \in Seq(Nat)
    BY <1>1, TxsFit DEF ChainInv, Booked
  <2>3. w \in {0, Len(arbSwaps)} /\ w \in Nat
    BY <2>2
  <2>4. books.swaps = Entries(arbSwaps, u, w, k, gain)
    BY <2>1
  <2>5. w = IF read THEN Len(arbSwaps) ELSE 0
    OBVIOUS
  <2> HIDE DEF w
  <2>6. ArbSwaps = (u + 1)..(u + w) /\ Profit = IF w = 0 \/ k = 0 THEN 0 ELSE gain
    BY <2>2, <2>3, <2>4, EntriesTell
  <2>7. CASE read
    <3>1. Cardinality((u + 1)..(u + w)) = w
      <4>1. u + 1 \in Int /\ u + w \in Int
        BY <2>3
      <4>2. Cardinality((u + 1)..(u + w))
              = IF u + 1 > u + w THEN 0 ELSE (u + w) - (u + 1) + 1
        BY <4>1, FS_Interval
      <4> QED
        BY <2>3, <4>2
    <3>2. w = 0 => k = 0
      BY <2>5, <2>7
    <3> QED
      BY <2>1, <2>5, <2>6, <2>7, <3>1, <3>2
  <2>8. CASE ~read
    <3>1. ArbSwaps = {} /\ Profit = 0
      BY <2>5, <2>6, <2>8
    <3> QED
      BY <2>1, <2>8, <3>1
  <2> QED
    BY <2>7, <2>8
<1>2. AccountingInv /\ ChainInv => AllOrNothing
  BY <1>1 DEF AllOrNothing
<1> QED
  BY <1>2, BooksInvariance, PTL
=============================================================================
