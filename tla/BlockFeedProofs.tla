--------------------------- MODULE BlockFeedProofs --------------------------
(***************************************************************************)
(* What the block feed guarantees for any chain, window, number of         *)
(* subscribers and connections, and whatever the node sends: the average   *)
(* lies between two samples, a sample once taken keeps ProcessNewBlock     *)
(* from panicking, and no goroutine tells a block older than its own.      *)
(***************************************************************************)
EXTENDS BlockFeed, SequenceTheorems, WellFoundedInduction, TLAPS

\* Induction over the natural numbers, for a set: what holds is the set of
\* the numbers it holds for.
LEMMA EveryNat ==
  ASSUME NEW T, 0 \in T, \A n \in Nat : n \in T => n + 1 \in T
  PROVE  \A n \in Nat : n \in T
<1> SUFFICES ASSUME Nat \ T # {} PROVE FALSE
  OBVIOUS
<1>1. PICK x \in Nat \ T : \A y \in Nat \ T : ~(<<y, x>> \in OpToRel(<, Nat))
  BY NatLessThanWellFounded, WFMin, Zenon
<1>2. x # 0 /\ x - 1 \in Nat
  OBVIOUS
<1>3. x - 1 \in Nat \ T
  BY <1>2
<1>4. <<x - 1, x>> \in OpToRel(<, Nat)
  BY <1>2 DEF OpToRel
<1> QED
  BY <1>1, <1>3, <1>4

(***************************************************************************)
(* The sum of the samples.                                                 *)
(***************************************************************************)
\* p holds the sums of the first i elements of s, up to i = n.
IsSums(p, s, n) == p = [i \in 0..n |-> IF i = 0 THEN 0 ELSE p[i - 1] + s[i]]

LEMMA SumsExist == ASSUME NEW s PROVE \A n \in Nat : \E p : IsSums(p, s, n)
<1> DEFINE T == {n \in Nat : \E p : IsSums(p, s, n)}
<1>1. 0 \in T
  <2> DEFINE p == [i \in 0..0 |-> 0]
  <2>1. IsSums(p, s, 0)
    BY DEF IsSums
  <2> QED
    BY <2>1
<1>2. ASSUME NEW n \in Nat, n \in T PROVE n + 1 \in T
  <2>1. PICK p : IsSums(p, s, n)
    BY <1>2
  <2> DEFINE q == [i \in 0..(n + 1) |-> IF i = 0 THEN 0 ELSE p[i - 1] + s[i]]
  <2>2. \A i \in 0..n : q[i] = p[i]
    BY <2>1 DEF IsSums
  <2>3. \A i \in 1..(n + 1) : i - 1 \in 0..n
    OBVIOUS
  <2>4. ASSUME NEW i \in 0..(n + 1) PROVE q[i] = IF i = 0 THEN 0 ELSE q[i - 1] + s[i]
    <3>1. CASE i = 0
      BY <3>1
    <3>2. CASE i # 0
      <4>1. i \in 1..(n + 1)
        BY <3>2
      <4>2. q[i - 1] = p[i - 1]
        BY <2>2, <2>3, <4>1
      <4> QED
        BY <3>2, <4>2
    <3> QED
      BY <3>1, <3>2
  <2>5. q = [i \in 0..(n + 1) |-> q[i]]
    OBVIOUS
  <2> HIDE DEF q
  <2>6. IsSums(q, s, n + 1)
    BY <2>4, <2>5 DEF IsSums
  <2> QED
    BY <2>6
<1> HIDE DEF T
<1>3. \A n \in Nat : n \in T
  BY <1>1, <1>2, EveryNat
<1> QED
  BY <1>3 DEF T

\* Total is the last of the sums of the first elements.
LEMMA TotalBySums ==
  ASSUME NEW s, Len(s) \in Nat
  PROVE  \E p : /\ p[0] = 0 /\ \A i \in 1..Len(s) : p[i] = p[i - 1] + s[i]
                /\ Total(s) = p[Len(s)]
<1> DEFINE p == CHOOSE q : IsSums(q, s, Len(s))
<1>1. IsSums(p, s, Len(s))
  BY SumsExist
<1>2. Total(s) = p[Len(s)]
  BY DEF Total, IsSums
<1> HIDE DEF p
<1>3. p[0] = 0 /\ \A i \in 1..Len(s) : p[i] = p[i - 1] + s[i]
  BY <1>1 DEF IsSums
<1> QED
  BY <1>2, <1>3

\* A sum lies between the multiples of any bounds of its elements.
LEMMA TotalBounds ==
  ASSUME NEW s \in Seq(Nat), NEW a \in Nat, NEW b \in Nat
  PROVE  /\ Total(s) \in Nat
         /\ (\A i \in 1..Len(s) : a <= s[i]) => Len(s) * a <= Total(s)
         /\ (\A i \in 1..Len(s) : s[i] <= b) => Total(s) <= Len(s) * b
<1>1. Len(s) \in Nat
  OBVIOUS
<1>2. PICK p : /\ p[0] = 0 /\ \A i \in 1..Len(s) : p[i] = p[i - 1] + s[i]
               /\ Total(s) = p[Len(s)]
  BY <1>1, TotalBySums
<1> DEFINE Low == \A i \in 1..Len(s) : a <= s[i]
           High == \A i \in 1..Len(s) : s[i] <= b
           T == {n \in Nat : n <= Len(s) => /\ p[n] \in Nat
                                            /\ Low => n * a <= p[n]
                                            /\ High => p[n] <= n * b}
<1>3. 0 \in T
  BY <1>2
<1>4. ASSUME NEW n \in Nat, n \in T PROVE n + 1 \in T
  <2> SUFFICES ASSUME n + 1 <= Len(s)
               PROVE  /\ p[n + 1] \in Nat
                      /\ Low => (n + 1) * a <= p[n + 1]
                      /\ High => p[n + 1] <= (n + 1) * b
    OBVIOUS
  <2>1. n + 1 \in 1..Len(s) /\ (n + 1) - 1 = n
    BY <1>1
  <2>2. s[n + 1] \in Nat
    BY <2>1, ElementOfSeq
  <2>3. p[n] \in Nat /\ (Low => n * a <= p[n]) /\ (High => p[n] <= n * b)
    BY <1>1, <1>4, <2>1
  <2>4. p[n + 1] = p[n] + s[n + 1]
    BY <1>2, <2>1
  <2>5. /\ (n + 1) * a = n * a + a /\ n * a \in Nat
        /\ (n + 1) * b = n * b + b /\ n * b \in Nat
    OBVIOUS
  <2>6. (Low => a <= s[n + 1]) /\ (High => s[n + 1] <= b)
    BY <2>1
  <2> HIDE DEF Low, High
  <2> QED
    BY <2>2, <2>3, <2>4, <2>5, <2>6
<1> HIDE DEF T
<1>5. \A n \in Nat : n \in T
  BY <1>3, <1>4, EveryNat
<1>6. Len(s) \in T
  BY <1>1, <1>5
<1> QED
  BY <1>1, <1>2, <1>6 DEF T

\* The average of some samples is a number between two of them.
LEMMA AverageIsBetween ==
  ASSUME NEW s \in Seq(Nat), s # <<>>
  PROVE  /\ Average(s) \in Nat
         /\ \E i, j \in DOMAIN s : s[i] <= Average(s) /\ Average(s) <= s[j]
<1> DEFINE n == Len(s)
           t == Total(s)
           q == Average(s)
<1>1. n \in Nat \ {0} /\ DOMAIN s = 1..n
  BY EmptySeq
<1>2. t \in Nat
  BY TotalBounds
<1>3. ASSUME NEW m \in Nat \ {0}, NEW v \in Nat
      PROVE  LET d == v \div m IN d \in Nat /\ m * d <= v /\ v < m * d + m
  OBVIOUS
<1>4. q = t \div n
  BY DEF Average
<1>5. q \in Nat /\ n * q <= t /\ t < n * q + n
  BY <1>1, <1>2, <1>3, <1>4
<1>6. \A i \in 1..n : s[i] \in Nat
  BY ElementOfSeq
<1>7. \E i \in DOMAIN s : s[i] <= q
  <2> SUFFICES ASSUME \A i \in 1..n : ~(s[i] <= q) PROVE FALSE
    BY <1>1
  <2> HIDE DEF q
  <2>1. q + 1 \in Nat /\ \A i \in 1..n : q + 1 <= s[i]
    BY <1>5, <1>6
  <2>2. n * (q + 1) <= t
    BY <1>5, <2>1, TotalBounds
  <2> HIDE DEF n, t
  <2>3. n * (q + 1) = n * q + n /\ n * q \in Nat
    BY <1>1, <1>5
  <2> QED
    BY <1>1, <1>2, <1>5, <2>2, <2>3
<1>8. \E j \in DOMAIN s : q <= s[j]
  <2> SUFFICES ASSUME \A j \in 1..n : ~(q <= s[j]) PROVE FALSE
    BY <1>1
  <2> HIDE DEF q
  <2>1. q - 1 \in Nat
    BY <1>1, <1>5, <1>6
  <2>2. \A j \in 1..n : s[j] <= q - 1
    BY <1>5, <1>6
  <2>3. t <= n * (q - 1)
    BY <2>1, <2>2, TotalBounds
  <2> HIDE DEF n, t
  <2>4. n * (q - 1) = n * q - n /\ n * q \in Nat
    BY <1>1, <1>5
  <2> QED
    BY <1>1, <1>2, <1>5, <2>3, <2>4
<1> QED
  BY <1>5, <1>7, <1>8

(***************************************************************************)
(* The invariant.  A height may come again after a reconnection, and an    *)
(* older one too, but none that the chain has not reached.                 *)
(***************************************************************************)
HandedOver == lastHeight <= chainHeight /\ channel <= chainHeight

LinkInv ==
  /\ chainHeight \in 0..MaxHeight /\ seen \in 0..chainHeight
  /\ link \in {"dialing", "open", "broken"}
  /\ fails \in 0..(ExitAfterFails - 1) /\ connections \in 0..MaxReconnects
  /\ process \in {"up", "panicked", "exited"}
  /\ process = "up" => connections < MaxReconnects
  /\ channel \in Nat /\ lastHeight \in Nat
  /\ HandedOver

TimerInv ==
  /\ trackedBlockTimes \in Seq(BlockTimes) /\ Len(trackedBlockTimes) <= Window
  /\ averageBlockTime \in Nat
  /\ trackedBlockTimes # <<>> => averageBlockTime = Average(trackedBlockTimes)
  /\ process = "panicked" => trackedBlockTimes = <<>>

\* The last goroutine is that of the last height, which is all that the
\* others can still read.
NotifyInv ==
  /\ notifying \in Seq([block : 1..MaxHeight, called : 0..Subscribers])
  /\ notifying # <<>> => lastHeight = notifying[Len(notifying)].block
  /\ lastHeight = 0 => notifying = <<>>
  /\ calls \subseteq (1..Subscribers) \X (DOMAIN notifying) \X (1..MaxHeight)
  /\ NeverBeforeItsBlock

IInv == LinkInv /\ TimerInv /\ NotifyInv

LEMMA ConstantsAreNat ==
  /\ MaxHeight \in Nat \ {0} /\ Window \in Nat \ {0} /\ ExitAfterFails \in Nat \ {0}
  /\ MaxReconnects \in Nat \ {0} /\ Subscribers \in Nat \ {0} /\ BlockTimes \subseteq Nat
  BY FeedAssumption

LEMMA InvInit == ASSUME Init PROVE IInv
<1>1. LinkInv
  BY ConstantsAreNat DEF Init, LinkInv, HandedOver
<1>2. TimerInv
  BY ConstantsAreNat, EmptySeq DEF Init, TimerInv
<1>3. NotifyInv
  BY EmptySeq DEF Init, NotifyInv, NeverBeforeItsBlock
<1> QED
  BY <1>1, <1>2, <1>3 DEF IInv

LEMMA GoroutineFits ==
  ASSUME IInv, NEW g \in DOMAIN notifying
  PROVE  /\ notifying[g] \in [block : 1..MaxHeight, called : 0..Subscribers]
         /\ g \in 1..Len(notifying)
<1>1. notifying \in Seq([block : 1..MaxHeight, called : 0..Subscribers])
  BY DEF IInv, NotifyInv
<1>2. g \in 1..Len(notifying)
  BY <1>1
<1>3. notifying[g] \in [block : 1..MaxHeight, called : 0..Subscribers]
  BY <1>1, <1>2, ElementOfSeq
<1> QED
  BY <1>2, <1>3

\* The steps of the chain and of AwaitBlocks.
LEMMA ReaderInv ==
  ASSUME IInv, NewBlock \/ Dial \/ DialFails \/ Break \/ Read PROVE IInv'
<1>1. UNCHANGED <<lastHeight, timer, notifying, calls>> /\ process' \in {process, "exited"}
  BY DEF NewBlock, Dial, DialFails, Break, Read, ReadFails, ReadGarbage, ReadHeader, Fail,
         Reconnect
<1>2. TimerInv' /\ NotifyInv'
  BY <1>1 DEF IInv, TimerInv, NotifyInv, NeverBeforeItsBlock, timer
<1>3. ASSUME Reconnect, process = "up" PROVE LinkInv'
  BY <1>3, ConstantsAreNat DEF Reconnect, IInv, LinkInv, HandedOver
<1>4. ASSUME NEW n \in Nat, Fail(n), process = "up" PROVE LinkInv'
  <2>1. CASE Reconnect
    BY <1>3, <1>4, <2>1
  <2>2. CASE ~Reconnect
    BY <1>4, <2>2, ConstantsAreNat DEF Fail, IInv, LinkInv, HandedOver
  <2> QED
    BY <2>1, <2>2
<1>5. ASSUME NewBlock PROVE LinkInv'
  BY <1>5, ConstantsAreNat DEF NewBlock, reader, IInv, LinkInv, HandedOver
<1>6. ASSUME Dial PROVE LinkInv'
  BY <1>6, ConstantsAreNat DEF Dial, IInv, LinkInv, HandedOver
<1>7. ASSUME Break PROVE LinkInv'
  BY <1>7 DEF Break, IInv, LinkInv, HandedOver
<1>8. ASSUME ReadHeader PROVE LinkInv'
  BY <1>8, ConstantsAreNat DEF ReadHeader, IInv, LinkInv, HandedOver
<1>9. ASSUME ReadFails \/ ReadGarbage PROVE LinkInv'
  BY <1>4, <1>9 DEF ReadFails, ReadGarbage, FailsPerRead
<1>10. ASSUME DialFails PROVE LinkInv'
  BY <1>3, <1>10 DEF DialFails
<1> QED
  BY <1>2, <1>5, <1>6, <1>7, <1>8, <1>9, <1>10 DEF IInv, Read

LEMMA FirstBlockInv == ASSUME IInv, FirstBlock PROVE IInv'
<1>1. LinkInv'
  BY DEF FirstBlock, reader, IInv, LinkInv, HandedOver
<1>2. TimerInv'
  BY DEF FirstBlock, timer, IInv, TimerInv
<1>3. NotifyInv'
  BY DEF FirstBlock, IInv, LinkInv, NotifyInv, NeverBeforeItsBlock
<1> QED
  BY <1>1, <1>2, <1>3 DEF IInv

\* A sample more, or the samples there were.
LEMMA SampledFits ==
  ASSUME NEW s \in Seq(BlockTimes), Len(s) <= Window, NEW gap, NEW ms \in BlockTimes
  PROVE  /\ Sampled(s, gap, ms) \in Seq(BlockTimes) /\ Len(Sampled(s, gap, ms)) <= Window
         /\ s # <<>> => Sampled(s, gap, ms) # <<>>
<1>1. CASE gap # 1
  BY <1>1 DEF Sampled
<1>2. CASE gap = 1 /\ Len(s) = Window
  <2>1. s # <<>> /\ Len(s) \in Nat \ {0}
    BY <1>2, ConstantsAreNat, EmptySeq
  <2>2. Tail(s) \in Seq(BlockTimes) /\ Len(Tail(s)) = Len(s) - 1
    BY <2>1
  <2> DEFINE t == Tail(s)
  <2> HIDE DEF t
  <2>3. Append(t, ms) \in Seq(BlockTimes) /\ Len(Append(t, ms)) = Len(s)
    BY <2>1, <2>2 DEF t
  <2>4. Append(t, ms) # <<>>
    BY <2>1, <2>3, EmptySeq
  <2> QED
    BY <1>2, <2>3, <2>4 DEF Sampled, t
<1>3. CASE gap = 1 /\ Len(s) # Window
  <2>1. /\ Append(s, ms) \in Seq(BlockTimes) /\ Len(Append(s, ms)) = Len(s) + 1
        /\ Append(s, ms) # <<>> /\ Len(s) \in Nat
    OBVIOUS
  <2> QED
    BY <1>3, <2>1, ConstantsAreNat DEF Sampled
<1> QED
  BY <1>1, <1>2, <1>3

LEMMA NextBlockInv == ASSUME IInv, NextBlock PROVE IInv'
<1>1. /\ process = "up" /\ channel # 0 /\ lastHeight # 0 /\ channel' = 0
      /\ UNCHANGED <<chainHeight, reader, calls>>
  BY DEF NextBlock
<1>2. lastHeight \in Nat /\ channel \in 1..MaxHeight
  BY <1>1, ConstantsAreNat DEF IInv, LinkInv, HandedOver
<1>3. PICK ms \in BlockTimes :
        LET times == Sampled(trackedBlockTimes, channel - lastHeight, ms)
        IN  IF times = <<>>
            THEN process' = "panicked" /\ UNCHANGED <<timer, lastHeight, notifying>>
            ELSE /\ trackedBlockTimes' = times
                 /\ averageBlockTime' = Average(times)
                 /\ lastHeight' = channel
                 /\ notifying' = Append(notifying, [block |-> channel, called |-> 0])
                 /\ UNCHANGED process
  BY DEF NextBlock
<1> DEFINE times == Sampled(trackedBlockTimes, channel - lastHeight, ms)
<1>4. CASE times = <<>>
  <2>1. process' = "panicked" /\ UNCHANGED <<timer, lastHeight, notifying>>
    BY <1>3, <1>4
  <2>2. LinkInv'
    BY <1>1, <2>1 DEF IInv, LinkInv, HandedOver, reader
  <2>3. trackedBlockTimes = <<>>
    BY <1>4, SampledFits DEF IInv, TimerInv
  <2>4. TimerInv' /\ NotifyInv'
    BY <1>1, <2>1, <2>3 DEF IInv, TimerInv, NotifyInv, NeverBeforeItsBlock, timer
  <2> QED
    BY <2>2, <2>4 DEF IInv
<1>5. CASE times # <<>>
  <2> DEFINE new == [block |-> channel, called |-> 0]
  <2>1. /\ trackedBlockTimes' = times /\ averageBlockTime' = Average(times)
        /\ lastHeight' = channel /\ notifying' = Append(notifying, new) /\ UNCHANGED process
    BY <1>3, <1>5
  <2>2. LinkInv'
    BY <1>1, <1>2, <2>1 DEF IInv, LinkInv, HandedOver, reader
  <2>3. times \in Seq(BlockTimes) /\ Len(times) <= Window
    BY SampledFits DEF IInv, TimerInv
  <2>4. Average(times) \in Nat
    <3>1. times \in Seq(Nat)
      BY <2>3, SeqMonotonic, ConstantsAreNat
    <3> QED
      BY <1>5, <3>1, AverageIsBetween
  <2> HIDE DEF times
  <2>5. TimerInv'
    BY <1>1, <2>1, <2>3, <2>4 DEF TimerInv
  <2>6. /\ notifying \in Seq([block : 1..MaxHeight, called : 0..Subscribers])
        /\ new \in [block : 1..MaxHeight, called : 0..Subscribers] /\ new.block = channel
    BY <1>2, ConstantsAreNat DEF IInv, NotifyInv
  <2> HIDE DEF new
  <2>7. /\ notifying' \in Seq([block : 1..MaxHeight, called : 0..Subscribers])
        /\ Len(notifying') = Len(notifying) + 1 /\ Len(notifying) \in Nat
        /\ notifying' # <<>> /\ notifying'[Len(notifying')] = new
        /\ \A g \in DOMAIN notifying : g \in DOMAIN notifying' /\ notifying'[g] = notifying[g]
    BY <2>1, <2>6
  <2>8. NeverBeforeItsBlock'
    <3> SUFFICES ASSUME NEW c \in calls
                 PROVE  \E g \in c[2]..Len(notifying') : notifying'[g].block = c[3]
      BY <1>1 DEF NeverBeforeItsBlock
    <3>1. PICK g \in c[2]..Len(notifying) : notifying[g].block = c[3]
      BY DEF IInv, NotifyInv, NeverBeforeItsBlock
    <3>2. c[2] \in 1..Len(notifying)
      BY <2>6 DEF IInv, NotifyInv
    <3>3. g \in 1..Len(notifying) /\ g \in c[2]..Len(notifying')
      BY <2>7, <3>1, <3>2
    <3>4. g \in DOMAIN notifying
      BY <2>6, <3>3
    <3> QED
      BY <2>7, <3>1, <3>3, <3>4
  <2>9. calls \subseteq (1..Subscribers) \X (DOMAIN notifying') \X (1..MaxHeight)
    BY <2>7 DEF IInv, NotifyInv
  <2>10. NotifyInv'
    BY <1>1, <1>2, <2>1, <2>6, <2>7, <2>8, <2>9 DEF NotifyInv
  <2> QED
    BY <2>2, <2>5, <2>10 DEF IInv
<1> QED
  BY <1>4, <1>5

LEMMA CallSubscriberInv ==
  ASSUME IInv, NEW g \in DOMAIN notifying, CallSubscriber(g) PROVE IInv'
<1> DEFINE n == NextSubscriber(g)
           call == <<n, g, lastHeight>>
<1>1. /\ n <= Subscribers /\ notifying' = [notifying EXCEPT ![g].called = n]
      /\ calls' = calls \cup {call}
      /\ UNCHANGED <<chainHeight, reader, channel, lastHeight, timer, process>>
  BY DEF CallSubscriber, HeightNow
<1>2. LinkInv' /\ TimerInv'
  BY <1>1 DEF IInv, LinkInv, HandedOver, TimerInv, reader, timer
<1>3. notifying[g] \in [block : 1..MaxHeight, called : 0..Subscribers] /\ g \in 1..Len(notifying)
  BY GoroutineFits
<1>4. /\ notifying \in Seq([block : 1..MaxHeight, called : 0..Subscribers])
      /\ notifying # <<>> /\ n \in 1..Subscribers
  BY <1>1, <1>3, ConstantsAreNat, EmptySeq DEF IInv, NotifyInv, NextSubscriber
<1>5. /\ Len(notifying) \in 1..Len(notifying)
      /\ lastHeight = notifying[Len(notifying)].block /\ lastHeight \in 1..MaxHeight
  <2>1. Len(notifying) \in 1..Len(notifying)
    BY <1>3, <1>4
  <2>2. notifying[Len(notifying)] \in [block : 1..MaxHeight, called : 0..Subscribers]
    BY <1>4, <2>1, ElementOfSeq
  <2> QED
    BY <1>4, <2>1, <2>2 DEF IInv, NotifyInv
<1> HIDE DEF n
<1> DEFINE new == [notifying[g] EXCEPT !.called = n]
<1>6. new \in [block : 1..MaxHeight, called : 0..Subscribers] /\ new.block = notifying[g].block
  BY <1>3, <1>4
<1>7. notifying' = [notifying EXCEPT ![g] = new]
  BY <1>1
<1> HIDE DEF new
<1>8. notifying' \in Seq([block : 1..MaxHeight, called : 0..Subscribers])
  BY <1>3, <1>4, <1>6, <1>7, ExceptSeq
<1>9. /\ Len(notifying') = Len(notifying) /\ DOMAIN notifying' = 1..Len(notifying)
      /\ notifying' # <<>>
      /\ \A f \in 1..Len(notifying) : notifying'[f].block = notifying[f].block
  BY <1>3, <1>4, <1>6, <1>7, <1>8, EmptySeq
<1>10. calls' \subseteq (1..Subscribers) \X (DOMAIN notifying') \X (1..MaxHeight)
  BY <1>1, <1>3, <1>4, <1>5, <1>9 DEF IInv, NotifyInv
<1>11. NeverBeforeItsBlock'
  <2> SUFFICES ASSUME NEW c \in calls'
               PROVE  \E f \in c[2]..Len(notifying') : notifying'[f].block = c[3]
    BY DEF NeverBeforeItsBlock
  <2>1. CASE c \in calls
    <3>1. PICK f \in c[2]..Len(notifying) : notifying[f].block = c[3]
      BY <2>1 DEF IInv, NotifyInv, NeverBeforeItsBlock
    <3>2. f \in 1..Len(notifying)
      BY <1>4, <2>1 DEF IInv, NotifyInv
    <3> QED
      BY <1>9, <3>1, <3>2
  <2>2. CASE c = call
    <3>1. Len(notifying) \in c[2]..Len(notifying')
      BY <1>3, <1>9, <2>2
    <3> QED
      BY <1>5, <1>9, <2>2, <3>1
  <2> QED
    BY <1>1, <2>1, <2>2
<1>12. NotifyInv'
  BY <1>1, <1>5, <1>8, <1>9, <1>10, <1>11 DEF NotifyInv
<1> QED
  BY <1>2, <1>12 DEF IInv

\* The invariant of every behaviour.
LEMMA InvNext == ASSUME IInv, [Next]_vars PROVE IInv'
<1>1. CASE UNCHANGED vars
  BY <1>1 DEF vars, reader, timer, IInv, LinkInv, HandedOver, TimerInv, NotifyInv,
              NeverBeforeItsBlock
<1> QED
  BY <1>1, ReaderInv, FirstBlockInv, NextBlockInv, CallSubscriberInv DEF Next, Notify

LEMMA Invariance == Spec => []IInv
  BY InvInit, InvNext, PTL DEF Spec

\* The state has its types: the count of failed reads stays below its limit,
\* the window is never overfull, and a goroutine never runs past the last
\* subscriber.
THEOREM TypeCorrect == Spec => []FeedTypeOK
<1>1. IInv => FeedTypeOK
  BY ConstantsAreNat DEF IInv, LinkInv, HandedOver, TimerInv, NotifyInv, FeedTypeOK
<1> QED
  BY <1>1, Invariance, PTL

\* The average block time lies between two measured ones
\* (track_blocks.go:56), whatever the times and the size of the window.
THEOREM AverageIsOfSamplesHolds == Spec => []AverageIsOfSamples
<1>1. ASSUME IInv PROVE AverageIsOfSamples
  <2>1. trackedBlockTimes \in Seq(Nat)
    BY <1>1, SeqMonotonic, ConstantsAreNat DEF IInv, TimerInv
  <2> QED
    BY <1>1, <2>1, AverageIsBetween DEF IInv, TimerInv, AverageIsOfSamples
<1> QED
  BY <1>1, Invariance, PTL

\* However late a goroutine calls a subscriber, it tells the height of its block
\* or of one that was processed later (track_blocks.go:64), whatever heights the
\* nodes send.
THEOREM NeverBeforeItsBlockHolds == Spec => []NeverBeforeItsBlock
<1>1. IInv => NeverBeforeItsBlock
  BY DEF IInv, NotifyInv
<1> QED
  BY <1>1, Invariance, PTL

\* With a sample there is always one: only the first block that does not
\* follow the one before can divide by zero (track_blocks.go:56).
THEOREM SampledNeverPanicsHolds == Spec => SampledNeverPanics
<1>1. ASSUME IInv, IInv', [Next]_vars
      PROVE  [trackedBlockTimes # <<>> => process' # "panicked"]_vars
  <2> SUFFICES ASSUME trackedBlockTimes # <<>>, Next, process' = "panicked" PROVE FALSE
    BY <1>1
  <2>1. trackedBlockTimes' = <<>> /\ process # "panicked"
    BY <1>1 DEF IInv, TimerInv
  <2>2. NextBlock
    BY <2>1
       DEF Next, NewBlock, Dial, DialFails, Break, Read, ReadFails, ReadGarbage, ReadHeader,
           Fail, Reconnect, FirstBlock, Notify, CallSubscriber
  <2>3. \A ms \in BlockTimes : Sampled(trackedBlockTimes, channel - lastHeight, ms) # <<>>
    BY <1>1, SampledFits DEF IInv, TimerInv
  <2> QED
    BY <2>1, <2>2, <2>3 DEF NextBlock
<1> QED
  BY <1>1, Invariance, PTL DEF Spec, SampledNeverPanics

(***************************************************************************)
(* What waiting for the previous block's subscribers would buy.            *)
(***************************************************************************)
AllCalled == \A g \in DOMAIN notifying : notifying[g].called = Subscribers

\* The next block is processed when the last one's subscribers are done.  The
\* code does not wait for them; it is so as long as they are fast enough.
BlocksWait == [][lastHeight' # lastHeight => AllCalled]_vars

NotifiedInv ==
  \A g \in DOMAIN notifying :
    /\ notifying[g].called # Subscribers => notifying[g].block = lastHeight
    /\ \A s \in 1..notifying[g].called : <<s, g, notifying[g].block>> \in calls

LEMMA NotifiedStep ==
  ASSUME IInv, NotifiedInv, [Next]_vars, [lastHeight' # lastHeight => AllCalled]_vars
  PROVE  NotifiedInv'
<1>1. CASE UNCHANGED <<lastHeight, notifying, calls>>
  BY <1>1 DEF NotifiedInv
<1>2. CASE FirstBlock
  <2>1. notifying = <<>> /\ notifying' = notifying
    BY <1>2 DEF FirstBlock, IInv, NotifyInv
  <2> QED
    BY <2>1 DEF NotifiedInv
<1>3. CASE NextBlock /\ notifying' # notifying
  <2> DEFINE new == [block |-> channel, called |-> 0]
  <2>1. /\ notifying' = Append(notifying, new)
        /\ lastHeight' = channel /\ calls' = calls /\ (lastHeight' # lastHeight => AllCalled)
    BY <1>3 DEF NextBlock, vars
  <2>2. new.block = channel /\ new.called = 0
    OBVIOUS
  <2>3. notifying \in Seq([block : 1..MaxHeight, called : 0..Subscribers])
    BY DEF IInv, NotifyInv
  <2>4. channel \in 1..MaxHeight
    BY <1>3, ConstantsAreNat DEF NextBlock, IInv, LinkInv, HandedOver
  <2>5. new \in [block : 1..MaxHeight, called : 0..Subscribers]
    BY <2>4, ConstantsAreNat
  <2> HIDE DEF new
  <2>6. \A g \in DOMAIN notifying' :
          notifying'[g] = new \/ (g \in DOMAIN notifying /\ notifying'[g] = notifying[g])
    BY <2>1, <2>3, <2>5
  <2> QED
    BY <2>1, <2>2, <2>6 DEF NotifiedInv, AllCalled
<1>4. ASSUME NEW g \in DOMAIN notifying, CallSubscriber(g) PROVE NotifiedInv'
  <2> DEFINE n == notifying[g].called + 1
             new == [notifying[g] EXCEPT !.called = n]
  <2>1. /\ n <= Subscribers /\ notifying' = [notifying EXCEPT ![g].called = n]
        /\ calls' = calls \cup {<<n, g, lastHeight>>}
        /\ lastHeight' = lastHeight
    BY <1>4 DEF CallSubscriber, NextSubscriber, HeightNow
  <2>2. notifying[g] \in [block : 1..MaxHeight, called : 0..Subscribers]
    BY GoroutineFits
  <2>3. notifying[g].block = lastHeight
    BY <2>1, <2>2, ConstantsAreNat DEF NotifiedInv
  <2>4. new.block = lastHeight /\ new.called = n /\ n \in Nat \ {0}
    BY <2>2, <2>3
  <2>5. \A f \in DOMAIN notifying' :
          f \in DOMAIN notifying /\ notifying'[f] = IF f = g THEN new ELSE notifying[f]
    BY <2>1
  <2>6. \A s \in 1..n : s = n \/ s \in 1..notifying[g].called
    BY <2>2
  <2> HIDE DEF n, new
  <2>7. \A s \in 1..n : <<s, g, lastHeight>> \in calls'
    BY <2>1, <2>3, <2>6 DEF NotifiedInv
  <2>8. ASSUME NEW f \in DOMAIN notifying'
        PROVE  /\ notifying'[f].called # Subscribers => notifying'[f].block = lastHeight'
               /\ \A s \in 1..notifying'[f].called : <<s, f, notifying'[f].block>> \in calls'
    <3>1. CASE f = g
      BY <2>1, <2>4, <2>5, <2>7, <3>1
    <3>2. CASE f # g
      BY <2>1, <2>5, <3>2 DEF NotifiedInv
    <3> QED
      BY <3>1, <3>2
  <2> QED
    BY <2>8 DEF NotifiedInv
<1>5. CASE NewBlock \/ Dial \/ DialFails \/ Break \/ Read
  BY <1>1, <1>5
     DEF NewBlock, Dial, DialFails, Break, Read, ReadFails, ReadGarbage, ReadHeader, Fail, Reconnect
<1>6. CASE NextBlock /\ notifying' = notifying
  <2>1. UNCHANGED <<lastHeight, notifying, calls>>
    <3>1. notifying \in Seq([block : 1..MaxHeight, called : 0..Subscribers])
      BY DEF IInv, NotifyInv
    <3>2. channel \in 1..MaxHeight
      BY <1>6, ConstantsAreNat DEF NextBlock, IInv, LinkInv, HandedOver
    <3> DEFINE new == [block |-> channel, called |-> 0]
    <3>3. new \in [block : 1..MaxHeight, called : 0..Subscribers]
      BY <3>2, ConstantsAreNat
    <3> HIDE DEF new
    <3>4. notifying # Append(notifying, new)
      BY <3>1, <3>3
    <3> QED
      BY <1>6, <3>4 DEF NextBlock, new
  <2> QED
    BY <1>1, <2>1
<1> QED
  BY <1>1, <1>2, <1>3, <1>4, <1>5, <1>6 DEF Next, Notify, vars

\* "Notify subscribers about the new block" (track_blocks.go:62) holds if
\* blocks wait for each other: it is the overlap of goroutines, not the captured
\* variable alone, that hides a block from a subscriber.
THEOREM EveryBlockIsNotifiedHolds == Spec /\ BlocksWait => []EveryBlockIsNotified
<1>1. Init => NotifiedInv
  BY DEF Init, NotifiedInv
<1>2. IInv /\ NotifiedInv => EveryBlockIsNotified
  BY DEF NotifiedInv, EveryBlockIsNotified
<1>3. IInv /\ NotifiedInv /\ [Next]_vars /\ [lastHeight' # lastHeight => AllCalled]_vars
        => NotifiedInv'
  BY NotifiedStep
<1> QED
  BY <1>1, <1>2, <1>3, Invariance, PTL DEF Spec, BlocksWait
=============================================================================
