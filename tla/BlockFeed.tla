------------------------------ MODULE BlockFeed -----------------------------
(***************************************************************************)
(* From the node's websocket to the subscribers: AwaitBlocks reads the     *)
(* messages of a connection (osmosis/blocks.go), TrackBlocks reconnects,   *)
(* ProcessNewBlock keeps the average block time and starts a goroutine     *)
(* per block that calls the subscribers (osmosis/track_blocks.go).         *)
(*                                                                         *)
(* The goroutines capture ProcessNewBlock's variable lastHeight, not its   *)
(* value: each subscriber is called with the height of the moment.         *)
(***************************************************************************)
EXTENDS Integers, Sequences

CONSTANTS
  MaxHeight,       \* bound: the last block of the chain
  BlockTimes,      \* milliseconds between two blocks that are measured
  Window,          \* samples in the moving average (10 in the code)
  ExitAfterFails,  \* exitAfterFails of AwaitBlocks (10 in the code)
  MaxReconnects,   \* connections TrackBlocks makes before os.Exit (10)
  Subscribers,     \* how many subscribers there are (4 in main.go)
  LinkMayFail,     \* the connection may break and messages be lost
  MaxLag           \* bound: how far the node is behind the chain when dialed

ASSUME FeedAssumption ==
  /\ {MaxHeight, Window, ExitAfterFails, MaxReconnects, Subscribers} \subseteq Nat \ {0}
  /\ BlockTimes \subseteq Nat
  /\ LinkMayFail \in BOOLEAN /\ MaxLag \in Nat

VARIABLES
  chainHeight,        \* the chain's height
  link,               \* the websocket: "dialing", "open", "broken"
  seen,               \* the last header that was sent over the websocket
  fails,              \* AwaitBlocks's count of this connection
  connections,        \* TrackBlocks's count
  channel,            \* a height being handed over (0: none)
  lastHeight,         \* ProcessNewBlock's; 0 before the first block
  trackedBlockTimes,  \* its samples
  averageBlockTime,   \* the package variable
  notifying,          \* goroutines: block started for -> subscribers called
  calls,              \* <<subscriber, goroutine, height>>: what it was called with
  process             \* "up", "panicked" or "exited"

reader == <<link, seen, fails, connections>>
timer == <<trackedBlockTimes, averageBlockTime>>
vars == <<chainHeight, reader, channel, lastHeight, timer, notifying, calls, process>>

Init ==
  /\ chainHeight = 0
  /\ link = "dialing" /\ seen = 0 /\ fails = 0 /\ connections = 0
  /\ channel = 0 /\ lastHeight = 0
  /\ trackedBlockTimes = <<>> /\ averageBlockTime = 0
  /\ notifying = <<>> /\ calls = {}
  /\ process = "up"

NewBlock ==
  /\ chainHeight < MaxHeight
  /\ chainHeight' = chainHeight + 1
  /\ UNCHANGED <<reader, channel, lastHeight, timer, notifying, calls, process>>

(***************************************************************************)
(* TrackBlocks and AwaitBlocks.                                            *)
(***************************************************************************)
\* A header is sent when it is new; those made while there was no
\* connection are lost.  The node may lag behind the chain, and behind the node
\* of the connection before: it sends headers again.
Dial ==
  /\ process = "up" /\ link = "dialing"
  /\ link' = "open" /\ fails' = 0
  /\ seen' \in {h \in 0..chainHeight : chainHeight - h <= MaxLag}
  /\ UNCHANGED <<chainHeight, connections, channel, lastHeight, timer, notifying, calls, process>>

\* AwaitBlocks returns; TrackBlocks calls it again, or ends the process.
\* The count of connections is never reset.
Reconnect ==
  /\ connections' = connections + 1
  /\ link' = "dialing"
  /\ process' = IF connections' = MaxReconnects THEN "exited" ELSE process
  /\ UNCHANGED <<chainHeight, seen, fails, channel, lastHeight, timer, notifying, calls>>

DialFails ==
  /\ process = "up" /\ link = "dialing" /\ LinkMayFail
  /\ Reconnect

Break ==
  /\ process = "up" /\ link = "open" /\ LinkMayFail
  /\ link' = "broken"
  /\ UNCHANGED <<chainHeight, seen, fails, connections, channel, lastHeight, timer, notifying,
                 calls, process>>

\* After a failed read the empty message fails to parse too.
FailsPerRead == 2

Fail(n) ==
  IF fails + n >= ExitAfterFails THEN Reconnect
  ELSE /\ fails' = fails + n
       /\ UNCHANGED <<chainHeight, link, seen, connections, channel, lastHeight, timer,
                      notifying, calls, process>>

\* A broken connection fails every further read.
ReadFails == process = "up" /\ link = "broken" /\ channel = 0 /\ Fail(FailsPerRead)

ReadGarbage == process = "up" /\ link = "open" /\ channel = 0 /\ LinkMayFail /\ Fail(1)

ReadHeader ==
  /\ process = "up" /\ link = "open" /\ channel = 0 /\ seen < chainHeight
  /\ seen' = seen + 1 /\ channel' = seen + 1
  /\ UNCHANGED <<chainHeight, link, fails, connections, lastHeight, timer, notifying, calls, process>>

(***************************************************************************)
(* ProcessNewBlock.                                                        *)
(***************************************************************************)
FirstBlock ==
  /\ process = "up" /\ channel # 0 /\ lastHeight = 0
  /\ lastHeight' = channel /\ channel' = 0
  /\ UNCHANGED <<chainHeight, reader, timer, notifying, calls, process>>

\* Mutants: the oldest sample stays, or a gap starts the average afresh.
SampledForever(times, gap, ms) == IF gap = 1 THEN Append(times, ms) ELSE times
SampledAfresh(times, gap, ms) ==
  IF gap # 1 THEN <<>>
  ELSE IF Len(times) = Window THEN Append(Tail(times), ms) ELSE Append(times, ms)

\* Only a block that follows the last one is measured.
Sampled(times, gap, ms) ==
  IF gap # 1 THEN times
  ELSE IF Len(times) = Window THEN Append(Tail(times), ms) ELSE Append(times, ms)

Total(times) ==
  LET sum[i \in 0..Len(times)] == IF i = 0 THEN 0 ELSE sum[i - 1] + times[i]
  IN  sum[Len(times)]

\* Mutant: the divisor is the size of the window.
AverageOfWindow(times) == Total(times) \div Window

Average(times) == Total(times) \div Len(times)

\* Without a sample the average divides by zero, which panics.
NextBlock ==
  /\ process = "up" /\ channel # 0 /\ lastHeight # 0
  /\ channel' = 0
  /\ \E ms \in BlockTimes :
       LET times == Sampled(trackedBlockTimes, channel - lastHeight, ms)
       IN  IF times = <<>>
           THEN process' = "panicked" /\ UNCHANGED <<timer, lastHeight, notifying>>
           ELSE /\ trackedBlockTimes' = times
                /\ averageBlockTime' = Average(times)
                /\ lastHeight' = channel
                /\ notifying' = Append(notifying, [block |-> channel, called |-> 0])
                /\ UNCHANGED process
  /\ UNCHANGED <<chainHeight, reader, calls>>

\* Mutant: the loop starts with the second subscriber.
NextSubscriberSkipsFirst(g) == IF notifying[g].called = 0 THEN 2 ELSE notifying[g].called + 1

NextSubscriber(g) == notifying[g].called + 1

\* Mutant: the height before the new block.
HeightBefore == lastHeight - 1

\* The closure reads the variable.
HeightNow == lastHeight

CallSubscriber(g) ==
  /\ process = "up" /\ NextSubscriber(g) <= Subscribers
  /\ notifying' = [notifying EXCEPT ![g].called = NextSubscriber(g)]
  /\ calls' = calls \cup {<<NextSubscriber(g), g, HeightNow>>}
  /\ UNCHANGED <<chainHeight, reader, channel, lastHeight, timer, process>>

Read == ReadFails \/ ReadGarbage \/ ReadHeader

Notify == \E g \in DOMAIN notifying : CallSubscriber(g)

Next ==
  \/ NewBlock \/ Dial \/ DialFails \/ Break \/ Read
  \/ FirstBlock \/ NextBlock \/ Notify

Spec == Init /\ [][Next]_vars

\* The goroutines run, a broken connection is noticed and headers that
\* arrived are read; nothing obliges the node to send garbage.
FairSpec ==
  /\ Spec
  /\ WF_vars(Dial \/ ReadFails \/ ReadHeader)
  /\ WF_vars(FirstBlock \/ NextBlock) /\ WF_vars(Notify)

(***************************************************************************)
(* Properties.                                                             *)
(***************************************************************************)
\* TrackBlocks dials at most MaxReconnects times.
Goroutines == 1..(MaxReconnects * MaxHeight)

FeedTypeOK ==
  /\ chainHeight \in 0..MaxHeight /\ seen \in 0..chainHeight
  /\ link \in {"dialing", "open", "broken"}
  /\ fails \in 0..(ExitAfterFails - 1) /\ connections \in 0..MaxReconnects
  /\ channel \in 0..chainHeight /\ lastHeight \in 0..chainHeight
  /\ trackedBlockTimes \in Seq(BlockTimes) /\ Len(trackedBlockTimes) <= Window
  /\ averageBlockTime \in Nat
  /\ notifying \in Seq([block : 1..MaxHeight, called : 0..Subscribers])
  /\ calls \subseteq (1..Subscribers) \X (DOMAIN notifying) \X (1..MaxHeight)
  /\ process \in {"up", "panicked", "exited"}

\* The projected block times of the auctions (track_auctions.go:62) come
\* from recent blocks: the average lies between two measured block times.
AverageIsOfSamples ==
  trackedBlockTimes # <<>> =>
    \E i, j \in DOMAIN trackedBlockTimes :
      trackedBlockTimes[i] <= averageBlockTime /\ averageBlockTime <= trackedBlockTimes[j]

\* Dividing by zero samples (track_blocks.go:56) can only happen before the
\* first sample: once the average is known no gap in the feed panics.
SampledNeverPanics == [][trackedBlockTimes # <<>> => process' # "panicked"]_vars

\* What a goroutine tells a subscriber (track_blocks.go:64) is the height of
\* its block or of one that was processed after it, never of one before: with
\* each node, and whatever the next node sends again.
NeverBeforeItsBlock ==
  \A c \in calls : \E g \in c[2]..Len(notifying) : notifying[g].block = c[3]

\* Every goroutine calls every subscriber, unless the process ends
\* (track_blocks.go:63).
AllSubscribersCalled ==
  \A g \in Goroutines :
    (g \in DOMAIN notifying) ~>
      (process # "up" \/ \A s \in 1..Subscribers : \E c \in calls : c[1] = s /\ c[2] = g)

\* "Notify subscribers about the new block" (track_blocks.go:62): when a
\* goroutine is done, it has called each subscriber with its block's height.
EveryBlockIsNotified ==
  \A g \in DOMAIN notifying :
    notifying[g].called = Subscribers =>
      \A s \in 1..Subscribers : <<s, g, notifying[g].block>> \in calls
=============================================================================
