---------------------------- MODULE ZenithPromise ---------------------------
(***************************************************************************)
(* What the auction side of the service promises its users                 *)
(* (api/track_arbitrage.go:105, api/types.go:43): a request is entered for *)
(* one auction at a time and again only when that one is lost, and it is   *)
(* reported as committed once it won, for good.                            *)
(***************************************************************************)
EXTENDS Integers

CONSTANTS
  Requests,   \* the users' requests
  MaxHeight   \* bound: the last block of the chain, a natural number

VARIABLES
  height,     \* the chain's height
  bids,       \* <<r, h>>: r was entered for the auction of block h
  won,        \* the bids whose TXs are in their block
  committed   \* requests reported as committed

vars == <<height, bids, won, committed>>

Bids == Requests \X (1..MaxHeight)

TypeOK ==
  /\ height \in 0..MaxHeight
  /\ bids \subseteq Bids
  /\ won \subseteq bids
  /\ committed \subseteq Requests

Init == height = 0 /\ bids = {} /\ won = {} /\ committed = {}

\* An auction of r is lost when its block was produced without r's TXs.
Lost(r, h) == h <= height /\ <<r, h>> \notin won

Bid(r, h) ==
  /\ \A g \in 1..MaxHeight : <<r, g>> \in bids => Lost(r, g)
  /\ bids' = bids \cup {<<r, h>>}
  /\ UNCHANGED <<height, won, committed>>

Produce ==
  /\ height < MaxHeight
  /\ height' = height + 1
  /\ \E taken \in SUBSET {b \in bids : b[2] = height + 1} : won' = won \cup taken
  /\ UNCHANGED <<bids, committed>>

Commit(r) ==
  /\ \E h \in 1..MaxHeight : <<r, h>> \in won
  /\ committed' = committed \cup {r}
  /\ UNCHANGED <<height, bids, won>>

Next ==
  \/ \E r \in Requests : Commit(r) \/ \E h \in 1..MaxHeight : Bid(r, h)
  \/ Produce

Spec == Init /\ [][Next]_vars

\* A won request is reported.
LiveSpec == Spec /\ \A r \in Requests : WF_vars(Commit(r))

\* A request wins at most one auction: its swap is executed once.
AtMostOneWin ==
  \A r \in Requests : \A h, g \in 1..MaxHeight :
    (<<r, h>> \in won /\ <<r, g>> \in won) => h = g

\* Only winners are reported.
CommittedWon ==
  \A r \in committed : \E h \in 1..MaxHeight : <<r, h>> \in won
=============================================================================
