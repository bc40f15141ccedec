------------------------ MODULE ZenithPromiseProofs -------------------------
(***************************************************************************)
(* Proofs about ZenithPromise, for any set of requests and any MaxHeight.  *)
(***************************************************************************)
EXTENDS ZenithPromise, TLAPS

\* Of two bids of a request one is lost, and what is won is in the past.
OneOpenAuction ==
  \A r \in Requests : \A h, g \in 1..MaxHeight :
    (<<r, h>> \in bids /\ <<r, g>> \in bids /\ h # g) => Lost(r, h) \/ Lost(r, g)
WonIsPast == \A b \in won : b[2] <= height

IInv == TypeOK /\ OneOpenAuction /\ WonIsPast /\ CommittedWon

\* The invariant holds in the initial state and every step preserves it.
LEMMA InvInit == ASSUME MaxHeight \in Nat PROVE Init => IInv
  BY DEF Init, IInv, TypeOK, OneOpenAuction, WonIsPast, CommittedWon, Bids

LEMMA InvNext == ASSUME MaxHeight \in Nat PROVE IInv /\ [Next]_vars => IInv'
<1> SUFFICES ASSUME IInv, [Next]_vars PROVE IInv'
  OBVIOUS
<1> USE DEF IInv, TypeOK, Bids
<1>1. ASSUME NEW r \in Requests, NEW h \in 1..MaxHeight, Bid(r, h)
      PROVE  IInv'
  <2>1. TypeOK'
    BY <1>1 DEF Bid
  <2>2. OneOpenAuction'
    BY <1>1 DEF Bid, OneOpenAuction, Lost
  <2>3. WonIsPast' /\ CommittedWon'
    BY <1>1 DEF Bid, WonIsPast, CommittedWon
  <2> QED BY <2>1, <2>2, <2>3
<1>2. ASSUME Produce PROVE IInv'
  <2> PICK taken \in SUBSET {b \in bids : b[2] = height + 1} : won' = won \cup taken
    BY <1>2 DEF Produce
  <2>1. TypeOK'
    BY <1>2 DEF Produce
  <2>2. ASSUME NEW r \in Requests, NEW h \in 1..MaxHeight, Lost(r, h)
        PROVE  Lost(r, h)'
    BY <1>2, <2>2 DEF Produce, Lost
  <2>3. OneOpenAuction'
    BY <1>2, <2>2 DEF Produce, OneOpenAuction
  <2>4. WonIsPast'
    <3> SUFFICES ASSUME NEW b \in won' PROVE b[2] <= height'
      BY DEF WonIsPast
    <3>1. height' = height + 1 /\ height \in Nat
      BY <1>2 DEF Produce
    <3>2. CASE b \in taken
      BY <3>1, <3>2
    <3>3. CASE b \in won
      BY <3>1, <3>3 DEF WonIsPast
    <3> QED BY <3>2, <3>3
  <2>5. CommittedWon'
    BY <1>2 DEF Produce, CommittedWon
  <2> QED BY <2>1, <2>3, <2>4, <2>5
<1>3. ASSUME NEW r \in Requests, Commit(r) PROVE IInv'
  <2>1. TypeOK' /\ CommittedWon'
    BY <1>3 DEF Commit, CommittedWon
  <2>2. OneOpenAuction' /\ WonIsPast'
    BY <1>3 DEF Commit, OneOpenAuction, WonIsPast, Lost
  <2> QED BY <2>1, <2>2
<1>4. ASSUME UNCHANGED vars PROVE IInv'
  BY <1>4 DEF vars, OneOpenAuction, WonIsPast, CommittedWon, Lost
<1> QED
  BY <1>1, <1>2, <1>3, <1>4 DEF Next

LEMMA Invariance == ASSUME MaxHeight \in Nat PROVE Spec => []IInv
<1>1. Init => IInv
  BY InvInit
<1>2. IInv /\ [Next]_vars => IInv'
  BY InvNext
<1> QED
  BY <1>1, <1>2, PTL DEF Spec

\* Whatever the requests and however long the chain runs, a request wins at
\* most one auction: two wins would be two bids of which one is lost.
THEOREM AtMostOneWinHolds == ASSUME MaxHeight \in Nat PROVE Spec => []AtMostOneWin
<1>1. IInv => AtMostOneWin
  BY DEF IInv, TypeOK, Bids, OneOpenAuction, AtMostOneWin, Lost
<1> QED
  BY <1>1, Invariance, PTL

\* Only requests that won are ever reported as committed.
THEOREM CommittedWonHolds == ASSUME MaxHeight \in Nat PROVE Spec => []CommittedWon
<1>1. IInv => CommittedWon
  BY DEF IInv
<1> QED
  BY <1>1, Invariance, PTL
=============================================================================
