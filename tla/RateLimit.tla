------------------------------ MODULE RateLimit -----------------------------
(***************************************************************************)
(* The request counter of one client address (api/middleware/auth.go): so  *)
(* many requests, then a pause of an hour.  The client's connections share *)
(* the counter without a lock: a step reads or writes one of its fields,   *)
(* and the clock (in minutes) may tick between two of them.                *)
(***************************************************************************)
EXTENDS Integers, FiniteSets

CONSTANTS
  Connections,          \* requests the client has open at a time
  maxAllowedRequests,   \* 20 in the code
  Backoff,              \* the pause in minutes (60 in the code)
  MaxRequests,          \* bound: how many requests the client sends
  MaxTime               \* bound: when the clock stops

ASSUME LimitAssumption ==
  /\ maxAllowedRequests \in Nat \ {0, 1}
  /\ {Backoff, MaxRequests, MaxTime} \subseteq Nat

VARIABLES
  now,           \* minutes
  sent,          \* requests sent so far
  known,         \* the client has an entry in connectionTracker
  unverifiedRequests, lastRequest,   \* its requestcounter
  connection,    \* where each request is, and the count it read
  allowed,       \* requests let through since the last pause
  overlapped     \* history: a request began while another one was under way

counter == <<known, unverifiedRequests, lastRequest>>
vars == <<now, sent, counter, connection, allowed, overlapped>>

Stages == {"idle", "read", "write", "decide", "allow", "limit", "pause", "reset", "stamp"}
Connection == [pc : Stages, read : Nat]

Init ==
  /\ now = 0 /\ sent = 0 /\ known = FALSE
  /\ unverifiedRequests = 0 /\ lastRequest = 0
  /\ connection = [c \in Connections |-> [pc |-> "idle", read |-> 0]]
  /\ allowed = 0 /\ overlapped = FALSE

Tick ==
  /\ now < MaxTime
  /\ now' = now + 1
  /\ UNCHANGED <<sent, counter, connection, allowed, overlapped>>

Goto(c, stage) == connection' = [connection EXCEPT ![c].pc = stage]

Send(c) == connection[c].pc = "idle" /\ sent < MaxRequests /\ sent' = sent + 1

\* LoadOrStore stores a new counter.
FirstRequest(c) ==
  /\ Send(c) /\ ~known
  /\ known' = TRUE /\ unverifiedRequests' = 1 /\ lastRequest' = now
  /\ allowed' = 1
  /\ UNCHANGED <<now, connection, overlapped>>

NextRequest(c) ==
  /\ Send(c) /\ known
  /\ Goto(c, "read")
  /\ overlapped' = (overlapped \/ \E d \in Connections : connection[d].pc # "idle")
  /\ UNCHANGED <<now, counter, allowed>>

ReadCount(c) ==
  /\ connection[c].pc = "read"
  /\ connection' = [connection EXCEPT ![c].pc = "write", ![c].read = unverifiedRequests]
  /\ UNCHANGED <<now, sent, counter, allowed, overlapped>>

\* Mutant: both counters are added to one.
CountTwice(n) == n + 2

CountUp(n) == n + 1

WriteCount(c) ==
  /\ connection[c].pc = "write"
  /\ unverifiedRequests' = CountUp(connection[c].read)
  /\ Goto(c, "decide")
  /\ UNCHANGED <<now, sent, known, lastRequest, allowed, overlapped>>

\* Mutant: <= for <.
UpTo(n) == n <= maxAllowedRequests

Below(n) == n < maxAllowedRequests

\* The pause is measured from the last request that was let through.
Paused == now - lastRequest >= Backoff

Decide(c) ==
  /\ connection[c].pc = "decide"
  /\ Goto(c, IF Below(unverifiedRequests) THEN "allow" ELSE "limit")
  /\ UNCHANGED <<now, sent, counter, allowed, overlapped>>

\* The count is read again, and may be another connection's by now.
LimitReached(c) ==
  /\ connection[c].pc = "limit" /\ ~Below(unverifiedRequests)
  /\ Goto(c, "pause")
  /\ UNCHANGED <<now, sent, counter, allowed, overlapped>>

BackoffOver(c) ==
  /\ connection[c].pc = "pause" /\ Paused
  /\ Goto(c, "reset")
  /\ UNCHANGED <<now, sent, counter, allowed, overlapped>>

Block(c) ==
  /\ \/ connection[c].pc = "limit" /\ Below(unverifiedRequests)
     \/ connection[c].pc = "pause" /\ ~Paused
  /\ Goto(c, "idle")
  /\ UNCHANGED <<now, sent, counter, allowed, overlapped>>

Allow(c) ==
  /\ connection[c].pc = "allow"
  /\ lastRequest' = now /\ allowed' = allowed + 1
  /\ Goto(c, "idle")
  /\ UNCHANGED <<now, sent, known, unverifiedRequests, overlapped>>

ResetBackoff(c) ==
  /\ connection[c].pc = "reset"
  /\ unverifiedRequests' = 1
  /\ Goto(c, "stamp")
  /\ UNCHANGED <<now, sent, known, lastRequest, allowed, overlapped>>

AllowAfterPause(c) ==
  /\ connection[c].pc = "stamp"
  /\ lastRequest' = now /\ allowed' = 1
  /\ Goto(c, "idle")
  /\ UNCHANGED <<now, sent, known, unverifiedRequests, overlapped>>

Request(c) ==
  \/ FirstRequest(c) \/ NextRequest(c) \/ ReadCount(c) \/ WriteCount(c)
  \/ Decide(c) \/ LimitReached(c) \/ BackoffOver(c) \/ Block(c) \/ Allow(c)
  \/ ResetBackoff(c) \/ AllowAfterPause(c)

Next == Tick \/ \E c \in Connections : Request(c)

Spec == Init /\ [][Next]_vars

(***************************************************************************)
(* Properties.                                                             *)
(***************************************************************************)
TypeOK ==
  /\ now \in 0..MaxTime /\ sent \in 0..MaxRequests /\ known \in BOOLEAN
  /\ unverifiedRequests \in Nat /\ lastRequest \in 0..now
  /\ connection \in [Connections -> Connection]
  /\ allowed \in Nat /\ overlapped \in BOOLEAN

\* Fewer than maxAllowedRequests of a client's requests get through before it
\* has to pause (auth.go:51), whichever of its connections they come from and
\* whenever, as long as they do not overlap.
LimitKept == ~overlapped => allowed < maxAllowedRequests

\* ... and the limit is all that blocks it (auth.go:51, :60): a client whose
\* connections do not overlap is blocked only when it has had all its requests
\* since its last pause.
BlockedOnlyAtLimit ==
  [][~overlapped => \A c \in Connections : Block(c) => allowed = maxAllowedRequests - 1]_vars

\* Racing connections (auth.go:48) cost a client at most a request each: when
\* its count is at the limit it has had the others since its last pause.
CountIsEarned ==
  ~Below(unverifiedRequests) => allowed + Cardinality(Connections) >= maxAllowedRequests
=============================================================================
