-------------------------- MODULE EndpointRotation --------------------------
(***************************************************************************)
(* The round robin over the configured nodes (config/config.go): every     *)
(* API call and every subscriber asks it for an endpoint, concurrently,    *)
(* and the index is a plain package variable.  A step is one access to it. *)
(***************************************************************************)
EXTENDS Integers, Sequences, FiniteSets

CONSTANTS
  Callers,       \* goroutines that ask for an endpoint
  ApiCallers,    \* those that serve an API request, the others are subscribers
  SubmitNodes,   \* RpcSubmitTxEndpoints, a sequence
  MaxCalls       \* bound: how many endpoints are asked for

ASSUME EndpointAssumption ==
  /\ IsFiniteSet(Callers) /\ ApiCallers \subseteq Callers
  /\ Len(SubmitNodes) \in Nat \ {0}
  /\ MaxCalls \in Nat

VARIABLES
  lastRpcSubmitEndpointIndex,
  caller,    \* where each caller is, and what it read
  given,     \* the positions in the list, in the order they were given
  overlapped \* history: a call began while another one was under way

vars == <<lastRpcSubmitEndpointIndex, caller, given, overlapped>>

\* A node is told by its position in the list.
Nodes == 1..Len(SubmitNodes)

index == lastRpcSubmitEndpointIndex

Stages == {"idle", "check", "reset", "pick", "read", "write", "panicked"}
Caller == [pc : Stages, read : Nat]

Init ==
  /\ lastRpcSubmitEndpointIndex = 0
  /\ caller = [c \in Callers |-> [pc |-> "idle", read |-> 0]]
  /\ given = <<>> /\ overlapped = FALSE

\* gin.Recovery recovers the panic of an API call; nothing recovers that of a
\* subscriber, which ends the process.
Running == \A c \in Callers \ ApiCallers : caller[c].pc # "panicked"

Goto(c, stage) == Running /\ caller' = [caller EXCEPT ![c].pc = stage]

\* GetApiRpcSubmitTxEndpoint, or GetApiRpcSearchTxEndpoint: the same code down
\* to the list it splits and the index it moves.
Call(c) ==
  /\ caller[c].pc = "idle" /\ Len(given) < MaxCalls
  /\ Goto(c, "check")
  /\ overlapped' = (overlapped \/ \E d \in Callers : caller[d].pc # "idle")
  /\ UNCHANGED <<index, given>>

\* Mutant: an index that is one too large is kept.
TooLargeByTwo(i, n) == i > n

TooLarge(i, n) == i > n - 1

Check(c) ==
  /\ caller[c].pc = "check"
  /\ Goto(c, IF TooLarge(index, Len(SubmitNodes)) THEN "reset" ELSE "pick")
  /\ UNCHANGED <<index, given, overlapped>>

Reset(c) ==
  /\ caller[c].pc = "reset"
  /\ lastRpcSubmitEndpointIndex' = 0
  /\ Goto(c, "pick")
  /\ UNCHANGED <<given, overlapped>>

\* Mutant: the increment comes before the node is taken.
Following(i) == i + 2

\* The position of the node in the list, from 1.
Position(i) == i + 1

\* The slice is indexed with the index of the moment.
Pick(c) ==
  /\ caller[c].pc = "pick" /\ index < Len(SubmitNodes)
  /\ given' = Append(given, Position(index))
  /\ Goto(c, "read")
  /\ UNCHANGED <<index, overlapped>>

OutOfRange(c) ==
  /\ caller[c].pc = "pick" /\ index >= Len(SubmitNodes)
  /\ Goto(c, "panicked")
  /\ UNCHANGED <<index, given, overlapped>>

ReadIndex(c) ==
  /\ caller[c].pc = "read" /\ Running
  /\ caller' = [caller EXCEPT ![c].pc = "write", ![c].read = index]
  /\ UNCHANGED <<index, given, overlapped>>

\* Mutant: the index moves past a node.
Skipped(i) == i + 2

Incremented(i) == i + 1

WriteIndex(c) ==
  /\ caller[c].pc = "write"
  /\ lastRpcSubmitEndpointIndex' = Incremented(caller[c].read)
  /\ Goto(c, "idle")
  /\ UNCHANGED <<given, overlapped>>

Get(c) == Check(c) \/ Reset(c) \/ Pick(c) \/ OutOfRange(c) \/ ReadIndex(c) \/ WriteIndex(c)

\* The API request is answered with 500.
Recover(c) ==
  /\ caller[c].pc = "panicked" /\ c \in ApiCallers
  /\ Goto(c, "idle")
  /\ UNCHANGED <<index, given, overlapped>>

Next == \E c \in Callers : Call(c) \/ Get(c) \/ Recover(c)

Spec == Init /\ [][Next]_vars

(***************************************************************************)
(* Properties.                                                             *)
(***************************************************************************)
TypeOK ==
  /\ lastRpcSubmitEndpointIndex \in Nat
  /\ caller \in [Callers -> Caller]
  /\ overlapped \in BOOLEAN
  /\ given \in Seq(Nodes)

\* "Round robin get rpc endpoint" (config.go:78, :89): as long as calls do
\* not overlap, each is given the node that follows the one given before.
RoundRobin ==
  ~overlapped =>
    \A i \in 1..(Len(given) - 1) : given[i + 1] = (given[i] % Len(SubmitNodes)) + 1

\* Calls that do not overlap never index beyond the list (config.go:84),
\* however often it was gone through: only a race can panic.
SerialInRange == ~overlapped => \A c \in Callers : caller[c].pc # "panicked"

\* However callers race (config.go:85), increments are lost but never made up:
\* the index does not run ahead of the endpoints given out.
NeverAhead == lastRpcSubmitEndpointIndex <= Len(given)
=============================================================================
