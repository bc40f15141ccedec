---------------------------- MODULE MCAuthzTrades ---------------------------
(***************************************************************************)
(* Small instances of AuthzTrades.                                         *)
(***************************************************************************)
EXTENDS AuthzTrades, TLC

WorkerSymmetry == Permutations(Workers)
RequestSymmetry == Permutations(AuthzRequests)
Symmetry == WorkerSymmetry \cup RequestSymmetry
=============================================================================
