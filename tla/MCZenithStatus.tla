--------------------------- MODULE MCZenithStatus ---------------------------
(***************************************************************************)
(* Small instances of ZenithStatus: a request that the last block at the   *)
(* latest may execute.                                                     *)
(***************************************************************************)
EXTENDS ZenithStatus, TLC

MCExpiration == [r \in ZenithRequests |-> MaxHeight]
WorkerSymmetry == Permutations(Workers)
=============================================================================
