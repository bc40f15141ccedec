----------------------------- MODULE MCRateLimit ----------------------------
(***************************************************************************)
(* Small instances of RateLimit: three requests before a pause.            *)
(***************************************************************************)
EXTENDS RateLimit, TLC

ConnectionSymmetry == Permutations(Connections)
=============================================================================
