--------------------------- MODULE MCZenithBlocks ---------------------------
(***************************************************************************)
(* Small instances of ZenithBlocks.                                        *)
(***************************************************************************)
EXTENDS ZenithBlocks, TLC

WorkerSymmetry == Permutations(Workers)
=============================================================================
