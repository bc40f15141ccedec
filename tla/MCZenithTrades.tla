--------------------------- MODULE MCZenithTrades ---------------------------
(***************************************************************************)
(* Small instances of ZenithTrades.                                        *)
(***************************************************************************)
EXTENDS ZenithTrades, TLC

CONSTANTS r1, r2, a1, w1, w2

\* r1 is executed by the last block at the latest, r2 one block earlier.
MCExpiration == [r \in ZenithRequests |-> IF r = r2 THEN MaxHeight - 1 ELSE MaxHeight]

WorkerSymmetry == Permutations(Workers)
=============================================================================
