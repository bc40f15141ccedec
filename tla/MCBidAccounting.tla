--------------------------- MODULE MCBidAccounting --------------------------
(***************************************************************************)
(* A small instance of BidAccounting: amounts on both sides of the gas     *)
(* fees (1375 and 2050), wallets that fund the swap in one, two, three or  *)
(* more messages or not at all.  Zenith may ask for no payments at all.    *)
(***************************************************************************)
EXTENDS BidAccounting

MCAuctions == {<<>>, <<100>>, <<95, 5>>, <<70, 20, 10>>, <<50, 40>>, <<33, 33, 34>>, <<100, 0>>}
=============================================================================
