----------------------------- MODULE MCMarketReplay -----------------------------
(***************************************************************************)
(* Histories of five fills: long enough for a leg that flips, a flip-born  *)
(* leg that flips again, and a leg that closes and re-opens within one     *)
(* millisecond.  The sizes go below zero: no venue should send such a      *)
(* fill, but neither the Hyperliquid adapter nor the tables refuse it.     *)
(***************************************************************************)
EXTENDS ReplayReference

MCQuantity == {-1, 0, 1, 2}
MCTime == {1, 2}
===============================================================================
