--------------------------- MODULE MCHyperliquidSync ---------------------------
(***************************************************************************)
(* Four fills, two of them in one millisecond and one in a spot market,    *)
(* and one without a trade id; the venue serves pages of two.  Funding of  *)
(* three instants, in answers of two.                                      *)
(***************************************************************************)
EXTENDS HyperliquidSync, TLC

CONSTANTS f1, f2, f3, f4, f5, c1, c2, c3, c4

MCTime ==
  f1 :> 1 @@ f2 :> 2 @@ f3 :> 3 @@ f4 :> 3 @@ f5 :> 4
    @@ c1 :> 1 @@ c2 :> 2 @@ c3 :> 2 @@ c4 :> 3

(* f2 was made in a spot market, c1 is no funding. *)
MCRaw ==
  [e \in {f1, f2, f3, f4, f5} |-> [coin |-> e # f2, side |-> "B", numbers |-> TRUE]]
    @@ [e \in {c1, c2, c3, c4} |->
          [coin |-> TRUE, type |-> IF e = c1 THEN "other" ELSE "funding", numbers |-> TRUE]]
===============================================================================
