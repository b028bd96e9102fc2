--------------------------- MODULE MCJournalPipeline ---------------------------
(***************************************************************************)
(* One hedge: a short leg on Hyperliquid, opened by a1 and closed by a2,   *)
(* and a long one on Variational, opened by b1 and closed by b2; a funding *)
(* event c1 and a fee event c2, one of each venue.  LayoutOf is what the   *)
(* replay and the pairing make of the two histories, which the syncs store *)
(* one after the other.                                                    *)
(***************************************************************************)
EXTENDS JournalPipeline, TLC

CONSTANTS r1, r2, hb, vb, a1, a2, b1, b2, c1, c2

Row(side, price, timestamp) ==
  [side |-> side, quantity |-> 1, price |-> price, fee |-> 0,
   timestamp |-> timestamp]

MCFillOf ==
  Restrict(a1 :> Row("sell", 20, 1) @@ a2 :> Row("buy", 18, 3) @@
           b1 :> Row("buy", 20, 1) @@ b2 :> Row("sell", 19, 3), Fill)

MCFlowOf ==
  [c \in Flow |->
     IF c = c1
       THEN [market |-> hb, type |-> "funding", amount |-> 5, timestamp |-> 2]
       ELSE [market |-> vb, type |-> "fee", amount |-> -2, timestamp |-> 2]]

LegOn(market, direction, closed, trade, F) ==
  [market |-> market, direction |-> direction, opened_at |-> 1,
   closed_at |-> closed, trade |-> trade, fills |-> F]

(* The leg a venue's history F makes; it is closed when `last` is there.   *)
LegsOfVenue(market, direction, last, trade, F) ==
  IF F = {} THEN <<>>
  ELSE <<LegOn(market, direction, IF last \in F THEN 3 ELSE None, trade, F)>>

Layout(A, B) ==
  LET t == IF A # {} /\ B # {} THEN 1 ELSE 0 IN
  [legs |-> LegsOfVenue(hb, "short", a2, t, A) \o LegsOfVenue(vb, "long", b2, t, B),
   review |-> IF t = 1 THEN <<FALSE>> ELSE <<>>]

(* Each history of a venue that the model has the fills of. *)
ShortHistory == {{}, {a1}, {a1, a2}} \cap SUBSET Fill
LongHistory == {{}, {b1}, {b1, b2}} \cap SUBSET Fill

MCLayoutOf ==
  [F \in {A \cup B : A \in ShortHistory, B \in LongHistory} |->
     Layout(F \cap {a1, a2}, F \cap {b1, b2})]
===============================================================================
