------------------------------ MODULE MCValuation ------------------------------
(***************************************************************************)
(* A hedge on two markets for TLC.  hb, Hyperliquid: a short leg, opened   *)
(* with a rebate, then closed by a2 and opened again by a3 in the same     *)
(* millisecond; or closed by a4, a sale of a negative size.  vb,           *)
(* Variational: a long leg, exited in part by b2, then either closed by b3 *)
(* or flipped by b4.  LayoutOf is what the replay and the pairing make of  *)
(* every state of the two histories.                                       *)
(***************************************************************************)
EXTENDS Valuation, TLC

CONSTANTS hb, vb, a1, a2, a3, a4, b1, b2, b3, b4, c1, c2, c3, c4, c5

Row(side, quantity, price, fee, timestamp) ==
  [side |-> side, quantity |-> quantity, price |-> price, fee |-> fee,
   timestamp |-> timestamp]

MCFillOf ==
  a1 :> Row("sell", 2, 20, 1, 1) @@ a2 :> Row("buy", 2, 18, -1, 3) @@
  a3 :> Row("sell", 1, 18, 1, 3) @@ a4 :> Row("sell", -2, 18, -1, 3) @@
  b1 :> Row("buy", 2, 20, 0, 1) @@ b2 :> Row("sell", 1, 22, 0, 2) @@
  b3 :> Row("sell", 1, 24, 0, 3) @@ b4 :> Row("sell", 2, 25, 0, 3)

Cash(market, type, amount, timestamp) ==
  [market |-> market, type |-> type, amount |-> amount, timestamp |-> timestamp]

(* c1 and c3 fall where legs meet, c4 is a deposit, c5 comes after b3. *)
MCFlowOf ==
  c1 :> Cash(hb, "funding", 5, 3) @@ c2 :> Cash(vb, "fee", -2, 2) @@
  c3 :> Cash(vb, "funding", -3, 3) @@ c4 :> Cash(None, "other", 100, 1) @@
  c5 :> Cash(vb, "funding", 4, 4)

LegOn(market, direction, opened, closed, trade, F) ==
  [market |-> market, direction |-> direction, opened_at |-> opened,
   closed_at |-> closed, trade |-> trade, fills |-> F]

(* The legs of each history; t is the trade of its first leg. *)
ShortLegs(A, t) ==
  CASE A = {} -> <<>>
    [] A = {a1} -> <<LegOn(hb, "short", 1, None, t, A)>>
    [] A \in {{a1, a2}, {a1, a4}} -> <<LegOn(hb, "short", 1, 3, t, A)>>
    [] OTHER -> <<LegOn(hb, "short", 1, 3, t, {a1, a2}),
                  LegOn(hb, "short", 3, None, 0, {a3})>>

LongLegs(B, t) ==
  CASE B = {} -> <<>>
    [] B \in {{b1}, {b1, b2}} -> <<LegOn(vb, "long", 1, None, t, B)>>
    [] B = {b1, b2, b3} -> <<LegOn(vb, "long", 1, 3, t, B)>>
    [] OTHER -> <<LegOn(vb, "long", 1, 3, t, B),
                  LegOn(vb, "short", 3, None, 0, {})>>

(* The first legs hedge each other; a flip makes the trade one to review. *)
Layout(A, B) ==
  LET t == IF A # {} /\ B # {} THEN 1 ELSE 0 IN
  [legs |-> ShortLegs(A, t) \o LongLegs(B, t),
   review |-> IF t = 1 THEN <<b4 \in B>> ELSE <<>>]

ShortHistory == {{}, {a1}, {a1, a2}, {a1, a2, a3}, {a1, a4}}
LongHistory == {{}, {b1}, {b1, b2}, {b1, b2, b3}, {b1, b2, b4}}

MCLayoutOf ==
  [F \in {A \cup B : A \in ShortHistory, B \in LongHistory} |->
     Layout(F \ {b1, b2, b3, b4}, F \cap {b1, b2, b3, b4})]

===============================================================================
