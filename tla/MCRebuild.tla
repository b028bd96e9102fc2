------------------------------- MODULE MCRebuild -------------------------------
(***************************************************************************)
(* Tables of fills for rebuild(), in each of which a row may come before   *)
(* one that was made earlier.  The word "&" stands for a name that only    *)
(* the namespaced markets may have.                                        *)
(***************************************************************************)
EXTENDS Rebuild

MCWord == {"BTC", "btc", "BTC-PERP", "btc-perp", "&", "hyna", "HYNA"}
MCUpper ==
  [w \in MCWord |-> CASE w = "btc" -> "BTC"
                      [] w = "btc-perp" -> "BTC-PERP"
                      [] w = "hyna" -> "HYNA"
                      [] OTHER -> w]
MCStripped ==
  [w \in MCWord |-> IF w = "BTC-PERP" THEN "BTC" ELSE w]
MCNative == {"BTC", "btc", "hyna", "HYNA"}
MCWide == MCNative \cup {"&", "BTC-PERP", "btc-perp"}

FillOf(venue, name, side, quantity, at) ==
  [venue |-> venue, name |-> name,
   fill |-> [side |-> side, quantity |-> quantity, timestamp |-> at]]

Opposite(side) == IF side = "buy" THEN "sell" ELSE "buy"

(* The fills of one round in a market: in, and out unless it stays open. *)
Round(venue, name, side, quantity, window) ==
  LET in == <<FillOf(venue, name, side, quantity, window[1])>> IN
  IF window[2] = None THEN in
  ELSE in \o <<FillOf(venue, name, Opposite(side), quantity, window[2])>>

Windows == {w \in (0 .. 2) \X ((0 .. 2) \cup {None}) : w[2] # None => w[1] <= w[2]}

(***************************************************************************)
(* Two longs in two Hyperliquid markets of one asset, the second of twice  *)
(* the size, and two shorts in the one Variational market, ingested last   *)
(* and in both orders.                                                     *)
(***************************************************************************)
Hedges ==
  {Round("hyperliquid", <<"btc">>, "buy", 1, w[1])
     \o Round("hyperliquid", <<"hyna", "BTC">>, "buy", 2, w[2])
     \o Round("variational", <<"BTC-PERP">>, "sell", 1, w[3])
     \o Round("variational", <<"btc">>, "sell", 1, w[4]) :
     w \in {v \in Windows \X Windows \X Windows \X Windows :
              \/ v[3][2] # None /\ v[3][2] <= v[4][1]
              \/ v[4][2] # None /\ v[4][2] < v[3][1]}}

(***************************************************************************)
(* Four fills in the markets whose names are the hardest to tell apart, or *)
(* to make a symbol of, sizes of zero and flips included.                  *)
(***************************************************************************)
Places ==
  {<<"hyperliquid", <<"hyna", "&">>>>, <<"variational", <<"&">>>>,
   <<"hyperliquid", <<"BTC">>>>, <<"hyperliquid", <<"HYNA", "BTC-PERP">>>>,
   <<"hyperliquid", <<"hyna", "btc", "BTC">>>>, <<"variational", <<"btc-perp">>>>}

Names ==
  {[i \in 1 .. 4 |-> FillOf(p[i][1], p[i][2], s[i], q[i], i \div 2)] :
     p \in [1 .. 4 -> Places],
     s \in {t \in [1 .. 4 -> {"buy", "sell"}] : t[1] = "buy"},
     q \in {<<1, 1, 1, 1>>, <<1, 2, 0, 2>>}}

(***************************************************************************)
(* Two hedges opened together and of equal size: a buy in the one market   *)
(* with the first short, a buy in the other with the second.  The buy of   *)
(* the first may last long enough to overlap the second short the longer.  *)
(***************************************************************************)
TwoHedges ==
  {Round("hyperliquid", <<"BTC">>, "buy", 1, <<1, w[1]>>)
     \o Round("hyperliquid", <<"hyna", "BTC">>, "buy", 1, <<4, w[2]>>)
     \o Round("variational", <<"BTC">>, "sell", 1, <<1, w[3]>>)
     \o Round("variational", <<"BTC">>, "sell", 1, <<5, w[4]>>) :
     w \in (2 .. 10) \X (5 .. 12) \X (2 .. 5) \X (6 .. 12)}

LongOf(t) == {l \in {trades[t].legs[1], trades[t].legs[2]} : legs[l].direction = "long"}
ShortOf(t) == {trades[t].legs[1], trades[t].legs[2]} \ LongOf(t)

(* A hedge's legs are the ones opened at 1, or the ones opened after it. *)
IsHedge(t) ==
  \A a \in LongOf(t), b \in ShortOf(t) :
    legs[a].opened_at = 1 <=> legs[b].opened_at = 1

(***************************************************************************)
(* reconciliation.py:59-61: "a wrong pairing under exotic histories        *)
(* surfaces as a quantity mismatch or an unpaired leg, both loud, rather   *)
(* than passing silently".                                                 *)
(***************************************************************************)
WrongPairingIsLoud ==
  unpaired # None =>
    \/ \A t \in DOMAIN trades : IsHedge(t)
    \/ \E t \in DOMAIN trades : trades[t].review
    \/ unpaired # {}

MCTables == Hedges \cup Names
MCQuantity == 0 .. 2
MCTime == 0 .. 2
LongTime == 0 .. 12
===============================================================================
