----------------------------- MODULE RebuildProofs -----------------------------
(***************************************************************************)
(* Proofs about TradePairing, for every table of legs, and about Rebuild,  *)
(* for every table of fills.                                               *)
(***************************************************************************)
EXTENDS Rebuild, SumTheorems, TLAPS

USE PairingAssumption

-------------------------------------------------------------------------------
(* The walk over the legs *)

(* What each leg of the table is, unfolded once. *)
LEMMA LegFacts ==
  ASSUME TypeOK, NEW l \in Leg
  PROVE  /\ l \in Nat
         /\ legs[l] \in LegRecord
         /\ legs[l].opened_at \in Nat
         /\ legs[l].closed_at \in Nat \cup {None}
         /\ WindowEnd(l) \in Nat
         /\ IsClosed(l) => legs[l].closed_at \in Nat
         /\ legs[l].symbol.base \in Word
<1>1. l \in Nat /\ legs[l] \in LegRecord
  BY DEF TypeOK, Leg
<1>2. /\ legs[l].opened_at \in Nat
      /\ legs[l].closed_at \in Nat \cup {None}
      /\ legs[l].symbol \in Canonical
  BY <1>1 DEF LegRecord
<1> QED BY <1>1, <1>2 DEF WindowEnd, IsClosed, Canonical

(* Eligible legs were both open for a while, at the same time. *)
LEMMA EligibleFacts ==
  ASSUME TypeOK, NEW a \in Leg, NEW b \in Leg, Eligible(a, b)
  PROVE  /\ a # b
         /\ Opposed(a, b)
         /\ \A x, y \in {a, b} : legs[x].opened_at < WindowEnd(y)
<1>1. /\ legs[a].opened_at \in Nat /\ legs[b].opened_at \in Nat
      /\ WindowEnd(a) \in Nat /\ WindowEnd(b) \in Nat
  BY LegFacts
<1> QED BY <1>1 DEF Eligible, Opposed, Overlap, Smaller, Larger

(* A symbol is a record or the error's stand-in. *)
LEMMA CanonicalFacts ==
  ASSUME NEW base \in Word, NEW namespace \in Word \cup {None}
  PROVE  ToCanonical(base, namespace) \in Canonical \cup {None}
BY SymbolAssumption DEF ToCanonical, Canonical

(* The row of a new trade holds both legs' windows. *)
LEMMA TradeFacts ==
  ASSUME TypeOK, NEW a \in Leg, NEW b \in Leg
  PROVE  /\ Trade(a, b) \in TradeRecord
         /\ Trade(a, b).legs = <<a, b>>
         /\ Trade(a, b).symbol = ToCanonical(legs[a].symbol.base, None)
         /\ Trade(a, b).review = Unsure(a, b)
         /\ \A l \in {a, b} :
              /\ Trade(a, b).opened_at <= legs[l].opened_at
              /\ IF IsClosed(l)
                   THEN Trade(a, b).closed_at # None =>
                          Trade(a, b).closed_at >= legs[l].closed_at
                   ELSE Trade(a, b).closed_at = None
<1>1. /\ legs[a].opened_at \in Nat /\ legs[b].opened_at \in Nat
      /\ IsClosed(a) => legs[a].closed_at \in Nat
      /\ IsClosed(b) => legs[b].closed_at \in Nat
      /\ legs[a] \in LegRecord /\ legs[b] \in LegRecord
  BY LegFacts
<1>2. Unsure(a, b) \in BOOLEAN
  BY <1>1 DEF Unsure, LegRecord
<1>3. Smaller(legs[a].opened_at, legs[b].opened_at) \in Nat
  BY <1>1 DEF Smaller
<1>4. IsClosed(a) /\ IsClosed(b) =>
        Larger(legs[a].closed_at, legs[b].closed_at) \in Nat
  BY <1>1 DEF Larger
<1>5. Trade(a, b) \in TradeRecord
  <2>1. ToCanonical(legs[a].symbol.base, None) \in Canonical \cup {None}
    BY LegFacts, CanonicalFacts
  <2> QED BY <1>2, <1>3, <1>4, <2>1 DEF Trade, TradeRecord, ClosedAt
<1>6. /\ Trade(a, b).legs = <<a, b>>
      /\ Trade(a, b).symbol = ToCanonical(legs[a].symbol.base, None)
      /\ Trade(a, b).review = Unsure(a, b)
  BY DEF Trade
<1>7. ASSUME NEW l \in {a, b}
      PROVE  /\ Trade(a, b).opened_at <= legs[l].opened_at
             /\ IF IsClosed(l)
                  THEN Trade(a, b).closed_at # None =>
                         Trade(a, b).closed_at >= legs[l].closed_at
                  ELSE Trade(a, b).closed_at = None
  BY <1>1 DEF Trade, ClosedAt, Smaller, Larger
<1> QED BY <1>5, <1>6, <1>7

(* What is said of two legs stays true of them while the table is the same. *)
LEMMA SameOnLegs ==
  ASSUME legs' = legs
  PROVE  /\ \A x, y \in Leg : Eligible(x, y)' <=> Eligible(x, y)
         /\ \A t : trades' = trades =>
              Unsure(trades[t].legs[1], trades[t].legs[2])'
                = Unsure(trades[t].legs[1], trades[t].legs[2])
         /\ BestFreeCounterpart' <=>
              \A t \in DOMAIN trades' : \A c \in Free' :
                Eligible(trades'[t].legs[1], c)
                  => ~Better(trades'[t].legs[1], c, trades'[t].legs[2])
<1>1. \A x, y \in Leg : Eligible(x, y)' <=> Eligible(x, y)
  BY DEF Eligible, Opposed, Overlap, WindowEnd, IsClosed
<1>2. ASSUME NEW t \in DOMAIN trades', NEW c \in Free'
      PROVE  /\ Eligible(trades[t].legs[1], c)' <=> Eligible(trades'[t].legs[1], c)
             /\ Better(trades[t].legs[1], c, trades[t].legs[2])' <=>
                  Better(trades'[t].legs[1], c, trades'[t].legs[2])
  <2>1. Opposed(trades[t].legs[1], c)' <=> Opposed(trades'[t].legs[1], c)
    BY DEF Opposed
  <2>2. Overlap(trades[t].legs[1], c)' = Overlap(trades'[t].legs[1], c)
    BY DEF Overlap, WindowEnd, IsClosed
  <2>3. Overlap(trades[t].legs[1], trades[t].legs[2])'
          = Overlap(trades'[t].legs[1], trades'[t].legs[2])
    BY DEF Overlap, WindowEnd, IsClosed
  <2> QED BY <2>1, <2>2, <2>3 DEF Eligible, Better
<1>3. \A t : trades' = trades =>
        Unsure(trades[t].legs[1], trades[t].legs[2])'
          = Unsure(trades[t].legs[1], trades[t].legs[2])
  BY DEF Unsure
<1> QED BY <1>1, <1>2, <1>3 DEF BestFreeCounterpart

(* The invariants of the trades are about the tables and nothing else. *)
LEMMA SameTables ==
  ASSUME UNCHANGED <<legs, tradeOf, trades>>
  PROVE  /\ Leg' = Leg /\ Free' = Free /\ TradeRecord' = TradeRecord
         /\ TradesAreHedges => TradesAreHedges'
         /\ TradeWindows => TradeWindows'
         /\ BestFreeCounterpart => BestFreeCounterpart'
<1>1. Leg' = Leg /\ TradeRecord' = TradeRecord
  BY DEF Leg, TradeRecord
<1>2. Free' = Free
  BY <1>1 DEF Free
<1>3. TradesAreHedges => TradesAreHedges'
  <2>1. \A x, y : Opposed(x, y)' <=> Opposed(x, y)
    BY DEF Opposed
  <2>2. \A x : WindowEnd(x)' = WindowEnd(x)
    BY DEF WindowEnd, IsClosed
  <2>3. ASSUME TradesAreHedges, NEW t \in DOMAIN trades'
        PROVE  LET x == trades'[t].legs[1]
                   y == trades'[t].legs[2]
               IN  /\ Opposed(x, y)
                   /\ \A v, w \in {x, y} : legs[v].opened_at < WindowEnd(w)
                   /\ {l \in Leg' : tradeOf'[l] = t} = {x, y}
    BY <1>1, <2>3 DEF TradesAreHedges
  <2> QED BY <2>1, <2>2, <2>3 DEF TradesAreHedges
<1>4. TradeWindows => TradeWindows'
  BY <1>1 DEF TradeWindows, IsClosed
<1>5. BestFreeCounterpart => BestFreeCounterpart'
  BY <1>2, SameOnLegs DEF BestFreeCounterpart
<1> QED BY <1>1, <1>2, <1>3, <1>4, <1>5

(* Creating a trade preserves the invariant. *)
LEMMA PairIInv ==
  ASSUME IInv, NEW a \in Leg, NEW b \in Leg, Pair(a, b)
  PROVE  IInv'
<1> DEFINE n == Len(trades) + 1
<1>1. /\ TypeOK
      /\ b \in Free /\ a \in Free /\ b # a /\ Eligible(a, b)
  BY DEF IInv, Pair, BestOf, Candidates, Free
<1>2. /\ trades \in Seq(TradeRecord) /\ Len(trades) \in Nat
      /\ tradeOf \in [Leg -> 0 .. Len(trades)]
  BY <1>1 DEF TypeOK
<1>3. /\ trades' = Append(trades, Trade(a, b))
      /\ trades' \in Seq(TradeRecord)
      /\ Len(trades') = n
      /\ DOMAIN trades' = 1 .. n /\ DOMAIN trades = 1 .. Len(trades)
      /\ trades'[n] = Trade(a, b)
      /\ \A t \in DOMAIN trades : trades'[t] = trades[t]
  BY <1>1, <1>2, TradeFacts DEF Pair
<1>4. /\ tradeOf' \in [Leg -> 0 .. n]
      /\ tradeOf'[a] = n /\ tradeOf'[b] = n
      /\ \A l \in Leg \ {a, b} : tradeOf'[l] = tradeOf[l]
  <2>1. tradeOf' = [tradeOf EXCEPT ![a] = n, ![b] = n]
    BY <1>3 DEF Pair, Marked
  <2> QED BY <1>2, <2>1
<1>5. Leg' = Leg /\ legs' = legs /\ unpaired' = unpaired /\ walked' = walked \cup {a}
      /\ TradeRecord' = TradeRecord
  BY DEF Pair, Leg, TradeRecord
<1>6. TypeOK'
  <2>1. /\ legs \in Seq(LegRecord) /\ walked \subseteq Leg
        /\ unpaired \in (SUBSET Leg) \cup {None}
    BY <1>1 DEF TypeOK
  <2>2. walked' \subseteq Leg
    BY <1>5, <2>1
  <2>3. tradeOf' \in [Leg -> 0 .. Len(trades')]
    BY <1>3, <1>4
  <2>4. trades' \in Seq(TradeRecord')
    BY <1>3, <1>5
  <2>5. legs' \in Seq(LegRecord) /\ walked' \subseteq Leg'
    BY <1>5, <2>1, <2>2
  <2>6. unpaired' \in (SUBSET Leg') \cup {None}
    BY <1>5, <2>1
  <2>7. tradeOf' \in [Leg' -> 0 .. Len(trades')]
    BY <1>5, <2>3
  <2> QED BY <2>4, <2>5, <2>6, <2>7 DEF TypeOK
<1>7. Free' = Free \ {a, b}
  <2>1. n # 0
    BY <1>2
  <2>2. ASSUME NEW l \in Leg
        PROVE  tradeOf'[l] = 0 <=> tradeOf[l] = 0 /\ l \notin {a, b}
    BY <1>4, <2>1
  <2> QED BY <1>5, <2>2 DEF Free
<1>8. ASSUME NEW t \in DOMAIN trades', NEW l \in Leg
      PROVE  tradeOf'[l] = t <=> IF t = n THEN l \in {a, b} ELSE tradeOf[l] = t
  <2>1. CASE l \in {a, b}
    <3>1. tradeOf[l] = 0 /\ tradeOf'[l] = n /\ t \in 1 .. n
      BY <1>1, <1>3, <1>4, <2>1 DEF Free
    <3> QED BY <1>2, <2>1, <3>1
  <2>2. CASE l \notin {a, b}
    <3>1. tradeOf'[l] = tradeOf[l] /\ tradeOf[l] \in 0 .. Len(trades)
      BY <1>2, <1>4, <2>2
    <3> QED BY <1>2, <2>2, <3>1
  <2> QED BY <2>1, <2>2
<1>9. TradesAreHedges'
  <2> SUFFICES ASSUME NEW t \in DOMAIN trades'
               PROVE  LET x == trades'[t].legs[1]
                          y == trades'[t].legs[2]
                      IN  /\ Opposed(x, y)
                          /\ \A v, w \in {x, y} : legs[v].opened_at < WindowEnd(w)
                          /\ {l \in Leg : tradeOf'[l] = t} = {x, y}
    BY <1>5 DEF TradesAreHedges, Opposed, WindowEnd, IsClosed
  <2>1. CASE t = n
    <3>1. trades'[t].legs[1] = a /\ trades'[t].legs[2] = b
      BY <1>1, <1>3, <2>1, TradeFacts
    <3>2. {l \in Leg : tradeOf'[l] = t} = {a, b}
      BY <1>8, <2>1
    <3> QED BY <1>1, <3>1, <3>2, EligibleFacts
  <2>2. CASE t # n
    <3>1. t \in DOMAIN trades /\ trades'[t] = trades[t]
      BY <1>2, <1>3, <2>2
    <3>2. {l \in Leg : tradeOf'[l] = t} = {l \in Leg : tradeOf[l] = t}
      BY <1>8, <2>2
    <3> QED BY <3>1, <3>2 DEF IInv, TradesAreHedges
  <2> QED BY <2>1, <2>2
<1>10. TradeWindows'
  <2> SUFFICES ASSUME NEW t \in DOMAIN trades', NEW l \in Leg, tradeOf'[l] = t
               PROVE  /\ trades'[t].opened_at <= legs[l].opened_at
                      /\ IF IsClosed(l)
                           THEN trades'[t].closed_at # None =>
                                  trades'[t].closed_at >= legs[l].closed_at
                           ELSE trades'[t].closed_at = None
    BY <1>5 DEF TradeWindows, IsClosed
  <2>1. CASE t = n
    <3>1. trades'[t] = Trade(a, b)
      BY <1>3, <2>1
    <3>2. l \in {a, b}
      BY <1>8, <2>1
    <3> QED BY <1>1, <3>1, <3>2, TradeFacts
  <2>2. CASE t # n
    <3>1. t \in DOMAIN trades
      BY <1>2, <1>3, <2>2
    <3>2. trades'[t] = trades[t]
      BY <1>3, <3>1
    <3>3. tradeOf[l] = t
      BY <1>8, <2>2
    <3> QED BY <3>1, <3>2, <3>3 DEF IInv, TradeWindows
  <2> QED BY <2>1, <2>2
<1>11. WalkedInv'
  <2>1. unpaired = None
    BY DEF Pair, IsNext, IInv, WalkedInv, Leg
  <2>2. \A x, y \in Leg : Eligible(x, y)' <=> Eligible(x, y)
    BY <1>5, SameOnLegs
  <2>3. Free \subseteq Leg
    BY DEF Free
  <2>4. ASSUME NEW t \in DOMAIN trades'
        PROVE  /\ trades'[t].symbol
                    = ToCanonical(legs[trades'[t].legs[1]].symbol.base, None)
               /\ trades'[t].review
                    = Unsure(trades'[t].legs[1], trades'[t].legs[2])
    <3>1. CASE t = n
      BY <1>1, <1>3, <3>1, TradeFacts
    <3>2. CASE t # n
      BY <1>2, <1>3, <3>2 DEF IInv, WalkedInv
    <3> QED BY <3>1, <3>2
  <2>5. walked' # {} /\ unpaired' = None
    BY <1>5, <2>1
  <2>6. ASSUME NEW x \in walked' \cap Free', NEW y \in Free'
        PROVE  ~Eligible(x, y)'
    <3>1. x \in walked \cap Free /\ y \in Free
      BY <1>5, <1>7, <2>6
    <3>2. ~Eligible(x, y)
      BY <3>1 DEF IInv, WalkedInv
    <3> QED BY <2>2, <2>3, <3>1, <3>2
  <2>7. legs' = legs
    BY <1>5
  <2>8. \A t : Unsure(trades[t].legs[1], trades[t].legs[2])'
                = Unsure(trades'[t].legs[1], trades'[t].legs[2])
    BY <2>7 DEF Unsure
  <2> QED BY <2>4, <2>5, <2>6, <2>7, <2>8 DEF WalkedInv
<1>12. BestFreeCounterpart'
  <2> SUFFICES ASSUME NEW t \in DOMAIN trades', NEW c \in Free',
                      Eligible(trades'[t].legs[1], c)
               PROVE  ~Better(trades'[t].legs[1], c, trades'[t].legs[2])
    BY <1>5, SameOnLegs DEF BestFreeCounterpart
  <2>1. c \in Free \ {a, b}
    BY <1>7
  <2>2. CASE t = n
    <3>1. trades'[t].legs[1] = a /\ trades'[t].legs[2] = b
      BY <1>1, <1>3, <2>2, TradeFacts
    <3> QED BY <2>1, <3>1 DEF Pair, BestOf, Candidates
  <2>3. CASE t # n
    <3>1. t \in DOMAIN trades /\ trades'[t] = trades[t]
      BY <1>2, <1>3, <2>3
    <3> QED BY <2>1, <3>1 DEF IInv, BestFreeCounterpart
  <2> QED BY <2>2, <2>3
<1> QED BY <1>6, <1>9, <1>10, <1>11, <1>12 DEF IInv

(* Storing a market's legs before the walk preserves the invariant. *)
LEMMA InsertIInv ==
  ASSUME IInv, Insert
  PROVE  IInv'
<1>1. trades = <<>> /\ trades' = <<>> /\ walked' = {} /\ unpaired' = None
  BY DEF Insert, IInv, WalkedInv
<1>2. DOMAIN trades' = {} /\ Len(trades') = 0
  BY <1>1
<1>3. TypeOK'
  <2>1. legs' \in Seq(LegRecord)
    BY DEF Insert
  <2>2. tradeOf' \in [Leg' -> 0 .. Len(trades')]
    BY <1>2 DEF Insert, Leg
  <2> QED BY <1>1, <2>1, <2>2 DEF TypeOK
<1>4. TradesAreHedges' /\ TradeWindows' /\ BestFreeCounterpart'
  BY <1>2 DEF TradesAreHedges, TradeWindows, BestFreeCounterpart
<1>5. WalkedInv'
  BY <1>1, <1>2 DEF WalkedInv
<1> QED BY <1>3, <1>4, <1>5 DEF IInv

(* An empty journal satisfies the invariant, before and after a wipe. *)
LEMMA EmptyIInv ==
  /\ Init => IInv
  /\ Wipe => IInv'
<1>1. Init => IInv
  <2> SUFFICES ASSUME Init PROVE IInv
    OBVIOUS
  <2>1. DOMAIN trades = {} /\ Leg = {} /\ Len(trades) = 0
    BY DEF Init, Leg
  <2>2. TypeOK
    BY <2>1 DEF Init, TypeOK
  <2>3. TradesAreHedges
    BY <2>1 DEF TradesAreHedges
  <2>4. TradeWindows
    BY <2>1 DEF TradeWindows
  <2>5. WalkedInv
    BY <2>1 DEF Init, WalkedInv
  <2>6. BestFreeCounterpart
    BY <2>1 DEF BestFreeCounterpart
  <2> QED BY <2>2, <2>3, <2>4, <2>5, <2>6 DEF IInv
<1>2. Wipe => IInv'
  <2> SUFFICES ASSUME Wipe PROVE IInv'
    OBVIOUS
  <2>1. DOMAIN trades' = {} /\ Leg' = {} /\ Len(trades') = 0
    BY DEF Wipe, Leg
  <2>2. TypeOK'
    BY <2>1 DEF Wipe, TypeOK
  <2>3. TradesAreHedges'
    BY <2>1 DEF TradesAreHedges
  <2>4. TradeWindows'
    BY <2>1 DEF TradeWindows
  <2>5. WalkedInv'
    BY <2>1 DEF Wipe, WalkedInv
  <2>6. BestFreeCounterpart'
    BY <2>1 DEF BestFreeCounterpart
  <2> QED BY <2>2, <2>3, <2>4, <2>5, <2>6 DEF IInv
<1> QED BY <1>1, <1>2

(* Passing a leg over preserves the invariant. *)
LEMMA PassOverIInv ==
  ASSUME IInv, NEW a \in Leg, PassOver(a)
  PROVE  IInv'
<1>1. /\ UNCHANGED <<legs, tradeOf, trades, unpaired>>
      /\ walked' = walked \cup {a}
      /\ Leg' = Leg /\ TradeRecord' = TradeRecord
  BY DEF PassOver, Leg, TradeRecord
<1>2. TypeOK'
  BY <1>1 DEF IInv, TypeOK
<1>3. TradesAreHedges' /\ TradeWindows' /\ BestFreeCounterpart'
  BY <1>1, SameTables DEF IInv
<1>4. a \in Free => \A b \in Free : ~Eligible(a, b)
  BY DEF PassOver, Free, Candidates, Eligible, Opposed
<1>5. WalkedInv'
  <2>1. Free' = Free /\ unpaired = None
    BY <1>1 DEF Free, PassOver, IsNext, IInv, WalkedInv
  <2>2. \A x, y \in Leg : Eligible(x, y)' <=> Eligible(x, y)
    BY <1>1, SameOnLegs
  <2>3. Free \subseteq Leg
    BY DEF Free
  <2> QED BY <1>1, <1>4, <2>1, <2>2, <2>3, SameOnLegs DEF IInv, WalkedInv
<1> QED BY <1>2, <1>3, <1>5 DEF IInv

(* The report preserves the invariant. *)
LEMMA ReportIInv ==
  ASSUME IInv, Report
  PROVE  IInv'
<1>1. /\ UNCHANGED <<legs, walked, tradeOf, trades>>
      /\ Free' = Free /\ Leg' = Leg /\ TradeRecord' = TradeRecord
  BY DEF Report, Free, Leg, TradeRecord
<1>2. TypeOK'
  BY <1>1 DEF IInv, TypeOK, Report, Free
<1>3. TradesAreHedges' /\ TradeWindows' /\ BestFreeCounterpart'
  BY <1>1, SameTables DEF IInv
<1>4. WalkedInv'
  <2>1. \A x, y \in Leg : Eligible(x, y)' <=> Eligible(x, y)
    BY <1>1, SameOnLegs
  <2>2. Free \subseteq Leg
    BY DEF Free
  <2> QED BY <1>1, <2>1, <2>2, SameOnLegs DEF IInv, WalkedInv, Report
<1> QED BY <1>2, <1>3, <1>4 DEF IInv

(* Every step of the walk, or before it, preserves the invariant. *)
LEMMA PairingInductive ==
  ASSUME IInv, [Insert \/ Walk \/ Wipe]_vars
  PROVE  IInv'
<1>1. CASE Insert \/ Walk \/ Wipe
  BY <1>1, InsertIInv, PairIInv, PassOverIInv, ReportIInv, EmptyIInv DEF Walk
<1>2. CASE UNCHANGED vars
  <2>1. UNCHANGED <<legs, tradeOf, trades>> /\ walked' = walked /\ unpaired' = unpaired
    BY <1>2 DEF vars
  <2>2. Leg' = Leg /\ Free' = Free /\ TradeRecord' = TradeRecord
    BY <2>1, SameTables
  <2>3. TypeOK'
    BY <2>1, <2>2 DEF IInv, TypeOK
  <2>4. TradesAreHedges' /\ TradeWindows' /\ BestFreeCounterpart'
    BY <2>1, SameTables DEF IInv
  <2>5. WalkedInv'
    <3>1. \A x, y \in Leg : Eligible(x, y)' <=> Eligible(x, y)
      BY <2>1, SameOnLegs
    <3>2. Free \subseteq Leg
      BY DEF Free
    <3> QED BY <2>1, <2>2, <3>1, <3>2, SameOnLegs DEF IInv, WalkedInv
  <2> QED BY <2>3, <2>4, <2>5 DEF IInv
<1> QED BY <1>1, <1>2

(* The inductive invariant holds throughout the walk. *)
THEOREM PairingInvariance == Spec => []IInv
<1>1. Init => IInv
  BY EmptyIInv
<1>2. IInv /\ [Insert \/ Walk \/ Wipe]_vars => IInv'
  BY PairingInductive
<1> QED BY <1>1, <1>2, PTL DEF Spec

-------------------------------------------------------------------------------
(* The replay of the fills *)

RP == INSTANCE MarketReplayProofs

(* What MarketReplay assumes of its constants, Rebuild assumes as well. *)
LEMMA ReplayConstants == RP!ReplayAssumption
BY RebuildAssumption, PairingAssumption DEF RP!ReplayAssumption

(* Both instances add up alike. *)
LEMMA SameSum ==
  ASSUME NEW a, NEW S
  PROVE  RP!SumFunctionOnSet(a, S) = SumFunctionOnSet(a, S)
BY DEF RP!SumFunctionOnSet, SumFunctionOnSet, RP!FoldFunctionOnSet,
       FoldFunctionOnSet, RP!MapThenFoldSet, MapThenFoldSet

(* Every row of the table is one, and every stored row has a symbol. *)
LEMMA RowFacts ==
  ASSUME table \in Tables
  PROVE  /\ table \in Seq(Row)
         /\ \A k \in DOMAIN table :
              /\ k \in Nat
              /\ table[k].venue \in Venue
              /\ table[k].name \in Seq(Word)
              /\ table[k].fill \in Fill
              /\ table[k].fill.timestamp \in Nat
         /\ Stored \subseteq DOMAIN table
<1>1. table \in Seq(Row)
  BY RebuildAssumption
<1>2. ASSUME NEW k \in DOMAIN table
      PROVE  /\ k \in Nat
             /\ table[k].venue \in Venue
             /\ table[k].name \in Seq(Word)
             /\ table[k].fill \in Fill
             /\ table[k].fill.timestamp \in Nat
  <2>1. table[k] \in Row /\ k \in Nat
    BY <1>1
  <2>2. table[k].fill \in Fill
    BY <2>1 DEF Row
  <2>3. table[k].fill.timestamp \in Nat
    BY <2>2, RebuildAssumption DEF Fill
  <2> QED BY <2>1, <2>2, <2>3 DEF Row
<1> QED BY <1>1, <1>2 DEF Stored

(* The fills replayed are those of the rows replayed. *)
LEMMA FillsFacts ==
  ASSUME table \in Tables, group \in Seq(Stored)
  PROVE  /\ fills \in Seq(Fill)
         /\ Len(fills) = Len(group)
         /\ DOMAIN fills = DOMAIN group /\ DOMAIN group = 1 .. Len(group)
         /\ \A i \in DOMAIN group : /\ group[i] \in Stored
                                     /\ fills[i] = table[group[i]].fill
<1>1. \A i \in DOMAIN group : group[i] \in Stored /\ table[group[i]].fill \in Fill
  BY RowFacts
<1>2. DOMAIN group = 1 .. Len(group) /\ Len(group) \in Nat
  OBVIOUS
<1>3. fills = [i \in 1 .. Len(group) |-> table[group[i]].fill]
  BY <1>2 DEF fills
<1> QED BY <1>1, <1>2, <1>3

(* A symbol is a record or the error's stand-in. *)
LEMMA SymbolFacts ==
  ASSUME table \in Tables, NEW k \in Stored
  PROVE  /\ SymbolOf(k) \in Canonical
         /\ table[k].venue = "variational" => SymbolOf(k).base \in Native
<1>1. /\ table[k].name \in Seq(Word)
      /\ SymbolOf(k) # None
  BY RowFacts DEF Stored
<1> DEFINE n == table[k].name
<1>2. CASE table[k].venue = "hyperliquid"
  <2>1. \/ Len(n) = 1 /\ n[1] \in Word /\ SymbolOf(k) = ToCanonical(n[1], None)
        \/ /\ Len(n) = 2 /\ n[1] \in Word /\ n[2] \in Word
           /\ SymbolOf(k) = ToCanonical(n[2], n[1])
    BY <1>1, <1>2 DEF SymbolOf, Normalize, NormalizeHyperliquid
  <2> QED BY <1>1, <1>2, <2>1, CanonicalFacts
<1>3. CASE table[k].venue # "hyperliquid"
  <2> DEFINE w == Stripped[Upper[n[1]]]
  <2>1. Len(n) = 1 /\ n[1] \in Word /\ SymbolOf(k) = ToCanonical(w, None)
    BY <1>1, <1>3 DEF SymbolOf, Normalize, NormalizeVariational
  <2>2. w \in Word
    BY <2>1, SymbolAssumption
  <2>3. None \notin Short
    BY SymbolAssumption
  <2>4. w \in Native /\ SymbolOf(k) = [namespace |-> None, base |-> Upper[w]]
    BY <1>1, <2>1, <2>3 DEF ToCanonical
  <2> QED BY <2>2, <2>4, SymbolAssumption DEF Canonical
<1> QED BY <1>2, <1>3
(* The instance with the proofs says what the instance of Rebuild says. *)
LEMMA SameReplay ==
  ASSUME NEW f
  PROVE  /\ R!Close(f) <=> RP!Close(f)
         /\ R!Flip(f) <=> RP!Flip(f)
         /\ R!Grow(f) <=> RP!Grow(f)
         /\ R!NextMarket <=> RP!NextMarket
         /\ R!InOrder(f) <=> RP!InOrder(f)
         /\ R!Init <=> RP!Init
         /\ R!Fill = RP!Fill
         /\ R!TypeOK <=> RP!TypeOK
<1>1. /\ R!Take(f) <=> RP!Take(f)
      /\ R!Earlier = RP!Earlier
      /\ R!Absorbing(f) = RP!Absorbing(f)
      /\ R!Remainder(f) = RP!Remainder(f)
      /\ R!Crosses(position, position') <=> RP!Crosses(position, position')
  BY DEF R!Take, RP!Take, R!Delta, RP!Delta, R!Earlier, RP!Earlier, R!Absorbing,
         RP!Absorbing, R!Absorb, RP!Absorb, R!Opened, RP!Opened, R!NewDraft,
         RP!NewDraft, R!DirectionOf, RP!DirectionOf, R!EntrySide, RP!EntrySide,
         R!Remainder, RP!Remainder, R!Abs, RP!Abs, R!Crosses, RP!Crosses
<1>2. R!Topped(RP!Absorbing(f)) = RP!Topped(RP!Absorbing(f))
  BY DEF R!Topped, RP!Topped, R!Abs, RP!Abs
<1>3. R!Close(f) <=> RP!Close(f)
  BY <1>1 DEF R!Close, RP!Close
<1>4. R!Flip(f) <=> RP!Flip(f)
  BY <1>1 DEF R!Flip, RP!Flip
<1>5. R!Grow(f) <=> RP!Grow(f)
  BY <1>1, <1>2 DEF R!Grow, RP!Grow
<1>6. /\ R!NextMarket <=> RP!NextMarket
      /\ R!InOrder(f) <=> RP!InOrder(f)
      /\ R!Init <=> RP!Init
      /\ R!Fill = RP!Fill
  BY DEF R!NextMarket, RP!NextMarket, R!InOrder, RP!InOrder, R!Init, RP!Init,
         R!Fill, RP!Fill
<1>7. R!TypeOK <=> RP!TypeOK
  BY <1>6 DEF R!TypeOK, RP!TypeOK, R!LegDraft, RP!LegDraft
<1> QED BY <1>3, <1>4, <1>5, <1>6, <1>7

(* A step of rebuild() keeps track of the loops it is in. *)
LEMMA StageStep ==
  ASSUME StageInv, [RebuildNext]_rebuildVars
  PROVE  StageInv'
<1> USE DEF StageInv
<1>1. /\ table' = table /\ Stored' = Stored
      /\ \A k, m : Market(k)' = Market(k) /\ (Before(k, m)' <=> Before(k, m))
  <2>1. table' = table
    BY DEF RebuildNext, Replay, Store, PairLegs, Again, rebuildVars
  <2> QED BY <2>1 DEF Stored, SymbolOf, Market, Before
<1>2. ASSUME NEW k \in left, Replay(k) PROVE StageInv'
  <2>1. /\ group' = Append(group, k) /\ left' = left \ {k}
        /\ k \in Rest /\ \A m \in Rest \ {k} : Market(m) = Market(k) => Before(k, m)
        /\ walked' = walked /\ unpaired' = unpaired
    BY <1>2 DEF Replay, IsNextRow, vars
  <2>2. /\ group' \in Seq(Stored) /\ Len(group') = Len(group) + 1
        /\ DOMAIN group' = 1 .. Len(group) + 1 /\ DOMAIN group = 1 .. Len(group)
        /\ group'[Len(group) + 1] = k
        /\ \A i \in DOMAIN group : group'[i] = group[i]
        /\ Len(group) \in Nat
    BY <2>1
  <2>3. Market(group'[1]) = Market(k) /\ \A i \in DOMAIN group' : Market(group'[i]) = Market(k)
    <3>1. CASE group = <<>>
      BY <2>2, <3>1
    <3>2. CASE group # <<>>
      <4>1. Market(k) = Market(group[1])
        BY <2>1, <3>2 DEF Rest
      <4>2. 1 \in DOMAIN group
        BY <2>2, <3>2
      <4> QED BY <2>2, <4>1, <4>2
    <3> QED BY <3>1, <3>2
  <2>4. ASSUME NEW m \in left', Market(m) = Market(k) PROVE Before(k, m)
    BY <2>1, <2>4 DEF Rest
  <2> QED BY <1>1, <2>1, <2>2, <2>3, <2>4
<1>3. ASSUME Store PROVE StageInv'
  <2>1. group' = <<>> /\ DOMAIN group' = {} /\ left' = left
        /\ walked' = walked /\ unpaired' = unpaired /\ group # <<>>
    BY <1>3 DEF Store
  <2> QED BY <1>1, <2>1
<1>4. ASSUME PairLegs PROVE StageInv'
  BY <1>1, <1>4 DEF PairLegs
<1>5. ASSUME Again PROVE StageInv'
  <2>1. group' = group /\ left' = Stored /\ walked' = {} /\ unpaired' = None
    BY <1>5 DEF Again, Wipe
  <2>2. group = <<>>
    BY <1>5, PairingAssumption DEF Again, Wipe
  <2> QED BY <1>1, <2>1, <2>2
<1>6. ASSUME UNCHANGED rebuildVars PROVE StageInv'
  BY <1>1, <1>6 DEF rebuildVars, vars
<1> QED BY <1>2, <1>3, <1>4, <1>5, <1>6 DEF RebuildNext

(* A step of rebuild() is one of the replay, or leaves the replay alone. *)
LEMMA ReplayStep ==
  ASSUME StageInv, [RebuildNext]_rebuildVars
  PROVE  [RP!Next]_RP!vars
<1>1. table \in Tables /\ group \in Seq(Stored)
  BY DEF StageInv
<1>2. ASSUME NEW k \in left, Replay(k) PROVE RP!Next
  <2> DEFINE f == table[k].fill
  <2>1. RP!Close(f) \/ RP!Flip(f) \/ RP!Grow(f)
    BY <1>2, SameReplay DEF Replay
  <2>2. f \in RP!Fill
    BY <1>1, RowFacts DEF StageInv, RP!Fill, Fill
  <2>3. RP!InOrder(f)
    <3> SUFFICES ASSUME fills # <<>>
                 PROVE  fills[Len(fills)].timestamp <= f.timestamp
      BY DEF RP!InOrder
    <3>1. /\ Len(group) \in DOMAIN group /\ group # <<>>
          /\ Len(fills) = Len(group)
          /\ fills[Len(fills)] = table[group[Len(group)]].fill
      BY <1>1, FillsFacts
    <3>2. Market(k) = Market(group[1])
      BY <1>2, <3>1 DEF Replay, IsNextRow, Rest
    <3>3. Before(group[Len(group)], k)
      BY <3>1, <3>2 DEF StageInv
    <3>4. /\ table[group[Len(group)]].fill.timestamp \in Nat
          /\ f.timestamp \in Nat
      BY <1>1, <3>1, RowFacts DEF StageInv
    <3> QED BY <3>1, <3>3, <3>4 DEF Before
  <2> HIDE DEF f
  <2> QED BY <2>1, <2>2, <2>3 DEF RP!Next
<1>3. ASSUME Store PROVE RP!Next
  BY <1>3, SameReplay DEF Store, RP!Next
<1>4. ASSUME PairLegs \/ Again \/ UNCHANGED rebuildVars PROVE UNCHANGED RP!vars
  <2>1. /\ group' = group /\ table' = table
        /\ drafts' = drafts /\ current' = current
        /\ position' = position /\ flips' = flips
    BY <1>4 DEF PairLegs, Again, rebuildVars, replay
  <2>2. fills' = fills
    BY <2>1 DEF fills
  <2> QED BY <2>1, <2>2 DEF RP!vars
<1> QED BY <1>2, <1>3, <1>4 DEF RebuildNext
-------------------------------------------------------------------------------
(* The legs it stores *)

RebuildInv ==
  /\ StageInv /\ RP!IInv /\ RP!ReferenceInv
  /\ IInv /\ LegsInv /\ AssignedInv /\ TakenInv /\ MarketInv /\ LayoutInv

(* A stored draft is a leg of the market it was built in. *)
LEMMA LegRowFacts ==
  ASSUME StageInv, RP!IInv, group # <<>>, NEW i \in DOMAIN drafts
  PROVE  LET row == LegRow(drafts[i]) IN
         /\ row \in LegRecord
         /\ <<row.venue, row.symbol>> = Market(group[1])
         /\ row.venue = "variational" => row.symbol.base \in Native
         /\ row.peak > 0 \/ row.closed_at = row.opened_at
<1> DEFINE d == drafts[i]
           k == group[1]
<1>1. table \in Tables /\ group \in Seq(Stored) /\ k \in Stored
  BY DEF StageInv
<1>2. /\ table[k].venue \in Venue
      /\ SymbolOf(k) \in Canonical
      /\ table[k].venue = "variational" => SymbolOf(k).base \in Native
  BY <1>1, RowFacts, SymbolFacts
<1>3. d \in RP!LegDraft
  BY DEF RP!IInv, RP!TypeOK
<1>4. /\ d.opened_at \in Nat /\ d.closed_at \in Nat \cup {None}
      /\ d.direction \in {"long", "short"} /\ d.peak \in Nat
      /\ d.flip_affected \in BOOLEAN
  BY <1>3, RebuildAssumption DEF RP!LegDraft
<1>5. d.peak > 0 \/ d.closed_at = d.opened_at
  BY DEF RP!IInv, RP!PeakInv
<1> HIDE DEF d
<1>6. LegRow(d) \in LegRecord
  BY <1>2, <1>4 DEF LegRow, LegRecord, Market
<1> QED BY <1>2, <1>5, <1>6 DEF LegRow, Market, d

(* The places of a concatenation. *)
LEMMA ConcatFacts ==
  ASSUME NEW S, NEW s \in Seq(S), NEW t \in Seq(S)
  PROVE  /\ s \o t \in Seq(S)
         /\ Len(s \o t) = Len(s) + Len(t)
         /\ \A i \in 1 .. Len(s) : (s \o t)[i] = s[i]
         /\ \A i \in 1 .. Len(t) : (s \o t)[Len(s) + i] = t[i]
OBVIOUS

(* What a market's legs add to the table. *)
LEMMA StoreFacts ==
  ASSUME RebuildInv, Store
  PROVE  /\ legs \in Seq(LegRecord) /\ legs' \in Seq(LegRecord)
         /\ Len(legs) \in Nat /\ Len(drafts) \in Nat
         /\ DOMAIN drafts = 1 .. Len(drafts)
         /\ Leg = 1 .. Len(legs)
         /\ Leg' = 1 .. Len(legs) + Len(drafts)
         /\ Len(legs') = Len(legs) + Len(drafts)
         /\ \A l \in Leg : legs'[l] = legs[l]
         /\ \A i \in DOMAIN drafts : legs'[Len(legs) + i] = LegRow(drafts[i])
<1> DEFINE rows == [i \in DOMAIN drafts |-> LegRow(drafts[i])]
<1>1. legs \in Seq(LegRecord) /\ Len(legs) \in Nat /\ Leg = 1 .. Len(legs)
  BY DEF RebuildInv, IInv, TypeOK, Leg
<1>2. /\ drafts \in Seq(RP!LegDraft) /\ Len(drafts) \in Nat
      /\ DOMAIN drafts = 1 .. Len(drafts)
  BY DEF RebuildInv, RP!IInv, RP!TypeOK
<1>3. \A i \in DOMAIN drafts : LegRow(drafts[i]) \in LegRecord
  BY LegRowFacts DEF RebuildInv, Store
<1>4. rows \in Seq(LegRecord) /\ Len(rows) = Len(drafts)
  BY <1>2, <1>3
<1>5. \A i \in DOMAIN drafts : rows[i] = LegRow(drafts[i])
  OBVIOUS
<1>6. legs' = legs \o rows
  BY DEF Store
<1> HIDE DEF rows
<1>7. /\ legs' \in Seq(LegRecord) /\ Len(legs') = Len(legs) + Len(drafts)
      /\ \A l \in 1 .. Len(legs) : legs'[l] = legs[l]
      /\ \A i \in 1 .. Len(drafts) : legs'[Len(legs) + i] = rows[i]
  <2>1. /\ legs \o rows \in Seq(LegRecord)
        /\ Len(legs \o rows) = Len(legs) + Len(rows)
        /\ \A i \in 1 .. Len(legs) : (legs \o rows)[i] = legs[i]
        /\ \A i \in 1 .. Len(rows) : (legs \o rows)[Len(legs) + i] = rows[i]
    <3>1. legs \in Seq(LegRecord) /\ rows \in Seq(LegRecord)
      BY <1>1, <1>4
    <3> QED BY <3>1, ConcatFacts
  <2> QED BY <1>4, <1>6, <2>1, Zenon
<1>8. Leg' = 1 .. Len(legs) + Len(drafts)
  BY <1>7 DEF Leg
<1> QED BY <1>1, <1>2, <1>5, <1>7, <1>8

(* Storing a market is what TradePairing expects before the walk. *)
LEMMA StoreIsInsert ==
  ASSUME RebuildInv, Store
  PROVE  Insert
<1>1. walked = {} /\ unpaired = None
  BY DEF RebuildInv, StageInv, Store
<1>2. /\ legs' \in Seq(LegRecord) /\ legs \in Seq(LegRecord)
      /\ Len(legs) \in Nat /\ Len(legs') \in Nat /\ Len(legs') >= Len(legs)
      /\ \A l \in 1 .. Len(legs) : legs'[l] = legs[l]
  BY StoreFacts
<1>3. SubSeq(legs', 1, Len(legs)) = legs
  <2>1. SubSeq(legs', 1, Len(legs)) = [l \in 1 .. Len(legs) |-> legs'[l]]
    BY <1>2
  <2>2. legs = [l \in 1 .. Len(legs) |-> legs[l]]
    BY <1>2
  <2> QED BY <1>2, <2>1, <2>2
<1> QED BY <1>1, <1>2, <1>3 DEF Store, Insert

(* Every step of rebuild() is one of TradePairing, or leaves it alone. *)
LEMMA PairingStep ==
  ASSUME RebuildInv, [RebuildNext]_rebuildVars
  PROVE  [Insert \/ Walk \/ Wipe]_vars
BY StoreIsInsert DEF RebuildNext, Replay, PairLegs, Again, rebuildVars

(* A step of rebuild() keeps the legs to their markets and their sizes. *)
LEMMA LegsStep ==
  ASSUME RebuildInv, [RebuildNext]_rebuildVars
  PROVE  LegsInv'
<1>1. CASE Store
  <2> SUFFICES ASSUME NEW l \in Leg'
               PROVE  /\ legs'[l].venue = "variational" =>
                            legs'[l].symbol.base \in Native
                      /\ \/ legs'[l].peak > 0
                         \/ legs'[l].closed_at = legs'[l].opened_at
    BY DEF LegsInv
  <2>1. CASE l \in Leg
    BY <1>1, <2>1, StoreFacts DEF RebuildInv, LegsInv
  <2>2. CASE l \notin Leg
    <3>1. PICK i \in DOMAIN drafts : l = Len(legs) + i
      <4>1. l - Len(legs) \in DOMAIN drafts /\ l = Len(legs) + (l - Len(legs))
        BY <1>1, <2>2, StoreFacts
      <4> QED BY <4>1
    <3>2. legs'[l] = LegRow(drafts[i])
      BY <1>1, <3>1, StoreFacts
    <3> QED BY <1>1, <3>2, LegRowFacts DEF RebuildInv, Store
  <2> QED BY <2>1, <2>2
<1>2. CASE Again
  <2>1. Leg' = {}
    BY <1>2 DEF Again, Wipe, Leg
  <2> QED BY <2>1 DEF LegsInv
<1>3. CASE legs' = legs
  BY <1>3 DEF RebuildInv, LegsInv, Leg
<1>4. Store \/ Again \/ legs' = legs
  BY DEF RebuildNext, Replay, PairLegs, Walk, Pair, PassOver, Report, rebuildVars, vars
<1> QED BY <1>1, <1>2, <1>3, <1>4
(* The draft of a row, if it has one, was built in the row's market. *)
LEMMA DraftFacts ==
  ASSUME RebuildInv, Store, NEW k \in DOMAIN table
  PROVE  /\ DraftOf(k) \subseteq DOMAIN drafts
         /\ DraftOf(k) # {} => k \in Stored /\ Market(k) = Market(group[1])
         /\ k \in Taken => DraftOf(k) # {}
<1>1. /\ Len(fills) = Len(group) /\ DOMAIN group = 1 .. Len(group)
      /\ \A n \in DOMAIN group : /\ group[n] \in Stored
                                  /\ Market(group[n]) = Market(group[1])
  BY FillsFacts DEF RebuildInv, StageInv
<1>2. \A i \in DOMAIN drafts : drafts[i].fills \subseteq DOMAIN group
  BY <1>1 DEF RebuildInv, RP!IInv, RP!PastInv
<1>3. \A n \in DOMAIN group : \E i \in DOMAIN drafts : n \in drafts[i].fills
  BY <1>1 DEF RebuildInv, RP!IInv, RP!FillsPartitioned
<1> QED BY <1>1, <1>2, <1>3 DEF DraftOf, Taken

(* A step of rebuild() assigns rows to legs of their own market only. *)
LEMMA AssignedStep ==
  ASSUME RebuildInv, [RebuildNext]_rebuildVars
  PROVE  AssignedInv'
<1>1. /\ table' = table /\ Stored' = Stored
      /\ \A k : Market(k)' = Market(k)
  <2>1. table' = table
    BY DEF RebuildNext, Replay, Store, PairLegs, Again, rebuildVars
  <2> QED BY <2>1 DEF Stored, SymbolOf, Market
<1>2. /\ assigned \in [DOMAIN table -> 0 .. Len(legs)]
      /\ legs \in Seq(LegRecord) /\ Leg = 1 .. Len(legs) /\ Len(legs) \in Nat
  BY DEF RebuildInv, AssignedInv, IInv, TypeOK, Leg
<1>3. ASSUME NEW r \in left, Replay(r) PROVE AssignedInv'
  <2>1. /\ assigned' = assigned /\ legs' = legs /\ left' = left \ {r}
        /\ group' = Append(group, r)
    BY <1>3 DEF Replay, vars
  <2>2. group \in Seq(Stored)
    BY DEF RebuildInv, StageInv
  <2>3. /\ Len(group) + 1 \in DOMAIN group' /\ group'[Len(group) + 1] = r
        /\ \A n \in DOMAIN group : n \in DOMAIN group' /\ group'[n] = group[n]
    BY <2>1, <2>2
  <2>4. ASSUME NEW k \in Stored \ left'
        PROVE  assigned[k] # 0 \/ k \in Taken'
    <3>1. CASE k = r
      BY <2>3, <3>1 DEF Taken
    <3>2. CASE k # r
      BY <2>1, <2>3, <3>2 DEF RebuildInv, AssignedInv, Taken
    <3> QED BY <3>1, <3>2
  <2>5. \A k \in DOMAIN table : MarketOf(assigned[k])' = MarketOf(assigned[k])
    BY <2>1 DEF MarketOf
  <2> QED BY <1>1, <2>1, <2>4, <2>5 DEF RebuildInv, AssignedInv
<1>4. ASSUME Store PROVE AssignedInv'
  <2> DEFINE chosen(k) == CHOOSE i \in DraftOf(k) : TRUE
  <2>1. ASSUME NEW k \in DOMAIN table
        PROVE  /\ DraftOf(k) = {} => assigned'[k] = assigned[k]
               /\ DraftOf(k) # {} =>
                    /\ chosen(k) \in 1 .. Len(drafts)
                    /\ assigned'[k] = Len(legs) + chosen(k)
    <3>1. DraftOf(k) # {} => chosen(k) \in DraftOf(k)
      OBVIOUS
    <3>2. assigned'[k] = IF DraftOf(k) = {} THEN assigned[k]
                                           ELSE Len(legs) + chosen(k)
      BY <1>4 DEF Store
    <3>3. DraftOf(k) \subseteq DOMAIN drafts /\ DOMAIN drafts = 1 .. Len(drafts)
      BY <1>4, DraftFacts, StoreFacts
    <3> QED BY <3>1, <3>2, <3>3
  <2>2. assigned' \in [DOMAIN table' -> 0 .. Len(legs')]
    <3>1. ASSUME NEW k \in DOMAIN table
          PROVE  assigned'[k] \in 0 .. Len(legs) + Len(drafts)
      <4>1. /\ assigned[k] \in 0 .. Len(legs) /\ Len(legs) \in Nat
            /\ Len(drafts) \in Nat
        BY <1>2, <1>4, StoreFacts
      <4> HIDE DEF chosen
      <4> QED BY <2>1, <4>1
    <3>2. Len(legs') = Len(legs) + Len(drafts)
      BY <1>4, StoreFacts
    <3>3. assigned' = [k \in DOMAIN table |-> assigned'[k]]
      BY <1>4 DEF Store
    <3> QED BY <1>1, <3>1, <3>2, <3>3
  <2>3. ASSUME NEW k \in DOMAIN table, assigned'[k] # 0
        PROVE  /\ k \in Stored
               /\ MarketOf(assigned[k])' = Market(k)
    <3>1. CASE DraftOf(k) = {}
      <4>1. assigned'[k] = assigned[k] /\ assigned[k] \in Leg
        BY <1>2, <2>1, <2>3, <3>1
      <4>2. legs'[assigned'[k]] = legs[assigned[k]]
        BY <1>4, <4>1, StoreFacts
      <4> QED BY <2>3, <4>1, <4>2 DEF RebuildInv, AssignedInv, MarketOf
    <3>2. CASE DraftOf(k) # {}
      <4>1. /\ chosen(k) \in DOMAIN drafts
            /\ legs'[assigned'[k]] = LegRow(drafts[chosen(k)])
        BY <1>4, <2>1, <3>2, StoreFacts
      <4>2. k \in Stored /\ Market(k) = Market(group[1])
        BY <1>4, <3>2, DraftFacts
      <4> HIDE DEF chosen
      <4>3. group # <<>>
        BY <1>4 DEF Store
      <4> QED BY <4>1, <4>2, <4>3, LegRowFacts DEF RebuildInv, MarketOf
    <3> QED BY <3>1, <3>2
  <2>4. ASSUME NEW k \in Stored \ left PROVE assigned'[k] # 0
    <3>0. k \in DOMAIN table
      BY RowFacts DEF RebuildInv, StageInv
    <3>1. CASE DraftOf(k) = {}
      BY <1>4, <2>1, <3>0, <3>1, DraftFacts DEF RebuildInv, AssignedInv
    <3>2. CASE DraftOf(k) # {}
      BY <1>2, <2>1, <3>0, <3>2
    <3> QED BY <3>1, <3>2
  <2>5. left' = left
    BY <1>4 DEF Store
  <2> QED BY <1>1, <2>2, <2>3, <2>4, <2>5 DEF AssignedInv
<1>5. ASSUME Again PROVE AssignedInv'
  <2>1. left' = Stored /\ assigned' = [k \in DOMAIN table |-> 0] /\ legs' = <<>>
    BY <1>5 DEF Again, Wipe
  <2>2. Len(legs') = 0
    BY <2>1
  <2> QED BY <1>1, <2>1, <2>2 DEF AssignedInv
<1>6. ASSUME PairLegs \/ UNCHANGED rebuildVars PROVE AssignedInv'
  <2>1. UNCHANGED <<legs, assigned, left, group>>
    BY <1>6 DEF PairLegs, Walk, Pair, PassOver, Report, rebuildVars, vars
  <2> QED BY <1>1, <2>1 DEF RebuildInv, AssignedInv, MarketOf, Taken
<1> QED BY <1>3, <1>4, <1>5, <1>6 DEF RebuildNext

(* The changes of a finite table are integers, and can be added up. *)
LEMMA ChangeFacts ==
  ASSUME table \in Tables
  PROVE  /\ IsFiniteSet(Stored)
         /\ \A k \in DOMAIN table : Change[k] \in Int
         /\ \A k \in DOMAIN table : Change[k] = R!Delta(table[k].fill)
<1>1. DOMAIN table = 1 .. Len(table) /\ Len(table) \in Nat
  BY RowFacts
<1>2. IsFiniteSet(Stored)
  <2>1. IsFiniteSet(1 .. Len(table))
    BY <1>1, FS_Interval
  <2> QED BY <1>1, <2>1, FS_Subset, RowFacts
<1>3. ASSUME NEW k \in DOMAIN table PROVE Change[k] \in Int
  <2>1. table[k].fill.quantity \in Int
    BY RowFacts, RebuildAssumption DEF Fill
  <2> QED BY <2>1 DEF Change, R!Delta
<1> QED BY <1>2, <1>3 DEF Change

(* A row that is replayed is taken. *)
LEMMA TakenAppend ==
  ASSUME StageInv, NEW k \in left, Replay(k)
  PROVE  Taken' = Taken \cup {k}
<1>1. group' = Append(group, k) /\ group \in Seq(Stored) /\ k \in Stored
  BY DEF Replay, StageInv
<1>2. DOMAIN group' = DOMAIN group \cup {Len(group) + 1}
  BY <1>1
<1>3. /\ group'[Len(group) + 1] = k
      /\ \A i \in DOMAIN group : group'[i] = group[i]
  BY <1>1
<1> QED BY <1>2, <1>3 DEF Taken

(* The running position is always what the rows replayed add up to. *)
LEMMA TakenStep ==
  ASSUME RebuildInv, [RebuildNext]_rebuildVars
  PROVE  TakenInv'
<1>1. table' = table /\ Stored' = Stored /\ Change' = Change
  <2>1. table' = table
    BY DEF RebuildNext, Replay, Store, PairLegs, Again, rebuildVars
  <2> QED BY <2>1 DEF Stored, SymbolOf, Change, R!Delta
<1>2. /\ table \in Tables /\ group \in Seq(Stored) /\ Taken \subseteq Stored
      /\ left \subseteq Stored
  BY DEF RebuildInv, StageInv, Taken
<1>3. /\ Taken \cap left = {} /\ position = SumFunctionOnSet(Change, Taken)
      /\ \A i, j \in DOMAIN group : group[i] = group[j] => i = j
  BY DEF RebuildInv, TakenInv
<1>4. ASSUME NEW k \in left, Replay(k) PROVE TakenInv'
  <2>1. /\ left' = left \ {k}
        /\ position' = position + R!Delta(table[k].fill)
    BY <1>4 DEF Replay, R!Close, R!Flip, R!Grow, R!Take
  <2>2. Taken' = Taken \cup {k}
    BY <1>4, TakenAppend DEF RebuildInv
  <2>3. k \in Stored /\ k \in DOMAIN table /\ k \notin Taken
    BY <1>2, <1>3, RowFacts
  <2>4. IsFiniteSet(Taken) /\ \A m \in Taken \cup {k} : Change[m] \in Int
    BY <1>2, <2>3, ChangeFacts, FS_Subset, RowFacts
  <2>5. SumFunctionOnSet(Change, Taken \cup {k})
          = SumFunctionOnSet(Change, Taken) + Change[k]
    BY <2>3, <2>4, SumAdd
  <2>6. Change[k] = R!Delta(table[k].fill)
    BY <1>2, <2>3, ChangeFacts
  <2>7. \A i, j \in DOMAIN group' : group'[i] = group'[j] => i = j
    <3>1. group' = Append(group, k)
      BY <1>4 DEF Replay
    <3>2. DOMAIN group' = DOMAIN group \cup {Len(group) + 1}
      BY <1>2, <3>1
    <3>3. /\ group'[Len(group) + 1] = k
          /\ \A i \in DOMAIN group : group'[i] = group[i] /\ group[i] # k
      BY <1>2, <2>3, <3>1 DEF Taken
    <3> QED BY <1>3, <3>2, <3>3
  <2>8. Taken' \cap left' = {}
    BY <1>3, <2>1, <2>2
  <2>9. position' = SumFunctionOnSet(Change, Taken')
    BY <1>3, <2>1, <2>2, <2>5, <2>6
  <2> QED BY <1>1, <2>7, <2>8, <2>9 DEF TakenInv
<1>5. ASSUME Store PROVE TakenInv'
  <2>1. Taken' = {} /\ position' = 0 /\ DOMAIN group' = {}
    BY <1>5 DEF Store, R!NextMarket, Taken
  <2> QED BY <2>1, SumEmpty DEF TakenInv
<1>6. ASSUME PairLegs \/ UNCHANGED rebuildVars PROVE TakenInv'
  <2>1. /\ left' = left /\ Taken' = Taken /\ position' = position
        /\ group' = group
    BY <1>6 DEF PairLegs, rebuildVars, replay, Taken
  <2> QED BY <1>1, <1>3, <2>1 DEF TakenInv
<1>7. ASSUME Again PROVE TakenInv'
  <2>1. position' = position /\ group' = group
    BY <1>7 DEF Again, replay
  <2>2. Taken = {}
    <3>1. group = <<>>
      BY <1>7, PairingAssumption DEF Again, Wipe, RebuildInv, StageInv
    <3> QED BY <3>1 DEF Taken
  <2>3. Taken' = {}
    BY <2>1, <2>2 DEF Taken
  <2> QED BY <1>1, <1>3, <2>1, <2>2, <2>3 DEF TakenInv
<1> QED BY <1>4, <1>5, <1>6, <1>7 DEF RebuildNext

(* A market's drafts were open one after the other. *)
LEMMA DraftWindows ==
  ASSUME RP!IInv, NEW i \in DOMAIN drafts
  PROVE  /\ drafts[i].closed_at # None => drafts[i].opened_at <= drafts[i].closed_at
         /\ \A j \in DOMAIN drafts : i < j =>
              /\ drafts[i].closed_at # None
              /\ drafts[i].closed_at <= drafts[j].opened_at
BY DEF RP!IInv, RP!PastInv, RP!WindowsDisjoint

(* When a market is stored, the rows replayed are all it has. *)
LEMMA WholeMarket ==
  ASSUME RebuildInv, Store
  PROVE  /\ {k \in Stored : Market(k) = Market(group[1])} = Taken
         /\ group[1] \in Taken
         /\ \A l \in Leg : MarketOf(l) # Market(group[1])
         /\ \A k \in left : Market(k) # Market(group[1])
<1>1. /\ group \in Seq(Stored) /\ group # <<>> /\ Rest = {}
      /\ \A i \in DOMAIN group : Market(group[i]) = Market(group[1])
  BY DEF Store, RebuildInv, StageInv
<1>2. 1 \in DOMAIN group /\ \A i \in DOMAIN group : group[i] \in Stored
  BY <1>1
<1>3. /\ group[1] \in Taken
      /\ \A k \in Taken : k \in Stored /\ Market(k) = Market(group[1])
  BY <1>1, <1>2 DEF Taken
<1>4. \A k \in left : Market(k) # Market(group[1])
  BY <1>1 DEF Rest
<1>5. \A l \in Leg : MarketOf(l) # Market(group[1])
  BY <1>3 DEF RebuildInv, MarketInv
<1>6. ASSUME NEW k \in Stored, Market(k) = Market(group[1]), k \notin Taken
      PROVE  FALSE
  <2>1. k \in DOMAIN table /\ k \notin left
    BY <1>4, <1>6, RowFacts DEF RebuildInv, StageInv
  <2>2. assigned[k] # 0 /\ assigned[k] \in 0 .. Len(legs) /\ Len(legs) \in Nat
    BY <1>6, <2>1 DEF RebuildInv, AssignedInv, IInv, TypeOK
  <2>3. assigned[k] \in Leg /\ MarketOf(assigned[k]) = Market(k)
    BY <2>1, <2>2, StoreFacts DEF RebuildInv, AssignedInv
  <2> QED BY <1>5, <1>6, <2>3
<1> QED BY <1>3, <1>4, <1>5, <1>6

(* The market just stored has the open leg its position asks for. *)
LEMMA StoredHolding ==
  ASSUME RebuildInv, Store, NEW k \in Stored, Market(k) = Market(group[1])
  PROVE  HoldsItsOpenLeg(Market(k))'
<1>1. /\ Stored' = Stored /\ Change' = Change
      /\ \A m : Market(m)' = Market(m)
  BY DEF Store, Stored, SymbolOf, Change, R!Delta, Market
<1>2. Holding(Market(k))' = position
  <2>1. position = SumFunctionOnSet(Change, {m \in Stored : Market(m) = Market(k)})
    BY WholeMarket DEF RebuildInv, TakenInv
  <2> QED BY <1>1, <2>1 DEF Holding
<1>3. /\ current \in {0, Len(drafts)} /\ Len(drafts) \in Nat
      /\ DOMAIN drafts = 1 .. Len(drafts)
      /\ current = 0 <=> position = 0
      /\ \A i \in DOMAIN drafts : drafts[i].closed_at = None <=> i = current
      /\ current # 0 => drafts[current].direction = R!DirectionOf(position)
  BY StoreFacts
  DEF RebuildInv, RP!IInv, RP!TypeOK, RP!OpenLegMatchesPosition, RP!DirectionOf,
      R!DirectionOf
<1>4. ASSUME NEW l \in Leg'
      PROVE  l \in OpenLegs(Market(k))' <=> current # 0 /\ l = Len(legs) + current
  <2>1. /\ Len(legs) \in Nat /\ Leg = 1 .. Len(legs)
        /\ Leg' = 1 .. Len(legs) + Len(drafts)
        /\ current \in Nat /\ l \in Nat
        /\ current # 0 => current \in DOMAIN drafts
    <3>1. Len(legs) \in Nat /\ Leg = 1 .. Len(legs)
          /\ Leg' = 1 .. Len(legs) + Len(drafts)
      BY StoreFacts
    <3>2. current \in {0, Len(drafts)} /\ Len(drafts) \in Nat
      BY <1>3
    <3>3. current \in Nat /\ (current # 0 => current \in 1 .. Len(drafts))
      BY <3>2
    <3>4. current # 0 => current \in DOMAIN drafts
      <4>1. DOMAIN drafts = 1 .. Len(drafts)
        BY <1>3
      <4> QED BY <3>3, <4>1
    <3>5. l \in Nat
      <4>1. l \in 1 .. Len(legs) + Len(drafts)
        BY <3>1
      <4> QED BY <4>1
    <3> QED BY <3>1, <3>3, <3>4, <3>5
  <2>2. CASE l \in Leg
    <3>1. legs'[l] = legs[l] /\ MarketOf(l) # Market(k)
      BY <2>2, StoreFacts, WholeMarket
    <3>2. l \notin OpenLegs(Market(k))'
      BY <1>1, <3>1 DEF OpenLegs, MarketOf
    <3>3. current # 0 => l # Len(legs) + current
      BY <2>1, <2>2
    <3> QED BY <3>2, <3>3
  <2>3. CASE l \notin Leg
    <3>1. PICK i \in DOMAIN drafts : l = Len(legs) + i
      <4>1. Len(drafts) \in Nat /\ DOMAIN drafts = 1 .. Len(drafts)
        BY <1>3
      <4>2. l - Len(legs) \in DOMAIN drafts /\ l = Len(legs) + (l - Len(legs))
        BY <2>1, <2>3, <4>1
      <4> QED BY <4>2
    <3>2. legs'[l] = LegRow(drafts[i]) /\ MarketOf(l)' = Market(k)
      BY <3>1, StoreFacts, LegRowFacts DEF RebuildInv, Store, MarketOf
    <3>3. IsClosed(l)' <=> i # current
      <4>1. drafts[i].closed_at = None <=> i = current
        BY <1>3
      <4>2. legs'[l].closed_at = drafts[i].closed_at
        BY <3>2 DEF LegRow
      <4> QED BY <4>1, <4>2 DEF IsClosed
    <3>4. l \in OpenLegs(Market(k))' <=> i = current
      BY <1>1, <3>2, <3>3 DEF OpenLegs
    <3>5. i = current <=> current # 0 /\ l = Len(legs) + current
      <4>1. DOMAIN drafts = 1 .. Len(drafts) /\ Len(drafts) \in Nat
        BY <1>3
      <4>2. i \in Nat /\ i # 0
        BY <4>1
      <4> QED BY <2>1, <3>1, <4>2
    <3> QED BY <3>4, <3>5
  <2> QED BY <2>2, <2>3
<1>5. OpenLegs(Market(k))' \subseteq Leg'
  BY DEF OpenLegs
<1>6. CASE current = 0
  <2>1. OpenLegs(Market(k))' = {}
    BY <1>4, <1>5, <1>6
  <2> QED BY <1>2, <1>3, <1>6, <2>1 DEF HoldsItsOpenLeg
<1>7. CASE current # 0
  <2> DEFINE l == Len(legs) + current
  <2>1. current \in DOMAIN drafts /\ l \in Leg' /\ legs'[l] = LegRow(drafts[current])
    <3>1. current \in 1 .. Len(drafts)
      BY <1>3, <1>7
    <3>2. /\ Len(legs) \in Nat /\ Len(drafts) \in Nat /\ DOMAIN drafts = 1 .. Len(drafts)
          /\ Leg' = 1 .. Len(legs) + Len(drafts)
      BY StoreFacts
    <3>3. current \in DOMAIN drafts /\ l \in Leg'
      BY <3>1, <3>2
    <3> QED BY <3>3, StoreFacts
  <2>2. legs'[l].direction = R!DirectionOf(position)
    BY <1>3, <1>7, <2>1 DEF LegRow
  <2>3. OpenLegs(Market(k))' = {l}
    BY <1>4, <1>5, <1>7, <2>1
  <2> HIDE DEF l
  <2>4. R!DirectionOf(Holding(Market(k)))' = R!DirectionOf(position)
    BY <1>2 DEF R!DirectionOf
  <2>5. Holding(Market(k))' # 0
    BY <1>2, <1>3, <1>7
  <2> QED BY <2>1, <2>2, <2>3, <2>4, <2>5 DEF HoldsItsOpenLeg
<1> QED BY <1>6, <1>7

(* A step of rebuild() changes the legs of the market it stores only. *)
LEMMA MarketStep ==
  ASSUME RebuildInv, [RebuildNext]_rebuildVars
  PROVE  MarketInv'
<1>1. /\ table' = table /\ Stored' = Stored /\ Change' = Change
      /\ \A k : Market(k)' = Market(k)
  <2>1. table' = table
    BY DEF RebuildNext, Replay, Store, PairLegs, Again, rebuildVars
  <2> QED BY <2>1 DEF Stored, SymbolOf, Market, Change, R!Delta
<1>2. ASSUME NEW k \in Stored, OpenLegs(Market(k))' = OpenLegs(Market(k)),
             Leg \subseteq Leg', \A l \in Leg : legs'[l] = legs[l],
             HoldsItsOpenLeg(Market(k))
      PROVE  HoldsItsOpenLeg(Market(k))'
  <2>1. Holding(Market(k))' = Holding(Market(k))
    BY <1>1 DEF Holding
  <2> QED BY <1>2, <2>1 DEF HoldsItsOpenLeg, R!DirectionOf
<1>3. CASE Store
  <2>1. left' = left /\ Taken' = {}
    BY <1>3 DEF Store, Taken
  <2>2. /\ Leg = 1 .. Len(legs) /\ Leg' = 1 .. Len(legs) + Len(drafts)
        /\ Len(legs) \in Nat /\ Len(drafts) \in Nat
        /\ DOMAIN drafts = 1 .. Len(drafts)
        /\ \A l \in Leg : legs'[l] = legs[l]
    BY <1>3, StoreFacts
  <2>3. ASSUME NEW l \in Leg', l \notin Leg
        PROVE  MarketOf(l)' = Market(group[1])
    <3>1. l - Len(legs) \in DOMAIN drafts /\ l = Len(legs) + (l - Len(legs))
      BY <2>2, <2>3
    <3>2. PICK i \in DOMAIN drafts : l = Len(legs) + i
      BY <3>1
    <3>3. legs'[l] = LegRow(drafts[i])
      BY <1>3, <3>2, StoreFacts
    <3> QED BY <1>3, <3>3, LegRowFacts DEF RebuildInv, Store, MarketOf
  <2>4. ASSUME NEW l \in Leg PROVE MarketOf(l)' = MarketOf(l) /\ (IsClosed(l)' <=> IsClosed(l))
    BY <2>2 DEF MarketOf, IsClosed
  <2>5. ASSUME NEW k \in left, NEW l \in Leg' PROVE MarketOf(l)' # Market(k)
    BY <1>3, <2>3, <2>4, WholeMarket DEF RebuildInv, MarketInv
  <2>6. ASSUME NEW k \in Stored \ left PROVE HoldsItsOpenLeg(Market(k))'
    <3>1. CASE Market(k) = Market(group[1])
      BY <1>3, <3>1, StoredHolding
    <3>2. CASE Market(k) # Market(group[1])
      <4>1. k \notin Taken
        BY <1>3, <3>2, WholeMarket
      <4>2. HoldsItsOpenLeg(Market(k))
        BY <2>6, <4>1 DEF RebuildInv, MarketInv
      <4>3. Leg \subseteq Leg'
        BY <2>2
      <4>4. OpenLegs(Market(k))' = OpenLegs(Market(k))
        <5>1. \A l \in Leg' : MarketOf(l)' = Market(k) => l \in Leg
          BY <2>3, <3>2
        <5> QED BY <1>1, <2>4, <4>3, <5>1 DEF OpenLegs
      <4> QED BY <1>2, <2>2, <4>2, <4>3, <4>4
    <3> QED BY <3>1, <3>2
  <2> QED BY <1>1, <2>1, <2>5, <2>6 DEF MarketInv
<1>4. CASE Again
  <2>1. Leg' = {} /\ left' = Stored
    BY <1>4 DEF Again, Wipe, Leg
  <2> QED BY <1>1, <2>1 DEF MarketInv
<1>5. ASSUME legs' = legs, left' \cup Taken' = left \cup Taken PROVE MarketInv'
  <2>1. Leg' = Leg /\ \A l \in Leg : MarketOf(l)' = MarketOf(l)
    BY <1>5 DEF Leg, MarketOf
  <2>2. \A k : OpenLegs(Market(k))' = OpenLegs(Market(k))
    BY <1>1, <1>5 DEF OpenLegs, MarketOf, Leg, IsClosed
  <2>3. \A k \in Stored \ (left \cup Taken) : HoldsItsOpenLeg(Market(k))'
    BY <1>2, <1>5, <2>1, <2>2 DEF RebuildInv, MarketInv
  <2> QED BY <1>1, <1>5, <2>1, <2>3 DEF RebuildInv, MarketInv
<1>6. ASSUME NEW k \in left, Replay(k) PROVE MarketInv'
  <2>1. legs' = legs /\ left' = left \ {k}
    BY <1>6 DEF Replay, vars
  <2>2. Taken' = Taken \cup {k}
    BY <1>6, TakenAppend DEF RebuildInv
  <2> QED BY <1>5, <2>1, <2>2
<1>7. CASE PairLegs \/ UNCHANGED rebuildVars
  <2>1. legs' = legs /\ left' = left /\ Taken' = Taken
    BY <1>7 DEF PairLegs, Walk, Pair, PassOver, Report, rebuildVars, vars, Taken
  <2> QED BY <1>5, <2>1
<1> QED BY <1>3, <1>4, <1>6, <1>7 DEF RebuildNext

(* The rows a stored draft took are the rows of its fills. *)
LEMMA RowsOfDraft ==
  ASSUME RebuildInv, Store, NEW i \in DOMAIN drafts, NEW l, l = Len(legs) + i
  PROVE  RowsOf(l)' = {group[n] : n \in drafts[i].fills}
<1> DEFINE chosen(k) == CHOOSE j \in DraftOf(k) : TRUE
<1>1. /\ table \in Tables /\ group \in Seq(Stored)
      /\ \A n, m \in DOMAIN group : group[n] = group[m] => n = m
  BY DEF RebuildInv, StageInv, TakenInv
<1>2. /\ DOMAIN drafts = 1 .. Len(drafts) /\ Len(drafts) \in Nat /\ Len(legs) \in Nat
      /\ \A k \in DOMAIN table : assigned[k] \in 0 .. Len(legs)
  BY StoreFacts DEF RebuildInv, AssignedInv
<1>3. \A j \in DOMAIN drafts : drafts[j].fills \subseteq DOMAIN group
  BY <1>1, FillsFacts DEF RebuildInv, RP!IInv, RP!PastInv
<1>4. \A n \in DOMAIN group : group[n] \in DOMAIN table
  BY <1>1, RowFacts
<1>5. ASSUME NEW n \in drafts[i].fills, NEW j \in DOMAIN drafts, n \in drafts[j].fills
      PROVE  j = i
  <2>1. n \in Nat
    BY <1>1, <1>3
  <2>2. ~(j < i) /\ ~(i < j)
    BY <1>5, <2>1 DEF RebuildInv, RP!IInv, RP!FillsPartitioned
  <2> QED BY <1>2, <2>2
<1>6. ASSUME NEW k \in DOMAIN table
      PROVE  assigned'[k] = IF DraftOf(k) = {} THEN assigned[k]
                                                ELSE Len(legs) + chosen(k)
  BY DEF Store
<1>7. ASSUME NEW n \in drafts[i].fills PROVE DraftOf(group[n]) = {i}
  <2>1. n \in DOMAIN group
    BY <1>3
  <2>2. i \in DraftOf(group[n])
    BY DEF DraftOf
  <2>3. ASSUME NEW j \in DraftOf(group[n]) PROVE j = i
    <3>1. PICK m \in drafts[j].fills : group[m] = group[n]
      BY DEF DraftOf
    <3>2. j \in DOMAIN drafts
      BY DEF DraftOf
    <3>3. m = n
      BY <1>1, <1>3, <2>1, <3>1, <3>2
    <3> QED BY <1>5, <3>1, <3>2, <3>3
  <2> QED BY <2>2, <2>3
<1>8. ASSUME NEW n \in drafts[i].fills PROVE group[n] \in RowsOf(l)'
  <2>1. group[n] \in DOMAIN table
    BY <1>3, <1>4
  <2>2. chosen(group[n]) = i
    BY <1>7
  <2>3. assigned'[group[n]] = l
    BY <1>6, <1>7, <2>1, <2>2
  <2>4. table' = table
    BY DEF Store
  <2> QED BY <2>1, <2>3, <2>4 DEF RowsOf
<1>9. ASSUME NEW k \in RowsOf(l)'
      PROVE  \E n \in drafts[i].fills : group[n] = k
  <2>1. k \in DOMAIN table /\ assigned'[k] = l
    BY DEF RowsOf, Store
  <2>2. DraftOf(k) # {}
    <3>1. assigned[k] # l
      BY <1>2, <2>1
    <3> QED BY <1>6, <2>1, <3>1
  <2>3. chosen(k) \in DraftOf(k) /\ DraftOf(k) \subseteq DOMAIN drafts
    BY <2>2 DEF DraftOf
  <2>4. Len(legs) + chosen(k) = Len(legs) + i
    BY <1>6, <2>1, <2>2
  <2> HIDE DEF chosen
  <2>5. chosen(k) = i
    BY <1>2, <2>3, <2>4
  <2> QED BY <2>3, <2>5 DEF DraftOf
<1> QED BY <1>8, <1>9

(* A stored leg that closed unflagged gave back all it took. *)
LEMMA StoredBalance ==
  ASSUME RebuildInv, Store, NEW i \in DOMAIN drafts,
         drafts[i].closed_at # None, ~drafts[i].flip_affected,
         NEW l, l = Len(legs) + i
  PROVE  Left(l)' = 0
<1> DEFINE change == [n \in DOMAIN group |-> RP!Delta(fills[n])]
           S == drafts[i].fills
<1>1. /\ table \in Tables /\ group \in Seq(Stored)
      /\ \A n, m \in DOMAIN group : group[n] = group[m] => n = m
  BY DEF RebuildInv, StageInv, TakenInv
<1>2. S \subseteq DOMAIN group
  BY <1>1, FillsFacts DEF RebuildInv, RP!IInv, RP!PastInv
<1>3. \A n \in S : change[n] = RP!Delta(fills[n])
  BY <1>2
<1>4. SumFunctionOnSet(change, S) = 0
  <2>1. RP!IInv /\ RP!ReferenceInv
    BY DEF RebuildInv
  <2>2. PICK a : a = change
    OBVIOUS
  <2>3. \A n \in drafts[i].fills : a[n] = RP!Delta(fills[n])
    BY <1>3, <2>2
  <2> HIDE DEF change, S
  <2>4. RP!ReplayAssumption
    BY ReplayConstants
  <2>5. RP!SumFunctionOnSet(a, drafts[i].fills) = 0
    BY <2>1, <2>3, <2>4, RP!ClosedLegsAreEven
  <2> QED BY <2>2, <2>5, SameSum DEF S
<1>5. ASSUME NEW n \in S
      PROVE  change[n] = Change[group[n]] /\ Change[group[n]] \in Int
  <2>1. n \in DOMAIN group /\ group[n] \in DOMAIN table
    BY <1>1, <1>2, RowFacts
  <2>2. fills[n] = table[group[n]].fill
    BY <2>1 DEF fills
  <2>3. /\ Change[group[n]] \in Int
        /\ Change[group[n]] = R!Delta(table[group[n]].fill)
    BY <1>1, <2>1, ChangeFacts
  <2>4. change[n] = RP!Delta(table[group[n]].fill)
    BY <2>1, <2>2
  <2> QED BY <2>3, <2>4 DEF R!Delta, RP!Delta
<1>6. IsFiniteSet(S)
  <2>1. DOMAIN group = 1 .. Len(group) /\ Len(group) \in Nat
    BY <1>1
  <2>2. IsFiniteSet(1 .. Len(group))
    BY <2>1, FS_Interval
  <2> QED BY <1>2, <2>1, <2>2, FS_Subset
<1>7. \A n, m \in S : group[n] = group[m] => n = m
  BY <1>1, <1>2
<1>8. RowsOf(l)' = {group[n] : n \in S} /\ Change' = Change
  BY RowsOfDraft DEF Store, Change, R!Delta
<1> HIDE DEF S, change
<1>9. SumFunctionOnSet(Change, {group[n] : n \in S}) = SumFunctionOnSet(change, S)
  BY <1>5, <1>6, <1>7, SumImage
<1> QED BY <1>4, <1>8, <1>9 DEF Left

(* Storing a market leaves the rows of the legs before it alone. *)
LEMMA OlderRows ==
  ASSUME RebuildInv, Store, NEW l \in Leg
  PROVE  RowsOf(l)' = RowsOf(l)
<1>1. /\ Leg = 1 .. Len(legs) /\ Len(legs) \in Nat /\ Len(drafts) \in Nat
      /\ DOMAIN drafts = 1 .. Len(drafts)
  BY StoreFacts
<1>2. table' = table
  BY DEF Store
<1>3. ASSUME NEW k \in DOMAIN table PROVE assigned'[k] = l <=> assigned[k] = l
  <2>1. assigned'[k] = IF DraftOf(k) = {} THEN assigned[k]
                         ELSE Len(legs) + CHOOSE i \in DraftOf(k) : TRUE
    BY DEF Store
  <2>2. CASE DraftOf(k) = {}
    BY <2>1, <2>2
  <2>3. CASE DraftOf(k) # {}
    <3>1. PICK i : i = (CHOOSE j \in DraftOf(k) : TRUE)
      OBVIOUS
    <3>2. i \in 1 .. Len(drafts)
      BY <1>1, <2>3, <3>1, DraftFacts
    <3>3. assigned'[k] = Len(legs) + i
      BY <2>1, <2>3, <3>1
    <3>4. assigned'[k] # l
      BY <1>1, <3>2, <3>3
    <3>5. Market(k) = Market(group[1])
      BY <2>3, DraftFacts
    <3>6. assigned[k] # l
      <4>1. assigned[k] = l => MarketOf(l) = Market(k)
        BY <1>1 DEF RebuildInv, AssignedInv
      <4> QED BY <3>5, <4>1, WholeMarket
    <3> QED BY <3>4, <3>6
  <2> QED BY <2>2, <2>3
<1> QED BY <1>2, <1>3 DEF RowsOf

(* A step of rebuild() keeps windows in order and closed legs balanced. *)
LEMMA LayoutStep ==
  ASSUME RebuildInv, [RebuildNext]_rebuildVars
  PROVE  LayoutInv'
<1>1. LayoutInv /\ table' = table /\ Change' = Change
  <2>1. table' = table
    BY DEF RebuildNext, Replay, Store, PairLegs, Again, rebuildVars
  <2> QED BY <2>1 DEF RebuildInv, Change, R!Delta
<1>2. CASE Store
  <2>1. /\ Leg = 1 .. Len(legs) /\ Leg' = 1 .. Len(legs) + Len(drafts)
        /\ Len(legs) \in Nat /\ Len(drafts) \in Nat
        /\ DOMAIN drafts = 1 .. Len(drafts)
        /\ \A l \in Leg : legs'[l] = legs[l]
    BY <1>2, StoreFacts
  <2>2. ASSUME NEW l \in Leg', l \notin Leg
        PROVE  \E i \in DOMAIN drafts :
                 l = Len(legs) + i /\ legs'[l] = LegRow(drafts[i])
    <3>1. l - Len(legs) \in DOMAIN drafts /\ l = Len(legs) + (l - Len(legs))
      BY <2>1, <2>2
    <3>2. PICK i \in DOMAIN drafts : l = Len(legs) + i
      BY <3>1
    <3>3. legs'[l] = LegRow(drafts[i])
      BY <1>2, <3>2, StoreFacts
    <3> QED BY <3>2, <3>3
  <2>3. ASSUME NEW l \in Leg
        PROVE  /\ MarketOf(l)' = MarketOf(l) /\ MarketOf(l) # Market(group[1])
               /\ IsClosed(l)' <=> IsClosed(l)
    BY <1>2, <2>1, WholeMarket DEF MarketOf, IsClosed
  <2>4. ASSUME NEW l \in Leg', l \notin Leg PROVE MarketOf(l)' = Market(group[1])
    BY <1>2, <2>2, <2>4, LegRowFacts DEF RebuildInv, Store, MarketOf
  <2>5. ASSUME NEW l \in Leg', IsClosed(l)'
        PROVE  legs'[l].opened_at <= legs'[l].closed_at
    <3>1. CASE l \in Leg
      BY <1>1, <2>1, <2>3, <2>5, <3>1 DEF LayoutInv, LegsInSuccession
    <3>2. CASE l \notin Leg
      <4>1. PICK i \in DOMAIN drafts : legs'[l] = LegRow(drafts[i])
        BY <2>2, <3>2
      <4>2. drafts[i].closed_at # None
        BY <2>5, <4>1 DEF IsClosed, LegRow
      <4>3. drafts[i].opened_at <= drafts[i].closed_at
        BY <4>2, DraftWindows DEF RebuildInv
      <4> QED BY <4>1, <4>3 DEF LegRow
    <3> QED BY <3>1, <3>2
  <2>6. ASSUME NEW l \in Leg', NEW k \in Leg', l < k, MarketOf(l)' = MarketOf(k)'
        PROVE  IsClosed(l)' /\ legs'[l].closed_at <= legs'[k].opened_at
    <3>1. CASE k \in Leg
      <4>1. l \in Leg
        BY <2>1, <2>6, <3>1
      <4> QED BY <1>1, <2>1, <2>3, <2>6, <3>1, <4>1 DEF LayoutInv, LegsInSuccession
    <3>2. CASE k \notin Leg
      <4>1. l \notin Leg
        BY <2>3, <2>4, <2>6, <3>2
      <4>2. PICK i \in DOMAIN drafts :
              l = Len(legs) + i /\ legs'[l] = LegRow(drafts[i])
        BY <2>2, <4>1
      <4>3. PICK j \in DOMAIN drafts :
              k = Len(legs) + j /\ legs'[k] = LegRow(drafts[j])
        BY <2>2, <3>2
      <4>4. i < j
        BY <2>1, <2>6, <4>2, <4>3
      <4>5. drafts[i].closed_at # None /\ drafts[i].closed_at <= drafts[j].opened_at
        BY <4>4, DraftWindows DEF RebuildInv
      <4> QED BY <4>2, <4>3, <4>5 DEF IsClosed, LegRow
    <3> QED BY <3>1, <3>2
  <2>7. ASSUME NEW l \in Leg', IsClosed(l)', ~legs'[l].flip_affected
        PROVE  Left(l)' = 0
    <3>1. CASE l \in Leg
      <4>1. RowsOf(l)' = RowsOf(l)
        BY <1>2, <3>1, OlderRows
      <4>2. Left(l) = 0
        BY <1>1, <2>1, <2>3, <2>7, <3>1 DEF LayoutInv
      <4> QED BY <1>1, <4>1, <4>2 DEF Left
    <3>2. CASE l \notin Leg
      <4>1. PICK i \in DOMAIN drafts :
              l = Len(legs) + i /\ legs'[l] = LegRow(drafts[i])
        BY <2>2, <3>2
      <4>2. drafts[i].closed_at # None /\ ~drafts[i].flip_affected
        BY <2>7, <4>1 DEF IsClosed, LegRow
      <4> QED BY <1>2, <4>1, <4>2, StoredBalance
    <3> QED BY <3>1, <3>2
  <2> QED BY <2>5, <2>6, <2>7 DEF LayoutInv, LegsInSuccession
<1>3. CASE Again
  <2>1. Leg' = {}
    BY <1>3 DEF Again, Wipe, Leg
  <2> QED BY <2>1 DEF LayoutInv, LegsInSuccession
<1>4. CASE legs' = legs /\ assigned' = assigned
  <2>1. Leg' = Leg /\ \A l \in Leg : MarketOf(l)' = MarketOf(l) /\ RowsOf(l)' = RowsOf(l)
    BY <1>1, <1>4 DEF Leg, MarketOf, RowsOf
  <2>2. LegsInSuccession'
    BY <1>1, <1>4, <2>1 DEF LayoutInv, LegsInSuccession, IsClosed
  <2>3. \A l \in Leg : Left(l)' = Left(l)
    BY <1>1, <2>1 DEF Left
  <2> QED BY <1>1, <1>4, <2>1, <2>2, <2>3 DEF LayoutInv, IsClosed
<1>5. Store \/ Again \/ (legs' = legs /\ assigned' = assigned)
  BY DEF RebuildNext, Replay, PairLegs, Walk, Pair, PassOver, Report, rebuildVars, vars
<1> QED BY <1>2, <1>3, <1>4, <1>5

(* Two stored names with one symbol on one venue are one market's. *)
LEMMA OneName ==
  ASSUME table \in Tables, NEW k \in Stored, NEW m \in Stored,
         Market(k) = Market(m)
  PROVE  table[m].venue = table[k].venue /\ MarketName(m) = MarketName(k)
<1> DEFINE x == table[k].name
           y == table[m].name
<1>1. /\ table[m].venue = table[k].venue /\ SymbolOf(m) = SymbolOf(k)
      /\ SymbolOf(k) # None
      /\ x \in Seq(Word) /\ y \in Seq(Word)
  BY RowFacts DEF Market, Stored
<1>2. CASE table[k].venue = "hyperliquid"
  <2>1. ASSUME NEW n \in Seq(Word), NormalizeHyperliquid(n) # None
        PROVE  \/ /\ Len(n) = 1
                  /\ NormalizeHyperliquid(n) = [namespace |-> None, base |-> Upper[n[1]]]
               \/ /\ Len(n) = 2 /\ Upper[n[1]] # None
                  /\ NormalizeHyperliquid(n)
                       = [namespace |-> Upper[n[1]], base |-> Upper[n[2]]]
    <3>1. CASE Len(n) = 1
      <4>1. None \notin Short
        BY SymbolAssumption
      <4>2. NormalizeHyperliquid(n) = ToCanonical(n[1], None)
        BY <3>1 DEF NormalizeHyperliquid
      <4> QED BY <2>1, <3>1, <4>1, <4>2 DEF ToCanonical
    <3>2. CASE Len(n) = 2
      <4>1. n[1] \in Word /\ n[2] \in Word /\ n[1] # None /\ Upper[n[1]] # None
        <5>1. n[1] \in Word /\ n[2] \in Word
          <6>1. n \in Seq(Word) /\ 1 \in 1 .. Len(n) /\ 2 \in 1 .. Len(n)
            BY <2>1, <3>2
          <6> QED BY <6>1
        <5>2. Upper[n[1]] \in Word /\ None \notin Word
          BY <5>1, SymbolAssumption
        <5> QED BY <5>1, <5>2
      <4> QED BY <2>1, <3>2, <4>1 DEF NormalizeHyperliquid, ToCanonical
    <3> QED BY <2>1, <3>1, <3>2 DEF NormalizeHyperliquid
  <2>2. SymbolOf(k) = NormalizeHyperliquid(x) /\ SymbolOf(m) = NormalizeHyperliquid(y)
    BY <1>1, <1>2 DEF SymbolOf, Normalize
  <2>3. Len(x) = Len(y) /\ \A i \in 1 .. Len(x) : Upper[x[i]] = Upper[y[i]]
    BY <1>1, <2>1, <2>2
  <2>4. DOMAIN x = 1 .. Len(x) /\ DOMAIN y = 1 .. Len(y)
    BY <1>1
  <2> QED BY <1>1, <1>2, <2>3, <2>4 DEF MarketName
<1>3. CASE table[k].venue # "hyperliquid"
  <2>1. ASSUME NEW n \in Seq(Word), NormalizeVariational(n) # None
        PROVE  /\ Len(n) = 1 /\ DOMAIN n = {1}
               /\ NormalizeVariational(n).base = Upper[Stripped[Upper[n[1]]]]
    <3>1. Len(n) = 1 /\ DOMAIN n = {1}
      BY <2>1 DEF NormalizeVariational
    <3>2. None \notin Short
      BY SymbolAssumption
    <3>3. NormalizeVariational(n) = ToCanonical(Stripped[Upper[n[1]]], None)
      BY <3>1 DEF NormalizeVariational
    <3> QED BY <2>1, <3>1, <3>2, <3>3 DEF ToCanonical
  <2>2. SymbolOf(k) = NormalizeVariational(x) /\ SymbolOf(m) = NormalizeVariational(y)
    BY <1>1, <1>3 DEF SymbolOf, Normalize
  <2>3. DOMAIN x = {1} /\ DOMAIN y = {1}
        /\ Upper[Stripped[Upper[x[1]]]] = Upper[Stripped[Upper[y[1]]]]
    <3>1. /\ NormalizeVariational(x) # None
          /\ NormalizeVariational(y) = NormalizeVariational(x)
          /\ x \in Seq(Word) /\ y \in Seq(Word)
      BY <1>1, <2>2
    <3> HIDE DEF x, y
    <3> QED BY <2>1, <3>1
  <2> QED BY <1>1, <1>3, <2>3 DEF MarketName
<1> QED BY <1>2, <1>3
-------------------------------------------------------------------------------
(* What rebuild() promises *)

(***************************************************************************)
(* rebuild() implements MarketReplay: every market is replayed from        *)
(* nothing, in order of time.                                              *)
(***************************************************************************)
THEOREM RebuildReplays == RebuildSpec => ReplaySpec
<1>1. RebuildInit => StageInv /\ R!Init
  BY DEF RebuildInit, Init, StageInv, R!Init, fills
<1>2. StageInv /\ [RebuildNext]_rebuildVars => StageInv'
  BY StageStep
<1>3. StageInv /\ [RebuildNext]_rebuildVars => [R!Next]_R!vars
  <2>1. RP!Next => R!Next
    BY SameReplay DEF RP!Next, R!Next
  <2>2. RP!vars = R!vars
    BY DEF RP!vars, R!vars
  <2> QED BY <2>1, <2>2, ReplayStep DEF R!vars, RP!vars
<1> QED BY <1>1, <1>2, <1>3, PTL DEF RebuildSpec, ReplaySpec, R!Spec

(* What MarketReplay proves of a market holds of each one rebuild() is at. *)
LEMMA ReplayHolds ==
  RebuildSpec => [](StageInv /\ RP!IInv /\ RP!ReferenceInv)
<1>1. RebuildInit => StageInv /\ RP!Init
  BY DEF RebuildInit, Init, StageInv, RP!Init, fills
<1>2. StageInv /\ [RebuildNext]_rebuildVars => StageInv' /\ [RP!Next]_RP!vars
  BY StageStep, ReplayStep
<1>3. RP!Spec => []RP!IInv
  BY RP!ReplayInvariance, ReplayConstants
<1>4. RP!Spec => []RP!ReferenceInv
  BY RP!ReferenceInvariance, ReplayConstants
<1> QED BY <1>1, <1>2, <1>3, <1>4, PTL DEF RebuildSpec, RP!Spec

(* The inductive invariant holds however the fills are spread. *)
THEOREM RebuildInvariance == RebuildSpec => []RebuildInv
<1> DEFINE Inv == /\ IInv /\ LegsInv /\ AssignedInv /\ TakenInv /\ MarketInv
                  /\ LayoutInv
           Base == StageInv /\ RP!IInv /\ RP!ReferenceInv
<1>1. RebuildInit => Inv
  <2> SUFFICES ASSUME RebuildInit
               PROVE  /\ LegsInv /\ AssignedInv /\ TakenInv /\ MarketInv
                      /\ LayoutInv
    BY EmptyIInv DEF RebuildInit
  <2>1. Leg = {} /\ Len(legs) = 0 /\ Taken = {} /\ DOMAIN group = {}
    BY DEF RebuildInit, Init, Leg, Taken
  <2>2. position = SumFunctionOnSet(Change, {})
    BY SumEmpty DEF RebuildInit
  <2>3. LayoutInv
    BY <2>1 DEF LayoutInv, LegsInSuccession
  <2> QED BY <2>1, <2>2, <2>3
          DEF RebuildInit, LegsInv, AssignedInv, TakenInv, MarketInv
<1>2. Inv /\ Base /\ [RebuildNext]_rebuildVars => Inv'
  <2> SUFFICES ASSUME RebuildInv, [RebuildNext]_rebuildVars PROVE Inv'
    BY DEF RebuildInv
  <2>1. IInv'
    BY PairingStep, PairingInductive DEF RebuildInv
  <2> QED BY <2>1, LegsStep, AssignedStep, TakenStep, MarketStep, LayoutStep
<1>3. RebuildInv <=> Inv /\ Base
  BY DEF RebuildInv
<1> HIDE DEF Inv, Base
<1>4. RebuildSpec => []Base
  BY ReplayHolds DEF Base
<1> QED BY <1>1, <1>2, <1>3, <1>4, PTL DEF RebuildSpec

(***************************************************************************)
(* rebuild() implements TradePairing: what it stores are legs, and no leg  *)
(* is stored once the walk has begun.                                      *)
(***************************************************************************)
THEOREM RebuildPairs == RebuildSpec => Spec
<1>1. RebuildInit => Init
  BY DEF RebuildInit
<1>2. RebuildInv /\ [RebuildNext]_rebuildVars => [Insert \/ Walk \/ Wipe]_vars
  BY PairingStep
<1> QED BY <1>1, <1>2, RebuildInvariance, PTL DEF RebuildSpec, Spec

(* The tables hold legs, trades and assignments at every step. *)
THEOREM RebuildTypes == RebuildSpec => []RebuildTypeOK
<1>1. RebuildInv => RebuildTypeOK
  BY RowFacts, SameReplay, RebuildAssumption
  DEF RebuildInv, IInv, StageInv, AssignedInv, RP!IInv, RebuildTypeOK
<1> QED BY <1>1, RebuildInvariance, PTL

(* Every trade is a hedge (reconciliation.py:45-54). *)
THEOREM HedgesOnly == RebuildSpec => []TradesAreHedges
<1>1. RebuildInv => TradesAreHedges
  BY DEF RebuildInv, IInv
<1> QED BY <1>1, RebuildInvariance, PTL

(* No two legs reported as unpaired could have been paired. *)
THEOREM NoneLeftBehind == RebuildSpec => []NoHedgeLeftBehind
<1>1. RebuildInv => NoHedgeLeftBehind
  BY DEF RebuildInv, IInv, WalkedInv, NoHedgeLeftBehind, Free
<1> QED BY <1>1, RebuildInvariance, PTL

(* No better counterpart than the one taken is left free. *)
THEOREM BestTaken == RebuildSpec => []BestFreeCounterpart
<1>1. RebuildInv => BestFreeCounterpart
  BY DEF RebuildInv, IInv
<1> QED BY <1>1, RebuildInvariance, PTL

(* The fills of a leg come from one market, whatever the names. *)
THEOREM MarketsApart == RebuildSpec => []LegsAreOfOneMarket
<1>1. RebuildInv => LegsAreOfOneMarket
  <2> SUFFICES ASSUME RebuildInv, left = {}, group = <<>>, NEW k \in Stored
               PROVE  /\ assigned[k] \in Leg
                      /\ \A m \in Stored :
                           assigned[m] = assigned[k] =>
                             /\ table[m].venue = table[k].venue
                             /\ MarketName(m) = MarketName(k)
    BY DEF LegsAreOfOneMarket
  <2>1. table \in Tables /\ Stored \subseteq DOMAIN table
    BY RowFacts DEF RebuildInv, StageInv
  <2>2. \A m \in Stored : /\ assigned[m] # 0
                           /\ assigned[m] \in 0 .. Len(legs)
                           /\ MarketOf(assigned[m]) = Market(m)
    BY <2>1 DEF RebuildInv, AssignedInv, Taken
  <2>3. Leg = 1 .. Len(legs) /\ Len(legs) \in Nat
    BY DEF RebuildInv, IInv, TypeOK, Leg
  <2> QED BY <2>1, <2>2, <2>3, OneName
<1> QED BY <1>1, RebuildInvariance, PTL

(* rebuild() never fails on the symbol of a trade. *)
THEOREM SymbolsOfTrades == RebuildSpec => []TradesHaveSymbols
<1>1. RebuildInv => TradesHaveSymbols
  <2> SUFFICES ASSUME RebuildInv, NEW t \in DOMAIN trades
               PROVE  trades[t].symbol # None
    BY DEF TradesHaveSymbols
  <2> DEFINE a == trades[t].legs[1]
             b == trades[t].legs[2]
  <2>1. trades[t] \in TradeRecord
    BY DEF RebuildInv, IInv, TypeOK
  <2>2. a \in Leg /\ b \in Leg
    BY <2>1 DEF TradeRecord
  <2>3. Opposed(a, b)
    BY DEF RebuildInv, IInv, TradesAreHedges
  <2>4. legs[a].venue \in Venue /\ legs[b].venue \in Venue
    BY <2>2, LegFacts DEF RebuildInv, IInv, LegRecord
  <2>5. legs[a].symbol.base \in Native
    BY <2>2, <2>3, <2>4 DEF Opposed, Venue, RebuildInv, LegsInv
  <2>6. trades[t].symbol = ToCanonical(legs[a].symbol.base, None)
    BY DEF RebuildInv, IInv, WalkedInv
  <2>7. ToCanonical(legs[a].symbol.base, None)
          = [namespace |-> None, base |-> Upper[legs[a].symbol.base]]
    <3>1. None \notin Short
      BY SymbolAssumption
    <3> QED BY <2>5, <3>1 DEF ToCanonical
  <2>8. None \notin Canonical
    BY SymbolAssumption
  <2>9. [namespace |-> None, base |-> Upper[legs[a].symbol.base]] \in Canonical
    BY <2>5, SymbolAssumption DEF Canonical
  <2> QED BY <2>6, <2>7, <2>8, <2>9
<1> QED BY <1>1, RebuildInvariance, PTL

(***************************************************************************)
(* A market has an open leg exactly if its fills add up to a position, one *)
(* only, and in its direction (reconciliation.py:14-20).                   *)
(***************************************************************************)
THEOREM HoldingsMatch == RebuildSpec => []OpenLegsAreHoldings
<1>1. RebuildInv => OpenLegsAreHoldings
  <2> SUFFICES ASSUME RebuildInv, left = {}, group = <<>>, NEW k \in Stored
               PROVE  HoldsItsOpenLeg(Market(k))
    BY DEF OpenLegsAreHoldings
  <2>1. Taken = {}
    BY DEF Taken
  <2> QED BY <2>1 DEF RebuildInv, MarketInv
<1> QED BY <1>1, RebuildInvariance, PTL

(***************************************************************************)
(* A rebuild hands valuation what it takes for granted, for every table of *)
(* fills: every stored fill in one leg, a market's legs one after another, *)
(* and each closed leg of a trade not to be reviewed in balance            *)
(* (reconciliation.py:8-43, 449-457).                                      *)
(***************************************************************************)
THEOREM LayoutsAreSound == RebuildSpec => []LayoutIsSound
<1>1. RebuildInv => LayoutIsSound
  <2> SUFFICES ASSUME RebuildInv, left = {}, group = <<>>
               PROVE  /\ \A k \in DOMAIN table : k \in Stored <=> assigned[k] \in Leg
                      /\ \A t \in DOMAIN trades : ~trades[t].review =>
                           \A l \in Leg : tradeOf[l] = t /\ IsClosed(l) =>
                             Left(l) = 0
    BY DEF LayoutIsSound, RebuildInv, LayoutInv
  <2>1. /\ TypeOK /\ TradesAreHedges /\ WalkedInv
        /\ Leg = 1 .. Len(legs) /\ Len(legs) \in Nat
    BY DEF RebuildInv, IInv, TypeOK, Leg
  <2>2. ASSUME NEW k \in DOMAIN table PROVE k \in Stored <=> assigned[k] \in Leg
    <3>1. assigned[k] \in 0 .. Len(legs) /\ (assigned[k] # 0 => k \in Stored)
      BY DEF RebuildInv, AssignedInv
    <3>2. k \in Stored => assigned[k] # 0
      BY DEF RebuildInv, AssignedInv, Taken
    <3> QED BY <2>1, <3>1, <3>2
  <2>3. ASSUME NEW t \in DOMAIN trades, ~trades[t].review,
               NEW l \in Leg, tradeOf[l] = t, IsClosed(l)
        PROVE  Left(l) = 0
    <3> DEFINE a == trades[t].legs[1]
               b == trades[t].legs[2]
    <3>1. ~Unsure(a, b)
      BY <2>1, <2>3 DEF WalkedInv
    <3>2. l \in {a, b}
      BY <2>1, <2>3 DEF TradesAreHedges
    <3>3. ~legs[l].flip_affected
      BY <3>1, <3>2 DEF Unsure
    <3> QED BY <2>3, <3>3 DEF RebuildInv, LayoutInv
  <2> QED BY <2>2, <2>3
<1> QED BY <1>1, RebuildInvariance, PTL

(* A leg of no size makes no trade. *)
THEOREM SizesOfTrades == RebuildSpec => []TradedLegsHaveSize
<1>1. RebuildInv => TradedLegsHaveSize
  <2> SUFFICES ASSUME RebuildInv, NEW l \in Leg, tradeOf[l] # 0
               PROVE  legs[l].peak > 0
    BY DEF TradedLegsHaveSize
  <2>1. tradeOf[l] \in DOMAIN trades /\ TypeOK
    BY DEF RebuildInv, IInv, TypeOK
  <2>2. legs[l].opened_at < WindowEnd(l)
    BY <2>1 DEF RebuildInv, IInv, TradesAreHedges
  <2>3. /\ legs[l].opened_at \in Nat
        /\ legs[l].closed_at = legs[l].opened_at => WindowEnd(l) = legs[l].opened_at
    BY <2>1, LegFacts, PairingAssumption DEF WindowEnd, IsClosed
  <2> QED BY <2>2, <2>3 DEF RebuildInv, LegsInv
<1> QED BY <1>1, RebuildInvariance, PTL
===============================================================================
