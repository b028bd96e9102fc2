------------------------------ MODULE TradePairing ------------------------------
(***************************************************************************)
(* ReconciliationService._pair and _create_trade: the rebuilt legs are     *)
(* walked in order of opening, and each leg that is still free takes the   *)
(* free leg on the other venue whose window overlaps its own the longest.  *)
(* When the walk is over, every leg left without a trade is reported.      *)
(* How the legs come about is Rebuild's subject: here they are any.        *)
(***************************************************************************)
EXTENDS Integers, Sequences, Symbols

CONSTANT FarFuture  \* the end of an open leg's window

Venue == {"hyperliquid", "variational"}

LegRecord ==
  [venue : Venue, symbol : Canonical, direction : {"long", "short"},
   opened_at : Nat, closed_at : Nat \cup {None},
   peak : Nat, flip_affected : BOOLEAN]

ASSUME PairingAssumption == FarFuture \in Nat /\ None \notin Nat

VARIABLES
  legs,      \* the table legs; ids are handed out in order of insertion
  walked,    \* the legs the loop has been at
  tradeOf,   \* the trade of a leg, 0 when it has none
  trades,    \* the trades created, in order
  unpaired   \* the legs reported as unpaired_leg, None before the report

vars == <<legs, walked, tradeOf, trades, unpaired>>

Leg == DOMAIN legs

Smaller(m, n) == IF m < n THEN m ELSE n
Larger(m, n) == IF m > n THEN m ELSE n

IsClosed(l) == legs[l].closed_at # None
WindowEnd(l) == IF IsClosed(l) THEN legs[l].closed_at ELSE FarFuture

Overlap(a, b) ==
  Smaller(WindowEnd(a), WindowEnd(b)) - Larger(legs[a].opened_at, legs[b].opened_at)

(* Different venues, opposite directions, one base_asset. *)
Opposed(a, b) ==
  /\ legs[a].venue # legs[b].venue
  /\ legs[a].direction # legs[b].direction
  /\ legs[a].symbol.base = legs[b].symbol.base

(* Mutant: windows that only touch count as overlapping. *)
EligibleTouching(a, b) == Opposed(a, b) /\ Overlap(a, b) >= 0

Eligible(a, b) == Opposed(a, b) /\ Overlap(a, b) > 0

(* c is a better counterpart of a than b: longest overlap, then earliest    *)
(* opening, then smallest id.                                               *)
Better(a, c, b) ==
  \/ Overlap(a, c) > Overlap(a, b)
  \/ /\ Overlap(a, c) = Overlap(a, b)
     /\ \/ legs[c].opened_at < legs[b].opened_at
        \/ legs[c].opened_at = legs[b].opened_at /\ c < b

Init ==
  /\ legs = <<>>
  /\ walked = {}
  /\ tradeOf = <<>>
  /\ trades = <<>>
  /\ unpaired = None

-------------------------------------------------------------------------------
(* insert_leg, any number of times, before the walk begins. *)
Insert ==
  /\ walked = {} /\ unpaired = None
  /\ legs' \in Seq(LegRecord)
  /\ Len(legs') >= Len(legs) /\ SubSeq(legs', 1, Len(legs)) = legs
  /\ tradeOf' = [l \in DOMAIN legs' |-> 0]
  /\ UNCHANGED <<walked, trades, unpaired>>

Precedes(a, b) ==
  \/ legs[a].opened_at < legs[b].opened_at
  \/ legs[a].opened_at = legs[b].opened_at /\ a < b

(* The next leg of the walk, by (opened_at, leg_id). *)
IsNext(a) ==
  /\ a \notin walked
  /\ \A b \in Leg \ walked : b # a => Precedes(a, b)

Free == {l \in Leg : tradeOf[l] = 0}

(* Mutant: the best of all legs is looked for, free or not. *)
CandidatesBestOfAll(a) ==
  {b \in Free \ {a} :
     /\ Eligible(a, b)
     /\ \A c \in Leg : Eligible(a, c) => ~Better(a, c, b)}

Candidates(a) == {b \in Free \ {a} : Eligible(a, b)}

(* Mutant: any candidate will do. *)
AnyOf(a) == Candidates(a)

BestOf(a) == {b \in Candidates(a) : \A c \in Candidates(a) : ~Better(a, c, b)}

Unsure(a, b) ==
  \/ legs[a].peak # legs[b].peak
  \/ legs[a].flip_affected
  \/ legs[b].flip_affected

(* A NULL closed_at is an OPEN trade. *)
ClosedAt(a, b) ==
  IF IsClosed(a) /\ IsClosed(b) THEN Larger(legs[a].closed_at, legs[b].closed_at)
                                ELSE None

(* The row _create_trade inserts. *)
Trade(a, b) ==
  [legs      |-> <<a, b>>,
   symbol    |-> ToCanonical(legs[a].symbol.base, None),
   review    |-> Unsure(a, b),
   opened_at |-> Smaller(legs[a].opened_at, legs[b].opened_at),
   closed_at |-> ClosedAt(a, b)]

(* set_leg_trade of both legs. *)
Marked(a, b, t) == [tradeOf EXCEPT ![a] = t, ![b] = t]

(* A free leg takes its best candidate: one trade, and both legs point at it. *)
Pair(a, b) ==
  /\ IsNext(a)
  /\ tradeOf[a] = 0
  /\ b \in BestOf(a)
  /\ trades' = Append(trades, Trade(a, b))
  /\ tradeOf' = Marked(a, b, Len(trades'))
  /\ walked' = walked \cup {a}
  /\ UNCHANGED <<legs, unpaired>>

(* A leg that has a trade already, or finds no candidate, is passed over. *)
PassOver(a) ==
  /\ IsNext(a)
  /\ tradeOf[a] # 0 \/ Candidates(a) = {}
  /\ walked' = walked \cup {a}
  /\ UNCHANGED <<legs, tradeOf, trades, unpaired>>

(* The unpaired_leg findings of rebuild(). *)
Report ==
  /\ walked = Leg
  /\ unpaired = None
  /\ unpaired' = Free
  /\ UNCHANGED <<legs, walked, tradeOf, trades>>

Walk ==
  \/ \E a, b \in Leg : Pair(a, b)
  \/ \E a \in Leg : PassOver(a)
  \/ Report

(* The next rebuild starts with wipe_derived_tables(): the ids start again. *)
Wipe ==
  /\ unpaired # None
  /\ legs' = <<>>
  /\ walked' = {}
  /\ tradeOf' = <<>>
  /\ trades' = <<>>
  /\ unpaired' = None

Spec == Init /\ [][Insert \/ Walk \/ Wipe]_vars

-------------------------------------------------------------------------------
(* Properties *)

TradeRecord ==
  [legs : Leg \X Leg, symbol : Canonical \cup {None}, review : BOOLEAN,
   opened_at : Nat, closed_at : Nat \cup {None}]

TypeOK ==
  /\ legs \in Seq(LegRecord)
  /\ walked \subseteq Leg
  /\ trades \in Seq(TradeRecord)
  /\ tradeOf \in [Leg -> 0 .. Len(trades)]
  /\ unpaired \in (SUBSET Leg) \cup {None}

(***************************************************************************)
(* A trade is a hedge: two legs of one base asset, of different venues and *)
(* opposite directions, that were open at the same time for a while; and   *)
(* no leg is in two trades (reconciliation.py:45-54).                      *)
(***************************************************************************)
TradesAreHedges ==
  \A t \in DOMAIN trades :
    LET a == trades[t].legs[1]
        b == trades[t].legs[2]
    IN  /\ Opposed(a, b)
        /\ \A x, y \in {a, b} : legs[x].opened_at < WindowEnd(y)
        /\ {l \in Leg : tradeOf[l] = t} = {a, b}

(***************************************************************************)
(* A trade is closed exactly when neither leg is open any more, and its    *)
(* window then holds both legs' windows (reconciliation.py:63-66).         *)
(***************************************************************************)
TradeWindows ==
  \A t \in DOMAIN trades : \A l \in Leg :
    tradeOf[l] = t =>
      /\ trades[t].opened_at <= legs[l].opened_at
      /\ IF IsClosed(l)
           THEN trades[t].closed_at # None =>
                  trades[t].closed_at >= legs[l].closed_at
           ELSE trades[t].closed_at = None

(***************************************************************************)
(* The walk leaves no hedge behind: once it is over, no two legs reported  *)
(* as unpaired could have been paired with each other.                     *)
(***************************************************************************)
NoHedgeLeftBehind ==
  unpaired # None => \A a, b \in unpaired : ~Eligible(a, b)

(***************************************************************************)
(* A leg that chose its counterpart never leaves a better one unpaired.    *)
(***************************************************************************)
BestFreeCounterpart ==
  \A t \in DOMAIN trades : \A c \in Free :
    LET a == trades[t].legs[1]
        b == trades[t].legs[2]
    IN  Eligible(a, c) => ~Better(a, c, b)

(***************************************************************************)
(* The inductive strengthening: a walked leg that is still free has no     *)
(* free counterpart left, the report is made from the final state, and a   *)
(* trade is named after the asset its legs share and reviewed if they ask  *)
(* for it.                                                                 *)
(***************************************************************************)
WalkedInv ==
  /\ walked = {} => trades = <<>>
  /\ \A a \in walked \cap Free : \A b \in Free : ~Eligible(a, b)
  /\ unpaired # None => walked = Leg /\ unpaired = Free
  /\ \A t \in DOMAIN trades :
       /\ trades[t].symbol = ToCanonical(legs[trades[t].legs[1]].symbol.base, None)
       /\ trades[t].review = Unsure(trades[t].legs[1], trades[t].legs[2])

IInv ==
  /\ TypeOK
  /\ TradesAreHedges
  /\ TradeWindows
  /\ WalkedInv
  /\ BestFreeCounterpart
===============================================================================
