--------------------------------- MODULE Rebuild ---------------------------------
(***************************************************************************)
(* ReconciliationService.rebuild: the fills of the journal, one venue      *)
(* market after the other, are replayed into legs (MarketReplay), the legs *)
(* are stored and their fills assigned, and then the legs are paired       *)
(* (TradePairing).  All of it is one transaction, so what other processes  *)
(* see of it is JournalPipeline's subject.                                 *)
(***************************************************************************)
EXTENDS TradePairing, Functions

CONSTANTS
  Quantity, Time,  \* of the fills
  MaxFills,        \* bound: the rows of a table of fills
  Tables           \* the tables rebuild() may find

Fill == [side : {"buy", "sell"}, quantity : Quantity, timestamp : Time]

(* An execution as the venue names it; its id is its place in the table. *)
Row == [venue : Venue, name : Seq(Word), fill : Fill]

ASSUME RebuildAssumption ==
  /\ Quantity \subseteq Int /\ Time \subseteq Nat /\ MaxFills \in Nat
  /\ Tables \subseteq {t \in Seq(Row) : Len(t) <= MaxFills}

VARIABLES
  table,     \* the executions the venues reported, in order of ingestion
  left,      \* the rows that are still to be replayed
  group,     \* the rows of the market under replay, as far as it got
  assigned,  \* the column leg_id: a row's leg, 0 when it has none
  drafts, current, position, flips  \* of the market under replay

replay == <<drafts, current, position, flips>>

rebuildVars == <<table, left, group, assigned, replay, vars>>

fills == [i \in DOMAIN group |-> table[group[i]].fill]

R == INSTANCE MarketReplay

SymbolOf(k) == Normalize(table[k].venue, table[k].name)

(* The adapters skip an execution whose name has no canonical symbol. *)
Stored == {k \in DOMAIN table : SymbolOf(k) # None}

Market(k) == <<table[k].venue, SymbolOf(k)>>

(* Mutant: the rows of a market come in order of ingestion. *)
BeforeById(k, m) == k < m

(* ORDER BY timestamp, id within a market. *)
Before(k, m) ==
  \/ table[k].fill.timestamp < table[m].fill.timestamp
  \/ table[k].fill.timestamp = table[m].fill.timestamp /\ k < m

(* The rows of the market under replay that are left; of any, between two. *)
Rest == {k \in left : group = <<>> \/ Market(k) = Market(group[1])}

(* ORDER BY venue, then by symbol in an order that is not modelled. *)
IsNextRow(k) ==
  /\ k \in Rest
  /\ \A m \in Rest \ {k} :
       /\ table[k].venue = "variational" => table[m].venue = "variational"
       /\ Market(m) = Market(k) => Before(k, m)

RebuildInit ==
  /\ Init
  /\ table \in Tables
  /\ left = Stored
  /\ group = <<>>
  /\ assigned = [k \in DOMAIN table |-> 0]
  /\ drafts = <<>> /\ current = 0 /\ position = 0 /\ flips = {}

-------------------------------------------------------------------------------
(* The loop of _reconstruct_market takes a row. *)
Replay(k) ==
  /\ IsNextRow(k)
  /\ UNCHANGED <<table, assigned, vars>>
  /\ left' = left \ {k}
  /\ group' = Append(group, k)
  /\ LET f == table[k].fill IN R!Close(f) \/ R!Flip(f) \/ R!Grow(f)

(* to_leg; only the size reached is kept of the sizes. *)
LegRow(d) ==
  [venue |-> Market(group[1])[1], symbol |-> Market(group[1])[2],
   direction |-> d.direction, opened_at |-> d.opened_at,
   closed_at |-> d.closed_at, peak |-> d.peak,
   flip_affected |-> d.flip_affected]

(* The draft that took row k. *)
DraftOf(k) == {i \in DOMAIN drafts : \E n \in drafts[i].fills : group[n] = k}

(* The market's legs are inserted and its fills assigned to them. *)
Store ==
  /\ group # <<>> /\ Rest = {}
  /\ legs' = legs \o [i \in DOMAIN drafts |-> LegRow(drafts[i])]
  /\ tradeOf' = [l \in DOMAIN legs' |-> 0]
  /\ assigned' =
       [k \in DOMAIN table |->
          IF DraftOf(k) = {} THEN assigned[k]
                             ELSE Len(legs) + CHOOSE i \in DraftOf(k) : TRUE]
  /\ UNCHANGED <<table, left, walked, trades, unpaired>>
  /\ group' = <<>>
  /\ R!NextMarket

(* _pair, and the findings about the legs it leaves. *)
PairLegs ==
  /\ group = <<>> /\ left = {}
  /\ Walk
  /\ UNCHANGED <<table, left, group, assigned, replay>>

(* The next call.  Deleting a leg sets the leg_id of its fills to NULL. *)
Again ==
  /\ Wipe
  /\ left' = Stored
  /\ assigned' = [k \in DOMAIN table |-> 0]
  /\ UNCHANGED <<table, group, replay>>

RebuildNext == (\E k \in left : Replay(k)) \/ Store \/ PairLegs \/ Again

RebuildSpec == RebuildInit /\ [][RebuildNext]_rebuildVars

-------------------------------------------------------------------------------
(* Properties *)

RebuildTypeOK ==
  /\ TypeOK
  /\ table \in Seq(Row) /\ Len(table) <= MaxFills
  /\ left \subseteq Stored
  /\ group \in Seq(Stored)
  /\ assigned \in [DOMAIN table -> 0 .. Len(legs)]
  /\ R!TypeOK

(***************************************************************************)
(* Once the legs are built every stored fill is in one of them, and fills  *)
(* in one leg were made in one market: on one venue, under names that the  *)
(* venue tells apart by case or by suffix at most.                         *)
(***************************************************************************)
MarketName(k) ==
  LET name == table[k].name IN
  IF table[k].venue = "hyperliquid"
    THEN [i \in DOMAIN name |-> Upper[name[i]]]
    ELSE [i \in DOMAIN name |-> Upper[Stripped[Upper[name[i]]]]]

LegsAreOfOneMarket ==
  left = {} /\ group = <<>> =>
    \A k \in Stored :
      /\ assigned[k] \in Leg
      /\ \A m \in Stored :
           assigned[m] = assigned[k] =>
             table[m].venue = table[k].venue /\ MarketName(m) = MarketName(k)

(***************************************************************************)
(* rebuild() never fails on a name: the asset both legs of a trade share   *)
(* always makes a canonical symbol of its own, whatever the namespaced     *)
(* markets allow (reconciliation.py:459).                                  *)
(***************************************************************************)
TradesHaveSymbols == \A t \in DOMAIN trades : trades[t].symbol # None

(* What the fills of a market add up to, and the legs of it left open. *)
Change == [k \in DOMAIN table |-> R!Delta(table[k].fill)]
Holding(market) == SumFunctionOnSet(Change, {k \in Stored : Market(k) = market})

MarketOf(l) == <<legs[l].venue, legs[l].symbol>>
OpenLegs(market) == {l \in Leg : MarketOf(l) = market /\ ~IsClosed(l)}

(***************************************************************************)
(* Once the legs are built, a market has an open leg exactly if its fills  *)
(* add up to a position, one only, and it points the way the position does *)
(* (reconciliation.py:14-20).                                              *)
(***************************************************************************)
HoldsItsOpenLeg(market) ==
  IF Holding(market) = 0 THEN OpenLegs(market) = {}
  ELSE \E l \in Leg : /\ OpenLegs(market) = {l}
                       /\ legs[l].direction = R!DirectionOf(Holding(market))

OpenLegsAreHoldings ==
  left = {} /\ group = <<>> => \A k \in Stored : HoldsItsOpenLeg(Market(k))

(* The rows that carry the id of leg l, and what they add up to.           *)
RowsOf(l) == {k \in DOMAIN table : assigned[k] = l}
Left(l) == SumFunctionOnSet(Change, RowsOf(l))

(* A market's legs follow one another in the order of their ids.           *)
LegsInSuccession ==
  \A l \in Leg :
    /\ IsClosed(l) => legs[l].opened_at <= legs[l].closed_at
    /\ \A k \in Leg : l < k /\ MarketOf(l) = MarketOf(k) =>
         IsClosed(l) /\ legs[l].closed_at <= legs[k].opened_at

(***************************************************************************)
(* What valuation takes for granted once the legs are built (LayoutsOK of  *)
(* Valuation): every stored fill is in a leg and no other row is; the legs *)
(* of a market follow one another; and a closed leg of a trade that is not *)
(* to be reviewed bought what it sold (reconciliation.py:33-43, 449-457).  *)
(***************************************************************************)
LayoutIsSound ==
  left = {} /\ group = <<>> =>
    /\ \A k \in DOMAIN table : k \in Stored <=> assigned[k] \in Leg
    /\ LegsInSuccession
    /\ \A t \in DOMAIN trades : ~trades[t].review =>
         \A l \in Leg : tradeOf[l] = t /\ IsClosed(l) => Left(l) = 0

(***************************************************************************)
(* A leg of no size, such as a fill of size zero opens and closes at once, *)
(* never makes a trade.                                                    *)
(***************************************************************************)
TradedLegsHaveSize == \A l \in Leg : tradeOf[l] # 0 => legs[l].peak > 0

(***************************************************************************)
(* Every market is replayed the way MarketReplay says, in order of time.   *)
(***************************************************************************)
ReplaySpec == R!Spec

(***************************************************************************)
(* The inductive strengthening: how far the loops of rebuild() are, what a *)
(* stored leg owes to the market it was built in, and which leg a row has. *)
(***************************************************************************)
StageInv ==
  /\ table \in Tables
  /\ left \subseteq Stored
  /\ group \in Seq(Stored)
  /\ \A i \in DOMAIN group : Market(group[i]) = Market(group[1])
  /\ group # <<>> =>
       \A m \in left :
         Market(m) = Market(group[1]) => Before(group[Len(group)], m)
  /\ left # {} \/ group # <<>> => walked = {} /\ unpaired = None

LegsInv ==
  \A l \in Leg :
    /\ legs[l].venue = "variational" => legs[l].symbol.base \in Native
    /\ legs[l].peak > 0 \/ legs[l].closed_at = legs[l].opened_at

(* The rows of the market under replay, as far as it got. *)
Taken == {group[i] : i \in DOMAIN group}

AssignedInv ==
  /\ assigned \in [DOMAIN table -> 0 .. Len(legs)]
  /\ \A k \in DOMAIN table :
       assigned[k] # 0 =>
         /\ k \in Stored
         /\ MarketOf(assigned[k]) = Market(k)
  /\ \A k \in Stored \ left : assigned[k] # 0 \/ k \in Taken

(* The rows of the market under replay make up the running position.       *)
TakenInv ==
  /\ Taken \cap left = {}
  /\ \A i, j \in DOMAIN group : group[i] = group[j] => i = j
  /\ position = SumFunctionOnSet(Change, Taken)

(* A market is either still to be replayed or has all its legs.            *)
MarketInv ==
  /\ \A k \in left \cup Taken, l \in Leg : MarketOf(l) # Market(k)
  /\ \A k \in Stored \ (left \cup Taken) : HoldsItsOpenLeg(Market(k))

(* Windows follow one another, and an unflagged closed leg is balanced.    *)
LayoutInv ==
  /\ LegsInSuccession
  /\ \A l \in Leg : IsClosed(l) /\ ~legs[l].flip_affected => Left(l) = 0
===============================================================================
