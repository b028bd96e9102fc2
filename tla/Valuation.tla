------------------------------- MODULE Valuation -------------------------------
(***************************************************************************)
(* PnLService (tradejournal/services/pnl.py) over the derived tables that  *)
(* ReconciliationService rebuilds.  Each operation is one transaction that *)
(* begins with a write, so other processes see it happen at once.          *)
(*                                                                         *)
(* What a rebuild makes of the fills it finds is a constant here: the      *)
(* modules MarketReplay and TradePairing say how it is made.  Prices and   *)
(* sizes are whole units, chosen so that the averages divide exactly.      *)
(***************************************************************************)
EXTENDS Integers, Sequences, FiniteSets, Functions

CONSTANTS
  Fill,      \* fills a database may hold
  FillOf,    \* [Fill -> FillRow]
  Flow,      \* cash flows a database may hold
  FlowOf,    \* [Flow -> FlowRow]
  Market,    \* (venue, canonical symbol) pairs
  LayoutOf,  \* per set of fills, the legs and trades a rebuild makes of it
  FarFuture, \* the end of an open leg's window
  None

(* Sizes and prices are taken as the Hyperliquid adapter takes them, with  *)
(* no look at their sign.  A negative fee is money that left the account,  *)
(* a positive one a rebate (hyperliquid.py:16-30).                         *)
FillRow ==
  [side : {"buy", "sell"}, quantity : Int, price : Int, fee : Int,
   timestamp : Nat]

FlowRow ==
  [market : Market \cup {None}, type : {"funding", "fee", "other"},
   amount : Int, timestamp : Nat]

(* `trade` is 0 for a leg without a trade. *)
LegRow ==
  [market : Market, direction : {"long", "short"}, opened_at : Nat,
   closed_at : Nat \cup {None}, trade : Nat, fills : SUBSET Fill]

RowsOK ==
  /\ FillOf \in [Fill -> FillRow]
  /\ FlowOf \in [Flow -> FlowRow]
  /\ DOMAIN LayoutOf \subseteq SUBSET Fill
  /\ FarFuture \in Nat
  /\ None \notin Nat \cup Market

ASSUME ValuationAssumption == RowsOK

(* The rows a table of cash flows may hold: as many as the syncs bring. *)
FlowTable == {C \in SUBSET Flow : IsFiniteSet(C)}

-------------------------------------------------------------------------------
(* What a set of fills adds up to *)

Total(amount, S) == SumFunctionOnSet(amount, S)

Quantity(F) == Total([f \in Fill |-> FillOf[f].quantity], F)
Notional(F) == Total([f \in Fill |-> FillOf[f].quantity * FillOf[f].price], F)

Entries(leg) ==
  {f \in leg.fills : (FillOf[f].side = "buy") = (leg.direction = "long")}
Exits(leg) == leg.fills \ Entries(leg)

-------------------------------------------------------------------------------
(* What a rebuild makes of the fills *)

(* The legs of a layout: a market's legs get their ids in the order they   *)
(* opened, and each closed before the next one opened (MarketReplay).      *)
InSuccession(L) ==
  \A l, k \in DOMAIN L : l < k /\ L[l].market = L[k].market =>
    L[l].closed_at # None /\ L[l].closed_at <= L[k].opened_at

WellFormedLegs(L) ==
  /\ L \in Seq(LegRow)
  /\ \A l \in DOMAIN L : L[l].closed_at # None => L[l].opened_at <= L[l].closed_at
  /\ InSuccession(L)

(* Every fill of the history F is in one leg, and a leg has no other       *)
(* (FillsPartitioned of MarketReplay).                                     *)
Partitioned(L, F) ==
  /\ F = UNION {L[l].fills : l \in DOMAIN L}
  /\ \A l, k \in DOMAIN L : l # k => L[l].fills \cap L[k].fills = {}

(* A closed leg bought what it sold, unless a flip touched it: and then    *)
(* its trade is to be reviewed (ImbalanceIsFlagged, and _create_trade).    *)
Balanced(L, review) ==
  \A l \in DOMAIN L :
    L[l].closed_at # None /\ L[l].trade \in DOMAIN review /\ ~review[L[l].trade] =>
      Quantity(Entries(L[l])) = Quantity(Exits(L[l]))

LayoutsOK ==
  /\ {} \in DOMAIN LayoutOf
  /\ LayoutOf[{}] = [legs |-> <<>>, review |-> <<>>]
  /\ \A F \in DOMAIN LayoutOf :
       /\ IsFiniteSet(F)
       /\ WellFormedLegs(LayoutOf[F].legs)
       /\ Partitioned(LayoutOf[F].legs, F)
       /\ LayoutOf[F].review \in Seq(BOOLEAN)
       /\ Balanced(LayoutOf[F].legs, LayoutOf[F].review)

ASSUME LayoutAssumption == LayoutsOK

VARIABLES
  fills,   \* the rows of the table fills
  flows,   \* the rows of the table cash_flows
  legs,    \* the table legs; a leg's fills are those that carry its leg_id
  legOf,   \* cash_flows.leg_id
  trades   \* the table trades: review flag, "still open" reasons, and,
           \* when it is valued, its figures

vars == <<fills, flows, legs, legOf, trades>>

(* A trade as _create_trade leaves it, with NULL in every money field. *)
NewTrade(review) ==
  [review |-> review, reasons |-> 0, valued |-> FALSE, value |-> None]

Init ==
  /\ fills = {}
  /\ flows = {}
  /\ legs = <<>>
  /\ legOf = [c \in Flow |-> None]
  /\ trades = <<>>

-------------------------------------------------------------------------------
(* What a sync commits, and what a rebuild commits *)

StoreFills(F) ==
  /\ F \in DOMAIN LayoutOf
  /\ fills \subseteq F
  /\ fills' = F
  /\ UNCHANGED <<flows, legs, legOf, trades>>

StoreFlows(C) ==
  /\ flows \subseteq C
  /\ flows' = C
  /\ UNCHANGED <<fills, legs, legOf, trades>>

(* Mutant: a trade keeps what was written to the one that had its id.      *)
RebuildOverOldTrades ==
  /\ legs' = LayoutOf[fills].legs
  /\ trades' = [t \in DOMAIN LayoutOf[fills].review |->
                  IF t \in DOMAIN trades
                    THEN [trades[t] EXCEPT !.valued = FALSE]
                    ELSE NewTrade(LayoutOf[fills].review[t])]
  /\ legOf' = [c \in Flow |-> None]
  /\ UNCHANGED <<fills, flows>>

(* Legs and trades are wiped and made again; ON DELETE SET NULL detaches   *)
(* every cash flow.                                                        *)
Rebuild ==
  /\ legs' = LayoutOf[fills].legs
  /\ trades' = [t \in DOMAIN LayoutOf[fills].review |->
                  NewTrade(LayoutOf[fills].review[t])]
  /\ legOf' = [c \in Flow |-> None]
  /\ UNCHANGED <<fills, flows>>

-------------------------------------------------------------------------------
(* Attribution *)

WindowEnd(l) == IF legs[l].closed_at = None THEN FarFuture ELSE legs[l].closed_at

(* Mutant: a window has no end. *)
MatchesForever(c, l) ==
  /\ FlowOf[c].market = legs[l].market
  /\ legs[l].opened_at <= FlowOf[c].timestamp

Matches(c, l) ==
  /\ FlowOf[c].market = legs[l].market
  /\ legs[l].opened_at <= FlowOf[c].timestamp
  /\ FlowOf[c].timestamp <= WindowEnd(l)

Candidates(c) == {l \in DOMAIN legs : Matches(c, l)}

(* Mutant: the leg opened last takes the flow. *)
ChosenLast(c) ==
  CHOOSE l \in Candidates(c) : \A k \in Candidates(c) : k <= l

(* Earliest opened, then smallest id. *)
Chosen(c) ==
  CHOOSE l \in Candidates(c) : \A k \in Candidates(c) :
    \/ legs[l].opened_at < legs[k].opened_at
    \/ legs[l].opened_at = legs[k].opened_at /\ l <= k

(* Mutant: a flow without a leg is given to id 0. *)
AttributionZero ==
  [c \in Flow |-> IF c \in flows /\ Candidates(c) # {} THEN Chosen(c) ELSE 0]

Attribution ==
  [c \in Flow |-> IF c \in flows /\ Candidates(c) # {} THEN Chosen(c) ELSE None]

-------------------------------------------------------------------------------
(* Valuation *)

AbsValue(n) == IF n < 0 THEN -n ELSE n
(* (exit_vwap - entry_vwap) * matched, which is 0 when nothing matched. *)
Gain(l) ==
  LET entry == Quantity(Entries(legs[l]))
      exit == Quantity(Exits(legs[l]))
      matched == IF entry < exit THEN entry ELSE exit
      move == Notional(Exits(legs[l])) * entry - Notional(Entries(legs[l])) * exit
  IN  IF matched <= 0 THEN 0 ELSE (move * matched) \div (entry * exit)

(* Mutant: a short leg gains when the price rises. *)
RealizedUnsigned(l) == Gain(l)

Realized(l) == IF legs[l].direction = "short" THEN -Gain(l) ELSE Gain(l)

LegsOf(t) == {l \in DOMAIN legs : legs[l].trade = t}
FillsOf(t) == UNION {legs[l].fills : l \in LegsOf(t)}
StillOpen(t) == \E l \in LegsOf(t) : legs[l].closed_at = None

(* The flows of a type that an attribution gives to a trade. *)
FlowsOf(t, type, link) ==
  {c \in flows : link[c] \in LegsOf(t) /\ FlowOf[c].type = type}

Funding(t, link) ==
  Total([c \in Flow |-> FlowOf[c].amount], FlowsOf(t, "funding", link))
FeeEvents(t, link) ==
  Total([c \in Flow |-> AbsValue(FlowOf[c].amount)], FlowsOf(t, "fee", link))
Trading(t) == Total([l \in DOMAIN legs |-> Realized(l)], LegsOf(t))
FillFees(t) ==
  Total([f \in Fill |-> AbsValue(FillOf[f].fee)],
        FillsOf(t))

ValueOf(t, link) ==
  LET fees == FillFees(t) + FeeEvents(t, link)
  IN  [funding |-> Funding(t, link),
       trading |-> Trading(t),
       fees    |-> fees,
       net     |-> Trading(t) + Funding(t, link) - fees]

(* The reason an open trade adds is there not at all, once, or repeatedly. *)
MoreReasons(t) == IF trades[t].reasons = 0 THEN 1 ELSE 2

(* The flag and the reasons of the rebuild stay; an open trade adds its own. *)
Valued(t, link) ==
  [review  |-> trades[t].review \/ StillOpen(t),
   reasons |-> IF StillOpen(t) THEN MoreReasons(t) ELSE trades[t].reasons,
   valued  |-> TRUE,
   value   |-> ValueOf(t, link)]

(* Mutant: trades are valued by the attribution that is being replaced. *)
RecomputeByOldLinks ==
  /\ legOf' = Attribution
  /\ trades' = [t \in DOMAIN trades |-> Valued(t, legOf)]
  /\ UNCHANGED <<fills, flows, legs>>

Recompute ==
  /\ legOf' = Attribution
  /\ trades' = [t \in DOMAIN trades |-> Valued(t, Attribution)]
  /\ UNCHANGED <<fills, flows, legs>>

-------------------------------------------------------------------------------
Next ==
  \/ \E F \in DOMAIN LayoutOf : StoreFills(F)
  \/ \E C \in FlowTable : StoreFlows(C)
  \/ Rebuild
  \/ Recompute

Spec == Init /\ [][Next]_vars

-------------------------------------------------------------------------------
(* Properties *)

TypeOK ==
  /\ fills \in DOMAIN LayoutOf
  /\ flows \in FlowTable
  /\ legOf \in [Flow -> DOMAIN legs \cup {None}]
  /\ \A t \in DOMAIN trades :
       /\ trades[t].review \in BOOLEAN
       /\ trades[t].reasons \in 0 .. 2
       /\ trades[t].valued \in BOOLEAN

(***************************************************************************)
(* Whatever syncs and rebuilds come between two valuations, a cash flow    *)
(* never points at a leg whose market or window is not its own, nor at a   *)
(* leg that is gone (pnl.py:13-16, and the foreign keys of the schema).    *)
(***************************************************************************)
AttributionSound ==
  \A c \in Flow : legOf[c] # None =>
    LET leg == legs[legOf[c]] IN
    /\ c \in flows
    /\ FlowOf[c].market = leg.market
    /\ leg.opened_at <= FlowOf[c].timestamp
    /\ leg.closed_at # None => FlowOf[c].timestamp <= leg.closed_at

(***************************************************************************)
(* A flow that falls in more than one window goes to a leg that closed at  *)
(* that very instant (pnl.py:18-20 and the finding's text, 242-245).       *)
(***************************************************************************)
SharedInstantGoesToClosingLeg ==
  \A c \in Flow : legOf[c] # None /\ Candidates(c) # {legOf[c]} =>
    legs[legOf[c]].closed_at = FlowOf[c].timestamp

(***************************************************************************)
(* A trade's funding, fees and net are never half of one state and half of *)
(* another: a trade is unvalued, or its figures are those of its fills and *)
(* of exactly the flows that carry its id now.                             *)
(***************************************************************************)
ValuesMatchAttribution ==
  \A t \in DOMAIN trades :
    trades[t].valued => trades[t].value = ValueOf(t, legOf)

(* The cash a set of fills moved into the account. *)
CashOf(F) ==
  LET sold == {f \in F : FillOf[f].side = "sell"}
  IN  Notional(sold) - Notional(F \ sold)

(* What fees brought the account, by their signs: costs are negative.      *)
FeeIncome(t) ==
  Total([f \in Fill |-> FillOf[f].fee], FillsOf(t))
    + Total([c \in Flow |-> FlowOf[c].amount], FlowsOf(t, "fee", legOf))

Credit(n) == IF n > 0 THEN n ELSE 0

(* The fees that were income. *)
Rebates(t) ==
  Total([f \in Fill |-> Credit(FillOf[f].fee)], FillsOf(t))
    + Total([c \in Flow |-> Credit(FlowOf[c].amount)], FlowsOf(t, "fee", legOf))

(***************************************************************************)
(* "What did each trade actually earn?" (pnl.py:3), against the account:   *)
(* the net of a trade that is closed and not flagged is the cash its fills *)
(* moved, plus its funding and its fees by their signs, except that every  *)
(* rebate counts as a cost of its size (abs, pnl.py:293 and 306), so that  *)
(* the net is short of what was earned by twice the rebates.  The averages *)
(* lose nothing.  Sizes below zero are left out: a leg that only they      *)
(* balance is not valued at all.                                           *)
(***************************************************************************)
ClosedTradeEarnsItsCash ==
  \A t \in DOMAIN trades :
    /\ trades[t].valued /\ ~trades[t].review
    /\ \A f \in FillsOf(t) : FillOf[f].quantity >= 0
    => trades[t].value.net =
         CashOf(FillsOf(t)) + Funding(t, legOf) + FeeIncome(t) - 2 * Rebates(t)

(* The fills the last rebuild found: those that have a leg. *)
Reconciled == UNION {legs[l].fills : l \in DOMAIN legs}

(***************************************************************************)
(* Ids are given out anew by every rebuild, and a valuation reads the flag *)
(* and the reasons that an earlier one wrote (pnl.py:72-74, 311-317).  At  *)
(* any moment a trade is flagged for what this rebuild found, or because a *)
(* leg of it is open as valued, and has its "still open" reason just then: *)
(* nothing of a trade that had its id before, and nothing lost by valuing  *)
(* again.                                                                  *)
(***************************************************************************)
ReviewIsExplained ==
  LET review == LayoutOf[Reconciled].review
      foundOpen(t) == trades[t].valued /\ StillOpen(t)
  IN  /\ DOMAIN trades = DOMAIN review
      /\ \A t \in DOMAIN trades :
           /\ trades[t].review <=> review[t] \/ foundOpen(t)
           /\ trades[t].reasons > 0 <=> foundOpen(t)

(***************************************************************************)
(* The inductive invariant: the legs are those of a rebuild.               *)
(***************************************************************************)
LegsAreRebuilt ==
  Reconciled \in DOMAIN LayoutOf /\ legs = LayoutOf[Reconciled].legs

IInv ==
  /\ TypeOK
  /\ WellFormedLegs(legs)
  /\ AttributionSound
  /\ SharedInstantGoesToClosingLeg
  /\ ValuesMatchAttribution
  /\ LegsAreRebuilt
  /\ ReviewIsExplained
===============================================================================
