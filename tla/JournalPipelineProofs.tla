------------------------- MODULE JournalPipelineProofs -------------------------
(***************************************************************************)
(* First the database.  For every table of cash flows and every            *)
(* reconstruction: attribution is sound, a shared instant goes to the leg  *)
(* that closed then, a trade's figures are those of the flows that carry   *)
(* its id, and its review flag is explained by the tables there are.  Then *)
(* the commands that share it: whatever the order of their transactions    *)
(* and wherever they die, a trade without figures is waiting for a run     *)
(* that has still to value it, a refresh covers what there was when it     *)
(* began, and what a lone refresh prints is current.                       *)
(***************************************************************************)
EXTENDS JournalPipeline, SequenceTheorems, SumTheorems, TLAPS

(* The fields of a well-formed leg table. *)
LEMMA LegTypes ==
  ASSUME WellFormedLegs(legs), NEW l \in DOMAIN legs
  PROVE  /\ l \in Nat
         /\ legs[l].opened_at \in Nat
         /\ legs[l].closed_at # None => legs[l].closed_at \in Nat
<1>1. legs \in Seq(LegRow)
  BY DEF WellFormedLegs
<1>2. l \in Nat /\ legs[l] \in LegRow
  BY <1>1
<1>3. QED
  BY <1>2 DEF LegRow

(* The columns of a flow that attribution compares. *)
LEMMA FlowTypes ==
  ASSUME NEW c \in Flow
  PROVE  FlowOf[c].timestamp \in Nat /\ FlowOf[c].market \in Market \cup {None}
<1>1. FlowOf[c] \in FlowRow
  BY ValuationAssumption DEF RowsOK
<1>2. QED
  BY <1>1 DEF FlowRow

-------------------------------------------------------------------------------
(* Attribution *)

(* Among the candidates of a flow, the smallest id opened first. *)
LEMMA CandidatesInSuccession ==
  ASSUME WellFormedLegs(legs), NEW c \in Flow,
         NEW l \in Candidates(c), NEW k \in Candidates(c), l < k
  PROVE  /\ legs[l].closed_at = FlowOf[c].timestamp
         /\ legs[l].opened_at <= legs[k].opened_at
<1>1. l \in DOMAIN legs /\ k \in DOMAIN legs /\ Matches(c, l) /\ Matches(c, k)
  BY DEF Candidates
<1>2. legs[l].market = legs[k].market
  BY <1>1 DEF Matches
<1>3. legs[l].closed_at # None /\ legs[l].closed_at <= legs[k].opened_at
  BY <1>1, <1>2 DEF WellFormedLegs, InSuccession
<1>4. legs[l].opened_at <= legs[l].closed_at
  BY <1>1, <1>3 DEF WellFormedLegs
<1>5. /\ legs[k].opened_at <= FlowOf[c].timestamp
      /\ FlowOf[c].timestamp <= legs[l].closed_at
  BY <1>1, <1>3 DEF Matches, WindowEnd
<1>6. /\ legs[l].opened_at \in Nat /\ legs[k].opened_at \in Nat
      /\ legs[l].closed_at \in Nat /\ FlowOf[c].timestamp \in Nat
  BY <1>1, <1>3, LegTypes, FlowTypes
<1>7. QED
  BY <1>3, <1>4, <1>5, <1>6

(* The code's minimum is the candidate with the smallest id. *)
LEMMA ChosenIsLeast ==
  ASSUME WellFormedLegs(legs), NEW c \in Flow, Candidates(c) # {}
  PROVE  /\ Chosen(c) \in Candidates(c)
         /\ \A k \in Candidates(c) : Chosen(c) <= k
<1>1. \A l \in Candidates(c) : l \in Nat /\ legs[l].opened_at \in Nat
  BY LegTypes DEF Candidates
<1>2. PICK m \in Candidates(c) : \A k \in Candidates(c) : m <= k
  BY <1>1, LeastMember
<1>3. \A k \in Candidates(c) : legs[m].opened_at <= legs[k].opened_at
  BY <1>1, <1>2, CandidatesInSuccession
<1> DEFINE First(l) == \A k \in Candidates(c) :
             \/ legs[l].opened_at < legs[k].opened_at
             \/ legs[l].opened_at = legs[k].opened_at /\ l <= k
<1>4. First(m)
  BY <1>1, <1>2, <1>3
<1>5. Chosen(c) = CHOOSE l \in Candidates(c) : First(l)
  BY DEF Chosen
<1> HIDE DEF First
<1>6. Chosen(c) \in Candidates(c) /\ First(Chosen(c))
  BY <1>4, <1>5
<1>7. ASSUME NEW k \in Candidates(c) PROVE Chosen(c) <= k
  <2>1. Chosen(c) \in Nat /\ k \in Nat
    BY <1>1, <1>6
  <2>2. CASE k < Chosen(c)
    <3>1. legs[k].opened_at <= legs[Chosen(c)].opened_at
      BY <1>6, <2>2, CandidatesInSuccession
    <3>2. legs[k].opened_at \in Nat /\ legs[Chosen(c)].opened_at \in Nat
      BY <1>1, <1>6
    <3>3. \/ legs[Chosen(c)].opened_at < legs[k].opened_at
          \/ Chosen(c) <= k
      BY <1>6 DEF First
    <3>4. QED
      BY <2>1, <3>1, <3>2, <3>3
  <2>3. QED
    BY <2>1, <2>2
<1>8. QED
  BY <1>6, <1>7

(* A link made by an attribution is to the least candidate. *)
LEMMA AttributionLinks ==
  ASSUME WellFormedLegs(legs), NEW c \in Flow, Attribution[c] # None
  PROVE  /\ c \in flows
         /\ Attribution[c] \in Candidates(c)
         /\ \A k \in Candidates(c) : Attribution[c] <= k
<1>1. c \in flows /\ Candidates(c) # {} /\ Attribution[c] = Chosen(c)
  BY DEF Attribution
<1>2. QED
  BY <1>1, ChosenIsLeast

(* An attribution is a column of leg ids. *)
LEMMA AttributionType ==
  ASSUME WellFormedLegs(legs)
  PROVE  Attribution \in [Flow -> DOMAIN legs \cup {None}]
<1>1. \A c \in Flow : Attribution[c] \in DOMAIN legs \cup {None}
  BY AttributionLinks DEF Candidates
<1>2. Attribution = [c \in Flow |-> Attribution[c]]
  BY DEF Attribution
<1>3. QED
  BY <1>1, <1>2

-------------------------------------------------------------------------------
(* The inductive invariant *)

(* A rebuild leaves every trade unvalued. *)
LEMMA RebuiltTrades ==
  ASSUME fills \in DOMAIN LayoutOf, Rebuild
  PROVE  \A t \in DOMAIN trades' :
           /\ trades'[t].valued = FALSE
           /\ trades'[t].review \in BOOLEAN
           /\ trades'[t].reasons = 0
<1>1. LayoutOf[fills].review \in Seq(BOOLEAN)
  BY LayoutAssumption DEF LayoutsOK
<1>2. \A t \in DOMAIN LayoutOf[fills].review : LayoutOf[fills].review[t] \in BOOLEAN
  BY <1>1
<1>3. QED
  BY <1>2 DEF Rebuild, NewTrade

(* The legs a rebuild makes are well formed. *)
LEMMA RebuiltLegs ==
  ASSUME fills \in DOMAIN LayoutOf, Rebuild
  PROVE  WellFormedLegs(legs)'
<1>1. legs' = LayoutOf[fills].legs
  BY DEF Rebuild
<1>2. WellFormedLegs(LayoutOf[fills].legs)
  BY LayoutAssumption DEF LayoutsOK
<1>3. QED
  BY <1>1, <1>2 DEF WellFormedLegs, InSuccession

(* Every operation keeps the tables well typed. *)
LEMMA Typing == TypeOK /\ WellFormedLegs(legs) /\ [Next]_vars => TypeOK'
<1> SUFFICES ASSUME TypeOK, WellFormedLegs(legs), [Next]_vars PROVE TypeOK'
  OBVIOUS
<1>1. ASSUME NEW F \in DOMAIN LayoutOf, StoreFills(F) PROVE TypeOK'
  BY <1>1 DEF StoreFills, TypeOK
<1>2. ASSUME NEW C \in FlowTable, StoreFlows(C) PROVE TypeOK'
  BY <1>2 DEF StoreFlows, TypeOK
<1>3. ASSUME Rebuild PROVE TypeOK'
  <2>1. fills \in DOMAIN LayoutOf
    BY DEF TypeOK
  <2>2. \A t \in DOMAIN trades' :
          /\ trades'[t].review \in BOOLEAN
          /\ trades'[t].reasons \in 0 .. 2
          /\ trades'[t].valued \in BOOLEAN
    <3>1. 0 \in 0 .. 2
      OBVIOUS
    <3>2. QED
      BY <1>3, <2>1, <3>1, RebuiltTrades, Zenon
  <2>3. legOf' \in [Flow -> DOMAIN legs' \cup {None}]
    BY <1>3 DEF Rebuild
  <2>4. fills' \in DOMAIN LayoutOf /\ flows' \in FlowTable
    BY <1>3 DEF Rebuild, TypeOK
  <2>5. QED
    BY <2>2, <2>3, <2>4 DEF TypeOK
<1>4. ASSUME Recompute PROVE TypeOK'
  <2>1. legOf' \in [Flow -> DOMAIN legs' \cup {None}]
    BY <1>4, AttributionType DEF Recompute
  <2>2. ASSUME NEW t \in DOMAIN trades'
        PROVE  /\ trades'[t].review \in BOOLEAN
               /\ trades'[t].reasons \in 0 .. 2
               /\ trades'[t].valued \in BOOLEAN
    <3>1. t \in DOMAIN trades /\ trades'[t] = Valued(t, Attribution)
      BY <1>4, <2>2 DEF Recompute
    <3>2. trades[t].review \in BOOLEAN /\ trades[t].reasons \in 0 .. 2
      BY <3>1 DEF TypeOK
    <3>3. StillOpen(t) \in BOOLEAN
      BY DEF StillOpen
    <3>4. /\ trades'[t].review = (trades[t].review \/ StillOpen(t))
          /\ trades'[t].reasons =
               IF StillOpen(t) THEN MoreReasons(t) ELSE trades[t].reasons
          /\ trades'[t].valued = TRUE
      BY <3>1 DEF Valued
    <3>5. MoreReasons(t) \in 0 .. 2
      BY DEF MoreReasons
    <3>6. QED
      BY <3>2, <3>3, <3>4, <3>5
  <2>3. fills' \in DOMAIN LayoutOf /\ flows' \in FlowTable
    BY <1>4 DEF Recompute, TypeOK
  <2>4. QED
    BY <2>1, <2>2, <2>3 DEF TypeOK
<1>5. CASE UNCHANGED vars
  BY <1>5 DEF vars, TypeOK
<1>6. QED
  BY <1>1, <1>2, <1>3, <1>4, <1>5 DEF Next

(* Candidates, figures and links are functions of the tables. *)
LEMMA SameCandidates ==
  ASSUME legs' = legs, NEW c \in Flow
  PROVE  Candidates(c)' = Candidates(c)
  BY DEF Candidates, Matches, WindowEnd

(* The legs stay a rebuild's while nothing writes them. *)
LEMMA StaysRebuilt ==
  ASSUME LegsAreRebuilt, legs' = legs
  PROVE  LegsAreRebuilt' /\ Reconciled' = Reconciled
<1>1. Reconciled' = Reconciled
  BY DEF Reconciled
<1>2. QED
  BY <1>1 DEF LegsAreRebuilt

(* A rebuild gives every stored fill a leg, and no other. *)
LEMMA RebuildReconciles ==
  ASSUME fills \in DOMAIN LayoutOf, Rebuild
  PROVE  Reconciled' = fills
<1>1. legs' = LayoutOf[fills].legs
  BY DEF Rebuild
<1>2. Partitioned(LayoutOf[fills].legs, fills)
  BY LayoutAssumption DEF LayoutsOK
<1>3. QED
  BY <1>1, <1>2 DEF Reconciled, Partitioned

(* A trade keeps its figures while its legs and its flows stay. *)
LEMMA SameFigures ==
  ASSUME legs' = legs, NEW t,
         \A type : FlowsOf(t, type, legOf)' = FlowsOf(t, type, legOf)
  PROVE  ValueOf(t, legOf)' = ValueOf(t, legOf)
<1>1. LegsOf(t)' = LegsOf(t)
  BY DEF LegsOf
<1>2. Trading(t)' = Trading(t) /\ FillFees(t)' = FillFees(t)
  BY <1>1 DEF Trading, FillFees, FillsOf, Realized, Gain, Entries, Exits
<1>3. /\ Funding(t, legOf)' = Funding(t, legOf)
      /\ FeeEvents(t, legOf)' = FeeEvents(t, legOf)
  BY DEF Funding, FeeEvents
<1>4. QED
  BY <1>2, <1>3 DEF ValueOf

(* New rows change neither links nor figures: no link of theirs is set. *)
LEMMA StoringPreserves ==
  ASSUME IInv, TypeOK', UNCHANGED <<legs, legOf, trades>>,
         flows \subseteq flows'
  PROVE  IInv'
<1>1. WellFormedLegs(legs)'
  BY DEF IInv, WellFormedLegs, InSuccession
<1>2. AttributionSound'
  BY DEF IInv, AttributionSound
<1>3. SharedInstantGoesToClosingLeg'
  BY SameCandidates DEF IInv, SharedInstantGoesToClosingLeg
<1>4. ASSUME NEW t \in DOMAIN trades, NEW type
      PROVE  FlowsOf(t, type, legOf)' = FlowsOf(t, type, legOf)
  <2>1. LegsOf(t)' = LegsOf(t)
    BY DEF LegsOf
  <2>2. \A c \in flows' : legOf[c] \in LegsOf(t) => c \in flows
    <3> SUFFICES ASSUME NEW c \in flows', legOf[c] \in LegsOf(t) PROVE c \in flows
      OBVIOUS
    <3>1. c \in Flow
      BY DEF TypeOK, FlowTable
    <3>2. legOf[c] \in DOMAIN legs
      BY DEF LegsOf
    <3>3. legOf[c] # None
      BY <3>2, LegTypes, ValuationAssumption DEF IInv, RowsOK
    <3>4. QED
      BY <3>1, <3>3 DEF IInv, AttributionSound
  <2>3. QED
    BY <2>1, <2>2 DEF FlowsOf
<1>5. ValuesMatchAttribution'
  <2> SUFFICES ASSUME NEW t \in DOMAIN trades', trades'[t].valued
               PROVE  trades'[t].value = ValueOf(t, legOf)'
    BY DEF ValuesMatchAttribution
  <2>1. t \in DOMAIN trades /\ trades[t].valued /\ trades'[t] = trades[t]
    OBVIOUS
  <2>2. trades[t].value = ValueOf(t, legOf)
    BY <2>1 DEF IInv, ValuesMatchAttribution
  <2>3. ValueOf(t, legOf)' = ValueOf(t, legOf)
    BY <1>4, <2>1, SameFigures
  <2>4. QED
    BY <2>1, <2>2, <2>3
<1>6. LegsAreRebuilt'
  BY StaysRebuilt DEF IInv
<1>7. ReviewIsExplained'
  BY StaysRebuilt DEF IInv, ReviewIsExplained, StillOpen, LegsOf
<1>8. QED
  BY <1>1, <1>2, <1>3, <1>5, <1>6, <1>7 DEF IInv

(* A rebuild preserves the invariant: no link and no figure is left. *)
LEMMA RebuildPreserves == IInv /\ TypeOK' /\ Rebuild => IInv'
<1> SUFFICES ASSUME IInv, TypeOK', Rebuild PROVE IInv'
  OBVIOUS
<1>1. fills \in DOMAIN LayoutOf
  BY DEF IInv, TypeOK
<1>2. WellFormedLegs(legs)'
  BY <1>1, RebuiltLegs
<1>3. \A c \in Flow : legOf'[c] = None
  BY DEF Rebuild
<1>4. AttributionSound' /\ SharedInstantGoesToClosingLeg'
  BY <1>3 DEF AttributionSound, SharedInstantGoesToClosingLeg
<1>5. ValuesMatchAttribution'
  BY <1>1, RebuiltTrades DEF ValuesMatchAttribution
<1>6. Reconciled' = fills
  BY <1>1, RebuildReconciles
<1>7. LegsAreRebuilt'
  BY <1>1, <1>6 DEF Rebuild, LegsAreRebuilt
<1>8. ReviewIsExplained'
  <2>1. trades' = [t \in DOMAIN LayoutOf[fills].review |->
                    NewTrade(LayoutOf[fills].review[t])]
    BY DEF Rebuild
  <2>2. DOMAIN trades' = DOMAIN LayoutOf[fills].review
    BY <2>1
  <2>3. \A t \in DOMAIN trades' :
          trades'[t].review = LayoutOf[fills].review[t]
    BY <2>1 DEF NewTrade
  <2>4. \A t \in DOMAIN trades' :
          trades'[t].valued = FALSE /\ ~(trades'[t].reasons > 0)
    <3>1. \A t \in DOMAIN trades' :
            trades'[t].valued = FALSE /\ trades'[t].reasons = 0
      BY <1>1, RebuiltTrades
    <3>2. ~(0 > 0)
      OBVIOUS
    <3>3. QED
      BY <3>1, <3>2
  <2>5. QED
    BY <1>6, <2>2, <2>3, <2>4 DEF ReviewIsExplained
<1>9. QED
  BY <1>2, <1>4, <1>5, <1>7, <1>8 DEF IInv

(* A valuation establishes it anew from the tables alone. *)
LEMMA RecomputePreserves == IInv /\ TypeOK' /\ Recompute => IInv'
<1> SUFFICES ASSUME IInv, TypeOK', Recompute PROVE IInv'
  OBVIOUS
<1>1. /\ legOf' = Attribution /\ legs' = legs /\ flows' = flows
      /\ trades' = [t \in DOMAIN trades |-> Valued(t, Attribution)]
  BY DEF Recompute
<1>2. WellFormedLegs(legs)
  BY DEF IInv
<1>3. WellFormedLegs(legs)'
  BY <1>1, <1>2 DEF WellFormedLegs, InSuccession
<1>4. AttributionSound'
  <2> SUFFICES ASSUME NEW c \in Flow, Attribution[c] # None
               PROVE  LET leg == legs[Attribution[c]] IN
                      /\ c \in flows
                      /\ FlowOf[c].market = leg.market
                      /\ leg.opened_at <= FlowOf[c].timestamp
                      /\ leg.closed_at # None => FlowOf[c].timestamp <= leg.closed_at
    BY <1>1 DEF AttributionSound
  <2>1. c \in flows /\ Attribution[c] \in Candidates(c)
    BY <1>2, AttributionLinks
  <2>2. QED
    BY <2>1 DEF Candidates, Matches, WindowEnd
<1>5. SharedInstantGoesToClosingLeg'
  <2> SUFFICES ASSUME NEW c \in Flow, Attribution[c] # None,
                      Candidates(c) # {Attribution[c]}
               PROVE  legs[Attribution[c]].closed_at = FlowOf[c].timestamp
    BY <1>1, SameCandidates DEF SharedInstantGoesToClosingLeg
  <2>1. /\ Attribution[c] \in Candidates(c)
        /\ \A k \in Candidates(c) : Attribution[c] <= k
    BY <1>2, AttributionLinks
  <2>2. PICK k \in Candidates(c) : k # Attribution[c]
    BY <2>1
  <2>3. k \in Nat /\ Attribution[c] \in Nat
    BY <1>2, <2>1, LegTypes DEF Candidates
  <2>4. Attribution[c] < k
    BY <2>1, <2>2, <2>3
  <2>5. QED
    BY <1>2, <2>1, <2>4, CandidatesInSuccession
<1>6. ValuesMatchAttribution'
  <2> SUFFICES ASSUME NEW t \in DOMAIN trades
               PROVE  ValueOf(t, Attribution) = ValueOf(t, legOf)'
    <3>1. DOMAIN trades' = DOMAIN trades
      BY <1>1
    <3>2. \A u \in DOMAIN trades : trades'[u].value = ValueOf(u, Attribution)
      BY <1>1 DEF Valued
    <3>3. QED
      BY <3>1, <3>2 DEF ValuesMatchAttribution
  <2>1. LegsOf(t)' = LegsOf(t)
    BY <1>1 DEF LegsOf
  <2>2. \A type : FlowsOf(t, type, legOf)' = FlowsOf(t, type, Attribution)
    BY <1>1, <2>1 DEF FlowsOf
  <2>3. /\ Funding(t, legOf)' = Funding(t, Attribution)
        /\ FeeEvents(t, legOf)' = FeeEvents(t, Attribution)
    BY <2>2 DEF Funding, FeeEvents
  <2>4. Trading(t)' = Trading(t) /\ FillFees(t)' = FillFees(t)
    BY <1>1, <2>1 DEF Trading, FillFees, FillsOf, Realized, Gain, Entries, Exits
  <2>5. QED
    BY <2>3, <2>4 DEF ValueOf
<1>7. LegsAreRebuilt' /\ Reconciled' = Reconciled
  BY <1>1, StaysRebuilt DEF IInv
<1>8. ReviewIsExplained'
  <2> DEFINE review == LayoutOf[Reconciled].review
  <2>1. /\ DOMAIN trades = DOMAIN review
        /\ \A t \in DOMAIN trades :
             /\ trades[t].review <=> review[t] \/ (trades[t].valued /\ StillOpen(t))
             /\ trades[t].reasons > 0 <=> trades[t].valued /\ StillOpen(t)
    BY DEF IInv, ReviewIsExplained
  <2>2. DOMAIN trades' = DOMAIN review
    BY <1>1, <2>1
  <2>3. \A t \in DOMAIN trades : StillOpen(t)' = StillOpen(t)
    BY <1>1 DEF StillOpen, LegsOf
  <2>4. ASSUME NEW t \in DOMAIN trades
        PROVE  /\ trades'[t].valued
               /\ trades'[t].review <=> review[t] \/ StillOpen(t)
               /\ trades'[t].reasons > 0 <=> StillOpen(t)
    <3>1. /\ trades'[t].valued = TRUE
          /\ trades'[t].review = (trades[t].review \/ StillOpen(t))
          /\ trades'[t].reasons =
               IF StillOpen(t) THEN MoreReasons(t) ELSE trades[t].reasons
      BY <1>1 DEF Valued
    <3>2. MoreReasons(t) > 0
      BY DEF MoreReasons
    <3>3. trades'[t].review <=> review[t] \/ StillOpen(t)
      BY <2>1, <3>1
    <3>4. trades'[t].reasons > 0 <=> StillOpen(t)
      BY <2>1, <3>1, <3>2
    <3>5. QED
      BY <3>1, <3>3, <3>4
  <2> HIDE DEF review
  <2>5. DOMAIN trades' = DOMAIN trades
    BY <1>1
  <2>6. review' = review
    BY <1>7 DEF review
  <2>7. QED
    BY <2>2, <2>3, <2>4, <2>5, <2>6 DEF ReviewIsExplained, review
<1>9. QED
  BY <1>3, <1>4, <1>5, <1>6, <1>7, <1>8 DEF IInv

(***************************************************************************)
(* The invariant is inductive: whatever order syncs, rebuilds and          *)
(* valuations come in, links and figures stay in step.                     *)
(***************************************************************************)
THEOREM ValuationInvariance == Spec => []IInv
<1>1. Init => IInv
  <2> SUFFICES ASSUME Init PROVE IInv
    OBVIOUS
  <2>1. TypeOK
    BY LayoutAssumption, FS_EmptySet DEF Init, TypeOK, LayoutsOK, FlowTable
  <2>2. WellFormedLegs(legs)
    BY DEF Init, WellFormedLegs, InSuccession
  <2>3. AttributionSound /\ SharedInstantGoesToClosingLeg /\ ValuesMatchAttribution
    BY DEF Init, AttributionSound, SharedInstantGoesToClosingLeg,
           ValuesMatchAttribution
  <2>4. Reconciled = {}
    BY DEF Init, Reconciled
  <2>5. LegsAreRebuilt
    BY <2>4, LayoutAssumption DEF Init, LegsAreRebuilt, LayoutsOK
  <2>6. ReviewIsExplained
    BY <2>4, LayoutAssumption DEF Init, ReviewIsExplained, LayoutsOK
  <2>7. QED
    BY <2>1, <2>2, <2>3, <2>5, <2>6 DEF IInv
<1>2. IInv /\ [Next]_vars => IInv'
  <2> SUFFICES ASSUME IInv, [Next]_vars PROVE IInv'
    OBVIOUS
  <2>1. TypeOK'
    BY Typing DEF IInv
  <2>2. ASSUME NEW F \in DOMAIN LayoutOf, StoreFills(F) PROVE IInv'
    BY <2>1, <2>2, StoringPreserves DEF StoreFills
  <2>3. ASSUME NEW C \in FlowTable, StoreFlows(C) PROVE IInv'
    BY <2>1, <2>3, StoringPreserves DEF StoreFlows
  <2>4. CASE Rebuild
    BY <2>1, <2>4, RebuildPreserves
  <2>5. CASE Recompute
    BY <2>1, <2>5, RecomputePreserves
  <2>6. CASE UNCHANGED vars
    BY <2>1, <2>6, StoringPreserves DEF vars
  <2>7. QED
    BY <2>2, <2>3, <2>4, <2>5, <2>6 DEF Next
<1>3. QED
  BY <1>1, <1>2, PTL DEF Spec

(* The tables stay well typed, whatever order the transactions come in.    *)
THEOREM ValuationTypes == Spec => []TypeOK
<1>1. IInv => TypeOK
  BY DEF IInv
<1>2. QED
  BY <1>1, ValuationInvariance, PTL

(***************************************************************************)
(* A cash flow never points at a leg that is gone, nor at one of another   *)
(* market or window (_assign_cash_flows, pnl.py:214-266).                  *)
(***************************************************************************)
THEOREM LinksAreSound == Spec => []AttributionSound
<1>1. IInv => AttributionSound
  BY DEF IInv
<1>2. QED
  BY <1>1, ValuationInvariance, PTL

(***************************************************************************)
(* The code's order of candidates (earliest opened, then smallest id)      *)
(* gives a shared instant to the leg that closed then (pnl.py:18-20).      *)
(***************************************************************************)
THEOREM SharedInstants == Spec => []SharedInstantGoesToClosingLeg
<1>1. IInv => SharedInstantGoesToClosingLeg
  BY DEF IInv
<1>2. QED
  BY <1>1, ValuationInvariance, PTL

(***************************************************************************)
(* A valued trade's figures are those of the flows that carry its id now,  *)
(* through every sync and rebuild (_compute_trade, pnl.py:268-321).        *)
(***************************************************************************)
THEOREM FiguresMatch == Spec => []ValuesMatchAttribution
<1>1. IInv => ValuesMatchAttribution
  BY DEF IInv
<1>2. QED
  BY <1>1, ValuationInvariance, PTL

(***************************************************************************)
(* Whatever is synced, rebuilt and valued in whatever order, a trade is    *)
(* flagged for what the last rebuild found or for a leg that was open when *)
(* it was valued, and has its "still open" reason exactly then             *)
(* (pnl.py:72-74, 311-328; _create_trade of reconciliation.py).            *)
(***************************************************************************)
THEOREM ReviewExplained == Spec => []ReviewIsExplained
<1>1. IInv => ReviewIsExplained
  BY DEF IInv
<1>2. QED
  BY <1>1, ValuationInvariance, PTL

-------------------------------------------------------------------------------
(* What a closed trade earned *)

(* The columns of a fill that the figures are made of. *)
LEMMA FillTypes ==
  ASSUME NEW f \in Fill
  PROVE  /\ FillOf[f].side \in {"buy", "sell"}
         /\ FillOf[f].quantity \in Int
         /\ FillOf[f].price \in Int
         /\ FillOf[f].fee \in Int
<1>1. FillOf[f] \in FillRow
  BY ValuationAssumption DEF RowsOK
<1> QED BY <1>1 DEF FillRow

(* What the fills of a leg add up to are whole numbers. *)
LEMMA FillSums ==
  ASSUME NEW F \in SUBSET Fill, IsFiniteSet(F)
  PROVE  Notional(F) \in Int /\ Quantity(F) \in Int
<1> DEFINE quantity == [f \in Fill |-> FillOf[f].quantity]
           notional == [f \in Fill |-> FillOf[f].quantity * FillOf[f].price]
<1>1. \A f \in F : notional[f] \in Int /\ quantity[f] \in Int
  BY FillTypes
<1>2. Notional(F) = SumFunctionOnSet(notional, F)
  BY DEF Notional, Total
<1>3. Quantity(F) = SumFunctionOnSet(quantity, F)
  BY DEF Quantity, Total
<1> HIDE DEF quantity, notional
<1>4. Notional(F) \in Int
  BY <1>1, <1>2, SumType
<1>5. Quantity(F) \in Int
  BY <1>1, <1>3, SumType
<1> QED BY <1>4, <1>5

(* Fills that only add up to nothing when each is of size zero. *)
LEMMA SizedSums ==
  ASSUME NEW F \in SUBSET Fill, IsFiniteSet(F),
         \A f \in F : FillOf[f].quantity >= 0
  PROVE  /\ Quantity(F) \in Nat
         /\ Quantity(F) = 0 => Notional(F) = 0
<1> DEFINE quantity == [f \in Fill |-> FillOf[f].quantity]
           notional == [f \in Fill |-> FillOf[f].quantity * FillOf[f].price]
           sized == {f \in F : quantity[f] # 0}
           rest == F \ sized
<1>1. \A f \in F : quantity[f] \in Nat
  BY FillTypes
<1>2. Quantity(F) = SumFunctionOnSet(quantity, F)
  BY DEF Quantity, Total
<1>3. Notional(F) = SumFunctionOnSet(notional, F)
  BY DEF Notional, Total
<1>4. \A f \in F : quantity[f] = 0 => notional[f] = 0
  BY FillTypes
<1> HIDE DEF quantity, notional
<1>5. Quantity(F) \in Nat
  BY <1>1, <1>2, SumNatural
<1>6. ASSUME Quantity(F) = 0 PROVE Notional(F) = 0
  <2>1. /\ IsFiniteSet(sized) /\ IsFiniteSet(rest)
        /\ sized \cap rest = {} /\ sized \cup rest = F
    BY FS_Subset
  <2>2. /\ \A f \in sized : quantity[f] \in Nat \ {0}
        /\ \A f \in rest : quantity[f] = 0
        /\ \A f \in sized \cup rest : quantity[f] \in Int
    BY <1>1
  <2> HIDE DEF sized, rest
  <2>3. SumFunctionOnSet(quantity, F)
          = SumFunctionOnSet(quantity, sized) + SumFunctionOnSet(quantity, rest)
    BY <2>1, <2>2, SumDisjoint
  <2>4. SumFunctionOnSet(quantity, rest) = 0
    BY <2>1, <2>2, SumZero
  <2>5. SumFunctionOnSet(quantity, sized) \in Nat
    BY <2>1, <2>2, SumNatural
  <2>6. SumFunctionOnSet(quantity, sized) = 0
    <3>1. SumFunctionOnSet(quantity, F) = 0
      BY <1>2, <1>6
    <3> QED BY <2>3, <2>4, <2>5, <3>1
  <2>7. sized = {}
    BY <2>1, <2>2, <2>6, SumPositive
  <2>8. \A f \in F : notional[f] = 0
    BY <1>4, <2>7 DEF sized
  <2> QED BY <1>3, <2>8, SumZero
<1> QED BY <1>5, <1>6

(* Dividing what was multiplied gives it back. *)
LEMMA DivExact ==
  ASSUME NEW x \in Int, NEW d \in Nat \ {0}
  PROVE  (x * d) \div d = x
  OBVIOUS

LEMMA Regroup ==
  ASSUME NEW x \in Int, NEW e \in Int, NEW q \in Int
  PROVE  (x * q - e * q) * q = (x - e) * (q * q)
  OBVIOUS

(* A leg that closed what it opened gains what its exits brought in more   *)
(* than its entries cost, however its averages were divided.               *)
LEMMA ExactGain ==
  ASSUME NEW l, legs[l].fills \in SUBSET Fill, IsFiniteSet(legs[l].fills),
         \A f \in legs[l].fills : FillOf[f].quantity >= 0,
         Quantity(Entries(legs[l])) = Quantity(Exits(legs[l]))
  PROVE  Gain(l) = Notional(Exits(legs[l])) - Notional(Entries(legs[l]))
<1> DEFINE q == Quantity(Entries(legs[l]))
           e == Notional(Entries(legs[l]))
           x == Notional(Exits(legs[l]))
<1>1. /\ Entries(legs[l]) \in SUBSET Fill /\ IsFiniteSet(Entries(legs[l]))
      /\ Exits(legs[l]) \in SUBSET Fill /\ IsFiniteSet(Exits(legs[l]))
  BY FS_Subset DEF Entries, Exits
<1>2. /\ q \in Nat /\ e \in Int /\ x \in Int
      /\ q = 0 => e = 0 /\ x = 0
  <2>1. /\ \A f \in Entries(legs[l]) : FillOf[f].quantity >= 0
        /\ \A f \in Exits(legs[l]) : FillOf[f].quantity >= 0
    BY DEF Entries, Exits
  <2>2. q \in Nat /\ (q = 0 => e = 0)
    BY <1>1, <2>1, SizedSums
  <2>3. Quantity(Exits(legs[l])) = 0 => x = 0
    BY <1>1, <2>1, SizedSums
  <2>4. e \in Int /\ x \in Int
    BY <1>1, FillSums
  <2> QED BY <2>2, <2>3, <2>4
<1>3. Gain(l) = IF q <= 0 THEN 0 ELSE ((x * q - e * q) * q) \div (q * q)
  BY DEF Gain
<1>4. CASE q = 0
  <2> HIDE DEF q, e, x
  <2>1. Gain(l) = x - e
    BY <1>2, <1>3, <1>4
  <2> QED BY <2>1 DEF e, x
<1>5. CASE q # 0
  <2> HIDE DEF q, e, x
  <2>1. (x * q - e * q) * q = (x - e) * (q * q)
    BY <1>2, Regroup
  <2>2. q * q \in Nat \ {0}
    BY <1>2, <1>5
  <2>3. x - e \in Int
    BY <1>2
  <2>4. ((x - e) * (q * q)) \div (q * q) = x - e
    BY <2>2, <2>3, DivExact
  <2>5. Gain(l) = x - e
    BY <1>2, <1>3, <1>5, <2>1, <2>4
  <2> QED BY <2>5 DEF e, x
<1> QED BY <1>4, <1>5

(* What each fill moved: a sale brings cash in, a purchase takes it out. *)
Moved ==
  [f \in Fill |-> IF FillOf[f].side = "sell"
                  THEN FillOf[f].quantity * FillOf[f].price
                  ELSE -(FillOf[f].quantity * FillOf[f].price)]

LEMMA MovedType == \A f \in Fill : Moved[f] \in Int
  BY FillTypes DEF Moved

(* The cash of a set of fills is the sum of what each of them moved. *)
LEMMA CashIsSum ==
  ASSUME NEW F \in SUBSET Fill, IsFiniteSet(F)
  PROVE  CashOf(F) = SumFunctionOnSet(Moved, F)
<1> DEFINE sold == {f \in F : FillOf[f].side = "sell"}
           bought == F \ sold
           notional == [f \in Fill |-> FillOf[f].quantity * FillOf[f].price]
           zero == [f \in Fill |-> 0]
<1>1. /\ IsFiniteSet(sold) /\ IsFiniteSet(bought)
      /\ sold \cap bought = {} /\ sold \cup bought = F
  BY FS_Subset
<1>2. \A f \in Fill : notional[f] \in Int /\ zero[f] = 0
  BY FillTypes
<1>3. \A f \in sold : notional[f] \in Int /\ Moved[f] = notional[f]
  BY <1>2 DEF Moved
<1>4. \A f \in bought : Moved[f] = -notional[f]
  BY DEF Moved
<1>5. CashOf(F) = SumFunctionOnSet(notional, sold) - SumFunctionOnSet(notional, bought)
  BY DEF CashOf, Notional, Total
<1>6. sold \subseteq Fill /\ bought \subseteq Fill
  OBVIOUS
<1> HIDE DEF sold, bought, notional, zero
<1>7. SumFunctionOnSet(Moved, sold) = SumFunctionOnSet(notional, sold)
  BY <1>1, <1>3, SumSame
<1>8. SumFunctionOnSet(Moved, bought)
        = SumFunctionOnSet(zero, bought) - SumFunctionOnSet(notional, bought)
  <2>1. \A f \in bought : zero[f] \in Int /\ notional[f] \in Int
    BY <1>2, <1>6
  <2>2. \A f \in bought : Moved[f] = zero[f] - notional[f]
    BY <1>2, <1>4, <1>6
  <2> QED BY <1>1, <2>1, <2>2, SumMinus
<1>9. SumFunctionOnSet(zero, bought) = 0
  BY <1>1, <1>2, <1>6, SumZero
<1>10. SumFunctionOnSet(Moved, F)
         = SumFunctionOnSet(Moved, sold) + SumFunctionOnSet(Moved, bought)
  <2>1. \A f \in sold \cup bought : Moved[f] \in Int
    BY <1>6, MovedType
  <2> QED BY <1>1, <2>1, SumDisjoint
<1>11. /\ SumFunctionOnSet(notional, sold) \in Int
       /\ SumFunctionOnSet(notional, bought) \in Int
  BY <1>1, <1>2, <1>6, SumType
<1> QED BY <1>5, <1>7, <1>8, <1>9, <1>10, <1>11

(* A leg that closed what it opened earned the cash its fills moved: a     *)
(* long one bought first, a short one sold first.                          *)
LEMMA LegEarnsItsCash ==
  ASSUME NEW l, legs[l] \in LegRow, IsFiniteSet(legs[l].fills),
         \A f \in legs[l].fills : FillOf[f].quantity >= 0,
         Quantity(Entries(legs[l])) = Quantity(Exits(legs[l]))
  PROVE  Realized(l) = CashOf(legs[l].fills)
<1> DEFINE F == legs[l].fills
           sold == {f \in F : FillOf[f].side = "sell"}
<1>1. F \in SUBSET Fill /\ legs[l].direction \in {"long", "short"}
  BY DEF LegRow
<1>2. Gain(l) = Notional(Exits(legs[l])) - Notional(Entries(legs[l]))
  BY <1>1, ExactGain
<1>3. CashOf(F) = Notional(sold) - Notional(F \ sold)
  BY DEF CashOf
<1>4. IsFiniteSet(sold) /\ IsFiniteSet(F \ sold)
  BY FS_Subset
<1>5. Notional(sold) \in Int /\ Notional(F \ sold) \in Int
  BY <1>1, <1>4, FillSums
<1>6. \A f \in F : FillOf[f].side \in {"buy", "sell"}
  BY <1>1, FillTypes
<1>7. CASE legs[l].direction = "long"
  <2>1. Entries(legs[l]) = F \ sold /\ Exits(legs[l]) = sold
    BY <1>6, <1>7 DEF Entries, Exits
  <2>2. Realized(l) = Gain(l)
    BY <1>7 DEF Realized
  <2> QED BY <1>2, <1>3, <2>1, <2>2
<1>8. CASE legs[l].direction = "short"
  <2>1. Entries(legs[l]) = sold /\ Exits(legs[l]) = F \ sold
    BY <1>6, <1>8 DEF Entries, Exits
  <2>2. Realized(l) = -Gain(l)
    BY <1>8 DEF Realized
  <2>3. Gain(l) = Notional(F \ sold) - Notional(sold)
    BY <1>2, <2>1
  <2> QED BY <1>3, <1>5, <2>2, <2>3
<1> QED BY <1>1, <1>7, <1>8

(* A trade whose legs all closed what they opened earned their cash. *)
LEMMA TradeEarnsItsCash ==
  ASSUME NEW t, NEW F \in SUBSET Fill, IsFiniteSet(F), legs \in Seq(LegRow),
         Partitioned(legs, F),
         \A f \in FillsOf(t) : FillOf[f].quantity >= 0,
         \A l \in LegsOf(t) : Quantity(Entries(legs[l])) = Quantity(Exits(legs[l]))
  PROVE  Trading(t) = CashOf(FillsOf(t))
<1> DEFINE L == LegsOf(t)
           rows == [l \in DOMAIN legs |-> legs[l].fills]
           realized == [l \in DOMAIN legs |-> Realized(l)]
<1>1. IsFiniteSet(L) /\ \A l \in L : l \in DOMAIN legs /\ legs[l] \in LegRow
  <2>1. DOMAIN legs = 1 .. Len(legs) /\ Len(legs) \in Nat
    OBVIOUS
  <2>2. IsFiniteSet(1 .. Len(legs))
    BY <2>1, FS_Interval
  <2>3. L \subseteq 1 .. Len(legs)
    BY <2>1 DEF LegsOf
  <2>4. IsFiniteSet(L)
    BY <2>2, <2>3, FS_Subset
  <2> QED BY <2>1, <2>3, <2>4
<1>2. \A l \in DOMAIN legs : legs[l].fills \subseteq F
  BY DEF Partitioned
<1>3. \A l \in DOMAIN legs : IsFiniteSet(legs[l].fills)
  BY <1>2, FS_Subset
<1>4. \A l \in L : realized[l] = SumFunctionOnSet(Moved, legs[l].fills)
  <2> SUFFICES ASSUME NEW l \in L
               PROVE  realized[l] = SumFunctionOnSet(Moved, legs[l].fills)
    OBVIOUS
  <2>0. \A f \in legs[l].fills : FillOf[f].quantity >= 0
    BY DEF FillsOf
  <2>1. Realized(l) = CashOf(legs[l].fills)
    BY <1>1, <1>3, <2>0, LegEarnsItsCash
  <2>2. legs[l].fills \in SUBSET Fill
    BY <1>1, <1>2
  <2>3. CashOf(legs[l].fills) = SumFunctionOnSet(Moved, legs[l].fills)
    BY <1>1, <1>3, <2>2, CashIsSum
  <2> QED BY <1>1, <2>1, <2>3
<1>5. \A l \in L : IsFiniteSet(rows[l]) /\ realized[l] = SumFunctionOnSet(Moved, rows[l])
  BY <1>1, <1>3, <1>4
<1>6. \A l, k \in L : l # k => rows[l] \cap rows[k] = {}
  BY <1>1 DEF Partitioned
<1>7. \A l \in L : \A f \in rows[l] : Moved[f] \in Int
  BY <1>1, <1>2, MovedType
<1>8. {rows[l] : l \in L} = {legs[l].fills : l \in L}
  BY <1>1
<1>9. Trading(t) = SumFunctionOnSet(realized, L)
  BY DEF Trading, Total
<1> HIDE DEF L, rows, realized
<1>10. SumFunctionOnSet(realized, L) = SumFunctionOnSet(Moved, UNION {rows[l] : l \in L})
  <2>1. /\ IsFiniteSet(L)
        /\ \A l \in L : IsFiniteSet(rows[l]) /\ realized[l] = SumFunctionOnSet(Moved, rows[l])
        /\ \A l, k \in L : l # k => rows[l] \cap rows[k] = {}
        /\ \A l \in L : \A x \in rows[l] : Moved[x] \in Int
    BY <1>1, <1>5, <1>6, <1>7
  <2>2. QED
    BY <2>1, SumOfSums, ZenonT(90)
<1>11. /\ UNION {legs[l].fills : l \in L} \subseteq F
       /\ IsFiniteSet(UNION {legs[l].fills : l \in L})
  <2>1. UNION {legs[l].fills : l \in L} \subseteq F
    BY <1>1, <1>2
  <2> QED BY <2>1, FS_Subset
<1>12. CashOf(UNION {legs[l].fills : l \in L})
         = SumFunctionOnSet(Moved, UNION {legs[l].fills : l \in L})
  <2>1. UNION {legs[l].fills : l \in L} \in SUBSET Fill
    BY <1>11
  <2> QED BY <1>11, <2>1, CashIsSum
<1> QED BY <1>8, <1>9, <1>10, <1>12 DEF L, FillsOf

(* The code's fees of whatever rows: the signed sum turned round, and      *)
(* twice what came in.                                                     *)
LEMMA AbsoluteSum ==
  ASSUME NEW S, IsFiniteSet(S), NEW a, \A x \in S : a[x] \in Int,
         NEW size, \A x \in S : size[x] = AbsValue(a[x]),
         NEW credit, \A x \in S : credit[x] = Credit(a[x])
  PROVE  /\ SumFunctionOnSet(a, S) \in Int
         /\ SumFunctionOnSet(credit, S) \in Int
         /\ SumFunctionOnSet(size, S)
              = 2 * SumFunctionOnSet(credit, S) - SumFunctionOnSet(a, S)
<1> DEFINE debit == [x \in S |-> a[x] - credit[x]]
<1>1. \A x \in S : /\ credit[x] \in Int
                   /\ debit[x] \in Int /\ debit[x] = a[x] - credit[x]
                   /\ size[x] = credit[x] - debit[x]
  BY DEF AbsValue, Credit
<1> HIDE DEF debit
<1>2. SumFunctionOnSet(debit, S) = SumFunctionOnSet(a, S) - SumFunctionOnSet(credit, S)
  BY <1>1, SumMinus
<1>3. SumFunctionOnSet(size, S) = SumFunctionOnSet(credit, S) - SumFunctionOnSet(debit, S)
  BY <1>1, SumMinus
<1>4. SumFunctionOnSet(a, S) \in Int
  BY SumType
<1>5. SumFunctionOnSet(credit, S) \in Int
  BY <1>1, SumType
<1> QED BY <1>2, <1>3, <1>4, <1>5

(* Only so many rows are ever stored, so funding is a whole number, and    *)
(* the fees are what the account paid and twice what it got.               *)
LEMMA FeesBySign ==
  ASSUME TypeOK, NEW t, NEW F \in SUBSET Fill, IsFiniteSet(F), Partitioned(legs, F)
  PROVE  /\ Funding(t, legOf) \in Int
         /\ FeeIncome(t) \in Int /\ Rebates(t) \in Int
         /\ FillFees(t) + FeeEvents(t, legOf) = 2 * Rebates(t) - FeeIncome(t)
<1> DEFINE amount == [c \in Flow |-> FlowOf[c].amount]
           size == [c \in Flow |-> AbsValue(FlowOf[c].amount)]
           credit == [c \in Flow |-> Credit(FlowOf[c].amount)]
           fee == [f \in Fill |-> FillOf[f].fee]
           feeSize == [f \in Fill |-> AbsValue(FillOf[f].fee)]
           feeCredit == [f \in Fill |-> Credit(FillOf[f].fee)]
           events == FlowsOf(t, "fee", legOf)
           G == FillsOf(t)
<1>1. \A c \in Flow : /\ amount[c] \in Int
                      /\ size[c] = AbsValue(amount[c])
                      /\ credit[c] = Credit(amount[c])
  <2> SUFFICES ASSUME NEW c \in Flow PROVE FlowOf[c].amount \in Int
    OBVIOUS
  <2>1. FlowOf[c] \in FlowRow
    BY ValuationAssumption DEF RowsOK
  <2> QED BY <2>1 DEF FlowRow
<1>2. \A f \in Fill : /\ fee[f] \in Int
                      /\ feeSize[f] = AbsValue(fee[f])
                      /\ feeCredit[f] = Credit(fee[f])
  BY FillTypes
<1>3. ASSUME NEW type
      PROVE  /\ IsFiniteSet(FlowsOf(t, type, legOf))
             /\ FlowsOf(t, type, legOf) \subseteq Flow
  <2>1. FlowsOf(t, type, legOf) \subseteq flows
    BY DEF FlowsOf
  <2>2. IsFiniteSet(flows) /\ flows \subseteq Flow
    BY DEF TypeOK, FlowTable
  <2> QED BY <2>1, <2>2, FS_Subset
<1>4. G \subseteq F
  BY DEF FillsOf, LegsOf, Partitioned
<1>5. IsFiniteSet(G) /\ G \subseteq Fill
  BY <1>4, FS_Subset
<1>6. /\ Funding(t, legOf) = SumFunctionOnSet(amount, FlowsOf(t, "funding", legOf))
      /\ FeeEvents(t, legOf) = SumFunctionOnSet(size, events)
      /\ FillFees(t) = SumFunctionOnSet(feeSize, G)
  BY DEF Funding, FeeEvents, FillFees, Total
<1>7. /\ FeeIncome(t) = SumFunctionOnSet(fee, G) + SumFunctionOnSet(amount, events)
      /\ Rebates(t) = SumFunctionOnSet(feeCredit, G) + SumFunctionOnSet(credit, events)
  BY DEF FeeIncome, Rebates, Total
<1>8. IsFiniteSet(events) /\ events \subseteq Flow
  BY <1>3
<1> HIDE DEF amount, size, credit, fee, feeSize, feeCredit, events, G
<1>9. Funding(t, legOf) \in Int
  BY <1>1, <1>3, <1>6, SumType
<1>10. /\ SumFunctionOnSet(fee, G) \in Int
       /\ SumFunctionOnSet(feeCredit, G) \in Int
       /\ SumFunctionOnSet(feeSize, G)
            = 2 * SumFunctionOnSet(feeCredit, G) - SumFunctionOnSet(fee, G)
  <2>1. \A f \in G : /\ fee[f] \in Int
                     /\ feeSize[f] = AbsValue(fee[f])
                     /\ feeCredit[f] = Credit(fee[f])
    BY <1>2, <1>5
  <2> QED BY <1>5, <2>1, AbsoluteSum
<1>11. /\ SumFunctionOnSet(amount, events) \in Int
       /\ SumFunctionOnSet(credit, events) \in Int
       /\ SumFunctionOnSet(size, events)
            = 2 * SumFunctionOnSet(credit, events) - SumFunctionOnSet(amount, events)
  <2>1. \A c \in events : /\ amount[c] \in Int
                          /\ size[c] = AbsValue(amount[c])
                          /\ credit[c] = Credit(amount[c])
    BY <1>1, <1>8
  <2> QED BY <1>8, <2>1, AbsoluteSum
<1> QED BY <1>6, <1>7, <1>9, <1>10, <1>11

(***************************************************************************)
(* "What did each trade actually earn?" (pnl.py:3): whatever is synced,    *)
(* rebuilt and valued in whatever order, the net of a trade that is closed *)
(* and not flagged, and none of whose fills has a size below zero, is what *)
(* its fills, its funding and its fees brought the account, less twice the *)
(* rebates among the fees, which the code takes for costs; averaging loses *)
(* nothing (_realized_trading_pnl, pnl.py:134-160; abs, pnl.py:293, 306).  *)
(***************************************************************************)
THEOREM EarnsItsCash == Spec => []ClosedTradeEarnsItsCash
<1>1. IInv => ClosedTradeEarnsItsCash
  <2> SUFFICES ASSUME IInv, NEW t \in DOMAIN trades,
                      trades[t].valued, ~trades[t].review,
                      \A f \in FillsOf(t) : FillOf[f].quantity >= 0
               PROVE  trades[t].value.net =
                        CashOf(FillsOf(t)) + Funding(t, legOf)
                          + FeeIncome(t) - 2 * Rebates(t)
    BY DEF ClosedTradeEarnsItsCash
  <2> DEFINE F == Reconciled
  <2>1. F \in DOMAIN LayoutOf /\ legs = LayoutOf[F].legs
    BY DEF IInv, LegsAreRebuilt
  <2>2. /\ F \in SUBSET Fill /\ IsFiniteSet(F)
        /\ Partitioned(legs, F)
        /\ legs \in Seq(LegRow)
        /\ Balanced(legs, LayoutOf[F].review)
    BY <2>1, ValuationAssumption, LayoutAssumption
       DEF RowsOK, LayoutsOK, IInv, WellFormedLegs
  <2>3. /\ t \in DOMAIN LayoutOf[F].review /\ ~LayoutOf[F].review[t]
        /\ ~StillOpen(t)
    BY DEF IInv, ReviewIsExplained
  <2> HIDE DEF F
  <2>4. \A l \in LegsOf(t) : Quantity(Entries(legs[l])) = Quantity(Exits(legs[l]))
    <3>1. \A l \in LegsOf(t) : legs[l].closed_at # None
      BY <2>3 DEF StillOpen
    <3> QED BY <2>2, <2>3, <3>1 DEF Balanced, LegsOf
  <2>5. Trading(t) = CashOf(FillsOf(t))
    BY <2>2, <2>4, TradeEarnsItsCash
  <2>6. /\ Funding(t, legOf) \in Int
        /\ FeeIncome(t) \in Int /\ Rebates(t) \in Int
        /\ FillFees(t) + FeeEvents(t, legOf) = 2 * Rebates(t) - FeeIncome(t)
    BY <2>2, FeesBySign DEF IInv
  <2>7. CashOf(FillsOf(t)) \in Int
    <3> DEFINE G == FillsOf(t)
    <3>1. G \subseteq F
      BY <2>2 DEF Partitioned, LegsOf, FillsOf
    <3>2. IsFiniteSet(G) /\ G \in SUBSET Fill
      BY <2>2, <3>1, FS_Subset
    <3> HIDE DEF G
    <3>3. SumFunctionOnSet(Moved, G) \in Int
      BY <3>2, MovedType, SumType
    <3>4. CashOf(G) \in Int
      BY <3>2, <3>3, CashIsSum
    <3> QED BY <3>4 DEF G
  <2>8. trades[t].value = ValueOf(t, legOf)
    BY DEF IInv, ValuesMatchAttribution
  <2>9. trades[t].value.net
          = Trading(t) + Funding(t, legOf) - (FillFees(t) + FeeEvents(t, legOf))
    BY <2>8 DEF ValueOf
  <2> QED BY <2>5, <2>6, <2>7, <2>9
<1>2. QED
  BY <1>1, ValuationInvariance, PTL

-------------------------------------------------------------------------------
(* The steps of a command *)

StepName ==
  {"variational_fills", "variational_cash_flows",
   "hyperliquid_fills", "hyperliquid_cash_flows",
   "rebuild", "recompute", "trades", "orphans", "stale"}

(* One part of a command after another. *)
LEMMA PartsOf ==
  ASSUME NEW a \in Seq(StepName), NEW b \in Seq(StepName)
  PROVE  /\ a \o b \in Seq(StepName) /\ Len(a \o b) = Len(a) + Len(b)
         /\ \A i \in 1 .. Len(a) + Len(b) :
              (a \o b)[i] = IF i <= Len(a) THEN a[i] ELSE b[i - Len(a)]
  BY ConcatProperties

(* A sync takes the streams of one venue and then those of the other. *)
LEMMA SyncSteps ==
  /\ Sync \in Seq(StepName) /\ Len(Sync) = 4
  /\ Sync[1] = "variational_fills" /\ Sync[2] = "variational_cash_flows"
  /\ Sync[3] = "hyperliquid_fills" /\ Sync[4] = "hyperliquid_cash_flows"
<1>1. /\ VariationalSync \in Seq(StepName) /\ Len(VariationalSync) = 2
      /\ VariationalSync[1] = "variational_fills"
      /\ VariationalSync[2] = "variational_cash_flows"
  BY DEF VariationalSync, StepName
<1>2. /\ HyperliquidSync \in Seq(StepName) /\ Len(HyperliquidSync) = 2
      /\ HyperliquidSync[1] = "hyperliquid_fills"
      /\ HyperliquidSync[2] = "hyperliquid_cash_flows"
  BY DEF HyperliquidSync, StepName
<1>3. /\ Sync \in Seq(StepName) /\ Len(Sync) = 2 + 2
      /\ \A i \in 1 .. 2 + 2 :
           Sync[i] = IF i <= 2 THEN VariationalSync[i] ELSE HyperliquidSync[i - 2]
  <2>1. /\ Sync \in Seq(StepName) /\ Len(Sync) = Len(VariationalSync) + Len(HyperliquidSync)
        /\ \A i \in 1 .. Len(VariationalSync) + Len(HyperliquidSync) :
             Sync[i] = IF i <= Len(VariationalSync) THEN VariationalSync[i] ELSE HyperliquidSync[i - Len(VariationalSync)]
    BY <1>1, <1>2, PartsOf DEF Sync
  <2>2. QED
    BY <1>1, <1>2, <2>1
<1>4. QED
  BY <1>1, <1>2, <1>3

(* The steps of a refresh that prints nothing. *)
LEMMA SilentSteps ==
  LET s == Sync \o RebuildSteps IN
  /\ s \in Seq(StepName) /\ Len(s) = 6
  /\ s[1] = "variational_fills" /\ s[2] = "variational_cash_flows"
  /\ s[3] = "hyperliquid_fills" /\ s[4] = "hyperliquid_cash_flows"
  /\ s[5] = "rebuild" /\ s[6] = "recompute"
<1>1. /\ RebuildSteps \in Seq(StepName) /\ Len(RebuildSteps) = 2
      /\ RebuildSteps[1] = "rebuild" /\ RebuildSteps[2] = "recompute"
  BY DEF RebuildSteps, StepName
<1> DEFINE s == Sync \o RebuildSteps
<1>2. /\ s \in Seq(StepName) /\ Len(s) = 4 + 2
      /\ \A i \in 1 .. 4 + 2 : s[i] = IF i <= 4 THEN Sync[i] ELSE RebuildSteps[i - 4]
  <2>1. /\ s \in Seq(StepName) /\ Len(s) = Len(Sync) + Len(RebuildSteps)
        /\ \A i \in 1 .. Len(Sync) + Len(RebuildSteps) :
             s[i] = IF i <= Len(Sync) THEN Sync[i] ELSE RebuildSteps[i - Len(Sync)]
    BY <1>1, SyncSteps, PartsOf
  <2> HIDE DEF s
  <2>2. QED
    BY <1>1, SyncSteps, <2>1
<1> HIDE DEF s
<1>3. QED
  BY <1>1, <1>2, SyncSteps DEF s

(* A refresh takes its nine steps in this order. *)
LEMMA RefreshSteps ==
  LET s == Command["refresh"] IN
  /\ s \in Seq(StepName) /\ Len(s) = 9
  /\ s[1] = "variational_fills" /\ s[2] = "variational_cash_flows"
  /\ s[3] = "hyperliquid_fills" /\ s[4] = "hyperliquid_cash_flows"
  /\ s[5] = "rebuild" /\ s[6] = "recompute"
  /\ s[7] = "trades" /\ s[8] = "orphans" /\ s[9] = "stale"
<1>1. Command["refresh"] = (Sync \o RebuildSteps) \o ReportSteps
  BY DEF Command
<1>2. /\ ReportSteps \in Seq(StepName) /\ Len(ReportSteps) = 3
      /\ ReportSteps[1] = "trades" /\ ReportSteps[2] = "orphans"
      /\ ReportSteps[3] = "stale"
  BY DEF ReportSteps, StepName
<1> DEFINE silent == Sync \o RebuildSteps
<1>3. /\ silent \in Seq(StepName) /\ Len(silent) = 6
      /\ silent[1] = "variational_fills" /\ silent[2] = "variational_cash_flows"
      /\ silent[3] = "hyperliquid_fills" /\ silent[4] = "hyperliquid_cash_flows"
      /\ silent[5] = "rebuild" /\ silent[6] = "recompute"
  BY SilentSteps
<1> HIDE DEF silent
<1> DEFINE s == silent \o ReportSteps
<1>4. /\ s \in Seq(StepName) /\ Len(s) = 6 + 3
      /\ \A i \in 1 .. 6 + 3 : s[i] = IF i <= 6 THEN silent[i] ELSE ReportSteps[i - 6]
  <2>1. /\ s \in Seq(StepName) /\ Len(s) = Len(silent) + Len(ReportSteps)
        /\ \A i \in 1 .. Len(silent) + Len(ReportSteps) :
             s[i] = IF i <= Len(silent) THEN silent[i] ELSE ReportSteps[i - Len(silent)]
    BY <1>2, <1>3, PartsOf
  <2> HIDE DEF s
  <2>2. QED
    BY <1>2, <1>3, <2>1
<1>5. Command["refresh"] = s
  BY <1>1 DEF silent
<1> HIDE DEF s
<1>6. QED
  BY <1>2, <1>3, <1>4, <1>5

(* In every command a rebuild is followed by a valuation, and the report's *)
(* last read is the last step.                                             *)
LEMMA CommandSteps ==
  ASSUME NEW c \in Commands
  PROVE  /\ Command[c] \in Seq(StepName)
         /\ Len(Command[c]) \in 2 .. 9
         /\ \A n \in 1 .. Len(Command[c]) :
              /\ Command[c][n] = "rebuild" =>
                   n < Len(Command[c]) /\ Command[c][n + 1] = "recompute"
              /\ Command[c][n] = "stale" => n = Len(Command[c])
<1>1. c \in {"sync", "sync_variational", "sync_hyperliquid", "rebuild", "report",
             "refresh", "refresh_silent"}
  BY PipelineAssumption DEF Command
<1>2. /\ Command["sync"] = Sync
      /\ Command["sync_variational"]
           = <<"variational_fills", "variational_cash_flows">>
      /\ Command["sync_hyperliquid"]
           = <<"hyperliquid_fills", "hyperliquid_cash_flows">>
      /\ Command["rebuild"] = <<"rebuild", "recompute">>
      /\ Command["report"] = <<"trades", "orphans", "stale">>
      /\ Command["refresh_silent"] = Sync \o RebuildSteps
  BY DEF Command, VariationalSync, HyperliquidSync, RebuildSteps, ReportSteps
<1> DEFINE Good(s) ==
      /\ s \in Seq(StepName)
      /\ Len(s) \in 2 .. 9
      /\ \A n \in 1 .. Len(s) :
           /\ s[n] = "rebuild" => n < Len(s) /\ s[n + 1] = "recompute"
           /\ s[n] = "stale" => n = Len(s)
<1>3. /\ Good(<<"variational_fills", "variational_cash_flows">>)
      /\ Good(<<"hyperliquid_fills", "hyperliquid_cash_flows">>)
      /\ Good(<<"rebuild", "recompute">>)
  <2>1. 1 .. 2 = {1, 2}
    OBVIOUS
  <2>2. QED
    BY <2>1 DEF StepName
<1>4. Good(<<"trades", "orphans", "stale">>)
  <2>1. 1 .. 3 = {1, 2, 3}
    OBVIOUS
  <2>2. QED
    BY <2>1 DEF StepName
<1>5. Good(Sync)
  <2>1. 1 .. 4 = {1, 2, 3, 4}
    OBVIOUS
  <2>2. QED
    BY <2>1, SyncSteps
<1>6. Good(Sync \o RebuildSteps)
  <2>1. 1 .. 6 = {1, 2, 3, 4, 5, 6}
    OBVIOUS
  <2> DEFINE s == Sync \o RebuildSteps
  <2>2. /\ s \in Seq(StepName) /\ Len(s) = 6
        /\ s[1] = "variational_fills" /\ s[2] = "variational_cash_flows"
        /\ s[3] = "hyperliquid_fills" /\ s[4] = "hyperliquid_cash_flows"
        /\ s[5] = "rebuild" /\ s[6] = "recompute"
    BY SilentSteps
  <2> HIDE DEF s
  <2>3. Good(s)
    BY <2>1, <2>2
  <2>4. QED
    BY <2>3 DEF s
<1>7. Good(Command["refresh"])
  <2>1. 1 .. 9 = {1, 2, 3, 4, 5, 6, 7, 8, 9}
    OBVIOUS
  <2> DEFINE s == Command["refresh"]
  <2>2. /\ s \in Seq(StepName) /\ Len(s) = 9
        /\ s[1] = "variational_fills" /\ s[2] = "variational_cash_flows"
        /\ s[3] = "hyperliquid_fills" /\ s[4] = "hyperliquid_cash_flows"
        /\ s[5] = "rebuild" /\ s[6] = "recompute"
        /\ s[7] = "trades" /\ s[8] = "orphans" /\ s[9] = "stale"
    BY RefreshSteps
  <2> HIDE DEF s
  <2>3. Good(s)
    BY <2>1, <2>2
  <2>4. QED
    BY <2>3 DEF s
<1> HIDE DEF Good
<1>8. Good(Command[c])
  BY <1>1, <1>2, <1>3, <1>4, <1>5, <1>6, <1>7
<1>9. QED
  BY <1>8 DEF Good

(* The head and the tail of the end of a sequence. *)
LEMMA EndOf ==
  ASSUME NEW S, NEW s \in Seq(S), NEW n \in 1 .. Len(s)
  PROVE  LET q == SubSeq(s, n, Len(s)) IN
         /\ q # <<>>
         /\ Head(q) = s[n]
         /\ Tail(q) = SubSeq(s, n + 1, Len(s))
         /\ n = Len(s) => Tail(q) = <<>>
         /\ n < Len(s) => Tail(q) # <<>> /\ Head(Tail(q)) = s[n + 1]
<1>1. Len(s) \in Nat /\ n \in Int /\ Len(s) \in n .. Len(s)
  OBVIOUS
<1>2. /\ Head(SubSeq(s, n, Len(s))) = s[n]
      /\ Tail(SubSeq(s, n, Len(s))) = SubSeq(s, n + 1, Len(s))
  BY <1>1, HeadTailOfSubSeq
<1>3. ASSUME NEW k \in 1 .. Len(s) PROVE SubSeq(s, k, Len(s)) # <<>>
  <2>1. k \in Int /\ Len(s) \in Int /\ k <= Len(s) /\ \A i \in k .. Len(s) : s[i] \in S
    BY <1>1
  <2>2. Len(SubSeq(s, k, Len(s))) = Len(s) - k + 1
    BY <2>1, SubSeqProperties
  <2>3. Len(SubSeq(s, k, Len(s))) # 0
    BY <2>1, <2>2
  <2>4. QED
    BY <2>3
<1>4. n = Len(s) => SubSeq(s, n + 1, Len(s)) = <<>>
  BY <1>1, SubSeqEmpty
<1>5. CASE n < Len(s)
  <2>1. n + 1 \in 1 .. Len(s) /\ Len(s) \in n + 1 .. Len(s)
    BY <1>1, <1>5
  <2>2. Head(SubSeq(s, n + 1, Len(s))) = s[n + 1]
    BY <2>1, HeadTailOfSubSeq
  <2>3. QED
    BY <1>2, <1>3, <1>5, <2>1, <2>2
<1>6. CASE n = Len(s)
  BY <1>2, <1>3, <1>4, <1>6
<1>7. QED
  BY <1>1, <1>5, <1>6

(* What is left after one more step: the next step, or nothing. *)
LEMMA Successor ==
  ASSUME NEW c \in Commands, NEW q, IsEnd(q, c)
  PROVE  /\ q # <<>>
         /\ Tail(q) # <<>> => IsEnd(Tail(q), c)
         /\ Head(q) = "rebuild" => Tail(q) # <<>> /\ Head(Tail(q)) = "recompute"
         /\ Head(q) = "stale" => Tail(q) = <<>>
<1> DEFINE s == Command[c]
<1>1. PICK n \in 1 .. Len(s) : q = SubSeq(s, n, Len(s))
  BY DEF IsEnd
<1>2. /\ s \in Seq(StepName) /\ Len(s) \in 2 .. 9
      /\ s[n] = "rebuild" => n < Len(s) /\ s[n + 1] = "recompute"
      /\ s[n] = "stale" => n = Len(s)
  BY CommandSteps
<1> HIDE DEF s
<1>3. /\ q # <<>> /\ Head(q) = s[n] /\ Tail(q) = SubSeq(s, n + 1, Len(s))
      /\ n = Len(s) => Tail(q) = <<>>
      /\ n < Len(s) => Tail(q) # <<>> /\ Head(Tail(q)) = s[n + 1]
  BY <1>1, <1>2, EndOf
<1>4. n # Len(s) => n + 1 \in 1 .. Len(s) /\ n < Len(s)
  BY <1>2
<1>5. Tail(q) # <<>> => IsEnd(Tail(q), c)
  BY <1>3, <1>4 DEF IsEnd, s
<1>6. QED
  BY <1>2, <1>3, <1>5

(* How a refresh comes to each of its later steps. *)
LEMMA RefreshSuccessor ==
  ASSUME NEW q, IsEnd(q, "refresh"), Tail(q) # <<>>
  PROVE  LET head == Head(q)
             next == Head(Tail(q))
         IN  /\ next = "trades" => head = "recompute"
             /\ next = "orphans" => head = "trades"
             /\ next = "stale" => head = "orphans"
             /\ next \in AfterRebuild => head \in {"rebuild"} \cup AfterRebuild
             /\ next \in {"rebuild"} \cup AfterRebuild =>
                  head \in {"hyperliquid_cash_flows", "rebuild"} \cup AfterRebuild
             /\ next \in AfterHyperliquidFills =>
                  head \in {"hyperliquid_fills"} \cup AfterHyperliquidFills
             /\ next \in AfterVariational =>
                  head \in {"variational_cash_flows"} \cup AfterVariational
             /\ head \in {"variational_fills", "variational_cash_flows"}
                            \cup AfterVariational
<1> DEFINE s == Command["refresh"]
<1>1. PICK n \in 1 .. Len(s) : q = SubSeq(s, n, Len(s))
  BY DEF IsEnd
<1>2. /\ s \in Seq(StepName) /\ Len(s) = 9
      /\ s[1] = "variational_fills" /\ s[2] = "variational_cash_flows"
      /\ s[3] = "hyperliquid_fills" /\ s[4] = "hyperliquid_cash_flows"
      /\ s[5] = "rebuild" /\ s[6] = "recompute"
      /\ s[7] = "trades" /\ s[8] = "orphans" /\ s[9] = "stale"
  BY RefreshSteps
<1> HIDE DEF s
<1>3. /\ Head(q) = s[n]
      /\ n = Len(s) => Tail(q) = <<>>
      /\ n < Len(s) => Head(Tail(q)) = s[n + 1]
  BY <1>1, <1>2, EndOf
<1>4. n \in {1, 2, 3, 4, 5, 6, 7, 8} /\ n < Len(s)
  BY <1>2, <1>3
<1>5. Head(q) = s[n] /\ Head(Tail(q)) = s[n + 1]
  BY <1>3, <1>4
<1> DEFINE head == Head(q)
           next == Head(Tail(q))
<1>6. /\ n = 1 => head = s[1] /\ next = s[2]
      /\ n = 2 => head = s[2] /\ next = s[3]
      /\ n = 3 => head = s[3] /\ next = s[4]
      /\ n = 4 => head = s[4] /\ next = s[5]
      /\ n = 5 => head = s[5] /\ next = s[6]
      /\ n = 6 => head = s[6] /\ next = s[7]
      /\ n = 7 => head = s[7] /\ next = s[8]
      /\ n = 8 => head = s[8] /\ next = s[9]
  BY <1>5
<1> HIDE DEF head, next
<1>7. \/ head = "variational_fills" /\ next = "variational_cash_flows"
      \/ head = "variational_cash_flows" /\ next = "hyperliquid_fills"
      \/ head = "hyperliquid_fills" /\ next = "hyperliquid_cash_flows"
      \/ head = "hyperliquid_cash_flows" /\ next = "rebuild"
      \/ head = "rebuild" /\ next = "recompute"
      \/ head = "recompute" /\ next = "trades"
      \/ head = "trades" /\ next = "orphans"
      \/ head = "orphans" /\ next = "stale"
  BY <1>2, <1>4, <1>6
<1>8. /\ next = "trades" => head = "recompute"
      /\ next = "orphans" => head = "trades"
      /\ next = "stale" => head = "orphans"
  BY <1>7
<1>9. /\ next \in AfterRebuild => head \in {"rebuild"} \cup AfterRebuild
      /\ next \in {"rebuild"} \cup AfterRebuild =>
           head \in {"hyperliquid_cash_flows", "rebuild"} \cup AfterRebuild
  BY <1>7 DEF AfterRebuild
<1>10. /\ next \in AfterHyperliquidFills =>
            head \in {"hyperliquid_fills"} \cup AfterHyperliquidFills
       /\ next \in AfterVariational =>
            head \in {"variational_cash_flows"} \cup AfterVariational
       /\ head \in {"variational_fills", "variational_cash_flows"}
                      \cup AfterVariational
  BY <1>7 DEF AfterVariational, AfterHyperliquidFills, AfterRebuild
<1>11. QED
  BY <1>8, <1>9, <1>10 DEF head, next

-------------------------------------------------------------------------------
(* The database *)

DBTyped == TypeOK /\ WellFormedLegs(legs)

(* The transactions keep the tables well typed. *)
LEMMA DBTyping ==
  ASSUME DBTyped,
         \/ \E F : StoreFills(F)
         \/ \E C \in FlowTable : StoreFlows(C)
         \/ Rebuild
         \/ Recompute
         \/ UNCHANGED vars
  PROVE  DBTyped'
<1>1. [Next]_vars
  BY DEF Next, StoreFills
<1>2. TypeOK'
  BY <1>1, Typing DEF DBTyped
<1>3. CASE Rebuild
  BY <1>2, <1>3, RebuiltLegs DEF DBTyped, TypeOK
<1>4. CASE legs' = legs
  BY <1>2, <1>4 DEF DBTyped, WellFormedLegs, InSuccession
<1>5. Rebuild \/ legs' = legs
  BY DEF StoreFills, StoreFlows, Recompute, vars
<1>6. QED
  BY <1>3, <1>4, <1>5

-------------------------------------------------------------------------------
(* Runs *)

(* A sync of some of the venue's rows leaves a table of cash flows. *)
LEMMA GrownFlows ==
  ASSUME flows \in FlowTable, venueFlows \in FlowTable, NEW S
  PROVE  flows \cup (venueFlows \cap S) \in FlowTable
<1>1. /\ flows \subseteq Flow /\ IsFiniteSet(flows)
      /\ venueFlows \subseteq Flow /\ IsFiniteSet(venueFlows)
  BY DEF FlowTable
<1>2. IsFiniteSet(venueFlows \cap S)
  BY <1>1, FS_Subset
<1>3. IsFiniteSet(flows \cup (venueFlows \cap S))
  BY <1>1, <1>2, FS_Union
<1>4. QED
  BY <1>1, <1>3 DEF FlowTable

(* What every step of a run does. *)
LEMMA StepFacts ==
  ASSUME NEW r \in Run, Step(r)
  PROVE  /\ Takes(r, Head(todo[r]))
         /\ \/ \E F : StoreFills(F)
            \/ \E S : StoreFlows(flows \cup (venueFlows \cap S))
            \/ Rebuild
            \/ Recompute
            \/ UNCHANGED vars
         /\ fills' \subseteq fills \cup venueFills
         /\ flows' \subseteq flows \cup venueFlows
         /\ DOMAIN seen' = DOMAIN seen /\ DOMAIN printed' = DOMAIN printed
         /\ DOMAIN began' = DOMAIN began
         /\ torn' \in {torn, FALSE}
<1>1. CASE SyncFills(r)
  <2>1. PICK stream : /\ Takes(r, stream)
                      /\ StoreFills(fills \cup (venueFills \cap StreamFill[stream]))
                      /\ UNCHANGED <<seen, printed, torn, began>>
    BY <1>1 DEF SyncFills
  <2>2. fills' \subseteq fills \cup venueFills /\ flows' = flows
    BY <2>1 DEF StoreFills
  <2>3. Takes(r, Head(todo[r])) /\ \E F : StoreFills(F)
    BY <2>1 DEF Takes
  <2>4. QED
    BY <2>1, <2>2, <2>3
<1>2. CASE SyncCashFlows(r)
  <2>1. PICK stream : /\ Takes(r, stream)
                      /\ StoreFlows(flows \cup (venueFlows \cap StreamFlow[stream]))
                      /\ UNCHANGED <<seen, printed, torn, began>>
    BY <1>2 DEF SyncCashFlows
  <2>2. flows' \subseteq flows \cup venueFlows /\ fills' = fills
    BY <2>1 DEF StoreFlows
  <2>3. /\ Takes(r, Head(todo[r]))
        /\ \E S : StoreFlows(flows \cup (venueFlows \cap S))
    BY <2>1 DEF Takes
  <2>4. QED
    BY <2>1, <2>2, <2>3
<1>3. CASE RebuildTables(r)
  BY <1>3 DEF RebuildTables, Takes, Rebuild
<1>4. CASE RecomputeTrades(r)
  BY <1>4 DEF RecomputeTrades, Takes, Recompute
<1>5. CASE ReadTrades(r)
  BY <1>5 DEF ReadTrades, Takes, vars
<1>6. CASE ReadOrphans(r)
  BY <1>6 DEF ReadOrphans, Takes, vars
<1>7. CASE ReadStaleAndPrint(r)
  BY <1>7 DEF ReadStaleAndPrint, Takes, vars
<1>8. QED
  BY <1>1, <1>2, <1>3, <1>4, <1>5, <1>6, <1>7 DEF Step

(* A command that begins is whole. *)
LEMMA WholeCommand ==
  ASSUME NEW c \in Commands
  PROVE  IsEnd(Command[c], c) /\ Command[c] # <<>>
<1>1. Command[c] \in Seq(StepName) /\ Len(Command[c]) \in 2 .. 9
  BY CommandSteps
<1>2. Command[c] = SubSeq(Command[c], 1, Len(Command[c]))
  BY <1>1, SubSeqFull
<1>3. 1 \in 1 .. Len(Command[c])
  <2>1. \A n \in 2 .. 9 : 1 \in 1 .. n
    OBVIOUS
  <2>2. QED
    BY <1>1, <2>1, Zenon
<1>4. IsEnd(Command[c], c)
  BY <1>2, <1>3 DEF IsEnd
<1>5. QED
  BY <1>4, Successor

(* The runs and the database stay well typed. *)
LEMMA PipelineTyping ==
  ASSUME PipelineTypeOK, WellFormedLegs(legs), [PipelineNext]_pipelineVars
  PROVE  PipelineTypeOK' /\ WellFormedLegs(legs)'
<1>1. DBTyped
  BY DEF DBTyped, PipelineTypeOK
<1>2. CASE Publish
  <2>1. DBTyped'
    BY <1>1, <1>2, DBTyping DEF Publish
  <2>2. /\ venueFills' \in DOMAIN LayoutOf /\ fills' \subseteq venueFills'
        /\ venueFlows' \in FlowTable /\ flows' \subseteq venueFlows'
    BY <1>2 DEF Publish, PipelineTypeOK, vars
  <2>3. UNCHANGED <<command, todo, seen, printed, torn, alone, began, aborts>>
    BY <1>2 DEF Publish, runVars
  <2>4. QED
    BY <2>1, <2>2, <2>3 DEF PipelineTypeOK, DBTyped, IsEnd
<1>3. ASSUME NEW r \in Run, NEW c \in Commands, Start(r, c)
      PROVE  PipelineTypeOK' /\ WellFormedLegs(legs)'
  <2>1. DBTyped' /\ UNCHANGED <<vars, venueVars>>
    BY <1>1, <1>3, DBTyping DEF Start
  <2>2. /\ DOMAIN todo' = Run /\ DOMAIN seen' = Run /\ DOMAIN printed' = Run
        /\ alone' \in [Run -> BOOLEAN]
        /\ command' \in [Run -> Commands \cup {None}]
        /\ torn' \in BOOLEAN /\ aborts' \in 0 .. MaxAborts
        /\ DOMAIN began' = Run
    BY <1>3 DEF Start, PipelineTypeOK
  <2>3. \A q \in Run : todo'[q] = <<>> \/ IsEnd(todo'[q], command'[q])
    <3>1. todo'[r] = Command[c] /\ command'[r] = c
      BY <1>3 DEF Start, PipelineTypeOK
    <3>2. \A q \in Run \ {r} : todo'[q] = todo[q] /\ command'[q] = command[q]
      BY <1>3 DEF Start, PipelineTypeOK
    <3>3. QED
      BY <3>1, <3>2, WholeCommand DEF PipelineTypeOK
  <2>4. /\ venueFills' \in DOMAIN LayoutOf /\ fills' \subseteq venueFills'
        /\ venueFlows' \in FlowTable /\ flows' \subseteq venueFlows'
    BY <2>1 DEF PipelineTypeOK, vars, venueVars
  <2>5. QED
    BY <2>1, <2>2, <2>3, <2>4 DEF PipelineTypeOK, DBTyped, IsEnd
<1>4. ASSUME NEW r \in Run, Step(r)
      PROVE  PipelineTypeOK' /\ WellFormedLegs(legs)'
  <2>1. /\ todo' = [todo EXCEPT ![r] = Tail(@)] /\ todo[r] # <<>>
        /\ UNCHANGED <<venueFills, venueFlows, command, alone, aborts>>
    BY <1>4, StepFacts DEF Takes, venueVars
  <2>2. \A S : flows \cup (venueFlows \cap S) \in FlowTable
    BY GrownFlows DEF PipelineTypeOK, TypeOK
  <2>3. DBTyped'
    BY <1>1, <1>4, <2>2, StepFacts, DBTyping
  <2>4. /\ fills' \subseteq venueFills' /\ flows' \subseteq venueFlows'
        /\ DOMAIN seen' = Run /\ DOMAIN printed' = Run /\ torn' \in BOOLEAN
        /\ DOMAIN began' = Run
    BY <1>4, <2>1, StepFacts DEF PipelineTypeOK
  <2>5. \A q \in Run : todo'[q] = <<>> \/ IsEnd(todo'[q], command'[q])
    <3>1. todo'[r] = Tail(todo[r]) /\ IsEnd(todo[r], command[r])
      BY <2>1 DEF PipelineTypeOK
    <3>2. command[r] \in Commands
      BY <3>1 DEF IsEnd
    <3>3. todo'[r] = <<>> \/ IsEnd(todo'[r], command[r])
      BY <3>1, <3>2, Successor
    <3>4. \A q \in Run \ {r} : todo'[q] = todo[q]
      BY <2>1 DEF PipelineTypeOK
    <3>5. QED
      BY <2>1, <3>3, <3>4 DEF PipelineTypeOK
  <2>6. QED
    BY <2>1, <2>3, <2>4, <2>5 DEF PipelineTypeOK, DBTyped, IsEnd
<1>5. ASSUME NEW r \in Run, Abort(r)
      PROVE  PipelineTypeOK' /\ WellFormedLegs(legs)'
  <2>1. DBTyped' /\ UNCHANGED <<vars, venueVars, command, printed, alone>>
    BY <1>1, <1>5, DBTyping DEF Abort
  <2>2. /\ DOMAIN todo' = Run /\ DOMAIN seen' = Run /\ DOMAIN began' = Run
        /\ todo'[r] = <<>> /\ \A q \in Run \ {r} : todo'[q] = todo[q]
    BY <1>5 DEF Abort, PipelineTypeOK
  <2>3. torn' \in BOOLEAN /\ aborts' \in 0 .. MaxAborts
    <3>1. torn' = (torn \/ Head(todo[r]) = "recompute") /\ aborts' = aborts + 1
          /\ aborts < MaxAborts
      BY <1>5 DEF Abort
    <3>2. torn' \in BOOLEAN
      BY <3>1, Zenon DEF PipelineTypeOK
    <3>3. aborts' \in 0 .. MaxAborts
      BY <3>1, PipelineAssumption DEF PipelineTypeOK
    <3>4. QED
      BY <3>2, <3>3
  <2>4. QED
    BY <2>1, <2>2, <2>3 DEF PipelineTypeOK, DBTyped, IsEnd, vars, venueVars
<1>6. CASE UNCHANGED pipelineVars
  <2>1. DBTyped' /\ UNCHANGED <<vars, venueVars, runVars, torn, alone, began, aborts>>
    BY <1>1, <1>6, DBTyping DEF pipelineVars
  <2>2. QED
    BY <2>1 DEF PipelineTypeOK, DBTyped, IsEnd, vars, venueVars, runVars
<1>7. \/ Publish
      \/ \E r \in Run : (\E c \in Commands : Start(r, c)) \/ Step(r) \/ Abort(r)
      \/ UNCHANGED pipelineVars
  BY DEF PipelineNext
<1>8. QED
  BY <1>2, <1>3, <1>4, <1>5, <1>6, <1>7, Zenon

(* A trade without figures keeps waiting for a run that will value it.     *)
LEMMA ValuedKept ==
  ASSUME PipelineTypeOK, ValuedWhenQuiet, [PipelineNext]_pipelineVars
  PROVE  ValuedWhenQuiet'
<1>1. SUFFICES ASSUME Unvalued', torn' = FALSE
               PROVE  \E q \in Run : todo'[q] # <<>> /\ Head(todo'[q]) = "recompute"
  <2>1. torn' \in BOOLEAN
    <3>1. torn \in BOOLEAN
      BY DEF PipelineTypeOK
    <3>2. QED
      BY <3>1, StepFacts DEF PipelineNext, Publish, Start, Abort, pipelineVars
  <2>2. QED
    BY <1>1, <2>1 DEF ValuedWhenQuiet
<1>2. ASSUME trades' = trades, torn = FALSE
      PROVE  \E q \in Run : todo[q] # <<>> /\ Head(todo[q]) = "recompute"
  BY <1>1, <1>2 DEF ValuedWhenQuiet, Unvalued
<1>3. CASE Publish
  BY <1>1, <1>2, <1>3 DEF Publish, vars, runVars
<1>4. ASSUME NEW r \in Run, NEW c \in Commands, Start(r, c)
      PROVE  \E q \in Run : todo'[q] # <<>> /\ Head(todo'[q]) = "recompute"
  <2>1. /\ todo[r] = <<>> /\ trades' = trades /\ torn' = torn
        /\ \A q \in Run \ {r} : todo'[q] = todo[q]
    BY <1>4 DEF Start, vars, PipelineTypeOK
  <2>2. QED
    BY <1>1, <1>2, <2>1
<1>5. ASSUME NEW r \in Run, Abort(r)
      PROVE  \E q \in Run : todo'[q] # <<>> /\ Head(todo'[q]) = "recompute"
  <2>1. /\ trades' = trades /\ torn = FALSE /\ Head(todo[r]) # "recompute"
        /\ \A q \in Run \ {r} : todo'[q] = todo[q]
    BY <1>1, <1>5 DEF Abort, vars, PipelineTypeOK
  <2>2. QED
    BY <1>2, <2>1
<1>6. ASSUME NEW r \in Run, Step(r)
      PROVE  \E q \in Run : todo'[q] # <<>> /\ Head(todo'[q]) = "recompute"
  <2>1. /\ todo[r] # <<>> /\ todo'[r] = Tail(todo[r])
        /\ \A q \in Run \ {r} : todo'[q] = todo[q]
    BY <1>6, StepFacts DEF Takes, PipelineTypeOK
  <2>2. CASE RebuildTables(r)
    <3>1. Head(todo[r]) = "rebuild" /\ IsEnd(todo[r], command[r])
      BY <2>1, <2>2 DEF RebuildTables, Takes, PipelineTypeOK
    <3>2. command[r] \in Commands
      BY <3>1 DEF IsEnd
    <3>3. QED
      BY <2>1, <3>1, <3>2, Successor
  <2>3. CASE RecomputeTrades(r)
    <3>1. \A t \in DOMAIN trades' : trades'[t].valued
      BY <2>3 DEF RecomputeTrades, Recompute, Valued
    <3>2. QED
      BY <1>1, <3>1 DEF Unvalued
  <2>4. CASE ~RebuildTables(r) /\ ~RecomputeTrades(r)
    <3>1. /\ trades' = trades /\ torn' = torn
          /\ Head(todo[r]) \notin {"rebuild", "recompute"}
      BY <1>6, <2>4 DEF Step, SyncFills, SyncCashFlows, ReadTrades, ReadOrphans,
         ReadStaleAndPrint, Takes, StoreFills, StoreFlows, StreamFill, StreamFlow, vars
    <3>2. QED
      BY <1>1, <1>2, <2>1, <3>1
  <2>5. QED
    BY <2>2, <2>3, <2>4
<1>7. CASE UNCHANGED pipelineVars
  BY <1>1, <1>2, <1>7 DEF pipelineVars, vars, runVars
<1>8. \/ Publish
      \/ \E r \in Run : (\E c \in Commands : Start(r, c)) \/ Step(r) \/ Abort(r)
      \/ UNCHANGED pipelineVars
  BY DEF PipelineNext
<1>9. QED
  BY <1>3, <1>4, <1>5, <1>6, <1>7, <1>8, Zenon

(* What a lone refresh has done stays done: no other run has steps to take. *)
LEMMA ProgressKept ==
  ASSUME PipelineInv, [PipelineNext]_pipelineVars
  PROVE  Progress' /\ RefreshIsCurrent'
<1>. USE DEF PipelineInv
<1>1. SUFFICES ASSUME NEW q \in Run
               PROVE  /\ alone'[q] => \A p \in Run \ {q} : todo'[p] = <<>>
                      /\ todo'[q] # <<>> => printed'[q] = None
                      /\ alone'[q] /\ command'[q] = "refresh" =>
                           /\ Before(q, AfterRebuild)' =>
                                legs' = LayoutOf[fills'].legs
                           /\ Before(q, {"trades", "orphans", "stale"})' => Settled'
                           /\ Before(q, {"orphans", "stale"})' =>
                                seen'[q].trades = trades'
                           /\ printed'[q] # None =>
                                /\ UpToDate'
                                /\ printed'[q].net = TotalNet(trades)'
                                /\ ~printed'[q].stale
  BY DEF Progress, RefreshIsCurrent
<1> DEFINE Goal ==
      /\ alone'[q] => \A p \in Run \ {q} : todo'[p] = <<>>
      /\ todo'[q] # <<>> => printed'[q] = None
      /\ alone'[q] /\ command'[q] = "refresh" =>
           /\ Before(q, AfterRebuild)' =>
                legs' = LayoutOf[fills'].legs
           /\ Before(q, {"trades", "orphans", "stale"})' => Settled'
           /\ Before(q, {"orphans", "stale"})' => seen'[q].trades = trades'
           /\ printed'[q] # None =>
                /\ UpToDate'
                /\ printed'[q].net = TotalNet(trades)'
                /\ ~printed'[q].stale
<1>2. ASSUME UNCHANGED vars
      PROVE  /\ UpToDate' = UpToDate /\ Settled' = Settled
             /\ TotalNet(trades)' = TotalNet(trades)
  <2>1. UNCHANGED <<fills, flows, legs, legOf, trades>>
    BY <1>2 DEF vars
  <2>2. Attribution' = Attribution
    BY <2>1 DEF Attribution, Candidates, Chosen, Matches, WindowEnd
  <2>3. \A t : ValueOf(t, legOf)' = ValueOf(t, legOf)
    BY <2>1 DEF ValueOf, Funding, FeeEvents, Trading, FillFees, FillsOf,
       FlowsOf, LegsOf, Realized, Gain, Entries, Exits
  <2>4. Settled' = Settled
    BY <2>1, <2>2, <2>3 DEF Settled
  <2>5. QED
    BY <2>1, <2>4 DEF UpToDate, TotalNet
<1>3. ASSUME UNCHANGED <<vars, printed, command, alone>>, todo'[q] = todo[q],
             seen'[q] = seen[q] \/ todo[q] = <<>>,
             \A p \in Run : todo'[p] = todo[p] \/ todo'[p] = <<>>
      PROVE  Goal
  BY <1>2, <1>3 DEF vars, Before, Progress, RefreshIsCurrent
<1>4. CASE Publish \/ UNCHANGED pipelineVars
  BY <1>3, <1>4 DEF Publish, pipelineVars, runVars
<1>5. ASSUME NEW r \in Run, NEW c \in Commands, Start(r, c)
      PROVE  Goal
  <2>1. CASE q = r
    <3>1. /\ todo'[q] = Command[c] /\ command'[q] = c /\ printed'[q] = None
          /\ alone'[q] = (\A p \in Run \ {q} : todo[p] = <<>>)
          /\ \A p \in Run \ {q} : todo'[p] = todo[p]
      BY <1>5, <2>1 DEF Start, PipelineTypeOK
    <3>2. c = "refresh" => Head(Command[c]) = "variational_fills"
      <4>1. /\ Command["refresh"] \in Seq(StepName)
            /\ Command["refresh"][1] = "variational_fills"
        BY RefreshSteps
      <4>2. QED
        BY <4>1
    <3>3. QED
      BY <3>1, <3>2 DEF Before, AfterRebuild
  <2>2. CASE q # r
    <3>1. /\ todo'[q] = todo[q] /\ printed'[q] = printed[q] /\ alone'[q] = FALSE
      BY <1>5, <2>2 DEF Start, PipelineTypeOK
    <3>2. QED
      BY <3>1 DEF Progress
  <2>3. QED
    BY <2>1, <2>2
<1>6. ASSUME NEW r \in Run, Abort(r)
      PROVE  Goal
  <2>1. /\ UNCHANGED <<vars, printed, command, alone>>
        /\ todo'[r] = <<>> /\ todo[r] # <<>>
        /\ \A p \in Run \ {r} : todo'[p] = todo[p] /\ seen'[p] = seen[p]
    BY <1>6 DEF Abort, PipelineTypeOK
  <2>2. CASE q = r
    <3>1. printed[q] = None /\ todo'[q] = <<>>
      BY <2>1, <2>2 DEF Progress
    <3>2. QED
      BY <2>1, <2>2, <3>1 DEF Before, Progress
  <2>3. CASE q # r
    BY <1>3, <2>1, <2>3
  <2>4. QED
    BY <2>2, <2>3
<1>7. ASSUME NEW r \in Run, Step(r), r # q
      PROVE  Goal
  <2>1. /\ todo[r] # <<>> /\ todo'[q] = todo[q]
        /\ alone' = alone /\ command' = command /\ printed'[q] = printed[q]
    BY <1>7, StepFacts DEF Takes, PipelineTypeOK, Step, SyncFills, SyncCashFlows,
       RebuildTables, RecomputeTrades, ReadTrades, ReadOrphans, ReadStaleAndPrint
  <2>2. alone[q] = FALSE
    BY <1>7, <2>1 DEF Progress, PipelineTypeOK
  <2>3. QED
    BY <2>1, <2>2 DEF Progress
<1>8. ASSUME Step(q)
      PROVE  Goal
  <2>1. /\ todo[q] # <<>> /\ todo'[q] = Tail(todo[q])
        /\ \A p \in Run \ {q} : todo'[p] = todo[p]
        /\ alone' = alone /\ command' = command
    BY <1>8, StepFacts DEF Takes, PipelineTypeOK
  <2>2. IsEnd(todo[q], command[q]) /\ command[q] \in Commands /\ printed[q] = None
    BY <2>1 DEF PipelineTypeOK, IsEnd, Progress
  <2>3. alone'[q] => \A p \in Run \ {q} : todo'[p] = <<>>
    BY <2>1 DEF Progress
  <2>4. ReadStaleAndPrint(q) \/ printed'[q] = None
    BY <1>8, <2>2 DEF Step, SyncFills, SyncCashFlows, RebuildTables,
       RecomputeTrades, ReadTrades, ReadOrphans
  <2>5. todo'[q] # <<>> => printed'[q] = None
    <3>1. ReadStaleAndPrint(q) => Head(todo[q]) = "stale"
      BY DEF ReadStaleAndPrint, Takes
    <3>2. QED
      BY <2>1, <2>2, <2>4, <3>1, Successor
  <2>6. ASSUME alone[q], command[q] = "refresh"
        PROVE  /\ Before(q, AfterRebuild)' =>
                    legs' = LayoutOf[fills'].legs
               /\ Before(q, {"trades", "orphans", "stale"})' => Settled'
               /\ Before(q, {"orphans", "stale"})' => seen'[q].trades = trades'
               /\ printed'[q] # None =>
                    /\ UpToDate'
                    /\ printed'[q].net = TotalNet(trades)'
                    /\ ~printed'[q].stale
    <3> DEFINE next == Head(Tail(todo[q]))
    <3>1. Tail(todo[q]) # <<>> =>
            /\ next \in AfterRebuild => Head(todo[q]) \in {"rebuild"} \cup AfterRebuild
            /\ next = "trades" => Head(todo[q]) = "recompute"
            /\ next = "orphans" => Head(todo[q]) = "trades"
            /\ next = "stale" => Head(todo[q]) = "orphans"
      BY <2>2, <2>6, RefreshSuccessor
    <3>2. CASE RebuildTables(q)
      <4>1. legs' = LayoutOf[fills].legs /\ fills' = fills /\ printed' = printed
        BY <3>2 DEF RebuildTables, Rebuild
      <4>2. Head(todo[q]) = "rebuild"
        BY <3>2 DEF RebuildTables, Takes
      <4>3. QED
        BY <2>1, <2>2, <3>1, <4>1, <4>2 DEF Before, AfterRebuild
    <3>3. CASE RecomputeTrades(q)
      <4>1. Head(todo[q]) = "recompute"
        BY <3>3 DEF RecomputeTrades, Takes
      <4>2. legs = LayoutOf[fills].legs
        BY <2>1, <2>6, <4>1 DEF Progress, Before, AfterRebuild
      <4>3. /\ legOf' = Attribution
            /\ trades' = [t \in DOMAIN trades |-> Valued(t, Attribution)]
            /\ UNCHANGED <<fills, flows, legs, printed>>
        BY <3>3 DEF RecomputeTrades, Recompute
      <4>4. Attribution' = Attribution
        BY <4>3 DEF Attribution, Candidates, Chosen, Matches, WindowEnd
      <4>5. ASSUME NEW t \in DOMAIN trades'
            PROVE  trades'[t].value = ValueOf(t, legOf)'
        <5>1. trades'[t].value = ValueOf(t, Attribution)
          BY <4>3, <4>5 DEF Valued
        <5>2. ValueOf(t, legOf)' = ValueOf(t, Attribution)
          BY <4>3 DEF ValueOf, Funding, FeeEvents, Trading, FillFees, FillsOf,
             FlowsOf, LegsOf, Realized, Gain, Entries, Exits
        <5>3. QED
          BY <5>1, <5>2
      <4>6. Settled'
        BY <4>3, <4>4, <4>5 DEF Settled
      <4>7. QED
        BY <2>1, <2>2, <3>1, <4>1, <4>2, <4>3, <4>6 DEF Before, AfterRebuild
    <3>4. CASE ReadTrades(q)
      <4>1. /\ Head(todo[q]) = "trades" /\ UNCHANGED <<vars, printed>>
            /\ seen'[q].trades = trades
        BY <3>4 DEF ReadTrades, Takes, PipelineTypeOK
      <4>2. legs = LayoutOf[fills].legs /\ Settled
        BY <2>1, <2>6, <4>1 DEF Progress, Before, AfterRebuild
      <4>3. QED
        BY <1>2, <2>1, <2>2, <3>1, <4>1, <4>2 DEF Before, AfterRebuild, vars
    <3>5. CASE ReadOrphans(q)
      <4>1. /\ Head(todo[q]) = "orphans" /\ UNCHANGED <<vars, printed>>
            /\ seen'[q].trades = seen[q].trades
        BY <3>5 DEF ReadOrphans, Takes, PipelineTypeOK
      <4>2. legs = LayoutOf[fills].legs /\ Settled /\ seen[q].trades = trades
        BY <2>1, <2>6, <4>1 DEF Progress, Before, AfterRebuild
      <4>3. QED
        BY <1>2, <2>1, <2>2, <3>1, <4>1, <4>2 DEF Before, AfterRebuild, vars
    <3>6. CASE ReadStaleAndPrint(q)
      <4>1. /\ Head(todo[q]) = "stale" /\ UNCHANGED vars
            /\ printed'[q].net = TotalNet(seen[q].trades)
            /\ printed'[q].stale = (Unassigned # {})
        BY <3>6 DEF ReadStaleAndPrint, Takes, PipelineTypeOK
      <4>2. legs = LayoutOf[fills].legs /\ Settled /\ seen[q].trades = trades
        BY <2>1, <2>6, <4>1 DEF Progress, Before, AfterRebuild
      <4>3. fills = UNION {LayoutOf[fills].legs[l].fills :
                             l \in DOMAIN LayoutOf[fills].legs}
        BY LayoutAssumption DEF LayoutsOK, Partitioned, PipelineTypeOK, TypeOK
      <4>4. Unassigned = {}
        BY <4>2, <4>3 DEF Unassigned
      <4>5. Tail(todo[q]) = <<>>
        BY <2>2, <4>1, Successor
      <4>6. UpToDate
        BY <4>2 DEF UpToDate
      <4>7. QED
        BY <1>2, <2>1, <4>1, <4>2, <4>4, <4>5, <4>6 DEF Before
    <3>7. CASE SyncFills(q) \/ SyncCashFlows(q)
      <4>1. /\ Head(todo[q]) \notin {"rebuild"} \cup AfterRebuild
            /\ printed' = printed
        BY <3>7 DEF SyncFills, SyncCashFlows, Takes, StreamFill, StreamFlow, AfterRebuild
      <4>2. QED
        BY <2>1, <2>2, <3>1, <4>1 DEF Before, AfterRebuild
    <3>8. QED
      BY <1>8, <3>2, <3>3, <3>4, <3>5, <3>6, <3>7 DEF Step
  <2>7. QED
    BY <2>1, <2>3, <2>5, <2>6
<1>9. \/ Publish
      \/ \E r \in Run : (\E c \in Commands : Start(r, c)) \/ Step(r) \/ Abort(r)
      \/ UNCHANGED pipelineVars
  BY DEF PipelineNext
<1>10. QED
  BY <1>4, <1>5, <1>6, <1>7, <1>8, <1>9

-------------------------------------------------------------------------------
(* What a refresh covers *)

(* What a step stores is told by its name. *)
LEMMA StreamStored ==
  ASSUME NEW r \in Run, Step(r)
  PROVE  /\ Head(todo[r]) = "variational_fills" =>
              fills' = fills \cup (venueFills \cap VariationalFill)
         /\ Head(todo[r]) = "hyperliquid_fills" =>
              fills' = fills \cup (venueFills \cap (Fill \ VariationalFill))
         /\ Head(todo[r]) = "variational_cash_flows" =>
              flows' = flows \cup (venueFlows \cap VariationalFlow)
         /\ Head(todo[r]) = "hyperliquid_cash_flows" =>
              flows' = flows \cup (venueFlows \cap (Flow \ VariationalFlow))
         /\ Head(todo[r]) = "rebuild" => Rebuild
<1>1. CASE SyncFills(r)
  BY <1>1 DEF SyncFills, Takes, StoreFills, StreamFill
<1>2. CASE SyncCashFlows(r)
  BY <1>2 DEF SyncCashFlows, Takes, StoreFlows, StreamFlow
<1>3. CASE RebuildTables(r)
  BY <1>3 DEF RebuildTables, Takes
<1>4. CASE RecomputeTrades(r)
  BY <1>4 DEF RecomputeTrades, Takes
<1>5. CASE ReadTrades(r) \/ ReadOrphans(r) \/ ReadStaleAndPrint(r)
  BY <1>5 DEF ReadTrades, ReadOrphans, ReadStaleAndPrint, Takes
<1>6. QED
  BY <1>1, <1>2, <1>3, <1>4, <1>5 DEF Step

(* Rows stay, and the fills in legs are those they were or all of them.    *)
LEMMA RowsStay ==
  ASSUME PipelineTypeOK, [PipelineNext]_pipelineVars
  PROVE  /\ fills \subseteq fills' /\ flows \subseteq flows'
         /\ venueFills \subseteq venueFills' /\ venueFlows \subseteq venueFlows'
         /\ Reconciled' \in {Reconciled, fills}
<1>1. ASSUME UNCHANGED vars, venueFills \subseteq venueFills',
             venueFlows \subseteq venueFlows'
      PROVE  /\ fills \subseteq fills' /\ flows \subseteq flows'
             /\ venueFills \subseteq venueFills' /\ venueFlows \subseteq venueFlows'
             /\ Reconciled' \in {Reconciled, fills}
  BY <1>1 DEF vars, Reconciled
<1>2. CASE Publish
  BY <1>1, <1>2 DEF Publish
<1>3. ASSUME NEW r \in Run,
             (\E c \in Commands : Start(r, c)) \/ Abort(r)
      PROVE  UNCHANGED vars /\ UNCHANGED venueVars
  BY <1>3 DEF Start, Abort
<1>4. ASSUME NEW r \in Run, Step(r)
      PROVE  /\ fills \subseteq fills' /\ flows \subseteq flows'
             /\ UNCHANGED venueVars
             /\ Reconciled' \in {Reconciled, fills}
  <2>1. UNCHANGED venueVars
    BY <1>4, StepFacts DEF Takes
  <2>2. CASE Rebuild
    <3>1. fills \in DOMAIN LayoutOf
      BY DEF PipelineTypeOK, TypeOK
    <3>2. Reconciled' = fills
      BY <2>2, <3>1, RebuildReconciles
    <3>3. QED
      BY <2>1, <2>2, <3>2 DEF Rebuild
  <2>3. ASSUME legs' = legs, fills \subseteq fills', flows \subseteq flows'
        PROVE  Reconciled' = Reconciled
    BY <2>3 DEF Reconciled
  <2>4. ASSUME ~Rebuild
        PROVE  legs' = legs /\ fills \subseteq fills' /\ flows \subseteq flows'
    BY <1>4, <2>4, StepFacts DEF StoreFills, StoreFlows, Recompute, vars
  <2>5. QED
    BY <2>1, <2>2, <2>3, <2>4
<1>5. CASE UNCHANGED pipelineVars
  BY <1>1, <1>5 DEF pipelineVars, venueVars
<1>6. \/ Publish
      \/ \E r \in Run : (\E c \in Commands : Start(r, c)) \/ Step(r) \/ Abort(r)
      \/ UNCHANGED pipelineVars
  BY DEF PipelineNext
<1>7. QED
  BY <1>1, <1>2, <1>3, <1>4, <1>5, <1>6 DEF venueVars

(* What a refresh has stored of its beginning stays stored and gets legs.  *)
LEMMA CoverageKept ==
  ASSUME PipelineInv, [PipelineNext]_pipelineVars
  PROVE  Coverage'
<1>. USE DEF PipelineInv
<1> SUFFICES ASSUME NEW q \in Run
             PROVE  /\ began'[q].fills \subseteq venueFills'
                    /\ began'[q].flows \subseteq venueFlows'
                    /\ command'[q] = "refresh" =>
                         /\ Before(q, {"variational_cash_flows"} \cup AfterVariational)' =>
                              began'[q].fills \cap VariationalFill \subseteq fills'
                         /\ Before(q, AfterVariational)' =>
                              began'[q].flows \cap VariationalFlow \subseteq flows'
                         /\ Before(q, AfterHyperliquidFills)' =>
                              began'[q].fills \subseteq fills'
                         /\ Before(q, {"rebuild"} \cup AfterRebuild)' =>
                              began'[q].flows \subseteq flows'
                         /\ Before(q, AfterRebuild)' =>
                              began'[q].fills \subseteq Reconciled'
  BY DEF Coverage
<1> DEFINE Goal ==
      /\ began'[q].fills \subseteq venueFills'
      /\ began'[q].flows \subseteq venueFlows'
      /\ command'[q] = "refresh" =>
           /\ Before(q, {"variational_cash_flows"} \cup AfterVariational)' =>
                began'[q].fills \cap VariationalFill \subseteq fills'
           /\ Before(q, AfterVariational)' =>
                began'[q].flows \cap VariationalFlow \subseteq flows'
           /\ Before(q, AfterHyperliquidFills)' => began'[q].fills \subseteq fills'
           /\ Before(q, {"rebuild"} \cup AfterRebuild)' => began'[q].flows \subseteq flows'
           /\ Before(q, AfterRebuild)' => began'[q].fills \subseteq Reconciled'
<1> DEFINE has == began[q]
<1>1. /\ has.fills \subseteq venueFills /\ has.flows \subseteq venueFlows
      /\ command[q] = "refresh" =>
           /\ Before(q, {"variational_cash_flows"} \cup AfterVariational) =>
                has.fills \cap VariationalFill \subseteq fills
           /\ Before(q, AfterVariational) => has.flows \cap VariationalFlow \subseteq flows
           /\ Before(q, AfterHyperliquidFills) => has.fills \subseteq fills
           /\ Before(q, {"rebuild"} \cup AfterRebuild) => has.flows \subseteq flows
           /\ Before(q, AfterRebuild) => has.fills \subseteq Reconciled
  BY DEF Coverage
<1>2. /\ fills \subseteq fills' /\ flows \subseteq flows'
      /\ venueFills \subseteq venueFills' /\ venueFlows \subseteq venueFlows'
      /\ Reconciled' \in {Reconciled, fills}
  BY RowsStay
<1>3. Before(q, AfterRebuild) => Before(q, AfterHyperliquidFills)
  BY DEF Before, AfterHyperliquidFills
<1>4. ASSUME began'[q] = began[q], command'[q] = command[q], todo'[q] = todo[q]
      PROVE  Goal
  <2>1. \A names : Before(q, names)' = Before(q, names)
    BY <1>4 DEF Before
  <2>2. Before(q, AfterRebuild) /\ command[q] = "refresh" => has.fills \subseteq Reconciled'
    BY <1>1, <1>2, <1>3
  <2>3. QED
    BY <1>1, <1>2, <1>4, <2>1, <2>2
<1>5. CASE Publish \/ UNCHANGED pipelineVars
  BY <1>4, <1>5 DEF Publish, pipelineVars, runVars
<1>6. ASSUME NEW r \in Run, NEW c \in Commands, Start(r, c)
      PROVE  Goal
  <2>1. CASE q = r
    <3>1. /\ todo'[q] = Command[c] /\ command'[q] = c
          /\ venueFills' = venueFills /\ venueFlows' = venueFlows
          /\ began'[q] = IF c = "refresh"
                           THEN [fills |-> venueFills, flows |-> venueFlows] ELSE NoRows
      BY <1>6, <2>1 DEF Start, PipelineTypeOK, venueVars
    <3>2. began'[q].fills \subseteq venueFills' /\ began'[q].flows \subseteq venueFlows'
      BY <3>1 DEF NoRows
    <3>3. c = "refresh" => Head(Command[c]) = "variational_fills"
      <4>1. /\ Command["refresh"] \in Seq(StepName)
            /\ Command["refresh"][1] = "variational_fills"
        BY RefreshSteps
      <4>2. QED
        BY <4>1
    <3>4. QED
      BY <3>1, <3>2, <3>3
         DEF Before, AfterVariational, AfterHyperliquidFills, AfterRebuild
  <2>2. CASE q # r
    BY <1>4, <1>6, <2>2 DEF Start, PipelineTypeOK
  <2>3. QED
    BY <2>1, <2>2
<1>7. ASSUME NEW r \in Run, Abort(r)
      PROVE  Goal
  <2>1. CASE q = r
    <3>1. todo'[q] = <<>> /\ began'[q] = NoRows
      BY <1>7, <2>1 DEF Abort, PipelineTypeOK
    <3>2. QED
      BY <3>1 DEF NoRows, Before
  <2>2. CASE q # r
    BY <1>4, <1>7, <2>2 DEF Abort, PipelineTypeOK
  <2>3. QED
    BY <2>1, <2>2
<1>8. ASSUME NEW r \in Run, Step(r)
      PROVE  /\ todo[r] # <<>> /\ todo'[r] = Tail(todo[r]) /\ command' = command
             /\ \A p \in Run \ {r} : todo'[p] = todo[p] /\ began'[p] = began[p]
             /\ began'[r] \in {began[r], NoRows}
  <2>1. /\ todo[r] # <<>> /\ todo'[r] = Tail(todo[r]) /\ command' = command
        /\ \A p \in Run \ {r} : todo'[p] = todo[p]
    BY <1>8, StepFacts DEF Takes, PipelineTypeOK
  <2>2. \/ began' = began
        \/ began' = [began EXCEPT ![r] = NoRows]
    BY <1>8 DEF Step, SyncFills, SyncCashFlows, RebuildTables, RecomputeTrades,
       ReadTrades, ReadOrphans, ReadStaleAndPrint
  <2>3. QED
    BY <2>1, <2>2 DEF PipelineTypeOK
<1>9. ASSUME NEW r \in Run, Step(r), r # q
      PROVE  Goal
  BY <1>4, <1>8, <1>9
<1>10. ASSUME Step(q)
       PROVE  Goal
  <2>1. /\ todo[q] # <<>> /\ todo'[q] = Tail(todo[q]) /\ command' = command
        /\ began'[q] \in {has, NoRows}
    BY <1>8, <1>10
  <2>2. IsEnd(todo[q], command[q])
    BY <2>1 DEF PipelineTypeOK
  <2>3. CASE began'[q] = NoRows
    BY <2>3 DEF NoRows
  <2>4. ASSUME began'[q] = has, command[q] = "refresh", Tail(todo[q]) # <<>>
        PROVE  Goal
    <3> DEFINE head == Head(todo[q])
               next == Head(Tail(todo[q]))
    <3>1. /\ next \in AfterRebuild => head \in {"rebuild"} \cup AfterRebuild
          /\ next \in {"rebuild"} \cup AfterRebuild =>
               head \in {"hyperliquid_cash_flows", "rebuild"} \cup AfterRebuild
          /\ next \in AfterHyperliquidFills =>
               head \in {"hyperliquid_fills"} \cup AfterHyperliquidFills
          /\ next \in AfterVariational =>
               head \in {"variational_cash_flows"} \cup AfterVariational
          /\ head \in {"variational_fills", "variational_cash_flows"}
                         \cup AfterVariational
      BY <2>2, <2>4, RefreshSuccessor
    <3>2. \A names : (Before(q, names) <=> head \in names)
                     /\ (Before(q, names)' <=> next \in names)
      BY <2>1, <2>4 DEF Before
    <3>3. /\ head = "variational_fills" =>
               fills' = fills \cup (venueFills \cap VariationalFill)
          /\ head = "hyperliquid_fills" =>
               fills' = fills \cup (venueFills \cap (Fill \ VariationalFill))
          /\ head = "variational_cash_flows" =>
               flows' = flows \cup (venueFlows \cap VariationalFlow)
          /\ head = "hyperliquid_cash_flows" =>
               flows' = flows \cup (venueFlows \cap (Flow \ VariationalFlow))
          /\ head = "rebuild" => Rebuild
      BY <1>10, StreamStored
    <3>4. /\ venueFills \subseteq Fill /\ venueFlows \subseteq Flow
          /\ fills \in DOMAIN LayoutOf
      BY ValuationAssumption DEF PipelineTypeOK, TypeOK, FlowTable, RowsOK
    <3>5. /\ head \in {"hyperliquid_fills"} \cup AfterHyperliquidFills =>
               head \in {"variational_cash_flows"} \cup AfterVariational
          /\ head \in {"hyperliquid_cash_flows"} \cup AfterHyperliquidFills =>
               head \in AfterVariational
          /\ head \in {"rebuild"} \cup AfterRebuild => head \in AfterHyperliquidFills
      BY DEF AfterVariational, AfterHyperliquidFills
    <3> HIDE DEF head, next, has
    <3>6. /\ has.fills \subseteq venueFills' /\ has.flows \subseteq venueFlows'
      BY <1>1, <1>2
    <3>7. ASSUME next \in {"variational_cash_flows"} \cup AfterVariational
          PROVE  has.fills \cap VariationalFill \subseteq fills'
      <4>1. CASE head = "variational_fills"
        BY <1>1, <3>3, <4>1
      <4>2. CASE head # "variational_fills"
        BY <1>1, <1>2, <2>4, <3>1, <3>2, <4>2
      <4>3. QED
        BY <4>1, <4>2
    <3>8. ASSUME next \in AfterVariational
          PROVE  has.flows \cap VariationalFlow \subseteq flows'
      <4>1. CASE head = "variational_cash_flows"
        BY <1>1, <3>3, <4>1
      <4>2. CASE head # "variational_cash_flows"
        BY <1>1, <1>2, <2>4, <3>1, <3>2, <3>8, <4>2
      <4>3. QED
        BY <4>1, <4>2
    <3>9. ASSUME next \in AfterHyperliquidFills
          PROVE  has.fills \subseteq fills'
      <4>1. CASE head = "hyperliquid_fills"
        <5>1. has.fills \cap VariationalFill \subseteq fills
          BY <1>1, <2>4, <3>2, <3>5, <4>1
        <5>2. QED
          BY <1>1, <1>2, <3>3, <3>4, <4>1, <5>1
      <4>2. CASE head # "hyperliquid_fills"
        BY <1>1, <1>2, <2>4, <3>1, <3>2, <3>9, <4>2
      <4>3. QED
        BY <4>1, <4>2
    <3>10. ASSUME next \in {"rebuild"} \cup AfterRebuild
           PROVE  has.flows \subseteq flows'
      <4>1. CASE head = "hyperliquid_cash_flows"
        <5>1. has.flows \cap VariationalFlow \subseteq flows
          BY <1>1, <2>4, <3>2, <3>5, <4>1
        <5>2. QED
          BY <1>1, <1>2, <3>3, <3>4, <4>1, <5>1
      <4>2. CASE head # "hyperliquid_cash_flows"
        BY <1>1, <1>2, <2>4, <3>1, <3>2, <3>10, <4>2
      <4>3. QED
        BY <4>1, <4>2
    <3>11. ASSUME next \in AfterRebuild
           PROVE  has.fills \subseteq Reconciled'
      <4>1. head \in {"rebuild"} \cup AfterRebuild /\ has.fills \subseteq fills
        BY <1>1, <2>4, <3>1, <3>2, <3>5, <3>11
      <4>2. CASE head = "rebuild"
        <5>1. Reconciled' = fills
          BY <3>3, <3>4, <4>2, RebuildReconciles
        <5>2. QED
          BY <4>1, <5>1
      <4>3. CASE head # "rebuild"
        <5>1. has.fills \subseteq Reconciled
          BY <1>1, <2>4, <3>2, <4>1, <4>3
        <5>2. QED
          BY <1>2, <4>1, <5>1
      <4>4. QED
        BY <4>2, <4>3
    <3>12. QED
      BY <2>4, <3>2, <3>6, <3>7, <3>8, <3>9, <3>10, <3>11
  <2>5. ASSUME began'[q] = has, ~(command[q] = "refresh" /\ Tail(todo[q]) # <<>>)
        PROVE  Goal
    BY <1>1, <1>2, <2>1, <2>5 DEF Before
  <2>6. QED
    BY <2>1, <2>3, <2>4, <2>5
<1>11. \/ Publish
       \/ \E r \in Run : (\E c \in Commands : Start(r, c)) \/ Step(r) \/ Abort(r)
       \/ UNCHANGED pipelineVars
  BY DEF PipelineNext
<1>12. QED
  BY <1>5, <1>6, <1>7, <1>9, <1>10, <1>11

(***************************************************************************)
(* The invariant is inductive, however runs overlap and wherever they die. *)
(***************************************************************************)
THEOREM PipelineInvariance == PipelineSpec => []PipelineInv
<1>1. PipelineInit => PipelineInv
  <2> SUFFICES ASSUME PipelineInit PROVE PipelineInv
    OBVIOUS
  <2>1. TypeOK /\ WellFormedLegs(legs)
    BY LayoutAssumption, FS_EmptySet DEF PipelineInit, Init, TypeOK,
       WellFormedLegs, InSuccession, LayoutsOK, FlowTable
  <2>2. PipelineTypeOK
    <3>1. fills = {} /\ flows = {} /\ {} \in DOMAIN LayoutOf /\ {} \in FlowTable
      BY LayoutAssumption, FS_EmptySet DEF PipelineInit, Init, LayoutsOK, FlowTable
    <3>2. /\ venueFills \in DOMAIN LayoutOf /\ fills \subseteq venueFills
          /\ venueFlows \in FlowTable /\ flows \subseteq venueFlows
      BY <3>1 DEF PipelineInit
    <3>3. /\ command \in [Run -> Commands \cup {None}]
          /\ DOMAIN todo = Run /\ DOMAIN seen = Run /\ DOMAIN printed = Run
          /\ \A r \in Run : todo[r] = <<>>
      BY DEF PipelineInit
    <3>4. torn \in BOOLEAN /\ alone \in [Run -> BOOLEAN] /\ DOMAIN began = Run
      BY DEF PipelineInit
    <3>5. aborts \in 0 .. MaxAborts
      BY PipelineAssumption DEF PipelineInit
    <3>6. QED
      BY <2>1, <3>2, <3>3, <3>4, <3>5 DEF PipelineTypeOK
  <2>3. ValuedWhenQuiet
    BY DEF PipelineInit, Init, ValuedWhenQuiet, Unvalued
  <2>4. Progress /\ RefreshIsCurrent /\ Coverage
    BY DEF PipelineInit, Progress, RefreshIsCurrent, Coverage, Before, NoRows
  <2>5. QED
    BY <2>1, <2>2, <2>3, <2>4 DEF PipelineInv
<1>2. PipelineInv /\ [PipelineNext]_pipelineVars => PipelineInv'
  BY PipelineTyping, ValuedKept, ProgressKept, CoverageKept DEF PipelineInv
<1>3. QED
  BY <1>1, <1>2, PTL DEF PipelineSpec

(* The database and the runs stay well typed, and what a run has left to   *)
(* do is always the end of the command it was given.                       *)
THEOREM PipelineTypes == PipelineSpec => []PipelineTypeOK
<1>1. PipelineInv => PipelineTypeOK
  BY DEF PipelineInv
<1>2. QED
  BY <1>1, PipelineInvariance, PTL

(***************************************************************************)
(* A trade without figures waits for a run that still has its valuation to *)
(* do, unless a run died right there (cli.py:255-267).                     *)
(***************************************************************************)
THEOREM NoValuationLost == PipelineSpec => []ValuedWhenQuiet
<1>1. PipelineInv => ValuedWhenQuiet
  BY DEF PipelineInv
<1>2. QED
  BY <1>1, PipelineInvariance, PTL

(***************************************************************************)
(* What a `refresh` prints, when no other run is about, is the net of all  *)
(* it has stored and needs no warning (cli.py:271-289, 321-359).           *)
(***************************************************************************)
THEOREM LoneRefreshIsCurrent == PipelineSpec => []RefreshIsCurrent
<1>1. PipelineInv => RefreshIsCurrent
  BY DEF PipelineInv
<1>2. QED
  BY <1>1, PipelineInvariance, PTL

(***************************************************************************)
(* However runs overlap, from a refresh's own rebuild until it has printed *)
(* every fill that the venues had when it began is in a leg and every cash *)
(* flow is stored (_sync_into, _rebuild_into; cli.py:191-235, 255-309).    *)
(***************************************************************************)
THEOREM RefreshesCoverTheirStart == PipelineSpec => []RefreshCoversItsStart
<1>1. PipelineInv => RefreshCoversItsStart
  BY DEF PipelineInv, Coverage, RefreshCoversItsStart, Before
<1>2. QED
  BY <1>1, PipelineInvariance, PTL

-------------------------------------------------------------------------------
(* The database of the commands *)

(* A step of a run is one transaction of Valuation, or a read. *)
LEMMA StepRefines ==
  ASSUME PipelineTypeOK, NEW r \in Run, Step(r)
  PROVE  Next \/ UNCHANGED vars
<1>1. CASE \E F : StoreFills(F)
  BY <1>1 DEF StoreFills, Next
<1>2. CASE \E S : StoreFlows(flows \cup (venueFlows \cap S))
  <2>1. \A S : flows \cup (venueFlows \cap S) \in FlowTable
    BY GrownFlows DEF PipelineTypeOK, TypeOK
  <2>2. QED
    BY <1>2, <2>1 DEF Next
<1>3. CASE Rebuild \/ Recompute \/ UNCHANGED vars
  BY <1>3 DEF Next
<1>4. QED
  BY <1>1, <1>2, <1>3, StepFacts

(***************************************************************************)
(* By the definitions of the commands' steps, every run of them is a run   *)
(* of Valuation, so what is proved of Valuation holds of the database the  *)
(* commands share.                                                         *)
(***************************************************************************)
THEOREM PipelineRefinement == PipelineSpec => ValuationSpec
<1>1. PipelineInit => Init
  BY DEF PipelineInit
<1>2. PipelineTypeOK /\ [PipelineNext]_pipelineVars => [Next]_vars
  <2> SUFFICES ASSUME PipelineTypeOK, [PipelineNext]_pipelineVars
               PROVE  Next \/ UNCHANGED vars
    BY DEF vars
  <2>1. CASE Publish
    BY <2>1 DEF Publish
  <2>2. ASSUME NEW r \in Run, NEW c \in Commands, Start(r, c)
        PROVE  UNCHANGED vars
    BY <2>2 DEF Start
  <2>3. ASSUME NEW r \in Run, Step(r)
        PROVE  Next \/ UNCHANGED vars
    BY <2>3, StepRefines
  <2>4. ASSUME NEW r \in Run, Abort(r)
        PROVE  UNCHANGED vars
    BY <2>4 DEF Abort
  <2>5. CASE UNCHANGED pipelineVars
    BY <2>5 DEF pipelineVars
  <2>6. QED
    BY <2>1, <2>2, <2>3, <2>4, <2>5 DEF PipelineNext
<1>3. QED
  BY <1>1, <1>2, PipelineTypes, PTL DEF PipelineSpec, ValuationSpec, Spec
===============================================================================
