---------------------------- MODULE JournalPipeline ----------------------------
(***************************************************************************)
(* tradejournal/cli.py: runs of the commands sync, rebuild, refresh and    *)
(* report share one database, the one of Valuation.  A sync commits each   *)
(* of its streams at once, as IdempotentIngest says: the fills and then    *)
(* the cash flows of Variational, then those of Hyperliquid.  A rebuild    *)
(* and the valuation that follows it are two transactions, and every read  *)
(* of a report is a statement of its own, so other runs, and death, can    *)
(* come in between.                                                        *)
(***************************************************************************)
EXTENDS Valuation

CONSTANTS
  Run,             \* processes
  Commands,        \* the commands the owner uses, fields of Command
  VariationalFill, \* the fills of Variational; the others are Hyperliquid's
  VariationalFlow, \* the cash flows of Variational
  MaxAborts        \* bound: how many runs die or fail in one behaviour

(* Mutant: the rebuilt trades are not valued. *)
RebuildStepsOnly == <<"rebuild">>

(* Mutant: the trades are valued before they are rebuilt. *)
RebuildStepsSwapped == <<"recompute", "rebuild">>

(* The rows of each stream. *)
StreamFill ==
  [variational_fills |-> VariationalFill,
   hyperliquid_fills |-> Fill \ VariationalFill]
StreamFlow ==
  [variational_cash_flows |-> VariationalFlow,
   hyperliquid_cash_flows |-> Flow \ VariationalFlow]

(* A command is the sequence of its steps. *)
VariationalSync == <<"variational_fills", "variational_cash_flows">>
HyperliquidSync == <<"hyperliquid_fills", "hyperliquid_cash_flows">>
Sync == VariationalSync \o HyperliquidSync
RebuildSteps == <<"rebuild", "recompute">>
ReportSteps == <<"trades", "orphans", "stale">>
Command ==
  [sync             |-> Sync,
   sync_variational |-> VariationalSync,
   sync_hyperliquid |-> HyperliquidSync,
   rebuild          |-> RebuildSteps,
   refresh          |-> Sync \o RebuildSteps \o ReportSteps,
   refresh_silent   |-> Sync \o RebuildSteps,
   report           |-> ReportSteps]

VARIABLES
  venueFills, venueFlows,  \* what the venues can be asked for
  command,    \* the command each run was last given, None before the first
  todo,       \* the steps each run still has to take
  seen,       \* what the report under way has read
  printed,    \* the report a run's command has printed, or None
  torn,       \* history: a run died between its rebuild and its valuation
  alone,      \* history: no other command was given since a run's last one
  began,      \* history: what the venues had when a run's refresh began
  aborts      \* how many runs have failed so far

venueVars == <<venueFills, venueFlows>>
runVars == <<command, todo, seen, printed>>
pipelineVars == <<vars, venueVars, runVars, torn, alone, began, aborts>>

ASSUME PipelineAssumption ==
  /\ Commands \subseteq DOMAIN Command
  /\ MaxAborts \in Nat
  /\ None \notin Commands

(* What one venue has can be stored before what the other has. *)
ASSUME StreamAssumption ==
  \A F, G \in DOMAIN LayoutOf, stream \in DOMAIN StreamFill :
    F \subseteq G => F \cup (G \cap StreamFill[stream]) \in DOMAIN LayoutOf

NoRows == [fills |-> {}, flows |-> {}]
Nothing == [trades |-> <<>>, orphans |-> FALSE]

PipelineInit ==
  /\ Init
  /\ venueFills = {}
  /\ venueFlows = {}
  /\ command = [r \in Run |-> None]
  /\ todo = [r \in Run |-> <<>>]
  /\ seen = [r \in Run |-> Nothing]
  /\ printed = [r \in Run |-> None]
  /\ torn = FALSE
  /\ alone = [r \in Run |-> FALSE]
  /\ began = [r \in Run |-> NoRows]
  /\ aborts = 0

-------------------------------------------------------------------------------
(* The venues: histories only grow. *)

Publish ==
  /\ \E F \in DOMAIN LayoutOf : venueFills \subseteq F /\ venueFills' = F
  /\ \E C \in FlowTable : venueFlows \subseteq C /\ venueFlows' = C
  /\ UNCHANGED <<vars, runVars, torn, alone, began, aborts>>

-------------------------------------------------------------------------------
(* A run *)

Start(r, c) ==
  /\ todo[r] = <<>>
  /\ command' = [command EXCEPT ![r] = c]
  /\ todo' = [todo EXCEPT ![r] = Command[c]]
  /\ printed' = [printed EXCEPT ![r] = None]
  /\ alone' = [q \in Run |-> q = r /\ \A p \in Run \ {r} : todo[p] = <<>>]
  /\ began' = [began EXCEPT ![r] =
       IF c = "refresh" THEN [fills |-> venueFills, flows |-> venueFlows] ELSE NoRows]
  /\ UNCHANGED <<vars, venueVars, seen, torn, aborts>>

(* Mutant: a step that is done is queued again. *)
TakesAgain(r, name) ==
  /\ todo[r] # <<>>
  /\ Head(todo[r]) = name
  /\ todo' = [todo EXCEPT ![r] = Append(Tail(@), name)]
  /\ UNCHANGED <<venueVars, command, alone, aborts>>

(* Run r takes the step `name`, the next one of its command. *)
Takes(r, name) ==
  /\ todo[r] # <<>>
  /\ Head(todo[r]) = name
  /\ todo' = [todo EXCEPT ![r] = Tail(@)]
  /\ UNCHANGED <<venueVars, command, alone, aborts>>

(* Mutant: a run leaves its fills to another one that is about to sync. *)
SyncFillsUnlessBusy(r) ==
  \E stream \in DOMAIN StreamFill :
    /\ Takes(r, stream)
    /\ IF \E q \in Run \ {r} : todo[q] # <<>> /\ Head(todo[q]) = stream
         THEN UNCHANGED vars
         ELSE StoreFills(fills \cup (venueFills \cap StreamFill[stream]))
    /\ UNCHANGED <<seen, printed, torn, began>>

SyncFills(r) ==
  \E stream \in DOMAIN StreamFill :
    /\ Takes(r, stream)
    /\ StoreFills(fills \cup (venueFills \cap StreamFill[stream]))
    /\ UNCHANGED <<seen, printed, torn, began>>

SyncCashFlows(r) ==
  \E stream \in DOMAIN StreamFlow :
    /\ Takes(r, stream)
    /\ StoreFlows(flows \cup (venueFlows \cap StreamFlow[stream]))
    /\ UNCHANGED <<seen, printed, torn, began>>

RebuildTables(r) ==
  /\ Takes(r, "rebuild")
  /\ Rebuild
  /\ UNCHANGED <<seen, printed, torn, began>>

RecomputeTrades(r) ==
  /\ Takes(r, "recompute")
  /\ Recompute
  /\ torn' = FALSE
  /\ UNCHANGED <<seen, printed, began>>

ReadTrades(r) ==
  /\ Takes(r, "trades")
  /\ seen' = [seen EXCEPT ![r] = [trades |-> trades, orphans |-> FALSE]]
  /\ UNCHANGED <<vars, printed, torn, began>>

(* Funding that no leg holds is what NOT INCLUDED ABOVE is about. *)
ReadOrphans(r) ==
  /\ Takes(r, "orphans")
  /\ seen' = [seen EXCEPT ![r] =
       [trades  |-> @.trades,
        orphans |-> \E c \in flows : legOf[c] = None /\ FlowOf[c].type = "funding"]]
  /\ UNCHANGED <<vars, printed, torn, began>>

(* _total: a field that was never computed adds nothing. *)
TotalNet(rows) ==
  Total([t \in DOMAIN rows |->
             IF rows[t].valued THEN rows[t].value.net ELSE 0],
          DOMAIN rows)

Unassigned == fills \ UNION {legs[l].fills : l \in DOMAIN legs}

(* The last read, OUT OF DATE, and the figures of the trades read before. *)
ReadStaleAndPrint(r) ==
  /\ Takes(r, "stale")
  /\ printed' = [printed EXCEPT ![r] =
       [figures |-> seen[r].trades # <<>>,
        net     |-> TotalNet(seen[r].trades),
        stale   |-> Unassigned # {},
        orphans |-> seen[r].orphans]]
  /\ seen' = [seen EXCEPT ![r] = Nothing]
  /\ began' = [began EXCEPT ![r] = NoRows]
  /\ UNCHANGED <<vars, torn>>

(***************************************************************************)
(* The run ends early: a sync fails or answers with an error code, the     *)
(* database is locked for too long, or the process dies.                   *)
(***************************************************************************)
Abort(r) ==
  /\ todo[r] # <<>>
  /\ aborts < MaxAborts
  /\ aborts' = aborts + 1
  /\ torn' = (torn \/ Head(todo[r]) = "recompute")
  /\ todo' = [todo EXCEPT ![r] = <<>>]
  /\ seen' = [seen EXCEPT ![r] = Nothing]
  /\ began' = [began EXCEPT ![r] = NoRows]
  /\ UNCHANGED <<vars, venueVars, command, printed, alone>>

-------------------------------------------------------------------------------
Step(r) ==
  \/ SyncFills(r)
  \/ SyncCashFlows(r)
  \/ RebuildTables(r)
  \/ RecomputeTrades(r)
  \/ ReadTrades(r)
  \/ ReadOrphans(r)
  \/ ReadStaleAndPrint(r)

PipelineNext ==
  \/ Publish
  \/ \E r \in Run :
       (\E c \in Commands : Start(r, c)) \/ Step(r) \/ Abort(r)

PipelineSpec == PipelineInit /\ [][PipelineNext]_pipelineVars

(***************************************************************************)
(* A run that is not killed goes on, and the owner uses `refresh` again    *)
(* and again, whatever other commands come in between.                     *)
(***************************************************************************)
FairSpec ==
  /\ PipelineSpec
  /\ \A r \in Run : WF_pipelineVars(Step(r)) /\ SF_pipelineVars(Start(r, "refresh"))

-------------------------------------------------------------------------------
(* Properties *)

(* What a run has left to do is the end of its command. *)
IsEnd(q, c) ==
  /\ c \in Commands
  /\ \E n \in 1 .. Len(Command[c]) : q = SubSeq(Command[c], n, Len(Command[c]))

PipelineTypeOK ==
  /\ TypeOK
  /\ venueFills \in DOMAIN LayoutOf /\ fills \subseteq venueFills
  /\ venueFlows \in FlowTable /\ flows \subseteq venueFlows
  /\ command \in [Run -> Commands \cup {None}]
  /\ DOMAIN todo = Run /\ DOMAIN seen = Run /\ DOMAIN printed = Run
  /\ \A r \in Run : todo[r] = <<>> \/ IsEnd(todo[r], command[r])
  /\ torn \in BOOLEAN
  /\ alone \in [Run -> BOOLEAN]
  /\ DOMAIN began = Run
  /\ aborts \in 0 .. MaxAborts

Unvalued == \E t \in DOMAIN trades : ~trades[t].valued

(***************************************************************************)
(* However commands overlap, a trade without figures is waiting for a run  *)
(* that still has its valuation to do, unless a run died right there: no   *)
(* order of two rebuilds loses the valuation (cli.py:255-267).             *)
(***************************************************************************)
ValuedWhenQuiet ==
  Unvalued =>
    torn \/ \E r \in Run : todo[r] # <<>> /\ Head(todo[r]) = "recompute"

(* The derived tables are what the stored rows make them. *)
Settled ==
  /\ legOf = Attribution
  /\ \A t \in DOMAIN trades : trades[t].value = ValueOf(t, legOf)

UpToDate == legs = LayoutOf[fills].legs /\ Settled

(***************************************************************************)
(* What a `refresh` prints, when no other run is about, is the net of      *)
(* everything it has stored, and it needs no OUT OF DATE (cli.py:284-289). *)
(***************************************************************************)
RefreshIsCurrent ==
  \A r \in Run : alone[r] /\ printed[r] # None /\ command[r] = "refresh" =>
    UpToDate /\ printed[r].net = TotalNet(trades) /\ ~printed[r].stale

(***************************************************************************)
(* Whatever fails on the way, the journal comes to hold all that the       *)
(* venues have, with figures that are those of the rows it holds.          *)
(***************************************************************************)
EventuallyCurrent ==
  []<>(fills = venueFills /\ flows = venueFlows /\ UpToDate)

(***************************************************************************)
(* "The reader can tell which they have" (cli.py:333-335): figures printed *)
(* without a warning are those of the rows the journal holds.              *)
(***************************************************************************)
UnwarnedFiguresAreCurrent ==
  \A r \in Run : printed[r] # None =>
    (printed[r].figures /\ ~printed[r].stale /\ ~printed[r].orphans => UpToDate)

Before(r, names) == todo[r] # <<>> /\ Head(todo[r]) \in names

AfterRebuild == {"recompute", "trades", "orphans", "stale"}

(***************************************************************************)
(* "Syncing without rebuilding leaves the derived tables stale" is what    *)
(* `refresh` is there to exclude (cli.py:284-288).  Whatever other runs    *)
(* sync, rebuild and value meanwhile, from a refresh's own rebuild until   *)
(* it has printed, every fill that a venue had when it began is in a leg,  *)
(* and every cash flow is stored: a trade it reads was made of them.       *)
(***************************************************************************)
RefreshCoversItsStart ==
  \A r \in Run : command[r] = "refresh" /\ Before(r, AfterRebuild) =>
    began[r].fills \subseteq Reconciled /\ began[r].flows \subseteq flows

(* Every run of the commands is a run of Valuation, by their definitions. *)
ValuationSpec == Spec

-------------------------------------------------------------------------------
(* The inductive invariant: what a refresh has stored of its beginning,    *)
(* and that a lone one finds what it did itself.                           *)

AfterHyperliquidFills == {"hyperliquid_cash_flows", "rebuild"} \cup AfterRebuild
AfterVariational == {"hyperliquid_fills"} \cup AfterHyperliquidFills

Coverage ==
  \A r \in Run :
    /\ began[r].fills \subseteq venueFills /\ began[r].flows \subseteq venueFlows
    /\ command[r] = "refresh" =>
         /\ Before(r, {"variational_cash_flows"} \cup AfterVariational) =>
              began[r].fills \cap VariationalFill \subseteq fills
         /\ Before(r, AfterVariational) =>
              began[r].flows \cap VariationalFlow \subseteq flows
         /\ Before(r, AfterHyperliquidFills) => began[r].fills \subseteq fills
         /\ Before(r, {"rebuild"} \cup AfterRebuild) => began[r].flows \subseteq flows
         /\ Before(r, AfterRebuild) => began[r].fills \subseteq Reconciled

Progress ==
  \A r \in Run :
    /\ alone[r] => \A p \in Run \ {r} : todo[p] = <<>>
    /\ todo[r] # <<>> => printed[r] = None
    /\ alone[r] /\ command[r] = "refresh" =>
         /\ Before(r, AfterRebuild) => legs = LayoutOf[fills].legs
         /\ Before(r, {"trades", "orphans", "stale"}) => Settled
         /\ Before(r, {"orphans", "stale"}) => seen[r].trades = trades

PipelineInv ==
  /\ PipelineTypeOK
  /\ WellFormedLegs(legs)
  /\ ValuedWhenQuiet
  /\ Coverage
  /\ Progress
  /\ RefreshIsCurrent
===============================================================================
