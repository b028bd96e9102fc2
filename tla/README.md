# A verification of trading-journal

Trading-journal is a command-line program that imports a trader's fills and
cash flows from two venues (Hyperliquid over its HTTP API, Variational from CSV
exports), rebuilds from them the delta-neutral hedges ("trades") the trader
held, and says what each of them earned. Everything is kept in one SQLite file.
This directory holds TLA+ models of that program, TLC runs over small instances
of them, and TLAPS proofs for every value of the constants. `PROJECT.json` lists
the runs, the code lines each definition stands for, and one deliberate bug per
checked property that makes TLC report it violated.

## 1. Inventory

| Part | Source | State it keeps | Operations | Modules |
|---|---|---|---|---|
| Synchronisation service | `services/sync.py`, `db/connection.py` (`transaction`), `db/repository.py` (inserts, `sync_state`) | tables `fills`, `cash_flows`, `sync_state` | `sync_fills`, `sync_cash_flows` | `IdempotentIngest`, `SyncService` |
| Leg reconstruction | `services/reconciliation.py` 148-275 | `_LegDraft`, running position | `_reconstruct_market` | `MarketReplay`, `ReplayReference` |
| Trade pairing and rebuild | `services/reconciliation.py` 278-474 | tables `legs`, `trades`, the column `fills.leg_id` | `rebuild`, `_pair`, `_create_trade`, the `unpaired_leg` report | `TradePairing`, `Rebuild` |
| Symbols | `exchanges/symbols.py` | none | `to_canonical`, the two normalisations, `base_asset` | `Symbols` |
| Attribution and valuation | `services/pnl.py` | `cash_flows.leg_id`, the money fields and the review reasons of `trades` | `recompute` | `Valuation` |
| Command pipeline | `cli.py` | none of its own; the order of the transactions | `sync`, `rebuild`, `refresh`, `report` | `JournalPipeline` |
| Hyperliquid adapter, fills and funding | `exchanges/hyperliquid.py` 262-663 | `start_ms`, ids seen, page and attempt counters of one fetch | `fetch_fills`, `fetch_cash_flows`, `_post` | `HyperliquidFills`, `HyperliquidSync` |
| Schema migrations | `db/connection.py` 195-266, `db/migrations/` | `schema_migrations`, the tables themselves | `apply_migrations` | `Migrations` |
| Variational adapter | `exchanges/variational.py` | the rows kept per id and `skipped_events` of one fetch (files are read anew each time) | `fetch_fills`, `fetch_cash_flows` | `VariationalImport` |
| Normalized events, venue contract, records | `exchanges/normalized.py`, `base.py`, `domain/` | none | parsing of a cell, record types | the entries, rows and record types of the modules above |
| Hyperliquid adapter, positions | `exchanges/hyperliquid.py` | none | one request per dex, no caller | not modelled |
| Configuration, logging, argument parsing, output | `config.py`, `logging_setup.py`, `cli.py` | none | read once, print | not modelled |

How they interact. A command opens the database, which applies pending
migrations, and then runs its steps in order. `sync` asks an adapter for all
events at or after a stored cursor and stores the answer, with the new cursor,
in one transaction per stream. `rebuild` wipes `legs` and `trades` and makes
them again from *all* fills (replay, then pairing) in one transaction; a second
transaction attributes cash flows to legs and values the trades. `refresh` is
`sync`, `rebuild` and `report` in one process. There are no threads and no
callbacks. Several processes may share the file (a scheduled `refresh` and one
the owner types): SQLite's write lock orders their transactions, and between any
two statements that are not in one transaction another process, or death, can
come in.

What is hard here, and which properties are for it (the full list, line by
line, is under `hazards` in `PROJECT.json`):

* *A cursor read before the fetch and outside the transaction* - nothing may be
  lost or stored twice, whoever moved the cursor meanwhile (`NothingLost`,
  `NoDuplicates`).
* *Late, repeated, refused and contradictory rows* in overlapping exports
  (`FirstRowStays`, `NothingSilentlyDropped`, `EventuallyImported`,
  `CursorPassesNothing`).
* *Page boundaries* inside one millisecond, while the venue publishes
  (`FetchIsSnapshot`, `StallMeansCrowded`), and what is read and never stored,
  which must neither move a cursor nor hide what comes after it (`IngestSpec`,
  `EventuallyIngested`).
* *Flips, partial exits and instants that two legs share* in the replay and in the
  valuation (`MatchesReference`, `ImbalanceIsFlagged`,
  `SharedInstantGoesToClosingLeg`, `ClosedTradeEarnsItsCash`).
* *One loop over all markets, and names that nearly agree* (`ReplaySpec`,
  `OpenLegsAreHoldings`, `LegsAreOfOneMarket`, `TradesHaveSymbols`).
* *Greedy pairing* (`TradesAreHedges`, `NoHedgeLeftBehind`, `BestFreeCounterpart`).
* *Derived data that outlives what it was derived from*, between two commands
  or two processes (`AttributionSound`, `ValuesMatchAttribution`,
  `ReviewIsExplained`, `RefreshIsCurrent`, `RefreshCoversItsStart`, `ValuedWhenQuiet`).
* *Death between two transactions*, and re-running (`EventuallyCurrent`,
  `EventuallyStored`, `EventuallyMigrated`, `WholeOrNotAtAll`).

## 2. The modules

How they fit together:

```
   IdempotentIngest  <--implements--  SyncService      (several processes, any adapter)
                     <--implements--  HyperliquidSync  (EXTENDS HyperliquidFills: the
                                                        adapter, page by page)
   Valuation         <--in the steps of--  JournalPipeline  (EXTENDS Valuation)
      ^ LayoutOf: the legs and trades a rebuild makes of a set of fills,
        as the theorem LayoutsAreSound says of Rebuild
   MarketReplay      <--implements--  Rebuild          (EXTENDS TradePairing, Symbols;
      ^ equal to ReplayReference                        INSTANCE MarketReplay)
   Migrations: what every command does first
   VariationalImport: the CSV adapter with the sync that stores its rows, one process
   SumTheorems: the laws of sums over finite sets that the proofs share
```

The order of importance: ingest, replay, pairing and the rebuild that composes
them, valuation, the pipeline of commands, then the adapters and the migrations.
`X Proofs` modules extend `X` and hold its theorems (`JournalPipelineProofs` also
those of `Valuation`, which it extends); `MC X` modules extend `X`
with the values of its constants for TLC. Operators named "Mutant" in their
comments are plausible bugs; no specification uses them.

**IdempotentIngest** - the promise of a sync: a batch of one stream is stored at
once and the stream's cursor goes to the batch's newest event, never past
something still owed on an ordered stream.

**SyncService** - processes (`Run`) that each sync the streams of a plan. `rows`
and `cursor` are the committed database, `work` the rows as the transaction with
the write lock sees them. One action per statement group: `ReadCursor`
(`get_sync_state`, outside the transaction), `Fetch` (the adapter's answer),
`InsertRow` (an idempotent insert, which takes the lock when it is the first
write), `RefuseRow` (a cash flow without an id), `Commit` (`upsert_sync_state`
when anything was handled, then COMMIT), `Abort` (any exception or death, with
rollback). A cursor is the event whose timestamp and id the row of
`sync_state` holds. `Fetch` takes one answer of an adapter as a
snapshot: for Hyperliquid, whose answers come in pages or cut off,
`HyperliquidSync` shows the same promise kept without that assumption. A
batch is handled in any order, more freely than the sorted lists of the code.
A stream is `Ordered` when no row can surface after a younger one was served.
That is an assumption on the venue; it is made for Hyperliquid's streams and
not for Variational's, whose imports `VariationalImport` follows line by line.

**MarketReplay** - the loop over one market's fills: `Close`, `Flip` and `Grow` are
the three branches after a fill is absorbed. A leg draft keeps the indices of
its fills, its entry, exit and peak sizes and `flip_affected`. Quantities are
whole lots (the code's Decimal arithmetic is exact). The price-weighted sums are
added in the same statements as the sizes and are left out.

**ReplayReference** defines the legs of a history from the whole history at once,
after the module documentation of `reconciliation.py`: the position after `k`
fills is a sum, the fills at which it is zero or crosses zero end a leg
(`Ends`), leg `i` has the fills before which `i - 1` legs have ended, and a leg's
times, sizes and peak (`ExpectedLeg`) follow from them and from the crossing fill
that may have left it its remainder.

**TradePairing** - `Pair`, `PassOver` (the two outcomes of the loop body) and `Report`
over an arbitrary table of legs, visited in order of `(opened_at, id)`; two open
legs overlap until `FarFuture`. It does not assume that the table comes from a
replay. `Trade` keeps what `_create_trade` decides: status, closing time, symbol,
and whether flips, unequal peaks or an equal overlap of two candidates ask for a
review.

**Symbols** - `to_canonical` and the two venues' normalisation, and what
`split_canonical` gives back. A venue's name is the sequence of its words
between colons; the patterns are sets of words, `upper()` and the stripping of a
suffix are functions on words.

**Rebuild** - `rebuild()` as a whole. `table` holds the executions as the venues
reported them, in order of ingestion, so a row's id is its place. `Replay` takes
the next row (`ORDER BY venue, symbol, timestamp, id`; which symbol comes first
is left open) into the loop of `MarketReplay`; `Store` ends a market: its legs
are inserted and their fills assigned; `PairLegs` is `TradePairing`'s walk over
the legs that came about; `Again` wipes the derived tables, as the next call
does. All of it is one transaction, so nothing of another process comes between.
`LayoutIsSound` says what valuation takes for granted of the result; it is a
theorem, and TLC found it true on the instance of the run `rebuild`.

**Valuation** - the database as `recompute` meets it: `StoreFills` and `StoreFlows`
(what any syncs may have committed, finitely many rows), `Rebuild`, `Recompute`.
What a rebuild makes of the fills is the constant `LayoutOf`. `LayoutAssumption`
asks of it what `LayoutsAreSound` proves of `rebuild()`: a market's legs are in
succession (`WellFormedLegs`), every fill is in one leg (`Partitioned`), and a closed
leg of a trade that is not flagged bought what it sold (`Balanced`). `Gain` computes
the matched quantity's profit as (exit notional * entry quantity - entry notional *
exit quantity) * matched `\div` (entry quantity * exit quantity), which is the
difference of the two averages times the matched quantity on one denominator. Where
a closed leg balances that division is exact, whatever the prices; elsewhere the
model rounds down where the code keeps 28 digits, and the instance has prices
that divide. Sizes, prices and fees have any sign, as the Hyperliquid adapter takes
them; a fee is negative when the account paid and positive when it was paid. The
reasons an open trade adds are counted none, once, repeatedly. The
column `slippage` is always NULL in the code and is left out.

**JournalPipeline** - commands as sequences of steps (`Command`), a step being one
transaction or one statement of a report, taken by several processes. A sync of a
stream is atomic here, which is what `SyncService` was shown to implement; each
of the four streams is its own step, Variational's fills and cash flows first and
then Hyperliquid's, as `_sync_into` commits them. `torn`, `alone` and `began` are
history variables: a run died right before its valuation; no other command was
given since this one began; what the venues had when a refresh began.

**HyperliquidFills** - one fetch, page by page: `LastPage`, `Stall`, `NextPage`,
`TooManyPages`, and `Retry` and `Fail` of `_post`. The venue fills an answer with the
oldest it has (`IsAnswer`). The docstring of `fetch_fills` says the loop does
not depend on that order; a page of the newest ones would end the fetch with
older ones unread, so the assumption is needed and is stated as external.

**HyperliquidSync** - `sync hyperliquid`, again and again: `StartRun` begins the
fetch at the stored cursor, `FetchFills` is that fetch, `StoreFills` its
transaction; `SyncFunding` is the one request for funding with the transaction
that follows. An event has an entry in `Raw`, which says whether its market has a
symbol, its side or type, and whether its numbers parse; what does not is read
and skipped (`Unparsed`). An answer about funding may be cut off at `Cap` oldest
events: the code does not page, and the next sync goes on from the cursor.
`RequestFails` ends a run in either stage.

**Migrations** - `apply_migrations` of several processes: `Start` reads the list of
what is pending, `Begin`, `Create`/`AlreadyExists`, `CommitScript` are
`executescript`, `Record` the second transaction. `Fail` is any failure; a script
that fails leaves its transaction open and `Close` ends it. The repository has one
file so far; the model takes any number, as the code does. What
`executescript` does on a connection that has failed before and is used again
(it would commit the open transaction) is in `Begin`, but no command uses its
connection again, so no behaviour reaches it with something pending.

**VariationalImport** - exports are dropped into the two folders at any time, also
between two lines read. A sync runs a fetch of `trades`, stores it, then one of
`transfers`, as `SyncService.sync` does; an exception ends the run, so one
wrong trades file keeps transfers out, too. Line 0 of a file is its header. `Keep`,
`Repeat` and `Refuse` are the three ends of the loop body; `IsFill` and `IsCashFlow` are
`_to_fill` and `_to_cash_flow` with every refusal. A cell is what the parsers of
`normalized.py` make of it, with `None` for a refusal; `text` stands for the rest of the
row as it is spelled, because `_first_occurrence` compares the rows of an id as
text: the same amount written in two ways is a conflict. Amounts, which go on
unchanged or with a sign, are not followed further. Time has a finer unit than
the millisecond of the cursor (`Ms`), as the exports have. One process only: what
several do to one cursor is `SyncService`'s subject.

## 3. The runs

| Run | Instance and bounds | What it shows |
|---|---|---|
| `sync` | 2 processes, 2 streams; 3 ordered events, two in one millisecond, and one refused row; 1 failure anywhere | type correctness, `NoDuplicates`, `NothingLost`, `EventuallyStored`; refines `IdempotentIngest` |
| `replay` | all histories of up to 5 fills, sizes -1 to 2, two instants | imbalance flagged, and equality with the reference |
| `rebuild` | 2 Hyperliquid markets and 1 Variational market of one asset, a round in each and a second one on Variational, windows in 0..2 that touch, overlap or stay open, later rows ingested first; and all tables of 4 fills over 6 names (letter case, suffix, namespace, no symbol), sizes 0-2 with flips | each market replayed by itself and in order, hedges only, none left behind, best counterpart, an open leg is a position |
| `pairing_silent` | 2 hedges of equal size over two markets, from fills on | violation: `WrongPairingIsLoud` |
| `valuation` | 8 fills in 25 layouts (partial exit, close and re-open in one millisecond, flip, a leg closed by a size below zero), a rebate, 5 flows on the boundaries | attribution and figures sound at any moment; a closed trade earns its cash but for rebates; a review flag is explained by this rebuild or by an open leg |
| `pipeline` | 2 processes, `sync` of both venues or of Variational, `rebuild`, `refresh`, a fill of each venue, 1 flow, 1 death | valuation never lost, a refresh covers what the venues had when it began, a lone one prints what it stored, current again and again |
| `pipeline_unwarned` | 1 process | violation: `UnwarnedFiguresAreCurrent` |
| `hyperliquid_sync` | 5 fills, 2 in one millisecond, 1 spot, 1 without an id, pages of 2, 3 pages, 1 retry; 4 funding events, 1 of another type, answers of 2; 1 failed run | a fetch is a snapshot, refusals are justified, both streams refine `IdempotentIngest`, all is stored in the end unless the venue's answers are full of what does not move the cursor |
| `variational` | 6 exports (overlap, a dispute, pending and refused rows, a wrong header), 3 ids, 1 failure | the first acceptable row is stored and stays, all others are on record, imported in the end unless behind the cursor |
| `variational_late` | the same, no failure | violation: `CursorPassesNothing` |
| `migrations` | 3 processes, 2 files of 2 statements, 2 failures | whole or not at all, in order; migrated in the end unless torn |
| `migrations_torn` | 2 processes, 1 failure | violation: `RerunningIsSafe` |

Why the bounds are enough. Two processes are all that a race over one cursor,
one lock or one pair of tables needs, and the third in `migrations` can arrive
while the other two are between the script and its record. A page boundary
inside a millisecond needs three fills and pages of two; three pages use up
`MaxPages`; the unreadable fill makes a full page that takes `start` nowhere.
The spot fill and the one without an id make full answers that move no cursor.
Five fills hold a flip-born leg that flips again and a leg that closes and
re-opens at one instant. Two longs and two shorts hold a leg that loses its best
counterpart to an earlier one, and three markets are enough for a position that
is carried over to the next. For the safety properties of section 5 the bounds do not matter
in the end.

`MaxAborts`, `MaxFailures`, `MaxFills` bound what would otherwise be unbounded.
`MaxPages`, `MaxRetries`, `Limit` and `Cap` are limits of the code or of the
venue, made smaller. Deadlock is not checked in `replay`, where the system really
stops at the end of a history (`MaxFills`).

Fairness. A process that is not killed takes its next step (`WF` of a run's
steps): the code waits for nothing but SQLite's lock, which every holder gives
back, by commit, rollback or death. The owner runs the program again (`WF` of
`Start`; in `pipeline` `SF`, because another command can always come first):
without that nothing is promised. Failures are bounded, since a
run that fails every time stores nothing. Nothing makes a venue publish. Each
request of a fetch has a timeout, so that `Step` of `HyperliquidSync`, with its
answers and retries, is weakly fair.

The replay, the pairing and the valuation each finish in one call with nothing to
wait for, and have no liveness property.

## 4. What the runs found

Four disagreements between the code and what it says of itself, each a run that
must be violated:

1. *A late row is behind the cursor for good* (`variational_late`). The cursor is the
   newest timestamp stored; a Variational row that was pending in the first
   export, or an older export dropped in later, is filtered out of every later
   sync. README.md:108 promises the opposite.
2. *A wrong pairing can be silent* (`pairing_silent`). Two hedges of equal size
   in two Hyperliquid markets of one base asset and the one Variational market
   can be paired crosswise with nothing flagged; reconciliation.py:59-61 says
   such a pairing is loud.
3. *Stale figures without a warning* (`pipeline_unwarned`). A fee event synced after
   the last rebuild changes its trade's net, and neither warning of the report
   looks at it; cli.py:333-335 says the reader can tell.
4. *A run that dies between a migration and its record blocks the database*
   (`migrations_torn`). Every later run meets "table trades already exists";
   connection.py:240-242 says that re-running is safe.

A fifth is a disagreement between two parts of the code, so no run is violated by it:
*a rebate counts as a cost*. The Hyperliquid adapter turns the venue's fee into an
amount from the account's perspective, negative for a cost and positive for a
maker's rebate (hyperliquid.py:16-30 and 466-474; normalized.py, models.py and the
test `test_maker_rebate_becomes_positive_income` say the same). The valuation
sums absolute values (pnl.py:293 and 306), which is what its own documentation
says (pnl.py:47). So a trade's net is below what the account earned by twice its
rebates. `ClosedTradeEarnsItsCash` states that amount: it compares the net with
the cash, the funding and the fees *by their signs*, and passes because the
difference is exactly `2 * Rebates`. The instance has a rebate.

Seen on the way and not in a run: nothing refuses a Hyperliquid fill of size zero or
below (hyperliquid.py:493-497), and selling 2 and then selling -2 closes a leg that is
balanced and not flagged, which pnl.py:149-151 values at nothing although cash
moved, so `ClosedTradeEarnsItsCash` speaks of trades without such fills; each valuation of an open trade appends its
"still open" reason, so two overlapping rebuilds (rebuild, rebuild, recompute,
recompute) leave it twice, with the same figures; of two overlapping syncs the slower may
commit an older cursor over a newer one, which costs a repeated fetch and loses
nothing; trades left without figures by a death
between rebuild and recompute are added up as zero by the report (cli.py:449)
until the next rebuild; a leg that is open and partly exited does contribute
its matched part to a trade's trading PnL (pnl.py:149), where pnl.py:44 reads as
if open legs did not; a flow at an instant where a leg closes and the
next opens is ambiguous without any flip, too.

## 5. What is proved

For every number of processes, streams, events, fills, legs, pages, files and
statements, from the `ASSUME` of each module only:

| Module | Theorems | Say | Argument |
|---|---|---|---|
| `SyncServiceProofs` | `Types`, `StoredOnce`, `CursorsBacked`, `Lossless` | `TypeOK`, `NoDuplicates`, `CursorBacked`, `NothingLost` always | `Invariance` |
| | `Refinement` | `Spec => IngestSpec` | `Commit` maps to `Ingest`, `Publish` to `Publish`, all else stutters |
| `MarketReplayProofs` | `ReplaySafety`, `ReplayTypes` | `OpenLegMatchesPosition`, `FillsPartitioned`, `WindowsDisjoint`, `TypeOK` always, sizes of zero and below included | `ReplayInvariance` |
| | `LegsAreTheReference` | `MatchesReference` always: the loop's legs are `ExpectedLeg` of the history | `ReferenceInvariance`; a draft that `Describes` its leg is equal to it |
| | `FlagsAreTrue` | `ImbalanceIsFlagged` always | the lemma `Imbalance` over `ReplayInvariance` |
| `RebuildProofs` | `RebuildReplays`, `RebuildPairs` | a rebuild is a run of `MarketReplay`, one market after the other, and then of `TradePairing` | step by step, over `StageInv` |
| | `HedgesOnly`, `NoneLeftBehind`, `BestTaken` | `TradesAreHedges`, `NoHedgeLeftBehind`, `BestFreeCounterpart` always | `PairingInvariance`, carried over by `RebuildPairs` |
| | `HoldingsMatch` | `OpenLegsAreHoldings` always | `TakenInv` and `MarketInv` of `RebuildInvariance` |
| | `LayoutsAreSound` | `LayoutIsSound` always | `LayoutInv` of `RebuildInvariance`, with `ClosedLegsAreEven` of the replay |
| | `RebuildTypes`, `MarketsApart`, `SymbolsOfTrades`, `SizesOfTrades` | `RebuildTypeOK`, `LegsAreOfOneMarket`, `TradesHaveSymbols`, `TradedLegsHaveSize` always | `RebuildInvariance` |
| `JournalPipelineProofs` | `ValuationTypes`, `LinksAreSound`, `SharedInstants`, `FiguresMatch`, `ReviewExplained` | `TypeOK`, `AttributionSound`, `SharedInstantGoesToClosingLeg`, `ValuesMatchAttribution`, `ReviewIsExplained` always | `ValuationInvariance` |
| | `EarnsItsCash` | `ClosedTradeEarnsItsCash` always | each leg earns its cash (`LegEarnsItsCash`), then `SumOfSums` over the legs of a trade; `AbsoluteSum`: a sum of sizes is twice the credits less the sum by sign |
| | `PipelineTypes`, `NoValuationLost`, `LoneRefreshIsCurrent`, `RefreshesCoverTheirStart` | `PipelineTypeOK`, `ValuedWhenQuiet`, `RefreshIsCurrent`, `RefreshCoversItsStart` always | `PipelineInvariance` |
| `HyperliquidProofs` | `SnapshotTheorem`, `StallTheorem` | `FetchIsSnapshot`, `StallMeansCrowded` for a fetch | `FillsInvariance` |
| | `SyncFetches`, `SyncSnapshot`, `SyncStall` | the fetch inside a sync is such a fetch, so both hold there | each step is one of `HyperliquidFills` or a stutter |
| | `SyncTypes`, `SyncIngests` | `SyncTypeOK`; `SyncSpec => IngestSpec` | `SyncInvariance` |
| `VariationalImportProofs` | `ImportTypes`, `FirstRowKept`, `NoRowLost`, `StoredStays` | `TypeOK`, `KeepsFirst`, `NothingSilentlyDropped` always; `FirstRowStays` | `ImportInvariance`; at the end of a fetch `KeepsFirst` says which row is stored (`KeptIsFirst`) |
| `SumTheorems` | `SumTake`, `SumDisjoint`, `SumOfSums`, `SumImage` and others | what `SumFunctionOnSet` of a finite set is, part by part and under other names | a solution of its recursive equation is built by the smallest set that lacks one, so no induction theorem is needed |
| `MigrationsProofs` | `MigrationTypes`, `NoHalfMigration`, `RecordIsTrue`, `ReadyHasSchema` | `TypeOK`, `WholeOrNotAtAll`, `RecordedInOrder`, `ReadyMeansMigrated` always | `MigrationsInvariance` |

That a run of the commands is a run of `Valuation`, so that the theorems about
`Valuation` hold of the commands, follows from the definitions, since a step of a
run is a step of `Valuation` or leaves its variables alone. `PipelineRefinement`
writes that down; it is not one of the results.

The assumptions that are about the world and not about the code: an ordered
stream publishes in order of time (`SyncService`; in `HyperliquidSync` it is a
guard of `Publish` and `PublishCharge`); Hyperliquid fills an answer with the
oldest it has; two charges of one market never share a millisecond, so that each
has an id of its own (`hyperliquid.py:526-530` says so); in `Valuation`, quantities
and prices are whole units; in `JournalPipeline`, what one venue has can be stored
before what the other has (`StreamAssumption`, of the domain of `LayoutOf` only).
`ClosedTradeEarnsItsCash` itself has a premise, that no fill of the trade has a size
below zero.

`LayoutAssumption` of `Valuation` is not about the world. `LayoutsAreSound` and
`PairingInvariance` prove its parts of the tables `rebuild()` makes (the fills of a
leg there are the rows that carry its id, and `Left` is what they add up to). Since
`LayoutOf` is a constant, the two modules are joined by reading the two
statements side by side, not by an instance.

The inductive invariants, each of which TLC confirmed on the instances above
before it was proved (add `IInv` to the cfg to repeat that):

* `SyncService`: `NothingLost` alone is not inductive - a run under way has already
  decided what to fetch. `WindowInv` adds, for every owed event of the stream a
  run is at: the run's window still holds it, or the run has it in hand, or it
  is no older than all the run has or will handle, so the cursor the
  run is about to write cannot pass it. The last disjunct is what a publication
  between fetch and commit needs. `LockInv` and `WorkInv` say whose the uncommitted
  rows are.
* `MarketReplay`: `SizeInv` ties a leg's entry minus exit to the position for the
  current leg, and to zero for a closed one; a flip-born leg holds less than
  its position for ever, which is why it never balances.
* `ReplayReference`: `ReferenceInv` describes each draft fact by fact (`Describes`)
  instead of by an equation between records with a minimum and maximum in them, and
  adds `FlatInv`, that the next leg has nothing yet while the market is flat.
* `TradePairing`: `WalkedInv`, a leg the walk has passed over has no free eligible
  counterpart any more, and none can become free; and a trade's flag is what
  `Unsure` says of its two legs.
* `Rebuild`: `StageInv` says that the rows of a market are taken together and in
  order, `AssignedInv` that a fill's leg is of its own market, `LegsInv` that a
  Variational leg's base is plain and a leg of no size closes as it opens; with
  `TradesAreHedges` the last two give `TradesHaveSymbols` and `TradedLegsHaveSize`.
  `TakenInv` (no row is taken twice, and the rows of the market under replay sum to
  the running position) and `MarketInv` (a market is either still to be replayed or has
  all its legs) carry what the replay knows over to the stored tables; `LayoutInv` keeps
  for stored legs what the replay says of drafts.
* `Valuation`: `WellFormedLegs`, since legs are only ever some rebuild's; the choice of the
  earliest leg and `InSuccession` then give `SharedInstantGoesToClosingLeg`.
  `LegsAreRebuilt` (the legs are what a rebuild makes of the fills they hold) and
  `ReviewIsExplained` (a valued trade with an open leg is flagged) are what
  `ClosedTradeEarnsItsCash` needs: the legs of an unflagged trade are all closed
  and balanced.
* `JournalPipeline`: `Progress` follows a refresh that is alone from step to step -
  the legs are those of the stored fills after its rebuild, the figures are settled
  after its valuation, and it has read the trades that are there. `Coverage` follows
  what a refresh found at the venues when it began, stream by stream, into the tables
  and then, by its rebuild, into the legs; a later rebuild of another run only finds
  more, since fills are never deleted.
* `HyperliquidFills`: all before `start` is read, and `start` is the time of
  something read, so a full page of one instant cannot be stepped over.
* `HyperliquidSync`: `CursorInv`, no event that is still to be stored is before its
  stream's cursor; the fetch's snapshot and the order of a cut answer keep it.
* `VariationalImport`: `InOrder`, all lines read come before all lines still to be
  read, so that the row kept is the first of all.
* `Migrations`: `PendingIsOwn` and `Ahead`, what is uncommitted belongs to the lock's
  holder and to its own next file, and what is off a process's list is recorded.

Model-checked only: the liveness properties (`EventuallyStored`, `EventuallyCurrent`,
`EventuallyIngested`, `EventuallyImported`, `EventuallyMigrated`), which are out of
the prover's reach. Every other property of a passing run is a theorem.

## 6. What is not modelled, and why

* `fetch_open_positions` and `reset_database`: nothing in the program calls them.
* Configuration, logging, argument parsing and the layout of what is printed: they
  are read once or change nothing. The `trades` command prints rows as `report`
  reads them, without a check of its own.
* The characters of a number, a timestamp or a name, the conversion of columns,
  raw payloads, and the queries of `repository.py` that only tests use.
* Price-weighted averages in the replay: they are summed in the statements that
  sum the sizes, and `Valuation` computes them from the fills. Decimal precision
  beyond exact division: averages are compared where they are exact. `slippage`
  is always NULL.
* What a venue answers that its documentation does not say: newest first, or two
  charges of one market in one millisecond.

## 7. Plan

1. `Rebuild` composed with `Valuation` in one module, so that `LayoutAssumption`
   becomes a step of a refinement; `LayoutsAreSound` is the fact it needs.
2. An abstract specification `VariationalImport` implements. It cannot be
   `IdempotentIngest` as it stands: a late row is behind the cursor for good
   (finding 1), so the promise has to say which rows are never owed.
