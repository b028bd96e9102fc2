---------------------------- MODULE HyperliquidSync ----------------------------
(***************************************************************************)
(* `sync hyperliquid`, by one process, again and again: fetch_fills page   *)
(* by page (HyperliquidFills), the transaction that stores its fills, then *)
(* fetch_cash_flows, which asks for all funding at or after its own cursor *)
(* in a single request.  Fills of markets without a canonical symbol, and  *)
(* funding that does not parse, are read and skipped: they neither go into *)
(* the journal nor move a cursor.                                          *)
(***************************************************************************)
EXTENDS HyperliquidFills

CONSTANTS
  Raw,         \* what the venue serves of an event
  Cap,         \* how many funding events an answer holds
  MaxFailures, \* bound: how many runs end because a request failed
  None

(* Whether the name makes a symbol, and whether every number parses. *)
FillEntry == [coin : BOOLEAN, side : STRING, numbers : BOOLEAN]
ChargeEntry == [coin : BOOLEAN, type : STRING, numbers : BOOLEAN]

ASSUME ChargeAssumption ==
  /\ DOMAIN Raw = Fill \cup Charge
  /\ \A f \in Fill : Raw[f] \in FillEntry
  /\ \A c \in Charge : Raw[c] \in ChargeEntry
  /\ Cap \in Nat \ {0}
  /\ MaxFailures \in Nat
  /\ None \notin Fill \cup Charge

VARIABLES
  charged,   \* the funding events the venue has
  journal,   \* the events in the tables fills and cash_flows
  cursor,    \* sync_state: per stream the newest event stored, or None
  stage,     \* what the run is at: "idle", "fills" or "funding"
  failures   \* how many runs have failed so far

syncVars == <<vars, charged, journal, cursor, stage, failures>>

Stream == {"fills", "funding"}
Event == Fill \cup Charge
StreamOf == [e \in Event |-> IF e \in Fill THEN "fills" ELSE "funding"]

(* _to_fill and _to_funding_cash_flow; any other event is skipped. *)
IsFill(f) == Raw[f].coin /\ Raw[f].side \in {"A", "B"} /\ Raw[f].numbers
IsFunding(c) == Raw[c].coin /\ Raw[c].type = "funding" /\ Raw[c].numbers

Unparsed ==
  Unreadable \cup {f \in Fill : ~IsFill(f)} \cup {c \in Charge : ~IsFunding(c)}

SyncInit ==
  /\ Init
  /\ charged = {}
  /\ journal = {}
  /\ cursor = [s \in Stream |-> None]
  /\ stage = "idle"
  /\ failures = 0

(* Funding is charged by the hour. *)
PublishCharge(c) ==
  /\ c \notin charged
  /\ \A d \in charged : Time[d] <= Time[c]
  /\ charged' = charged \cup {c}
  /\ UNCHANGED <<vars, journal, cursor, stage, failures>>

(* Mutant: `since` is taken as exclusive. *)
SinceAfter(s) == IF cursor[s] = None THEN 0 ELSE Time[cursor[s]] + 1

(* The cursor of a stream is inclusive. *)
Since(s) == IF cursor[s] = None THEN 0 ELSE Time[cursor[s]]

StartRun ==
  /\ stage = "idle"
  /\ Begin(Since("fills"))
  /\ stage' = "fills"
  /\ UNCHANGED <<charged, journal, cursor, failures>>

FetchFills ==
  /\ stage = "fills"
  /\ outcome = "fetching"
  /\ (\E P \in Pages : Page(P)) \/ TooManyPages \/ Retry
  /\ UNCHANGED <<charged, journal, cursor, stage, failures>>

(* Mutant: the rows come newest first, and the last one gives the cursor. *)
NewestIsLast(B) == {n \in B : \A e \in B : Time[n] <= Time[e]}

(* The newest event of a batch. *)
Newest(B) == {n \in B : \A e \in B : Time[e] <= Time[n]}

(* A transaction: the rows of a batch, and the cursor if there are any. *)
Store(s, B) ==
  /\ journal' = journal \cup B
  /\ IF B = {} THEN UNCHANGED cursor
     ELSE \E n \in Newest(B) : cursor' = [cursor EXCEPT ![s] = n]

StoreFills ==
  /\ stage = "fills" /\ outcome = "done"
  /\ Store("fills", read \ Unparsed)
  /\ stage' = "funding"
  /\ UNCHANGED <<vars, charged, failures>>

ChargedFrom(t) == {c \in charged : Time[c] >= t}

(* userFunding, which may cut an answer as userFillsByTime does. *)
Answers ==
  LET all == ChargedFrom(Since("funding"))
  IN  {A \in SUBSET all : IsAnswer(A, all, Cap)}

(* sync_cash_flows, with the one request of fetch_cash_flows. *)
SyncFunding(A) ==
  /\ stage = "funding"
  /\ Store("funding", A \ Unparsed)
  /\ stage' = "idle"
  /\ UNCHANGED <<vars, charged, failures>>

(* fetch_fills has raised: nothing of it is stored and the run is over. *)
FillsRefused ==
  /\ stage = "fills" /\ outcome \in Ended \ {"done"}
  /\ stage' = "idle"
  /\ UNCHANGED <<vars, charged, journal, cursor, failures>>

(* A request has failed for good: of the fills, or the one for funding. *)
RequestFails ==
  /\ failures < MaxFailures
  /\ failures' = failures + 1
  /\ UNCHANGED <<charged, journal, cursor>>
  /\ \/ stage = "fills" /\ Fail /\ UNCHANGED stage
     \/ stage = "funding" /\ stage' = "idle" /\ UNCHANGED vars

Step ==
  \/ StartRun \/ FetchFills \/ StoreFills \/ FillsRefused
  \/ stage = "funding" /\ \E A \in Answers : SyncFunding(A)

SyncNext ==
  \/ (\E f \in Fill : Publish(f)) /\ UNCHANGED <<charged, journal, cursor, stage, failures>>
  \/ \E c \in Charge : PublishCharge(c)
  \/ Step
  \/ RequestFails

SyncSpec == SyncInit /\ [][SyncNext]_syncVars

(* The owner syncs again and again; every request has a timeout. *)
FairSyncSpec == SyncSpec /\ WF_syncVars(Step)

-------------------------------------------------------------------------------
(* Properties *)

SyncTypeOK ==
  /\ TypeOK
  /\ charged \subseteq Charge
  /\ journal \subseteq published \cup charged
  /\ cursor \in [Stream -> Event \cup {None}]
  /\ stage \in Stream \cup {"idle"}
  /\ failures \in 0 .. MaxFailures

(***************************************************************************)
(* Paged fetches, cut answers, skipped events and failures taken together, *)
(* the journal takes atomic batches of each stream, and no cursor moves    *)
(* past an event that is still to be stored.                               *)
(***************************************************************************)
Ingest == INSTANCE IdempotentIngest
          WITH Ordered <- Stream, Unidentified <- {},
               published <- published \cup charged, stored <- journal
IngestSpec == Ingest!Spec

(* The events a full answer shows again, or shows for nothing. *)
FundingIsFull ==
  Cardinality({c \in ChargedFrom(Since("funding")) :
                 Time[c] = Since("funding") \/ c \in Unparsed}) >= Cap

(***************************************************************************)
(* Every event that can be stored is stored in the end, however often      *)
(* requests fail and answers are cut off; unless fetch_fills refuses to go *)
(* on, which keeps the funding out as well, or, for funding, the events at *)
(* the cursor and those skipped fill a whole answer.                       *)
(***************************************************************************)
EventuallyIngested ==
  /\ \A f \in Fill \ Unparsed :
       f \in published ~> f \in journal \/ outcome \in {"stalled", "too many pages"}
  /\ \A c \in Charge \ Unparsed :
       c \in charged ~> \/ c \in journal
                        \/ outcome \in {"stalled", "too many pages"}
                        \/ FundingIsFull

(***************************************************************************)
(* The inductive invariant: a fetch starts from the cursor, which names an *)
(* event that is stored, and what is owed to the journal is not before it. *)
(***************************************************************************)
CursorInv ==
  /\ \A s \in Stream :
       cursor[s] # None => cursor[s] \in journal /\ StreamOf[cursor[s]] = s
  /\ \A e \in (published \cup charged) \ (journal \cup Unparsed) :
       Time[e] >= Since(StreamOf[e])

SyncInv ==
  /\ SyncTypeOK
  /\ IInv
  /\ journal \cap Unparsed = {}
  /\ stage = "fills" => since = Since("fills")
  /\ CursorInv
===============================================================================
