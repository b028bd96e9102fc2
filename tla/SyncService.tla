------------------------------ MODULE SyncService ------------------------------
(***************************************************************************)
(* tradejournal/services/sync.py over tradejournal/db: several runs of the *)
(* command line program share one SQLite file.  A run syncs the streams of *)
(* its plan in order.  For each stream it reads the cursor, asks the       *)
(* adapter for everything at or after it, and only then opens the one      *)
(* transaction that inserts the rows and moves the cursor.                 *)
(*                                                                         *)
(* The committed database is `rows` and `cursor`.  SQLite gives the write  *)
(* lock to the transaction whose first write comes first; `work` is what   *)
(* the holder of the lock sees.  A COMMIT publishes `work`, a ROLLBACK (an *)
(* exception, or the death of the process) forgets it.                     *)
(***************************************************************************)
EXTENDS Naturals, Sequences

CONSTANTS
  Run,          \* processes that run `sync` or `refresh`
  Stream,       \* (venue, data type) pairs, one row of sync_state each
  Ordered,      \* the streams whose venue publishes in timestamp order
  Plans,        \* the stream sequences the venue argument can select
  Event,        \* the rows a venue may ever publish
  StreamOf,     \* [Event -> Stream]
  Time,         \* [Event -> Nat], milliseconds
  Unparsed,     \* rows the adapter declines to normalise (SkippedEvent)
  Unidentified, \* cash flows that carry no venue_event_id
  MaxAborts,    \* bound: how many runs die or fail in one behaviour
  None

ASSUME SyncAssumption ==
  /\ Ordered \subseteq Stream
  /\ Plans \subseteq Seq(Stream) \ {<<>>}
  /\ StreamOf \in [Event -> Stream]
  /\ Time \in [Event -> Nat]
  /\ Unparsed \subseteq Event
  /\ Unidentified \subseteq Event
  /\ MaxAborts \in Nat
  /\ None \notin Event
  /\ None \notin Run

VARIABLES
  published,  \* what each venue can be asked for
  rows,       \* committed tables fills and cash_flows: rows held per event
  cursor,     \* committed sync_state: the event whose time and id it holds
  lock,       \* the run inside a transaction that has written, or None
  work,       \* rows as the transaction holding the lock sees them
  pc,         \* where each run is
  plan,       \* the streams a run has still to sync, current one first
  since,      \* the cursor a run read, as a local variable
  todo,       \* fetched events the transaction has still to handle
  newest,     \* newest_timestamp and newest_id, as a local variable
  aborts      \* how many runs have failed so far

dbVars == <<rows, cursor, lock, work>>
runVars == <<pc, plan, since, todo, newest>>
vars == <<published, dbVars, runVars, aborts>>

Storable == Event \ (Unparsed \cup Unidentified)
Current(r) == Head(plan[r])

(* The events at or after a stored cursor: `since` is inclusive. *)
Window(c) == {e \in Event : c # None => Time[e] >= Time[c]}

Init ==
  /\ published = {}
  /\ rows = [e \in Event |-> 0]
  /\ cursor = [s \in Stream |-> None]
  /\ lock = None
  /\ work = rows
  /\ pc = [r \in Run |-> "idle"]
  /\ plan = [r \in Run |-> <<>>]
  /\ since = [r \in Run |-> None]
  /\ todo = [r \in Run |-> {}]
  /\ newest = [r \in Run |-> None]
  /\ aborts = 0

-------------------------------------------------------------------------------
(* The venues *)

(***************************************************************************)
(* A venue makes an event available.  On an ordered stream no later event  *)
(* of that stream is available yet.  On the others a row may surface after *)
(* younger ones did: a Variational export leaves pending rows out until    *)
(* they are confirmed, and the user drops the files in any order.          *)
(***************************************************************************)
Publish(e) ==
  /\ e \notin published
  /\ StreamOf[e] \in Ordered =>
       \A f \in published : StreamOf[f] = StreamOf[e] => Time[f] <= Time[e]
  /\ published' = published \cup {e}
  /\ UNCHANGED <<dbVars, runVars, aborts>>

-------------------------------------------------------------------------------
(* A run *)

Start(r) ==
  /\ pc[r] = "idle"
  /\ \E p \in Plans : plan' = [plan EXCEPT ![r] = p]
  /\ pc' = [pc EXCEPT ![r] = "cursor"]
  /\ UNCHANGED <<published, dbVars, since, todo, newest, aborts>>

(* get_sync_state, outside any transaction. *)
ReadCursor(r) ==
  /\ pc[r] = "cursor"
  /\ since' = [since EXCEPT ![r] = cursor[Current(r)]]
  /\ pc' = [pc EXCEPT ![r] = "fetch"]
  /\ UNCHANGED <<published, dbVars, plan, todo, newest, aborts>>

(* Mutant: `since` is taken as exclusive. *)
FetchedExclusive(r) ==
  {e \in published \ Unparsed :
     /\ since[r] # None => Time[e] > Time[since[r]]
     /\ StreamOf[e] = Current(r)}

(* fetch_fills or fetch_cash_flows: all that is normalisable since `since`. *)
Fetched(r) ==
  {e \in (published \ Unparsed) \cap Window(since[r]) :
     StreamOf[e] = Current(r)}

Fetch(r) ==
  /\ pc[r] = "fetch"
  /\ todo' = [todo EXCEPT ![r] = Fetched(r)]
  /\ newest' = [newest EXCEPT ![r] = None]
  /\ pc' = [pc EXCEPT ![r] = "write"]
  /\ UNCHANGED <<published, dbVars, plan, since, aborts>>

(* What the transaction loop does with any event it does not refuse. *)
Handle(r, e) ==
  /\ pc[r] = "write"
  /\ e \in todo[r] \ Unidentified
  /\ lock \in {None, r}
  /\ lock' = r
  /\ todo' = [todo EXCEPT ![r] = @ \ {e}]

(* Mutant: the rows are taken to be in order. *)
NewerIsLast(n, e) == e

(* The newest event so far, tracked by a strict comparison. *)
Newer(n, e) == IF n = None \/ Time[e] > Time[n] THEN e ELSE n

(* Mutant: the insert does not look for the row it repeats. *)
InsertedBlind(n) == n + 1

(* The rows of an event after its insert, which ignores one already held. *)
Inserted(n) == IF n = 0 THEN 1 ELSE n

(***************************************************************************)
(* insert_fill or insert_cash_flow: the first write of the transaction     *)
(* takes SQLite's write lock, and an event already held changes nothing.   *)
(***************************************************************************)
InsertRow(r, e) ==
  /\ Handle(r, e)
  /\ work' = [work EXCEPT ![e] = Inserted(@)]
  /\ newest' = [newest EXCEPT ![r] = Newer(@, e)]
  /\ UNCHANGED <<published, rows, cursor, pc, plan, since, aborts>>

(* A cash flow the database could not recognise as a repeat is refused. *)
RefuseRow(r, e) ==
  /\ pc[r] = "write"
  /\ e \in todo[r] \cap Unidentified
  /\ todo' = [todo EXCEPT ![r] = @ \ {e}]
  /\ UNCHANGED <<published, dbVars, pc, plan, since, newest, aborts>>

(* Mutant: a run goes on to the next stream when there is none. *)
AfterGoesOn(streams) == "cursor"

(* Where a run is with some streams still to sync. *)
After(streams) == IF streams = <<>> THEN "idle" ELSE "cursor"

(* upsert_sync_state when anything was handled, then COMMIT. *)
Commit(r) ==
  /\ pc[r] = "write"
  /\ todo[r] = {}
  /\ IF lock = r
       THEN /\ rows' = work
            /\ cursor' = [cursor EXCEPT ![Current(r)] = newest[r]]
            /\ lock' = None
       ELSE UNCHANGED <<rows, cursor, lock>>
  /\ plan' = [plan EXCEPT ![r] = Tail(@)]
  /\ pc' = [pc EXCEPT ![r] = After(Tail(plan[r]))]
  /\ UNCHANGED <<published, work, since, todo, newest, aborts>>

(***************************************************************************)
(* The run ends early: the adapter raises, SQLite answers "database is     *)
(* locked", an insert breaks a constraint, or the process is killed.  An   *)
(* open transaction is rolled back; earlier streams stay committed.        *)
(***************************************************************************)
Abort(r) ==
  /\ pc[r] # "idle"
  /\ aborts < MaxAborts
  /\ aborts' = aborts + 1
  /\ IF lock = r
       THEN lock' = None /\ work' = rows
       ELSE UNCHANGED <<lock, work>>
  /\ pc' = [pc EXCEPT ![r] = "idle"]
  /\ plan' = [plan EXCEPT ![r] = <<>>]
  /\ todo' = [todo EXCEPT ![r] = {}]
  /\ UNCHANGED <<published, rows, cursor, since, newest>>

-------------------------------------------------------------------------------
Progress(r) ==
  \/ Start(r)
  \/ ReadCursor(r)
  \/ Fetch(r)
  \/ \E e \in Event : InsertRow(r, e) \/ RefuseRow(r, e)
  \/ Commit(r)

Next ==
  \/ \E e \in Event : Publish(e)
  \/ \E r \in Run : Progress(r) \/ Abort(r)

Spec == Init /\ [][Next]_vars

(***************************************************************************)
(* The owner keeps running the program, and a run that is not killed keeps *)
(* going.  Nothing forces a venue to publish or a run to fail.             *)
(***************************************************************************)
FairSpec == Spec /\ \A r \in Run : WF_vars(Progress(r))

-------------------------------------------------------------------------------
(* Properties *)

TypeOK ==
  /\ published \subseteq Event
  /\ rows \in [Event -> Nat]
  /\ cursor \in [Stream -> Event \cup {None}]
  /\ lock \in Run \cup {None}
  /\ work \in [Event -> Nat]
  /\ pc \in [Run -> {"idle", "cursor", "fetch", "write"}]
  /\ plan \in [Run -> Seq(Stream)]
  /\ \A r \in Run : pc[r] # "idle" => plan[r] # <<>>
  /\ since \in [Run -> Event \cup {None}]
  /\ todo \in [Run -> SUBSET Event]
  /\ newest \in [Run -> Event \cup {None}]
  /\ aborts \in 0 .. MaxAborts

stored == {e \in Event : rows[e] > 0}

(* What the journal ought to hold and does not. *)
Owed == (published \cap Storable) \ stored

(***************************************************************************)
(* However many runs overlap, and wherever they die, no event is ever held *)
(* twice: overlapping windows are safe to ingest (sync.py:10-18).          *)
(***************************************************************************)
NoDuplicates == \A e \in Event : rows[e] <= 1

(***************************************************************************)
(* A cursor is never ahead of the data: it names an event of its own       *)
(* stream that is durably stored (sync.py:20-24).                          *)
(***************************************************************************)
CursorBacked ==
  \A s \in Stream :
    cursor[s] # None => cursor[s] \in stored /\ StreamOf[cursor[s]] = s

(***************************************************************************)
(* An event of an ordered stream that is available, can be stored and is   *)
(* not stored yet is inside the window the next run will ask for: no       *)
(* interleaving of runs and no failure loses it.                           *)
(***************************************************************************)
NothingLost ==
  \A e \in Owed :
    StreamOf[e] \in Ordered => e \in Window(cursor[StreamOf[e]])

(***************************************************************************)
(* Every event an ordered stream makes available is stored in the end.     *)
(***************************************************************************)
EventuallyStored ==
  \A e \in Storable :
    StreamOf[e] \in Ordered => (e \in published ~> e \in stored)

(***************************************************************************)
(* The inductive invariant behind the safety properties.  The lock is held *)
(* exactly while a transaction has handled a row; the working rows only    *)
(* add to the committed ones, and only events of the holder's stream that  *)
(* are no newer than its `newest`.                                         *)
(***************************************************************************)
LockInv ==
  /\ lock = None => work = rows
  /\ \A r \in Run :
       pc[r] = "write" => (lock = r <=> newest[r] # None)
  /\ \A r \in Run : lock = r => pc[r] = "write"

WorkInv ==
  /\ \A e \in Event : rows[e] <= work[e] /\ work[e] <= 1
  /\ \A e \in Event : work[e] > 0 => e \in published \cap Storable
  /\ \A r \in Run : lock = r =>
       /\ work[newest[r]] > 0
       /\ \A e \in Event : work[e] > rows[e] =>
            StreamOf[e] = Current(r) /\ Time[e] <= Time[newest[r]]

(* What a run remembers came from its venue and from its current stream. *)
LocalInv ==
  \A r \in Run :
    /\ pc[r] = "fetch" /\ since[r] # None =>
         since[r] \in published /\ StreamOf[since[r]] = Current(r)
    /\ pc[r] = "write" =>
         /\ todo[r] \subseteq published \ Unparsed
         /\ \A e \in todo[r] : StreamOf[e] = Current(r)
         /\ newest[r] # None =>
              newest[r] \in published /\ StreamOf[newest[r]] = Current(r)

(* Nothing the open transaction has seen, or has still to see, is newer. *)
NoneNewer(r, e) ==
  /\ \A f \in todo[r] : Time[f] <= Time[e]
  /\ newest[r] # None => Time[newest[r]] <= Time[e]

(* An owed event of an ordered stream cannot slip past a run under way. *)
WindowInv ==
  \A r \in Run : \A e \in Owed :
    pc[r] # "idle" /\ StreamOf[e] = Current(r) /\ Current(r) \in Ordered =>
      /\ pc[r] = "fetch" => e \in Window(since[r])
      /\ pc[r] = "write" =>
           \/ e \in todo[r]
           \/ lock = r /\ work[e] > 0
           \/ NoneNewer(r, e)

IInv ==
  /\ TypeOK
  /\ LockInv
  /\ WorkInv
  /\ LocalInv
  /\ WindowInv
  /\ CursorBacked
  /\ NothingLost

(* The service implements the atomic, lossless ingest of IdempotentIngest. *)
Ingest == INSTANCE IdempotentIngest
          WITH published <- published, stored <- stored, cursor <- cursor
IngestSpec == Ingest!Spec
===============================================================================
