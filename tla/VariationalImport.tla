--------------------------- MODULE VariationalImport ---------------------------
(***************************************************************************)
(* VariationalFileClient (tradejournal/exchanges/variational.py) and the   *)
(* sync that calls it, as one process runs them again and again.  The      *)
(* owner drops CSV exports into <import_dir>/trades and .../transfers; a   *)
(* fetch reads all files of a folder, in the order of their names, line by *)
(* line, and merges them; what it selects is stored for good.              *)
(*                                                                         *)
(* A line is <<file, number>>, its row Content[file][number]; line 0 is    *)
(* the header.  The amounts and prices of a row go on unchanged, or with   *)
(* the sign of their transfer type, and are left out.                      *)
(***************************************************************************)
EXTENDS Integers, Sequences

CONSTANTS
  File,        \* the exports the owner may drop, numbered in order of name
  FolderOf,    \* [File -> Folder]
  Content,     \* [File -> Seq(Row)]
  WrongHeader, \* files whose header is not that of their folder's export
  Id,          \* values of the column id
  Ms,          \* a millisecond, in the unit of created_at
  MaxFailures, \* bound: how often a file cannot be read, or a run dies
  None

Folder == {"trades", "transfers"}

(* What the parsers make of a cell: None when they refuse it. *)
Moment == Nat \cup {None}
Number == Int \cup {None}

(* text is the rest of the row as it stands in the file: the cells that no *)
(* parser looks at, and how the others are spelled.                        *)
TradeRow ==
  [id : Id \cup {None}, created_at : Moment, status : STRING,
   instrument_type : STRING, symbol : BOOLEAN, side : STRING,
   price : Number, qty : Number, text : STRING]

TransferRow ==
  [id : Id \cup {None}, created_at : Moment, status : STRING,
   transfer_type : STRING, symbol : BOOLEAN \cup {None},
   qty : Number, rate : BOOLEAN, text : STRING]

(* The lines of some files. *)
Lines(F) == UNION {{f} \X (0 .. Len(Content[f])) : f \in F}

RowsOf(d) == IF d = "trades" THEN TradeRow ELSE TransferRow

ASSUME ImportAssumption ==
  /\ File \subseteq Nat
  /\ FolderOf \in [File -> Folder]
  /\ DOMAIN Content = File
  /\ \A f \in File : Content[f] \in Seq(RowsOf(FolderOf[f]))
  /\ WrongHeader \subseteq File
  /\ Ms \in Nat \ {0}
  /\ MaxFailures \in Nat
  /\ None \notin Id \cup Nat \cup BOOLEAN \cup Lines(File)
  /\ \A f \in File : \A n \in DOMAIN Content[f] : Content[f][n] # None

VARIABLES
  dir,      \* the files in the import directory
  stage,    \* the folder whose fetch is under way, or "idle"
  since,    \* the cursor the fetch was given
  todo,     \* the lines it has still to read
  listed,   \* the files it found when it began
  kept,     \* per id, the line kept for it, or None
  skipped,  \* its skipped_events: <<line, reason>>
  stored,   \* per folder and id, the row the database holds, or None
  cursor,   \* per folder, last_timestamp in sync_state in ms, or None
  failures  \* how many failures so far

fetchVars == <<stage, since, todo, listed, kept, skipped>>
vars == <<dir, fetchVars, stored, cursor, failures>>

RowAt(p) == Content[p[1]][p[2]]
Precedes(p, q) == p[1] < q[1] \/ (p[1] = q[1] /\ p[2] < q[2])

Init ==
  /\ dir = {}
  /\ stage = "idle"
  /\ since = None
  /\ todo = {}
  /\ listed = {}
  /\ kept = [i \in Id |-> None]
  /\ skipped = {}
  /\ stored = [d \in Folder |-> [i \in Id |-> None]]
  /\ cursor = [d \in Folder |-> None]
  /\ failures = 0

-------------------------------------------------------------------------------
(* Rows *)

Positive(n) == n # None /\ n > 0

IsFill(row) ==
  /\ row.id # None
  /\ row.status = "confirmed"
  /\ row.instrument_type \in {"perpetual_future", "perpetual_rwa_future"}
  /\ row.symbol
  /\ row.side \in {"buy", "sell"}
  /\ row.created_at # None
  /\ Positive(row.price)
  /\ Positive(row.qty)

(* Deposits, withdrawals and fees are magnitudes; the others are signed. *)
IsCashFlow(row) ==
  /\ row.id # None
  /\ row.status = "confirmed"
  /\ \/ row.transfer_type \in {"deposit", "withdrawal", "fee"} /\ Positive(row.qty)
     \/ row.transfer_type \in {"realized_pnl", "funding"} /\ row.qty # None
  /\ row.created_at # None
  /\ row.rate
  /\ row.symbol # FALSE

Accepted(d, row) == IF d = "trades" THEN IsFill(row) ELSE IsCashFlow(row)

-------------------------------------------------------------------------------
(* The directory *)

DropFile(f) ==
  /\ f \notin dir
  /\ dir' = dir \cup {f}
  /\ UNCHANGED <<fetchVars, stored, cursor, failures>>

-------------------------------------------------------------------------------
(* A fetch *)

(* get_sync_state, then the files of folder d, in sorted-name order. *)
BeginFetch(d) ==
  /\ stage' = d
  /\ since' = cursor[d]
  /\ listed' = {f \in dir : FolderOf[f] = d}
  /\ todo' = Lines(listed')
  /\ kept' = [i \in Id |-> None]
  /\ skipped' = {}

(* sync: fills first. *)
Start ==
  /\ stage = "idle"
  /\ BeginFetch("trades")
  /\ UNCHANGED <<dir, stored, cursor, failures>>

(* Line p is the next one of the fetch. *)
Reads(p) ==
  /\ stage # "idle"
  /\ p \in todo
  /\ \A q \in todo : q = p \/ Precedes(p, q)
  /\ todo' = todo \ {p}
  /\ UNCHANGED <<dir, stage, since, listed, stored, cursor, failures>>

Skips(p, reason) == skipped' = skipped \cup {<<p, reason>>} /\ UNCHANGED kept

Header(p) ==
  /\ Reads(p)
  /\ p[2] = 0 /\ p[1] \notin WrongHeader
  /\ UNCHANGED <<kept, skipped>>

(* A wrong header fails the whole load, and with it the run. *)
WrongFile(p) ==
  /\ stage # "idle"
  /\ p \in todo
  /\ \A q \in todo : q = p \/ Precedes(p, q)
  /\ p[2] = 0 /\ p[1] \in WrongHeader
  /\ stage' = "idle"
  /\ UNCHANGED <<dir, since, todo, listed, kept, skipped, stored, cursor, failures>>

Refuse(p) ==
  /\ Reads(p)
  /\ p[2] > 0 /\ ~Accepted(stage, RowAt(p))
  /\ Skips(p, "refused")

(* _first_occurrence of an id: the row is kept. *)
Keep(p) ==
  /\ Reads(p)
  /\ p[2] > 0 /\ Accepted(stage, RowAt(p))
  /\ kept[RowAt(p).id] = None
  /\ kept' = [kept EXCEPT ![RowAt(p).id] = p]
  /\ UNCHANGED skipped

(* Mutant: an id seen before is taken for the same row. *)
VerdictUncompared(p) == "duplicate"

(* The same row again, from an overlapping export, or a different one. *)
Verdict(p) ==
  IF RowAt(kept[RowAt(p).id]) = RowAt(p) THEN "duplicate" ELSE "conflict"

(* Mutant: the row that comes last takes the place of the first. *)
RepeatTakesLast(p) ==
  /\ Reads(p)
  /\ p[2] > 0 /\ Accepted(stage, RowAt(p))
  /\ kept[RowAt(p).id] # None
  /\ kept' = [kept EXCEPT ![RowAt(p).id] = p]
  /\ skipped' = skipped \cup {<<kept[RowAt(p).id], Verdict(p)>>}

Repeat(p) ==
  /\ Reads(p)
  /\ p[2] > 0 /\ Accepted(stage, RowAt(p))
  /\ kept[RowAt(p).id] # None
  /\ Skips(p, Verdict(p))

(* The kept rows at or after `since`. *)
Selected ==
  {i \in Id :
     kept[i] # None /\ (since # None => RowAt(kept[i]).created_at >= since * Ms)}

Newest(n) == \A i \in Selected : RowAt(kept[i]).created_at <= RowAt(kept[n]).created_at

(* Mutants: the id of the newest row is saved for its timestamp; the        *)
(* timestamp is rounded up.                                                 *)
CursorIsId(n) == n
CursorRoundedUp(n) == (RowAt(kept[n]).created_at + Ms - 1) \div Ms

(* datetime_to_epoch_ms of the newest row: what is below a millisecond goes. *)
CursorOf(n) == RowAt(kept[n]).created_at \div Ms

(* One transaction: idempotent inserts, and the cursor if there were any.  *)
(* The cash flows follow the fills.                                        *)
Store ==
  /\ stage # "idle" /\ todo = {}
  /\ stored' = [stored EXCEPT ![stage] =
       [i \in Id |-> IF @[i] = None /\ i \in Selected THEN RowAt(kept[i]) ELSE @[i]]]
  /\ IF Selected = {}
       THEN UNCHANGED cursor
       ELSE \E n \in Selected :
              Newest(n) /\ cursor' = [cursor EXCEPT ![stage] = CursorOf(n)]
  /\ IF stage = "trades"
       THEN BeginFetch("transfers")
       ELSE stage' = "idle" /\ UNCHANGED <<since, todo, listed, kept, skipped>>
  /\ UNCHANGED <<dir, failures>>

(* A file cannot be read, or the process ends: nothing of this stage stays. *)
Fail ==
  /\ stage # "idle"
  /\ failures < MaxFailures
  /\ failures' = failures + 1
  /\ stage' = "idle"
  /\ UNCHANGED <<dir, since, todo, listed, kept, skipped, stored, cursor>>

-------------------------------------------------------------------------------
ReadLine(p) == Header(p) \/ WrongFile(p) \/ Refuse(p) \/ Keep(p) \/ Repeat(p)

Step == Start \/ (\E p \in todo : ReadLine(p)) \/ Store

Next == (\E f \in File : DropFile(f)) \/ Step \/ Fail

Spec == Init /\ [][Next]_vars

(* The owner syncs again and again; a run that is not killed goes on. *)
FairSpec == Spec /\ WF_vars(Step)

-------------------------------------------------------------------------------
(* Properties *)

TypeOK ==
  /\ dir \subseteq File
  /\ stage \in Folder \cup {"idle"}
  /\ since \in Nat \cup {None}
  /\ listed \subseteq File
  /\ todo \subseteq Lines(listed)
  /\ kept \in [Id -> Lines(listed) \cup {None}]
  /\ skipped \subseteq Lines(listed) \X {"refused", "duplicate", "conflict"}
  /\ DOMAIN stored = Folder /\ \A d \in Folder : DOMAIN stored[d] = Id
  /\ cursor \in [Folder -> Nat \cup {None}]
  /\ failures \in 0 .. MaxFailures

(* The data rows of this fetch that were read and accepted. *)
Data == {p \in Lines(listed) \ todo : p[2] > 0}
Candidates(i) == {p \in Data : Accepted(stage, RowAt(p)) /\ RowAt(p).id = i}

(***************************************************************************)
(* However exports overlap, an id is kept exactly when one of its rows was *)
(* acceptable, and then by the first such row: a row refused as pending in *)
(* one file does not hide the confirmed one of another file.  It is the    *)
(* part of the inductive invariant that FirstRowStays rests on.            *)
(***************************************************************************)
KeepsFirst ==
  stage # "idle" => \A i \in Id :
    IF Candidates(i) = {}
      THEN kept[i] = None
      ELSE /\ kept[i] \in Candidates(i)
           /\ \A p \in Candidates(i) : p = kept[i] \/ Precedes(kept[i], p)

(***************************************************************************)
(* "Skipped and recorded ... rather than guessed at or silently dropped"   *)
(* (variational.py:77-78): every row is kept or on record, and two         *)
(* different rows of one id leave a conflict on record for it.             *)
(***************************************************************************)
NothingSilentlyDropped ==
  stage # "idle" =>
    /\ \A p \in Data :
         (\E i \in Id : kept[i] = p) \/ (\E s \in skipped : s[1] = p)
    /\ \A i \in Id : \A p, q \in Candidates(i) : RowAt(p) # RowAt(q) =>
         \E s \in skipped : s[2] = "conflict" /\ RowAt(s[1]).id = i

(* Row p is the first acceptable one of id i among the files F of folder d. *)
FirstOf(p, F, d, i) ==
  LET its == {q \in Lines({f \in F : FolderOf[f] = d}) :
                q[2] > 0 /\ Accepted(d, RowAt(q)) /\ RowAt(q).id = i}
  IN p \in its /\ \A q \in its : q = p \/ Precedes(p, q)

(***************************************************************************)
(* "Overlapping exports are safe to import repeatedly" (variational.py:30):*)
(* what comes into the journal is the first acceptable row of its id in    *)
(* the files that the fetch listed, and it stays for good, whatever        *)
(* exports dropped during or after that fetch say of the id.               *)
(***************************************************************************)
FirstRowStays ==
  [][\A d \in Folder, i \in Id :
       \/ stored'[d][i] = stored[d][i]
       \/ /\ stored[d][i] = None
          /\ \E p \in Lines(listed) :
               FirstOf(p, listed, d, i) /\ stored'[d][i] = RowAt(p)]_stored

(* No other export has a different acceptable row for the row's id. *)
Undisputed(row, d) ==
  \A p \in Lines(File) :
    p[2] > 0 /\ FolderOf[p[1]] = d /\ Accepted(d, RowAt(p)) /\ RowAt(p).id = row.id
      => RowAt(p) = row

(* The row of every acceptable, undisputed line of export f. *)
Good(f) ==
  {row \in {Content[f][n] : n \in DOMAIN Content[f]} :
     Accepted(FolderOf[f], row) /\ Undisputed(row, FolderOf[f])}

(***************************************************************************)
(* A row that was dropped into the directory is in the journal in the end, *)
(* unless one of a later millisecond was stored without it or some file    *)
(* has a wrong header.                                                     *)
(***************************************************************************)
Passed(d, row) ==
  \E i \in Id :
    /\ stored[d][i] # None
    /\ stored[d][i].created_at \div Ms > row.created_at \div Ms

EventuallyImported ==
  \A f \in File : \A row \in Good(f) :
    f \in dir ~> \/ stored[FolderOf[f]][row.id] = row
                 \/ Passed(FolderOf[f], row)
                 \/ dir \cap WrongHeader # {}

(***************************************************************************)
(* README.md:108, "the cursor cannot advance past events that were not     *)
(* confidently stored": a confirmed row is imported in the end, also when  *)
(* an earlier export had it as pending or did not have it.                 *)
(***************************************************************************)
CursorPassesNothing ==
  \A f \in File : \A row \in Good(f) :
    f \in dir ~> \/ stored[FolderOf[f]][row.id] = row
                 \/ dir \cap WrongHeader # {}

(***************************************************************************)
(* The inductive invariant: a fetch reads its own folder's files in order, *)
(* so that no line still to come is before one already read.               *)
(***************************************************************************)
InOrder ==
  stage # "idle" =>
    /\ \A f \in listed : FolderOf[f] = stage
    /\ \A p \in Lines(listed) \ todo, q \in todo : Precedes(p, q)

IInv == TypeOK /\ InOrder /\ KeepsFirst /\ NothingSilentlyDropped
===============================================================================
