------------------------------- MODULE Migrations -------------------------------
(***************************************************************************)
(* apply_migrations (tradejournal/db/connection.py): every command begins  *)
(* with it.  A migration file is a transaction of its own, run statement   *)
(* by statement; that its version was applied is recorded by a second      *)
(* transaction.  Processes may start at once, fail, and be run again.      *)
(***************************************************************************)
EXTENDS Naturals, FiniteSets

CONSTANTS
  Proc,
  Version,     \* the numbers of the migration files
  Size,        \* [Version -> Nat], the CREATE statements of each file
  MaxFailures, \* bound: failures other than "already exists"
  None

ASSUME MigrationsAssumption ==
  /\ Version \subseteq Nat /\ IsFiniteSet(Version)
  /\ Size \in [Version -> Nat \ {0}]
  /\ MaxFailures \in Nat
  /\ None \notin Proc

VARIABLES
  objects,  \* the tables and indexes committed, as <<version, statement>>
  recorded, \* the versions in schema_migrations
  pc,
  todo,     \* per process, the versions it still has to apply
  pending,  \* per process, what its open transaction has created
  writer,   \* the process that holds the write lock, or None
  torn,     \* history: a run ended between a script and its record
  failures  \* how many failures so far

vars == <<objects, recorded, pc, todo, pending, writer, torn, failures>>

Init ==
  /\ objects = {}
  /\ recorded = {}
  /\ pc = [p \in Proc |-> "idle"]
  /\ todo = [p \in Proc |-> {}]
  /\ pending = [p \in Proc |-> {}]
  /\ writer = None
  /\ torn = FALSE
  /\ failures = 0

Objects(v) == {<<v, i>> : i \in 1 .. Size[v]}

(* The lowest version left is the next one. *)
IsNext(p, v) == v \in todo[p] /\ \A w \in todo[p] : v <= w

(* Statement i of version v is the next one of p's transaction. *)
IsStatement(p, v, i) ==
  /\ i \in 1 .. Size[v]
  /\ <<v, i>> \notin pending[p]
  /\ \A j \in 1 .. (i - 1) : <<v, j>> \in pending[p]

WithoutLock(p) == IF writer = p THEN None ELSE writer

Start(p) ==
  /\ pc[p] = "idle"
  /\ pc' = [pc EXCEPT ![p] = "applying"]
  /\ todo' = [todo EXCEPT ![p] = Version \ recorded]
  /\ UNCHANGED <<objects, recorded, pending, writer, torn, failures>>

(* executescript commits a transaction that is still open, then begins. *)
Begin(p) ==
  /\ pc[p] = "applying" /\ todo[p] # {}
  /\ pc' = [pc EXCEPT ![p] = "script"]
  /\ objects' = objects \cup pending[p]
  /\ pending' = [pending EXCEPT ![p] = {}]
  /\ writer' = WithoutLock(p)
  /\ UNCHANGED <<recorded, todo, torn, failures>>

(* Mutant: the script's statements are committed one by one. *)
CreateAutocommit(p, v) ==
  /\ pc[p] = "script" /\ IsNext(p, v)
  /\ writer \in {None, p}
  /\ \E i \in 1 .. Size[v] :
       /\ IsStatement(p, v, i) /\ <<v, i>> \notin objects
       /\ pending' = [pending EXCEPT ![p] = @ \cup {<<v, i>>}]
       /\ objects' = objects \cup {<<v, i>>}
  /\ writer' = p
  /\ UNCHANGED <<recorded, pc, todo, torn, failures>>

(* The first statement of a deferred transaction takes the write lock. *)
Create(p, v) ==
  /\ pc[p] = "script" /\ IsNext(p, v)
  /\ writer \in {None, p}
  /\ \E i \in 1 .. Size[v] :
       /\ IsStatement(p, v, i) /\ <<v, i>> \notin objects
       /\ pending' = [pending EXCEPT ![p] = @ \cup {<<v, i>>}]
  /\ writer' = p
  /\ UNCHANGED <<objects, recorded, pc, todo, torn, failures>>

(* CREATE TABLE without IF NOT EXISTS. *)
AlreadyExists(p, v) ==
  /\ pc[p] = "script" /\ IsNext(p, v)
  /\ writer \in {None, p}
  /\ \E i \in 1 .. Size[v] : IsStatement(p, v, i) /\ <<v, i>> \in objects
  /\ pc' = [pc EXCEPT ![p] = "failed"]
  /\ UNCHANGED <<objects, recorded, todo, pending, writer, torn, failures>>

CommitScript(p, v) ==
  /\ pc[p] = "script" /\ IsNext(p, v)
  /\ Objects(v) \subseteq pending[p]
  /\ objects' = objects \cup pending[p]
  /\ pending' = [pending EXCEPT ![p] = {}]
  /\ writer' = None
  /\ pc' = [pc EXCEPT ![p] = "record"]
  /\ UNCHANGED <<recorded, todo, torn, failures>>

(* Mutant: the number recorded is one too high. *)
RecordOneUp(p, v) ==
  /\ pc[p] = "record" /\ IsNext(p, v)
  /\ writer = None
  /\ recorded' = recorded \cup {v + 1}
  /\ todo' = [todo EXCEPT ![p] = @ \ {v}]
  /\ pc' = [pc EXCEPT ![p] = "applying"]
  /\ UNCHANGED <<objects, pending, writer, torn, failures>>

(* Mutant: every file is recorded as soon as the first one is applied. *)
RecordAll(p, v) ==
  /\ pc[p] = "record" /\ IsNext(p, v)
  /\ writer = None
  /\ recorded' = recorded \cup todo[p]
  /\ todo' = [todo EXCEPT ![p] = @ \ {v}]
  /\ pc' = [pc EXCEPT ![p] = "applying"]
  /\ UNCHANGED <<objects, pending, writer, torn, failures>>

(* Mutant: the version is taken off the list and not recorded. *)
RecordNothing(p, v) ==
  /\ pc[p] = "record" /\ IsNext(p, v)
  /\ writer = None
  /\ todo' = [todo EXCEPT ![p] = @ \ {v}]
  /\ pc' = [pc EXCEPT ![p] = "applying"]
  /\ UNCHANGED <<objects, recorded, pending, writer, torn, failures>>

Record(p, v) ==
  /\ pc[p] = "record" /\ IsNext(p, v)
  /\ writer = None
  /\ recorded' = recorded \cup {v}
  /\ todo' = [todo EXCEPT ![p] = @ \ {v}]
  /\ pc' = [pc EXCEPT ![p] = "applying"]
  /\ UNCHANGED <<objects, pending, writer, torn, failures>>

Ready(p) ==
  /\ pc[p] = "applying" /\ todo[p] = {}
  /\ pc' = [pc EXCEPT ![p] = "ready"]
  /\ UNCHANGED <<objects, recorded, todo, pending, writer, torn, failures>>

(***************************************************************************)
(* A statement fails (a full disk, a lock held for too long) or the        *)
(* process is killed.  A script leaves its transaction open; the           *)
(* recording transaction is rolled back.                                   *)
(***************************************************************************)
Fail(p) ==
  /\ pc[p] \in {"applying", "script", "record"}
  /\ failures < MaxFailures
  /\ failures' = failures + 1
  /\ torn' = (torn \/ pc[p] = "record")
  /\ pc' = [pc EXCEPT ![p] = "failed"]
  /\ UNCHANGED <<objects, recorded, todo, pending, writer>>

(* The connection is closed, by the command or by the process's end. *)
Close(p) ==
  /\ pc[p] \in {"failed", "ready"}
  /\ pc' = [pc EXCEPT ![p] = "idle"]
  /\ pending' = [pending EXCEPT ![p] = {}]
  /\ writer' = WithoutLock(p)
  /\ UNCHANGED <<objects, recorded, todo, torn, failures>>

-------------------------------------------------------------------------------
Apply(p, v) ==
  Create(p, v) \/ AlreadyExists(p, v) \/ CommitScript(p, v) \/ Record(p, v)

Step(p) == Begin(p) \/ (\E v \in Version : Apply(p, v)) \/ Ready(p) \/ Close(p)

Next == \E p \in Proc : Start(p) \/ Step(p) \/ Fail(p)

Spec == Init /\ [][Next]_vars

(* Programs go on, and the owner runs them again after a failure. *)
FairSpec == Spec /\ \A p \in Proc : WF_vars(Step(p)) /\ WF_vars(Start(p))

-------------------------------------------------------------------------------
(* Properties *)

TypeOK ==
  /\ objects \subseteq UNION {Objects(v) : v \in Version}
  /\ recorded \subseteq Version
  /\ pc \in [Proc -> {"idle", "applying", "script", "record", "ready", "failed"}]
  /\ todo \in [Proc -> SUBSET Version]
  /\ pending \in [Proc -> SUBSET UNION {Objects(v) : v \in Version}]
  /\ writer \in Proc \cup {None}
  /\ torn \in BOOLEAN
  /\ failures \in 0 .. MaxFailures

(***************************************************************************)
(* A migration file is applied whole or not at all, wherever a run fails   *)
(* and whoever else runs (connection.py:240-241, 0001_initial.sql:12-13).  *)
(***************************************************************************)
WholeOrNotAtAll ==
  \A v \in Version : Objects(v) \subseteq objects \/ Objects(v) \cap objects = {}

(***************************************************************************)
(* The migrations recorded are there, and no later one was recorded before *)
(* an earlier one, although several processes record them                  *)
(* (connection.py:238, "in version order").                                *)
(***************************************************************************)
RecordedInOrder ==
  \A v \in recorded :
    Objects(v) \subseteq objects /\ \A w \in Version : w < v => w \in recorded

(***************************************************************************)
(* A command that goes on after apply_migrations has the whole schema,     *)
(* also when another process was applying it at the same time.             *)
(***************************************************************************)
ReadyMeansMigrated ==
  \A p \in Proc : pc[p] = "ready" =>
    recorded = Version /\ \A v \in Version : Objects(v) \subseteq objects

(***************************************************************************)
(* Whatever else fails, the schema is up to date in the end, unless a run  *)
(* ended between a file's COMMIT and the record of it.                     *)
(***************************************************************************)
EventuallyMigrated == <>(torn \/ recorded = Version)

(* The same with "Re-running is therefore safe" (connection.py:242). *)
RerunningIsSafe == <>(recorded = Version)

(***************************************************************************)
(* The inductive invariant: only the lock's holder has something pending,  *)
(* of its own next version, and what a process no longer has to do is      *)
(* recorded.                                                               *)
(***************************************************************************)
PendingIsOwn ==
  \A p \in Proc : pending[p] # {} =>
    /\ writer = p
    /\ pc[p] \in {"script", "failed"}
    /\ pc[p] = "script" =>
         \A v \in Version : IsNext(p, v) =>
           pending[p] \subseteq Objects(v) /\ Objects(v) \cap objects = {}

Ahead ==
  \A p \in Proc :
    /\ pc[p] \in {"applying", "script", "record", "ready"} =>
         Version \ todo[p] \subseteq recorded
    /\ pc[p] = "ready" => todo[p] = {}
    /\ pc[p] = "record" =>
         \E v \in Version : IsNext(p, v) /\ Objects(v) \subseteq objects

IInv ==
  /\ TypeOK
  /\ WholeOrNotAtAll
  /\ RecordedInOrder
  /\ ReadyMeansMigrated
  /\ PendingIsOwn
  /\ Ahead
===============================================================================
