--------------------------- MODULE MigrationsProofs ---------------------------
(***************************************************************************)
(* The invariants of Migrations, for every set of files and processes.     *)
(***************************************************************************)
EXTENDS Migrations, TLAPS

(* Two migration files create different objects. *)
LEMMA ObjectsDisjoint ==
  ASSUME NEW v \in Version, NEW w \in Version, v # w
  PROVE  Objects(v) \cap Objects(w) = {}
BY DEF Objects

(* A process has at most one next version. *)
LEMMA NextUnique ==
  ASSUME TypeOK, NEW p \in Proc, NEW v \in Version, NEW w \in Version,
         IsNext(p, v), IsNext(p, w)
  PROVE  v = w
<1>1. v \in Nat /\ w \in Nat
  BY MigrationsAssumption
<1>2. v <= w /\ w <= v
  BY DEF IsNext
<1> QED
  BY <1>1, <1>2

(* The transaction of the lock's holder is the only one with writes in it. *)
LEMMA PendingElsewhere ==
  ASSUME IInv, NEW p \in Proc, NEW q \in Proc, q # p, writer \in {None, p}
  PROVE  pending[q] = {}
BY MigrationsAssumption DEF IInv, PendingIsOwn

(* The state before the first process starts satisfies the invariant. *)
LEMMA InitInvariant == Init => IInv
<1> SUFFICES ASSUME Init PROVE IInv
  OBVIOUS
<1>1. TypeOK
  <2>1. 0 \in 0 .. MaxFailures
    BY MigrationsAssumption
  <2>2. pc \in [Proc -> {"idle"}] /\ todo \in [Proc -> {{}}] /\ pending \in [Proc -> {{}}]
    BY DEF Init
  <2>3. pc \in [Proc -> {"idle", "applying", "script", "record", "ready", "failed"}]
    BY <2>2
  <2>4. todo \in [Proc -> SUBSET Version]
    BY <2>2
  <2>5. pending \in [Proc -> SUBSET UNION {Objects(v) : v \in Version}]
    BY <2>2
  <2> QED
    BY <2>1, <2>3, <2>4, <2>5 DEF Init, TypeOK
<1>2. WholeOrNotAtAll /\ RecordedInOrder /\ ReadyMeansMigrated
  BY DEF Init, WholeOrNotAtAll, RecordedInOrder, ReadyMeansMigrated
<1>3. PendingIsOwn /\ Ahead
  BY DEF Init, PendingIsOwn, Ahead
<1> QED
  BY <1>1, <1>2, <1>3 DEF IInv

(* Starting, ending, failing: nothing is committed. *)
LEMMA QuietSteps ==
  ASSUME IInv, NEW p \in Proc, Start(p) \/ Ready(p) \/ Close(p) \/ Fail(p)
  PROVE  IInv'
<1> USE DEF IInv
<1>1. CASE Start(p)
  <2>1. TypeOK'
    BY <1>1 DEF Start, TypeOK
  <2>2. (WholeOrNotAtAll /\ RecordedInOrder /\ ReadyMeansMigrated)'
    BY <1>1 DEF Start, TypeOK, WholeOrNotAtAll, RecordedInOrder, ReadyMeansMigrated
  <2>3. PendingIsOwn'
    BY <1>1 DEF Start, TypeOK, PendingIsOwn, IsNext
  <2>4. Ahead'
    BY <1>1 DEF Start, TypeOK, Ahead, IsNext
  <2> QED
    BY <2>1, <2>2, <2>3, <2>4
<1>2. CASE Ready(p)
  <2>1. TypeOK'
    BY <1>2 DEF Ready, TypeOK
  <2>2. (WholeOrNotAtAll /\ RecordedInOrder)'
    BY <1>2 DEF Ready, WholeOrNotAtAll, RecordedInOrder
  <2>3. recorded = Version
    BY <1>2 DEF Ready, Ahead, TypeOK
  <2>4. ReadyMeansMigrated'
    BY <1>2, <2>3 DEF Ready, RecordedInOrder, ReadyMeansMigrated
  <2>5. PendingIsOwn'
    BY <1>2 DEF Ready, TypeOK, PendingIsOwn, IsNext
  <2>6. Ahead'
    BY <1>2 DEF Ready, TypeOK, Ahead, IsNext
  <2> QED
    BY <2>1, <2>2, <2>4, <2>5, <2>6
<1>3. CASE Close(p)
  <2>1. TypeOK'
    BY <1>3 DEF Close, TypeOK, WithoutLock
  <2>2. (WholeOrNotAtAll /\ RecordedInOrder /\ ReadyMeansMigrated)'
    BY <1>3 DEF Close, TypeOK, WholeOrNotAtAll, RecordedInOrder, ReadyMeansMigrated
  <2>3. PendingIsOwn'
    BY <1>3 DEF Close, TypeOK, PendingIsOwn, IsNext, WithoutLock
  <2>4. Ahead'
    BY <1>3 DEF Close, TypeOK, Ahead, IsNext
  <2> QED
    BY <2>1, <2>2, <2>3, <2>4
<1>4. CASE Fail(p)
  <2>1. TypeOK'
    BY <1>4, MigrationsAssumption DEF Fail, TypeOK
  <2>2. (WholeOrNotAtAll /\ RecordedInOrder /\ ReadyMeansMigrated)'
    BY <1>4 DEF Fail, TypeOK, WholeOrNotAtAll, RecordedInOrder, ReadyMeansMigrated
  <2>3. PendingIsOwn'
    BY <1>4 DEF Fail, TypeOK, PendingIsOwn, IsNext
  <2>4. Ahead'
    BY <1>4 DEF Fail, TypeOK, Ahead, IsNext
  <2> QED
    BY <2>1, <2>2, <2>3, <2>4
<1> QED
  BY <1>1, <1>2, <1>3, <1>4

(* A script begins with nothing pending, so its BEGIN commits nothing. *)
LEMMA BeginStep ==
  ASSUME IInv, NEW p \in Proc, Begin(p)
  PROVE  IInv'
<1> USE DEF IInv
<1>1. pending[p] = {}
  BY DEF Begin, PendingIsOwn
<1>2. objects' = objects /\ pending' = pending /\ recorded' = recorded /\ todo' = todo
  BY <1>1 DEF Begin, TypeOK
<1>3. TypeOK'
  BY <1>2 DEF Begin, TypeOK, WithoutLock
<1>4. (WholeOrNotAtAll /\ RecordedInOrder /\ ReadyMeansMigrated)'
  BY <1>2 DEF Begin, TypeOK, WholeOrNotAtAll, RecordedInOrder, ReadyMeansMigrated
<1>5. PendingIsOwn'
  BY <1>1, <1>2 DEF Begin, TypeOK, PendingIsOwn, IsNext, WithoutLock
<1>6. Ahead'
  BY <1>2 DEF Begin, TypeOK, Ahead, IsNext
<1> QED
  BY <1>3, <1>4, <1>5, <1>6

(* A statement writes into p's own transaction only. *)
LEMMA CreateStep ==
  ASSUME IInv, NEW p \in Proc, NEW v \in Version, Create(p, v)
  PROVE  IInv'
<1> USE DEF IInv
<1>1. PICK i \in 1 .. Size[v] :
        /\ <<v, i>> \notin objects
        /\ pending' = [pending EXCEPT ![p] = @ \cup {<<v, i>>}]
  BY DEF Create
<1>2. <<v, i>> \in Objects(v)
  BY DEF Objects
<1>3. Objects(v) \cap objects = {}
  BY <1>1, <1>2 DEF WholeOrNotAtAll
<1>4. TypeOK'
  BY <1>1, <1>2 DEF Create, TypeOK
<1>5. (WholeOrNotAtAll /\ RecordedInOrder /\ ReadyMeansMigrated)'
  BY DEF Create, WholeOrNotAtAll, RecordedInOrder, ReadyMeansMigrated
<1>6. PendingIsOwn'
  <2> SUFFICES ASSUME NEW q \in Proc, pending'[q] # {}
               PROVE  /\ writer' = q
                      /\ pc'[q] \in {"script", "failed"}
                      /\ pc'[q] = "script" =>
                           \A w \in Version : IsNext(q, w)' =>
                             /\ pending'[q] \subseteq Objects(w)
                             /\ Objects(w) \cap objects' = {}
    BY DEF PendingIsOwn
  <2>1. q = p
    <3> SUFFICES ASSUME q # p PROVE FALSE
      OBVIOUS
    <3>1. pending[q] = {}
      BY PendingElsewhere DEF Create
    <3> QED
      BY <1>1, <3>1 DEF TypeOK
  <2>2. writer' = p /\ pc'[p] = "script"
    BY DEF Create
  <2>3. ASSUME NEW w \in Version, IsNext(p, w)'
        PROVE  pending'[p] \subseteq Objects(w) /\ Objects(w) \cap objects' = {}
    <3>1. IsNext(p, w)
      BY <2>3 DEF IsNext, Create
    <3>2. w = v
      BY <3>1, NextUnique DEF Create
    <3>3. pending[p] \subseteq Objects(v)
      BY DEF PendingIsOwn, Create
    <3>4. pending'[p] = pending[p] \cup {<<v, i>>}
      BY <1>1 DEF TypeOK
    <3>5. objects' = objects
      BY DEF Create
    <3> QED
      BY <1>2, <1>3, <3>2, <3>3, <3>4, <3>5
  <2> QED
    BY <2>1, <2>2, <2>3
<1>7. Ahead'
  BY DEF Create, Ahead, IsNext
<1> QED
  BY <1>4, <1>5, <1>6, <1>7

(* An object that is there already ends the run. *)
LEMMA AlreadyExistsStep ==
  ASSUME IInv, NEW p \in Proc, NEW v \in Version, AlreadyExists(p, v)
  PROVE  IInv'
<1> USE DEF IInv
<1>1. TypeOK'
  BY DEF AlreadyExists, TypeOK
<1>2. (WholeOrNotAtAll /\ RecordedInOrder /\ ReadyMeansMigrated)'
  BY DEF AlreadyExists, TypeOK, WholeOrNotAtAll, RecordedInOrder, ReadyMeansMigrated
<1>3. PendingIsOwn'
  BY DEF AlreadyExists, TypeOK, PendingIsOwn, IsNext
<1>4. Ahead'
  BY DEF AlreadyExists, TypeOK, Ahead, IsNext
<1> QED
  BY <1>1, <1>2, <1>3, <1>4

(* A script commits its own version whole and touches no other. *)
LEMMA CommitStep ==
  ASSUME IInv, NEW p \in Proc, NEW v \in Version, CommitScript(p, v)
  PROVE  IInv'
<1> USE DEF IInv
<1>1. Objects(v) # {}
  <2>1. 1 \in 1 .. Size[v]
    <3>1. Size[v] \in Nat \ {0}
      BY MigrationsAssumption
    <3> QED
      BY <3>1
  <2>2. <<v, 1>> \in Objects(v)
    BY <2>1 DEF Objects
  <2> QED
    BY <2>2
<1>2. pending[p] # {}
  BY <1>1 DEF CommitScript
<1>3. pending[p] = Objects(v) /\ writer = p
  BY <1>2 DEF CommitScript, PendingIsOwn
<1>4. objects' = objects \cup Objects(v)
  BY <1>3 DEF CommitScript
<1>5. TypeOK'
  BY <1>4 DEF CommitScript, TypeOK
<1>6. WholeOrNotAtAll'
  BY <1>4, ObjectsDisjoint DEF WholeOrNotAtAll
<1>7. (RecordedInOrder /\ ReadyMeansMigrated)'
  BY <1>4 DEF CommitScript, TypeOK, RecordedInOrder, ReadyMeansMigrated
<1>8. PendingIsOwn'
  <2>1. \A q \in Proc \ {p} : pending[q] = {}
    BY <1>3, PendingElsewhere
  <2>2. \A q \in Proc : pending'[q] = {}
    BY <2>1 DEF CommitScript, TypeOK
  <2> QED
    BY <2>2 DEF PendingIsOwn
<1>9. Ahead'
  BY <1>4 DEF CommitScript, TypeOK, Ahead, IsNext
<1> QED
  BY <1>5, <1>6, <1>7, <1>8, <1>9

(* What is recorded is there, and so is everything before it. *)
LEMMA RecordStep ==
  ASSUME IInv, NEW p \in Proc, NEW v \in Version, Record(p, v)
  PROVE  IInv'
<1> USE DEF IInv
<1>1. Objects(v) \subseteq objects
  <2>1. PICK w \in Version : IsNext(p, w) /\ Objects(w) \subseteq objects
    BY DEF Record, Ahead
  <2>2. w = v
    BY <2>1, NextUnique DEF Record
  <2> QED
    BY <2>1, <2>2
<1>2. \A w \in Version : w < v => w \in recorded
  <2> SUFFICES ASSUME NEW w \in Version, w < v PROVE w \in recorded
    OBVIOUS
  <2>1. v \in Nat /\ w \in Nat
    BY MigrationsAssumption
  <2>2. w \notin todo[p]
    BY <2>1 DEF Record, IsNext
  <2> QED
    BY <2>2 DEF Record, Ahead
<1>3. TypeOK'
  BY DEF Record, TypeOK
<1>4. WholeOrNotAtAll'
  BY DEF Record, WholeOrNotAtAll
<1>5. RecordedInOrder'
  BY <1>1, <1>2 DEF Record, RecordedInOrder
<1>6. ReadyMeansMigrated'
  BY DEF Record, TypeOK, ReadyMeansMigrated
<1>7. PendingIsOwn'
  BY DEF Record, TypeOK, PendingIsOwn, IsNext
<1>8. Ahead'
  BY DEF Record, TypeOK, Ahead, IsNext
<1> QED
  BY <1>3, <1>4, <1>5, <1>6, <1>7, <1>8

(***************************************************************************)
(* The strengthened invariant holds in every state.                        *)
(***************************************************************************)
THEOREM MigrationsInvariance == Spec => []IInv
<1>1. IInv /\ [Next]_vars => IInv'
  <2> SUFFICES ASSUME IInv, [Next]_vars PROVE IInv'
    OBVIOUS
  <2>1. CASE Next
    <3>1. PICK p \in Proc : Start(p) \/ Step(p) \/ Fail(p)
      BY <2>1 DEF Next
    <3>2. CASE Start(p) \/ Ready(p) \/ Close(p) \/ Fail(p)
      BY <3>2, QuietSteps
    <3>3. CASE Begin(p)
      BY <3>3, BeginStep
    <3>4. CASE \E v \in Version : Apply(p, v)
      <4>1. PICK v \in Version : Apply(p, v)
        BY <3>4
      <4> QED
        BY <4>1, CreateStep, AlreadyExistsStep, CommitStep, RecordStep DEF Apply
    <3> QED
      BY <3>1, <3>2, <3>3, <3>4 DEF Step
  <2>2. CASE UNCHANGED vars
    BY <2>2 DEF vars, IInv, TypeOK, WholeOrNotAtAll, RecordedInOrder,
       ReadyMeansMigrated, PendingIsOwn, Ahead, IsNext
  <2> QED
    BY <2>1, <2>2
<1> QED
  BY InitInvariant, <1>1, PTL DEF Spec

(* The database and the processes that migrate it stay well typed.        *)
THEOREM MigrationTypes == Spec => []TypeOK
<1>1. IInv => TypeOK
  BY DEF IInv
<1> QED
  BY MigrationsInvariance, <1>1, PTL

(***************************************************************************)
(* Whoever runs apply_migrations, together or again after a failure, no    *)
(* file is left half applied (connection.py:238-245).                      *)
(***************************************************************************)
THEOREM NoHalfMigration == Spec => []WholeOrNotAtAll
<1>1. IInv => WholeOrNotAtAll
  BY DEF IInv
<1> QED
  BY MigrationsInvariance, <1>1, PTL

(* schema_migrations is in order and true (connection.py:259-273).         *)
THEOREM RecordIsTrue == Spec => []RecordedInOrder
<1>1. IInv => RecordedInOrder
  BY DEF IInv
<1> QED
  BY MigrationsInvariance, <1>1, PTL

(* Who goes on after apply_migrations has the whole schema.                *)
THEOREM ReadyHasSchema == Spec => []ReadyMeansMigrated
<1>1. IInv => ReadyMeansMigrated
  BY DEF IInv
<1> QED
  BY MigrationsInvariance, <1>1, PTL
===============================================================================
