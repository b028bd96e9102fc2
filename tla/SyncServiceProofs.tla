--------------------------- MODULE SyncServiceProofs ---------------------------
(***************************************************************************)
(* Proofs about SyncService, for every number of runs, streams and events. *)
(* IInv is inductive: one lemma per action, and in it one step for each    *)
(* conjunct of IInv.  The safety properties follow from IInv, and so does  *)
(* the refinement of IdempotentIngest.                                     *)
(***************************************************************************)
EXTENDS SyncService, TLAPS

USE SyncAssumption

(* The initial state satisfies the inductive invariant. *)
LEMMA InitIInv == Init => IInv
BY DEF Init, IInv, TypeOK, LockInv, WorkInv, LocalInv, WindowInv,
       CursorBacked, NothingLost, stored, Owed, Window, Storable, NoneNewer

(* A venue publishing an event disturbs only the claims about Owed. *)
LEMMA PublishIInv ==
  ASSUME IInv, NEW x \in Event, Publish(x)
  PROVE  IInv'
<1> USE DEF IInv, Publish, dbVars, runVars
<1>1. TypeOK'
  BY DEF TypeOK
<1>2. LockInv' /\ CursorBacked'
  BY DEF LockInv, CursorBacked, stored
<1>3. WorkInv'
  BY DEF WorkInv, Current, Storable
<1>4. LocalInv'
  BY DEF LocalInv, Current
<1>5. Owed' \subseteq Owed \cup {x}
  BY DEF Owed, stored
<1>6. ASSUME NEW s \in Stream, cursor[s] # None
      PROVE  cursor[s] \in published /\ StreamOf[cursor[s]] = s
  BY <1>6 DEF CursorBacked, WorkInv, stored, TypeOK
<1>7. NothingLost'
  BY <1>5, <1>6 DEF NothingLost, Window, Owed, TypeOK
<1>8. WindowInv'
  <2> SUFFICES ASSUME NEW r \in Run, NEW e \in Owed', pc[r] # "idle",
                      StreamOf[e] = Current(r), Current(r) \in Ordered
               PROVE  /\ pc[r] = "fetch" => e \in Window(since[r])
                      /\ pc[r] = "write" => \/ e \in todo[r]
                                            \/ lock = r /\ work[e] > 0
                                            \/ NoneNewer(r, e)
    BY DEF WindowInv, Current, Window, NoneNewer
  <2>1. CASE e \in Owed
    BY <2>1 DEF WindowInv
  <2>2. CASE e = x
    BY <2>2 DEF Window, NoneNewer, LocalInv, TypeOK
  <2> QED BY <2>1, <2>2, <1>5
<1> QED BY <1>1, <1>2, <1>3, <1>4, <1>7, <1>8

(* A process that begins a stream has nothing in flight. *)
LEMMA StartIInv ==
  ASSUME IInv, NEW p \in Run, Start(p)
  PROVE  IInv'
<1> USE DEF IInv, Start, dbVars, runVars
<1>1. TypeOK'
  BY DEF TypeOK
<1>2. LockInv' /\ CursorBacked' /\ NothingLost'
  BY DEF LockInv, CursorBacked, NothingLost, Owed, stored, Window, TypeOK
<1>3. WorkInv'
  BY DEF WorkInv, LockInv, Current, TypeOK
<1>4. LocalInv'
  BY DEF LocalInv, Current, TypeOK
<1>5. WindowInv'
  BY DEF WindowInv, Owed, stored, Window, NoneNewer, Current, TypeOK
<1> QED BY <1>1, <1>2, <1>3, <1>4, <1>5

(* A cursor that is read may be older than the stored one, never ahead of the data. *)
LEMMA ReadCursorIInv ==
  ASSUME IInv, NEW p \in Run, ReadCursor(p)
  PROVE  IInv'
<1> USE DEF IInv, ReadCursor, dbVars, runVars
<1>0. Current(p) \in Stream
  BY DEF TypeOK, Current
<1>1. TypeOK'
  BY <1>0 DEF TypeOK
<1>2. LockInv' /\ CursorBacked' /\ NothingLost'
  BY DEF LockInv, CursorBacked, NothingLost, Owed, stored, Window, TypeOK
<1>3. WorkInv'
  BY DEF WorkInv, LockInv, Current, TypeOK
<1>4. LocalInv'
  BY <1>0 DEF LocalInv, Current, TypeOK, CursorBacked, WorkInv, stored
<1>5. WindowInv'
  BY <1>0 DEF WindowInv, NothingLost, Owed, stored, Window, NoneNewer,
              Current, TypeOK
<1> QED BY <1>1, <1>2, <1>3, <1>4, <1>5

(* What is fetched are events at or after the cursor that was read. *)
LEMMA FetchIInv ==
  ASSUME IInv, NEW p \in Run, Fetch(p)
  PROVE  IInv'
<1> USE DEF IInv, Fetch, dbVars, runVars
<1>1. TypeOK'
  BY DEF TypeOK, Fetched
<1>2. LockInv' /\ CursorBacked' /\ NothingLost'
  BY DEF LockInv, CursorBacked, NothingLost, Owed, stored, Window, TypeOK
<1>3. WorkInv'
  BY DEF WorkInv, LockInv, Current, TypeOK
<1>4. LocalInv'
  BY DEF LocalInv, Current, TypeOK, Fetched
<1>5. WindowInv'
  BY DEF WindowInv, Owed, stored, Window, NoneNewer, Current, TypeOK,
         Fetched, Storable
<1> QED BY <1>1, <1>2, <1>3, <1>4, <1>5

(* An insert moves one row from the batch into the transaction. *)
LEMMA InsertRowIInv ==
  ASSUME IInv, NEW p \in Run, NEW x \in Event, InsertRow(p, x)
  PROVE  IInv'
<1> USE DEF IInv, InsertRow, Inserted, Handle, Newer, dbVars, runVars
<1>1. TypeOK'
  BY DEF TypeOK
<1>2. LockInv'
  BY DEF LockInv, TypeOK
<1>3. CursorBacked' /\ NothingLost'
  BY DEF CursorBacked, NothingLost, Owed, stored, Window, TypeOK
<1>4. LocalInv'
  BY DEF LocalInv, Current, TypeOK
<1>5. WorkInv'
  <2>1. \A e \in Event : work[e] <= work'[e] /\ work'[e] <= 1
    BY DEF WorkInv, TypeOK
  <2>2. \A e \in Event : rows'[e] <= work'[e] /\ work'[e] <= 1
    BY <2>1 DEF WorkInv, TypeOK
  <2>3. \A e \in Event : work'[e] > 0 => e \in published \cap Storable
    BY DEF WorkInv, TypeOK, LocalInv, Storable
  <2>4. newest'[p] \in Event /\ work'[newest'[p]] > 0
    BY DEF WorkInv, TypeOK, LockInv
  <2>5. ASSUME NEW e \in Event, work'[e] > rows[e]
        PROVE  StreamOf[e] = Current(p) /\ Time[e] <= Time[newest'[p]]
    <3>1. CASE e = x
      BY <3>1 DEF LocalInv, TypeOK
    <3>2. CASE e # x
      BY <2>5, <3>2 DEF WorkInv, LockInv, TypeOK
    <3> QED BY <3>1, <3>2
  <2> QED BY <2>2, <2>3, <2>4, <2>5 DEF WorkInv, Current, TypeOK
<1>6. WindowInv'
  <2> SUFFICES ASSUME NEW r \in Run, NEW e \in Owed, pc[r] # "idle",
                      StreamOf[e] = Current(r), Current(r) \in Ordered
               PROVE  /\ pc[r] = "fetch" => e \in Window(since[r])
                      /\ pc[r] = "write" => \/ e \in todo'[r]
                                            \/ lock' = r /\ work'[e] > 0
                                            \/ NoneNewer(r, e)'
    BY DEF WindowInv, Current, Window, NoneNewer, Owed, stored
  <2>1. CASE r = p
    <3>1. pc[r] = "write" /\ lock' = r
      BY <2>1
    <3>2. \/ e \in todo[r]
          \/ work[e] > 0
          \/ NoneNewer(r, e)
      BY <3>1 DEF WindowInv
    <3>3. work'[x] > 0 /\ (work[e] > 0 => work'[e] > 0)
      BY DEF TypeOK, Owed
    <3>4. e # x /\ e \in todo[r] => e \in todo'[r]
      BY <2>1 DEF TypeOK
    <3>5. newest'[p] \in {x, newest[p]} /\ todo'[p] \subseteq todo[p]
      BY DEF TypeOK
    <3>6. NoneNewer(r, e) => NoneNewer(r, e)'
      BY <2>1, <3>5 DEF NoneNewer, TypeOK
    <3> QED BY <3>1, <3>2, <3>3, <3>4, <3>6
  <2>2. CASE r # p
    BY <2>2 DEF WindowInv, LockInv, NoneNewer, Window, TypeOK, Owed
  <2> QED BY <2>1, <2>2
<1> QED BY <1>1, <1>2, <1>3, <1>4, <1>5, <1>6

(* A refused row leaves the batch and moves nothing. *)
LEMMA RefuseRowIInv ==
  ASSUME IInv, NEW p \in Run, NEW x \in Event, RefuseRow(p, x)
  PROVE  IInv'
<1> USE DEF IInv, RefuseRow, dbVars, runVars
<1>1. TypeOK'
  BY DEF TypeOK
<1>2. LockInv' /\ CursorBacked' /\ NothingLost'
  BY DEF LockInv, CursorBacked, NothingLost, Owed, stored, Window, TypeOK
<1>3. WorkInv'
  BY DEF WorkInv, LockInv, Current, TypeOK
<1>4. LocalInv'
  BY DEF LocalInv, Current, TypeOK
<1>5. WindowInv'
  BY DEF WindowInv, Owed, stored, Window, NoneNewer, Current, TypeOK, Storable
<1> QED BY <1>1, <1>2, <1>3, <1>4, <1>5

(* A commit makes rows and cursor visible together. *)
LEMMA CommitIInv ==
  ASSUME IInv, NEW p \in Run, Commit(p)
  PROVE  IInv'
<1> USE DEF IInv, Commit, After, dbVars, runVars
<1>0. Current(p) \in Stream /\ plan[p] # <<>>
  BY DEF TypeOK, Current
<1>1. TypeOK'
  <2>1. Tail(plan[p]) \in Seq(Stream)
    BY <1>0 DEF TypeOK
  <2>2. /\ rows' \in [Event -> Nat]
        /\ cursor' \in [Stream -> Event \cup {None}]
        /\ lock' \in Run \cup {None}
    BY DEF TypeOK
  <2>3. /\ pc' \in [Run -> {"idle", "cursor", "fetch", "write"}]
        /\ plan' \in [Run -> Seq(Stream)]
        /\ \A r \in Run : pc'[r] # "idle" => plan'[r] # <<>>
    BY <2>1 DEF TypeOK
  <2> QED BY <2>2, <2>3 DEF TypeOK
<1>2. LockInv'
  BY DEF LockInv, TypeOK
<1>3. \A e \in Event : rows[e] <= rows'[e] /\ rows'[e] <= work'[e]
  BY DEF WorkInv, TypeOK
<1>4. WorkInv'
  BY <1>3 DEF WorkInv, LockInv, Current, TypeOK
<1>5. LocalInv'
  BY DEF LocalInv, Current, TypeOK
<1>6. Owed' \subseteq Owed
  BY <1>3 DEF Owed, stored, TypeOK
<1>7. CursorBacked'
  <2>1. CASE lock = p
    <3>1. /\ newest[p] \in Event
          /\ work[newest[p]] > 0
          /\ StreamOf[newest[p]] = Current(p)
      BY <2>1 DEF WorkInv, LockInv, LocalInv, TypeOK
    <3>2. rows' = work /\ cursor' = [cursor EXCEPT ![Current(p)] = newest[p]]
      BY <2>1
    <3>3. newest[p] \in stored' /\ stored \subseteq stored'
      BY <1>3, <3>1, <3>2 DEF stored, TypeOK
    <3>4. ASSUME NEW s \in Stream, cursor'[s] # None
          PROVE  cursor'[s] \in stored' /\ StreamOf[cursor'[s]] = s
      <4>1. CASE s = Current(p)
        BY <3>1, <3>2, <3>3, <4>1 DEF TypeOK
      <4>2. CASE s # Current(p)
        BY <3>2, <3>3, <3>4, <4>2 DEF CursorBacked, TypeOK
      <4> QED BY <4>1, <4>2
    <3> QED BY <3>4 DEF CursorBacked
  <2>2. CASE lock # p
    <3>1. rows' = rows /\ cursor' = cursor
      BY <2>2
    <3> QED BY <3>1 DEF CursorBacked, stored
  <2> QED BY <2>1, <2>2
<1>8. NothingLost'
  <2> SUFFICES ASSUME NEW e \in Owed', StreamOf[e] \in Ordered
               PROVE  e \in Window(cursor'[StreamOf[e]])
    BY DEF NothingLost, Window
  <2>1. CASE lock = p /\ StreamOf[e] = Current(p)
    <3>1. work[e] = 0
      BY <2>1 DEF Owed, stored, TypeOK
    <3>2. NoneNewer(p, e)
      BY <1>0, <1>6, <2>1, <3>1 DEF WindowInv
    <3> QED
      BY <1>0, <2>1, <3>2, <1>6 DEF NoneNewer, Window, TypeOK, LockInv, Owed
  <2>2. CASE lock # p \/ StreamOf[e] # Current(p)
    BY <1>0, <1>6, <2>2 DEF NothingLost, TypeOK, Owed
  <2> QED BY <2>1, <2>2
<1>9. WindowInv'
  <2> SUFFICES ASSUME NEW r \in Run, NEW e \in Owed, e \in Owed', r # p,
                      pc[r] # "idle",
                      StreamOf[e] = Current(r), Current(r) \in Ordered
               PROVE  /\ pc[r] = "fetch" => e \in Window(since[r])
                      /\ pc[r] = "write" => \/ e \in todo[r]
                                            \/ lock' = r /\ work[e] > 0
                                            \/ NoneNewer(r, e)
    BY <1>6 DEF WindowInv, Current, Window, NoneNewer, TypeOK
  <2> QED BY DEF WindowInv, LockInv
<1> QED BY <1>1, <1>2, <1>4, <1>5, <1>7, <1>8, <1>9

(* A rollback or a crash drops the transaction. *)
LEMMA AbortIInv ==
  ASSUME IInv, NEW p \in Run, Abort(p)
  PROVE  IInv'
<1> USE DEF IInv, Abort, dbVars, runVars
<1>1. TypeOK'
  BY DEF TypeOK
<1>2. LockInv' /\ CursorBacked' /\ NothingLost'
  BY DEF LockInv, CursorBacked, NothingLost, Owed, stored, Window, TypeOK
<1>3. WorkInv'
  BY DEF WorkInv, LockInv, Current, TypeOK
<1>4. LocalInv'
  BY DEF LocalInv, Current, TypeOK
<1>5. WindowInv'
  BY DEF WindowInv, LockInv, Owed, stored, Window, NoneNewer, Current, TypeOK
<1> QED BY <1>1, <1>2, <1>3, <1>4, <1>5

(* Every step, the stuttering one included, preserves the invariant. *)
LEMMA NextIInv == IInv /\ [Next]_vars => IInv'
<1> SUFFICES ASSUME IInv, [Next]_vars PROVE IInv'
  OBVIOUS
<1>1. CASE \E e \in Event : Publish(e)
  BY <1>1, PublishIInv
<1>2. ASSUME NEW r \in Run, Progress(r) \/ Abort(r)
      PROVE  IInv'
  BY <1>2, StartIInv, ReadCursorIInv, FetchIInv, InsertRowIInv,
     RefuseRowIInv, CommitIInv, AbortIInv DEF Progress
<1>3. CASE UNCHANGED vars
  BY <1>3 DEF vars, dbVars, runVars, IInv, TypeOK, LockInv, WorkInv, LocalInv,
     WindowInv, CursorBacked, NothingLost, stored, Owed, Window, NoneNewer,
     Current
<1> QED BY <1>1, <1>2, <1>3 DEF Next

(* The inductive invariant holds in every reachable state. *)
THEOREM Invariance == Spec => []IInv
BY InitIInv, NextIInv, PTL DEF Spec

(***************************************************************************)
(* Type correctness: the tables, the cursors and what the runs remember.   *)
(***************************************************************************)
THEOREM Types == Spec => []TypeOK
<1>1. IInv => TypeOK
  BY DEF IInv
<1> QED BY <1>1, Invariance, PTL

(***************************************************************************)
(* Overlapping windows, runs and failures never store an event twice       *)
(* (sync.py:10-18).                                                        *)
(***************************************************************************)
THEOREM StoredOnce == Spec => []NoDuplicates
<1>1. IInv => NoDuplicates
  BY DEF IInv, NoDuplicates, WorkInv, TypeOK
<1> QED BY <1>1, Invariance, PTL

(***************************************************************************)
(* A cursor always names an event that is stored (sync.py:20-24).          *)
(***************************************************************************)
THEOREM CursorsBacked == Spec => []CursorBacked
<1>1. IInv => CursorBacked
  BY DEF IInv
<1> QED BY <1>1, Invariance, PTL

(***************************************************************************)
(* Nothing that a venue publishes in order is ever behind its cursor       *)
(* without being stored.                                                   *)
(***************************************************************************)
THEOREM Lossless == Spec => []NothingLost
<1>1. IInv => NothingLost
  BY DEF IInv
<1> QED BY <1>1, Invariance, PTL

(***************************************************************************)
(* The transaction a run commits is one atomic step of IdempotentIngest:   *)
(* its batch is what the transaction added, and the event the cursor names.*)
(***************************************************************************)
LEMMA CommitIngests ==
  ASSUME IInv, IInv', NEW p \in Run, Commit(p), lock = p
  PROVE  Ingest!Next
<1> DEFINE batch == {e \in Event : work[e] > rows[e]} \cup {newest[p]}
<1>1. Current(p) \in Stream
  BY DEF IInv, TypeOK, LockInv, Current
<1>2. rows' = work /\ published' = published
  BY DEF Commit
<1>3. cursor' = [cursor EXCEPT ![Current(p)] = newest[p]]
  BY DEF Commit
<1>4. /\ newest[p] \in Event
      /\ work[newest[p]] > 0
      /\ StreamOf[newest[p]] = Current(p)
  BY DEF IInv, WorkInv, LockInv, LocalInv, TypeOK, Commit
<1>5. batch \subseteq published \cap Storable
  BY <1>4 DEF IInv, WorkInv, TypeOK
<1>6. \A e \in batch :
        StreamOf[e] = Current(p) /\ Time[newest[p]] >= Time[e]
  BY <1>4 DEF IInv, WorkInv, TypeOK
<1>7. stored' = stored \cup batch
  <2>1. \A e \in Event : work[e] > 0 <=> rows[e] > 0 \/ e \in batch
    BY <1>4 DEF IInv, WorkInv, TypeOK
  <2> QED BY <1>2, <1>4, <2>1 DEF stored
<1>8. Current(p) \in Ordered =>
        \A e \in (published \cap Storable) \ stored' :
          StreamOf[e] = Current(p) => e \in Ingest!Window(newest[p])
  BY <1>1, <1>2, <1>3
     DEF IInv, TypeOK, NothingLost, Owed, Window, Ingest!Window
<1>9. Ingest!Ingest(Current(p), newest[p], batch)
  BY <1>2, <1>3, <1>5, <1>6, <1>7, <1>8
     DEF Ingest!Ingest, Ingest!Storable, Storable
<1>10. newest[p] \in batch
         /\ batch \in SUBSET {e \in published : StreamOf[e] = Current(p)}
  BY <1>5, <1>6
<1> QED BY <1>1, <1>9, <1>10 DEF Ingest!Next

(* Every other step leaves what the abstract specification sees alone. *)
LEMMA StepIngests ==
  IInv /\ IInv' /\ [Next]_vars => [Ingest!Next]_Ingest!vars
<1> SUFFICES ASSUME IInv, IInv', [Next]_vars
             PROVE  Ingest!Next \/ UNCHANGED Ingest!vars
  OBVIOUS
<1>1. CASE \E e \in Event : Publish(e)
  BY <1>1 DEF Publish, dbVars, runVars, stored, Ingest!Next, Ingest!Publish
<1>2. ASSUME NEW r \in Run, Progress(r) \/ Abort(r),
             ~(Commit(r) /\ lock = r)
      PROVE  UNCHANGED Ingest!vars
  <2>1. UNCHANGED <<published, rows, cursor>>
    BY <1>2 DEF Progress, Start, ReadCursor, Fetch, InsertRow, Handle,
                RefuseRow, Commit, Abort, dbVars
  <2> QED BY <2>1 DEF Ingest!vars, stored
<1>3. CASE UNCHANGED vars
  BY <1>3 DEF vars, dbVars, Ingest!vars, stored
<1> QED BY <1>1, <1>2, <1>3, CommitIngests DEF Next

(***************************************************************************)
(* sync.py implements the atomic ingest: however runs overlap, die or      *)
(* repeat, a reader of the journal sees batches and cursors move together. *)
(***************************************************************************)
THEOREM Refinement == Spec => IngestSpec
<1>1. Init => Ingest!Init
  BY DEF Init, Ingest!Init, stored
<1> QED
  BY <1>1, StepIngests, Invariance, PTL DEF Spec, IngestSpec, Ingest!Spec
===============================================================================
