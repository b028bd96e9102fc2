------------------------ MODULE VariationalImportProofs ------------------------
(***************************************************************************)
(* For any exports, dropped at any time and overlapping in any way: a      *)
(* fetch keeps the first acceptable row of each id and leaves a record of  *)
(* every other, and the journal never changes a row it holds.              *)
(***************************************************************************)
EXTENDS VariationalImport, TLAPS

(* A line that is not a header has a row of its folder's export. *)
LEMMA RowType ==
  ASSUME NEW F \in SUBSET File, NEW p \in Lines(F), p[2] > 0
  PROVE  /\ p[1] \in F /\ p[2] \in DOMAIN Content[p[1]]
         /\ RowAt(p) \in RowsOf(FolderOf[p[1]])
<1>1. PICK f \in F : p \in {f} \X (0 .. Len(Content[f]))
  BY DEF Lines
<1>2. Content[f] \in Seq(RowsOf(FolderOf[f]))
  BY <1>1, ImportAssumption
<1>3. p[1] = f /\ p[2] \in 1 .. Len(Content[f])
  BY <1>1, <1>2
<1>. QED BY <1>2, <1>3 DEF RowAt

(* What is accepted has an id and a timestamp. *)
LEMMA AcceptedRow ==
  ASSUME NEW F \in SUBSET File, NEW p \in Lines(F), p[2] > 0,
         Accepted(FolderOf[p[1]], RowAt(p))
  PROVE  RowAt(p).id \in Id /\ RowAt(p).created_at \in Nat
<1>1. RowAt(p) \in RowsOf(FolderOf[p[1]])
  BY RowType
<1>2. CASE FolderOf[p[1]] = "trades"
  BY <1>1, <1>2 DEF RowsOf, Moment, TradeRow, Accepted, IsFill
<1>3. CASE FolderOf[p[1]] # "trades"
  BY <1>1, <1>3 DEF RowsOf, Moment, TransferRow, Accepted, IsCashFlow
<1>. QED BY <1>2, <1>3

(* A line of some of the files is a line of all of them, and is not None. *)
LEMMA LinesOfFile ==
  ASSUME NEW F \in SUBSET File
  PROVE  Lines(F) \subseteq Lines(File) /\ None \notin Lines(F)
BY ImportAssumption DEF Lines

(* The invariant holds of a fetch that has just begun. *)
LEMMA BeginFetchInv ==
  ASSUME TypeOK, NEW d \in Folder, BeginFetch(d), UNCHANGED dir
  PROVE  /\ stage' = d /\ listed' \in SUBSET File
         /\ since' \in Nat \cup {None} /\ todo' = Lines(listed')
         /\ kept' \in [Id -> Lines(listed') \cup {None}] /\ skipped' = {}
         /\ InOrder' /\ KeepsFirst' /\ NothingSilentlyDropped'
<1>1. /\ stage' = d /\ listed' = {f \in dir : FolderOf[f] = d}
      /\ since' = cursor[d] /\ todo' = Lines(listed')
      /\ kept' = [i \in Id |-> None] /\ skipped' = {}
  BY DEF BeginFetch
<1>2. listed' \in SUBSET File /\ since' \in Nat \cup {None}
  BY <1>1 DEF TypeOK
<1>3. Data' = {}
  BY <1>1 DEF Data
<1>4. \A i \in Id : Candidates(i)' = {}
  BY <1>3 DEF Candidates
<1>5. InOrder'
  BY <1>1 DEF InOrder
<1>6. KeepsFirst'
  BY <1>1, <1>4 DEF KeepsFirst
<1>7. NothingSilentlyDropped'
  BY <1>3, <1>4 DEF NothingSilentlyDropped
<1>. QED BY <1>1, <1>2, <1>5, <1>6, <1>7

(* What every line that is read leaves true, whatever is done with it. *)
LEMMA ReadingInv ==
  ASSUME IInv, NEW p \in todo, Reads(p)
  PROVE  /\ InOrder'
         /\ p \in Lines(listed) /\ listed \in SUBSET File
         /\ \A r \in Data : Precedes(r, p)
         /\ Data' = IF p[2] > 0 THEN Data \cup {p} ELSE Data
         /\ p \notin Data
         /\ p[2] > 0 => FolderOf[p[1]] = stage
<1>1. p \in Lines(listed) /\ listed \in SUBSET File
  BY DEF IInv, TypeOK
<1>2. InOrder'
  BY DEF Reads, IInv, InOrder, TypeOK
<1>3. \A r \in Data : Precedes(r, p)
  BY DEF Reads, IInv, InOrder, Data
<1>4. Data' = IF p[2] > 0 THEN Data \cup {p} ELSE Data
  BY <1>1 DEF Reads, Data
<1>5. p \notin Data
  BY DEF Data
<1>6. p[2] > 0 => FolderOf[p[1]] = stage
  BY <1>1, RowType DEF Reads, IInv, InOrder
<1>. QED BY <1>1, <1>2, <1>3, <1>4, <1>5, <1>6

(* A step that leaves a fetch that is over, or none at all. *)
LEMMA IdleInv ==
  ASSUME stage' = "idle"
  PROVE  InOrder' /\ KeepsFirst' /\ NothingSilentlyDropped'
BY DEF InOrder, KeepsFirst, NothingSilentlyDropped

(* The lines of a fetch under way do not change with the directory. *)
LEMMA SameFetch ==
  ASSUME InOrder, KeepsFirst, NothingSilentlyDropped, UNCHANGED fetchVars
  PROVE  InOrder' /\ KeepsFirst' /\ NothingSilentlyDropped'
<1>1. Data' = Data /\ \A i \in Id : Candidates(i)' = Candidates(i)
  BY DEF fetchVars, Data, Candidates
<1>2. InOrder'
  BY DEF fetchVars, InOrder
<1>3. KeepsFirst'
  BY <1>1 DEF fetchVars, KeepsFirst
<1>4. NothingSilentlyDropped'
  BY <1>1 DEF fetchVars, NothingSilentlyDropped
<1>. QED BY <1>2, <1>3, <1>4

(* Lines that bring no new candidate: headers and refused rows. *)
LEMMA NoCandidateInv ==
  ASSUME IInv, NEW p \in todo, Reads(p), UNCHANGED kept,
         p[2] > 0 => ~Accepted(stage, RowAt(p)),
         skipped \subseteq skipped',
         p[2] > 0 => \E s \in skipped' : s[1] = p
  PROVE  InOrder' /\ KeepsFirst' /\ NothingSilentlyDropped'
<1>1. InOrder' /\ Data' = IF p[2] > 0 THEN Data \cup {p} ELSE Data
  BY ReadingInv
<1>2. stage' = stage /\ stage # "idle"
  BY DEF Reads
<1>3. \A i \in Id : Candidates(i)' = Candidates(i)
  BY <1>1, <1>2 DEF Candidates, RowAt
<1>4. KeepsFirst'
  BY <1>2, <1>3 DEF KeepsFirst, IInv
<1>5. NothingSilentlyDropped'
  <2>1. ASSUME NEW r \in Data'
        PROVE  (\E i \in Id : kept'[i] = r) \/ (\E s \in skipped' : s[1] = r)
    BY <1>1, <1>2 DEF NothingSilentlyDropped, IInv
  <2>2. ASSUME NEW i \in Id, NEW r \in Candidates(i), NEW q \in Candidates(i),
               RowAt(r) # RowAt(q)
        PROVE  \E s \in skipped' : s[2] = "conflict" /\ RowAt(s[1]).id = i
    BY <1>2, <2>2 DEF NothingSilentlyDropped, IInv
  <2>. QED BY <2>1, <2>2, <1>3 DEF NothingSilentlyDropped, RowAt
<1>. QED BY <1>1, <1>4, <1>5

(* The first acceptable row of an id is kept. *)
LEMMA KeepInv ==
  ASSUME IInv, NEW p \in todo, Keep(p)
  PROVE  TypeOK' /\ InOrder' /\ KeepsFirst' /\ NothingSilentlyDropped'
<1>. DEFINE j == RowAt(p).id
<1>1. Reads(p) /\ p[2] > 0 /\ Accepted(stage, RowAt(p)) /\ kept[j] = None
      /\ kept' = [kept EXCEPT ![j] = p] /\ skipped' = skipped
  BY DEF Keep
<1>2. /\ InOrder' /\ p \in Lines(listed) /\ listed \in SUBSET File
      /\ Data' = Data \cup {p} /\ FolderOf[p[1]] = stage
  BY <1>1, ReadingInv
<1>3. j \in Id
  BY <1>1, <1>2, AcceptedRow
<1>4. stage' = stage /\ stage # "idle" /\ listed' = listed
  BY <1>1 DEF Reads
<1>5. Candidates(j) = {}
  BY <1>1, <1>2, <1>3, <1>4, LinesOfFile DEF IInv, KeepsFirst, Candidates, Data
<1>6. Candidates(j)' = {p}
  BY <1>1, <1>2, <1>4, <1>5 DEF Candidates, RowAt
<1>7. \A i \in Id \ {j} : Candidates(i)' = Candidates(i)
  BY <1>1, <1>2, <1>4 DEF Candidates, RowAt
<1>8. kept \in [Id -> Lines(listed) \cup {None}]
  BY DEF IInv, TypeOK
<1>9. kept'[j] = p /\ \A i \in Id \ {j} : kept'[i] = kept[i]
  BY <1>1, <1>3, <1>8
<1>10. TypeOK'
  BY <1>1, <1>2, <1>3, <1>4, <1>8 DEF IInv, TypeOK, Reads
<1>11. KeepsFirst'
  <2>1. ASSUME NEW i \in Id
        PROVE  IF Candidates(i)' = {} THEN kept'[i] = None
                 ELSE /\ kept'[i] \in Candidates(i)'
                      /\ \A q \in Candidates(i)' : q = kept'[i] \/ Precedes(kept'[i], q)
    <3>1. CASE i = j
      BY <3>1, <1>6, <1>9
    <3>2. CASE i # j
      BY <3>2, <1>4, <1>7, <1>9 DEF IInv, KeepsFirst
    <3>. QED BY <3>1, <3>2
  <2>. QED BY <2>1, <1>4 DEF KeepsFirst, Precedes
<1>12. NothingSilentlyDropped'
  <2>1. ASSUME NEW r \in Data'
        PROVE  (\E i \in Id : kept'[i] = r) \/ (\E s \in skipped' : s[1] = r)
    <3>1. CASE r = p
      BY <3>1, <1>3, <1>9
    <3>2. CASE r # p
      <4>1. r \in Data
        BY <3>2, <1>2
      <4>2. CASE \E s \in skipped : s[1] = r
        BY <4>2, <1>1
      <4>3. CASE \E i \in Id : kept[i] = r
        <5>1. PICK i \in Id : kept[i] = r
          BY <4>3
        <5>2. r # None
          BY <4>1, <1>2, LinesOfFile DEF Data
        <5>3. kept'[i] = r
          BY <5>1, <5>2, <1>1, <1>9
        <5>. QED BY <5>3
      <4>. QED BY <4>1, <4>2, <4>3, <1>4 DEF IInv, NothingSilentlyDropped
    <3>. QED BY <3>1, <3>2
  <2>2. ASSUME NEW i \in Id, NEW r \in Candidates(i)', NEW q \in Candidates(i)',
               RowAt(r) # RowAt(q)
        PROVE  \E s \in skipped' : s[2] = "conflict" /\ RowAt(s[1]).id = i
    <3>1. i # j
      BY <2>2, <1>6
    <3>2. r \in Candidates(i) /\ q \in Candidates(i)
      BY <3>1, <1>7
    <3>. QED BY <2>2, <3>2, <1>1, <1>4 DEF IInv, NothingSilentlyDropped
  <2>. QED BY <2>1, <2>2 DEF NothingSilentlyDropped, RowAt
<1>. QED BY <1>2, <1>10, <1>11, <1>12

(* A row whose id is kept already goes on record. *)
LEMMA RepeatInv ==
  ASSUME IInv, NEW p \in todo, Repeat(p)
  PROVE  TypeOK' /\ InOrder' /\ KeepsFirst' /\ NothingSilentlyDropped'
<1>. DEFINE j == RowAt(p).id
            reason == IF RowAt(kept[j]) = RowAt(p) THEN "duplicate" ELSE "conflict"
<1>1. Reads(p) /\ p[2] > 0 /\ Accepted(stage, RowAt(p)) /\ kept[j] # None
      /\ kept' = kept /\ skipped' = skipped \cup {<<p, reason>>}
  BY DEF Repeat, Skips, Verdict
<1>2. /\ InOrder' /\ p \in Lines(listed) /\ listed \in SUBSET File
      /\ Data' = Data \cup {p} /\ FolderOf[p[1]] = stage
      /\ \A r \in Data : Precedes(r, p)
  BY <1>1, ReadingInv
<1>3. j \in Id
  BY <1>1, <1>2, AcceptedRow
<1>4. stage' = stage /\ stage # "idle" /\ listed' = listed
  BY <1>1 DEF Reads
<1>5. kept[j] \in Candidates(j)
  BY <1>1, <1>3, <1>4 DEF IInv, KeepsFirst
<1>6. Candidates(j)' = Candidates(j) \cup {p}
  BY <1>1, <1>2, <1>4 DEF Candidates, RowAt
<1>7. \A i \in Id \ {j} : Candidates(i)' = Candidates(i)
  BY <1>1, <1>2, <1>4 DEF Candidates, RowAt
<1>8. TypeOK'
  BY <1>1, <1>2, <1>4 DEF IInv, TypeOK, Reads
<1>9. KeepsFirst'
  <2>1. ASSUME NEW i \in Id
        PROVE  IF Candidates(i)' = {} THEN kept'[i] = None
                 ELSE /\ kept'[i] \in Candidates(i)'
                      /\ \A q \in Candidates(i)' : q = kept'[i] \/ Precedes(kept'[i], q)
    <3>1. CASE i = j
      <4>1. Precedes(kept[j], p)
        BY <1>2, <1>5 DEF Candidates
      <4>2. \A q \in Candidates(j) : q = kept[j] \/ Precedes(kept[j], q)
        BY <1>3, <1>4, <1>5 DEF IInv, KeepsFirst
      <4>. QED BY <3>1, <4>1, <4>2, <1>1, <1>5, <1>6
    <3>2. CASE i # j
      BY <3>2, <1>1, <1>4, <1>7 DEF IInv, KeepsFirst
    <3>. QED BY <3>1, <3>2
  <2>. QED BY <2>1, <1>4 DEF KeepsFirst, Precedes
<1>10. NothingSilentlyDropped'
  <2>. DEFINE Noted(i) == \E s \in skipped' : s[2] = "conflict" /\ RowAt(s[1]).id = i
  <2>1. ASSUME NEW r \in Data'
        PROVE  (\E i \in Id : kept'[i] = r) \/ (\E s \in skipped' : s[1] = r)
    <3>1. CASE r = p
      <4>1. <<p, reason>> \in skipped' /\ <<p, reason>>[1] = p
        BY <1>1
      <4>. QED BY <3>1, <4>1
    <3>2. CASE r # p
      BY <3>2, <1>1, <1>2, <1>4 DEF IInv, NothingSilentlyDropped
    <3>. QED BY <3>1, <3>2
  <2>2. ASSUME NEW i \in Id, NEW r \in Candidates(i), NEW q \in Candidates(i),
               RowAt(r) # RowAt(q)
        PROVE  Noted(i)
    BY <2>2, <1>1, <1>4 DEF IInv, NothingSilentlyDropped
  <2>3. ASSUME NEW r \in Candidates(j), RowAt(r) # RowAt(p)
        PROVE  Noted(j)
    <3>1. CASE RowAt(kept[j]) = RowAt(p)
      BY <3>1, <2>2, <2>3, <1>3, <1>5
    <3>2. CASE RowAt(kept[j]) # RowAt(p)
      <4>1. <<p, "conflict">> \in skipped'
        BY <3>2, <1>1
      <4>. QED BY <4>1
    <3>. QED BY <3>1, <3>2
  <2>4. ASSUME NEW i \in Id, NEW r \in Candidates(i)', NEW q \in Candidates(i)',
               RowAt(r) # RowAt(q)
        PROVE  Noted(i)
    <3>1. CASE i # j
      BY <3>1, <2>2, <2>4, <1>7
    <3>2. CASE i = j
      BY <3>2, <2>2, <2>3, <2>4, <1>6
    <3>. QED BY <3>1, <3>2
  <2>. QED BY <2>1, <2>4 DEF NothingSilentlyDropped, RowAt
<1>. QED BY <1>2, <1>8, <1>9, <1>10

(* What a finished fetch stores, and the cursor it leaves, are well-typed. *)
LEMMA StoreTypes ==
  ASSUME IInv, Store
  PROVE  /\ DOMAIN stored' = Folder /\ \A d \in Folder : DOMAIN stored'[d] = Id
         /\ cursor' \in [Folder -> Nat \cup {None}]
<1>1. stage \in Folder /\ stage # "idle"
  BY DEF IInv, TypeOK, Store
<1>2. DOMAIN stored' = Folder /\ \A d \in Folder : DOMAIN stored'[d] = Id
  BY <1>1 DEF IInv, TypeOK, Store
<1>3. ASSUME NEW n \in Selected
      PROVE  RowAt(kept[n]).created_at \in Nat
  <2>1. kept[n] \in Candidates(n)
    BY <1>1, <1>3 DEF IInv, KeepsFirst, Selected
  <2>2. kept[n] \in Lines(listed) /\ kept[n][2] > 0 /\ Accepted(stage, RowAt(kept[n]))
    BY <2>1 DEF Candidates, Data
  <2>3. listed \in SUBSET File
    BY DEF IInv, TypeOK
  <2>4. FolderOf[kept[n][1]] = stage
    BY <1>1, <2>2, <2>3, RowType DEF IInv, InOrder
  <2>. QED BY <2>2, <2>3, <2>4, AcceptedRow
<1>4. cursor' \in [Folder -> Nat \cup {None}]
  <2>1. CASE Selected = {}
    BY <2>1 DEF Store, IInv, TypeOK
  <2>2. CASE Selected # {}
    <3>1. PICK n \in Selected :
            cursor' = [cursor EXCEPT ![stage] = CursorOf(n)]
      BY <2>2 DEF Store
    <3>2. RowAt(kept[n]).created_at \in Nat /\ Ms \in Nat \ {0}
      BY <1>3, <3>1, ImportAssumption
    <3>3. RowAt(kept[n]).created_at \div Ms \in Nat
      BY <3>2
    <3>4. CursorOf(n) \in Nat
      BY <3>3 DEF CursorOf
    <3>. QED BY <3>1, <3>4, <1>1 DEF IInv, TypeOK
  <2>. QED BY <2>1, <2>2
<1>. QED BY <1>2, <1>4

(* The inductive step: one case per action. *)
LEMMA NextInv == IInv /\ [Next]_vars => IInv'
<1>. SUFFICES ASSUME IInv, [Next]_vars PROVE IInv'
  OBVIOUS
<1>. USE DEF IInv
<1>1. CASE \E f \in File : DropFile(f)
  <2>1. UNCHANGED <<fetchVars, stored, cursor, failures>> /\ dir' \subseteq File
    BY <1>1 DEF DropFile, TypeOK
  <2>2. TypeOK'
    BY <2>1 DEF TypeOK, fetchVars
  <2>. QED BY <2>1, <2>2, SameFetch
<1>2. CASE Start
  <2>1. BeginFetch("trades") /\ UNCHANGED <<dir, stored, cursor, failures>>
    BY <1>2 DEF Start
  <2>2. "trades" \in Folder
    BY DEF Folder
  <2>3. TypeOK'
    BY <2>1, <2>2, BeginFetchInv DEF TypeOK
  <2>. QED BY <2>1, <2>2, <2>3, BeginFetchInv
<1>3. CASE \E p \in todo : ReadLine(p)
  <2>1. PICK p \in todo : ReadLine(p)
    BY <1>3
  <2>2. CASE Header(p)
    <3>1. Reads(p) /\ p[2] = 0 /\ UNCHANGED <<kept, skipped>>
      BY <2>2 DEF Header
    <3>2. TypeOK'
      BY <3>1 DEF TypeOK, Reads
    <3>. QED BY <3>1, <3>2, NoCandidateInv
  <2>3. CASE WrongFile(p)
    <3>1. TypeOK' /\ stage' = "idle"
      BY <2>3 DEF WrongFile, TypeOK
    <3>. QED BY <3>1, IdleInv
  <2>4. CASE Refuse(p)
    <3>1. /\ Reads(p) /\ ~Accepted(stage, RowAt(p)) /\ UNCHANGED kept
          /\ skipped' = skipped \cup {<<p, "refused">>}
      BY <2>4 DEF Refuse, Skips
    <3>2. <<p, "refused">>[1] = p /\ <<p, "refused">> \in skipped'
      BY <3>1
    <3>3. TypeOK'
      BY <3>1 DEF TypeOK, Reads
    <3>4. skipped \subseteq skipped'
      BY <3>1
    <3>5. \E s \in skipped' : s[1] = p
      BY <3>2
    <3>. QED BY <3>1, <3>3, <3>4, <3>5, NoCandidateInv
  <2>5. CASE Keep(p)
    BY <2>5, KeepInv
  <2>6. CASE Repeat(p)
    BY <2>6, RepeatInv
  <2>. QED BY <2>1, <2>2, <2>3, <2>4, <2>5, <2>6 DEF ReadLine
<1>4. CASE Store
  <2>1. UNCHANGED <<dir, failures>>
    BY <1>4 DEF Store
  <2>2. CASE stage = "trades"
    <3>1. BeginFetch("transfers") /\ "transfers" \in Folder
      BY <1>4, <2>2 DEF Store, Folder
    <3>2. TypeOK'
      BY <3>1, <2>1, <1>4, StoreTypes, BeginFetchInv DEF TypeOK
    <3>. QED BY <3>1, <3>2, <2>1, BeginFetchInv
  <2>3. CASE stage # "trades"
    <3>1. stage' = "idle" /\ UNCHANGED <<since, todo, listed, kept, skipped>>
      BY <1>4, <2>3 DEF Store
    <3>2. TypeOK'
      BY <3>1, <2>1, <1>4, StoreTypes DEF TypeOK
    <3>. QED BY <3>1, <3>2, IdleInv
  <2>. QED BY <2>2, <2>3
<1>5. CASE Fail
  <2>1. stage' = "idle"
    BY <1>5 DEF Fail
  <2>2. TypeOK'
    BY <1>5, ImportAssumption DEF Fail, TypeOK
  <2>. QED BY <2>1, <2>2, IdleInv
<1>6. CASE UNCHANGED vars
  <2>1. UNCHANGED fetchVars /\ UNCHANGED <<dir, stored, cursor, failures>>
    BY <1>6 DEF vars
  <2>2. TypeOK'
    BY <2>1 DEF TypeOK, fetchVars
  <2>. QED BY <2>1, <2>2, SameFetch
<1>. QED BY <1>1, <1>2, <1>3, <1>4, <1>5, <1>6 DEF Next, Step

(* IInv holds in every state of every run. *)
THEOREM ImportInvariance == Spec => []IInv
<1>1. Init => IInv
  BY ImportAssumption DEF Init, IInv, TypeOK, InOrder, KeepsFirst,
     NothingSilentlyDropped, Folder
<1>2. IInv /\ [Next]_vars => IInv'
  BY NextInv
<1>. QED BY <1>1, <1>2, PTL DEF Spec

(* The database and the fetch under way stay well typed.                   *)
THEOREM ImportTypes == Spec => []TypeOK
<1>1. IInv => TypeOK
  BY DEF IInv
<1>. QED BY <1>1, ImportInvariance, PTL

(* However exports overlap, the first acceptable row of an id is kept, and *)
(* one refused before does not hide it (_first_occurrence, 588-605).       *)
THEOREM FirstRowKept == Spec => []KeepsFirst
<1>1. IInv => KeepsFirst
  BY DEF IInv
<1>. QED BY <1>1, ImportInvariance, PTL

(* Every row read is kept or on record, and so is every conflict           *)
(* (variational.py:77-78 and 606-621).                                     *)
THEOREM NoRowLost == Spec => []NothingSilentlyDropped
<1>1. IInv => NothingSilentlyDropped
  BY DEF IInv
<1>. QED BY <1>1, ImportInvariance, PTL

(* What a finished fetch holds for an id is its first acceptable row.      *)
LEMMA KeptIsFirst ==
  ASSUME IInv, stage \in Folder, stage # "idle", todo = {},
         NEW i \in Id, kept[i] # None
  PROVE  kept[i] \in Lines(listed) /\ FirstOf(kept[i], listed, stage, i)
<1>1. {f \in listed : FolderOf[f] = stage} = listed
  BY DEF IInv, InOrder
<1>2. Candidates(i) = {q \in Lines(listed) :
                         q[2] > 0 /\ Accepted(stage, RowAt(q)) /\ RowAt(q).id = i}
  BY DEF Candidates, Data
<1>3. /\ kept[i] \in Candidates(i)
      /\ \A q \in Candidates(i) : q = kept[i] \/ Precedes(kept[i], q)
  BY DEF IInv, KeepsFirst
<1>. QED BY <1>1, <1>2, <1>3 DEF FirstOf

(* What comes into the journal is the first acceptable row of its id, and  *)
(* no export changes it later (variational.py:30-32 and 602-605).          *)
THEOREM StoredStays == Spec => FirstRowStays
<1>. DEFINE Stays == \A d \in Folder, i \in Id :
              \/ stored'[d][i] = stored[d][i]
              \/ /\ stored[d][i] = None
                 /\ \E p \in Lines(listed) :
                      FirstOf(p, listed, d, i) /\ stored'[d][i] = RowAt(p)
<1>1. IInv /\ [Next]_vars => [Stays]_stored
  <2>. SUFFICES ASSUME IInv, [Next]_vars, stored' # stored,
                       NEW d \in Folder, NEW i \in Id,
                       stored'[d][i] # stored[d][i]
                PROVE  /\ stored[d][i] = None
                       /\ \E p \in Lines(listed) :
                            FirstOf(p, listed, d, i) /\ stored'[d][i] = RowAt(p)
    OBVIOUS
  <2>1. Store
    BY DEF Next, Step, DropFile, Start, ReadLine, Header, WrongFile, Refuse,
           Keep, Repeat, Reads, Fail, vars
  <2>2. stage \in Folder /\ DOMAIN stored = Folder /\ stage # "idle" /\ todo = {}
    BY <2>1 DEF Store, IInv, TypeOK
  <2>3. stored' = [stored EXCEPT ![stage] =
          [j \in Id |-> IF @[j] = None /\ j \in Selected THEN RowAt(kept[j]) ELSE @[j]]]
    BY <2>1 DEF Store
  <2>4. d = stage
    BY <2>2, <2>3
  <2>5. stored[d][i] = None /\ i \in Selected /\ stored'[d][i] = RowAt(kept[i])
    BY <2>2, <2>3, <2>4
  <2>6. kept[i] # None
    BY <2>5 DEF Selected
  <2>7. kept[i] \in Lines(listed) /\ FirstOf(kept[i], listed, d, i)
    BY <2>2, <2>4, <2>6, KeptIsFirst
  <2>. QED BY <2>5, <2>7
<1>. QED BY <1>1, ImportInvariance, PTL DEF Spec, FirstRowStays
===============================================================================
