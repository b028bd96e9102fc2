---------------------------- MODULE HyperliquidProofs ----------------------------
(***************************************************************************)
(* For every history of fills and funding, page size, size of answers and  *)
(* number of runs: a fetch returns a snapshot of the venue and refuses     *)
(* only where it must, and the syncs are atomic, lossless ingests.         *)
(***************************************************************************)
EXTENDS HyperliquidSync, FiniteSetTheorems, TLAPS

(* Times are natural numbers. *)
LEMMA Times == \A e \in Fill \cup Charge : Time[e] \in Nat
  BY FillsAssumption

-------------------------------------------------------------------------------
(* What is published comes no earlier than what was there. *)
LEMMA PublishPreserves ==
  ASSUME IInv, NEW f \in Fill, Publish(f)
  PROVE  IInv'
<1>1. TypeOK'
  BY DEF IInv, TypeOK, Publish
<1>2. published' = published \cup {f} /\ UNCHANGED <<since, start, read>>
  BY DEF Publish
<1>3. (read \subseteq From(since))'
  BY <1>2 DEF IInv, From
<1>4. f \in From(since)' /\ Time[f] < start => f \in read
  <2> SUFFICES ASSUME Time[f] >= since, Time[f] < start PROVE FALSE
    BY <1>2 DEF From
  <2>1. Time[f] \in Nat /\ start \in Nat
    BY Times DEF IInv, TypeOK
  <2>2. CASE start = since
    BY <2>1, <2>2
  <2>3. CASE \E g \in read : Time[g] = start
    <3>1. PICK g \in read : Time[g] = start
      BY <2>3
    <3>2. Time[g] <= Time[f]
      BY <3>1 DEF IInv, TypeOK, Publish
    <3>3. QED
      BY <2>1, <3>1, <3>2
  <2>4. QED
    BY <2>2, <2>3 DEF IInv
<1>5. ({g \in From(since) : Time[g] < start} \subseteq read)'
  BY <1>2, <1>4 DEF IInv, From
<1>6. outcome = "done" =>
        \A g \in From(since)' \ read, h \in read : Time[h] <= Time[g]
  <2> SUFFICES ASSUME outcome = "done", NEW g \in From(since)' \ read, NEW h \in read
               PROVE  Time[h] <= Time[g]
    OBVIOUS
  <2>1. CASE g \in From(since)
    BY <2>1 DEF IInv
  <2>2. CASE g = f
    BY <2>2 DEF IInv, TypeOK, Publish
  <2>3. QED
    BY <1>2, <2>1, <2>2 DEF From
<1>7. QED
  BY <1>1, <1>2, <1>3, <1>5, <1>6 DEF IInv, Publish

(* A fetch begins. *)
LEMMA BeginPreserves ==
  ASSUME IInv, NEW s \in Nat, Begin(s)
  PROVE  IInv'
<1>1. /\ since' = s /\ start' = s /\ read' = {} /\ page' = 0 /\ attempt' = 0
      /\ outcome' = "fetching" /\ published' = published
  BY DEF Begin
<1>2. TypeOK'
  BY <1>1, FillsAssumption DEF IInv, TypeOK
<1>3. ({f \in From(since) : Time[f] < start} \subseteq read)'
  <2> SUFFICES ASSUME NEW f \in published, Time[f] >= s, Time[f] < s PROVE FALSE
    BY <1>1 DEF From
  <2>1. Time[f] \in Nat
    BY Times DEF IInv, TypeOK
  <2>2. QED
    BY <2>1
<1>4. QED
  BY <1>1, <1>2, <1>3 DEF IInv

(* What has been read, plus a page, is still at or after `since`. *)
LEMMA StartAfterSince ==
  ASSUME IInv
  PROVE  since \in Nat /\ start \in Nat /\ since <= start
<1>1. since \in Nat /\ start \in Nat
  BY DEF IInv, TypeOK
<1>2. ASSUME NEW f \in read PROVE since <= Time[f] /\ Time[f] \in Nat
  BY Times, FillsAssumption DEF IInv, TypeOK, From
<1>3. QED
  BY <1>1, <1>2 DEF IInv

(* A page holds nothing before the cursor of the fetch. *)
LEMMA PageInWindow ==
  ASSUME IInv, NEW P \in Pages
  PROVE  P \subseteq From(since)
<1> SUFFICES ASSUME NEW f \in P PROVE f \in From(since)
  OBVIOUS
<1>1. f \in published /\ Time[f] >= start
  BY DEF Pages, From
<1>2. Time[f] \in Nat
  BY <1>1, Times DEF IInv, TypeOK
<1>3. QED
  BY <1>1, <1>2, StartAfterSince DEF From

(* Reading a page and staying where it is keeps the invariant. *)
LEMMA ReadingPreserves ==
  ASSUME IInv, NEW P \in Pages, Answered(P), UNCHANGED <<start, page>>,
         outcome' \in Ended,
         outcome' = "done" => From(since) \subseteq read \cup P
  PROVE  IInv'
<1>1. /\ read' = read \cup P /\ attempt' = 0
      /\ UNCHANGED <<published, since>> /\ P \subseteq published
  BY DEF Answered, Pages, From
<1>2. TypeOK'
  BY <1>1, FillsAssumption DEF IInv, TypeOK
<1>3. P \subseteq From(since)
  BY PageInWindow
<1>4. From(since)' = From(since)
  BY <1>1 DEF From
<1>5. QED
  BY <1>1, <1>2, <1>3, <1>4 DEF IInv

(* A page that is not full is all the venue has from `start` on. *)
LEMMA LastPageIsAll ==
  ASSUME IInv, NEW P \in Pages, LastPage(P)
  PROVE  From(since) = read \cup P
<1>1. P = From(start)
  <2>1. Cardinality(P) # Limit
    BY DEF LastPage, Full
  <2>2. QED
    BY <2>1 DEF Pages, IsAnswer
<1>2. ASSUME NEW f \in From(since) PROVE f \in read \cup P
  <2>1. f \in published /\ Time[f] \in Nat /\ start \in Nat
    BY Times DEF From, IInv, TypeOK
  <2>2. CASE Time[f] < start
    BY <2>2 DEF IInv
  <2>3. CASE Time[f] >= start
    BY <1>1, <2>1, <2>3 DEF From
  <2>4. QED
    BY <2>1, <2>2, <2>3
<1>3. P \subseteq From(since)
  BY PageInWindow
<1>4. QED
  BY <1>2, <1>3 DEF IInv

(* Moving on to the newest time of a full page leaves nothing behind. *)
LEMMA NextPagePreserves ==
  ASSUME IInv, NEW P \in Pages, NextPage(P)
  PROVE  IInv'
<1>1. /\ read' = read \cup P /\ attempt' = 0
      /\ UNCHANGED <<published, since, outcome>> /\ outcome = "fetching"
      /\ page < MaxPages /\ page' = page + 1 /\ P \subseteq published
  BY DEF NextPage, Answered, Pages, From
<1>2. /\ start' \in {start} \cup {Time[f] : f \in P \ Unreadable}
      /\ start <= start'
  BY DEF NextPage, NextStart, PageMax
<1>3. start' \in Nat
  BY <1>1, <1>2, Times DEF IInv, TypeOK
<1>4. TypeOK'
  <2>1. page' \in 0 .. MaxPages
    BY <1>1, FillsAssumption DEF IInv, TypeOK
  <2>2. attempt' \in 0 .. MaxRetries
    BY <1>1, FillsAssumption
  <2>3. QED
    BY <1>1, <1>3, <2>1, <2>2 DEF IInv, TypeOK
<1>5. P \subseteq From(since) /\ From(since)' = From(since)
  BY <1>1, PageInWindow DEF From
<1>6. ASSUME NEW f \in From(since), Time[f] < start' PROVE f \in read \cup P
  <2>1. f \in published /\ Time[f] \in Nat /\ start \in Nat
    BY Times DEF From, IInv, TypeOK
  <2>2. CASE Time[f] < start
    BY <2>2 DEF IInv
  <2>3. CASE Time[f] >= start /\ f \notin P
    <3>1. f \in From(start) \ P
      BY <2>1, <2>3 DEF From
    <3>2. \A g \in P : Time[g] <= Time[f]
      BY <3>1 DEF Pages, IsAnswer
    <3>3. \A g \in P : Time[g] \in Nat
      BY <1>1, Times DEF IInv, TypeOK
    <3>4. start' = start \/ \E g \in P : start' = Time[g]
      BY <1>2
    <3>5. QED
      BY <1>3, <1>6, <2>1, <2>3, <3>2, <3>3, <3>4
  <2>4. QED
    BY <2>1, <2>2, <2>3
<1>7. start' = since \/ \E f \in read \cup P : Time[f] = start'
  BY <1>2 DEF IInv
<1>8. QED
  BY <1>1, <1>4, <1>5, <1>6, <1>7 DEF IInv

(* A step of a fetch, or of the venue. *)
LEMMA FillsStep == IInv /\ [Next]_vars => IInv'
<1> SUFFICES ASSUME IInv, [Next]_vars PROVE IInv'
  OBVIOUS
<1>1. ASSUME NEW f \in Fill, Publish(f) PROVE IInv'
  BY <1>1, PublishPreserves
<1>2. ASSUME NEW P \in Pages, Page(P) PROVE IInv'
  <2>1. CASE LastPage(P)
    BY <1>2, <2>1, LastPageIsAll, ReadingPreserves DEF LastPage, Ended
  <2>2. CASE Stall(P)
    BY <1>2, <2>2, ReadingPreserves DEF Stall, Ended
  <2>3. CASE NextPage(P)
    BY <1>2, <2>3, NextPagePreserves
  <2>4. QED
    BY <1>2, <2>1, <2>2, <2>3 DEF Page
<1>3. CASE TooManyPages
  BY <1>3 DEF TooManyPages, IInv, TypeOK, Ended, From
<1>4. CASE Retry
  <2>1. attempt' \in 0 .. MaxRetries
    BY <1>4, FillsAssumption DEF Retry, LastAttempt, IInv, TypeOK
  <2>2. QED
    BY <1>4, <2>1 DEF Retry, IInv, TypeOK, From
<1>5. CASE Fail
  BY <1>5 DEF Fail, IInv, TypeOK, Ended, From
<1>6. CASE UNCHANGED vars
  BY <1>6 DEF vars, IInv, TypeOK, From
<1>7. ASSUME NEW s \in Nat, Begin(s) PROVE IInv'
  BY <1>7, BeginPreserves
<1>8. QED
  BY <1>1, <1>2, <1>3, <1>4, <1>5, <1>6, <1>7 DEF Next, Request

(***************************************************************************)
(* Everything before the next request's start has been read.               *)
(***************************************************************************)
THEOREM FillsInvariance == Spec => []IInv
<1>1. Init => IInv
  BY FillsAssumption DEF Init, IInv, TypeOK, From
<1>2. QED
  BY <1>1, FillsStep, PTL DEF Spec

(***************************************************************************)
(* A fetch of many pages returns what the venue has at or after `since` at *)
(* the moment of its last request, however the pages are cut.              *)
(***************************************************************************)
THEOREM SnapshotTheorem == Spec => FetchIsSnapshot
<1> DEFINE Snapshot == outcome' = "done" => read' = From(since)
<1>1. IInv /\ [Next]_vars => [Snapshot]_outcome
  <2> SUFFICES ASSUME IInv, [Next]_vars, outcome' # outcome,
                      outcome' = "done"
               PROVE  read' = From(since)
    OBVIOUS
  <2>1. PICK P \in Pages : LastPage(P)
    BY DEF Next, Request, Page, Publish, Begin, Stall, NextPage, TooManyPages,
           Retry, Fail, vars
  <2>2. QED
    BY <2>1, LastPageIsAll DEF LastPage, Answered
<1>2. QED
  BY <1>1, FillsInvariance, PTL DEF Spec, FetchIsSnapshot

(***************************************************************************)
(* A fetch stalls only where a whole page of fills shares one instant or   *)
(* cannot be read.                                                         *)
(***************************************************************************)
LEMMA StallIsCrowded ==
  ASSUME IInv, NEW P \in Pages, Stall(P)
  PROVE  StallMeansCrowded'
<1> DEFINE Crowd == {f \in From(start) : Time[f] = start \/ f \in Unreadable}
<1>1. /\ P \subseteq From(start) /\ start \in PageMax(P)
      /\ Cardinality(P) = Limit /\ UNCHANGED <<published, start>>
  BY DEF Stall, Answered, Full, Pages
<1>2. P \subseteq Crowd
  <2> SUFFICES ASSUME NEW f \in P, f \notin Unreadable PROVE Time[f] = start
    BY <1>1
  <2>1. Time[f] <= start
    BY <1>1 DEF PageMax
  <2>2. start <= Time[f]
    BY <1>1 DEF From
  <2>3. Time[f] \in Nat /\ start \in Nat
    BY <1>1, Times DEF From, IInv, TypeOK
  <2>4. QED
    BY <2>1, <2>2, <2>3
<1>3. IsFiniteSet(Crowd)
  <2>1. Crowd \subseteq Fill
    BY DEF From, IInv, TypeOK
  <2>2. QED
    BY <2>1, FS_Subset, FillsAssumption
<1>4. Cardinality(P) <= Cardinality(Crowd)
  BY <1>2, <1>3, FS_Subset
<1>5. Cardinality(Crowd) >= Limit
  <2>1. Cardinality(Crowd) \in Nat
    BY <1>3, FS_CardinalityType
  <2>2. QED
    BY <1>1, <1>4, <2>1, FillsAssumption
<1>6. Crowd = {f \in From(start) : Time[f] = start \/ f \in Unreadable}'
  BY <1>1 DEF From
<1>7. QED
  BY <1>5, <1>6 DEF StallMeansCrowded

(* A crowd stays one while the venue goes on publishing. *)
LEMMA CrowdStays ==
  ASSUME IInv, IInv', StallMeansCrowded, outcome' = outcome,
         published \subseteq published', start' = start
  PROVE  StallMeansCrowded'
<1> DEFINE Crowd == {f \in From(start) : Time[f] = start \/ f \in Unreadable}
<1>1. Crowd \subseteq Crowd' /\ Crowd' \subseteq Fill
  BY DEF From, IInv, TypeOK
<1>2. IsFiniteSet(Crowd')
  BY <1>1, FS_Subset, FillsAssumption
<1>3. /\ Cardinality(Crowd) <= Cardinality(Crowd')
      /\ IsFiniteSet(Crowd)
  BY <1>1, <1>2, FS_Subset
<1>4. Cardinality(Crowd) \in Nat /\ Cardinality(Crowd') \in Nat
  BY <1>2, <1>3, FS_CardinalityType
<1> HIDE DEF Crowd
<1>5. Cardinality(Crowd) >= Limit => Cardinality(Crowd') >= Limit
  BY <1>3, <1>4, FillsAssumption
<1>6. QED
  BY <1>5 DEF StallMeansCrowded, Crowd

(***************************************************************************)
(* A fetch refuses to go on only where a whole page of fills shares one    *)
(* instant or cannot be read (hyperliquid.py:410-415).                     *)
(***************************************************************************)
THEOREM StallTheorem == Spec => []StallMeansCrowded
<1>1. Init => StallMeansCrowded
  BY DEF Init, StallMeansCrowded
<1>2. IInv /\ IInv' /\ StallMeansCrowded /\ [Next]_vars => StallMeansCrowded'
  <2> SUFFICES ASSUME IInv, IInv', StallMeansCrowded, [Next]_vars
               PROVE  StallMeansCrowded'
    OBVIOUS
  <2>1. ASSUME NEW P \in Pages, Stall(P) PROVE StallMeansCrowded'
    BY <2>1, StallIsCrowded
  <2>2. CASE UNCHANGED vars
    BY <2>2, CrowdStays DEF vars
  <2>3. ASSUME NEW f \in Fill, Publish(f) PROVE StallMeansCrowded'
    BY <2>3, CrowdStays DEF Publish
  <2>4. CASE outcome' # "stalled"
    BY <2>4 DEF StallMeansCrowded
  <2>5. \/ \E P \in Pages : Stall(P)
        \/ \E f \in Fill : Publish(f)
        \/ outcome' # "stalled"
        \/ UNCHANGED vars
    BY DEF Next, Request, Page, Begin, LastPage, NextPage, TooManyPages,
           Retry, Fail, Answered
  <2>6. QED
    BY <2>1, <2>2, <2>3, <2>4, <2>5
<1>3. QED
  BY <1>1, <1>2, FillsInvariance, PTL DEF Spec

-------------------------------------------------------------------------------
(* The syncs that call it *)

(* A run of syncs is, for the adapter, one fetch after the other. *)
LEMMA RunFetches ==
  ASSUME SyncTypeOK, [SyncNext]_syncVars
  PROVE  [Next]_vars
<1>1. Since("fills") \in Nat
  BY Times DEF SyncTypeOK, Since, Stream, Event
<1>2. CASE StartRun
  BY <1>1, <1>2 DEF StartRun, Next
<1>3. CASE FetchFills
  BY <1>3 DEF FetchFills, Next, Request
<1>4. CASE RequestFails
  BY <1>4 DEF RequestFails, Next, Request
<1>5. CASE \E f \in Fill : Publish(f)
  BY <1>5 DEF Next
<1>6. CASE UNCHANGED vars
  BY <1>6
<1>7. QED
  BY <1>2, <1>3, <1>4, <1>5, <1>6
     DEF SyncNext, Step, StoreFills, FillsRefused, SyncFunding, PublishCharge, syncVars

(* What a transaction does to the cursor and to the journal. *)
LEMMA StoreMoves ==
  ASSUME SyncInv, NEW s \in Stream, NEW B \in SUBSET (Event \ Unparsed),
         B \subseteq published \cup charged, \A e \in B : StreamOf[e] = s,
         Store(s, B),
         \A e \in (published \cup charged) \ (journal \cup Unparsed) :
           StreamOf[e] = s /\ e \notin B => \A g \in B : Time[g] <= Time[e],
         UNCHANGED <<published, charged>>
  PROVE  /\ (journal \cap Unparsed = {})'
         /\ journal' \subseteq (published \cup charged)'
         /\ cursor' \in [Stream -> Event \cup {None}]
         /\ CursorInv'
         /\ \/ UNCHANGED <<journal, cursor>>
            \/ \E n \in B : Ingest!Ingest(s, n, B)
<1>1. journal' = journal \cup B
  BY DEF Store
<1>2. (journal \cap Unparsed = {})' /\ journal' \subseteq (published \cup charged)'
  BY <1>1 DEF SyncInv, SyncTypeOK, Unparsed
<1>3. CASE B = {}
  <2>1. UNCHANGED <<journal, cursor>>
    BY <1>3 DEF Store
  <2>2. \A r \in Stream : Since(r)' = Since(r)
    BY <2>1 DEF Since
  <2>3. \A e \in published \cup charged : StreamOf[e] \in Stream
    BY DEF SyncInv, SyncTypeOK, TypeOK, StreamOf, Stream, Event
  <2>4. CursorInv'
    BY <2>1, <2>2, <2>3 DEF CursorInv, SyncInv, Unparsed
  <2>5. QED
    BY <1>2, <2>1, <2>4 DEF SyncInv, SyncTypeOK
<1>4. CASE B # {}
  <2>1. PICK n \in Newest(B) : cursor' = [cursor EXCEPT ![s] = n]
    BY <1>4 DEF Store
  <2>2. n \in B /\ n \in Event /\ \A e \in B : Time[e] <= Time[n]
    BY <2>1 DEF Newest
  <2>3. /\ cursor' \in [Stream -> Event \cup {None}]
        /\ cursor'[s] = n
        /\ \A r \in Stream \ {s} : cursor'[r] = cursor[r]
    BY <2>1, <2>2 DEF SyncInv, SyncTypeOK
  <2>4. n # None
    BY <2>2, ChargeAssumption DEF Event
  <2>5. Since(s)' = Time[n] /\ \A r \in Stream \ {s} : Since(r)' = Since(r)
    BY <2>3, <2>4 DEF Since
  <2>6. \A r \in Stream :
          cursor'[r] # None => cursor'[r] \in journal' /\ StreamOf[cursor'[r]] = r
    BY <1>1, <2>2, <2>3 DEF SyncInv, CursorInv
  <2>7. ASSUME NEW e \in ((published \cup charged) \ (journal \cup Unparsed))'
        PROVE  Time[e] >= Since(StreamOf[e])'
    <3>1. /\ e \in (published \cup charged) \ (journal \cup Unparsed)
          /\ e \notin B /\ e \in Fill \cup Charge
      BY <1>1, <2>7 DEF Unparsed, SyncInv, SyncTypeOK, TypeOK
    <3>2. StreamOf[e] \in Stream
      BY <3>1 DEF StreamOf, Stream, Event
    <3>3. CASE StreamOf[e] = s
      <4>1. Time[n] <= Time[e]
        BY <2>2, <3>1, <3>3
      <4>2. QED
        BY <2>2, <2>5, <3>1, <3>3, <4>1, Times DEF Event
    <3>4. CASE StreamOf[e] # s
      BY <2>5, <3>1, <3>2, <3>4 DEF SyncInv, CursorInv
    <3>5. QED
      BY <3>3, <3>4
  <2>8. CursorInv'
    BY <2>6, <2>7 DEF CursorInv
  <2>9. Ingest!Ingest(s, n, B)
    <3>1. B \subseteq (published \cup charged) \cap Ingest!Storable
      BY DEF Ingest!Storable
    <3>2. \A e \in B : StreamOf[e] = s /\ Time[n] >= Time[e]
      BY <2>2, Times DEF Event
    <3>3. \A e \in ((published \cup charged) \cap Ingest!Storable) \ journal' :
            StreamOf[e] = s => e \in Ingest!Window(n)
      BY <1>1, <2>2, Times DEF Ingest!Storable, Ingest!Window, Event
    <3>4. QED
      BY <1>1, <2>1, <2>2, <3>1, <3>2, <3>3 DEF Ingest!Ingest
  <2>10. QED
    BY <1>2, <2>2, <2>3, <2>8, <2>9
<1>5. QED
  BY <1>3, <1>4

(* The batch of fills is all that is owed of them, but for younger ones. *)
LEMMA StoreFillsMoves ==
  ASSUME SyncInv, StoreFills
  PROVE  /\ (journal \cap Unparsed = {})'
         /\ journal' \subseteq (published \cup charged)'
         /\ cursor' \in [Stream -> Event \cup {None}]
         /\ CursorInv'
         /\ \/ UNCHANGED <<journal, cursor>>
            \/ \E n \in read \ Unparsed : Ingest!Ingest("fills", n, read \ Unparsed)
<1> DEFINE B == read \ Unparsed
<1>1. /\ stage = "fills" /\ outcome = "done" /\ Store("fills", B)
      /\ UNCHANGED <<published, charged>>
  BY DEF StoreFills, vars
<1>2. /\ B \in SUBSET (Event \ Unparsed)
      /\ B \subseteq published
      /\ \A e \in B : StreamOf[e] = "fills"
  BY DEF SyncInv, SyncTypeOK, TypeOK, Event, StreamOf
<1>3. ASSUME NEW e \in (published \cup charged) \ (journal \cup Unparsed),
             StreamOf[e] = "fills", e \notin B, NEW g \in B
      PROVE  Time[g] <= Time[e]
  <2>1. e \in published
    BY <1>3, FillsAssumption DEF SyncInv, SyncTypeOK, TypeOK, StreamOf, Event
  <2>2. Time[e] >= since
    BY <1>1, <1>3 DEF SyncInv, CursorInv
  <2>3. e \in From(since) \ read
    BY <1>3, <2>1, <2>2 DEF From
  <2>4. QED
    BY <1>1, <1>3, <2>3 DEF SyncInv, IInv
<1> HIDE DEF B
<1>4. QED
  BY <1>1, <1>2, <1>3, StoreMoves DEF Stream, B

(* So is an answer of funding, whether it was cut off or not. *)
LEMMA SyncFundingMoves ==
  ASSUME SyncInv, NEW A \in Answers, SyncFunding(A)
  PROVE  /\ (journal \cap Unparsed = {})'
         /\ journal' \subseteq (published \cup charged)'
         /\ cursor' \in [Stream -> Event \cup {None}]
         /\ CursorInv'
         /\ \/ UNCHANGED <<journal, cursor>>
            \/ \E n \in A \ Unparsed : Ingest!Ingest("funding", n, A \ Unparsed)
<1> DEFINE B == A \ Unparsed
<1>1. /\ stage = "funding" /\ Store("funding", B)
      /\ UNCHANGED <<published, charged>>
  BY DEF SyncFunding, vars
<1>2. /\ B \in SUBSET (Event \ Unparsed)
      /\ B \subseteq charged
      /\ \A e \in B : StreamOf[e] = "funding"
  BY FillsAssumption DEF Answers, ChargedFrom, SyncInv, SyncTypeOK, Event, StreamOf
<1>3. ASSUME NEW e \in (published \cup charged) \ (journal \cup Unparsed),
             StreamOf[e] = "funding", e \notin B, NEW g \in B
      PROVE  Time[g] <= Time[e]
  <2>1. e \in charged
    BY <1>3 DEF SyncInv, SyncTypeOK, TypeOK, StreamOf, Event
  <2>2. Time[e] >= Since("funding")
    BY <1>1, <1>3 DEF SyncInv, CursorInv
  <2>3. e \in ChargedFrom(Since("funding")) \ A
    BY <1>3, <2>1, <2>2 DEF ChargedFrom
  <2>4. QED
    BY <1>3, <2>3 DEF Answers, IsAnswer
<1> HIDE DEF B
<1>4. QED
  BY <1>1, <1>2, <1>3, StoreMoves DEF Stream, B

(* A step that leaves journal and cursor alone owes the journal no more. *)
LEMMA CursorStays ==
  ASSUME SyncInv, SyncTypeOK', UNCHANGED <<journal, cursor>>,
         \A e \in (published \cup charged)' \ (published \cup charged) :
           \A d \in published \cup charged :
             StreamOf[d] = StreamOf[e] => Time[d] <= Time[e]
  PROVE  CursorInv'
<1>1. \A s \in Stream : Since(s)' = Since(s)
  BY DEF Since
<1>2. ASSUME NEW e \in ((published \cup charged) \ (journal \cup Unparsed))'
      PROVE  Time[e] >= Since(StreamOf[e])'
  <2>1. e \in Fill \cup Charge /\ Time[e] \in Nat
    BY <1>2, Times DEF SyncTypeOK, TypeOK
  <2>2. StreamOf[e] \in Stream
    BY <2>1 DEF StreamOf, Stream, Event
  <2>3. CASE e \in published \cup charged
    BY <1>1, <1>2, <2>2, <2>3 DEF SyncInv, CursorInv, Unparsed
  <2>4. CASE e \notin published \cup charged
    <3>1. CASE cursor[StreamOf[e]] = None
      BY <1>1, <2>1, <2>2, <3>1 DEF Since
    <3>2. CASE cursor[StreamOf[e]] # None
      <4>1. /\ cursor[StreamOf[e]] \in published \cup charged
            /\ StreamOf[cursor[StreamOf[e]]] = StreamOf[e]
        BY <2>2, <3>2 DEF SyncInv, CursorInv, SyncTypeOK
      <4>2. Time[cursor[StreamOf[e]]] <= Time[e]
        BY <1>2, <2>4, <4>1
      <4>3. Time[cursor[StreamOf[e]]] \in Nat
        BY <4>1, Times DEF SyncInv, SyncTypeOK, TypeOK
      <4>4. QED
        BY <1>1, <2>1, <2>2, <3>2, <4>2, <4>3 DEF Since
    <3>3. QED
      BY <3>1, <3>2
  <2>5. QED
    BY <2>3, <2>4
<1>3. QED
  BY <1>2 DEF CursorInv, SyncInv

(* Every step of the venue and of the runs keeps the invariant, and is an   *)
(* ingest, a publication, or nothing of the kind.                           *)
LEMMA SyncStep ==
  ASSUME SyncInv, [SyncNext]_syncVars
  PROVE  SyncInv' /\ [Ingest!Next]_(Ingest!vars)
<1>1. IInv'
  BY FillsStep, RunFetches DEF SyncInv
<1>2. TypeOK'
  BY <1>1 DEF IInv
<1>3. CASE StoreFills
  <2>1. /\ stage' = "funding" /\ UNCHANGED <<charged, failures, published>>
    BY <1>3 DEF StoreFills, vars
  <2>2. SyncInv'
    BY <1>1, <1>2, <1>3, <2>1, StoreFillsMoves DEF SyncInv, SyncTypeOK, Stream
  <2>3. \A n \in read \ Unparsed :
          Ingest!Ingest("fills", n, read \ Unparsed) => Ingest!Next
    <3>1. read \ Unparsed \in
            SUBSET {e \in published \cup charged : StreamOf[e] = "fills"}
      BY DEF SyncInv, SyncTypeOK, TypeOK, StreamOf, Event
    <3>2. QED
      BY <3>1 DEF Ingest!Next, Stream
  <2>4. QED
    BY <1>3, <2>1, <2>2, <2>3, StoreFillsMoves DEF Ingest!vars
<1>4. ASSUME NEW A \in Answers, SyncFunding(A) PROVE SyncInv' /\ [Ingest!Next]_(Ingest!vars)
  <2>1. /\ stage' = "idle" /\ UNCHANGED <<charged, failures, published>>
    BY <1>4 DEF SyncFunding, vars
  <2>2. SyncInv'
    BY <1>1, <1>2, <1>4, <2>1, SyncFundingMoves DEF SyncInv, SyncTypeOK
  <2>3. \A n \in A \ Unparsed :
          Ingest!Ingest("funding", n, A \ Unparsed) => Ingest!Next
    <3>1. A \ Unparsed \in
            SUBSET {e \in published \cup charged : StreamOf[e] = "funding"}
      BY <1>4, FillsAssumption
         DEF Answers, ChargedFrom, SyncInv, SyncTypeOK, StreamOf, Event
    <3>2. QED
      BY <3>1 DEF Ingest!Next, Stream
  <2>4. QED
    BY <1>4, <2>1, <2>2, <2>3, SyncFundingMoves DEF Ingest!vars
<1>5. ASSUME NEW f \in Fill, Publish(f),
             UNCHANGED <<charged, journal, cursor, stage, failures>>
      PROVE  SyncInv' /\ [Ingest!Next]_(Ingest!vars)
  <2>1. published' = published \cup {f} /\ since' = since
    BY <1>5 DEF Publish
  <2>2. SyncTypeOK'
    BY <1>2, <1>5, <2>1 DEF SyncInv, SyncTypeOK
  <2>3. CursorInv'
    <3>1. \A d \in published \cup charged :
            StreamOf[d] = StreamOf[f] => Time[d] <= Time[f]
      BY <1>5, FillsAssumption DEF Publish, SyncInv, SyncTypeOK, TypeOK, StreamOf, Event
    <3>2. QED
      BY <1>5, <2>1, <2>2, <3>1, CursorStays
  <2>4. SyncInv'
    BY <1>1, <1>5, <2>1, <2>2, <2>3 DEF SyncInv, Since, Unparsed
  <2>5. Ingest!Publish(f)
    BY <1>5, <2>1, FillsAssumption DEF Ingest!Publish, Publish, SyncInv, SyncTypeOK
  <2>6. QED
    BY <2>4, <2>5 DEF Ingest!Next, Event
<1>6. ASSUME NEW c \in Charge, PublishCharge(c)
      PROVE  SyncInv' /\ [Ingest!Next]_(Ingest!vars)
  <2>1. /\ charged' = charged \cup {c}
        /\ UNCHANGED <<published, since, journal, cursor, stage, failures>>
    BY <1>6 DEF PublishCharge, vars
  <2>2. SyncTypeOK'
    BY <1>2, <2>1 DEF SyncInv, SyncTypeOK
  <2>3. CursorInv'
    <3>1. \A d \in published \cup charged :
            StreamOf[d] = StreamOf[c] => Time[d] <= Time[c]
      BY <1>6, FillsAssumption DEF PublishCharge, SyncInv, SyncTypeOK, TypeOK, StreamOf, Event
    <3>2. QED
      BY <2>1, <2>2, <3>1, CursorStays
  <2>4. SyncInv'
    BY <1>1, <2>1, <2>2, <2>3 DEF SyncInv, Since, Unparsed
  <2>5. Ingest!Publish(c)
    BY <1>6, <2>1, FillsAssumption
       DEF Ingest!Publish, PublishCharge, SyncInv, SyncTypeOK, TypeOK
  <2>6. QED
    BY <2>4, <2>5 DEF Ingest!Next, Event
<1>7. ASSUME UNCHANGED <<published, charged, journal, cursor>>,
             SyncTypeOK', stage' = "fills" => since' = Since("fills")
      PROVE  SyncInv' /\ [Ingest!Next]_(Ingest!vars)
  <2>1. CursorInv'
    BY <1>7, CursorStays
  <2>2. SyncInv'
    BY <1>1, <1>7, <2>1 DEF SyncInv, Since, Unparsed
  <2>3. QED
    BY <1>7, <2>2 DEF Ingest!vars
<1>8. CASE StartRun
  <2>1. /\ UNCHANGED <<published, charged, journal, cursor, failures>>
        /\ stage' = "fills" /\ since' = Since("fills")
    BY <1>8 DEF StartRun, Begin
  <2>2. QED
    BY <1>2, <1>7, <2>1 DEF SyncInv, SyncTypeOK, Stream
<1>9. CASE FetchFills
  <2>1. UNCHANGED <<published, charged, journal, cursor, failures, stage, since>>
    BY <1>9 DEF FetchFills, Page, LastPage, Stall, NextPage, Answered, TooManyPages, Retry
  <2>2. QED
    BY <1>2, <1>7, <2>1 DEF SyncInv, SyncTypeOK
<1>10. CASE FillsRefused
  <2>1. /\ UNCHANGED <<published, charged, journal, cursor, failures>>
        /\ stage' = "idle"
    BY <1>10 DEF FillsRefused, vars
  <2>2. QED
    BY <1>2, <1>7, <2>1 DEF SyncInv, SyncTypeOK
<1>11. CASE RequestFails
  <2>1. /\ UNCHANGED <<published, charged, journal, cursor, since>>
        /\ stage' = stage \/ stage' = "idle"
    BY <1>11 DEF RequestFails, Fail, vars
  <2>2. failures' \in 0 .. MaxFailures
    BY <1>11, ChargeAssumption DEF RequestFails, SyncInv, SyncTypeOK
  <2>3. QED
    BY <1>2, <1>7, <2>1, <2>2 DEF SyncInv, SyncTypeOK
<1>12. CASE UNCHANGED syncVars
  <2>1. UNCHANGED <<published, charged, journal, cursor, failures, stage, since>>
    BY <1>12 DEF syncVars, vars
  <2>2. QED
    BY <1>2, <1>7, <2>1 DEF SyncInv, SyncTypeOK
<1>13. QED
  BY <1>3, <1>4, <1>5, <1>6, <1>8, <1>9, <1>10, <1>11, <1>12 DEF SyncNext, Step

(***************************************************************************)
(* A sync starts from a cursor that names a stored event, and nothing the  *)
(* journal is owed is before it.                                           *)
(***************************************************************************)
THEOREM SyncInvariance == SyncSpec => []SyncInv
<1>1. SyncInit => SyncInv
  <2> SUFFICES ASSUME SyncInit PROVE SyncInv
    OBVIOUS
  <2>1. IInv
    BY FillsAssumption DEF SyncInit, Init, IInv, TypeOK, From
  <2>2. QED
    BY <2>1, ChargeAssumption
       DEF SyncInit, Init, IInv, SyncInv, SyncTypeOK, CursorInv
<1>2. QED
  BY <1>1, SyncStep, PTL DEF SyncSpec

(***************************************************************************)
(* The syncs are fetches, one after the other.                             *)
(***************************************************************************)
THEOREM SyncFetches == SyncSpec => Spec
<1>1. SyncInit => Init
  BY DEF SyncInit
<1>2. SyncInv => SyncTypeOK
  BY DEF SyncInv
<1>3. QED
  BY <1>1, <1>2, RunFetches, SyncInvariance, PTL DEF SyncSpec, Spec

(***************************************************************************)
(* The paged, cut, failing syncs of the adapter implement the atomic and   *)
(* lossless ingest that SyncService implements for any adapter.            *)
(***************************************************************************)
THEOREM SyncIngests == SyncSpec => IngestSpec
<1>1. SyncInit => Ingest!Init
  BY DEF SyncInit, Init, Ingest!Init
<1>2. QED
  BY <1>1, SyncStep, SyncInvariance, PTL DEF SyncSpec, IngestSpec, Ingest!Spec

(***************************************************************************)
(* Every fetch of every sync returns a snapshot.                           *)
(***************************************************************************)
THEOREM SyncSnapshot == SyncSpec => FetchIsSnapshot
  BY SyncFetches, SnapshotTheorem

(***************************************************************************)
(* No sync is refused where it could have gone on.                         *)
(***************************************************************************)
THEOREM SyncStall == SyncSpec => []StallMeansCrowded
  BY SyncFetches, StallTheorem

(***************************************************************************)
(* Type correctness, for any number of syncs.                              *)
(***************************************************************************)
THEOREM SyncTypes == SyncSpec => []SyncTypeOK
<1>1. SyncInv => SyncTypeOK
  BY DEF SyncInv
<1>2. QED
  BY <1>1, SyncInvariance, PTL
===============================================================================
