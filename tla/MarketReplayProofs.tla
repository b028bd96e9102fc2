--------------------------- MODULE MarketReplayProofs ---------------------------
(***************************************************************************)
(* Proofs about MarketReplay, for every set of sizes and timestamps and    *)
(* every length of history.  The three lemmas say what the legs before the *)
(* absorbing one are, what the absorbing one is once it has the fill, and  *)
(* how its size moved; each action then closes, flips or keeps that leg.   *)
(* The second half compares the legs with what ReplayReference makes of    *)
(* the whole history: what one fill more changes in positions, ends and    *)
(* volumes, and that each action changes the drafts in the same way.       *)
(***************************************************************************)
EXTENDS ReplayReference, SumTheorems

USE ReplayAssumption

(* The absolute value is what it should be. *)
LEMMA AbsFacts ==
  ASSUME NEW n \in Int
  PROVE  /\ Abs(n) \in Nat
         /\ n # 0 => Abs(n) > 0
         /\ n = 0 => Abs(n) = 0
BY DEF Abs

(* The drafts an action leaves alone: all but `current`. *)
LEMMA EarlierFacts ==
  ASSUME IInv
  PROVE  /\ Earlier \in Seq(LegDraft)
         /\ Len(Earlier) = IF current = 0 THEN Len(drafts) ELSE Len(drafts) - 1
         /\ \A i \in 1 .. Len(Earlier) :
              /\ i \in DOMAIN drafts
              /\ i # current
              /\ Earlier[i] = drafts[i]
         /\ current # 0 => current = Len(drafts) /\ current \in DOMAIN drafts
<1>1. drafts \in Seq(LegDraft) /\ current \in {0, Len(drafts)}
  BY DEF IInv, TypeOK
<1>2. CASE current = 0
  BY <1>1, <1>2 DEF Earlier
<1>3. CASE current # 0
  <2>1. current = Len(drafts) /\ Len(drafts) \in Nat \ {0}
    BY <1>1, <1>3
  <2> QED BY <1>1, <2>1 DEF Earlier
<1> QED BY <1>2, <1>3

(* The absorbing leg: open, after every earlier leg, holding the new fill. *)
LEMMA AbsorbingFacts ==
  ASSUME IInv, NEW f \in Fill, InOrder(f), Take(f)
  PROVE  /\ Opened(f) \in LegDraft
         /\ Absorbing(f) \in LegDraft
         /\ Absorbing(f).direction = Opened(f).direction
         /\ Absorbing(f).opened_at = Opened(f).opened_at
         /\ Absorbing(f).closed_at = None
         /\ Absorbing(f).peak = Opened(f).peak
         /\ Absorbing(f).flip_affected = Opened(f).flip_affected
         /\ Absorbing(f).fills = Opened(f).fills \cup {Len(fills) + 1}
         /\ Opened(f).fills \subseteq 1 .. Len(fills)
         /\ Opened(f).opened_at <= f.timestamp
<1>1. /\ f.quantity \in Int
      /\ f.timestamp \in Time /\ f.timestamp \in Nat
      /\ Len(fills) \in Nat
      /\ Len(fills) + 1 \in 1 .. MaxFills
      /\ fills \in Seq(Fill)
  <2>1. /\ f.quantity \in Int
        /\ f.timestamp \in Time /\ f.timestamp \in Nat
    BY DEF Fill
  <2>2. fills \in Seq(Fill) /\ Len(fills) \in Nat /\ Len(fills) < MaxFills
    BY DEF Take, IInv, TypeOK
  <2> QED BY <2>1, <2>2
<1>2. Opened(f) \in LegDraft /\ Opened(f).closed_at = None
  <2>1. CASE current = 0
    BY <1>1, <2>1 DEF Opened, NewDraft, LegDraft, DirectionOf
  <2>2. CASE current # 0
    <3>1. drafts \in Seq(LegDraft) /\ current \in DOMAIN drafts
      BY <2>2, EarlierFacts DEF IInv, TypeOK
    <3>2. drafts[current] \in LegDraft
      BY <3>1
    <3>3. drafts[current].closed_at = None
      BY <3>1 DEF IInv, OpenLegMatchesPosition
    <3> QED BY <2>2, <3>2, <3>3 DEF Opened
  <2> QED BY <2>1, <2>2
<1>3. /\ Opened(f).fills \subseteq 1 .. Len(fills)
      /\ Opened(f).opened_at <= f.timestamp
  <2>1. CASE current = 0
    BY <1>1, <2>1 DEF Opened, NewDraft
  <2>2. CASE current # 0
    <3>0. fills # <<>>
      BY <2>2, EarlierFacts DEF IInv, PastInv
    <3>1. fills # <<>> /\ fills[Len(fills)] \in Fill
      BY <1>1, <3>0
    <3>2. fills[Len(fills)].timestamp <= f.timestamp
      BY <3>1 DEF InOrder
    <3>3. fills[Len(fills)].timestamp \in Nat /\ Opened(f).opened_at \in Nat
      BY <1>2, <3>1 DEF Fill, LegDraft
    <3>4. /\ Opened(f).opened_at <= fills[Len(fills)].timestamp
          /\ Opened(f).fills \subseteq 1 .. Len(fills)
      BY <2>2, EarlierFacts DEF Opened, IInv, PastInv
    <3> QED BY <1>1, <3>2, <3>3, <3>4
  <2> QED BY <2>1, <2>2
<1>4. Absorbing(f) \in LegDraft
  <2> DEFINE old == Opened(f)
             k == Len(fills) + 1
             entered == IF EntrySide(old, f) THEN old.entry + f.quantity
                                             ELSE old.entry
             left == IF EntrySide(old, f) THEN old.exit
                                          ELSE old.exit + f.quantity
  <2>1. /\ old.fills \cup {k} \in SUBSET (1 .. MaxFills)
        /\ entered \in Int
        /\ left \in Int
    BY <1>1, <1>2 DEF LegDraft
  <2>2. Absorbing(f) = [old EXCEPT !.fills = @ \cup {k},
                                   !.entry = entered, !.exit = left]
    BY <1>2 DEF Absorbing, Absorb, LegDraft
  <2> HIDE DEF old, k, entered, left
  <2>3. old \in LegDraft
    BY <1>2 DEF old
  <2> QED BY <2>1, <2>2, <2>3 DEF LegDraft
<1> QED BY <1>2, <1>3, <1>4 DEF Absorbing, Absorb, LegDraft

(* The absorbing leg's size moves exactly as the position does. *)
LEMMA SizeMoves ==
  ASSUME IInv, NEW f \in Fill, InOrder(f), Take(f)
  PROVE  LET leg == Absorbing(f)
             held == leg.entry - leg.exit
         IN  /\ position \in Int /\ position' \in Int
             /\ position > 0 => leg.direction = "long"
             /\ position < 0 => leg.direction = "short"
             /\ position = 0 => leg.direction = DirectionOf(position')
             /\ leg.direction = "long" =>
                  IF leg.flip_affected THEN held < position'
                                       ELSE held = position'
             /\ leg.direction = "short" =>
                  IF leg.flip_affected THEN held < -position'
                                       ELSE held = -position'
             /\ position = 0 => ~leg.flip_affected
             /\ leg.peak \in Nat
             /\ position = 0 => leg.peak = 0
<1> DEFINE leg == Absorbing(f)
           old == Opened(f)
<1>1. /\ f.quantity \in Int
      /\ f.side \in {"buy", "sell"}
      /\ position' = position + Delta(f)
      /\ position \in Int
  BY DEF Fill, Take, IInv, TypeOK
<1>2. Delta(f) \in Int
  BY <1>1 DEF Delta
<1>3. old \in LegDraft /\ leg \in LegDraft
  BY AbsorbingFacts
<1>4. /\ old.entry \in Int /\ old.exit \in Int
      /\ old.direction \in {"long", "short"}
      /\ old.flip_affected \in BOOLEAN
      /\ leg.direction = old.direction
      /\ leg.flip_affected = old.flip_affected
      /\ leg.peak = old.peak /\ leg.peak \in Nat
  BY <1>3, AbsorbingFacts DEF LegDraft
<1>5. leg.entry - leg.exit = old.entry - old.exit
        + (IF old.direction = "long" THEN Delta(f) ELSE -Delta(f))
  <2>1. /\ leg.entry = IF EntrySide(old, f) THEN old.entry + f.quantity
                                            ELSE old.entry
        /\ leg.exit = IF EntrySide(old, f) THEN old.exit
                                           ELSE old.exit + f.quantity
    BY <1>3 DEF Absorbing, Absorb, LegDraft
  <2> QED BY <1>1, <1>4, <2>1 DEF EntrySide, Delta
<1>6. CASE position = 0
  <2>1. current = 0
    BY <1>6 DEF IInv, OpenLegMatchesPosition
  <2>2. /\ old.entry = 0 /\ old.exit = 0 /\ old.peak = 0
        /\ old.direction = DirectionOf(Delta(f))
        /\ old.flip_affected = FALSE
    BY <2>1 DEF Opened, NewDraft
  <2> QED BY <1>1, <1>2, <1>4, <1>5, <1>6, <2>2 DEF DirectionOf
<1>7. CASE position # 0
  <2>1. current # 0 /\ current \in DOMAIN drafts /\ old = drafts[current]
    BY <1>7, EarlierFacts DEF IInv, OpenLegMatchesPosition, Opened
  <2>2. /\ old.direction = DirectionOf(position)
        /\ IF old.flip_affected THEN old.entry - old.exit < Abs(position)
                                ELSE old.entry - old.exit = Abs(position)
    BY <2>1 DEF IInv, OpenLegMatchesPosition, SizeInv, Held
  <2> QED
    BY <1>1, <1>2, <1>4, <1>5, <1>7, <2>2 DEF DirectionOf, Abs
<1> QED BY <1>6, <1>7

(* What the earlier legs promise does not depend on what happens to f. *)
LEMMA EarlierHolds ==
  ASSUME IInv, NEW f \in Fill, InOrder(f), Take(f)
  PROVE  /\ \A i \in 1 .. Len(Earlier) :
              /\ Earlier[i] \in LegDraft
              /\ Earlier[i].closed_at # None
              /\ Earlier[i].opened_at <= Earlier[i].closed_at
              /\ Earlier[i].closed_at <= Opened(f).opened_at
              /\ Earlier[i].fills \subseteq 1 .. Len(fills)
              /\ Earlier[i].peak > 0 \/ Earlier[i].closed_at = Earlier[i].opened_at
              /\ \A k \in Earlier[i].fills, m \in Absorbing(f).fills : k < m
              /\ IF Earlier[i].flip_affected
                   THEN Earlier[i].entry - Earlier[i].exit # 0
                   ELSE Earlier[i].entry - Earlier[i].exit = 0
         /\ \A i, j \in 1 .. Len(Earlier) :
              i < j =>
                /\ Earlier[i].closed_at <= Earlier[j].opened_at
                /\ \A k \in Earlier[i].fills, m \in Earlier[j].fills : k < m
         /\ \A k \in 1 .. Len(fills) + 1 :
              \/ k \in Absorbing(f).fills
              \/ \E i \in 1 .. Len(Earlier) : k \in Earlier[i].fills
<1> DEFINE n == Len(Earlier)
<1>1. \A i \in 1 .. n : /\ i \in DOMAIN drafts
                         /\ i # current
                         /\ Earlier[i] = drafts[i]
  BY EarlierFacts
<1>2. ASSUME NEW i \in 1 .. n
      PROVE  /\ Earlier[i] \in LegDraft
             /\ Earlier[i].closed_at # None
             /\ Earlier[i].opened_at <= Earlier[i].closed_at
             /\ Earlier[i].fills \subseteq 1 .. Len(fills)
             /\ Earlier[i].peak > 0 \/ Earlier[i].closed_at = Earlier[i].opened_at
             /\ IF Earlier[i].flip_affected
                  THEN Earlier[i].entry - Earlier[i].exit # 0
                  ELSE Earlier[i].entry - Earlier[i].exit = 0
  <2>1. Earlier[i] \in LegDraft
    BY EarlierFacts
  <2>2. drafts[i].closed_at # None
    BY <1>1 DEF IInv, OpenLegMatchesPosition
  <2> QED BY <1>1, <2>1, <2>2 DEF IInv, PastInv, SizeInv, PeakInv, Held
<1>3. ASSUME NEW i \in 1 .. n
      PROVE  Earlier[i].closed_at <= Opened(f).opened_at
  <2>1. CASE current = 0
    <3>1. fills # <<>> /\ drafts[i].closed_at <= fills[Len(fills)].timestamp
      BY <1>1, <1>2 DEF IInv, PastInv
    <3>2. fills[Len(fills)] \in Fill
      BY <3>1 DEF IInv, TypeOK
    <3>3. /\ fills[Len(fills)].timestamp \in Nat
          /\ f.timestamp \in Nat
          /\ drafts[i].closed_at \in Nat
      BY <1>1, <1>2, <3>2 DEF Fill, LegDraft
    <3>4. fills[Len(fills)].timestamp <= f.timestamp
      BY <3>1 DEF InOrder
    <3>5. Opened(f).opened_at = f.timestamp
      BY <2>1 DEF Opened, NewDraft
    <3> QED BY <1>1, <3>1, <3>3, <3>4, <3>5
  <2>2. CASE current # 0
    <3>1. current \in DOMAIN drafts /\ i < current
      BY <1>1, <2>2, EarlierFacts DEF IInv, TypeOK
    <3> QED BY <1>1, <2>2, <3>1 DEF IInv, WindowsDisjoint, Opened
  <2> QED BY <2>1, <2>2
<1>4. ASSUME NEW i \in 1 .. n, NEW k \in Earlier[i].fills,
             NEW m \in Absorbing(f).fills
      PROVE  k < m
  <2>1. CASE m = Len(fills) + 1
    BY <1>2, <2>1 DEF IInv, TypeOK
  <2>2. CASE m # Len(fills) + 1
    <3>1. m \in Opened(f).fills
      BY <2>2, AbsorbingFacts
    <3>2. current # 0
      BY <3>1 DEF Opened, NewDraft
    <3>3. current \in DOMAIN drafts /\ i < current /\ m \in drafts[current].fills
      BY <1>1, <3>1, <3>2, EarlierFacts DEF IInv, TypeOK, Opened
    <3> QED BY <1>1, <3>3 DEF IInv, FillsPartitioned
  <2> QED BY <2>1, <2>2
<1>5. ASSUME NEW i \in 1 .. n, NEW j \in 1 .. n, i < j
      PROVE  /\ Earlier[i].closed_at <= Earlier[j].opened_at
             /\ \A k \in Earlier[i].fills, m \in Earlier[j].fills : k < m
  BY <1>1, <1>5 DEF IInv, WindowsDisjoint, FillsPartitioned
<1>6. ASSUME NEW k \in 1 .. Len(fills) + 1, k \notin Absorbing(f).fills
      PROVE  \E i \in 1 .. n : k \in Earlier[i].fills
  <2>1. k \in 1 .. Len(fills) /\ k \notin Opened(f).fills
    BY <1>6, AbsorbingFacts DEF IInv, TypeOK
  <2>2. PICK i \in DOMAIN drafts : k \in drafts[i].fills
    BY <2>1 DEF IInv, FillsPartitioned
  <2>3. i # current
    <3>1. drafts \in Seq(LegDraft)
      BY DEF IInv, TypeOK
    <3>2. i # 0
      BY <2>2, <3>1
    <3> QED BY <2>1, <2>2, <3>2 DEF Opened
  <2>4. i \in 1 .. n
    BY <2>2, <2>3, EarlierFacts DEF IInv, TypeOK
  <2> QED BY <1>1, <2>2, <2>4
<1> QED BY <1>2, <1>3, <1>4, <1>5, <1>6

(***************************************************************************)
(* A step that leaves one leg a after the earlier ones, closed or open,    *)
(* preserves the invariant if a matches the new position.                  *)
(***************************************************************************)
LEMMA OneLegIInv ==
  ASSUME IInv, NEW f \in Fill, InOrder(f), Take(f), NEW a \in LegDraft,
         a.opened_at = Opened(f).opened_at,
         a.fills = Absorbing(f).fills,
         a.closed_at \in {None, f.timestamp},
         a.peak > 0 \/ a.closed_at = a.opened_at,
         a.closed_at = None <=> position' # 0,
         a.closed_at = None =>
           a.direction = DirectionOf(position') /\ a.peak >= Abs(position'),
         IF a.flip_affected
           THEN IF a.closed_at = None THEN a.entry - a.exit < Abs(position')
                                      ELSE a.entry - a.exit # 0
           ELSE a.entry - a.exit = Abs(position'),
         drafts' = Append(Earlier, a),
         current' = IF a.closed_at = None THEN Len(drafts') ELSE 0,
         flips' = flips
  PROVE  IInv'
<1> DEFINE n == Len(Earlier)
<1>1. /\ Earlier \in Seq(LegDraft) /\ n \in Nat
      /\ fills \in Seq(Fill) /\ Len(fills) \in Nat /\ Len(fills) < MaxFills
      /\ f.quantity \in Int /\ f.timestamp \in Nat
      /\ position \in Int
  <2>1. f.quantity \in Int /\ f.timestamp \in Nat
    BY DEF Fill
  <2>2. Earlier \in Seq(LegDraft) /\ n \in Nat
    BY EarlierFacts
  <2>3. /\ fills \in Seq(Fill) /\ Len(fills) \in Nat /\ Len(fills) < MaxFills
        /\ position \in Int
    BY DEF IInv, TypeOK, Take
  <2> QED BY <2>1, <2>2, <2>3
<1>2. /\ drafts' \in Seq(LegDraft)
      /\ Len(drafts') = n + 1 /\ DOMAIN drafts' = 1 .. n + 1
      /\ drafts'[n + 1] = a
      /\ \A i \in 1 .. n : drafts'[i] = Earlier[i]
  BY <1>1
<1>3. /\ fills' \in Seq(Fill)
      /\ Len(fills') = Len(fills) + 1
      /\ fills' # <<>>
      /\ fills'[Len(fills')] = f
  <2>1. fills' = Append(fills, f)
    BY DEF Take
  <2>2. fills \in Seq(Fill) /\ Len(fills) \in Nat
    BY <1>1
  <2>3. fills' \in Seq(Fill) /\ Len(fills') = Len(fills) + 1
    BY <2>1, <2>2
  <2>4. fills'[Len(fills) + 1] = f
    BY <2>1, <2>2
  <2>5. fills' # <<>>
    BY <2>2, <2>3
  <2> QED BY <2>3, <2>4, <2>5
<1>4. TypeOK'
  <2>1. position' \in Int
    BY <1>1 DEF Take, Delta
  <2>2. flips' \subseteq 1 .. Len(fills')
    BY <1>1, <1>3 DEF IInv, TypeOK
  <2> QED BY <1>1, <1>2, <1>3, <2>1, <2>2 DEF TypeOK
<1>5. \A i \in 1 .. n : drafts'[i].closed_at # None
  BY <1>2, EarlierHolds
<1>6. OpenLegMatchesPosition'
  BY <1>1, <1>2, <1>5 DEF OpenLegMatchesPosition
<1>7. FillsPartitioned'
  <2>1. ASSUME NEW k \in 1 .. Len(fills')
        PROVE  \E i \in DOMAIN drafts' : k \in drafts'[i].fills
    <3>1. CASE k \in Absorbing(f).fills
      BY <1>1, <1>2, <3>1
    <3>2. CASE k \notin Absorbing(f).fills
      <4>1. PICK i \in 1 .. n : k \in Earlier[i].fills
        BY <1>3, <3>2, EarlierHolds
      <4>2. k \in drafts'[i].fills
        BY <1>2, <4>1
      <4>3. i \in DOMAIN drafts'
        <5>1. n \in Nat /\ DOMAIN drafts' = 1 .. n + 1
          BY <1>1, <1>2
        <5> HIDE DEF n
        <5> QED BY <5>1
      <4> QED BY <4>2, <4>3
    <3> QED BY <3>1, <3>2
  <2>2. ASSUME NEW i \in DOMAIN drafts', NEW j \in DOMAIN drafts', i < j
        PROVE  \A k \in drafts'[i].fills, m \in drafts'[j].fills : k < m
    <3>1. i \in 1 .. n
      BY <1>1, <1>2, <2>2
    <3>2. CASE j = n + 1
      BY <1>2, <3>1, <3>2, EarlierHolds
    <3>3. CASE j # n + 1
      BY <1>1, <1>2, <2>2, <3>1, <3>3, EarlierHolds
    <3> QED BY <3>2, <3>3
  <2> QED BY <2>1, <2>2 DEF FillsPartitioned
<1>8. WindowsDisjoint'
  <2> SUFFICES ASSUME NEW i \in DOMAIN drafts', NEW j \in DOMAIN drafts', i < j
               PROVE  /\ drafts'[i].closed_at # None
                      /\ drafts'[i].opened_at <= drafts'[i].closed_at
                      /\ drafts'[i].closed_at <= drafts'[j].opened_at
    BY DEF WindowsDisjoint
  <2>1. i \in 1 .. n
    BY <1>1, <1>2
  <2>2. CASE j = n + 1
    BY <1>2, <2>1, <2>2, EarlierHolds
  <2>3. CASE j # n + 1
    BY <1>1, <1>2, <2>1, <2>3, EarlierHolds
  <2> QED BY <2>2, <2>3
<1>9. PastInv'
  <2> SUFFICES ASSUME NEW i \in DOMAIN drafts'
               PROVE  /\ drafts'[i].opened_at <= f.timestamp
                      /\ drafts'[i].closed_at # None =>
                           /\ drafts'[i].opened_at <= drafts'[i].closed_at
                           /\ drafts'[i].closed_at <= f.timestamp
                      /\ drafts'[i].fills \subseteq 1 .. Len(fills) + 1
    BY <1>3 DEF PastInv
  <2>1. Opened(f).opened_at <= f.timestamp /\ Opened(f).opened_at \in Nat
    BY AbsorbingFacts DEF LegDraft
  <2>2. CASE i = n + 1
    <3>1. Absorbing(f).fills \subseteq 1 .. Len(fills) + 1
      BY <1>1, AbsorbingFacts
    <3> QED BY <1>1, <1>2, <2>1, <2>2, <3>1
  <2>3. CASE i # n + 1
    <3>1. i \in 1 .. n /\ drafts'[i] = Earlier[i] /\ Earlier[i] \in LegDraft
      BY <1>1, <1>2, <2>3, EarlierHolds
    <3>2. /\ Earlier[i].closed_at # None
          /\ Earlier[i].opened_at \in Nat /\ Earlier[i].closed_at \in Nat
      BY <3>1, EarlierHolds DEF LegDraft
    <3> QED BY <1>1, <2>1, <3>1, <3>2, EarlierHolds
  <2> QED BY <2>2, <2>3
<1>10. SizeInv'
  <2> SUFFICES ASSUME NEW i \in DOMAIN drafts'
               PROVE  IF drafts'[i].flip_affected
                        THEN IF i = current' THEN Held(i)' < Abs(position')
                                             ELSE Held(i)' # 0
                        ELSE Held(i)' = IF i = current' THEN Abs(position')
                                                        ELSE 0
    BY DEF SizeInv
  <2>1. CASE i = n + 1
    <3>1. Held(i)' = a.entry - a.exit
      BY <1>2, <2>1 DEF Held
    <3>2. i = current' <=> a.closed_at = None
      BY <1>1, <1>2, <2>1
    <3>3. a.closed_at # None => Abs(position') = 0
      BY DEF Abs
    <3> QED BY <1>2, <2>1, <3>1, <3>2, <3>3
  <2>2. CASE i # n + 1
    <3>1. i \in 1 .. n /\ drafts'[i] = Earlier[i] /\ i # current'
      BY <1>1, <1>2, <2>2
    <3> QED BY <3>1, EarlierHolds DEF Held
  <2> QED BY <2>1, <2>2
<1>11. PeakInv'
  <2> SUFFICES ASSUME NEW i \in DOMAIN drafts'
               PROVE  \/ drafts'[i].peak > 0
                      \/ drafts'[i].closed_at = drafts'[i].opened_at
    BY DEF PeakInv
  <2>1. CASE i = n + 1
    BY <1>2, <2>1
  <2>2. CASE i # n + 1
    <3>1. i \in 1 .. n /\ drafts'[i] = Earlier[i]
      BY <1>1, <1>2, <2>2
    <3> QED BY <3>1, EarlierHolds
  <2> QED BY <2>1, <2>2
<1> QED BY <1>4, <1>6, <1>7, <1>8, <1>9, <1>10, <1>11 DEF IInv

(* Closing a leg at zero preserves the invariant. *)
LEMMA CloseIInv ==
  ASSUME IInv, NEW f \in Fill, InOrder(f), Close(f)
  PROVE  IInv'
<1> DEFINE a == [Absorbing(f) EXCEPT !.closed_at = f.timestamp]
<1>1. Take(f) /\ position' = 0
  BY DEF Close
<1>2. f.timestamp \in Time /\ f.timestamp # None
  BY DEF Fill
<1>3. Absorbing(f) \in LegDraft
  BY <1>1, AbsorbingFacts
<1>4. /\ a \in LegDraft
      /\ a.opened_at = Opened(f).opened_at
      /\ a.fills = Absorbing(f).fills
      /\ a.closed_at = f.timestamp
      /\ a.entry = Absorbing(f).entry /\ a.exit = Absorbing(f).exit
      /\ a.flip_affected = Absorbing(f).flip_affected
  BY <1>1, <1>2, <1>3, AbsorbingFacts DEF LegDraft
<1>5. IF a.flip_affected THEN a.entry - a.exit # 0
                         ELSE a.entry - a.exit = Abs(position')
  <2>1. a.entry \in Int /\ a.exit \in Int /\ Abs(position') = 0
    BY <1>1, <1>4 DEF LegDraft, Abs
  <2>2. Absorbing(f).direction \in {"long", "short"}
    BY <1>3 DEF LegDraft
  <2> QED BY <1>1, <1>4, <2>1, <2>2, SizeMoves
<1>6. /\ drafts' = Append(Earlier, a)
      /\ current' = IF a.closed_at = None THEN Len(drafts') ELSE 0
      /\ flips' = flips
  BY <1>2, <1>4 DEF Close
<1>7. a.peak > 0 \/ a.closed_at = a.opened_at
  <2>1. CASE current = 0
    BY <1>4, <2>1 DEF Opened, NewDraft
  <2>2. CASE current # 0
    <3>1. a.peak = drafts[current].peak /\ a.peak \in Nat
      BY <1>1, <1>3, <1>4, <2>2, AbsorbingFacts DEF Opened, LegDraft
    <3>2. position \in Int /\ position # 0 /\ drafts[current].peak >= Abs(position)
      BY <2>2 DEF IInv, TypeOK, OpenLegMatchesPosition
    <3>3. Abs(position) > 0 /\ Abs(position) \in Nat
      BY <3>2, AbsFacts
    <3> QED BY <3>1, <3>2, <3>3
  <2> QED BY <2>1, <2>2
<1> HIDE DEF a
<1> QED BY <1>1, <1>2, <1>4, <1>5, <1>6, <1>7, OneLegIInv

(* A fill that does not cross zero preserves the invariant. *)
LEMMA GrowIInv ==
  ASSUME IInv, NEW f \in Fill, InOrder(f), Grow(f)
  PROVE  IInv'
<1> DEFINE top == IF Abs(position') > Absorbing(f).peak
                    THEN Abs(position') ELSE Absorbing(f).peak
           a == [Absorbing(f) EXCEPT !.peak = top]
<1>1. Take(f) /\ position' # 0 /\ ~Crosses(position, position')
  BY DEF Grow
<1>2. Absorbing(f) \in LegDraft
  BY <1>1, AbsorbingFacts
<1>3. position \in Int /\ position' \in Int
  BY <1>1, SizeMoves
<1>4. top \in Nat /\ top >= Abs(position')
  <2>1. Abs(position') \in Nat
    BY <1>3, AbsFacts
  <2>2. Absorbing(f).peak \in Nat
    BY <1>2 DEF LegDraft
  <2> QED BY <2>1, <2>2
<1>5. /\ a \in LegDraft
      /\ a.opened_at = Opened(f).opened_at
      /\ a.fills = Absorbing(f).fills
      /\ a.closed_at = None
      /\ a.peak = top
      /\ a.direction = Absorbing(f).direction
      /\ a.entry = Absorbing(f).entry /\ a.exit = Absorbing(f).exit
      /\ a.flip_affected = Absorbing(f).flip_affected
  BY <1>1, <1>2, <1>4, AbsorbingFacts DEF LegDraft
<1>6. a.direction = DirectionOf(position')
  BY <1>1, <1>3, <1>5, SizeMoves DEF DirectionOf, Crosses
<1>7. IF a.flip_affected THEN a.entry - a.exit < Abs(position')
                         ELSE a.entry - a.exit = Abs(position')
  BY <1>1, <1>3, <1>5, <1>6, SizeMoves DEF DirectionOf, Abs
<1>8. /\ drafts' = Append(Earlier, a)
      /\ current' = IF a.closed_at = None THEN Len(drafts') ELSE 0
      /\ flips' = flips
  <2>1. drafts' = Append(Earlier, a)
    BY DEF Grow, Topped
  <2>2. current' = Len(drafts') /\ flips' = flips
    BY DEF Grow
  <2> QED BY <1>5, <2>1, <2>2
<1>9. a.peak > 0
  <2>1. Abs(position') > 0 /\ Abs(position') \in Nat
    BY <1>1, <1>3, AbsFacts
  <2> QED BY <1>4, <1>5, <2>1
<1> HIDE DEF a, top
<1> QED BY <1>1, <1>4, <1>5, <1>6, <1>7, <1>8, <1>9, OneLegIInv

(* A flip closes one balanced leg short and opens the remainder. *)
LEMMA FlipIInv ==
  ASSUME IInv, NEW f \in Fill, InOrder(f), Flip(f)
  PROVE  IInv'
<1> DEFINE n == Len(Earlier)
           a == [Absorbing(f) EXCEPT !.closed_at = f.timestamp,
                                     !.flip_affected = TRUE]
           b == NewDraft(DirectionOf(position'), f.timestamp, Abs(position'), TRUE)
<1>1. Take(f) /\ Crosses(position, position')
  BY DEF Flip
<1>2. /\ f.timestamp \in Time /\ f.timestamp # None /\ f.timestamp \in Nat
      /\ f.quantity \in Int
  BY DEF Fill
<1>3. /\ Earlier \in Seq(LegDraft) /\ n \in Nat
  BY EarlierFacts
<1>4. /\ fills \in Seq(Fill) /\ Len(fills) \in Nat /\ Len(fills) < MaxFills
      /\ position \in Int /\ position' \in Int
  BY <1>1, SizeMoves DEF IInv, TypeOK, Take
<1>5. /\ fills' \in Seq(Fill)
      /\ Len(fills') = Len(fills) + 1
      /\ fills' # <<>>
      /\ fills'[Len(fills')] = f
  BY <1>1, <1>4 DEF Take
<1>6. Absorbing(f) \in LegDraft
  BY <1>1, AbsorbingFacts
<1>7. /\ a \in LegDraft
      /\ a.opened_at = Opened(f).opened_at
      /\ a.fills = Absorbing(f).fills
      /\ a.closed_at = f.timestamp
      /\ a.entry = Absorbing(f).entry /\ a.exit = Absorbing(f).exit
      /\ a.flip_affected = TRUE
      /\ a.peak = Opened(f).peak
  BY <1>1, <1>2, <1>6, AbsorbingFacts DEF LegDraft
<1>8. /\ b \in LegDraft
      /\ b.opened_at = f.timestamp
      /\ b.fills = {}
      /\ b.closed_at = None
      /\ b.direction = DirectionOf(position')
      /\ b.peak = Abs(position')
      /\ b.entry = 0 /\ b.exit = 0
      /\ b.flip_affected = TRUE
  <2>1. Abs(position') \in Nat
    BY <1>4, AbsFacts
  <2>2. DirectionOf(position') \in {"long", "short"}
    BY DEF DirectionOf
  <2> QED BY <1>2, <2>1, <2>2 DEF NewDraft, LegDraft
<1>9. position' # 0 /\ Abs(position') > 0 /\ Abs(position') \in Nat
  <2>1. position' # 0
    BY <1>1, <1>4 DEF Crosses
  <2> QED BY <1>4, <2>1, AbsFacts
<1>10. a.entry - a.exit # 0
  <2>1. a.entry \in Int /\ a.exit \in Int
    BY <1>7 DEF LegDraft
  <2> QED BY <1>1, <1>4, <1>7, <2>1, SizeMoves DEF Crosses
<1>11. /\ drafts' = Earlier \o <<a, b>>
       /\ current' = Len(drafts')
       /\ flips' = flips \cup {Len(fills) + 1}
  BY DEF Flip, Remainder
<1>12. Absorbing(f).fills \subseteq 1 .. Len(fills) + 1
  BY <1>1, <1>4, AbsorbingFacts
<1> HIDE DEF a, b
<1>13. /\ drafts' \in Seq(LegDraft)
       /\ Len(drafts') = n + 2 /\ DOMAIN drafts' = 1 .. n + 2
       /\ drafts'[n + 1] = a
       /\ drafts'[n + 2] = b
       /\ \A i \in 1 .. n : drafts'[i] = Earlier[i]
       /\ current' = n + 2
  BY <1>3, <1>7, <1>8, <1>11
<1>14. TypeOK'
  <2>1. flips \subseteq 1 .. Len(fills)
    BY DEF IInv, TypeOK
  <2>2. flips' \subseteq 1 .. Len(fills')
    <3>0. Len(fills) \in Nat
      BY <1>4
    <3>1. ASSUME NEW k \in flips \cup {Len(fills) + 1}
          PROVE  k \in 1 .. Len(fills) + 1
      <4>1. CASE k \in flips
        BY <2>1, <3>0, <4>1
      <4>2. CASE k = Len(fills) + 1
        BY <3>0, <4>2
      <4> QED BY <4>1, <4>2
    <3> QED BY <1>5, <1>11, <3>1
  <2> QED BY <1>4, <1>5, <1>13, <2>2 DEF TypeOK
<1>15. \A i \in 1 .. n : drafts'[i].closed_at # None
  BY <1>1, <1>13, EarlierHolds
<1>16. OpenLegMatchesPosition'
  <2>1. ASSUME NEW i \in DOMAIN drafts'
        PROVE  drafts'[i].closed_at = None <=> i = current'
    <3>1. i \in 1 .. n \/ i = n + 1 \/ i = n + 2
      BY <1>3, <1>13
    <3> QED BY <1>2, <1>3, <1>7, <1>8, <1>13, <1>15, <3>1
  <2>2. current' # 0 /\ drafts'[current'] = b
    BY <1>3, <1>13
  <2>3. b.peak >= Abs(position')
    BY <1>8, <1>9
  <2> QED BY <1>8, <1>9, <2>1, <2>2, <2>3 DEF OpenLegMatchesPosition
<1>17. FillsPartitioned'
  <2>1. ASSUME NEW k \in 1 .. Len(fills')
        PROVE  \E i \in DOMAIN drafts' : k \in drafts'[i].fills
    <3>1. CASE k \in Absorbing(f).fills
      <4>1. n + 1 \in DOMAIN drafts'
        BY <1>3, <1>13
      <4>2. k \in drafts'[n + 1].fills
        BY <1>7, <1>13, <3>1
      <4> QED BY <4>1, <4>2
    <3>2. CASE k \notin Absorbing(f).fills
      <4>1. PICK i \in 1 .. n : k \in Earlier[i].fills
        BY <1>1, <1>5, <3>2, EarlierHolds
      <4>2. i \in DOMAIN drafts'
        BY <1>3, <1>13
      <4>3. drafts'[i] = Earlier[i]
        BY <1>13
      <4> QED BY <4>1, <4>2, <4>3
    <3> QED BY <3>1, <3>2
  <2>2. ASSUME NEW i \in DOMAIN drafts', NEW j \in DOMAIN drafts', i < j
        PROVE  \A k \in drafts'[i].fills, m \in drafts'[j].fills : k < m
    <3>1. CASE j = n + 2
      BY <1>8, <1>13, <3>1
    <3>2. CASE j = n + 1
      <4>1. i \in 1 .. n
        BY <1>3, <1>13, <2>2, <3>2
      <4> QED BY <1>1, <1>7, <1>13, <3>2, <4>1, EarlierHolds
    <3>3. CASE j \notin {n + 1, n + 2}
      <4>1. i \in 1 .. n /\ j \in 1 .. n
        BY <1>3, <1>13, <2>2, <3>3
      <4> QED BY <1>1, <1>13, <2>2, <4>1, EarlierHolds
    <3> QED BY <3>1, <3>2, <3>3
  <2> QED BY <2>1, <2>2 DEF FillsPartitioned
<1>18. Opened(f).opened_at <= f.timestamp /\ Opened(f).opened_at \in Nat
  BY <1>1, AbsorbingFacts DEF LegDraft
<1>19. ASSUME NEW i \in 1 .. n
       PROVE  /\ Earlier[i].opened_at \in Nat /\ Earlier[i].closed_at \in Nat
              /\ Earlier[i].opened_at <= Earlier[i].closed_at
              /\ Earlier[i].closed_at <= Opened(f).opened_at
              /\ Earlier[i].closed_at <= f.timestamp
  <2>1. Earlier[i].opened_at \in Nat /\ Earlier[i].closed_at \in Nat
    BY <1>1, EarlierHolds DEF LegDraft
  <2> QED BY <1>1, <1>2, <1>18, <2>1, EarlierHolds
<1>20. WindowsDisjoint'
  <2> SUFFICES ASSUME NEW i \in DOMAIN drafts', NEW j \in DOMAIN drafts', i < j
               PROVE  /\ drafts'[i].closed_at # None
                      /\ drafts'[i].opened_at <= drafts'[i].closed_at
                      /\ drafts'[i].closed_at <= drafts'[j].opened_at
    BY DEF WindowsDisjoint
  <2>1. CASE i = n + 1
    <3>1. j = n + 2
      BY <1>3, <1>13, <2>1
    <3> QED BY <1>2, <1>7, <1>8, <1>13, <1>18, <2>1, <3>1
  <2>2. CASE i # n + 1
    <3>1. i \in 1 .. n
      BY <1>3, <1>13, <2>2
    <3>2. CASE j = n + 2
      BY <1>8, <1>13, <1>15, <1>19, <3>1, <3>2
    <3>3. CASE j = n + 1
      BY <1>7, <1>13, <1>15, <1>19, <3>1, <3>3
    <3>4. CASE j \notin {n + 1, n + 2}
      <4>1. j \in 1 .. n
        BY <1>3, <1>13, <3>4
      <4> QED BY <1>1, <1>13, <1>15, <1>19, <3>1, <4>1, EarlierHolds
    <3> QED BY <3>2, <3>3, <3>4
  <2> QED BY <2>1, <2>2
<1>21. PastInv'
  <2> SUFFICES ASSUME NEW i \in DOMAIN drafts'
               PROVE  /\ drafts'[i].opened_at <= f.timestamp
                      /\ drafts'[i].closed_at # None =>
                           /\ drafts'[i].opened_at <= drafts'[i].closed_at
                           /\ drafts'[i].closed_at <= f.timestamp
                      /\ drafts'[i].fills \subseteq 1 .. Len(fills) + 1
    BY <1>5 DEF PastInv
  <2>1. CASE i = n + 2
    BY <1>2, <1>8, <1>13, <2>1
  <2>2. CASE i = n + 1
    BY <1>2, <1>7, <1>12, <1>13, <1>18, <2>2
  <2>3. CASE i \notin {n + 1, n + 2}
    <3>1. i \in 1 .. n
      BY <1>3, <1>13, <2>3
    <3>2. Earlier[i].fills \subseteq 1 .. Len(fills) + 1
      BY <1>1, <1>4, <3>1, EarlierHolds
    <3> QED BY <1>2, <1>13, <1>18, <1>19, <3>1, <3>2
  <2> QED BY <2>1, <2>2, <2>3
<1>22. SizeInv'
  <2> SUFFICES ASSUME NEW i \in DOMAIN drafts'
               PROVE  IF drafts'[i].flip_affected
                        THEN IF i = current' THEN Held(i)' < Abs(position')
                                             ELSE Held(i)' # 0
                        ELSE Held(i)' = IF i = current' THEN Abs(position')
                                                        ELSE 0
    BY DEF SizeInv
  <2>1. CASE i = n + 2
    BY <1>3, <1>8, <1>9, <1>13, <2>1 DEF Held
  <2>2. CASE i = n + 1
    BY <1>3, <1>7, <1>10, <1>13, <2>2 DEF Held
  <2>3. CASE i \notin {n + 1, n + 2}
    <3>1. i \in 1 .. n /\ drafts'[i] = Earlier[i] /\ i # current'
      BY <1>3, <1>13, <2>3
    <3> QED BY <1>1, <3>1, EarlierHolds DEF Held
  <2> QED BY <2>1, <2>2, <2>3
<1>23. PeakInv'
  <2> SUFFICES ASSUME NEW i \in DOMAIN drafts'
               PROVE  \/ drafts'[i].peak > 0
                      \/ drafts'[i].closed_at = drafts'[i].opened_at
    BY DEF PeakInv
  <2>1. CASE i = n + 2
    BY <1>8, <1>9, <1>13, <2>1
  <2>2. CASE i = n + 1
    <3>1. position # 0
      BY <1>1, <1>4 DEF Crosses
    <3>2. current # 0 /\ drafts[current].peak >= Abs(position)
      BY <3>1 DEF IInv, OpenLegMatchesPosition
    <3>3. a.peak = drafts[current].peak /\ a.peak \in Nat
      BY <1>7, <3>2 DEF Opened, LegDraft
    <3>4. Abs(position) > 0 /\ Abs(position) \in Nat
      BY <1>4, <3>1, AbsFacts
    <3> QED BY <1>13, <2>2, <3>2, <3>3, <3>4
  <2>3. CASE i \notin {n + 1, n + 2}
    <3>1. i \in 1 .. n /\ drafts'[i] = Earlier[i]
      BY <1>3, <1>13, <2>3
    <3> QED BY <1>1, <3>1, EarlierHolds
  <2> QED BY <2>1, <2>2, <2>3
<1> QED BY <1>14, <1>16, <1>17, <1>20, <1>21, <1>22, <1>23 DEF IInv

(* The next market starts from nothing. *)
LEMMA NextMarketIInv ==
  ASSUME NextMarket
  PROVE  IInv'
BY DEF NextMarket, IInv, TypeOK, OpenLegMatchesPosition, FillsPartitioned,
       WindowsDisjoint, PastInv, SizeInv, PeakInv

(* The inductive invariant holds however the fills go on. *)
THEOREM ReplayInvariance == Spec => []IInv
<1>1. Init => IInv
  BY DEF Init, IInv, TypeOK, OpenLegMatchesPosition, FillsPartitioned,
         WindowsDisjoint, PastInv, SizeInv, PeakInv
<1>2. IInv /\ [Next]_vars => IInv'
  <2> SUFFICES ASSUME IInv, [Next]_vars PROVE IInv'
    OBVIOUS
  <2>1. CASE Next
    BY <2>1, NextMarketIInv, CloseIInv, FlipIInv, GrowIInv DEF Next
  <2>2. CASE UNCHANGED vars
    BY <2>2 DEF vars, IInv, TypeOK, OpenLegMatchesPosition, FillsPartitioned,
                WindowsDisjoint, PastInv, SizeInv, PeakInv, Held
  <2> QED BY <2>1, <2>2
<1> QED BY <1>1, <1>2, PTL DEF Spec

(***************************************************************************)
(* What reconciliation.py:8-43 promises of one market, for every history:  *)
(* the open leg is the position, every fill has one leg, and the windows   *)
(* of the legs never overlap.                                              *)
(***************************************************************************)
THEOREM ReplaySafety ==
  Spec => [](OpenLegMatchesPosition /\ FillsPartitioned /\ WindowsDisjoint)
<1>1. IInv => OpenLegMatchesPosition /\ FillsPartitioned /\ WindowsDisjoint
  BY DEF IInv
<1> QED BY <1>1, ReplayInvariance, PTL

(* The drafts of a replay stay well typed, sizes above all.                *)
THEOREM ReplayTypes == Spec => []TypeOK
<1>1. IInv => TypeOK
  BY DEF IInv
<1> QED BY <1>1, ReplayInvariance, PTL

(* A closed draft's sizes differ exactly if it is flagged. *)
LEMMA Imbalance == IInv => ImbalanceIsFlagged
<1> SUFFICES ASSUME IInv, NEW i \in DOMAIN drafts, drafts[i].closed_at # None
             PROVE  drafts[i].entry # drafts[i].exit <=> drafts[i].flip_affected
  BY DEF ImbalanceIsFlagged
<1>1. drafts[i] \in LegDraft /\ i # current
  BY DEF IInv, TypeOK, OpenLegMatchesPosition
<1>2. /\ drafts[i].entry \in Int /\ drafts[i].exit \in Int
      /\ drafts[i].flip_affected \in BOOLEAN
  BY <1>1 DEF LegDraft
<1>3. IF drafts[i].flip_affected THEN drafts[i].entry - drafts[i].exit # 0
                                 ELSE drafts[i].entry - drafts[i].exit = 0
  BY <1>1 DEF IInv, SizeInv, Held
<1> QED BY <1>2, <1>3

(***************************************************************************)
(* The flip flag says exactly which closed legs do not balance             *)
(* (reconciliation.py:276-300).                                            *)
(***************************************************************************)
THEOREM FlagsAreTrue == Spec => []ImbalanceIsFlagged
BY Imbalance, ReplayInvariance, PTL

-------------------------------------------------------------------------------
(* A history and one fill more *)

(* What a fill adds to the position is an integer. *)
LEMMA DeltaType == ASSUME NEW f \in Fill PROVE Delta(f) \in Int /\ f.quantity \in Int
<1>1. f.quantity \in Int
  BY DEF Fill
<1> QED BY <1>1 DEF Delta

(* The fills up to the k-th are finitely many. *)
LEMMA Segment == ASSUME NEW k \in Nat PROVE IsFiniteSet(1 .. k) /\ Cardinality(1 .. k) = k
BY FS_Interval

(* One fill more leaves the positions before it alone and moves the last. *)
LEMMA PositionMoves ==
  ASSUME NEW h \in Seq(Fill), NEW f \in Fill
  PROVE  /\ \A k \in 0 .. Len(h) :
              /\ PositionAfter(h, k) \in Int
              /\ PositionAfter(Append(h, f), k) = PositionAfter(h, k)
         /\ PositionAfter(Append(h, f), Len(h) + 1)
              = PositionAfter(h, Len(h)) + Delta(f)
<1> DEFINE g == Append(h, f)
           n == Len(h)
           a == [m \in DOMAIN h |-> Delta(h[m])]
           b == [m \in DOMAIN g |-> Delta(g[m])]
<1>1. /\ n \in Nat /\ DOMAIN h = 1 .. n /\ DOMAIN g = 1 .. n + 1
      /\ g[n + 1] = f /\ \A k \in 1 .. n : h[k] \in Fill /\ g[k] = h[k]
  OBVIOUS
<1>2. /\ \A k \in 1 .. n : a[k] \in Int /\ b[k] = a[k]
      /\ b[n + 1] = Delta(f) /\ b[n + 1] \in Int
  BY <1>1, DeltaType
<1>3. /\ \A k \in 0 .. n : PositionAfter(h, k) = SumFunctionOnSet(a, 1 .. k)
      /\ \A k \in 0 .. n + 1 : PositionAfter(g, k) = SumFunctionOnSet(b, 1 .. k)
  BY DEF PositionAfter
<1> HIDE DEF a, b, g
<1>4. ASSUME NEW k \in 0 .. n
      PROVE  /\ PositionAfter(h, k) \in Int
             /\ PositionAfter(g, k) = PositionAfter(h, k)
  <2>1. k \in Nat /\ k \in 0 .. n + 1
    BY <1>1
  <2>2. IsFiniteSet(1 .. k)
    BY <2>1, Segment
  <2>3. \A m \in 1 .. k : a[m] \in Int /\ b[m] = a[m]
    BY <1>1, <1>2
  <2>4. SumFunctionOnSet(b, 1 .. k) = SumFunctionOnSet(a, 1 .. k)
    BY <2>2, <2>3, SumSame
  <2>5. SumFunctionOnSet(a, 1 .. k) \in Int
    BY <2>2, <2>3, SumType
  <2> QED BY <1>3, <2>1, <2>4, <2>5
<1>5. PositionAfter(g, n + 1) = PositionAfter(h, n) + Delta(f)
  <2>1. PICK S, x : S = 1 .. n /\ x = n + 1
    OBVIOUS
  <2>2. IsFiniteSet(S) /\ x \notin S /\ S \cup {x} = 1 .. n + 1
    BY <1>1, <2>1, Segment
  <2>3. \A y \in S \cup {x} : b[y] \in Int
    BY <1>2, <2>1
  <2>4. SumFunctionOnSet(b, S \cup {x}) = SumFunctionOnSet(b, S) + b[x]
    BY <2>2, <2>3, SumAdd
  <2>5. /\ PositionAfter(g, n + 1) = SumFunctionOnSet(b, S \cup {x})
        /\ PositionAfter(g, n) = SumFunctionOnSet(b, S)
    <3>1. n \in 0 .. n + 1 /\ n + 1 \in 0 .. n + 1
      BY <1>1
    <3> QED BY <1>3, <2>1, <2>2, <3>1
  <2>6. PositionAfter(g, n) = PositionAfter(h, n)
    BY <1>1, <1>4
  <2> QED BY <1>2, <2>1, <2>4, <2>5, <2>6
<1> QED BY <1>4, <1>5 DEF g

(* Nothing replayed, nothing held. *)
LEMMA PositionAtStart == ASSUME NEW h PROVE PositionAfter(h, 0) = 0
<1>1. 1 .. 0 = {}
  OBVIOUS
<1> QED BY <1>1, SumEmpty DEF PositionAfter

(* The leg fill k belongs to: the first not yet ended when it comes. *)
LegOf(h, k) == 1 + Cardinality({m \in Ends(h) : m < k})

(* A leg holds the fills that belong to it. *)
LEMMA FillsOfLeg == \A h, i : FillsOf(h, i) = {k \in DOMAIN h : LegOf(h, k) = i}
BY DEF FillsOf, LegOf

(* A leg's number is one of those begun; a fill that ends one, of those ended. *)
LEMMA LegBounds ==
  ASSUME NEW h \in Seq(Fill)
  PROVE  /\ IsFiniteSet(Ends(h)) /\ Cardinality(Ends(h)) \in Nat
         /\ Ends(h) \subseteq 1 .. Len(h)
         /\ \A k \in 1 .. Len(h) + 1 :
              /\ LegOf(h, k) \in 1 .. Cardinality(Ends(h)) + 1
              /\ k \in Ends(h) => LegOf(h, k) <= Cardinality(Ends(h))
         /\ LegOf(h, Len(h) + 1) = Cardinality(Ends(h)) + 1
<1> DEFINE c == Cardinality(Ends(h))
           Before(k) == {m \in Ends(h) : m < k}
<1>1. Ends(h) \subseteq 1 .. Len(h) /\ Len(h) \in Nat
  BY DEF Ends
<1>2. IsFiniteSet(1 .. Len(h))
  BY <1>1, Segment
<1>3. IsFiniteSet(Ends(h)) /\ c \in Nat
  <2>1. IsFiniteSet(Ends(h))
    BY <1>1, <1>2, FS_Subset
  <2> QED BY <2>1, FS_CardinalityType
<1>4. ASSUME NEW k \in 1 .. Len(h) + 1
      PROVE  /\ Cardinality(Before(k)) \in Nat
             /\ Cardinality(Before(k)) <= c
             /\ k \in Ends(h) => Cardinality(Before(k)) < c
  <2>1. Before(k) \subseteq Ends(h) /\ k \notin Before(k)
    BY <1>1
  <2>2. IsFiniteSet(Before(k)) /\ Cardinality(Before(k)) <= c
    BY <1>3, <2>1, FS_Subset
  <2>3. Cardinality(Before(k)) \in Nat
    BY <2>2, FS_CardinalityType
  <2>4. k \in Ends(h) => Cardinality(Before(k)) # c
    BY <1>3, <2>1, FS_Subset
  <2> QED BY <1>3, <2>2, <2>3, <2>4
<1>5. Before(Len(h) + 1) = Ends(h)
  BY <1>1
<1>6. \A k : LegOf(h, k) = 1 + Cardinality(Before(k))
  BY DEF LegOf
<1> HIDE DEF Before, c
<1>7. ASSUME NEW k \in 1 .. Len(h) + 1
      PROVE  /\ LegOf(h, k) \in 1 .. c + 1
             /\ k \in Ends(h) => LegOf(h, k) <= c
  BY <1>3, <1>4, <1>6
<1>8. LegOf(h, Len(h) + 1) = c + 1
  BY <1>3, <1>5, <1>6 DEF c
<1> QED BY <1>1, <1>3, <1>7, <1>8 DEF c

(* Whether an earlier fill crosses zero does not depend on those after it. *)
LEMMA CrossesMoves ==
  ASSUME NEW h \in Seq(Fill), NEW f \in Fill
  PROVE  /\ \A k \in 1 .. Len(h) : CrossesAt(Append(h, f), k) <=> CrossesAt(h, k)
         /\ CrossesAt(Append(h, f), Len(h) + 1)
              <=> Crosses(PositionAfter(h, Len(h)), PositionAfter(h, Len(h)) + Delta(f))
<1>1. Len(h) \in Nat
  OBVIOUS
<1>2. ASSUME NEW k \in 1 .. Len(h)
      PROVE  CrossesAt(Append(h, f), k) <=> CrossesAt(h, k)
  <2>1. k \in 0 .. Len(h) /\ k - 1 \in 0 .. Len(h)
    BY <1>1
  <2> QED BY <2>1, PositionMoves DEF CrossesAt
<1>3. (Len(h) + 1) - 1 = Len(h) /\ Len(h) \in 0 .. Len(h)
  BY <1>1
<1> QED BY <1>2, <1>3, PositionMoves DEF CrossesAt

(* Nor whether it ends a leg. *)
LEMMA EndsMove ==
  ASSUME NEW h \in Seq(Fill), NEW f \in Fill
  PROVE  LET g == Append(h, f)
             n == Len(h)
             p == PositionAfter(h, n) + Delta(f)
         IN  /\ \A k \in 1 .. n : k \in Ends(g) <=> k \in Ends(h)
             /\ n + 1 \in Ends(g) <=> (p = 0 \/ Crosses(PositionAfter(h, n), p))
             /\ Ends(g) = Ends(h) \cup (IF n + 1 \in Ends(g) THEN {n + 1} ELSE {})
             /\ Cardinality(Ends(g))
                  = Cardinality(Ends(h)) + (IF n + 1 \in Ends(g) THEN 1 ELSE 0)
<1> DEFINE g == Append(h, f)
           n == Len(h)
           p == PositionAfter(h, n) + Delta(f)
<1>1. n \in Nat /\ DOMAIN h = 1 .. n /\ DOMAIN g = 1 .. n + 1
  OBVIOUS
<1>2. \A k \in 1 .. n : k \in Ends(g) <=> k \in Ends(h)
  <2>1. ASSUME NEW k \in 1 .. n PROVE k \in Ends(g) <=> k \in Ends(h)
    <3>1. k \in 0 .. n /\ k \in DOMAIN h /\ k \in DOMAIN g
      BY <1>1
    <3>2. PositionAfter(g, k) = PositionAfter(h, k)
      BY <3>1, PositionMoves
    <3>3. CrossesAt(g, k) <=> CrossesAt(h, k)
      BY CrossesMoves
    <3> QED BY <3>1, <3>2, <3>3 DEF Ends
  <2> QED BY <2>1
<1>3. n + 1 \in Ends(g) <=> (p = 0 \/ Crosses(PositionAfter(h, n), p))
  <2>1. n + 1 \in DOMAIN g
    BY <1>1
  <2>2. PositionAfter(g, n + 1) = p
    BY PositionMoves
  <2>3. CrossesAt(g, n + 1) <=> Crosses(PositionAfter(h, n), p)
    BY CrossesMoves
  <2> QED BY <2>1, <2>2, <2>3 DEF Ends
<1>4. Ends(g) \subseteq 1 .. n + 1 /\ Ends(h) \subseteq 1 .. n
  BY <1>1 DEF Ends
<1> HIDE DEF g, p
<1>5. Ends(g) = Ends(h) \cup (IF n + 1 \in Ends(g) THEN {n + 1} ELSE {})
  <2>1. \A k \in 1 .. n + 1 : k \in 1 .. n \/ k = n + 1
    BY <1>1
  <2> QED BY <1>2, <1>4, <2>1
<1>6. n + 1 \notin Ends(h) /\ IsFiniteSet(Ends(h)) /\ Cardinality(Ends(h)) \in Nat
  BY <1>1, LegBounds
<1>7. Cardinality(Ends(g))
        = Cardinality(Ends(h)) + (IF n + 1 \in Ends(g) THEN 1 ELSE 0)
  <2>1. CASE n + 1 \in Ends(g)
    <3>1. Ends(g) = Ends(h) \cup {n + 1}
      BY <1>5, <2>1
    <3>2. Cardinality(Ends(h) \cup {n + 1}) = Cardinality(Ends(h)) + 1
      BY <1>6, FS_AddElement
    <3> QED BY <2>1, <3>1, <3>2
  <2>2. CASE n + 1 \notin Ends(g)
    <3>1. Ends(g) = Ends(h)
      BY <1>5, <2>2
    <3> QED BY <1>6, <2>2, <3>1
  <2> QED BY <2>1, <2>2
<1> QED BY <1>2, <1>3, <1>5, <1>7 DEF g, p

(* A fill more belongs to the leg that has not ended, and to no other. *)
LEMMA LegsMove ==
  ASSUME NEW h \in Seq(Fill), NEW f \in Fill, NEW c, c = Cardinality(Ends(h))
  PROVE  LET g == Append(h, f)
             n == Len(h)
         IN  /\ \A i : i # c + 1 => FillsOf(g, i) = FillsOf(h, i)
             /\ FillsOf(g, c + 1) = FillsOf(h, c + 1) \cup {n + 1}
             /\ \A i \in Nat : i > c + 1 => FillsOf(h, i) = {}
             /\ \A k \in FillsOf(h, c + 1) : k \notin Ends(h) /\ ~CrossesAt(h, k)
<1> DEFINE g == Append(h, f)
           n == Len(h)
<1>1. n \in Nat /\ DOMAIN h = 1 .. n /\ DOMAIN g = 1 .. n + 1
  OBVIOUS
<1>2. Ends(h) \subseteq 1 .. n /\ Ends(g) \subseteq 1 .. n + 1 /\ c \in Nat
  BY LegBounds DEF Ends
<1>3. \A k \in 1 .. n : k \in Ends(g) <=> k \in Ends(h)
  BY EndsMove
<1> HIDE DEF g
<1>4. ASSUME NEW k \in 1 .. n + 1 PROVE LegOf(g, k) = LegOf(h, k)
  <2>1. {m \in Ends(g) : m < k} = {m \in Ends(h) : m < k}
    <3>1. \A m \in 1 .. n + 1 : m < k => m \in 1 .. n
      BY <1>1
    <3> QED BY <1>2, <1>3, <3>1
  <2> QED BY <2>1 DEF LegOf
<1>5. \A k \in 1 .. n + 1 : LegOf(h, k) \in 1 .. c + 1
  BY LegBounds
<1>6. LegOf(h, n + 1) = c + 1
  BY LegBounds
<1>7. ASSUME NEW i PROVE FillsOf(g, i) = FillsOf(h, i) \cup (IF i = c + 1 THEN {n + 1} ELSE {})
  <2>1. /\ FillsOf(g, i) = {k \in 1 .. n + 1 : LegOf(h, k) = i}
        /\ FillsOf(h, i) = {k \in 1 .. n : LegOf(h, k) = i}
    BY <1>1, <1>4, FillsOfLeg
  <2>2. \A k : k \in 1 .. n + 1 <=> k \in 1 .. n \/ k = n + 1
    BY <1>1
  <2> QED BY <1>6, <2>1, <2>2
<1>8. ASSUME NEW i \in Nat, i > c + 1 PROVE FillsOf(h, i) = {}
  <2>1. \A k \in 1 .. n : LegOf(h, k) # i
    BY <1>1, <1>2, <1>5, <1>8
  <2> QED BY <1>1, <2>1, FillsOfLeg
<1>9. ASSUME NEW k \in FillsOf(h, c + 1)
      PROVE  k \notin Ends(h) /\ ~CrossesAt(h, k)
  <2>1. k \in 1 .. n /\ k \in 1 .. n + 1 /\ LegOf(h, k) = c + 1
    BY <1>1, FillsOfLeg
  <2>2. k \notin Ends(h)
    BY <1>2, <2>1, LegBounds
  <2> QED BY <1>1, <2>1, <2>2 DEF Ends
<1> QED BY <1>7, <1>8, <1>9 DEF g

(* A crossing fill leaves the next leg its remainder, and no other does. *)
LEMMA BirthsMove ==
  ASSUME NEW h \in Seq(Fill), NEW f \in Fill, NEW c, c = Cardinality(Ends(h))
  PROVE  /\ \A i \in 1 .. c + 1 : BornBy(Append(h, f), i) = BornBy(h, i)
         /\ BornBy(Append(h, f), c + 2)
              = IF CrossesAt(Append(h, f), Len(h) + 1) THEN {Len(h) + 1} ELSE {}
<1> DEFINE g == Append(h, f)
           n == Len(h)
<1>1. n \in Nat /\ DOMAIN h = 1 .. n /\ c \in Nat
  BY LegBounds
<1>2. \A i : FillsOf(h, i) \subseteq 1 .. n
  BY <1>1, FillsOfLeg
<1>3. \A k \in 1 .. n : CrossesAt(g, k) <=> CrossesAt(h, k)
  BY CrossesMoves
<1>4. /\ \A i : i # c + 1 => FillsOf(g, i) = FillsOf(h, i)
      /\ FillsOf(g, c + 1) = FillsOf(h, c + 1) \cup {n + 1}
      /\ \A k \in FillsOf(h, c + 1) : ~CrossesAt(h, k)
  BY LegsMove
<1> HIDE DEF g
<1>5. \A i \in 1 .. c + 1 : i - 1 # c + 1
  BY <1>1
<1>6. \A i \in 1 .. c + 1 : BornBy(g, i) = BornBy(h, i)
  BY <1>2, <1>3, <1>4, <1>5 DEF BornBy
<1>7. (c + 2) - 1 = c + 1
  BY <1>1
<1>8. BornBy(g, c + 2) = IF CrossesAt(g, n + 1) THEN {n + 1} ELSE {}
  BY <1>2, <1>3, <1>4, <1>7 DEF BornBy
<1> QED BY <1>6, <1>8 DEF g

(* The fills of a leg are among those replayed. *)
LEMMA LegRanges ==
  ASSUME NEW h \in Seq(Fill)
  PROVE  \A i : /\ BornBy(h, i) \in SUBSET (1 .. Len(h))
                /\ FillsOf(h, i) \in SUBSET (1 .. Len(h))
<1>1. DOMAIN h = 1 .. Len(h)
  OBVIOUS
<1>2. \A i : FillsOf(h, i) \in SUBSET (1 .. Len(h))
  BY <1>1 DEF FillsOf
<1> QED BY <1>2 DEF BornBy

(* What a leg's fills add up to on one side, one fill more. *)
LEMMA VolumeMoves ==
  ASSUME NEW h \in Seq(Fill), NEW f \in Fill, NEW side,
         NEW mine \in SUBSET (1 .. Len(h))
  PROVE  /\ Volume(h, mine, side) \in Int
         /\ Volume(Append(h, f), mine, side) = Volume(h, mine, side)
         /\ Volume(Append(h, f), mine \cup {Len(h) + 1}, side)
              = Volume(h, mine, side) + (IF f.side = side THEN f.quantity ELSE 0)
         /\ Volume(h, {}, side) = 0
<1> DEFINE g == Append(h, f)
           n == Len(h)
           a == [k \in DOMAIN h |-> h[k].quantity]
           b == [k \in DOMAIN g |-> g[k].quantity]
           S == {k \in mine : h[k].side = side}
<1>1. /\ n \in Nat /\ DOMAIN h = 1 .. n /\ DOMAIN g = 1 .. n + 1
      /\ g[n + 1] = f /\ \A k \in 1 .. n : h[k] \in Fill /\ g[k] = h[k]
  OBVIOUS
<1>2. /\ \A k \in 1 .. n : a[k] \in Int /\ b[k] = a[k]
      /\ b[n + 1] = f.quantity /\ b[n + 1] \in Int
  BY <1>1, DeltaType
<1>3. \A U : /\ Volume(h, U, side) = SumFunctionOnSet(a, {k \in U : h[k].side = side})
             /\ Volume(g, U, side) = SumFunctionOnSet(b, {k \in U : g[k].side = side})
  BY DEF Volume
<1>4. {k \in mine : g[k].side = side} = S
  BY <1>1
<1>5. {k \in mine \cup {n + 1} : g[k].side = side}
        = S \cup (IF f.side = side THEN {n + 1} ELSE {})
  BY <1>1, <1>4
<1>6. IsFiniteSet(S) /\ S \subseteq 1 .. n /\ n + 1 \notin S
  <2>1. S \subseteq 1 .. n
    OBVIOUS
  <2>2. IsFiniteSet(1 .. n)
    BY <1>1, Segment
  <2>3. IsFiniteSet(S)
    BY <2>1, <2>2, FS_Subset
  <2>4. n + 1 \notin S
    BY <1>1, <2>1
  <2> QED BY <2>1, <2>3, <2>4
<1> HIDE DEF a, b, g, S
<1>7. SumFunctionOnSet(a, S) \in Int /\ SumFunctionOnSet(b, S) = SumFunctionOnSet(a, S)
  <2>1. \A k \in S : a[k] \in Int /\ b[k] = a[k]
    BY <1>2, <1>6
  <2>2. SumFunctionOnSet(a, S) \in Int
    BY <1>6, <2>1, SumType
  <2>3. SumFunctionOnSet(b, S) = SumFunctionOnSet(a, S)
    BY <1>6, <2>1, SumSame
  <2> QED BY <2>2, <2>3
<1>8. /\ Volume(h, mine, side) = SumFunctionOnSet(a, S)
      /\ Volume(g, mine, side) = SumFunctionOnSet(b, S)
  BY <1>3, <1>4 DEF S
<1>9. Volume(g, mine \cup {n + 1}, side)
        = SumFunctionOnSet(b, S \cup (IF f.side = side THEN {n + 1} ELSE {}))
  BY <1>3, <1>5
<1>10. SumFunctionOnSet(b, S \cup {n + 1}) = SumFunctionOnSet(b, S) + f.quantity
  <2>1. PICK x : x = n + 1
    OBVIOUS
  <2>2. \A y \in S \cup {x} : b[y] \in Int
    BY <1>2, <1>6, <2>1
  <2>3. SumFunctionOnSet(b, S \cup {x}) = SumFunctionOnSet(b, S) + b[x]
    <3>1. IsFiniteSet(S) /\ x \notin S
      BY <1>6, <2>1
    <3> QED BY <2>2, <3>1, SumAdd
  <2> QED BY <1>2, <2>1, <2>3
<1>11. Volume(g, mine \cup {n + 1}, side)
         = Volume(h, mine, side) + (IF f.side = side THEN f.quantity ELSE 0)
  <2>1. CASE f.side = side
    BY <1>7, <1>8, <1>9, <1>10, <2>1
  <2>2. CASE f.side # side
    <3>1. Volume(g, mine \cup {n + 1}, side) = SumFunctionOnSet(b, S)
      BY <1>9, <2>2
    <3> QED BY <1>7, <1>8, <2>2, <3>1
  <2> QED BY <2>1, <2>2
<1>12. Volume(h, {}, side) = 0
  <2>1. {k \in {} : h[k].side = side} = {}
    OBVIOUS
  <2> QED BY <1>3, <2>1, SumEmpty
<1> QED BY <1>7, <1>8, <1>11, <1>12 DEF g

(* The exposures of a leg that does not get the fill. *)
LEMMA ExposuresStay ==
  ASSUME NEW h \in Seq(Fill), NEW f \in Fill,
         NEW mine \in SUBSET (1 .. Len(h)), NEW born \in SUBSET (1 .. Len(h))
  PROVE  /\ Exposures(h, mine, born) \subseteq Nat
         /\ Exposures(Append(h, f), mine, born) = Exposures(h, mine, born)
<1> DEFINE n == Len(h)
<1>1. \A k \in 1 .. n : /\ PositionAfter(h, k) \in Int
                        /\ PositionAfter(Append(h, f), k) = PositionAfter(h, k)
                        /\ CrossesAt(Append(h, f), k) <=> CrossesAt(h, k)
  <2>1. \A k \in 1 .. n : k \in 0 .. n
    OBVIOUS
  <2> QED BY <2>1, PositionMoves, CrossesMoves
<1>2. ASSUME NEW k \in 1 .. n PROVE Abs(PositionAfter(h, k)) \in Nat
  BY <1>1 DEF Abs
<1>3. Exposures(h, mine, born) \subseteq Nat
  BY <1>2 DEF Exposures
<1>4. Exposures(Append(h, f), mine, born) = Exposures(h, mine, born)
  BY <1>1 DEF Exposures
<1> QED BY <1>3, <1>4

(* Those of one that does: a crossing fill's exposure is not this leg's. *)
LEMMA ExposuresGrow ==
  ASSUME NEW h \in Seq(Fill), NEW f \in Fill, NEW e,
         e = Abs(PositionAfter(h, Len(h)) + Delta(f)),
         NEW mine \in SUBSET (1 .. Len(h)), NEW born \in SUBSET (1 .. Len(h))
  PROVE  Exposures(Append(h, f), mine \cup {Len(h) + 1}, born)
           = Exposures(h, mine, born)
               \cup (IF CrossesAt(Append(h, f), Len(h) + 1) THEN {} ELSE {e})
<1>1. PICK g, last : g = Append(h, f) /\ last = Len(h) + 1
  OBVIOUS
<1>2. Exposures(g, mine, born) = Exposures(h, mine, born)
  BY <1>1, ExposuresStay
<1>3. Abs(PositionAfter(g, last)) = e
  BY <1>1, PositionMoves
<1>4. Exposures(g, mine \cup {last}, born)
        = Exposures(g, mine, born) \cup (IF CrossesAt(g, last) THEN {} ELSE {e})
  BY <1>3 DEF Exposures
<1> QED BY <1>1, <1>2, <1>4

(* Those of the leg a crossing fill leaves its remainder. *)
LEMMA ExposuresBegin ==
  ASSUME NEW h \in Seq(Fill), NEW f \in Fill
  PROVE  Exposures(Append(h, f), {}, {Len(h) + 1})
           = {Abs(PositionAfter(h, Len(h)) + Delta(f))}
<1>1. Exposures(Append(h, f), {}, {Len(h) + 1})
        = {Abs(PositionAfter(Append(h, f), Len(h) + 1))}
  BY DEF Exposures
<1> QED BY <1>1, PositionMoves

(* What is said of a leg that does not get the fill stays true of it. *)
LEMMA DescribesStays ==
  ASSUME NEW h \in Seq(Fill), NEW f \in Fill, NEW d,
         NEW mine \in SUBSET (1 .. Len(h)), NEW born \in SUBSET (1 .. Len(h)),
         Describes(d, h, mine, born)
  PROVE  Describes(d, Append(h, f), mine, born)
<1> DEFINE g == Append(h, f)
           n == Len(h)
<1>1. n \in Nat /\ \A k \in 1 .. n : g[k] = h[k]
  OBVIOUS
<1>2. \A k \in 1 .. n : /\ PositionAfter(g, k) = PositionAfter(h, k)
                        /\ CrossesAt(g, k) <=> CrossesAt(h, k)
                        /\ k \in Ends(g) <=> k \in Ends(h)
  <2>1. \A k \in 1 .. n : k \in 0 .. n
    BY <1>1
  <2> QED BY <2>1, PositionMoves, CrossesMoves, EndsMove
<1>3. Exposures(g, mine, born) = Exposures(h, mine, born)
  BY ExposuresStay
<1>4. \A side : Volume(g, mine, side) = Volume(h, mine, side)
  BY VolumeMoves
<1> HIDE DEF g
<1>5. mine \cap Ends(g) = mine \cap Ends(h)
  BY <1>2
<1>6. Begun(d, g, Openings(mine, born))
  <2>1. Openings(mine, born) \subseteq 1 .. n
    BY DEF Openings
  <2>2. Begun(d, h, Openings(mine, born))
    BY DEF Describes
  <2> QED BY <1>1, <1>2, <2>1, <2>2 DEF Begun
<1>7. Ended(d, g, mine \cap Ends(g))
  <2>1. Ended(d, h, mine \cap Ends(h))
    BY DEF Describes
  <2> QED BY <1>1, <1>5, <2>1 DEF Ended
<1>8. d.flip_affected <=> \E k \in born \cup mine : CrossesAt(g, k)
  BY <1>2 DEF Describes
<1>9. Describes(d, g, mine, born)
  BY <1>3, <1>4, <1>6, <1>7, <1>8 DEF Describes
<1> QED BY <1>9 DEF g

-------------------------------------------------------------------------------
(* The loop and the history *)

(* Where a step starts: the leg that gets the fill is the one not ended. *)
LEMMA StepFacts ==
  ASSUME IInv, ReferenceInv, NEW f \in Fill, InOrder(f), Take(f),
         NEW c, c = Cardinality(Ends(fills)),
         NEW mine, mine = FillsOf(fills, c + 1),
         NEW born, born = BornBy(fills, c + 1)
  PROVE  /\ fills \in Seq(Fill) /\ fills' = Append(fills, f) /\ Len(fills) \in Nat
         /\ Len(fills') = Len(fills) + 1 /\ fills'[Len(fills) + 1] = f
         /\ position = PositionAfter(fills, Len(fills))
         /\ position' = position + Delta(f)
         /\ position' = PositionAfter(fills', Len(fills'))
         /\ position \in Int /\ position' \in Int
         /\ c \in Nat /\ Len(Earlier) = c
         /\ mine \in SUBSET (1 .. Len(fills)) /\ born \in SUBSET (1 .. Len(fills))
         /\ current = 0 <=> position = 0
         /\ current = 0 => mine = {} /\ born = {}
         /\ current # 0 => Describes(drafts[current], fills, mine, born)
<1>1. fills \in Seq(Fill) /\ position \in Int /\ drafts \in Seq(LegDraft)
  BY DEF IInv, TypeOK
<1>2. fills' = Append(fills, f) /\ position' = position + Delta(f)
  BY DEF Take
<1>3. /\ Len(fills') = Len(fills) + 1 /\ fills'[Len(fills) + 1] = f
      /\ Len(fills) \in Nat
  BY <1>1, <1>2
<1>4. position = PositionAfter(fills, Len(fills))
  BY DEF ReferenceInv
<1>5. position' = PositionAfter(fills', Len(fills'))
  BY <1>1, <1>2, <1>3, <1>4, PositionMoves
<1>6. position' \in Int
  BY <1>1, <1>2, DeltaType
<1>7. c \in Nat
  BY <1>1, LegBounds
<1>8. mine \in SUBSET (1 .. Len(fills)) /\ born \in SUBSET (1 .. Len(fills))
  BY <1>1, LegRanges
<1>9. current = 0 <=> position = 0
  BY DEF IInv, OpenLegMatchesPosition
<1>10. Len(drafts) = c + (IF position = 0 THEN 0 ELSE 1)
  BY <1>4 DEF ReferenceInv, LegCount
<1>11. Len(Earlier) = c
  BY <1>7, <1>9, <1>10, EarlierFacts
<1>12. current = 0 => mine = {} /\ born = {}
  BY <1>9 DEF ReferenceInv, FlatInv
<1>13. current # 0 => Describes(drafts[current], fills, mine, born)
  <2>1. SUFFICES ASSUME current # 0
                 PROVE  Describes(drafts[current], fills, mine, born)
    OBVIOUS
  <2>2. current = c + 1 /\ current \in DOMAIN drafts
    BY <1>7, <1>9, <1>10, <2>1, EarlierFacts
  <2> QED BY <2>2 DEF ReferenceInv, DraftsInv
<1> QED BY <1>1, <1>2, <1>3, <1>4, <1>5, <1>6, <1>7, <1>8, <1>9, <1>11, <1>12, <1>13

(* The absorbing leg began when and where the history says it did. *)
LEMMA AbsorbingBegun ==
  ASSUME IInv, ReferenceInv, NEW f \in Fill, InOrder(f), Take(f),
         NEW c, c = Cardinality(Ends(fills)),
         NEW mine, mine = FillsOf(fills, c + 1),
         NEW born, born = BornBy(fills, c + 1)
  PROVE  Begun(Absorbing(f), fills', Openings(mine \cup {Len(fills) + 1}, born))
<1> DEFINE n == Len(fills)
           leg == Absorbing(f)
           before == Openings(mine, born)
           after == Openings(mine \cup {n + 1}, born)
<1>1. /\ fills \in Seq(Fill) /\ fills' = Append(fills, f) /\ n \in Nat
      /\ fills'[n + 1] = f
      /\ position' = PositionAfter(fills', n + 1)
      /\ position' = position + Delta(f) /\ position \in Int
      /\ mine \in SUBSET (1 .. n) /\ born \in SUBSET (1 .. n)
      /\ current = 0 <=> position = 0
      /\ current = 0 => mine = {} /\ born = {}
      /\ current # 0 => Describes(drafts[current], fills, mine, born)
  BY StepFacts
<1>2. leg.direction = Opened(f).direction /\ leg.opened_at = Opened(f).opened_at
  BY AbsorbingFacts
<1>3. CASE current = 0
  <2>1. after = {n + 1}
    BY <1>1, <1>3 DEF Openings
  <2>2. leg.opened_at = f.timestamp /\ leg.direction = DirectionOf(Delta(f))
    BY <1>2, <1>3 DEF Opened, NewDraft
  <2>3. position' = Delta(f)
    BY <1>1, <1>3, DeltaType
  <2> HIDE DEF leg, after
  <2>4. n + 1 \in after /\ \A m \in after : n + 1 <= m
    BY <1>1, <2>1
  <2>5. leg.opened_at = fills'[n + 1].timestamp
    BY <1>1, <2>2
  <2>6. leg.direction = DirectionOf(PositionAfter(fills', n + 1))
    BY <1>1, <2>2, <2>3
  <2>7. Begun(leg, fills', after)
    BY <2>4, <2>5, <2>6 DEF Begun
  <2> QED BY <2>7 DEF leg, after
<1>4. CASE current # 0
  <2>1. Begun(drafts[current], fills, before)
    BY <1>1, <1>4 DEF Describes
  <2>2. PICK k \in before :
          /\ \A m \in before : k <= m
          /\ drafts[current].opened_at = fills[k].timestamp
          /\ drafts[current].direction = DirectionOf(PositionAfter(fills, k))
    BY <2>1 DEF Begun
  <2>3. k \in 1 .. n /\ k \in 0 .. n
    BY <1>1, <2>2 DEF Openings
  <2>4. fills'[k] = fills[k] /\ PositionAfter(fills', k) = PositionAfter(fills, k)
    BY <1>1, <2>3, PositionMoves
  <2>5. k \in after /\ \A m \in after : k <= m
    <3>1. CASE born = {}
      <4>1. before = mine /\ after = mine \cup {n + 1}
        BY <3>1 DEF Openings
      <4>2. k < n + 1 /\ k \in Nat
        BY <1>1, <2>3
      <4> HIDE DEF before, after
      <4> QED BY <2>2, <4>1, <4>2
    <3>2. CASE born # {}
      <4>1. before = born /\ after = born
        BY <3>2 DEF Openings
      <4> HIDE DEF before, after
      <4> QED BY <2>2, <4>1
    <3> QED BY <3>1, <3>2
  <2>6. /\ leg.opened_at = drafts[current].opened_at
        /\ leg.direction = drafts[current].direction
    BY <1>2, <1>4 DEF Opened
  <2> HIDE DEF leg, after, before
  <2>7. Begun(leg, fills', after)
    BY <2>2, <2>4, <2>5, <2>6 DEF Begun
  <2> QED BY <2>7 DEF leg, after
<1> QED BY <1>3, <1>4

(* What an absorbing leg was before it got the fill. *)
LEMMA OpenedHolds ==
  ASSUME IInv, ReferenceInv, NEW f \in Fill, InOrder(f), Take(f),
         NEW c, c = Cardinality(Ends(fills)),
         NEW mine, mine = FillsOf(fills, c + 1),
         NEW born, born = BornBy(fills, c + 1)
  PROVE  /\ Opened(f).fills = mine
         /\ Opened(f).entry = Volume(fills, mine, EntrySideOf(Opened(f).direction))
         /\ Opened(f).exit = Volume(fills, mine, ExitSideOf(Opened(f).direction))
         /\ Opened(f).flip_affected <=> \E k \in born \cup mine : CrossesAt(fills, k)
<1>1. /\ fills \in Seq(Fill)
      /\ mine \in SUBSET (1 .. Len(fills)) /\ born \in SUBSET (1 .. Len(fills))
      /\ current = 0 => mine = {} /\ born = {}
      /\ current # 0 => Describes(drafts[current], fills, mine, born)
  BY StepFacts
<1>2. CASE current = 0
  <2>1. /\ Opened(f).fills = {} /\ Opened(f).entry = 0 /\ Opened(f).exit = 0
        /\ Opened(f).flip_affected = FALSE
    BY <1>2 DEF Opened, NewDraft
  <2>2. \A side : Volume(fills, mine, side) = 0
    BY <1>1, <1>2, VolumeMoves
  <2> QED BY <1>1, <1>2, <2>1, <2>2
<1>3. CASE current # 0
  <2>1. Opened(f) = drafts[current]
    BY <1>3 DEF Opened
  <2> QED BY <1>1, <1>3, <2>1 DEF Describes
<1> QED BY <1>2, <1>3

(* It holds what the history says its fills hold. *)
LEMMA AbsorbingVolumes ==
  ASSUME IInv, ReferenceInv, NEW f \in Fill, InOrder(f), Take(f),
         NEW c, c = Cardinality(Ends(fills)),
         NEW mine, mine = FillsOf(fills, c + 1)
  PROVE  /\ Absorbing(f).fills = mine \cup {Len(fills) + 1}
         /\ Absorbing(f).entry
              = Volume(fills', mine \cup {Len(fills) + 1},
                       EntrySideOf(Absorbing(f).direction))
         /\ Absorbing(f).exit
              = Volume(fills', mine \cup {Len(fills) + 1},
                       ExitSideOf(Absorbing(f).direction))
<1>1. PICK old, leg, now : /\ old = Opened(f) /\ leg = Absorbing(f)
                           /\ now = mine \cup {Len(fills) + 1}
  OBVIOUS
<1>2. /\ fills \in Seq(Fill) /\ fills' = Append(fills, f)
      /\ mine \in SUBSET (1 .. Len(fills))
  BY StepFacts
<1>3. /\ leg.direction = old.direction
      /\ leg.fills = old.fills \cup {Len(fills) + 1}
      /\ old \in LegDraft /\ old.direction \in {"long", "short"}
  BY <1>1, AbsorbingFacts DEF LegDraft
<1>4. /\ old.fills = mine
      /\ old.entry = Volume(fills, mine, EntrySideOf(old.direction))
      /\ old.exit = Volume(fills, mine, ExitSideOf(old.direction))
  BY <1>1, OpenedHolds
<1>5. /\ leg.entry = IF EntrySide(old, f) THEN old.entry + f.quantity ELSE old.entry
      /\ leg.exit = IF EntrySide(old, f) THEN old.exit ELSE old.exit + f.quantity
  BY <1>1, <1>3 DEF Absorbing, Absorb, LegDraft
<1>6. f.side \in {"buy", "sell"} /\ f.quantity \in Int
  <2>1. f.side \in {"buy", "sell"}
    BY DEF Fill
  <2> QED BY <2>1, DeltaType
<1>7. EntrySide(old, f) <=> f.side = EntrySideOf(old.direction)
  BY <1>3, <1>6 DEF EntrySide, EntrySideOf
<1>8. ~EntrySide(old, f) <=> f.side = ExitSideOf(old.direction)
  BY <1>3, <1>6 DEF EntrySide, ExitSideOf
<1>9. ASSUME NEW side
      PROVE  /\ Volume(fills, mine, side) \in Int
             /\ Volume(fills', now, side)
                  = Volume(fills, mine, side)
                      + (IF f.side = side THEN f.quantity ELSE 0)
  BY <1>1, <1>2, VolumeMoves
<1>10. leg.entry = Volume(fills', now, EntrySideOf(old.direction))
  <2>1. PICK side : side = EntrySideOf(old.direction)
    OBVIOUS
  <2>2. /\ old.entry = Volume(fills, mine, side) /\ old.entry \in Int
        /\ Volume(fills', now, side)
             = old.entry + (IF f.side = side THEN f.quantity ELSE 0)
    BY <1>4, <1>9, <2>1
  <2>3. leg.entry = IF f.side = side THEN old.entry + f.quantity ELSE old.entry
    BY <1>5, <1>7, <2>1
  <2>4. old.entry + 0 = old.entry
    BY <2>2
  <2> QED BY <2>1, <2>2, <2>3, <2>4
<1>11. leg.exit = Volume(fills', now, ExitSideOf(old.direction))
  <2>1. PICK side : side = ExitSideOf(old.direction)
    OBVIOUS
  <2>2. /\ old.exit = Volume(fills, mine, side) /\ old.exit \in Int
        /\ Volume(fills', now, side)
             = old.exit + (IF f.side = side THEN f.quantity ELSE 0)
    BY <1>4, <1>9, <2>1
  <2>3. leg.exit = IF f.side = side THEN old.exit + f.quantity ELSE old.exit
    BY <1>5, <1>8, <2>1
  <2>4. old.exit + 0 = old.exit
    BY <2>2
  <2> QED BY <2>1, <2>2, <2>3, <2>4
<1>12. leg.fills = now
  BY <1>1, <1>3, <1>4
<1> QED BY <1>1, <1>3, <1>10, <1>11, <1>12

(* It is flagged if the fill that left it a remainder, or one of its own   *)
(* before this one, crossed zero.                                          *)
LEMMA AbsorbingFlags ==
  ASSUME IInv, ReferenceInv, NEW f \in Fill, InOrder(f), Take(f),
         NEW c, c = Cardinality(Ends(fills)),
         NEW mine, mine = FillsOf(fills, c + 1),
         NEW born, born = BornBy(fills, c + 1)
  PROVE  Absorbing(f).flip_affected
           <=> \E k \in born \cup mine : CrossesAt(fills', k)
<1>1. /\ fills \in Seq(Fill) /\ fills' = Append(fills, f)
      /\ mine \in SUBSET (1 .. Len(fills)) /\ born \in SUBSET (1 .. Len(fills))
  BY StepFacts
<1>2. Absorbing(f).flip_affected = Opened(f).flip_affected
  BY AbsorbingFacts
<1>3. Opened(f).flip_affected <=> \E k \in born \cup mine : CrossesAt(fills, k)
  BY OpenedHolds
<1>4. \A k \in 1 .. Len(fills) : CrossesAt(fills', k) <=> CrossesAt(fills, k)
  BY <1>1, CrossesMoves
<1> QED BY <1>1, <1>2, <1>3, <1>4

(* The fill ends the leg it goes to when the position meets or crosses zero. *)
LEMMA AbsorbingEnds ==
  ASSUME IInv, ReferenceInv, NEW f \in Fill, InOrder(f), Take(f),
         NEW c, c = Cardinality(Ends(fills)),
         NEW mine, mine = FillsOf(fills, c + 1),
         NEW over, over <=> position' = 0 \/ Crosses(position, position')
  PROVE  /\ (mine \cup {Len(fills) + 1}) \cap Ends(fills')
              = IF over THEN {Len(fills) + 1} ELSE {}
         /\ Ends(fills') = Ends(fills) \cup (IF over THEN {Len(fills) + 1} ELSE {})
         /\ Cardinality(Ends(fills')) = c + (IF over THEN 1 ELSE 0)
         /\ CrossesAt(fills', Len(fills) + 1) <=> Crosses(position, position')
<1> DEFINE n == Len(fills)
<1>1. /\ fills \in Seq(Fill) /\ fills' = Append(fills, f) /\ n \in Nat
      /\ position = PositionAfter(fills, n)
      /\ position' = position + Delta(f)
      /\ mine \in SUBSET (1 .. n)
  BY StepFacts
<1>2. n + 1 \in Ends(fills') <=> over
  BY <1>1, EndsMove
<1>3. /\ Ends(fills') = Ends(fills) \cup (IF over THEN {n + 1} ELSE {})
      /\ Cardinality(Ends(fills')) = c + (IF over THEN 1 ELSE 0)
  BY <1>1, <1>2, EndsMove
<1>4. CrossesAt(fills', n + 1) <=> Crosses(position, position')
  BY <1>1, CrossesMoves
<1>5. \A k \in mine : k \notin Ends(fills)
  BY <1>1, LegsMove
<1>6. \A k \in mine : k # n + 1
  BY <1>1
<1> QED BY <1>2, <1>3, <1>4, <1>5, <1>6

(* The exposures of the absorbing leg are its own and the fill's, unless   *)
(* the fill crosses zero.                                                  *)
LEMMA AbsorbingPeaks ==
  ASSUME IInv, ReferenceInv, NEW f \in Fill, InOrder(f), Take(f),
         NEW c, c = Cardinality(Ends(fills)),
         NEW mine, mine = FillsOf(fills, c + 1),
         NEW born, born = BornBy(fills, c + 1),
         NEW before, before = Exposures(fills, mine, born)
  PROVE  /\ Exposures(fills', mine \cup {Len(fills) + 1}, born)
              = before \cup (IF Crosses(position, position') THEN {}
                             ELSE {Abs(position')})
         /\ before \subseteq Nat
         /\ IF current = 0
              THEN before = {} /\ Absorbing(f).peak = 0
              ELSE /\ Absorbing(f).peak \in before
                   /\ \A x \in before : x <= Absorbing(f).peak
<1> DEFINE n == Len(fills)
<1>1. /\ fills \in Seq(Fill) /\ fills' = Append(fills, f) /\ n \in Nat
      /\ position = PositionAfter(fills, n)
      /\ position' = position + Delta(f)
      /\ mine \in SUBSET (1 .. n) /\ born \in SUBSET (1 .. n)
      /\ current = 0 => mine = {} /\ born = {}
      /\ current # 0 => Describes(drafts[current], fills, mine, born)
  BY StepFacts
<1>2. CrossesAt(fills', n + 1) <=> Crosses(position, position')
  BY AbsorbingEnds
<1>3. Exposures(fills', mine \cup {n + 1}, born)
        = before \cup (IF Crosses(position, position') THEN {} ELSE {Abs(position')})
  <2>1. PICK e : e = Abs(position')
    OBVIOUS
  <2>2. Exposures(Append(fills, f), mine \cup {Len(fills) + 1}, born)
          = before \cup (IF CrossesAt(Append(fills, f), Len(fills) + 1)
                           THEN {} ELSE {e})
    <3>1. e = Abs(PositionAfter(fills, Len(fills)) + Delta(f))
      BY <1>1, <2>1
    <3>2. before = Exposures(fills, mine, born)
      OBVIOUS
    <3>3. Exposures(Append(fills, f), mine \cup {Len(fills) + 1}, born)
            = Exposures(fills, mine, born)
                \cup (IF CrossesAt(Append(fills, f), Len(fills) + 1)
                        THEN {} ELSE {e})
      BY ONLY <1>1, <3>1, f \in Fill, ExposuresGrow
    <3> QED BY <3>2, <3>3
  <2> QED BY <1>1, <1>2, <2>1, <2>2
<1>4. before \subseteq Nat
  BY <1>1, ExposuresStay
<1>5. Absorbing(f).peak = Opened(f).peak
  BY AbsorbingFacts
<1>6. CASE current = 0
  <2>1. Opened(f).peak = 0
    BY <1>6 DEF Opened, NewDraft
  <2>2. before = {}
    BY <1>1, <1>6 DEF Exposures
  <2> QED BY <1>3, <1>4, <1>5, <1>6, <2>1, <2>2
<1>7. CASE current # 0
  <2>1. Opened(f) = drafts[current]
    BY <1>7 DEF Opened
  <2>2. /\ drafts[current].peak \in before
        /\ \A x \in before : x <= drafts[current].peak
    BY <1>1, <1>7 DEF Describes
  <2> QED BY <1>3, <1>4, <1>5, <1>7, <2>1, <2>2
<1> QED BY <1>6, <1>7

(***************************************************************************)
(* So a draft is described as the history describes it if the action has   *)
(* closed it, flagged it and topped it as the position asks.               *)
(***************************************************************************)
LEMMA AbsorbingDescribed ==
  ASSUME IInv, ReferenceInv, NEW f \in Fill, InOrder(f), Take(f), NEW a,
         NEW over, over <=> position' = 0 \/ Crosses(position, position'),
         a.direction = Absorbing(f).direction,
         a.opened_at = Absorbing(f).opened_at,
         a.fills = Absorbing(f).fills,
         a.entry = Absorbing(f).entry, a.exit = Absorbing(f).exit,
         a.closed_at = IF over THEN f.timestamp ELSE None,
         a.flip_affected <=> Absorbing(f).flip_affected \/ Crosses(position, position'),
         IF Crosses(position, position')
           THEN current # 0 /\ a.peak = Absorbing(f).peak
           ELSE a.peak = IF Abs(position') > Absorbing(f).peak
                           THEN Abs(position') ELSE Absorbing(f).peak,
         NEW c, c = Cardinality(Ends(fills))
  PROVE  Describes(a, fills', FillsOf(fills', c + 1), BornBy(fills', c + 1))
<1>1. PICK mine, born, n, now :
        /\ mine = FillsOf(fills, c + 1) /\ born = BornBy(fills, c + 1)
        /\ n = Len(fills) /\ now = mine \cup {n + 1}
  OBVIOUS
<1>2. /\ fills \in Seq(Fill) /\ fills' = Append(fills, f) /\ c \in Nat
      /\ n \in Nat /\ fills'[n + 1] = f /\ position' \in Int
  BY <1>1, StepFacts
<1>3. FillsOf(fills', c + 1) = now /\ BornBy(fills', c + 1) = born
  <2>1. FillsOf(fills', c + 1) = now
    BY <1>1, <1>2, LegsMove
  <2>2. c + 1 \in 1 .. c + 1
    BY <1>2
  <2>3. BornBy(fills', c + 1) = born
    <3>1. \A j \in 1 .. c + 1 : BornBy(Append(fills, f), j) = BornBy(fills, j)
      BY <1>1, <1>2, BirthsMove
    <3> QED BY <1>1, <1>2, <2>2, <3>1
  <2> QED BY <2>1, <2>3
<1>4. Begun(a, fills', Openings(now, born))
  <2>1. Begun(Absorbing(f), fills', Openings(now, born))
    BY <1>1, AbsorbingBegun
  <2> QED BY <2>1 DEF Begun
<1>5. Ended(a, fills', now \cap Ends(fills'))
  <2>1. now \cap Ends(fills') = IF over THEN {n + 1} ELSE {}
    BY <1>1, AbsorbingEnds
  <2>2. CASE over
    <3>1. now \cap Ends(fills') = {n + 1}
      BY <2>1, <2>2
    <3>2. a.closed_at = fills'[n + 1].timestamp
      BY <1>2, <2>2
    <3>3. n + 1 <= n + 1
      BY <1>2
    <3> QED BY <3>1, <3>2, <3>3 DEF Ended
  <2>3. CASE ~over
    BY <2>1, <2>3 DEF Ended
  <2> QED BY <2>2, <2>3
<1>6. /\ a.fills = now
      /\ a.entry = Volume(fills', now, EntrySideOf(a.direction))
      /\ a.exit = Volume(fills', now, ExitSideOf(a.direction))
      /\ Absorbing(f).flip_affected <=> \E k \in born \cup mine : CrossesAt(fills', k)
  <2>1. /\ Absorbing(f).fills = mine \cup {Len(fills) + 1}
        /\ Absorbing(f).entry
             = Volume(fills', mine \cup {Len(fills) + 1},
                      EntrySideOf(Absorbing(f).direction))
        /\ Absorbing(f).exit
             = Volume(fills', mine \cup {Len(fills) + 1},
                      ExitSideOf(Absorbing(f).direction))
    BY <1>1, AbsorbingVolumes
  <2>2. Absorbing(f).flip_affected
          <=> \E k \in born \cup mine : CrossesAt(fills', k)
    BY <1>1, AbsorbingFlags
  <2> QED BY <1>1, <2>1, <2>2
<1>7. a.flip_affected <=> \E k \in born \cup now : CrossesAt(fills', k)
  <2>1. CrossesAt(fills', n + 1) <=> Crosses(position, position')
    BY <1>1, AbsorbingEnds
  <2>2. born \cup now = (born \cup mine) \cup {n + 1}
    BY <1>1
  <2> QED BY <1>6, <2>1, <2>2
<1>8. /\ a.peak \in Exposures(fills', now, born)
      /\ \A x \in Exposures(fills', now, born) : x <= a.peak
  <2>1. PICK before, top, p :
          /\ before = Exposures(fills, mine, born)
          /\ top = Abs(position') /\ p = Absorbing(f).peak
    OBVIOUS
  <2>2. /\ Exposures(fills', now, born)
             = before \cup (IF Crosses(position, position') THEN {} ELSE {top})
        /\ before \subseteq Nat
        /\ IF current = 0 THEN before = {} /\ p = 0
                          ELSE p \in before /\ \A x \in before : x <= p
    <3>1. now = mine \cup {Len(fills) + 1}
      BY <1>1
    <3>2. Exposures(fills', now, born)
            = before \cup (IF Crosses(position, position') THEN {}
                           ELSE {Abs(position')})
      BY <1>1, <2>1, <3>1, AbsorbingPeaks
    <3>3. /\ before \subseteq Nat
          /\ IF current = 0 THEN before = {} /\ Absorbing(f).peak = 0
             ELSE /\ Absorbing(f).peak \in before
                  /\ \A x \in before : x <= Absorbing(f).peak
      BY <1>1, <2>1, AbsorbingPeaks
    <3> QED BY <2>1, <3>2, <3>3
  <2>3. top \in Nat
    BY <1>2, <2>1, AbsFacts
  <2>4. p \in Nat
    BY <2>1, AbsorbingFacts DEF LegDraft
  <2>5. CASE Crosses(position, position')
    <3>1. Exposures(fills', now, born) = before /\ a.peak = p /\ current # 0
      BY <2>1, <2>2, <2>5
    <3> QED BY <2>2, <3>1
  <2>6. CASE ~Crosses(position, position')
    <3>1. /\ Exposures(fills', now, born) = before \cup {top}
          /\ a.peak = IF top > p THEN top ELSE p
      BY <2>1, <2>2, <2>6
    <3>2. a.peak \in before \cup {top}
      BY <2>2, <2>3, <2>4, <3>1
    <3>3. ASSUME NEW x \in before \cup {top} PROVE x <= a.peak
      BY <2>2, <2>3, <2>4, <3>1
    <3> QED BY <3>1, <3>2, <3>3
  <2> QED BY <2>5, <2>6
<1>9. Describes(a, fills', now, born)
  BY <1>4, <1>5, <1>6, <1>7, <1>8 DEF Describes
<1> QED BY <1>3, <1>9

(* The legs before it are described as before. *)
LEMMA EarlierDescribed ==
  ASSUME IInv, ReferenceInv, NEW f \in Fill, InOrder(f), Take(f),
         NEW i \in 1 .. Len(Earlier)
  PROVE  Describes(Earlier[i], fills', FillsOf(fills', i), BornBy(fills', i))
<1>1. PICK c : c = Cardinality(Ends(fills))
  OBVIOUS
<1>2. /\ fills \in Seq(Fill) /\ fills' = Append(fills, f) /\ c \in Nat
      /\ Len(Earlier) = c
  BY <1>1, StepFacts
<1>3. i \in DOMAIN drafts /\ Earlier[i] = drafts[i]
  BY EarlierFacts
<1>4. Describes(drafts[i], fills, FillsOf(fills, i), BornBy(fills, i))
  BY <1>3 DEF ReferenceInv, DraftsInv
<1>5. i # c + 1 /\ i \in 1 .. c + 1
  BY <1>2
<1>6. FillsOf(fills', i) = FillsOf(fills, i) /\ BornBy(fills', i) = BornBy(fills, i)
  <2>1. FillsOf(fills', i) = FillsOf(fills, i)
    BY <1>1, <1>2, <1>5, LegsMove
  <2>2. BornBy(fills', i) = BornBy(fills, i)
    <3>1. \A j \in 1 .. c + 1 : BornBy(Append(fills, f), j) = BornBy(fills, j)
      BY <1>1, <1>2, BirthsMove
    <3> QED BY <1>2, <1>5, <3>1
  <2> QED BY <2>1, <2>2
<1>7. /\ FillsOf(fills, i) \in SUBSET (1 .. Len(fills))
      /\ BornBy(fills, i) \in SUBSET (1 .. Len(fills))
  BY <1>2, LegRanges
<1> QED BY <1>2, <1>3, <1>4, <1>6, <1>7, DescribesStays

(* The fills that cross zero, one fill more. *)
LEMMA FlipsMove ==
  ASSUME IInv, ReferenceInv, NEW f \in Fill, InOrder(f), Take(f)
  PROVE  {k \in DOMAIN fills' : CrossesAt(fills', k)}
           = flips \cup (IF Crosses(position, position') THEN {Len(fills) + 1} ELSE {})
<1>1. PICK c : c = Cardinality(Ends(fills))
  OBVIOUS
<1>2. fills \in Seq(Fill) /\ fills' = Append(fills, f) /\ Len(fills) \in Nat
  BY <1>1, StepFacts
<1>3. CrossesAt(fills', Len(fills) + 1) <=> Crosses(position, position')
  BY <1>1, AbsorbingEnds
<1>4. \A k \in 1 .. Len(fills) : CrossesAt(fills', k) <=> CrossesAt(fills, k)
  BY <1>2, CrossesMoves
<1>5. DOMAIN fills = 1 .. Len(fills) /\ DOMAIN fills' = 1 .. Len(fills) + 1
  BY <1>2
<1>6. flips = {k \in 1 .. Len(fills) : CrossesAt(fills, k)}
  BY <1>5 DEF ReferenceInv
<1>7. \A k : k \in 1 .. Len(fills) + 1 <=> k \in 1 .. Len(fills) \/ k = Len(fills) + 1
  BY <1>2
<1> QED BY <1>3, <1>4, <1>5, <1>6, <1>7

(* A step that leaves one leg after the earlier ones preserves it. *)
LEMMA OneLegReference ==
  ASSUME IInv, ReferenceInv, NEW f \in Fill, InOrder(f), Take(f), NEW a \in LegDraft,
         ~Crosses(position, position'),
         a.direction = Absorbing(f).direction,
         a.opened_at = Absorbing(f).opened_at,
         a.fills = Absorbing(f).fills,
         a.entry = Absorbing(f).entry, a.exit = Absorbing(f).exit,
         a.closed_at = IF position' = 0 THEN f.timestamp ELSE None,
         a.flip_affected = Absorbing(f).flip_affected,
         a.peak = IF Abs(position') > Absorbing(f).peak
                    THEN Abs(position') ELSE Absorbing(f).peak,
         drafts' = Append(Earlier, a), flips' = flips
  PROVE  ReferenceInv'
<1>1. PICK c : c = Cardinality(Ends(fills))
  OBVIOUS
<1>2. /\ fills \in Seq(Fill) /\ fills' = Append(fills, f) /\ c \in Nat
      /\ Len(fills) \in Nat /\ Len(fills') = Len(fills) + 1
      /\ position' = PositionAfter(fills', Len(fills'))
      /\ Earlier \in Seq(LegDraft) /\ Len(Earlier) = c
  BY <1>1, StepFacts, EarlierFacts
<1>3. /\ Cardinality(Ends(fills')) = c + (IF position' = 0 THEN 1 ELSE 0)
      /\ ~CrossesAt(fills', Len(fills) + 1)
  <2>1. PICK over : over <=> position' = 0
    OBVIOUS
  <2>2. over <=> position' = 0 \/ Crosses(position, position')
    BY <2>1
  <2>3. /\ Cardinality(Ends(fills')) = c + (IF over THEN 1 ELSE 0)
        /\ CrossesAt(fills', Len(fills) + 1) <=> Crosses(position, position')
    BY <1>1, <2>2, AbsorbingEnds
  <2> QED BY <2>1, <2>3
<1>4. Len(drafts') = c + 1 /\ DOMAIN drafts' = 1 .. c + 1 /\ drafts'[c + 1] = a
      /\ \A i \in 1 .. c : drafts'[i] = Earlier[i]
  BY <1>2
<1>5. Len(drafts') = LegCount(fills')
  BY <1>2, <1>3, <1>4 DEF LegCount
<1>6. Describes(a, fills', FillsOf(fills', c + 1), BornBy(fills', c + 1))
  <2>1. PICK over : over <=> position' = 0
    OBVIOUS
  <2>2. over <=> position' = 0 \/ Crosses(position, position')
    BY <2>1
  <2>3. a.closed_at = IF over THEN f.timestamp ELSE None
    BY <2>1
  <2> QED BY <1>1, <2>2, <2>3, AbsorbingDescribed
<1>7. ASSUME NEW i \in DOMAIN drafts'
      PROVE  Describes(drafts'[i], fills', FillsOf(fills', i), BornBy(fills', i))
  <2>1. CASE i = c + 1
    BY <1>4, <1>6, <2>1
  <2>2. CASE i # c + 1
    <3>1. i \in 1 .. Len(Earlier) /\ drafts'[i] = Earlier[i]
      BY <1>2, <1>4, <2>2
    <3> QED BY <3>1, EarlierDescribed
  <2> QED BY <2>1, <2>2
<1>8. flips' = {k \in DOMAIN fills' : CrossesAt(fills', k)}
  BY FlipsMove
<1>9. position' = 0 => /\ FillsOf(fills', (c + 1) + 1) = {}
                       /\ BornBy(fills', (c + 1) + 1) = {}
  <2>1. (c + 1) + 1 = c + 2 /\ c + 2 \in Nat /\ c + 2 > c + 1 /\ c + 2 # c + 1
    BY <1>2
  <2>2. FillsOf(fills', c + 2) = {}
    BY <1>1, <1>2, <2>1, LegsMove
  <2>3. BornBy(fills', c + 2) = {}
    BY <1>1, <1>2, <1>3, BirthsMove
  <2> QED BY <2>1, <2>2, <2>3
<1>10. FlatInv'
  BY <1>3, <1>9 DEF FlatInv
<1>11. DraftsInv'
  BY <1>7 DEF DraftsInv
<1> QED BY <1>2, <1>5, <1>8, <1>10, <1>11 DEF ReferenceInv

(* Closing a leg at zero is what the history describes. *)
LEMMA CloseReference ==
  ASSUME IInv, ReferenceInv, NEW f \in Fill, InOrder(f), Close(f)
  PROVE  ReferenceInv'
<1> DEFINE a == [Absorbing(f) EXCEPT !.closed_at = f.timestamp]
<1>1. Take(f) /\ position' = 0
  BY DEF Close
<1>2. Absorbing(f) \in LegDraft /\ f.timestamp \in Time
  BY <1>1, AbsorbingFacts DEF Fill
<1>3. /\ a \in LegDraft
      /\ a.direction = Absorbing(f).direction
      /\ a.opened_at = Absorbing(f).opened_at
      /\ a.fills = Absorbing(f).fills
      /\ a.entry = Absorbing(f).entry /\ a.exit = Absorbing(f).exit
      /\ a.closed_at = f.timestamp
      /\ a.flip_affected = Absorbing(f).flip_affected
      /\ a.peak = Absorbing(f).peak /\ a.peak \in Nat
  BY <1>2 DEF LegDraft
<1>4. ~Crosses(position, position')
  BY <1>1 DEF Crosses
<1>5. drafts' = Append(Earlier, a) /\ flips' = flips
  BY DEF Close
<1>6. a.peak = IF Abs(position') > Absorbing(f).peak
                 THEN Abs(position') ELSE Absorbing(f).peak
  BY <1>1, <1>3 DEF Abs
<1> HIDE DEF a
<1>7. a.closed_at = IF position' = 0 THEN f.timestamp ELSE None
  BY <1>1, <1>3
<1> QED BY <1>1, <1>3, <1>4, <1>5, <1>6, <1>7, OneLegReference

(* So is a fill that does not cross zero. *)
LEMMA GrowReference ==
  ASSUME IInv, ReferenceInv, NEW f \in Fill, InOrder(f), Grow(f)
  PROVE  ReferenceInv'
<1> DEFINE a == Topped(Absorbing(f))
<1>1. Take(f) /\ position' # 0 /\ ~Crosses(position, position')
  BY DEF Grow
<1>2. /\ Absorbing(f) \in LegDraft
      /\ Absorbing(f).closed_at = None
  BY <1>1, AbsorbingFacts
<1>3. Abs(position') \in Nat
  <2>1. position' \in Int
    BY <1>1, SizeMoves
  <2> QED BY <2>1, AbsFacts
<1>4. /\ a \in LegDraft
      /\ a.direction = Absorbing(f).direction
      /\ a.opened_at = Absorbing(f).opened_at
      /\ a.fills = Absorbing(f).fills
      /\ a.entry = Absorbing(f).entry /\ a.exit = Absorbing(f).exit
      /\ a.closed_at = None
      /\ a.flip_affected = Absorbing(f).flip_affected
      /\ a.peak = IF Abs(position') > Absorbing(f).peak
                    THEN Abs(position') ELSE Absorbing(f).peak
  BY <1>2, <1>3 DEF Topped, LegDraft
<1>5. drafts' = Append(Earlier, a) /\ flips' = flips
  BY DEF Grow
<1> HIDE DEF a
<1>6. a.closed_at = IF position' = 0 THEN f.timestamp ELSE None
  BY <1>1, <1>4
<1> QED BY <1>1, <1>4, <1>5, <1>6, OneLegReference

(* A flip leaves two: the leg it ends and the one it begins. *)
LEMMA FlipReference ==
  ASSUME IInv, ReferenceInv, NEW f \in Fill, InOrder(f), Flip(f)
  PROVE  ReferenceInv'
<1> DEFINE a == [Absorbing(f) EXCEPT !.closed_at = f.timestamp,
                                     !.flip_affected = TRUE]
           b == Remainder(f)
<1>1. Take(f) /\ Crosses(position, position')
  BY DEF Flip
<1>2. PICK c, n : c = Cardinality(Ends(fills)) /\ n = Len(fills)
  OBVIOUS
<1>3. /\ fills \in Seq(Fill) /\ fills' = Append(fills, f) /\ c \in Nat
      /\ n \in Nat /\ Len(fills') = n + 1 /\ fills'[n + 1] = f
      /\ position' = PositionAfter(fills', n + 1)
      /\ position \in Int /\ position' \in Int
      /\ current = 0 <=> position = 0
      /\ Earlier \in Seq(LegDraft) /\ Len(Earlier) = c
  BY <1>1, <1>2, StepFacts, EarlierFacts
<1>4. position' # 0 /\ current # 0
  BY <1>1, <1>3 DEF Crosses
<1>5. /\ Cardinality(Ends(fills')) = c + 1
      /\ CrossesAt(fills', n + 1)
      /\ Ends(fills') = Ends(fills) \cup {n + 1}
  <2>1. PICK over : over <=> TRUE
    OBVIOUS
  <2>2. over <=> position' = 0 \/ Crosses(position, position')
    BY <1>1, <2>1
  <2>3. /\ Cardinality(Ends(fills')) = c + (IF over THEN 1 ELSE 0)
        /\ Ends(fills') = Ends(fills) \cup (IF over THEN {Len(fills) + 1} ELSE {})
        /\ CrossesAt(fills', Len(fills) + 1) <=> Crosses(position, position')
    BY <1>1, <1>2, <2>2, AbsorbingEnds
  <2> QED BY <1>1, <1>2, <2>1, <2>3
<1>6. Absorbing(f) \in LegDraft /\ f.timestamp \in Time
  BY <1>1, AbsorbingFacts DEF Fill
<1>7. /\ a \in LegDraft
      /\ a.direction = Absorbing(f).direction
      /\ a.opened_at = Absorbing(f).opened_at
      /\ a.fills = Absorbing(f).fills
      /\ a.entry = Absorbing(f).entry /\ a.exit = Absorbing(f).exit
      /\ a.closed_at = f.timestamp
      /\ a.flip_affected = TRUE
      /\ a.peak = Absorbing(f).peak
  BY <1>6 DEF LegDraft
<1>8. /\ b.direction = DirectionOf(position')
      /\ b.opened_at = f.timestamp
      /\ b.closed_at = None
      /\ b.fills = {}
      /\ b.peak = Abs(position')
      /\ b.entry = 0 /\ b.exit = 0
      /\ b.flip_affected = TRUE
  BY DEF Remainder, NewDraft
<1>9. drafts' = Earlier \o <<a, b>> /\ flips' = flips \cup {n + 1}
  BY <1>2 DEF Flip
<1>10. b \in LegDraft
  <2>1. Abs(position') \in Nat
    BY <1>3, AbsFacts
  <2> QED BY <1>6, <2>1 DEF Remainder, NewDraft, LegDraft, DirectionOf
<1> HIDE DEF a, b
<1>11. /\ Len(drafts') = c + 2 /\ DOMAIN drafts' = 1 .. c + 2
       /\ drafts'[c + 1] = a /\ drafts'[c + 2] = b
       /\ \A i \in 1 .. c : drafts'[i] = Earlier[i]
  <2>1. PICK e : e = Earlier
    OBVIOUS
  <2>2. e \in Seq(LegDraft) /\ Len(e) = c /\ c \in Nat
    BY <1>3, <2>1
  <2>3. drafts' = e \o <<a, b>>
    BY <1>9, <2>1
  <2>4. Len(drafts') = c + 2 /\ DOMAIN drafts' = 1 .. c + 2
    BY <1>7, <1>10, <2>2, <2>3
  <2>5. drafts'[c + 1] = a /\ drafts'[c + 2] = b
    BY <1>7, <1>10, <2>2, <2>3
  <2>6. \A i \in 1 .. c : drafts'[i] = e[i]
    BY <1>7, <1>10, <2>2, <2>3
  <2> QED BY <2>1, <2>4, <2>5, <2>6
<1>12. Describes(a, fills', FillsOf(fills', c + 1), BornBy(fills', c + 1))
  <2>1. PICK over : over <=> TRUE
    OBVIOUS
  <2>2. over <=> position' = 0 \/ Crosses(position, position')
    BY <1>1, <2>1
  <2>3. a.closed_at = IF over THEN f.timestamp ELSE None
    BY <1>7, <2>1
  <2>4. a.flip_affected <=> Absorbing(f).flip_affected \/ Crosses(position, position')
    BY <1>1, <1>7
  <2>5. IF Crosses(position, position')
          THEN current # 0 /\ a.peak = Absorbing(f).peak
          ELSE a.peak = IF Abs(position') > Absorbing(f).peak
                          THEN Abs(position') ELSE Absorbing(f).peak
    BY <1>1, <1>4, <1>7
  <2> QED BY <1>1, <1>2, <1>7, <2>2, <2>3, <2>4, <2>5, AbsorbingDescribed
<1>13. FillsOf(fills', c + 2) = {} /\ BornBy(fills', c + 2) = {n + 1}
  <2>1. c + 2 \in Nat /\ c + 2 > c + 1 /\ c + 2 # c + 1
    BY <1>3
  <2>2. FillsOf(fills', c + 2) = {}
    BY <1>2, <1>3, <2>1, LegsMove
  <2>3. BornBy(fills', c + 2) = {n + 1}
    BY <1>2, <1>3, <1>5, BirthsMove
  <2> QED BY <2>2, <2>3
<1>14. Describes(b, fills', {}, {n + 1})
  <2>1. Begun(b, fills', Openings({}, {n + 1}))
    <3>1. Openings({}, {n + 1}) = {n + 1} /\ n + 1 <= n + 1
      BY <1>3 DEF Openings
    <3> QED BY <1>3, <1>8, <3>1 DEF Begun
  <2>2. Ended(b, fills', {} \cap Ends(fills'))
    BY <1>8 DEF Ended
  <2>3. Exposures(fills', {}, {n + 1}) = {Abs(position')}
    <3>1. /\ position = PositionAfter(fills, Len(fills))
          /\ position' = position + Delta(f)
      BY <1>1, <1>2, StepFacts
    <3>2. Exposures(Append(fills, f), {}, {Len(fills) + 1})
            = {Abs(PositionAfter(fills, Len(fills)) + Delta(f))}
      BY <1>3, ExposuresBegin
    <3> QED BY <1>2, <1>3, <3>1, <3>2
  <2>4. Abs(position') \in Nat
    BY <1>3, AbsFacts
  <2>5. \A side : Volume(fills', {}, side) = 0
    BY SumEmpty DEF Volume
  <2>6. \E k \in {n + 1} \cup {} : CrossesAt(fills', k)
    BY <1>5
  <2>7. /\ b.peak \in Exposures(fills', {}, {n + 1})
        /\ \A x \in Exposures(fills', {}, {n + 1}) : x <= b.peak
    <3>1. Abs(position') <= Abs(position')
      BY <2>4
    <3> QED BY <1>8, <2>3, <3>1
  <2> QED BY <1>8, <2>1, <2>2, <2>5, <2>6, <2>7 DEF Describes
<1>15. ASSUME NEW i \in DOMAIN drafts'
       PROVE  Describes(drafts'[i], fills', FillsOf(fills', i), BornBy(fills', i))
  <2>1. CASE i = c + 1
    BY <1>11, <1>12, <2>1
  <2>2. CASE i = c + 2
    BY <1>11, <1>13, <1>14, <2>2
  <2>3. CASE i \notin {c + 1, c + 2}
    <3>1. i \in 1 .. Len(Earlier) /\ drafts'[i] = Earlier[i]
      BY <1>3, <1>11, <2>3
    <3> QED BY <1>1, <3>1, EarlierDescribed
  <2> QED BY <2>1, <2>2, <2>3
<1>16. DraftsInv'
  BY <1>15 DEF DraftsInv
<1>17. Len(drafts') = LegCount(fills')
  BY <1>3, <1>4, <1>5, <1>11 DEF LegCount
<1>18. flips' = {k \in DOMAIN fills' : CrossesAt(fills', k)}
  BY <1>1, <1>2, <1>9, FlipsMove
<1>19. FlatInv'
  BY <1>4 DEF FlatInv
<1> QED BY <1>3, <1>16, <1>17, <1>18, <1>19 DEF ReferenceInv

(* The history of no fills. *)
LEMMA EmptyHistory ==
  /\ PositionAfter(<<>>, Len(<<>>)) = 0
  /\ LegCount(<<>>) = 0
  /\ \A i : FillsOf(<<>>, i) \cup BornBy(<<>>, i) = {}
  /\ {k \in DOMAIN <<>> : CrossesAt(<<>>, k)} = {}
<1>1. DOMAIN <<>> = {} /\ Len(<<>>) = 0
  OBVIOUS
<1>2. PositionAfter(<<>>, 0) = 0
  BY PositionAtStart
<1>3. Ends(<<>>) = {} /\ Cardinality(Ends(<<>>)) = 0
  BY <1>1, FS_EmptySet DEF Ends
<1>4. \A i : FillsOf(<<>>, i) = {} /\ BornBy(<<>>, i) = {}
  BY <1>1 DEF FillsOf, BornBy
<1> QED BY <1>1, <1>2, <1>3, <1>4 DEF LegCount

(* Both invariants hold however the fills go on. *)
THEOREM ReferenceInvariance == Spec => []ReferenceInv
<1>1. Init => ReferenceInv
  <2> SUFFICES ASSUME Init PROVE ReferenceInv
    OBVIOUS
  <2>1. /\ fills = <<>> /\ drafts = <<>> /\ position = 0 /\ flips = {}
        /\ Len(drafts) = 0 /\ DOMAIN drafts = {}
    BY DEF Init
  <2> QED BY <2>1, EmptyHistory DEF ReferenceInv, DraftsInv, FlatInv
<1>2. IInv /\ ReferenceInv /\ [Next]_vars => ReferenceInv'
  <2> SUFFICES ASSUME IInv, ReferenceInv, [Next]_vars PROVE ReferenceInv'
    OBVIOUS
  <2>1. CASE NextMarket
    <3>1. /\ fills' = <<>> /\ drafts' = <<>> /\ position' = 0 /\ flips' = {}
          /\ Len(drafts') = 0 /\ DOMAIN drafts' = {}
      BY <2>1 DEF NextMarket
    <3> QED BY <3>1, EmptyHistory DEF ReferenceInv, DraftsInv, FlatInv
  <2>2. CASE \E f \in Fill : InOrder(f) /\ (Close(f) \/ Flip(f) \/ Grow(f))
    BY <2>2, CloseReference, FlipReference, GrowReference
  <2>3. CASE UNCHANGED vars
    <3>1. /\ fills' = fills /\ drafts' = drafts /\ position' = position
          /\ flips' = flips
      BY <2>3 DEF vars
    <3> QED BY <3>1 DEF ReferenceInv, DraftsInv, FlatInv
  <2> QED BY <2>1, <2>2, <2>3 DEF Next
<1> QED BY <1>1, <1>2, ReplayInvariance, PTL DEF Spec

(* What is described draft by draft is what the history makes of the legs. *)
LEMMA DescribedIsExpected ==
  ASSUME NEW h, NEW d \in LegDraft, NEW i,
         Describes(d, h, FillsOf(h, i), BornBy(h, i)),
         \A k \in 0 .. Len(h) : PositionAfter(h, k) \in Int, h \in Seq(Fill)
  PROVE  d = ExpectedLeg(h, i)
<1> DEFINE mine == FillsOf(h, i)
           born == BornBy(h, i)
           ends == mine \cap Ends(h)
           first == Min(Openings(mine, born))
           long == PositionAfter(h, first) > 0
<1>1. Len(h) \in Nat /\ mine \subseteq 1 .. Len(h) /\ born \subseteq 1 .. Len(h)
  BY LegRanges
<1>2. PICK k \in Openings(mine, born) :
        /\ \A m \in Openings(mine, born) : k <= m
        /\ d.opened_at = h[k].timestamp
        /\ d.direction = DirectionOf(PositionAfter(h, k))
  BY DEF Describes, Begun
<1>3. Openings(mine, born) \subseteq Int
  BY <1>1 DEF Openings
<1> HIDE DEF mine, born
<1>4. first = k
  <2>1. \A x \in Openings(mine, born) :
          (\A y \in Openings(mine, born) : x <= y) => x = k
    BY <1>2, <1>3
  <2> QED BY <1>2, <2>1 DEF Min
<1>5. d.direction = IF long THEN "long" ELSE "short"
  BY <1>2, <1>4 DEF DirectionOf
<1>6. d.closed_at = IF ends = {} THEN None ELSE h[Max(ends)].timestamp
  <2>1. Ended(d, h, ends)
    BY DEF Describes, mine, born
  <2>2. CASE ends = {}
    BY <2>1, <2>2 DEF Ended
  <2>3. CASE ends # {}
    <3>1. PICK m \in ends : (\A x \in ends : x <= m) /\ d.closed_at = h[m].timestamp
      BY <2>1, <2>3 DEF Ended
    <3>2. ends \subseteq Int
      <4>1. ends \subseteq 1 .. Len(h)
        BY <1>1
      <4> HIDE DEF ends
      <4> QED BY <1>1, <4>1
    <3> HIDE DEF ends
    <3>3. Max(ends) = m
      <4>1. \A x \in ends : (\A y \in ends : x >= y) => x = m
        BY <3>1, <3>2
      <4>2. \A y \in ends : m >= y
        BY <3>1, <3>2
      <4> QED BY <4>1, <4>2 DEF Max
    <3> QED BY <2>3, <3>1, <3>3
  <2> QED BY <2>2, <2>3
<1>7. d.peak = Max(Exposures(h, mine, born))
  <2>1. PICK E : E = Exposures(h, mine, born)
    OBVIOUS
  <2>2. d.peak \in E /\ \A x \in E : x <= d.peak
    BY <2>1 DEF Describes, mine, born
  <2>3. E \subseteq Int
    <3>1. \A m \in 1 .. Len(h) : m \in 0 .. Len(h)
      BY <1>1
    <3>2. \A m \in 1 .. Len(h) : Abs(PositionAfter(h, m)) \in Int
      BY <3>1, AbsFacts
    <3> QED BY <1>1, <2>1, <3>2 DEF Exposures
  <2>4. PICK top : top = d.peak
    OBVIOUS
  <2>5. ASSUME NEW x \in E, \A y \in E : x >= y PROVE x = top
    <3>1. x >= top /\ x <= top /\ x \in Int /\ top \in Int
      BY <2>2, <2>3, <2>4, <2>5
    <3> QED BY <3>1
  <2>6. ASSUME NEW y \in E PROVE top >= y
    <3>1. y <= top /\ y \in Int /\ top \in Int
      BY <2>2, <2>3, <2>4
    <3> QED BY <3>1
  <2> QED BY <2>1, <2>2, <2>4, <2>5, <2>6 DEF Max
<1>8. /\ d.fills = mine
      /\ d.entry = Volume(h, mine, EntrySideOf(d.direction))
      /\ d.exit = Volume(h, mine, ExitSideOf(d.direction))
      /\ d.flip_affected <=> \E m \in born \cup mine : CrossesAt(h, m)
  BY DEF Describes, mine, born
<1>9. /\ EntrySideOf(d.direction) = IF long THEN "buy" ELSE "sell"
      /\ ExitSideOf(d.direction) = IF long THEN "sell" ELSE "buy"
  BY <1>5 DEF EntrySideOf, ExitSideOf
<1>10. d.opened_at = h[first].timestamp
  BY <1>2, <1>4
<1> DEFINE flagged == \E m \in born \cup mine : CrossesAt(h, m)
           closed == IF ends = {} THEN None ELSE h[Max(ends)].timestamp
<1>11. ExpectedLeg(h, i) =
         [direction |-> IF long THEN "long" ELSE "short",
          opened_at |-> h[first].timestamp,
          closed_at |-> closed,
          fills     |-> mine,
          peak      |-> Max(Exposures(h, mine, born)),
          entry     |-> Volume(h, mine, IF long THEN "buy" ELSE "sell"),
          exit      |-> Volume(h, mine, IF long THEN "sell" ELSE "buy"),
          flip_affected |-> flagged]
  BY DEF ExpectedLeg, mine, born
<1>12. flagged \in BOOLEAN /\ d.flip_affected \in BOOLEAN
  BY DEF LegDraft
<1>13. d.flip_affected = flagged
  BY <1>8, <1>12
<1>14. d = [direction |-> d.direction, opened_at |-> d.opened_at,
            closed_at |-> d.closed_at, fills |-> d.fills, peak |-> d.peak,
            entry |-> d.entry, exit |-> d.exit,
            flip_affected |-> d.flip_affected]
  BY DEF LegDraft
<1> HIDE DEF ends, first, long, flagged
<1> QED BY <1>5, <1>6, <1>7, <1>8, <1>9, <1>10, <1>11, <1>13, <1>14

(***************************************************************************)
(* The one pass over the fills builds the legs their whole history         *)
(* describes, whatever the fills are (reconciliation.py:8-43, 232-300).    *)
(***************************************************************************)
THEOREM LegsAreTheReference == Spec => []MatchesReference
<1>1. IInv /\ ReferenceInv => MatchesReference
  <2> SUFFICES ASSUME IInv, ReferenceInv PROVE MatchesReference
    OBVIOUS
  <2>1. fills \in Seq(Fill) /\ drafts \in Seq(LegDraft)
    BY DEF IInv, TypeOK
  <2>2. \A k \in 0 .. Len(fills) : PositionAfter(fills, k) \in Int
    <3>1. CASE Fill = {}
      <4>1. fills = <<>>
        BY <2>1, <3>1
      <4> QED BY <4>1, PositionAtStart
    <3>2. CASE Fill # {}
      BY <2>1, <3>2, PositionMoves
    <3> QED BY <3>1, <3>2
  <2>3. ASSUME NEW i \in DOMAIN drafts
        PROVE  drafts[i] = ExpectedLeg(fills, i)
    <3>1. drafts[i] \in LegDraft
      BY <2>1
    <3>2. Describes(drafts[i], fills, FillsOf(fills, i), BornBy(fills, i))
      BY DEF ReferenceInv, DraftsInv
    <3> QED BY <2>1, <2>2, <3>1, <3>2, DescribedIsExpected
  <2>4. DOMAIN drafts = 1 .. LegCount(fills)
    BY <2>1 DEF ReferenceInv
  <2>5. drafts = [i \in 1 .. LegCount(fills) |-> ExpectedLeg(fills, i)]
    BY <2>1, <2>3, <2>4
  <2> QED BY <2>5 DEF ReferenceInv, MatchesReference
<1> QED BY <1>1, ReplayInvariance, ReferenceInvariance, PTL

(* What the fills of a leg add up to is what they buy less what they sell. *)
LEMMA NetVolume ==
  ASSUME NEW h \in Seq(Fill), NEW mine \in SUBSET DOMAIN h, NEW a,
         \A k \in mine : a[k] = Delta(h[k])
  PROVE  /\ Volume(h, mine, "buy") \in Int /\ Volume(h, mine, "sell") \in Int
         /\ SumFunctionOnSet(a, mine)
              = Volume(h, mine, "buy") - Volume(h, mine, "sell")
<1> DEFINE size == [k \in DOMAIN h |-> h[k].quantity]
           zero == [k \in DOMAIN h |-> 0]
           bought == {k \in mine : h[k].side = "buy"}
           sold == {k \in mine : h[k].side = "sell"}
<1>1. ASSUME NEW k \in mine
      PROVE  /\ h[k].side \in {"buy", "sell"} /\ size[k] \in Int
             /\ zero[k] = 0 /\ a[k] \in Int
             /\ h[k].side = "buy" => a[k] = size[k]
             /\ h[k].side = "sell" => a[k] = zero[k] - size[k]
  <2>1. h[k] \in Fill
    OBVIOUS
  <2>2. /\ h[k].side \in {"buy", "sell"} /\ h[k].quantity \in Int
        /\ Delta(h[k]) \in Int
    BY <2>1, DeltaType DEF Fill
  <2>3. size[k] = h[k].quantity /\ zero[k] = 0 /\ a[k] = Delta(h[k])
    OBVIOUS
  <2> HIDE DEF size, zero
  <2> QED BY <2>2, <2>3 DEF Delta
<1>2. IsFiniteSet(bought) /\ IsFiniteSet(sold)
  <2>1. DOMAIN h = 1 .. Len(h) /\ Len(h) \in Nat
    OBVIOUS
  <2>2. IsFiniteSet(1 .. Len(h))
    BY <2>1, Segment
  <2> QED BY <2>1, <2>2, FS_Subset
<1>3. /\ bought \cap sold = {} /\ bought \cup sold = mine
      /\ \A k \in bought : k \in mine /\ h[k].side = "buy"
      /\ \A k \in sold : k \in mine /\ h[k].side = "sell"
  BY <1>1
<1>4. /\ Volume(h, mine, "buy") = SumFunctionOnSet(size, bought)
      /\ Volume(h, mine, "sell") = SumFunctionOnSet(size, sold)
  BY DEF Volume
<1> HIDE DEF size, zero, bought, sold
<1>5. SumFunctionOnSet(a, bought) = SumFunctionOnSet(size, bought)
  BY <1>1, <1>2, <1>3, SumSame
<1>6. SumFunctionOnSet(a, sold)
        = SumFunctionOnSet(zero, sold) - SumFunctionOnSet(size, sold)
  <2>1. \A k \in sold : zero[k] \in Int /\ size[k] \in Int /\ a[k] = zero[k] - size[k]
    BY <1>1, <1>3
  <2> QED BY <1>2, <2>1, SumMinus
<1>7. SumFunctionOnSet(zero, sold) = 0
  BY <1>1, <1>2, <1>3, SumZero
<1>8. SumFunctionOnSet(a, mine)
        = SumFunctionOnSet(a, bought) + SumFunctionOnSet(a, sold)
  <2>1. \A k \in bought \cup sold : a[k] \in Int
    BY <1>1, <1>3
  <2>2. SumFunctionOnSet(a, bought \cup sold)
          = SumFunctionOnSet(a, bought) + SumFunctionOnSet(a, sold)
    BY <1>2, <1>3, <2>1, SumDisjoint
  <2> QED BY <1>3, <2>2
<1>9. SumFunctionOnSet(size, bought) \in Int /\ SumFunctionOnSet(size, sold) \in Int
  BY <1>1, <1>2, <1>3, SumType
<1> QED BY <1>4, <1>5, <1>6, <1>7, <1>8, <1>9

(* A closed leg that no flip touched gave back all it took. *)
LEMMA ClosedLegsAreEven ==
  IInv /\ ReferenceInv =>
    \A a : \A i \in DOMAIN drafts :
      /\ drafts[i].closed_at # None /\ ~drafts[i].flip_affected
      /\ \A k \in drafts[i].fills : a[k] = Delta(fills[k])
      => SumFunctionOnSet(a, drafts[i].fills) = 0
<1> SUFFICES ASSUME IInv, ReferenceInv, NEW a, NEW i \in DOMAIN drafts,
                    drafts[i].closed_at # None, ~drafts[i].flip_affected,
                    \A k \in drafts[i].fills : a[k] = Delta(fills[k])
             PROVE  SumFunctionOnSet(a, drafts[i].fills) = 0
  OBVIOUS
<1> DEFINE d == drafts[i]
           mine == FillsOf(fills, i)
<1>1. fills \in Seq(Fill) /\ d \in LegDraft
  BY DEF IInv, TypeOK
<1>2. Describes(d, fills, mine, BornBy(fills, i))
  BY DEF ReferenceInv, DraftsInv
<1>3. mine \in SUBSET DOMAIN fills
  BY DEF FillsOf
<1>4. /\ d.fills = mine
      /\ d.entry = Volume(fills, mine, EntrySideOf(d.direction))
      /\ d.exit = Volume(fills, mine, ExitSideOf(d.direction))
  BY <1>2 DEF Describes
<1>5. d.entry = d.exit
  BY Imbalance DEF ImbalanceIsFlagged
<1>6. d.direction \in {"long", "short"}
  BY <1>1 DEF LegDraft
<1>7. \A k \in mine : a[k] = Delta(fills[k])
  BY <1>4
<1> HIDE DEF d, mine
<1>8. /\ Volume(fills, mine, "buy") \in Int /\ Volume(fills, mine, "sell") \in Int
      /\ SumFunctionOnSet(a, mine)
           = Volume(fills, mine, "buy") - Volume(fills, mine, "sell")
  BY <1>1, <1>3, <1>7, NetVolume
<1>9. Volume(fills, mine, "buy") = Volume(fills, mine, "sell")
  BY <1>4, <1>5, <1>6 DEF EntrySideOf, ExitSideOf
<1>10. SumFunctionOnSet(a, mine) = 0
  BY <1>8, <1>9
<1> QED BY <1>4, <1>10 DEF d
===============================================================================
