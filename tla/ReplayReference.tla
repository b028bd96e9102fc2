----------------------------- MODULE ReplayReference -----------------------------
(***************************************************************************)
(* What the documentation of reconciliation.py:8-43 says the legs of a     *)
(* history h of fills are, defined from the whole history at once, to      *)
(* compare with what the one-pass loop of MarketReplay has built.          *)
(***************************************************************************)
EXTENDS MarketReplay, FiniteSetsExt, Functions

(* Where the market stands after the first k fills. *)
PositionAfter(h, k) ==
  SumFunctionOnSet([m \in DOMAIN h |-> Delta(h[m])], 1 .. k)

CrossesAt(h, k) == Crosses(PositionAfter(h, k - 1), PositionAfter(h, k))

(* The fills that end a leg.  Leg i is what lies between two of them: its  *)
(* fills are those before which i - 1 legs have ended.                     *)
Ends(h) == {k \in DOMAIN h : PositionAfter(h, k) = 0 \/ CrossesAt(h, k)}
FillsOf(h, i) ==
  LET ends == Ends(h)
  IN  {k \in DOMAIN h : 1 + Cardinality({m \in ends : m < k}) = i}

LegCount(h) ==
  Cardinality(Ends(h)) + (IF PositionAfter(h, Len(h)) = 0 THEN 0 ELSE 1)

(* The crossing fill, if it was one, that left leg i its remainder. *)
BornBy(h, i) == {k \in FillsOf(h, i - 1) : CrossesAt(h, k)}

(* The fill leg i opens with, and those whose exposure is its own: that of *)
(* a crossing fill belongs to the leg it opens.                            *)
Openings(mine, born) == IF born = {} THEN mine ELSE born
Exposures(h, mine, born) ==
  {Abs(PositionAfter(h, k)) : k \in born \cup {m \in mine : ~CrossesAt(h, m)}}

Volume(h, mine, side) ==
  SumFunctionOnSet([k \in DOMAIN h |-> h[k].quantity],
                   {k \in mine : h[k].side = side})

ExpectedLeg(h, i) ==
  LET mine == FillsOf(h, i)
      born == BornBy(h, i)
      ends == mine \cap Ends(h)
      first == Min(Openings(mine, born))
      long == PositionAfter(h, first) > 0
  IN  [direction |-> IF long THEN "long" ELSE "short",
       opened_at |-> h[first].timestamp,
       closed_at |-> IF ends = {} THEN None ELSE h[Max(ends)].timestamp,
       fills     |-> mine,
       peak      |-> Max(Exposures(h, mine, born)),
       entry     |-> Volume(h, mine, IF long THEN "buy" ELSE "sell"),
       exit      |-> Volume(h, mine, IF long THEN "sell" ELSE "buy"),
       flip_affected |-> \E k \in born \cup mine : CrossesAt(h, k)]

(***************************************************************************)
(* The loop builds exactly the legs the documentation describes, and       *)
(* reports exactly the fills at which the position crossed zero.           *)
(***************************************************************************)
MatchesReference ==
  /\ position = PositionAfter(fills, Len(fills))
  /\ drafts = [i \in 1 .. LegCount(fills) |-> ExpectedLeg(fills, i)]
  /\ flips = {k \in DOMAIN fills : CrossesAt(fills, k)}

(***************************************************************************)
(* The inductive invariant behind it says of each draft what it is, fact   *)
(* by fact, so that a fill more changes one fact at a time; and that the   *)
(* next leg has nothing yet while the market is flat.                      *)
(***************************************************************************)
EntrySideOf(direction) == IF direction = "long" THEN "buy" ELSE "sell"
ExitSideOf(direction) == IF direction = "long" THEN "sell" ELSE "buy"

Begun(d, h, openings) ==
  \E k \in openings :
    /\ \A m \in openings : k <= m
    /\ d.opened_at = h[k].timestamp
    /\ d.direction = DirectionOf(PositionAfter(h, k))

Ended(d, h, ends) ==
  IF ends = {} THEN d.closed_at = None
  ELSE \E k \in ends : /\ \A m \in ends : m <= k
                        /\ d.closed_at = h[k].timestamp

Describes(d, h, mine, born) ==
  /\ Begun(d, h, Openings(mine, born))
  /\ Ended(d, h, mine \cap Ends(h))
  /\ d.fills = mine
  /\ d.peak \in Exposures(h, mine, born)
  /\ \A x \in Exposures(h, mine, born) : x <= d.peak
  /\ d.entry = Volume(h, mine, EntrySideOf(d.direction))
  /\ d.exit = Volume(h, mine, ExitSideOf(d.direction))
  /\ d.flip_affected <=> \E k \in born \cup mine : CrossesAt(h, k)

DraftsInv ==
  \A i \in DOMAIN drafts :
    Describes(drafts[i], fills, FillsOf(fills, i), BornBy(fills, i))

FlatInv ==
  LET next == Cardinality(Ends(fills)) + 1
  IN  position = 0 => FillsOf(fills, next) \cup BornBy(fills, next) = {}

ReferenceInv ==
  /\ position = PositionAfter(fills, Len(fills))
  /\ Len(drafts) = LegCount(fills)
  /\ DraftsInv
  /\ flips = {k \in DOMAIN fills : CrossesAt(fills, k)}
  /\ FlatInv
===============================================================================
