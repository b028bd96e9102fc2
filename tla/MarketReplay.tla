------------------------------ MODULE MarketReplay ------------------------------
(***************************************************************************)
(* _reconstruct_market of tradejournal/services/reconciliation.py: one     *)
(* market's fills are replayed oldest-first into legs.  A step takes the   *)
(* next fill, whatever it is; `fills` is the history so far.  Decimal      *)
(* quantities are exact in the code, so whole multiples of the smallest    *)
(* lot stand for them; nothing on the way from the venue refuses a size of *)
(* zero or below.  The size weighted by price follows the size in every    *)
(* statement of the code and is left out.                                  *)
(***************************************************************************)
EXTENDS Integers, Sequences

CONSTANTS
  Quantity,   \* the sizes a fill may have
  Time,       \* the timestamps a fill may have
  MaxFills,   \* bound: how many fills one behaviour replays
  None

ASSUME ReplayAssumption ==
  /\ Quantity \subseteq Int
  /\ Time \subseteq Nat
  /\ MaxFills \in Nat
  /\ None \notin Nat

Fill == [side : {"buy", "sell"}, quantity : Quantity, timestamp : Time]

(* A _LegDraft; its fills are positions in the replayed sequence. *)
LegDraft ==
  [direction : {"long", "short"},
   opened_at : Time,
   closed_at : Time \cup {None},
   fills     : SUBSET (1 .. MaxFills),
   peak      : Nat,
   entry     : Int,
   exit      : Int,
   flip_affected : BOOLEAN]

VARIABLES
  fills,     \* the fills replayed so far, oldest first
  drafts,    \* the legs built so far
  current,   \* the index of the leg the loop calls `current`, 0 for None
  position,  \* the running signed position
  flips      \* the fills reported as position_flip findings

vars == <<fills, drafts, current, position, flips>>

Delta(f) == IF f.side = "buy" THEN f.quantity ELSE -f.quantity
Abs(n) == IF n < 0 THEN -n ELSE n
DirectionOf(p) == IF p > 0 THEN "long" ELSE "short"
Crosses(p, q) == (p > 0 /\ q < 0) \/ (p < 0 /\ q > 0)

NewDraft(direction, at, peak, flipped) ==
  [direction |-> direction, opened_at |-> at, closed_at |-> None,
   fills |-> {}, peak |-> peak, entry |-> 0, exit |-> 0,
   flip_affected |-> flipped]

EntrySide(leg, f) == (f.side = "buy") <=> (leg.direction = "long")

Absorb(leg, f, k) ==
  [leg EXCEPT
     !.fills = @ \cup {k},
     !.entry = IF EntrySide(leg, f) THEN @ + f.quantity ELSE @,
     !.exit  = IF EntrySide(leg, f) THEN @ ELSE @ + f.quantity]

Init ==
  /\ fills = <<>>
  /\ drafts = <<>>
  /\ current = 0
  /\ position = 0
  /\ flips = {}

-------------------------------------------------------------------------------
(* all_fills_ordered hands the fills out in timestamp order. *)
InOrder(f) == fills # <<>> => fills[Len(fills)].timestamp <= f.timestamp

(* The leg that absorbs fill f: `current`, or a new one if there is none. *)
Opened(f) ==
  IF current = 0 THEN NewDraft(DirectionOf(Delta(f)), f.timestamp, 0, FALSE)
                 ELSE drafts[current]

Absorbing(f) == Absorb(Opened(f), f, Len(fills) + 1)

(* The drafts before the one that absorbs f. *)
Earlier == IF current = 0 THEN drafts ELSE SubSeq(drafts, 1, current - 1)

Take(f) ==
  /\ Len(fills) < MaxFills
  /\ fills' = Append(fills, f)
  /\ position' = position + Delta(f)

(* The position returns to exactly zero: the leg closes. *)
Close(f) ==
  /\ Take(f)
  /\ position' = 0
  /\ drafts' = Append(Earlier, [Absorbing(f) EXCEPT !.closed_at = f.timestamp])
  /\ current' = 0
  /\ UNCHANGED flips

(* Mutant: only the leg that closed is flagged. *)
RemainderUnflagged(f) ==
  NewDraft(DirectionOf(position'), f.timestamp, Abs(position'), FALSE)

(* Mutant: the position is taken for its size. *)
RemainderSigned(f) ==
  NewDraft(DirectionOf(position'), f.timestamp, position', TRUE)

(* The leg an opposite remainder opens, with no fill of its own. *)
Remainder(f) ==
  NewDraft(DirectionOf(position'), f.timestamp, Abs(position'), TRUE)

(* The position crosses zero: the fill stays with the leg it closes. *)
Flip(f) ==
  /\ Take(f)
  /\ Crosses(position, position')
  /\ drafts' = Earlier \o <<[Absorbing(f) EXCEPT !.closed_at = f.timestamp,
                                                 !.flip_affected = TRUE],
                            Remainder(f)>>
  /\ current' = Len(drafts')
  /\ flips' = flips \cup {Len(fills) + 1}

(* Mutant: the peak follows the position down again. *)
ToppedDown(leg) == [leg EXCEPT !.peak = Abs(position')]

Topped(leg) ==
  [leg EXCEPT !.peak = IF Abs(position') > @ THEN Abs(position') ELSE @]

(* The position stays away from zero on one side. *)
Grow(f) ==
  /\ Take(f)
  /\ position' # 0
  /\ ~Crosses(position, position')
  /\ drafts' = Append(Earlier, Topped(Absorbing(f)))
  /\ current' = Len(drafts')
  /\ UNCHANGED flips

(* Mutant: the running position is the account's, not the market's. *)
NextMarketCarries ==
  /\ fills' = <<>> /\ drafts' = <<>> /\ current' = 0 /\ flips' = {}
  /\ UNCHANGED position

(* rebuild() goes on to the next market. *)
NextMarket ==
  /\ fills' = <<>>
  /\ drafts' = <<>>
  /\ current' = 0
  /\ position' = 0
  /\ flips' = {}

Next ==
  \/ NextMarket
  \/ \E f \in Fill : InOrder(f) /\ (Close(f) \/ Flip(f) \/ Grow(f))

Spec == Init /\ [][Next]_vars

-------------------------------------------------------------------------------
(* Properties *)

TypeOK ==
  /\ fills \in Seq(Fill)
  /\ Len(fills) <= MaxFills
  /\ drafts \in Seq(LegDraft)
  /\ current \in {0, Len(drafts)}
  /\ position \in Int
  /\ flips \subseteq 1 .. Len(fills)

(***************************************************************************)
(* The last leg is open exactly while the position is away from zero, it   *)
(* points the way the position does, and its peak covers the position; all *)
(* the legs before it are closed (reconciliation.py:14-20).                *)
(***************************************************************************)
OpenLegMatchesPosition ==
  /\ current = 0 <=> position = 0
  /\ \A i \in DOMAIN drafts : drafts[i].closed_at = None <=> i = current
  /\ current # 0 =>
       /\ drafts[current].direction = DirectionOf(position)
       /\ drafts[current].peak >= Abs(position)

(***************************************************************************)
(* Every replayed fill is in exactly one leg, and fills of an earlier leg  *)
(* come before those of a later one: a flip neither splits nor drops one.  *)
(***************************************************************************)
FillsPartitioned ==
  /\ \A k \in 1 .. Len(fills) : \E i \in DOMAIN drafts : k \in drafts[i].fills
  /\ \A i, j \in DOMAIN drafts :
       i < j => \A k \in drafts[i].fills, m \in drafts[j].fills : k < m

(***************************************************************************)
(* The legs of one market follow one another in time: they touch at most   *)
(* at an endpoint, so a market never holds two positions at once.          *)
(***************************************************************************)
WindowsDisjoint ==
  \A i, j \in DOMAIN drafts :
    i < j => /\ drafts[i].closed_at # None
             /\ drafts[i].opened_at <= drafts[i].closed_at
             /\ drafts[i].closed_at <= drafts[j].opened_at

(***************************************************************************)
(* A closed leg's entries and exits balance unless a flip touched it, and  *)
(* then they never do: the flag says exactly which averages and PnL are    *)
(* reconstructed, not certain (reconciliation.py:33-43).                   *)
(***************************************************************************)
ImbalanceIsFlagged ==
  \A i \in DOMAIN drafts :
    drafts[i].closed_at # None =>
      (drafts[i].entry # drafts[i].exit <=> drafts[i].flip_affected)

(***************************************************************************)
(* The inductive invariant behind these: the replayed fills bound what the *)
(* legs hold, and each leg's size is what its fills, and the remainder it  *)
(* may have started from, add up to.                                       *)
(***************************************************************************)
PastInv ==
  \A i \in DOMAIN drafts :
    /\ fills # <<>>
    /\ drafts[i].opened_at <= fills[Len(fills)].timestamp
    /\ drafts[i].closed_at # None =>
         /\ drafts[i].opened_at <= drafts[i].closed_at
         /\ drafts[i].closed_at <= fills[Len(fills)].timestamp
    /\ drafts[i].fills \subseteq 1 .. Len(fills)

Held(i) == drafts[i].entry - drafts[i].exit

SizeInv ==
  \A i \in DOMAIN drafts :
    IF drafts[i].flip_affected
      THEN IF i = current THEN Held(i) < Abs(position) ELSE Held(i) # 0
      ELSE Held(i) = (IF i = current THEN Abs(position) ELSE 0)

(* A leg that never had a size was over in the instant it began. *)
PeakInv ==
  \A i \in DOMAIN drafts :
    drafts[i].peak > 0 \/ drafts[i].closed_at = drafts[i].opened_at

IInv ==
  /\ TypeOK
  /\ OpenLegMatchesPosition
  /\ FillsPartitioned
  /\ WindowsDisjoint
  /\ PastInv
  /\ SizeInv
  /\ PeakInv
===============================================================================
