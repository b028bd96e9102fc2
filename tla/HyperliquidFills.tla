--------------------------- MODULE HyperliquidFills ---------------------------
(***************************************************************************)
(* HyperliquidClient.fetch_fills over _post: a fetch asks for page after   *)
(* page of the fills at or after `start`, while the venue keeps publishing *)
(* fills.  A page holds at most Limit fills and the venue fills it with    *)
(* the oldest it has.  Each request may fail and be sent again a bounded   *)
(* number of times.  Times count from HYPERLIQUID_EPOCH_MS.                *)
(***************************************************************************)
EXTENDS Naturals, FiniteSets

CONSTANTS
  Fill,       \* the fills the venue may ever publish
  Charge,     \* the funding events, likewise
  Time,       \* [Fill \cup Charge -> Nat], milliseconds
  Unreadable, \* fills served without a usable tid or time
  Limit,      \* FILLS_PAGE_LIMIT
  MaxPages,   \* MAX_PAGES
  MaxRetries  \* max_retries

ASSUME FillsAssumption ==
  /\ IsFiniteSet(Fill)
  /\ Charge \cap Fill = {}
  /\ Time \in [Fill \cup Charge -> Nat]
  /\ Unreadable \subseteq Fill
  /\ Limit \in Nat \ {0}
  /\ MaxPages \in Nat \ {0}
  /\ MaxRetries \in Nat

VARIABLES
  published, \* the fills the venue has
  since,     \* the cursor this fetch was given
  start,     \* start_ms of the next request
  read,      \* the elements of all pages so far
  page,      \* page_number
  attempt,   \* the attempt of the request under way
  outcome    \* "none" yet, "fetching", or how the last fetch ended

vars == <<published, since, start, read, page, attempt, outcome>>

Ended == {"done", "stalled", "too many pages", "request failed"}

Init ==
  /\ published = {}
  /\ since = 0
  /\ start = since
  /\ read = {}
  /\ page = 0
  /\ attempt = 0
  /\ outcome = "none"

(* Hyperliquid publishes fills as they happen. *)
Publish(f) ==
  /\ f \notin published
  /\ \A g \in published : Time[g] <= Time[f]
  /\ published' = published \cup {f}
  /\ UNCHANGED <<since, start, read, page, attempt, outcome>>

(* A fetch of the fills at or after s. *)
Begin(s) ==
  /\ outcome # "fetching"
  /\ since' = s /\ start' = s
  /\ read' = {} /\ page' = 0 /\ attempt' = 0
  /\ outcome' = "fetching"
  /\ UNCHANGED published

From(t) == {f \in published : Time[f] >= t}

(***************************************************************************)
(* How a venue may answer when it has `all` and an answer holds `limit`:   *)
(* with everything, or with as many as it holds of the oldest.             *)
(***************************************************************************)
IsAnswer(A, all, limit) ==
  /\ Cardinality(A) <= limit
  /\ A # all =>
       /\ Cardinality(A) = limit
       /\ \A f \in A, g \in all \ A : Time[f] <= Time[g]

(* userFillsByTime *)
Pages == {P \in SUBSET From(start) : IsAnswer(P, From(start), Limit)}

(* page_max_ms: the latest time on the page, and start when there is none. *)
PageMax(P) ==
  LET times == {start} \cup {Time[f] : f \in P \ Unreadable}
  IN  {t \in times : \A u \in times : u <= t}

New(P) == P \ (Unreadable \cup read)

(* Mutant: a short page is not told from a full one. *)
FullOrNot(P) == TRUE

Full(P) == Cardinality(P) = Limit

(* One more answer: the retries start over with the next request. *)
Answered(P) ==
  /\ outcome = "fetching"
  /\ page < MaxPages
  /\ read' = read \cup P
  /\ attempt' = 0
  /\ UNCHANGED <<published, since>>

(* An empty or a short page is the last one. *)
LastPage(P) ==
  /\ Answered(P)
  /\ ~Full(P)
  /\ outcome' = "done"
  /\ UNCHANGED <<start, page>>

(* A full page with nothing new on it, from which start cannot advance. *)
Stall(P) ==
  /\ Answered(P)
  /\ Full(P)
  /\ New(P) = {} /\ start \in PageMax(P)
  /\ outcome' = "stalled"
  /\ UNCHANGED <<start, page>>

(* Mutant: the next page starts after the newest fill of this one. *)
NextStartAfter(P) == {t + 1 : t \in PageMax(P)}

NextStart(P) == PageMax(P)

(* A full page: the next one starts at the newest time of this one. *)
NextPage(P) ==
  /\ Answered(P)
  /\ Full(P)
  /\ New(P) # {} \/ start \notin PageMax(P)
  /\ start' \in NextStart(P)
  /\ page' = page + 1
  /\ UNCHANGED outcome

TooManyPages ==
  /\ outcome = "fetching"
  /\ page = MaxPages
  /\ outcome' = "too many pages"
  /\ UNCHANGED <<published, since, start, read, page, attempt>>

-------------------------------------------------------------------------------
(* The transport *)

(* Mutant: one retry too many. *)
LastAttemptUp == MaxRetries + 1

LastAttempt == MaxRetries

(* A transport error or a retryable status, with attempts left. *)
Retry ==
  /\ outcome = "fetching" /\ page < MaxPages
  /\ attempt < LastAttempt
  /\ attempt' = attempt + 1
  /\ UNCHANGED <<published, since, start, read, page, outcome>>

(* Any failure at the last attempt, or a status not worth retrying. *)
Fail ==
  /\ outcome = "fetching" /\ page < MaxPages
  /\ outcome' = "request failed"
  /\ UNCHANGED <<published, since, start, read, page, attempt>>

-------------------------------------------------------------------------------
Page(P) == LastPage(P) \/ Stall(P) \/ NextPage(P)

Request == (\E P \in Pages : Page(P)) \/ TooManyPages \/ Retry \/ Fail

Next ==
  \/ \E f \in Fill : Publish(f)
  \/ \E s \in Nat : Begin(s)
  \/ Request

Spec == Init /\ [][Next]_vars

-------------------------------------------------------------------------------
(* Properties *)

TypeOK ==
  /\ published \subseteq Fill
  /\ since \in Nat
  /\ start \in Nat
  /\ read \subseteq published
  /\ page \in 0 .. MaxPages
  /\ attempt \in 0 .. MaxRetries
  /\ outcome \in Ended \cup {"none", "fetching"}

(***************************************************************************)
(* A fetch of many pages, with fills published between them, returns what  *)
(* the venue has at or after `since` at the moment of its last request:    *)
(* none is lost at a page boundary.  This is what SyncService.Fetch takes  *)
(* for granted.                                                            *)
(***************************************************************************)
FetchIsSnapshot ==
  [][outcome' = "done" => read' = From(since)]_outcome

(***************************************************************************)
(* The refusal of hyperliquid.py:410-415 is never a false alarm: a fetch   *)
(* stalls only where a whole page of fills shares one instant or cannot be *)
(* read, so that no page could take it further.                            *)
(***************************************************************************)
StallMeansCrowded ==
  outcome = "stalled" =>
    Cardinality({f \in From(start) : Time[f] = start \/ f \in Unreadable}) >= Limit

(***************************************************************************)
(* The inductive invariant: everything before `start` has been read,       *)
(* `start` is a time seen, and what was published since a fetch was done   *)
(* is no older than what that fetch has read.                              *)
(***************************************************************************)
IInv ==
  /\ TypeOK
  /\ read \subseteq From(since)
  /\ {f \in From(since) : Time[f] < start} \subseteq read
  /\ start = since \/ \E f \in read : Time[f] = start
  /\ outcome = "done" =>
       \A f \in From(since) \ read, g \in read : Time[g] <= Time[f]
===============================================================================
