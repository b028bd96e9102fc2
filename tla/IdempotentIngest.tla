--------------------------- MODULE IdempotentIngest ---------------------------
(***************************************************************************)
(* What the synchronisation service promises, with no processes, no locks  *)
(* and no transactions: the venue publishes events, and the journal        *)
(* sometimes takes a whole batch of one stream in a single step.  The step *)
(* stores the batch and moves that stream's cursor to the newest event of  *)
(* the batch; it may do so only when nothing still owed on an ordered      *)
(* stream is left behind the cursor.  SyncService.tla implements this.     *)
(***************************************************************************)
EXTENDS Naturals

CONSTANTS
  Stream,       \* (venue, data type) pairs, one cursor each
  Ordered,      \* the streams whose venue publishes in timestamp order
  Event,        \* the rows a venue may ever publish
  StreamOf,     \* the stream of an event
  Time,         \* the timestamp of an event, in milliseconds
  Unparsed,     \* rows the adapter declines to normalise
  Unidentified, \* cash flows that carry no venue_event_id
  None

VARIABLES
  published,  \* what the venue can be asked for
  stored,     \* the events the journal holds
  cursor      \* per stream, the newest event of the last batch, or None

vars == <<published, stored, cursor>>

Storable == Event \ (Unparsed \cup Unidentified)

(* The window an inclusive `since` opens. *)
Window(since) ==
  {e \in Event : since # None => Time[e] >= Time[since]}

Init ==
  /\ published = {}
  /\ stored = {}
  /\ cursor = [s \in Stream |-> None]

Publish(e) ==
  /\ e \notin published
  /\ published' = published \cup {e}
  /\ UNCHANGED <<stored, cursor>>

(* One batch of stream s whose newest event is n. *)
Ingest(s, n, batch) ==
  /\ n \in batch
  /\ batch \subseteq (published \cap Storable)
  /\ \A e \in batch : StreamOf[e] = s /\ Time[n] >= Time[e]
  /\ stored' = stored \cup batch
  /\ cursor' = [cursor EXCEPT ![s] = n]
  /\ s \in Ordered =>
       \A e \in (published \cap Storable) \ stored' :
         StreamOf[e] = s => e \in Window(n)
  /\ UNCHANGED published

Next ==
  \/ \E e \in Event : Publish(e)
  \/ \E s \in Stream : \E batch \in SUBSET {e \in published : StreamOf[e] = s} :
       \E n \in batch : Ingest(s, n, batch)

Spec == Init /\ [][Next]_vars
===============================================================================
