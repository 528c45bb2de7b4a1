------------------------------- MODULE Ingest -------------------------------
(***************************************************************************)
(* POST /ingest/events (routers/ingest.py) and the retention command       *)
(* (services/storage/retention.py) over the events table.                  *)
(*                                                                         *)
(* A delivery is one request with one batch.  The handler commits event by *)
(* event, and the unique index on dedupe_hash is what tells a new event    *)
(* from a repeated one, deliveries that overlap included: an INSERT waits  *)
(* for the transaction that holds its key.  A transaction has one INSERT,  *)
(* so each commit is one action.  Agents may send any batch again.         *)
(***************************************************************************)
EXTENDS Normalizer, Sequences, FiniteSets

CONSTANTS
    Deliveries,    \* the requests
    Envelopes,     \* the events that agents see
    Batches,       \* what agents send: sequences of envelopes
    Cutoffs        \* the cutoffs of retention runs

ASSUME BatchesAssumption == Batches \subseteq Seq(Envelopes)

VARIABLES
    rows,       \* the events table; `by` is no column, it says which event of
                \* which delivery made the row
    removed,    \* rows that retention has deleted (no table of the code)
    dlv         \* the deliveries: batch, index of the next event, counters

vars == <<rows, removed, dlv>>

NewDelivery == [pc |-> "new", batch |-> << >>, i |-> 1, inserted |-> 0, deduped |-> 0]

RowOf(e) == [hash |-> DedupeHash(e), normalized |-> Normalized(e), raw |-> e.raw]

\* Mutant: the hash has no unique index.
KnownNever(e) == FALSE

\* The unique index refuses the event.
Known(e) == \E row \in rows : row.event.hash = DedupeHash(e)

Current(d) == dlv[d].batch[dlv[d].i]

\* d is about to commit an event that can be stored.
Committing(d) ==
    /\ dlv[d].pc = "events" /\ dlv[d].i <= Len(dlv[d].batch)
    /\ ~Poisonous(Current(d))

Row(d) == [event |-> RowOf(Current(d)), by |-> <<d, dlv[d].i>>]

\* Token, rate limit and schema have been accepted.
Accept(d, batch) ==
    /\ dlv[d].pc = "new"
    /\ dlv' = [dlv EXCEPT ![d].pc = "events", ![d].batch = batch]
    /\ UNCHANGED <<rows, removed>>

\* db.add(row); db.commit(); inserted += 1.
Store(d) ==
    /\ Committing(d) /\ ~Known(Current(d))
    /\ rows' = rows \cup {Row(d)}
    /\ dlv' = [dlv EXCEPT ![d].i = @ + 1, ![d].inserted = @ + 1]
    /\ UNCHANGED removed

\* Mutant: the whole batch is one transaction, a duplicate rolls it back.
SkipKnownRollback(d) ==
    /\ Committing(d) /\ Known(Current(d))
    /\ rows' = {row \in rows : row.by[1] # d}
    /\ dlv' = [dlv EXCEPT ![d].i = @ + 1, ![d].deduped = @ + 1]
    /\ UNCHANGED removed

\* Mutant: the counter is advanced before the commit fails.
SkipKnownCounted(d) ==
    /\ Committing(d) /\ Known(Current(d))
    /\ dlv' = [dlv EXCEPT ![d].i = @ + 1, ![d].inserted = @ + 1]
    /\ UNCHANGED <<rows, removed>>

\* IntegrityError: db.rollback(); deduped += 1.
SkipKnown(d) ==
    /\ Committing(d) /\ Known(Current(d))
    /\ dlv' = [dlv EXCEPT ![d].i = @ + 1, ![d].deduped = @ + 1]
    /\ UNCHANGED <<rows, removed>>

\* Mutant: any error is counted as a duplicate.
BreakOnPoisonNever(d) ==
    /\ dlv[d].pc = "events" /\ dlv[d].i <= Len(dlv[d].batch)
    /\ Poisonous(Current(d))
    /\ dlv' = [dlv EXCEPT ![d].i = @ + 1, ![d].deduped = @ + 1]
    /\ UNCHANGED <<rows, removed>>

\* Any other exception ends the request with a 500.
BreakOnPoison(d) ==
    /\ dlv[d].pc = "events" /\ dlv[d].i <= Len(dlv[d].batch)
    /\ Poisonous(Current(d))
    /\ dlv' = [dlv EXCEPT ![d].pc = "failed"]
    /\ UNCHANGED <<rows, removed>>

\* The process or the connection dies between two commits,
Die(d) ==
    /\ dlv[d].pc = "events"
    /\ dlv' = [dlv EXCEPT ![d].pc = "failed"]
    /\ UNCHANGED <<rows, removed>>

\* or with a commit that has taken effect and is never confirmed.
DieAfterCommit(d) ==
    /\ Committing(d) /\ ~Known(Current(d))
    /\ rows' = rows \cup {Row(d)}
    /\ dlv' = [dlv EXCEPT ![d].pc = "failed"]
    /\ UNCHANGED removed

\* return {"inserted", "deduped", "received"}.
Answer(d) ==
    /\ dlv[d].pc = "events" /\ dlv[d].i > Len(dlv[d].batch)
    /\ dlv' = [dlv EXCEPT ![d].pc = "answered"]
    /\ UNCHANGED <<rows, removed>>

\* delete_old_events: one DELETE and its commit.
DeleteOldEvents(cutoff) ==
    LET old == {row \in rows : row.event.normalized.at < cutoff} IN
    /\ old # {}
    /\ rows' = rows \ old
    /\ removed' = removed \cup old
    /\ UNCHANGED dlv

Init ==
    /\ rows = {}
    /\ removed = {}
    /\ dlv = [d \in Deliveries |-> NewDelivery]

Next ==
    \/ \E d \in Deliveries :
          \/ \E batch \in Batches : Accept(d, batch)
          \/ Store(d) \/ SkipKnown(d) \/ BreakOnPoison(d)
          \/ Die(d) \/ DieAfterCommit(d) \/ Answer(d)
    \/ \E cutoff \in Cutoffs : DeleteOldEvents(cutoff)

Spec == Init /\ [][Next]_vars

-----------------------------------------------------------------------------
(* Properties *)

Ever == rows \cup removed

Made(d) == {row \in Ever : row.by[1] = d}

\* Rows come from delivered events, deliveries keep their batch, and no two
\* rows of the table share a hash, retries and overlapping requests included.
TypeOK ==
    /\ \A d \in Deliveries :
          /\ dlv[d].pc \in {"new", "events", "answered", "failed"}
          /\ dlv[d].pc # "new" => dlv[d].batch \in Batches
          /\ dlv[d].i \in 1 .. Len(dlv[d].batch) + 1
    /\ \A row \in Ever : /\ row.by[2] \in DOMAIN dlv[row.by[1]].batch
                         /\ row.event = RowOf(dlv[row.by[1]].batch[row.by[2]])
    /\ \A row, other \in rows : row.event.hash = other.event.hash => row = other

\* The counts of an answer are exact, whoever else delivers the same events:
\* each row is counted as inserted by the one delivery that made it, and the
\* counts add up to what was received.  A dead request has made at most one
\* row more than it counted.
CountsMatchRows ==
    \A d \in Deliveries :
        LET made == Cardinality(Made(d)) IN
        /\ dlv[d].inserted + dlv[d].deduped = dlv[d].i - 1
        /\ made - dlv[d].inserted \in (IF dlv[d].pc = "failed" THEN {0, 1} ELSE {0})

\* What a delivery has got past is stored as sent, by itself or by the
\* delivery it was taken for a repetition of, unless retention has deleted it:
\* nothing acknowledged is lost, and a failed batch can be sent again.
PassedIsStored ==
    \A d \in Deliveries : \A k \in 1 .. dlv[d].i - 1 :
        \E row \in Ever : row.event = RowOf(dlv[d].batch[k])

\* An event that stands behind a poisonous one in its batch is not stored by
\* that batch, however often it is sent (ingest.py:75 catches IntegrityError
\* only), and the batch is never acknowledged.
NothingBehindPoison ==
    /\ \A row \in Ever : \A k \in 1 .. row.by[2] : ~Poisonous(dlv[row.by[1]].batch[k])
    /\ \A d \in Deliveries : dlv[d].pc = "answered" =>
          \A k \in DOMAIN dlv[d].batch : ~Poisonous(dlv[d].batch[k])
=============================================================================
