---------------------------- MODULE Ingest_proofs ----------------------------
(***************************************************************************)
(* What POST /ingest/events guarantees for every set of deliveries and     *)
(* batches, whatever overlaps, repeats, dies or is poisonous: its types    *)
(* and the unique hash, exact counts, nothing passed is lost, and nothing  *)
(* behind a poisonous event is stored or acknowledged.                     *)
(***************************************************************************)
EXTENDS Ingest, FiniteSetTheorems, SequenceTheorems, TLAPS

-----------------------------------------------------------------------------
(* The inductive invariant *)

PCs == {"new", "events", "answered", "failed"}

DeliveryRecords ==
    [pc : PCs, batch : {<< >>} \cup Batches, i : Nat, inserted : Nat, deduped : Nat]

\* A delivery that has not been accepted has an empty batch, and an accepted
\* one has not got past the end of its batch.
DeliveriesTyped ==
    /\ dlv \in [Deliveries -> DeliveryRecords]
    /\ \A d \in Deliveries : dlv[d].pc = "new" => dlv[d] = NewDelivery

\* A row's event lies behind its delivery's position; only a delivery that
\* died with its commit has made a row it has not got past.
RowsPlaced ==
    \A row \in Ever :
        /\ row.by[1] \in Deliveries /\ row.by[2] \in Nat
        /\ \/ row.by[2] < dlv[row.by[1]].i
           \/ row.by[2] = dlv[row.by[1]].i /\ dlv[row.by[1]].pc = "failed"

\* No delivery gets past a poisonous event.
PassedIsClean ==
    \A d \in Deliveries : \A k \in 1 .. dlv[d].i - 1 : ~Poisonous(dlv[d].batch[k])

MadeIsFinite == \A d \in Deliveries : IsFiniteSet(Made(d))

IngestInv ==
    /\ TypeOK
    /\ DeliveriesTyped
    /\ RowsPlaced
    /\ PassedIsClean
    /\ MadeIsFinite
    /\ CountsMatchRows
    /\ PassedIsStored
    /\ NothingBehindPoison

-----------------------------------------------------------------------------
(* Facts about envelopes and deliveries *)

\* The dedupe hash covers every field that the row is made from: events that
\* collide make the same row.
LEMMA HashDeterminesRow ==
    ASSUME NEW e, NEW f, DedupeHash(e) = DedupeHash(f)
    PROVE  RowOf(e) = RowOf(f)
<1>1. e.log = f.log /\ e.service = f.service /\ e.ip = f.ip /\ e.at = f.at /\ e.raw = f.raw
  BY DEF DedupeHash
<1>2. ParsedOf(e) = ParsedOf(f)
  BY <1>1 DEF ParsedOf, ParseNginx, ParseFlask
<1>3. Normalized(e) = Normalized(f)
  BY <1>1, <1>2 DEF Normalized
<1>4. QED
  BY <1>1, <1>3 DEF RowOf

LEMMA BatchShape ==
    ASSUME DeliveriesTyped, NEW d \in Deliveries
    PROVE  /\ dlv[d] \in DeliveryRecords
           /\ Len(dlv[d].batch) \in Nat /\ DOMAIN dlv[d].batch = 1 .. Len(dlv[d].batch)
<1>1. dlv[d] \in DeliveryRecords
  BY DEF DeliveriesTyped
<1>2. dlv[d].batch \in Seq(Envelopes)
  BY <1>1, BatchesAssumption, EmptySeq DEF DeliveryRecords
<1>3. QED
  BY <1>1, <1>2, LenProperties

\* A step of an accepted delivery that changes no row.
Keeps(d) == SkipKnown(d) \/ BreakOnPoison(d) \/ Die(d) \/ Answer(d)

\* A step of an accepted delivery that commits one.
Adds(d) == Store(d) \/ DieAfterCommit(d)

LEMMA StepKinds ==
    ASSUME [Next]_vars
    PROVE  \/ UNCHANGED vars
           \/ \E d \in Deliveries, batch \in Batches : Accept(d, batch)
           \/ \E d \in Deliveries : Keeps(d) \/ Adds(d)
           \/ \E cutoff \in Cutoffs : DeleteOldEvents(cutoff)
BY DEF Next, Keeps, Adds

\* What a step does to its delivery: it gets past a clean event, or it ends,
\* with an answer only at the end of the batch.
LEMMA DeliverySteps ==
    ASSUME DeliveriesTyped, NEW d \in Deliveries, Keeps(d) \/ Adds(d)
    PROVE  /\ dlv[d].pc = "events"
           /\ dlv' \in [Deliveries -> DeliveryRecords]
           /\ \A e \in Deliveries : e # d => dlv'[e] = dlv[e]
           /\ dlv'[d].batch = dlv[d].batch
           /\ \/ /\ Store(d) \/ SkipKnown(d)
                 /\ dlv'[d].pc = "events" /\ dlv'[d].i = dlv[d].i + 1
                 /\ dlv[d].i <= Len(dlv[d].batch) /\ ~Poisonous(Current(d))
                 /\ dlv'[d].inserted = dlv[d].inserted + (IF Store(d) THEN 1 ELSE 0)
                 /\ dlv'[d].deduped = dlv[d].deduped + (IF Store(d) THEN 0 ELSE 1)
              \/ /\ ~Store(d) /\ ~SkipKnown(d)
                 /\ dlv'[d].i = dlv[d].i /\ dlv'[d].inserted = dlv[d].inserted
                 /\ dlv'[d].deduped = dlv[d].deduped
                 /\ \/ dlv'[d].pc = "failed"
                    \/ dlv'[d].pc = "answered" /\ dlv[d].i > Len(dlv[d].batch) /\ Keeps(d)
<1>1. dlv \in [Deliveries -> DeliveryRecords] /\ dlv[d] \in DeliveryRecords
  BY DEF DeliveriesTyped
<1>2. dlv[d].pc = "events" /\ ~(Store(d) /\ SkipKnown(d))
  BY DEF Keeps, Adds, SkipKnown, BreakOnPoison, Die, Answer, Store, DieAfterCommit, Committing
<1>3. CASE Store(d)
  BY <1>1, <1>2, <1>3 DEF Store, Committing, DeliveryRecords, PCs
<1>4. CASE SkipKnown(d)
  BY <1>1, <1>2, <1>4 DEF SkipKnown, Committing, DeliveryRecords, PCs
<1>5. ASSUME NEW pc \in {"failed", "answered"}, dlv' = [dlv EXCEPT ![d].pc = pc]
      PROVE  /\ dlv' \in [Deliveries -> DeliveryRecords]
             /\ \A e \in Deliveries : e # d => dlv'[e] = dlv[e]
             /\ dlv'[d].batch = dlv[d].batch /\ dlv'[d].i = dlv[d].i /\ dlv'[d].pc = pc
             /\ dlv'[d].inserted = dlv[d].inserted /\ dlv'[d].deduped = dlv[d].deduped
  BY <1>1, <1>5 DEF DeliveryRecords, PCs
<1>6. (Store(d) \/ SkipKnown(d)) => dlv'[d].pc = "events"
  BY <1>3, <1>4
<1>7. CASE BreakOnPoison(d) \/ Die(d) \/ DieAfterCommit(d)
  BY <1>2, <1>5, <1>6, <1>7 DEF BreakOnPoison, Die, DieAfterCommit
<1>8. CASE Answer(d)
  BY <1>2, <1>5, <1>6, <1>8 DEF Answer, Keeps
<1>9. QED
  BY <1>3, <1>4, <1>7, <1>8 DEF Keeps, Adds

\* What it does to the tables.
LEMMA RowSteps ==
    ASSUME NEW d \in Deliveries, Keeps(d) \/ Adds(d)
    PROVE  /\ removed' = removed
           /\ Keeps(d) => rows' = rows /\ Ever' = Ever
           /\ Adds(d) => /\ rows' = rows \cup {Row(d)} /\ Ever' = Ever \cup {Row(d)}
                         /\ Committing(d) /\ ~Known(Current(d))
           /\ Row(d).by[1] = d /\ Row(d).by[2] = dlv[d].i /\ Row(d).event = RowOf(Current(d))
BY DEF Keeps, Adds, SkipKnown, BreakOnPoison, Die, Answer, Store, DieAfterCommit, Row, Ever

LEMMA AcceptSteps ==
    ASSUME DeliveriesTyped, NEW d \in Deliveries, NEW batch \in Batches, Accept(d, batch)
    PROVE  /\ rows' = rows /\ Ever' = Ever
           /\ dlv' \in [Deliveries -> DeliveryRecords]
           /\ \A e \in Deliveries : e # d => dlv'[e] = dlv[e]
           /\ dlv[d] = NewDelivery
           /\ dlv'[d] = [NewDelivery EXCEPT !.pc = "events", !.batch = batch]
BY DEF Accept, DeliveriesTyped, DeliveryRecords, PCs, NewDelivery, Ever

LEMMA DeleteSteps ==
    ASSUME NEW cutoff \in Cutoffs, DeleteOldEvents(cutoff)
    PROVE  rows' \subseteq rows /\ Ever' = Ever /\ dlv' = dlv
BY DEF DeleteOldEvents, Ever

LEMMA IngestInit == Init => IngestInv
<1> SUFFICES ASSUME Init
             PROVE  IngestInv
  OBVIOUS
<1>1. /\ Ever = {} /\ rows = {} /\ dlv \in [Deliveries -> DeliveryRecords]
      /\ \A d \in Deliveries : dlv[d] = NewDelivery
  BY DEF Init, Ever, NewDelivery, DeliveryRecords, PCs
<1>2. \A d \in Deliveries : /\ dlv[d].pc = "new" /\ dlv[d].i = 1 /\ dlv[d].batch = << >>
                            /\ dlv[d].inserted = 0 /\ dlv[d].deduped = 0
  BY <1>1 DEF NewDelivery
<1>3. TypeOK
  BY <1>1, <1>2 DEF TypeOK
<1>4. \A d \in Deliveries : Made(d) = {}
  BY <1>1 DEF Made
<1>5. MadeIsFinite /\ CountsMatchRows
  <2>1. \A d \in Deliveries : IsFiniteSet(Made(d)) /\ Cardinality(Made(d)) = 0
    BY <1>4, FS_EmptySet
  <2>2. QED
    BY <1>2, <2>1 DEF MadeIsFinite, CountsMatchRows
<1>6. DeliveriesTyped /\ RowsPlaced /\ PassedIsClean /\ PassedIsStored /\ NothingBehindPoison
  BY <1>1, <1>2 DEF DeliveriesTyped, RowsPlaced, PassedIsClean, PassedIsStored,
                    NothingBehindPoison
<1>7. QED
  BY <1>3, <1>5, <1>6 DEF IngestInv

-----------------------------------------------------------------------------
(* Every step keeps it *)

\* Requests that are accepted have made nothing yet.
LEMMA AcceptKeeps ==
    ASSUME IngestInv, NEW d \in Deliveries, NEW batch \in Batches, Accept(d, batch)
    PROVE  IngestInv'
<1>1. /\ rows' = rows /\ Ever' = Ever
      /\ dlv' \in [Deliveries -> DeliveryRecords]
      /\ \A e \in Deliveries : e # d => dlv'[e] = dlv[e]
      /\ dlv[d] = NewDelivery
      /\ dlv'[d] = [NewDelivery EXCEPT !.pc = "events", !.batch = batch]
  BY AcceptSteps DEF IngestInv
<1>2. /\ dlv'[d].pc = "events" /\ dlv'[d].batch = batch /\ dlv'[d].i = 1
      /\ dlv'[d].inserted = 0 /\ dlv'[d].deduped = 0
      /\ dlv[d].pc = "new" /\ dlv[d].batch = << >> /\ dlv[d].i = 1
      /\ dlv[d].inserted = 0 /\ dlv[d].deduped = 0
  BY <1>1 DEF NewDelivery
<1>3. Len(batch) \in Nat /\ DOMAIN batch = 1 .. Len(batch)
  BY BatchesAssumption, LenProperties
<1>4. \A row \in Ever : row.by[1] \in Deliveries /\ row.by[1] # d
  BY <1>2 DEF IngestInv, RowsPlaced, TypeOK
<1>5. \A row \in Ever : dlv'[row.by[1]] = dlv[row.by[1]]
  BY <1>1, <1>4
<1>6. \A e \in Deliveries : Made(e)' = Made(e)
  BY <1>1 DEF Made
<1>7. TypeOK'
  <2>1. ASSUME NEW e \in Deliveries
        PROVE  /\ dlv'[e].pc \in {"new", "events", "answered", "failed"}
               /\ dlv'[e].pc # "new" => dlv'[e].batch \in Batches
               /\ dlv'[e].i \in 1 .. Len(dlv'[e].batch) + 1
    <3>1. CASE e = d
      BY <1>2, <1>3, <3>1
    <3>2. CASE e # d
      BY <1>1, <3>2 DEF IngestInv, TypeOK
    <3>3. QED
      BY <3>1, <3>2
  <2>2. \A row \in Ever' : /\ row.by[2] \in DOMAIN dlv'[row.by[1]].batch
                           /\ row.event = RowOf(dlv'[row.by[1]].batch[row.by[2]])
    BY <1>1, <1>5 DEF IngestInv, TypeOK
  <2>3. \A row, other \in rows' : row.event.hash = other.event.hash => row = other
    BY <1>1 DEF IngestInv, TypeOK
  <2>4. QED
    BY <2>1, <2>2, <2>3 DEF TypeOK
<1>8. DeliveriesTyped'
  BY <1>1, <1>2 DEF IngestInv, DeliveriesTyped
<1>9. RowsPlaced'
  BY <1>1, <1>5 DEF IngestInv, RowsPlaced
<1>10. PassedIsClean' /\ PassedIsStored'
  <2>1. 1 .. dlv'[d].i - 1 = {}
    BY <1>2
  <2>2. PassedIsClean'
    BY <1>1, <2>1 DEF IngestInv, PassedIsClean
  <2>3. ASSUME NEW e \in Deliveries, NEW k \in 1 .. dlv'[e].i - 1
        PROVE  \E row \in Ever' : row.event = RowOf(dlv'[e].batch[k])
    <3>1. e # d /\ dlv'[e] = dlv[e]
      BY <1>1, <2>1
    <3>2. QED
      BY <1>1, <3>1 DEF IngestInv, PassedIsStored
  <2>4. QED
    BY <2>2, <2>3 DEF PassedIsStored
<1>11. MadeIsFinite'
  BY <1>6 DEF IngestInv, MadeIsFinite
<1>12. CountsMatchRows'
  <2> SUFFICES ASSUME NEW e \in Deliveries
               PROVE  /\ dlv'[e].inserted + dlv'[e].deduped = dlv'[e].i - 1
                      /\ Cardinality(Made(e)') - dlv'[e].inserted
                            \in (IF dlv'[e].pc = "failed" THEN {0, 1} ELSE {0})
    BY DEF CountsMatchRows
  <2>1. CASE e = d
    BY <1>2, <1>6, <2>1 DEF IngestInv, CountsMatchRows
  <2>2. CASE e # d
    BY <1>1, <1>6, <2>2 DEF IngestInv, CountsMatchRows
  <2>3. QED
    BY <2>1, <2>2
<1>13. NothingBehindPoison'
  BY <1>1, <1>2, <1>5 DEF IngestInv, NothingBehindPoison
<1>14. QED
  BY <1>7, <1>8, <1>9, <1>10, <1>11, <1>12, <1>13 DEF IngestInv

\* What retention deletes stays among the rows there ever were.
LEMMA DeleteKeeps ==
    ASSUME IngestInv, NEW cutoff \in Cutoffs, DeleteOldEvents(cutoff)
    PROVE  IngestInv'
<1>1. rows' \subseteq rows /\ Ever' = Ever /\ dlv' = dlv
  BY DeleteSteps
<1>2. \A d \in Deliveries : Made(d)' = Made(d)
  BY <1>1 DEF Made
<1>3. TypeOK'
  BY <1>1 DEF IngestInv, TypeOK
<1>4. DeliveriesTyped' /\ RowsPlaced' /\ PassedIsClean' /\ PassedIsStored' /\ NothingBehindPoison'
  BY <1>1 DEF IngestInv, DeliveriesTyped, RowsPlaced, PassedIsClean, PassedIsStored,
              NothingBehindPoison
<1>5. MadeIsFinite' /\ CountsMatchRows'
  BY <1>1, <1>2 DEF IngestInv, MadeIsFinite, CountsMatchRows
<1>6. QED
  BY <1>3, <1>4, <1>5 DEF IngestInv

LEMMA DeliveryKeeps ==
    ASSUME IngestInv, NEW d \in Deliveries, Keeps(d) \/ Adds(d)
    PROVE  IngestInv'
<1> DEFINE i == dlv[d].i
<1> DEFINE batch == dlv[d].batch
<1>1. /\ dlv[d].pc = "events" /\ dlv' \in [Deliveries -> DeliveryRecords]
      /\ \A e \in Deliveries : e # d => dlv'[e] = dlv[e]
      /\ dlv'[d].batch = batch
      /\ \/ /\ Store(d) \/ SkipKnown(d)
            /\ dlv'[d].pc = "events" /\ dlv'[d].i = i + 1
            /\ i <= Len(batch) /\ ~Poisonous(Current(d))
            /\ dlv'[d].inserted = dlv[d].inserted + (IF Store(d) THEN 1 ELSE 0)
            /\ dlv'[d].deduped = dlv[d].deduped + (IF Store(d) THEN 0 ELSE 1)
         \/ /\ ~Store(d) /\ ~SkipKnown(d)
            /\ dlv'[d].i = i /\ dlv'[d].inserted = dlv[d].inserted
            /\ dlv'[d].deduped = dlv[d].deduped
            /\ \/ dlv'[d].pc = "failed"
               \/ dlv'[d].pc = "answered" /\ i > Len(batch) /\ Keeps(d)
  BY DeliverySteps DEF IngestInv
<1>2. /\ removed' = removed
      /\ Keeps(d) => rows' = rows /\ Ever' = Ever
      /\ Adds(d) => /\ rows' = rows \cup {Row(d)} /\ Ever' = Ever \cup {Row(d)}
                    /\ Committing(d) /\ ~Known(Current(d))
      /\ Row(d).by[1] = d /\ Row(d).by[2] = i /\ Row(d).event = RowOf(Current(d))
  BY RowSteps
<1>3. /\ Len(batch) \in Nat /\ DOMAIN batch = 1 .. Len(batch)
      /\ i \in 1 .. Len(batch) + 1 /\ batch \in Batches
      /\ dlv[d].inserted \in Nat /\ dlv[d].deduped \in Nat /\ i \in Nat
  BY <1>1, BatchShape DEF IngestInv, TypeOK, DeliveryRecords
<1>4. \A e \in Deliveries : dlv'[e].batch = dlv[e].batch
  BY <1>1
<1>5. Committing(d) => i \in DOMAIN batch /\ Current(d) = batch[i] /\ ~Poisonous(batch[i])
  BY <1>3 DEF Committing, Current
<1>6. SkipKnown(d) => Committing(d) /\ Known(Current(d)) /\ Keeps(d)
  BY DEF SkipKnown, Keeps
<1>7. Store(d) => Adds(d)
  BY DEF Adds
<1>8. ASSUME NEW row \in Ever'
      PROVE  \/ row \in Ever
             \/ row = Row(d) /\ Adds(d) /\ row.by[1] = d /\ row.by[2] = i
                /\ row.event = RowOf(batch[i]) /\ i \in DOMAIN batch
  BY <1>2, <1>5
<1>9. Ever \subseteq Ever' /\ rows \subseteq rows'
  BY <1>2
<1>10. \A row \in Ever : row.by[1] = d => row.by[2] < i
  BY <1>1 DEF IngestInv, RowsPlaced
<1>11. TypeOK'
  <2>1. ASSUME NEW e \in Deliveries
        PROVE  /\ dlv'[e].pc \in {"new", "events", "answered", "failed"}
               /\ dlv'[e].pc # "new" => dlv'[e].batch \in Batches
               /\ dlv'[e].i \in 1 .. Len(dlv'[e].batch) + 1
    <3>1. CASE e = d
      BY <1>1, <1>3, <3>1
    <3>2. CASE e # d
      BY <1>1, <3>2 DEF IngestInv, TypeOK
    <3>3. QED
      BY <3>1, <3>2
  <2>2. ASSUME NEW row \in Ever'
        PROVE  /\ row.by[2] \in DOMAIN dlv'[row.by[1]].batch
               /\ row.event = RowOf(dlv'[row.by[1]].batch[row.by[2]])
    <3>1. CASE row \in Ever
      BY <1>4, <3>1 DEF IngestInv, TypeOK, RowsPlaced
    <3>2. CASE row \notin Ever
      BY <1>4, <1>8, <3>2
    <3>3. QED
      BY <3>1, <3>2
  <2>3. ASSUME NEW row \in rows', NEW other \in rows', row.event.hash = other.event.hash
        PROVE  row = other
    <3>1. CASE row \in rows /\ other \in rows
      BY <2>3, <3>1 DEF IngestInv, TypeOK
    <3>2. CASE Adds(d)
      <4>1. Row(d).event.hash = DedupeHash(Current(d))
        BY <1>2 DEF RowOf
      <4>2. \A r \in rows : r.event.hash # Row(d).event.hash
        BY <1>2, <3>2, <4>1 DEF Known
      <4>3. QED
        BY <1>2, <2>3, <3>1, <3>2, <4>2
    <3>3. QED
      BY <1>2, <3>1, <3>2
  <2>4. QED
    BY <2>1, <2>2, <2>3 DEF TypeOK
<1>12. DeliveriesTyped'
  BY <1>1 DEF IngestInv, DeliveriesTyped
<1>13. RowsPlaced'
  <2> SUFFICES ASSUME NEW row \in Ever'
               PROVE  /\ row.by[1] \in Deliveries /\ row.by[2] \in Nat
                      /\ \/ row.by[2] < dlv'[row.by[1]].i
                         \/ row.by[2] = dlv'[row.by[1]].i /\ dlv'[row.by[1]].pc = "failed"
    BY DEF RowsPlaced
  <2>1. CASE row \in Ever /\ row.by[1] # d
    BY <1>1, <2>1 DEF IngestInv, RowsPlaced
  <2>2. CASE row \in Ever /\ row.by[1] = d
    BY <1>1, <1>3, <1>10, <2>2 DEF IngestInv, RowsPlaced
  <2>3. CASE row = Row(d) /\ Adds(d)
    <3>1. row.by[1] = d /\ row.by[2] = i
      BY <1>2, <2>3
    <3>2. CASE Store(d)
      BY <1>1, <1>3, <3>1, <3>2
    <3>3. CASE DieAfterCommit(d)
      BY <1>1, <1>3, <3>1, <3>3 DEF DieAfterCommit, Store, SkipKnown, DeliveriesTyped,
                                    DeliveryRecords
    <3>4. QED
      BY <2>3, <3>2, <3>3 DEF Adds
  <2>4. QED
    BY <1>8, <2>1, <2>2, <2>3
<1>14. PassedIsClean'
  <2> SUFFICES ASSUME NEW e \in Deliveries, NEW k \in 1 .. dlv'[e].i - 1
               PROVE  ~Poisonous(dlv'[e].batch[k])
    BY DEF PassedIsClean
  <2>1. CASE e # d \/ k < i
    BY <1>1, <1>3, <1>4, <2>1 DEF IngestInv, PassedIsClean
  <2>2. CASE e = d /\ ~(k < i)
    <3>1. k = i /\ (Store(d) \/ SkipKnown(d))
      BY <1>1, <1>3, <2>2
    <3>2. QED
      BY <1>2, <1>4, <1>5, <1>6, <1>7, <2>2, <3>1
  <2>3. QED
    BY <2>1, <2>2
<1>15. ASSUME NEW e \in Deliveries
       PROVE  /\ e # d \/ Keeps(d) => Made(e)' = Made(e)
              /\ e = d /\ Adds(d) => Made(e)' = Made(e) \cup {Row(d)} /\ Row(d) \notin Made(e)
  BY <1>2, <1>10, <1>3 DEF Made
<1>16. \A e \in Deliveries : IsFiniteSet(Made(e)) /\ Cardinality(Made(e)) \in Nat
  BY FS_CardinalityType DEF IngestInv, MadeIsFinite
<1>17. ASSUME NEW e \in Deliveries
       PROVE  /\ IsFiniteSet(Made(e)')
              /\ e # d \/ Keeps(d) => Cardinality(Made(e)') = Cardinality(Made(e))
              /\ e = d /\ Adds(d) => Cardinality(Made(e)') = Cardinality(Made(e)) + 1
  <2>1. CASE e # d \/ Keeps(d)
    <3>1. ~(e = d /\ Adds(d)) \/ Made(e)' # Made(e)
      BY <1>15
    <3>2. QED
      BY <1>15, <1>16, <2>1, <3>1
  <2>2. CASE e = d /\ Adds(d)
    <3>1. Made(e)' = Made(e) \cup {Row(d)} /\ Row(d) \notin Made(e)
      BY <1>15, <2>2
    <3>2. ~Keeps(d)
      BY <1>15, <2>2, <3>1
    <3>3. QED
      BY <1>16, <2>2, <3>1, <3>2, FS_AddElement
  <2>3. QED
    BY <2>1, <2>2
<1>18. MadeIsFinite'
  BY <1>17 DEF MadeIsFinite
<1>19. CountsMatchRows'
  <2> SUFFICES ASSUME NEW e \in Deliveries
               PROVE  /\ dlv'[e].inserted + dlv'[e].deduped = dlv'[e].i - 1
                      /\ Cardinality(Made(e)') - dlv'[e].inserted
                            \in (IF dlv'[e].pc = "failed" THEN {0, 1} ELSE {0})
    BY DEF CountsMatchRows
  <2>1. CASE e # d
    BY <1>1, <1>17, <2>1 DEF IngestInv, CountsMatchRows
  <2>2. CASE e = d
    <3>1. /\ dlv[d].inserted + dlv[d].deduped = i - 1
          /\ Cardinality(Made(d)) = dlv[d].inserted /\ Cardinality(Made(d)) \in Nat
      BY <1>1, <1>3, <1>16 DEF IngestInv, CountsMatchRows
    <3> DEFINE ins == dlv[d].inserted
    <3> DEFINE dup == dlv[d].deduped
    <3>2. i \in Nat /\ ins \in Nat /\ dup \in Nat /\ ins + dup = i - 1
      BY <1>3, <3>1
    <3>3. CASE Store(d)
      <4>1. Cardinality(Made(e)') = ins + 1
        BY <1>7, <1>17, <2>2, <3>1, <3>3
      <4>2. /\ dlv'[e].pc = "events" /\ dlv'[e].i = i + 1
            /\ dlv'[e].inserted = ins + 1 /\ dlv'[e].deduped = dup
        BY <1>1, <1>3, <2>2, <3>3
      <4> HIDE DEF i, ins, dup
      <4>3. QED
        BY <3>2, <4>1, <4>2
    <3>4. CASE SkipKnown(d) /\ ~Store(d)
      <4>1. Cardinality(Made(e)') = ins
        BY <1>6, <1>17, <2>2, <3>1, <3>4
      <4>2. /\ dlv'[e].pc = "events" /\ dlv'[e].i = i + 1
            /\ dlv'[e].inserted = ins /\ dlv'[e].deduped = dup + 1
        BY <1>1, <1>3, <2>2, <3>4
      <4> HIDE DEF i, ins, dup
      <4>3. QED
        BY <3>2, <4>1, <4>2
    <3>5. CASE ~Store(d) /\ ~SkipKnown(d)
      <4>1. /\ dlv'[e].i = i /\ dlv'[e].inserted = ins /\ dlv'[e].deduped = dup
            /\ dlv'[e].pc = "failed" \/ (dlv'[e].pc # "failed" /\ Keeps(d))
        BY <1>1, <2>2, <3>5
      <4>2. \/ Cardinality(Made(e)') = ins
            \/ Cardinality(Made(e)') = ins + 1 /\ dlv'[e].pc = "failed"
        BY <1>17, <2>2, <3>1, <4>1
      <4> HIDE DEF i, ins, dup
      <4>3. QED
        BY <3>2, <4>1, <4>2
    <3>6. QED
      BY <3>3, <3>4, <3>5
  <2>3. QED
    BY <2>1, <2>2
<1>20. PassedIsStored'
  <2> SUFFICES ASSUME NEW e \in Deliveries, NEW k \in 1 .. dlv'[e].i - 1
               PROVE  \E row \in Ever' : row.event = RowOf(dlv'[e].batch[k])
    BY DEF PassedIsStored
  <2>1. CASE e # d \/ k < i
    BY <1>1, <1>3, <1>4, <1>9, <2>1 DEF IngestInv, PassedIsStored
  <2>2. CASE e = d /\ ~(k < i)
    <3>1. k = i /\ (Store(d) \/ SkipKnown(d))
      BY <1>1, <1>3, <2>2
    <3>2. CASE Store(d)
      BY <1>2, <1>4, <1>5, <1>7, <2>2, <3>1, <3>2
    <3>3. CASE SkipKnown(d)
      <4>1. PICK row \in rows : row.event.hash = DedupeHash(batch[i])
        BY <1>5, <1>6, <3>3 DEF Known
      <4>2. row \in Ever /\ row.event = RowOf(dlv[row.by[1]].batch[row.by[2]])
        BY DEF Ever, IngestInv, TypeOK
      <4>3. row.event.hash = DedupeHash(dlv[row.by[1]].batch[row.by[2]])
        BY <4>2 DEF RowOf
      <4>4. row.event = RowOf(batch[i])
        BY <4>1, <4>2, <4>3, HashDeterminesRow
      <4>5. QED
        BY <1>4, <1>9, <2>2, <3>1, <4>2, <4>4
    <3>4. QED
      BY <3>1, <3>2, <3>3
  <2>3. QED
    BY <2>1, <2>2
<1>21. NothingBehindPoison'
  <2>1. ASSUME NEW row \in Ever', NEW k \in 1 .. row.by[2]
        PROVE  ~Poisonous(dlv'[row.by[1]].batch[k])
    <3>1. CASE row \in Ever
      BY <1>4, <2>1, <3>1 DEF IngestInv, NothingBehindPoison, RowsPlaced
    <3>2. CASE row \notin Ever
      <4>1. Adds(d) /\ row.by[1] = d /\ row.by[2] = i
        BY <1>8, <3>2
      <4>2. k \in 1 .. i - 1 \/ k = i
        BY <1>3, <2>1, <4>1
      <4>3. QED
        BY <1>2, <1>4, <1>5, <4>1, <4>2 DEF IngestInv, PassedIsClean
    <3>3. QED
      BY <3>1, <3>2
  <2>2. ASSUME NEW e \in Deliveries, dlv'[e].pc = "answered", NEW k \in DOMAIN dlv'[e].batch
        PROVE  ~Poisonous(dlv'[e].batch[k])
    <3>1. CASE e # d
      BY <1>1, <2>2, <3>1 DEF IngestInv, NothingBehindPoison
    <3>2. CASE e = d
      <4>1. i > Len(batch)
        BY <1>1, <2>2, <3>2
      <4>2. k \in 1 .. i - 1
        BY <1>3, <1>4, <2>2, <3>2, <4>1
      <4>3. QED
        BY <1>4, <3>2, <4>2 DEF IngestInv, PassedIsClean
    <3>3. QED
      BY <3>1, <3>2
  <2>3. QED
    BY <2>1, <2>2 DEF NothingBehindPoison
<1>22. QED
  BY <1>11, <1>12, <1>13, <1>14, <1>18, <1>19, <1>20, <1>21 DEF IngestInv

LEMMA IngestInvHolds == Spec => []IngestInv
<1>1. IngestInv /\ [Next]_vars => IngestInv'
  <2>1. CASE UNCHANGED vars
    BY <2>1 DEF vars, IngestInv, TypeOK, DeliveriesTyped, RowsPlaced, PassedIsClean, MadeIsFinite,
                CountsMatchRows, PassedIsStored, NothingBehindPoison, Made, Ever
  <2>2. QED
    BY <2>1, AcceptKeeps, DeleteKeeps, DeliveryKeeps, StepKinds
<1>2. QED
  BY <1>1, IngestInit, PTL DEF Spec

-----------------------------------------------------------------------------
(* The theorems *)

\* Rows come from delivered events, and no two rows of the table share a
\* hash, whoever sends the same event again and whenever.
THEOREM TypeCorrect == Spec => []TypeOK
<1>1. IngestInv => TypeOK
  BY DEF IngestInv
<1>2. QED
  BY <1>1, IngestInvHolds, PTL

\* An answer counts as inserted exactly the rows its own delivery made, and
\* its counts add up to what was received; a dead request is off by one.
THEOREM CountsAreExact == Spec => []CountsMatchRows
<1>1. IngestInv => CountsMatchRows
  BY DEF IngestInv
<1>2. QED
  BY <1>1, IngestInvHolds, PTL

\* What a delivery got past was stored as sent, by itself or by the delivery
\* it was taken for a repetition of: the dedupe hash drops nothing else.
THEOREM NothingPassedIsLost == Spec => []PassedIsStored
<1>1. IngestInv => PassedIsStored
  BY DEF IngestInv
<1>2. QED
  BY <1>1, IngestInvHolds, PTL

\* A poisonous event hides the rest of its batch for good, and a batch that
\* has one is never acknowledged.
THEOREM PoisonHidesTheRest == Spec => []NothingBehindPoison
<1>1. IngestInv => NothingBehindPoison
  BY DEF IngestInv
<1>2. QED
  BY <1>1, IngestInvHolds, PTL
==============================================================================
