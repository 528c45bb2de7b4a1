--------------------------- MODULE Dashboard_proofs ---------------------------
(***************************************************************************)
(* Proofs about the dashboard and the alert behind it, for any number of   *)
(* requests, clicks, browsers, users and texts.                            *)
(*                                                                         *)
(* First, of AlertTriage alone: TriageInv says how far each request has    *)
(* got and what it loaded, and its part OneAtATime what that is worth as   *)
(* long as no two PATCHes overlap.  Then, that the dashboard is a client   *)
(* of AlertTriage: each of its steps is one of AlertTriage or leaves it    *)
(* alone, so whatever was proved of the one holds of the other.  Last,     *)
(* DashInv, for what only the dashboard can promise.                       *)
(***************************************************************************)
EXTENDS Dashboard, FiniteSetTheorems, TLAPS

ReqPCs == {"new", "loaded", "missing", "asking", "refresh", "answered"}

Requested == [pc : ReqPCs, input : Inputs, loaded : Rows, answer : Rows]

Typed ==
    /\ row \in Rows /\ req \in [Requests -> Requested]
    /\ last \in Inputs /\ clash \in BOOLEAN /\ stores \in Nat /\ peak \in Nat
    /\ peak <= Cardinality(Summaries)

\* Only a row that exists is worked on, and the LLM is only asked by a
\* request that saw no summary.
Worked ==
    /\ ~row.exists => row = NoRow
    /\ \A r \in Requests :
          /\ InFlight(r) => row.exists /\ req[r].loaded.exists
          /\ req[r].pc = "answered" => req[r].answer.exists
          /\ req[r].pc = "asking" => r \in Summaries /\ req[r].loaded.summary = Null

\* As long as no two PATCHes overlap, what one has loaded is what there is,
\* and what it has written stays until it is answered.
OneAtATime ==
    ~clash =>
       /\ Columns(row) = last
       /\ \A p, q \in Patches : InFlight(p) /\ InFlight(q) => p = q
       /\ \A p \in Patches :
             /\ req[p].pc = "loaded" => Columns(req[p].loaded) = Columns(row)
             /\ req[p].pc = "refresh" => Columns(row) = req[p].input
             /\ req[p].pc = "answered" => Columns(req[p].answer) = req[p].input

\* A column is as the alert appeared, or as some PATCH asked for.
AskedFor ==
    \A c \in {"status", "notes"} :
       \/ row[c] = NewRow[c]
       \/ \E p \in Patches : req[p].pc # "new" /\ row[c] = req[p].input[c]

\* Who stored the summary that is there has got that far, and says so.
Stored ==
    \A r \in Requests : row.summary = r =>
       /\ req[r].pc \in {"refresh", "answered"}
       /\ req[r].pc = "answered" => req[r].answer.summary # Null

\* The requests that may yet store a summary.
Storing ==
    {s \in Summaries : req[s].pc \in {"loaded", "asking"} /\ req[s].loaded.summary = Null}

Once ==
    /\ stores + Cardinality(Storing) <= peak
    /\ stores > 0 <=> row.summary # Null

TriageInv == Typed /\ Worked /\ OneAtATime /\ AskedFor /\ Stored /\ Once

-----------------------------------------------------------------------------
(* The pieces of a step *)

\* The initial row and request are of the types that rows and requests have.
LEMMA FirstOnes ==
    /\ NoRow \in Rows /\ NewRow \in Rows
    /\ Columns(NoRow) \in Inputs /\ Columns(NewRow) \in Inputs
    /\ Columns(NoRow) = Columns(NewRow)
    /\ NewRequest \in Requested
    /\ ~NoRow.exists /\ NewRow.exists /\ NoRow.summary = Null /\ NewRow.summary = Null
<1>1. "open" \in Statuses
  BY StatusesAssumption
<1> QED
  BY <1>1 DEF NoRow, NewRow, Rows, Inputs, Columns, NewRequest, Requested, ReqPCs

\* What a commit writes when a request has set the triage columns.
LEMMA PatchWritten ==
    ASSUME row \in Rows, NEW loaded \in Rows, NEW input \in Inputs
    PROVE  LET status == IF input.status # loaded.status THEN input.status ELSE row.status
               notes  == IF input.notes # loaded.notes THEN input.notes ELSE row.notes
           IN  Written(loaded, Patched(loaded, input))
                  = [exists |-> row.exists, status |-> status, notes |-> notes,
                     summary |-> row.summary]
<1>1. DOMAIN row = {"exists", "status", "notes", "summary"}
  BY DEF Rows
<1>2. /\ Patched(loaded, input).exists = loaded.exists
      /\ Patched(loaded, input).summary = loaded.summary
      /\ Patched(loaded, input).status = input.status
      /\ Patched(loaded, input).notes = input.notes
  BY DEF Patched, Rows, Inputs
<1> QED
  BY <1>1, <1>2 DEF Written

\* What a commit writes when a request that saw no summary has set one.
LEMMA SummaryWritten ==
    ASSUME row \in Rows, NEW loaded \in Rows, loaded.summary = Null, NEW text \in Summaries
    PROVE  Written(loaded, [loaded EXCEPT !.summary = text])
              = [exists |-> row.exists, status |-> row.status, notes |-> row.notes,
                 summary |-> text]
<1>1. DOMAIN row = {"exists", "status", "notes", "summary"}
  BY DEF Rows
<1>2. [loaded EXCEPT !.summary = text]
         = [exists |-> loaded.exists, status |-> loaded.status, notes |-> loaded.notes,
            summary |-> text]
  BY DEF Rows
<1>3. text # Null
  BY NullAssumption DEF Requests
<1> QED
  BY <1>1, <1>2, <1>3 DEF Written

-----------------------------------------------------------------------------
(* Each step of AlertTriage keeps TriageInv *)

\* A step that moves one request from pc to another, and leaves the others.
LEMMA TypedStep ==
    ASSUME Typed, NEW r \in Requests, NEW q \in Requested, req' = [req EXCEPT ![r] = q]
    PROVE  /\ req' \in [Requests -> Requested]
           /\ req'[r] = q
           /\ \A o \in Requests : o # r => req'[o] = req[o]
BY DEF Typed

\* The alert appears: nobody works on it yet.
LEMMA AppearsKeeps ==
    ASSUME TriageInv, AlertAppears
    PROVE  TriageInv'
<1> USE DEF TriageInv, AlertAppears
<1>1. row = NoRow /\ \A r \in Requests : ~InFlight(r)
  BY DEF Worked
<1>2. Typed'
  BY FirstOnes DEF Typed
<1>3. Worked'
  BY <1>1, FirstOnes DEF Worked, InFlight
<1>4. OneAtATime'
  <2>1. \A p \in Patches : p \in Requests
    BY DEF Requests
  <2> QED
    BY <1>1, <2>1 DEF OneAtATime, InFlight
<1>5. AskedFor'
  BY DEF AskedFor
<1>6. Stored'
  <2>1. row.summary = NewRow.summary
    BY <1>1, FirstOnes
  <2> QED
    BY <2>1 DEF Stored
<1>7. Once'
  BY <1>1, FirstOnes DEF Once, Storing
<1> QED
  BY <1>2, <1>3, <1>4, <1>5, <1>6, <1>7

\* A request is received, and loads the row.  A PATCH that finds another at
\* work is a clash, and a summary request that may store something counts
\* among those under way.
LEMMA LoadKeeps ==
    ASSUME TriageInv, NEW r \in Requests, NEW input \in Inputs, Load(r, input)
    PROVE  TriageInv'
<1> USE DEF TriageInv
<1> DEFINE q == [NewRequest EXCEPT !.pc = IF row.exists THEN "loaded" ELSE "missing",
                                   !.input = input, !.loaded = row]
           under == {o \in Summaries : InFlight(o)} \cup {r}
<1>1. /\ req[r].pc = "new" /\ req' = [req EXCEPT ![r] = q]
      /\ row' = row /\ last' = last /\ stores' = stores
  BY DEF Load
<1>2. /\ q \in Requested /\ q.pc = (IF row.exists THEN "loaded" ELSE "missing")
      /\ q.input = input /\ q.loaded = row
  BY FirstOnes DEF Typed, NewRequest, Requested, ReqPCs
<1>3. clash' = (clash \/ (r \in Patches /\ row.exists
                           /\ {o \in Patches : InFlight(o)} \cup {r} # {r}))
  BY DEF Load
<1>4. peak' = IF r \in Summaries /\ row.exists /\ Cardinality(under) > peak
              THEN Cardinality(under) ELSE peak
  BY DEF Load
<1> HIDE DEF q
<1>5. /\ req' \in [Requests -> Requested] /\ req'[r] = q
      /\ \A o \in Requests : o # r => req'[o] = req[o]
  BY <1>1, <1>2, TypedStep
<1>6. r \in Summaries => /\ under \subseteq Summaries /\ IsFiniteSet(under)
                         /\ Cardinality(under) \in Nat
                         /\ Cardinality(under) <= Cardinality(Summaries)
  BY FinitelyMany, FS_Subset, FS_CardinalityType
<1>7. IsFiniteSet(Storing) /\ Cardinality(Storing) \in Nat /\ Cardinality(Summaries) \in Nat
  BY FinitelyMany, FS_Subset, FS_CardinalityType DEF Storing
<1> HIDE DEF under
<1>8. /\ peak' \in Nat /\ peak' >= peak /\ peak' <= Cardinality(Summaries)
      /\ r \in Summaries /\ row.exists => peak' >= Cardinality(under)
  BY <1>4, <1>6, <1>7 DEF Typed
<1>9. Typed'
  <2>1. clash' \in BOOLEAN
    BY <1>3 DEF Typed
  <2> QED
    BY <1>1, <1>5, <1>8, <2>1 DEF Typed
<1>10. Worked'
  BY <1>1, <1>2, <1>5 DEF Worked, InFlight
<1>11. OneAtATime'
  <2> SUFFICES ASSUME ~clash' PROVE OneAtATime'
    BY DEF OneAtATime
  <2>1. ~clash /\ (r \in Patches /\ row.exists => \A o \in Patches : InFlight(o) => o = r)
    BY <1>3
  <2>2. Columns(row)' = last'
    BY <1>1, <2>1 DEF OneAtATime, Columns
  <2>3. ASSUME NEW o \in Patches, NEW p \in Patches, InFlight(o)', InFlight(p)'
        PROVE  o = p
    <3>1. o \in Requests /\ p \in Requests
      BY DEF Requests
    <3>2. (o # r => InFlight(o)) /\ (p # r => InFlight(p))
      BY <1>5, <2>3, <3>1 DEF InFlight
    <3>3. o = r \/ p = r => row.exists
      BY <1>2, <1>5, <2>3 DEF InFlight
    <3> QED
      BY <2>1, <3>2, <3>3 DEF OneAtATime
  <2>4. ASSUME NEW p \in Patches
        PROVE  /\ req'[p].pc = "loaded" => Columns(req'[p].loaded) = Columns(row)
               /\ req'[p].pc = "refresh" => Columns(row) = req'[p].input
               /\ req'[p].pc = "answered" => Columns(req'[p].answer) = req'[p].input
    <3>1. p \in Requests
      BY DEF Requests
    <3> QED
      BY <1>2, <1>5, <2>1, <3>1 DEF OneAtATime
  <2> QED
    BY <1>1, <2>2, <2>3, <2>4 DEF OneAtATime, Columns
<1>12. AskedFor'
  <2>1. \A p \in Patches : p \in Requests
    BY DEF Requests
  <2> QED
    BY <1>1, <1>5, <2>1 DEF AskedFor
<1>13. Stored'
  BY <1>1, <1>5 DEF Stored
<1>14. Once'
  <2>1. CASE r \in Summaries /\ row.exists /\ row.summary = Null
    <3>1. stores = 0
      BY <2>1 DEF Once, Typed
    <3>2. Storing' \subseteq under
      BY <1>5, RequestsDistinct DEF Storing, under, InFlight, Requests
    <3>3. Cardinality(Storing') <= Cardinality(under) /\ Cardinality(Storing') \in Nat
      BY <1>6, <2>1, <3>2, FS_Subset, FS_CardinalityType
    <3> QED
      BY <1>1, <1>6, <1>8, <2>1, <3>1, <3>3 DEF Once, Typed
  <2>2. CASE ~(r \in Summaries /\ row.exists /\ row.summary = Null)
    <3>1. Storing' = Storing
      BY <1>1, <1>2, <1>5, <2>2 DEF Storing, Requests
    <3> QED
      BY <1>1, <1>7, <1>8, <3>1 DEF Once, Typed
  <2> QED
    BY <2>1, <2>2
<1> QED
  BY <1>9, <1>10, <1>11, <1>12, <1>13, <1>14

\* A request moves on and nothing else changes: it asks the LLM, or it is
\* answered, with the row if it was a PATCH.
LEMMA MoveKeeps ==
    ASSUME TriageInv, NEW r \in Requests, InFlight(r), NEW pc \in {"asking", "answered"},
           NEW answer \in Rows,
           req' = [req EXCEPT ![r] = [req[r] EXCEPT !.pc = pc, !.answer = answer]],
           row' = row, last' = last, clash' = clash, stores' = stores, peak' = peak,
           pc = "asking" => /\ r \in Summaries /\ req[r].pc = "loaded"
                            /\ req[r].loaded.summary = Null,
           pc = "answered" => /\ answer.exists
                              /\ r \in Patches => req[r].pc = "refresh" /\ answer = row
                              /\ row.summary = r => answer.summary # Null
    PROVE  TriageInv'
<1> USE DEF TriageInv
<1> DEFINE q == [req[r] EXCEPT !.pc = pc, !.answer = answer]
<1>1. /\ q \in Requested /\ q.pc = pc /\ q.answer = answer
      /\ q.input = req[r].input /\ q.loaded = req[r].loaded
  BY DEF Typed, Requested, ReqPCs
<1> HIDE DEF q
<1>2. /\ req' \in [Requests -> Requested] /\ req'[r] = q
      /\ \A o \in Requests : o # r => req'[o] = req[o]
  BY <1>1, TypedStep DEF q
<1>3. Typed'
  BY <1>2 DEF Typed
<1>4. Worked'
  BY <1>1, <1>2 DEF Worked, InFlight
<1>5. OneAtATime'
  <2>1. \A p \in Patches : p \in Requests /\ p \notin Summaries
    BY RequestsDistinct DEF Requests
  <2>2. ASSUME ~clash, NEW o \in Patches, NEW p \in Patches, InFlight(o)', InFlight(p)'
        PROVE  o = p
    <3>1. InFlight(o) /\ InFlight(p)
      BY <1>2, <2>1, <2>2 DEF InFlight
    <3> QED
      BY <2>2, <3>1 DEF OneAtATime
  <2>3. ASSUME ~clash, NEW p \in Patches
        PROVE  /\ req'[p].pc = "loaded" => Columns(req'[p].loaded) = Columns(row)
               /\ req'[p].pc = "refresh" => Columns(row) = req'[p].input
               /\ req'[p].pc = "answered" => Columns(req'[p].answer) = req'[p].input
    BY <1>1, <1>2, <2>1, <2>3 DEF OneAtATime
  <2> QED
    BY <2>2, <2>3 DEF OneAtATime, Columns
<1>6. AskedFor'
  <2>1. \A p \in Patches : p \in Requests
    BY DEF Requests
  <2>2. \A p \in Patches : req[p].pc # "new" => req'[p].pc # "new" /\ req'[p].input = req[p].input
    BY <1>1, <1>2, <2>1
  <2> QED
    BY <2>2 DEF AskedFor
<1>7. Stored'
  BY <1>1, <1>2 DEF Stored, InFlight
<1>8. Once'
  <2>1. Storing' \subseteq Storing
    BY <1>1, <1>2 DEF Storing, Requests
  <2>2. /\ IsFiniteSet(Storing) /\ Cardinality(Storing) \in Nat
        /\ Cardinality(Storing') \in Nat /\ Cardinality(Storing') <= Cardinality(Storing)
    <3>1. IsFiniteSet(Storing)
      BY FinitelyMany, FS_Subset DEF Storing
    <3> QED
      BY <2>1, <3>1, FS_Subset, FS_CardinalityType
  <2> QED
    BY <2>2 DEF Once, Typed
<1> QED
  BY <1>3, <1>4, <1>5, <1>6, <1>7, <1>8

\* The steps that only move a request on.
LEMMA AnswersKeep ==
    ASSUME TriageInv, NEW r \in Requests,
           SkipSummary(r) \/ AskLLM(r) \/ ReplyNone(r) \/ Refresh(r)
    PROVE  TriageInv'
<1> USE DEF TriageInv
<1>1. req[r] \in Requested /\ req[r].loaded \in Rows /\ req[r].answer \in Rows /\ row \in Rows
  BY DEF Typed, Requested
<1>2. UNCHANGED <<row, last, clash, stores, peak>>
  BY DEF SkipSummary, AskLLM, ReplyNone, Refresh
<1>3. CASE SkipSummary(r)
  <2>1. InFlight(r) /\ r \in Summaries /\ r \notin Patches /\ row.summary # r
    BY <1>3, RequestsDistinct DEF SkipSummary, InFlight, Stored
  <2>2. req' = [req EXCEPT ![r] = [req[r] EXCEPT !.pc = "answered", !.answer = req[r].loaded]]
    BY <1>3 DEF SkipSummary, Respond, Typed
  <2>3. req[r].loaded.exists
    BY <2>1 DEF Worked
  <2> QED
    BY <1>1, <1>2, <2>1, <2>2, <2>3, MoveKeeps
<1>4. CASE AskLLM(r)
  <2>1. InFlight(r) /\ r \in Summaries /\ req[r].pc = "loaded" /\ req[r].loaded.summary = Null
    BY <1>4 DEF AskLLM, InFlight
  <2>2. req' = [req EXCEPT ![r] = [req[r] EXCEPT !.pc = "asking", !.answer = req[r].answer]]
    BY <1>1, <1>4 DEF AskLLM, Typed, Requested
  <2> QED
    BY <1>1, <1>2, <2>1, <2>2, MoveKeeps
<1>5. CASE ReplyNone(r)
  <2>1. InFlight(r) /\ r \in Summaries /\ r \notin Patches /\ row.summary # r
    BY <1>5, RequestsDistinct DEF ReplyNone, InFlight, Stored, Worked
  <2>2. req' = [req EXCEPT ![r] = [req[r] EXCEPT !.pc = "answered", !.answer = req[r].loaded]]
    BY <1>5 DEF ReplyNone, Respond, Typed
  <2>3. req[r].loaded.exists
    BY <2>1 DEF Worked
  <2> QED
    BY <1>1, <1>2, <2>1, <2>2, <2>3, MoveKeeps
<1>6. CASE Refresh(r)
  <2>1. InFlight(r) /\ req[r].pc = "refresh" /\ row.exists /\ (row.summary = r => row.summary # Null)
    BY <1>6, NullAssumption DEF Refresh, InFlight, Worked
  <2>2. req' = [req EXCEPT ![r] = [req[r] EXCEPT !.pc = "answered", !.answer = row]]
    BY <1>6 DEF Refresh, Respond, Typed
  <2> QED
    BY <1>1, <1>2, <2>1, <2>2, MoveKeeps
<1> QED
  BY <1>3, <1>4, <1>5, <1>6

\* A PATCH commits.  What the row becomes, and what that says of its columns.
LEMMA CommitEffect ==
    ASSUME TriageInv, NEW p, CommitPatch(p)
    PROVE  /\ p \in Patches /\ p \in Requests /\ p \notin Summaries /\ req[p].pc = "loaded"
           /\ row.exists
           /\ req' \in [Requests -> Requested]
           /\ req'[p].pc = "refresh" /\ req'[p].input = req[p].input
           /\ \A o \in Requests : o # p => req'[o] = req[o]
           /\ row' \in Rows /\ row'.exists = row.exists /\ row'.summary = row.summary
           /\ row'.status = IF req[p].input.status # req[p].loaded.status
                            THEN req[p].input.status ELSE row.status
           /\ row'.notes = IF req[p].input.notes # req[p].loaded.notes
                           THEN req[p].input.notes ELSE row.notes
<1> USE DEF TriageInv
<1> DEFINE q == [req[p] EXCEPT !.pc = "refresh"]
<1>1. /\ p \in Patches /\ p \in Requests /\ p \notin Summaries /\ req[p].pc = "loaded"
      /\ row.exists
  BY RequestsDistinct DEF CommitPatch, Requests, InFlight, Worked
<1>2. req[p] \in Requested /\ req[p].loaded \in Rows /\ req[p].input \in Inputs /\ row \in Rows
  BY <1>1 DEF Typed, Requested
<1>3. q \in Requested /\ q.pc = "refresh" /\ q.input = req[p].input
  BY <1>2 DEF Requested, ReqPCs
<1>4. req' = [req EXCEPT ![p] = q]
  BY <1>1 DEF CommitPatch, Typed
<1> HIDE DEF q
<1>5. /\ req' \in [Requests -> Requested] /\ req'[p] = q
      /\ \A o \in Requests : o # p => req'[o] = req[o]
  BY <1>1, <1>3, <1>4, TypedStep
<1> DEFINE in  == req[p].input
           old == req[p].loaded
           status == IF in.status # old.status THEN in.status ELSE row.status
           notes  == IF in.notes # old.notes THEN in.notes ELSE row.notes
<1>6. row' = [exists |-> row.exists, status |-> status, notes |-> notes,
              summary |-> row.summary]
  BY <1>2, PatchWritten DEF CommitPatch
<1>7. status \in Statuses /\ notes \in Texts \cup {Null}
  BY <1>2 DEF Rows, Inputs
<1> HIDE DEF status, notes
<1>8. row' \in Rows /\ row'.exists = row.exists /\ row'.summary = row.summary
      /\ row'.status = status /\ row'.notes = notes
  BY <1>2, <1>6, <1>7 DEF Rows
<1> QED
  BY <1>1, <1>3, <1>5, <1>8 DEF status, notes

LEMMA CommitKeeps ==
    ASSUME TriageInv, NEW p, CommitPatch(p)
    PROVE  TriageInv'
<1> USE DEF TriageInv
<1>1. p \in Patches /\ p \in Requests /\ p \notin Summaries /\ req[p].pc = "loaded" /\ row.exists
  BY CommitEffect
<1>2. /\ req' \in [Requests -> Requested]
      /\ req'[p].pc = "refresh" /\ req'[p].input = req[p].input
      /\ \A o \in Requests : o # p => req'[o] = req[o]
  BY CommitEffect
<1>3. row' \in Rows /\ row'.exists = row.exists /\ row'.summary = row.summary
  BY CommitEffect
<1>4. /\ last' = req[p].input /\ clash' = clash /\ stores' = stores /\ peak' = peak
  BY DEF CommitPatch
<1>5. req[p].input \in Inputs
  BY <1>1 DEF Typed, Requested
<1>6. Typed'
  BY <1>2, <1>3, <1>4, <1>5 DEF Typed
<1>7. Worked'
  <2>1. req[p].loaded.exists /\ req'[p].loaded = req[p].loaded
    BY <1>1 DEF Worked, InFlight, CommitPatch, Typed, Requested
  <2> QED
    BY <1>1, <1>2, <1>3, <2>1 DEF Worked, InFlight
<1>8. OneAtATime'
  <2> SUFFICES ASSUME ~clash PROVE OneAtATime'
    BY <1>4 DEF OneAtATime
  <2>1. \A o \in Patches : o \in Requests /\ (InFlight(o) => o = p)
    BY <1>1 DEF OneAtATime, InFlight, Requests
  <2>2. Columns(row)' = req[p].input
    <3>1. req[p].loaded.status = row.status /\ req[p].loaded.notes = row.notes
      BY <1>1 DEF OneAtATime, Columns
    <3>2. row'.status = req[p].input.status /\ row'.notes = req[p].input.notes
      BY <3>1, CommitEffect
    <3> QED
      BY <1>5, <3>2 DEF Columns, Inputs
  <2>3. ASSUME NEW o \in Patches, InFlight(o)'
        PROVE  o = p
    BY <1>2, <2>1, <2>3 DEF InFlight
  <2>4. ASSUME NEW o \in Patches
        PROVE  /\ req'[o].pc = "loaded" => Columns(req'[o].loaded) = Columns(row)'
               /\ req'[o].pc = "refresh" => Columns(row)' = req'[o].input
               /\ req'[o].pc = "answered" => Columns(req'[o].answer) = req'[o].input
    <3>1. CASE o = p
      BY <1>2, <2>2, <3>1
    <3>2. CASE o # p
      <4>1. req'[o] = req[o] /\ ~InFlight(o)
        BY <1>2, <2>1, <3>2
      <4> QED
        BY <4>1 DEF OneAtATime, InFlight
    <3> QED
      BY <3>1, <3>2
  <2> QED
    BY <1>4, <2>2, <2>3, <2>4 DEF OneAtATime, Columns
<1>9. AskedFor'
  <2>1. \A o \in Patches : /\ req[o].pc # "new" => req'[o].pc # "new"
                           /\ req'[o].input = req[o].input
    BY <1>1, <1>2 DEF Requests
  <2>2. row'.status = row.status \/ row'.status = req'[p].input.status
    BY <1>2, CommitEffect
  <2>3. row'.notes = row.notes \/ row'.notes = req'[p].input.notes
    BY <1>2, CommitEffect
  <2>4. req'[p].pc # "new"
    BY <1>2
  <2> QED
    BY <1>1, <2>1, <2>2, <2>3, <2>4 DEF AskedFor
<1>10. Stored'
  BY <1>1, <1>2, <1>3 DEF Stored
<1>11. Once'
  <2>1. Storing' = Storing
    BY <1>1, <1>2 DEF Storing, Requests
  <2> QED
    BY <1>3, <1>4, <2>1 DEF Once
<1> QED
  BY <1>6, <1>7, <1>8, <1>9, <1>10, <1>11

\* A summary is stored: nothing but that column changes, and one request
\* fewer may store another.
LEMMA StoreEffect ==
    ASSUME TriageInv, NEW s, StoreSummary(s), s \in Requests
    PROVE  /\ s \in Summaries /\ s \notin Patches /\ req[s].pc = "asking" /\ row.exists
           /\ req[s].loaded.summary = Null
           /\ req' \in [Requests -> Requested]
           /\ req'[s].pc = "refresh" /\ req'[s].input = req[s].input
           /\ req'[s].loaded = req[s].loaded
           /\ \A o \in Requests : o # s => req'[o] = req[o]
           /\ row' \in Rows /\ row'.exists = row.exists /\ row'.summary = s
           /\ Columns(row)' = Columns(row)
           /\ row'.status = row.status /\ row'.notes = row.notes
<1> USE DEF TriageInv
<1> DEFINE q == [req[s] EXCEPT !.pc = "refresh"]
<1>1. /\ s \in Summaries /\ s \notin Patches /\ req[s].pc = "asking" /\ row.exists
      /\ req[s].loaded.summary = Null
  BY RequestsDistinct DEF StoreSummary, InFlight, Worked
<1>2. req[s] \in Requested /\ req[s].loaded \in Rows /\ row \in Rows
  BY DEF Typed, Requested
<1>3. q \in Requested /\ q.pc = "refresh" /\ q.input = req[s].input /\ q.loaded = req[s].loaded
  BY <1>2 DEF Requested, ReqPCs
<1>4. req' = [req EXCEPT ![s] = q]
  BY DEF StoreSummary, Typed
<1> HIDE DEF q
<1>5. /\ req' \in [Requests -> Requested] /\ req'[s] = q
      /\ \A o \in Requests : o # s => req'[o] = req[o]
  BY <1>3, <1>4, TypedStep
<1>6. row' = Written(req[s].loaded, [req[s].loaded EXCEPT !.summary = s])
  BY DEF StoreSummary, Replies
<1>7. row' = [exists |-> row.exists, status |-> row.status, notes |-> row.notes,
              summary |-> s]
  BY <1>1, <1>2, <1>6, SummaryWritten
<1>8. row' \in Rows /\ row'.exists = row.exists /\ row'.summary = s
      /\ row'.status = row.status /\ row'.notes = row.notes
  BY <1>1, <1>2, <1>7 DEF Rows
<1> QED
  BY <1>1, <1>3, <1>5, <1>8 DEF Columns

LEMMA StoreKeeps ==
    ASSUME TriageInv, NEW s \in Requests, StoreSummary(s)
    PROVE  TriageInv'
<1> USE DEF TriageInv
<1>1. /\ s \in Summaries /\ s \notin Patches /\ req[s].pc = "asking" /\ row.exists
      /\ req[s].loaded.summary = Null
  BY StoreEffect
<1>2. /\ req' \in [Requests -> Requested]
      /\ req'[s].pc = "refresh" /\ req'[s].input = req[s].input
      /\ req'[s].loaded = req[s].loaded
      /\ \A o \in Requests : o # s => req'[o] = req[o]
  BY StoreEffect
<1>3. row' \in Rows /\ row'.exists = row.exists /\ row'.summary = s
      /\ Columns(row)' = Columns(row)
      /\ row'.status = row.status /\ row'.notes = row.notes
  BY StoreEffect
<1>4. last' = last /\ clash' = clash /\ stores' = stores + 1 /\ peak' = peak
  BY DEF StoreSummary
<1>5. Typed'
  BY <1>2, <1>3, <1>4 DEF Typed
<1>6. Worked'
  BY <1>1, <1>2, <1>3 DEF Worked, InFlight
<1>7. OneAtATime'
  <2> SUFFICES ASSUME ~clash PROVE OneAtATime'
    BY <1>4 DEF OneAtATime
  <2>1. \A p \in Patches : p \in Requests /\ req'[p] = req[p]
    BY <1>1, <1>2 DEF Requests
  <2> QED
    BY <1>3, <1>4, <2>1 DEF OneAtATime, InFlight, Columns
<1>8. AskedFor'
  <2>1. \A p \in Patches : p \in Requests /\ req'[p] = req[p]
    BY <1>1, <1>2 DEF Requests
  <2> QED
    BY <1>3, <2>1 DEF AskedFor
<1>9. Stored'
  BY <1>2, <1>3 DEF Stored
<1>10. Once'
  <2>1. Storing' = Storing \ {s} /\ s \in Storing
    BY <1>1, <1>2 DEF Storing, Requests
  <2>2. IsFiniteSet(Storing)
    BY FinitelyMany, FS_Subset DEF Storing
  <2>3. Cardinality(Storing') = Cardinality(Storing) - 1 /\ Cardinality(Storing) \in Nat
    BY <2>1, <2>2, FS_RemoveElement, FS_CardinalityType
  <2>4. row'.summary # Null
    BY <1>3, NullAssumption
  <2> QED
    BY <1>4, <2>3, <2>4 DEF Once, Typed
<1> QED
  BY <1>5, <1>6, <1>7, <1>8, <1>9, <1>10

-----------------------------------------------------------------------------
(* AlertTriage as a whole *)

LEMMA TriageInit == Init => TriageInv
<1> SUFFICES ASSUME Init PROVE TriageInv
  OBVIOUS
<1>1. \A r \in Requests : req[r] = NewRequest /\ req[r].pc = "new"
  BY DEF Init, NewRequest
<1>2. Typed
  <2>1. Cardinality(Summaries) \in Nat
    BY FinitelyMany, FS_CardinalityType
  <2>2. row \in Rows /\ last \in Inputs /\ req \in [Requests -> Requested]
    BY FirstOnes DEF Init
  <2>3. stores \in Nat /\ peak \in Nat /\ peak <= Cardinality(Summaries)
    BY <2>1 DEF Init
  <2>4. clash \in BOOLEAN
    BY DEF Init
  <2> QED
    BY <2>2, <2>3, <2>4 DEF Typed
<1>3. Worked
  BY <1>1 DEF Init, Worked, InFlight
<1>4. OneAtATime
  <2>1. \A p \in Patches : req[p].pc = "new" /\ ~InFlight(p)
    BY <1>1 DEF Requests, InFlight
  <2> QED
    BY <2>1 DEF Init, OneAtATime
<1>5. AskedFor
  BY DEF Init, AskedFor, NewRow, NoRow
<1>6. Stored
  BY NullAssumption, FirstOnes DEF Init, Stored
<1>7. Once
  <2>1. Storing = {}
    BY <1>1 DEF Storing, Requests
  <2> QED
    BY <2>1, FirstOnes, FS_EmptySet DEF Init, Once
<1> QED
  BY <1>2, <1>3, <1>4, <1>5, <1>6, <1>7 DEF TriageInv

LEMMA TriageStep == TriageInv /\ [Next]_vars => TriageInv'
<1> SUFFICES ASSUME TriageInv, [Next]_vars PROVE TriageInv'
  OBVIOUS
<1>1. CASE AlertAppears
  BY <1>1, AppearsKeeps
<1>2. ASSUME NEW p \in Patches, NEW input \in Inputs, Load(p, input)
      PROVE  TriageInv'
  BY <1>2, LoadKeeps DEF Requests
<1>3. ASSUME NEW s \in Summaries, Load(s, Columns(NewRow))
      PROVE  TriageInv'
  BY <1>3, LoadKeeps, FirstOnes DEF Requests
<1>4. ASSUME NEW r \in Requests, CommitPatch(r)
      PROVE  TriageInv'
  BY <1>4, CommitKeeps
<1>5. ASSUME NEW r \in Requests, SkipSummary(r) \/ AskLLM(r) \/ ReplyNone(r) \/ Refresh(r)
      PROVE  TriageInv'
  BY <1>5, AnswersKeep
<1>6. ASSUME NEW r \in Requests, StoreSummary(r)
      PROVE  TriageInv'
  BY <1>6, StoreKeeps
<1>7. CASE UNCHANGED vars
  BY <1>7 DEF vars, TriageInv, Typed, Worked, OneAtATime, AskedFor, Stored, Once, Storing,
              InFlight, Columns
<1> QED
  BY <1>1, <1>2, <1>3, <1>4, <1>5, <1>6, <1>7 DEF Next

LEMMA TriageInvariant == Spec => []TriageInv
BY TriageInit, TriageStep, PTL DEF Spec

\* What TriageInv says of what a reader cares for.
LEMMA TriageShows == TriageInv => TypeOK /\ TriageStands /\ AnswersShowEffect /\ SummaryGeneratedOnce
<1> SUFFICES ASSUME TriageInv
             PROVE  TypeOK /\ TriageStands /\ AnswersShowEffect /\ SummaryGeneratedOnce
  OBVIOUS
<1> USE DEF TriageInv
<1>1. /\ Cardinality(Summaries) \in Nat
      /\ Cardinality(Storing) \in Nat /\ stores + Cardinality(Storing) <= peak
  BY FinitelyMany, FS_Subset, FS_CardinalityType DEF Storing, Once
<1>2. TypeOK
  <2>1. \A r \in Requests : req[r] \in Requested
    BY DEF Typed
  <2>2. \A r \in Requests : /\ req[r].loaded \in Rows /\ req[r].answer \in Rows
                            /\ req[r].input \in Inputs
    BY <2>1 DEF Requested
  <2> QED
    BY <1>1, <2>2 DEF TypeOK, Typed, Worked
<1>3. TriageStands
  BY DEF TriageStands, OneAtATime, AskedFor
<1>4. AnswersShowEffect
  BY DEF AnswersShowEffect, OneAtATime, Stored
<1>5. SummaryGeneratedOnce
  BY <1>1 DEF SummaryGeneratedOnce, Once, Typed
<1> QED
  BY <1>2, <1>3, <1>4, <1>5

\* An analyst's decision stands until the next: the late commit of a summary
\* does not undo it, and what PATCHes that overlap leave in a column is what
\* one of them asked for (routers/alerts.py:74 against 136).
THEOREM DecisionsStand == Spec => []TriageStands
BY TriageInvariant, TriageShows, PTL

\* A PATCH that overlapped no other is answered with its own decision, and
\* whoever stored the summary is answered with one (routers/alerts.py:77-79).
THEOREM AnswersAreTrue == Spec => []AnswersShowEffect
BY TriageInvariant, TriageShows, PTL

\* However many ask, and however long the LLM takes, no more summaries are
\* stored than requests ever overlapped, and one that is there is never lost
\* (routers/alerts.py:101-138).
THEOREM SummariesAreFew == Spec => []SummaryGeneratedOnce
BY TriageInvariant, TriageShows, PTL

-----------------------------------------------------------------------------
(* The dashboard: its types, and who is an admin *)

Called == [pc : CallPCs, by : Browsers \cup {"none"}, session : Sessions,
           form : Inputs, edits : BOOLEAN, flash : {"none", "success", "warning", "danger"}]

DashTyped ==
    /\ config \in [Users -> Roles] /\ admins \subseteq Users
    /\ cookie \in [Browsers -> Sessions]
    /\ page \in [Browsers -> {NoPage} \cup Inputs]
    /\ call \in [Clicks -> Called]
    /\ acts \in 0 .. MaxActs
    /\ typed \in Texts \cup {Null} /\ overlap \in BOOLEAN

Awaited ==
    \A c \in Clicks : call[c].pc \in {"waiting", "redirect", "loading"} =>
        call[c].by \in Browsers /\ call[c].session # NoSession

\* Whose session says admin was made admin once.
Named(session) == session.role = "admin" => session.user \in admins

\* Who is admin now, by the configuration, a cookie or a session that an
\* answer may yet bring back, was made admin once; and so was who made a
\* click that was let through.
AdminsNamed ==
    /\ \A u \in Users : config[u] = "admin" => u \in admins
    /\ \A b \in Browsers : Named(cookie[b])
    /\ \A c \in Clicks : Named(call[c].session)
    /\ \A c \in AdminClicks :
          call[c].pc \in {"waiting", "redirect"} => call[c].session.user \in admins

SessionInv == DashTyped /\ Awaited /\ AdminsNamed

LEMMA SessionFacts ==
    /\ NoSession \in Sessions /\ NoSession.role # "admin" /\ NewCall.session = NoSession
    /\ NewCall \in Called /\ NewCall.pc = "new" /\ NewCall.form = Columns(NewRow)
    /\ Columns(NewRow) \in Inputs /\ "open" \in Statuses
    /\ NoPage \notin Inputs
<1>1. Columns(NewRow) \in Inputs
  BY FirstOnes
<1>2. NewCall \in Called /\ NewCall.pc = "new" /\ NewCall.form = Columns(NewRow)
  BY <1>1 DEF NewCall, Called, CallPCs, Sessions
<1>3. NoSession \in Sessions /\ NoSession.role # "admin" /\ NewCall.session = NoSession
  BY DEF NoSession, Sessions, NewCall
<1>4. NoPage \notin Inputs
  BY StatusesAssumption DEF NoPage, Inputs
<1> QED
  BY <1>1, <1>2, <1>3, <1>4, StatusesAssumption

\* A configuration makes admin whom its entries call so, and nobody else.
LEMMA ParsedRoles ==
    ASSUME NEW raw \in [Users -> Entries]
    PROVE  /\ Parsed(raw) \in [Users -> Roles]
           /\ AdminsOf(raw) \subseteq Users
           /\ \A u \in Users : Parsed(raw)[u] = "admin" => u \in AdminsOf(raw)
BY DEF Parsed, RoleOf, Roles, Entries, AdminsOf

\* A step on one click leaves the others.
LEMMA CalledStep ==
    ASSUME DashTyped, NEW c \in Clicks, NEW q \in Called, call' = [call EXCEPT ![c] = q]
    PROVE  /\ call' \in [Clicks -> Called]
           /\ call'[c] = q
           /\ \A o \in Clicks : o # c => call'[o] = call[o]
BY DEF DashTyped

LEMMA SendEffect ==
    ASSUME DashTyped, NEW c \in Clicks, NEW b \in Browsers,
           NEW form, form.fields \in Inputs, form.edits \in BOOLEAN, Send(c, b, form)
    PROVE  /\ call' \in [Clicks -> Called]
           /\ call'[c].pc = "waiting" /\ call'[c].by = b /\ call'[c].session = cookie[b]
           /\ call'[c].form = form.fields
           /\ call'[c].edits = form.edits /\ call'[c].flash = "none"
           /\ \A o \in Clicks : o # c => call'[o] = call[o]
<1> DEFINE q == [pc |-> "waiting", by |-> b, session |-> cookie[b],
                 form |-> form.fields, edits |-> form.edits, flash |-> "none"]
<1>1. cookie[b] \in Sessions
  BY DEF DashTyped
<1>2. q \in Called
  BY <1>1 DEF Called, CallPCs
<1>3. call' = [call EXCEPT ![c] = q]
  BY DEF Send
<1>4. /\ q.pc = "waiting" /\ q.by = b /\ q.session = cookie[b]
      /\ q.form = form.fields /\ q.edits = form.edits /\ q.flash = "none"
  OBVIOUS
<1> HIDE DEF q
<1> QED
  BY <1>2, <1>3, <1>4, CalledStep

\* An answer gives its browser the session that its request brought, and
\* leaves the other browsers theirs.
LEMMA ReissueEffect ==
    ASSUME DashTyped, NEW c \in Clicks, Reissue(c)
    PROVE  /\ cookie' \in [Browsers -> Sessions]
           /\ \A b \in Browsers :
                 cookie'[b] = IF b = call[c].by THEN call[c].session ELSE cookie[b]
<1>1. call[c].session \in Sessions
  BY DEF DashTyped, Called
<1> QED
  BY <1>1 DEF Reissue, DashTyped

LEMMA FlashEffect ==
    ASSUME DashTyped, NEW c \in Clicks, NEW kind \in {"none", "success", "warning", "danger"},
           Flash(c, kind)
    PROVE  /\ call' \in [Clicks -> Called]
           /\ call'[c].pc = "redirect" /\ call'[c].flash = kind
           /\ call'[c].by = call[c].by /\ call'[c].session = call[c].session
           /\ call'[c].form = call[c].form /\ call'[c].edits = call[c].edits
           /\ \A o \in Clicks : o # c => call'[o] = call[o]
<1> DEFINE q == [call[c] EXCEPT !.pc = "redirect", !.flash = kind]
<1>1. call[c] \in Called
  BY DEF DashTyped
<1>2. /\ q \in Called /\ q.pc = "redirect" /\ q.flash = kind /\ q.by = call[c].by
      /\ q.session = call[c].session /\ q.form = call[c].form /\ q.edits = call[c].edits
  BY <1>1 DEF Called, CallPCs
<1>3. call' = [call EXCEPT ![c] = q]
  BY DEF Flash, DashTyped
<1> HIDE DEF q
<1> QED
  BY <1>2, <1>3, CalledStep

\* The answer, whichever it is, ends in a redirect.
LEMMA AnswerEffect ==
    ASSUME DashTyped, NEW c \in Clicks, TakeAnswer(c) \/ TakeAdminAnswer(c) \/ GiveUp(c)
    PROVE  /\ UNCHANGED <<vars, config, page, acts, admins, typed, overlap>>
           /\ call[c].pc = "waiting" /\ Reissue(c)
           /\ call' \in [Clicks -> Called]
           /\ call'[c].pc = "redirect"
           /\ c \in Patches /\ call'[c].flash = "success" => req[c].pc = "answered"
           /\ call'[c].by = call[c].by /\ call'[c].session = call[c].session
           /\ call'[c].form = call[c].form /\ call'[c].edits = call[c].edits
           /\ \A o \in Clicks : o # c => call'[o] = call[o]
<1>1. /\ UNCHANGED <<vars, config, page, acts, admins, typed, overlap>>
      /\ call[c].pc = "waiting" /\ Reissue(c)
  BY DEF TakeAnswer, TakeAdminAnswer, GiveUp, Flash
<1>2. \E kind \in {"none", "success", "warning", "danger"} :
         /\ Flash(c, kind)
         /\ c \in Patches /\ kind = "success" => req[c].pc = "answered"
  <2>1. CASE TakeAnswer(c)
    BY <2>1 DEF TakeAnswer
  <2>2. CASE TakeAdminAnswer(c)
    BY <2>2, ClicksDistinct DEF TakeAdminAnswer, Requests
  <2>3. CASE GiveUp(c)
    BY <2>3 DEF GiveUp
  <2> QED
    BY <2>1, <2>2, <2>3
<1> QED
  BY <1>1, <1>2, FlashEffect

\* The browser follows a redirect.
LEMMA FollowEffect ==
    ASSUME DashTyped, Awaited, NEW c \in Clicks, Follow(c)
    PROVE  /\ UNCHANGED <<vars, config, cookie, page, acts, admins, typed, overlap>>
           /\ call[c].pc = "redirect" /\ call[c].by \in Browsers
           /\ call' \in [Clicks -> Called]
           /\ call'[c].pc = "loading" /\ call'[c].by = call[c].by
           /\ call'[c].session = cookie[call[c].by] /\ call'[c].session # NoSession
           /\ call'[c].form = call[c].form /\ call'[c].edits = call[c].edits
           /\ call'[c].flash = call[c].flash
           /\ \A o \in Clicks : o # c => call'[o] = call[o]
<1> DEFINE q == [call[c] EXCEPT !.pc = "loading", !.session = cookie[call[c].by]]
<1>1. /\ UNCHANGED <<vars, config, cookie, page, acts, admins, typed, overlap>>
      /\ call[c].pc = "redirect" /\ call[c].by \in Browsers
      /\ cookie[call[c].by] # NoSession
  BY DEF Follow, Awaited, LoggedIn
<1>2. call[c] \in Called /\ cookie[call[c].by] \in Sessions
  BY <1>1 DEF DashTyped
<1>3. /\ q \in Called /\ q.pc = "loading" /\ q.session = cookie[call[c].by] /\ q.by = call[c].by
      /\ q.form = call[c].form /\ q.edits = call[c].edits /\ q.flash = call[c].flash
  BY <1>2 DEF Called, CallPCs
<1>4. call' = [call EXCEPT ![c] = q]
  BY DEF Follow, DashTyped
<1> HIDE DEF q
<1> QED
  BY <1>1, <1>3, <1>4, CalledStep

\* A call is over: its form is all that is kept.
LEMMA EndEffect ==
    ASSUME DashTyped, NEW c \in Clicks, NEW how \in {"shown", "lost"}, Ended(c, how)
    PROVE  /\ call' \in [Clicks -> Called]
           /\ call'[c].pc = how /\ call'[c].session = NoSession
           /\ call'[c].form = call[c].form /\ call'[c].edits = call[c].edits
           /\ \A o \in Clicks : o # c => call'[o] = call[o]
<1> DEFINE q == [NewCall EXCEPT !.pc = how, !.form = call[c].form, !.edits = call[c].edits]
<1>1. call[c] \in Called
  BY DEF DashTyped
<1>2. /\ q \in Called /\ q.pc = how /\ q.session = NoSession
      /\ q.form = call[c].form /\ q.edits = call[c].edits
  BY <1>1, SessionFacts DEF NewCall, Called, CallPCs
<1>3. call' = [call EXCEPT ![c] = q]
  BY DEF Ended
<1> HIDE DEF q
<1> QED
  BY <1>2, <1>3, CalledStep

LEMMA ShowEffect ==
    ASSUME DashTyped, Awaited, TypeOK, NEW c \in Clicks, ShowPage(c)
    PROVE  /\ UNCHANGED <<vars, config, acts, admins, typed, overlap>>
           /\ call[c].pc = "loading" /\ call[c].by \in Browsers /\ Reissue(c)
           /\ page' \in [Browsers -> {NoPage} \cup Inputs]
           /\ page'[call[c].by] \in Landings(c)
           /\ call' \in [Clicks -> Called]
           /\ call'[c].pc = "shown" /\ call'[c].session = NoSession
           /\ call'[c].form = call[c].form /\ call'[c].edits = call[c].edits
           /\ \A o \in Clicks : o # c => call'[o] = call[o]
<1>1. /\ UNCHANGED <<vars, config, acts, admins, typed, overlap>>
      /\ call[c].pc = "loading" /\ call[c].by \in Browsers /\ Reissue(c)
      /\ Ended(c, "shown")
  BY DEF ShowPage, Awaited
<1>2. Landings(c) \subseteq {NoPage} \cup Inputs
  BY DEF Landings, TypeOK, Rows, Columns, Inputs
<1>3. /\ page' \in [Browsers -> {NoPage} \cup Inputs]
      /\ page'[call[c].by] \in Landings(c)
  BY <1>1, <1>2 DEF ShowPage, DashTyped
<1> QED
  BY <1>1, <1>3, EndEffect

LEMMA LoseEffect ==
    ASSUME DashTyped, Awaited, NEW c \in Clicks, Lose(c)
    PROVE  /\ UNCHANGED <<vars, config, cookie, acts, admins, typed, overlap>>
           /\ call[c].pc \in {"waiting", "redirect", "loading"}
           /\ page' \in [Browsers -> {NoPage} \cup Inputs]
           /\ call' \in [Clicks -> Called]
           /\ call'[c].pc = "lost" /\ call'[c].session = NoSession
           /\ call'[c].form = call[c].form /\ call'[c].edits = call[c].edits
           /\ \A o \in Clicks : o # c => call'[o] = call[o]
<1>1. /\ UNCHANGED <<vars, config, cookie, acts, admins, typed, overlap>>
      /\ call[c].pc \in {"waiting", "redirect", "loading"} /\ Ended(c, "lost")
  BY DEF Lose
<1>2. page' \in [Browsers -> {NoPage} \cup Inputs]
  BY DEF Lose, DashTyped
<1> QED
  BY <1>1, <1>2, EndEffect

LEMMA FormsFilledIn ==
    ASSUME NEW shown \in Inputs, NEW form \in Forms(shown)
    PROVE  /\ form.fields \in Inputs /\ form.edits \in BOOLEAN
           /\ ~form.edits => form.fields.notes = shown.notes
<1>1. CASE form \in {[fields |-> [status |-> s, notes |-> shown.notes], edits |-> FALSE]
                         : s \in Statuses}
  <2>1. PICK s \in Statuses :
           form = [fields |-> [status |-> s, notes |-> shown.notes], edits |-> FALSE]
    BY <1>1
  <2>2. form.fields = [status |-> s, notes |-> shown.notes] /\ form.edits \in BOOLEAN
    BY <2>1
  <2>3. form.fields \in Inputs /\ form.fields.notes = shown.notes
    BY <2>2 DEF Inputs
  <2> QED
    BY <2>2, <2>3
<1>2. CASE form \in {[fields |-> f, edits |-> TRUE] : f \in {g \in Inputs : g.notes # shown.notes}}
  <2>1. PICK f \in Inputs : form = [fields |-> f, edits |-> TRUE]
    BY <1>2
  <2>2. form.fields = f /\ form.edits
    BY <2>1
  <2>3. form.edits \in BOOLEAN
    BY <2>1
  <2> QED
    BY <2>2, <2>3
<1> QED
  BY <1>1, <1>2 DEF Forms

\* POST /alerts/<id>/triage.
LEMMA TriageClick ==
    ASSUME DashTyped, NEW c \in Clicks, NEW b \in Browsers, ClickTriage(c, b)
    PROVE  /\ UNCHANGED <<vars, config, cookie, page, admins, typed>>
           /\ c \in Patches /\ call[c].pc = "new" /\ acts' \in 0 .. MaxActs
           /\ call' \in [Clicks -> Called]
           /\ call'[c].pc = "waiting" /\ call'[c].by = b /\ call'[c].session = cookie[b]
           /\ cookie[b] # NoSession
           /\ ~call'[c].edits => call'[c].form.notes = page[b].notes
           /\ call'[c].flash = "none"
           /\ overlap' = (overlap \/ page[b] # Columns(row) \/ \E o \in Patches : UnderWay(o))
           /\ \A o \in Clicks : o # c => call'[o] = call[o]
<1>1. /\ UNCHANGED <<vars, config, cookie, page, admins, typed>>
      /\ c \in Patches /\ call[c].pc = "new" /\ acts' \in 0 .. MaxActs
  BY DashboardAssumption DEF ClickTriage, Unclicked, Act, DashTyped
<1>2. PICK form \in Forms(page[b]) : Send(c, b, form)
  BY DEF ClickTriage
<1>3. page[b] \in Inputs /\ cookie[b] # NoSession
  BY DEF ClickTriage, DashTyped, LoggedIn
<1>4. /\ form.fields \in Inputs /\ form.edits \in BOOLEAN
      /\ ~form.edits => form.fields.notes = page[b].notes
  BY <1>3, FormsFilledIn
<1>5. overlap' = (overlap \/ page[b] # Columns(row) \/ \E o \in Patches : UnderWay(o))
  BY DEF ClickTriage
<1> QED
  BY <1>1, <1>2, <1>3, <1>4, <1>5, SendEffect

\* The other clicks: for a summary, or on a button for admins.
LEMMA OtherClick ==
    ASSUME DashTyped, NEW c \in Clicks, NEW b \in Browsers, ClickSummary(c, b) \/ ClickAdmin(c, b)
    PROVE  /\ UNCHANGED <<vars, config, cookie, page, admins, typed, overlap>>
           /\ c \notin Patches /\ call[c].pc = "new" /\ acts' \in 0 .. MaxActs
           /\ call' \in [Clicks -> Called]
           /\ call'[c].pc \in {"waiting", "refused"}
           /\ call'[c].pc = "waiting" => call'[c].by = b /\ call'[c].session = cookie[b]
                                         /\ cookie[b] # NoSession
           /\ c \in Summaries => call'[c].pc = "waiting" /\ call'[c].form = Columns(NewRow)
           /\ call'[c].session \in {cookie[b], call[c].session}
           /\ c \in AdminClicks /\ call'[c].pc = "waiting" => cookie[b].role = "admin"
           /\ \A o \in Clicks : o # c => call'[o] = call[o]
<1>1. /\ UNCHANGED <<vars, config, cookie, page, admins, typed, overlap>>
      /\ call[c].pc = "new" /\ acts' \in 0 .. MaxActs /\ cookie[b] # NoSession
  BY DashboardAssumption DEF ClickSummary, ClickAdmin, Unclicked, Act, DashTyped, LoggedIn
<1>2. NoForm.fields = Columns(NewRow) /\ NoForm.fields \in Inputs /\ NoForm.edits \in BOOLEAN
  BY SessionFacts DEF NoForm
<1>3. CASE ClickSummary(c, b)
  <2>1. c \in Summaries /\ c \notin Patches /\ c \notin AdminClicks /\ Send(c, b, NoForm)
    BY <1>3, RequestsDistinct, ClicksDistinct DEF ClickSummary, Unclicked, Requests
  <2> QED
    BY <1>1, <1>2, <2>1, SendEffect
<1>4. CASE ClickAdmin(c, b)
  <2>1. c \in AdminClicks /\ c \notin Summaries /\ c \notin Patches
    BY <1>4, ClicksDistinct DEF ClickAdmin, Unclicked, Requests
  <2>2. CASE MayBlock(b)
    <3>1. Send(c, b, NoForm) /\ cookie[b].role = "admin"
      BY <1>4, <2>2 DEF ClickAdmin, MayBlock
    <3> QED
      BY <1>1, <1>2, <2>1, <3>1, SendEffect
  <2>3. CASE ~MayBlock(b)
    <3> DEFINE q == [call[c] EXCEPT !.pc = "refused"]
    <3>1. call[c] \in Called
      BY DEF DashTyped
    <3>2. q \in Called /\ q.pc = "refused" /\ q.session = call[c].session
      BY <3>1 DEF Called, CallPCs
    <3>3. call' = [call EXCEPT ![c] = q]
      BY <1>4, <2>3 DEF ClickAdmin, DashTyped
    <3> HIDE DEF q
    <3> QED
      BY <1>1, <2>1, <3>2, <3>3, CalledStep
  <2> QED
    BY <2>2, <2>3
<1> QED
  BY <1>3, <1>4

\* What the backend does, the dashboard learns from answers alone; `typed`
\* is what it will have been told to save.
LEMMA BackendEffect ==
    ASSUME DashTyped,
           \/ AlertAppears /\ UNCHANGED dashVars
           \/ \E r \in Requests : Receive(r) \/ BackendStep(r)
    PROVE  /\ UNCHANGED <<config, cookie, page, call, acts, admins, overlap>>
           /\ typed' \in Texts \cup {Null}
<1>1. CASE UNCHANGED dashVars
  BY <1>1 DEF dashVars, DashTyped
<1>2. ASSUME NEW r \in Requests, CommitPatch(r),
             typed' = (IF call[r].edits THEN call[r].form.notes ELSE typed),
             UNCHANGED <<config, cookie, page, call, acts, admins, overlap>>
      PROVE  typed' \in Texts \cup {Null}
  <2>1. call[r] \in Called
    BY DEF DashTyped, Clicks
  <2>2. call[r].form.notes \in Texts \cup {Null} /\ typed \in Texts \cup {Null}
    BY <2>1 DEF Called, Inputs, DashTyped
  <2> QED
    BY <1>2, <2>2
<1> QED
  BY <1>1, <1>2 DEF Receive, BackendStep

LEMMA SessionsStart == DashInit => SessionInv
<1> SUFFICES ASSUME DashInit PROVE SessionInv
  OBVIOUS
<1>1. /\ config \in [Users -> Roles] /\ admins \subseteq Users
      /\ \A u \in Users : config[u] = "admin" => u \in admins
  BY ParsedRoles, AccountsAssumption DEF DashInit
<1>2. \A b \in Browsers : /\ cookie[b] = [user |-> FirstUser[b], role |-> config[FirstUser[b]]]
                          /\ FirstUser[b] \in Users
  BY DashboardAssumption DEF DashInit
<1>3. ASSUME NEW b \in Browsers
      PROVE  /\ cookie[b] \in Sessions
             /\ cookie[b].role = "admin" => cookie[b].user \in admins
  <2> DEFINE u == FirstUser[b]
             r == config[u]
  <2>1. cookie[b] = [user |-> u, role |-> r] /\ u \in Users
    BY <1>2
  <2>2. r \in Roles /\ (r = "admin" => u \in admins)
    BY <1>1, <2>1
  <2> HIDE DEF u, r
  <2> QED
    BY <2>1, <2>2 DEF Sessions
<1>4. \A c \in Clicks : call[c] = NewCall
  BY DEF DashInit
<1>5. DashTyped
  <2>1. cookie \in [Browsers -> Sessions] /\ page \in [Browsers -> {NoPage} \cup Inputs]
    BY <1>3 DEF DashInit
  <2>2. call \in [Clicks -> Called]
    BY SessionFacts DEF DashInit
  <2>3. acts \in 0 .. MaxActs /\ typed \in Texts \cup {Null}
    BY DashboardAssumption DEF DashInit
  <2>4. overlap \in BOOLEAN
    BY DEF DashInit
  <2> QED
    BY <1>1, <2>1, <2>2, <2>3, <2>4 DEF DashTyped
<1>6. Awaited
  BY <1>4, SessionFacts DEF Awaited
<1>7. AdminsNamed
  <2>1. \A b \in Browsers : Named(cookie[b])
    BY <1>3 DEF Named
  <2>2. /\ \A c \in Clicks : Named(call[c].session)
        /\ \A c \in AdminClicks : call[c].pc = "new"
    BY <1>4, SessionFacts DEF Named, Clicks
  <2> QED
    BY <1>1, <2>1, <2>2 DEF AdminsNamed
<1> QED
  BY <1>5, <1>6, <1>7 DEF SessionInv

LEMMA SessionsStep ==
    ASSUME SessionInv, TypeOK, [DashNext]_allVars
    PROVE  SessionInv'
<1> USE DEF SessionInv
<1>1. CASE Restart
  <2>1. PICK raw \in [Users -> Entries] :
           config' = Parsed(raw) /\ admins' = admins \cup AdminsOf(raw)
    BY <1>1 DEF Restart
  <2>2. /\ UNCHANGED <<cookie, page, call, typed, overlap>> /\ acts' \in 0 .. MaxActs
    BY <1>1, DashboardAssumption DEF Restart, Act, DashTyped
  <2>3. /\ config' \in [Users -> Roles] /\ admins' \subseteq Users /\ admins \subseteq admins'
        /\ \A u \in Users : config'[u] = "admin" => u \in admins'
    BY <2>1, ParsedRoles DEF DashTyped
  <2>4. DashTyped'
    BY <2>2, <2>3 DEF DashTyped
  <2>5. Awaited' /\ AdminsNamed'
    BY <2>2, <2>3 DEF Awaited, AdminsNamed, Named
  <2> QED
    BY <2>4, <2>5
<1>2. ASSUME NEW b \in Browsers, NEW u \in Users, Login(b, u)
      PROVE  SessionInv'
  <2> DEFINE session == [user |-> u, role |-> config[u]]
  <2>1. /\ UNCHANGED <<config, page, call, admins, typed, overlap>> /\ acts' \in 0 .. MaxActs
    BY <1>2, DashboardAssumption DEF Login, Act, DashTyped
  <2>2. session \in Sessions /\ Named(session)
    BY DEF Sessions, DashTyped, AdminsNamed, Named
  <2>3. cookie' = [cookie EXCEPT ![b] = session]
    BY <1>2 DEF Login
  <2> HIDE DEF session
  <2>4. /\ cookie' \in [Browsers -> Sessions]
        /\ \A o \in Browsers : cookie'[o] = IF o = b THEN session ELSE cookie[o]
    BY <2>2, <2>3 DEF DashTyped
  <2>5. DashTyped'
    BY <2>1, <2>4 DEF DashTyped
  <2>6. Awaited' /\ AdminsNamed'
    BY <2>1, <2>2, <2>4 DEF Awaited, AdminsNamed, Named
  <2> QED
    BY <2>5, <2>6
<1>3. ASSUME NEW b \in Browsers, Logout(b)
      PROVE  SessionInv'
  <2>1. /\ UNCHANGED <<config, page, call, admins, typed, overlap>> /\ acts' \in 0 .. MaxActs
    BY <1>3, DashboardAssumption DEF Logout, Act, DashTyped
  <2>2. NoSession \in Sessions /\ Named(NoSession)
    BY SessionFacts DEF Named
  <2>3. cookie' = [cookie EXCEPT ![b] = NoSession]
    BY <1>3 DEF Logout
  <2>4. /\ cookie' \in [Browsers -> Sessions]
        /\ \A o \in Browsers : cookie'[o] = IF o = b THEN NoSession ELSE cookie[o]
    BY <2>2, <2>3 DEF DashTyped
  <2>5. DashTyped'
    BY <2>1, <2>4 DEF DashTyped
  <2>6. Awaited' /\ AdminsNamed'
    BY <2>1, <2>2, <2>4 DEF Awaited, AdminsNamed, Named
  <2> QED
    BY <2>5, <2>6
<1>4. ASSUME NEW b \in Browsers, OpenAlert(b)
      PROVE  SessionInv'
  <2>1. /\ UNCHANGED <<config, cookie, call, admins, typed, overlap>> /\ acts' \in 0 .. MaxActs
    BY <1>4, DashboardAssumption DEF OpenAlert, Act, DashTyped
  <2>2. page' \in [Browsers -> {NoPage} \cup Inputs]
    <3>1. Columns(row) \in Inputs
      BY DEF TypeOK, Rows, Columns, Inputs
    <3> QED
      BY <1>4, <3>1 DEF OpenAlert, DashTyped
  <2>3. DashTyped'
    BY <2>1, <2>2 DEF DashTyped
  <2>4. Awaited' /\ AdminsNamed'
    BY <2>1 DEF Awaited, AdminsNamed, Named
  <2> QED
    BY <2>3, <2>4
<1>5. ASSUME NEW b \in Browsers, NEW c \in Clicks, ClickTriage(c, b)
      PROVE  SessionInv'
  <2>1. /\ UNCHANGED <<config, cookie, page, admins, typed>>
        /\ c \in Patches /\ acts' \in 0 .. MaxActs /\ call' \in [Clicks -> Called]
        /\ call'[c].pc = "waiting" /\ call'[c].by = b /\ call'[c].session = cookie[b]
        /\ cookie[b] # NoSession
        /\ \A o \in Clicks : o # c => call'[o] = call[o]
    BY <1>5, TriageClick
  <2>2. overlap' \in BOOLEAN
    BY <1>5 DEF ClickTriage, DashTyped
  <2>3. DashTyped'
    BY <2>1, <2>2 DEF DashTyped
  <2>4. Awaited'
    BY <2>1 DEF Awaited
  <2>5. \A o \in AdminClicks : o \in Clicks /\ o # c
    BY <2>1, ClicksDistinct DEF Clicks, Requests
  <2>6. AdminsNamed'
    BY <2>1, <2>5 DEF AdminsNamed, Named
  <2> QED
    BY <2>3, <2>4, <2>6
<1>6. ASSUME NEW b \in Browsers, NEW c \in Clicks, ClickSummary(c, b) \/ ClickAdmin(c, b)
      PROVE  SessionInv'
  <2>1. /\ UNCHANGED <<config, cookie, page, admins, typed, overlap>>
        /\ acts' \in 0 .. MaxActs /\ call' \in [Clicks -> Called]
        /\ call'[c].pc \in {"waiting", "refused"}
        /\ call'[c].pc = "waiting" => call'[c].by = b /\ call'[c].session = cookie[b]
                                      /\ cookie[b] # NoSession
        /\ call'[c].session \in {cookie[b], call[c].session}
        /\ c \in AdminClicks /\ call'[c].pc = "waiting" => cookie[b].role = "admin"
        /\ \A o \in Clicks : o # c => call'[o] = call[o]
    BY <1>6, OtherClick
  <2>2. DashTyped'
    BY <2>1 DEF DashTyped
  <2>3. Awaited'
    BY <2>1 DEF Awaited
  <2>4. \A o \in Clicks : Named(call[o].session)'
    BY <2>1 DEF AdminsNamed, Named
  <2>5. AdminsNamed'
    BY <2>1, <2>4 DEF AdminsNamed, Named, Clicks
  <2> QED
    BY <2>2, <2>3, <2>5
<1>7. CASE \/ AlertAppears /\ UNCHANGED dashVars
           \/ \E r \in Requests : Receive(r) \/ BackendStep(r)
  <2>1. /\ UNCHANGED <<config, cookie, page, call, acts, admins, overlap>>
        /\ typed' \in Texts \cup {Null}
    BY <1>7, BackendEffect
  <2> QED
    BY <2>1 DEF DashTyped, Awaited, AdminsNamed, Named
<1>8. ASSUME NEW c \in Clicks, TakeAnswer(c) \/ TakeAdminAnswer(c) \/ GiveUp(c)
      PROVE  SessionInv'
  <2>1. /\ UNCHANGED <<config, page, acts, admins, typed, overlap>> /\ Reissue(c)
        /\ call[c].pc = "waiting" /\ call' \in [Clicks -> Called]
        /\ call'[c].by = call[c].by /\ call'[c].session = call[c].session
        /\ \A o \in Clicks : o # c => call'[o] = call[o]
    BY <1>8, AnswerEffect
  <2>2. /\ cookie' \in [Browsers -> Sessions]
        /\ \A b \in Browsers : cookie'[b] \in {cookie[b], call[c].session}
    BY <2>1, ReissueEffect
  <2>3. DashTyped'
    BY <2>1, <2>2 DEF DashTyped
  <2>4. Awaited' /\ AdminsNamed'
    BY <2>1, <2>2 DEF Awaited, AdminsNamed, Named, Clicks
  <2> QED
    BY <2>3, <2>4
<1>9. ASSUME NEW c \in Clicks, ShowPage(c)
      PROVE  SessionInv'
  <2>1. /\ UNCHANGED <<config, acts, admins, typed, overlap>> /\ Reissue(c)
        /\ page' \in [Browsers -> {NoPage} \cup Inputs] /\ call' \in [Clicks -> Called]
        /\ call'[c].pc = "shown" /\ call'[c].session = NoSession
        /\ \A o \in Clicks : o # c => call'[o] = call[o]
    BY <1>9, ShowEffect
  <2>2. /\ cookie' \in [Browsers -> Sessions]
        /\ \A b \in Browsers : cookie'[b] \in {cookie[b], call[c].session}
    BY <2>1, ReissueEffect
  <2>3. DashTyped'
    BY <2>1, <2>2 DEF DashTyped
  <2>4. Awaited' /\ AdminsNamed'
    BY <2>1, <2>2, SessionFacts DEF Awaited, AdminsNamed, Named, Clicks
  <2> QED
    BY <2>3, <2>4
<1>10. ASSUME NEW c \in Clicks, Follow(c)
       PROVE  SessionInv'
  <2>1. /\ UNCHANGED <<config, cookie, page, acts, admins, typed, overlap>>
        /\ call[c].pc = "redirect" /\ call[c].by \in Browsers
        /\ call' \in [Clicks -> Called]
        /\ call'[c].pc = "loading" /\ call'[c].by = call[c].by
        /\ call'[c].session = cookie[call[c].by] /\ call'[c].session # NoSession
        /\ \A o \in Clicks : o # c => call'[o] = call[o]
    BY <1>10, FollowEffect
  <2>2. DashTyped'
    BY <2>1 DEF DashTyped
  <2>3. Awaited' /\ AdminsNamed'
    BY <2>1 DEF Awaited, AdminsNamed, Named, Clicks
  <2> QED
    BY <2>2, <2>3
<1>11. ASSUME NEW c \in Clicks, Lose(c)
       PROVE  SessionInv'
  <2>1. /\ UNCHANGED <<config, cookie, acts, admins, typed, overlap>>
        /\ page' \in [Browsers -> {NoPage} \cup Inputs] /\ call' \in [Clicks -> Called]
        /\ call'[c].pc = "lost" /\ call'[c].session = NoSession
        /\ \A o \in Clicks : o # c => call'[o] = call[o]
    BY <1>11, LoseEffect
  <2>2. DashTyped'
    BY <2>1 DEF DashTyped
  <2>3. Awaited' /\ AdminsNamed'
    BY <2>1, SessionFacts DEF Awaited, AdminsNamed, Named, Clicks
  <2> QED
    BY <2>2, <2>3
<1>12. CASE UNCHANGED allVars
  BY <1>12 DEF allVars, dashVars, DashTyped, Awaited, AdminsNamed, Named
<1> QED
  BY <1>1, <1>2, <1>3, <1>4, <1>5, <1>6, <1>7, <1>8, <1>9, <1>10, <1>11, <1>12
     DEF DashNext, CallStep

-----------------------------------------------------------------------------
(* The dashboard as a client of the backend *)

\* A request is what some click has sent, and a summary's has no fields.
Sent ==
    \A r \in Requests :
       /\ call[r].pc # "refused"
       /\ call[r].pc = "new" => req[r].pc = "new"
       /\ req[r].pc # "new" => req[r].input = call[r].form
       /\ r \in Summaries => call[r].form = Columns(NewRow)
       /\ r \in Patches /\ call[r].pc \in {"redirect", "loading"} /\ call[r].flash = "success"
             => req[r].pc = "answered"

\* The backend works on one request at a time, and only on one it was sent.
LEMMA RequestMoves ==
    ASSUME TriageInv, NEW r \in Requests, Receive(r) \/ BackendStep(r)
    PROVE  /\ \A o \in Requests : o # r => req'[o] = req[o]
           /\ req[r].pc \notin {"answered", "missing"} /\ req'[r].pc # "new"
           /\ call[r].pc # "new" \/ req[r].pc # "new"
           /\ req'[r].input = IF req[r].pc = "new" THEN call[r].form ELSE req[r].input
<1> USE DEF TriageInv
<1>1. req \in [Requests -> Requested] /\ req[r] \in Requested
  BY DEF Typed
<1>2. CASE Receive(r)
  BY <1>1, <1>2 DEF Receive, Load, NewRequest
<1>3. CASE CommitPatch(r)
  BY <1>3, CommitEffect
<1>4. CASE StoreSummary(r)
  BY <1>4, StoreEffect
<1>5. CASE SkipSummary(r) \/ AskLLM(r) \/ ReplyNone(r) \/ Refresh(r)
  BY <1>1, <1>5 DEF SkipSummary, AskLLM, ReplyNone, Refresh, Respond, Requested
<1> QED
  BY <1>2, <1>3, <1>4, <1>5 DEF BackendStep

LEMMA SentStart == DashInit => Sent
<1> SUFFICES ASSUME DashInit, NEW r \in Requests
             PROVE  /\ call[r].pc = "new" /\ req[r].pc = "new"
                    /\ call[r].form = Columns(NewRow)
  BY DEF Sent
<1>1. call[r] = NewCall /\ req[r] = NewRequest
  BY DEF DashInit, Init, Clicks
<1> QED
  BY <1>1, SessionFacts DEF NewRequest

LEMMA SentStep ==
    ASSUME TriageInv, SessionInv, Sent, [DashNext]_allVars
    PROVE  Sent'
<1> USE DEF SessionInv
<1>1. TypeOK
  BY TriageShows
<1>2. \A r \in Requests : r \in Clicks
  BY DEF Clicks
<1>3. CASE UNCHANGED <<req, call>>
  BY <1>3 DEF Sent
<1>4. ASSUME NEW b \in Browsers, NEW c \in Clicks, ClickTriage(c, b)
      PROVE  Sent'
  <2>1. /\ req' = req /\ c \in Patches /\ c \notin Summaries /\ call[c].pc = "new"
        /\ call'[c].pc = "waiting" /\ \A o \in Clicks : o # c => call'[o] = call[o]
    BY <1>4, TriageClick, RequestsDistinct DEF vars
  <2> QED
    BY <1>2, <2>1 DEF Sent
<1>5. ASSUME NEW b \in Browsers, NEW c \in Clicks, ClickSummary(c, b) \/ ClickAdmin(c, b)
      PROVE  Sent'
  <2>1. /\ req' = req /\ c \notin Patches /\ call[c].pc = "new"
        /\ c \in Summaries => call'[c].pc = "waiting" /\ call'[c].form = Columns(NewRow)
        /\ \A o \in Clicks : o # c => call'[o] = call[o]
    BY <1>5, OtherClick DEF vars
  <2> QED
    BY <1>2, <2>1 DEF Sent, Requests
<1>6. CASE AlertAppears /\ UNCHANGED dashVars
  BY <1>3, <1>6 DEF AlertAppears, dashVars
<1>7. ASSUME NEW r \in Requests, Receive(r) \/ BackendStep(r)
      PROVE  Sent'
  <2>1. call' = call
    BY <1>7, BackendEffect
  <2>2. /\ \A o \in Requests : o # r => req'[o] = req[o]
        /\ req[r].pc \notin {"answered", "missing"} /\ req'[r].pc # "new"
        /\ call[r].pc # "new" \/ req[r].pc # "new"
        /\ req'[r].input = IF req[r].pc = "new" THEN call[r].form ELSE req[r].input
    BY <1>7, RequestMoves
  <2> QED
    BY <2>1, <2>2 DEF Sent
<1>8. ASSUME NEW c \in Clicks, TakeAnswer(c) \/ TakeAdminAnswer(c) \/ GiveUp(c)
      PROVE  Sent'
  <2>1. /\ req' = req /\ call[c].pc = "waiting" /\ call'[c].pc = "redirect"
        /\ c \in Patches /\ call'[c].flash = "success" => req[c].pc = "answered"
        /\ call'[c].form = call[c].form
        /\ \A o \in Clicks : o # c => call'[o] = call[o]
    BY <1>8, AnswerEffect DEF vars
  <2> QED
    BY <1>2, <2>1 DEF Sent
<1>9. ASSUME NEW c \in Clicks, ShowPage(c)
      PROVE  Sent'
  <2>1. /\ req' = req /\ call[c].pc = "loading" /\ call'[c].pc = "shown"
        /\ call'[c].form = call[c].form
        /\ \A o \in Clicks : o # c => call'[o] = call[o]
    BY <1>1, <1>9, ShowEffect DEF vars
  <2> QED
    BY <1>2, <2>1 DEF Sent
<1>10. ASSUME NEW c \in Clicks, Follow(c)
       PROVE  Sent'
  <2>1. /\ req' = req /\ call[c].pc = "redirect" /\ call'[c].pc = "loading"
        /\ call'[c].form = call[c].form /\ call'[c].flash = call[c].flash
        /\ \A o \in Clicks : o # c => call'[o] = call[o]
    BY <1>10, FollowEffect DEF vars
  <2> QED
    BY <1>2, <2>1 DEF Sent
<1>11. ASSUME NEW c \in Clicks, Lose(c)
       PROVE  Sent'
  <2>1. /\ req' = req /\ call[c].pc \in {"waiting", "redirect", "loading"}
        /\ call'[c].pc = "lost" /\ call'[c].form = call[c].form
        /\ \A o \in Clicks : o # c => call'[o] = call[o]
    BY <1>11, LoseEffect DEF vars
  <2> QED
    BY <1>2, <2>1 DEF Sent
<1>12. CASE Restart \/ \E b \in Browsers : (\E u \in Users : Login(b, u)) \/ Logout(b) \/ OpenAlert(b)
  BY <1>3, <1>12 DEF Restart, Login, Logout, OpenAlert, vars
<1>13. CASE UNCHANGED allVars
  BY <1>3, <1>13 DEF allVars, vars, dashVars
<1> QED
  BY <1>4, <1>5, <1>6, <1>7, <1>8, <1>9, <1>10, <1>11, <1>12, <1>13 DEF DashNext, CallStep

\* Every step of the dashboard and its backend is one of AlertTriage, or
\* leaves the alert and its requests alone.
LEMMA ClientStep ==
    ASSUME DashTyped, Sent, [DashNext]_allVars
    PROVE  [Next]_vars
<1>1. ASSUME NEW r \in Requests, Receive(r)
      PROVE  Next
  <2>1. Load(r, call[r].form)
    BY <1>1 DEF Receive
  <2>2. call[r].form \in Inputs
    BY DEF DashTyped, Called, Clicks
  <2>3. r \in Summaries => call[r].form = Columns(NewRow)
    BY DEF Sent
  <2> QED
    BY <2>1, <2>2, <2>3 DEF Next, Requests
<1>2. ASSUME NEW r \in Requests, BackendStep(r)
      PROVE  Next
  BY <1>2 DEF BackendStep, Next
<1>3. CASE AlertAppears
  BY <1>3 DEF Next
<1>4. ASSUME NEW b \in Browsers, NEW c \in Clicks,
             ClickTriage(c, b) \/ ClickSummary(c, b) \/ ClickAdmin(c, b)
      PROVE  UNCHANGED vars
  BY <1>4 DEF ClickTriage, ClickSummary, ClickAdmin
<1>5. ASSUME NEW c \in Clicks, CallStep(c)
      PROVE  UNCHANGED vars
  BY <1>5 DEF CallStep, TakeAnswer, TakeAdminAnswer, GiveUp, Follow, ShowPage, Lose
<1>6. CASE Restart \/ \E b \in Browsers : (\E u \in Users : Login(b, u)) \/ Logout(b) \/ OpenAlert(b)
  BY <1>6 DEF Restart, Login, Logout, OpenAlert
<1>7. CASE UNCHANGED allVars
  BY <1>7 DEF allVars
<1> QED
  BY <1>1, <1>2, <1>3, <1>4, <1>5, <1>6, <1>7 DEF DashNext

-----------------------------------------------------------------------------
(* One form at a time *)

\* As long as every form is sent alone, and from a page that shows the alert
\* as it is, the notes are the ones typed last, a form not yet saved that
\* does not edit them still holds them, and what one has saved stays while
\* it is under way.
Alone ==
    ~overlap =>
       /\ ~clash
       /\ row.notes = typed
       /\ \A p, q \in Patches : UnderWay(p) /\ UnderWay(q) => p = q
       /\ \A p \in Patches : UnderWay(p) =>
             /\ req[p].pc \in {"new", "loaded"} /\ ~call[p].edits
                   => call[p].form.notes = row.notes
             /\ req[p].pc \in {"refresh", "answered"} => Columns(row) = call[p].form

\* The backend works on nothing that is not under way.
LEMMA AtWork ==
    ASSUME DashTyped, Sent, NEW p \in Patches, InFlight(p) \/ (req[p].pc = "new" /\ call[p].pc # "new")
    PROVE  UnderWay(p)
<1>1. p \in Requests /\ p \in Clicks
  BY DEF Requests, Clicks
<1>2. call[p].pc \in {"waiting", "redirect", "loading", "shown", "lost"}
  BY <1>1 DEF Sent, DashTyped, Called, CallPCs, InFlight
<1> QED
  BY <1>2 DEF UnderWay, InFlight

LEMMA AloneStart == DashInit => Alone
<1> SUFFICES ASSUME DashInit PROVE Alone
  OBVIOUS
<1>1. \A p \in Patches : ~UnderWay(p)
  <2>1. \A p \in Patches : call[p].pc = "new"
    BY SessionFacts DEF DashInit, Clicks, Requests
  <2> QED
    BY <2>1 DEF UnderWay
<1>2. ~clash /\ row.notes = typed
  BY DEF DashInit, Init, NoRow
<1> QED
  BY <1>1, <1>2 DEF Alone

\* The steps on the backend's side.
LEMMA AloneBackend ==
    ASSUME TriageInv, TriageInv', DashTyped, Sent, Alone,
           NEW r \in Requests, Receive(r) \/ BackendStep(r)
    PROVE  Alone'
<1> USE DEF TriageInv
<1>1. call' = call /\ overlap' = overlap
  BY BackendEffect
<1> SUFFICES ASSUME ~overlap PROVE Alone'
  BY <1>1 DEF Alone
<1>2. /\ \A o \in Requests : o # r => req'[o] = req[o]
      /\ req[r].pc \notin {"answered", "missing"} /\ req'[r].pc # "new"
      /\ call[r].pc # "new" \/ req[r].pc # "new"
      /\ req'[r].input = IF req[r].pc = "new" THEN call[r].form ELSE req[r].input
  BY RequestMoves
<1>3. \A o \in Patches : o \in Requests /\ o \in Clicks
  BY DEF Requests, Clicks
<1>4. ASSUME NEW o \in Patches, UnderWay(o)'
      PROVE  UnderWay(o)
  <2>1. CASE o = r
    BY <1>1, <1>2, <1>4, <2>1 DEF UnderWay
  <2>2. CASE o # r
    BY <1>1, <1>2, <1>3, <1>4, <2>2 DEF UnderWay
  <2> QED
    BY <2>1, <2>2
<1>5. \A p, q \in Patches : UnderWay(p)' /\ UnderWay(q)' => p = q
  BY <1>4 DEF Alone
<1>6. CASE Receive(r)
  <2>1. /\ row' = row /\ typed' = typed /\ req[r].pc = "new" /\ call[r].pc # "new"
        /\ req'[r].pc \in {"loaded", "missing"}
    BY <1>6 DEF Receive, Load, dashVars, Typed, NewRequest
  <2>2. ~clash'
    <3>1. r \in Patches => \A o \in Patches : InFlight(o) => o = r
      BY <2>1, AtWork DEF Alone
    <3>2. clash' = (clash \/ (r \in Patches /\ row.exists
                               /\ {o \in Patches : InFlight(o)} \cup {r} # {r}))
      BY <1>6 DEF Receive, Load
    <3> QED
      BY <3>1, <3>2 DEF Alone
  <2>3. ASSUME NEW p \in Patches, UnderWay(p)'
        PROVE  /\ req'[p].pc \in {"new", "loaded"} /\ ~call[p].edits
                     => call[p].form.notes = row.notes
               /\ req'[p].pc \in {"refresh", "answered"} => Columns(row) = call[p].form
    BY <1>2, <1>3, <1>4, <2>1, <2>3 DEF Alone
  <2> QED
    BY <1>1, <1>5, <2>1, <2>2, <2>3 DEF Alone, Columns
<1>7. CASE /\ CommitPatch(r)
           /\ typed' = (IF call[r].edits THEN call[r].form.notes ELSE typed)
  <2>1. /\ r \in Patches /\ req[r].pc = "loaded" /\ req'[r].pc = "refresh"
        /\ req'[r].input = req[r].input
        /\ row'.notes = IF req[r].input.notes # req[r].loaded.notes
                        THEN req[r].input.notes ELSE row.notes
    BY <1>7, CommitEffect
  <2>2. UnderWay(r) /\ ~clash /\ clash' = clash
    BY <1>7, <2>1, AtWork DEF InFlight, Alone, CommitPatch
  <2>3. req[r].input = call[r].form
    BY <2>1 DEF Sent
  <2>4. Columns(row)' = call[r].form
    <3>1. Columns(row)' = req'[r].input
      BY <2>1, <2>2 DEF OneAtATime
    <3> QED
      BY <2>1, <2>3, <3>1
  <2>5. req[r].loaded.notes = row.notes
    BY <2>1, <2>2 DEF OneAtATime, Columns
  <2>6. row'.notes = typed'
    <3>1. typed' = (IF call[r].edits THEN call[r].form.notes ELSE typed)
      BY <1>7
    <3>2. ~call[r].edits => call[r].form.notes = row.notes
      BY <2>1, <2>2 DEF Alone
    <3>3. row.notes = typed
      BY DEF Alone
    <3> QED
      BY <2>1, <2>3, <2>5, <3>1, <3>2, <3>3
  <2>7. \A p \in Patches : UnderWay(p)' => p = r
    BY <1>4, <2>1, <2>2 DEF Alone
  <2> QED
    BY <1>1, <1>5, <2>1, <2>2, <2>4, <2>6, <2>7 DEF Alone
<1>8. CASE StoreSummary(r) /\ UNCHANGED dashVars
  <2>1. r \notin Patches /\ row'.notes = row.notes /\ Columns(row)' = Columns(row)
    BY <1>8, StoreEffect
  <2>2. clash' = clash /\ req[r].pc = "asking"
    BY <1>8 DEF StoreSummary
  <2>3. typed' = typed
    BY <1>8 DEF dashVars
  <2>4. \A p \in Patches : req'[p] = req[p]
    BY <1>2, <1>3, <2>1
  <2> QED
    BY <1>1, <1>4, <1>5, <2>1, <2>2, <2>3, <2>4 DEF Alone
<1>9. CASE (SkipSummary(r) \/ AskLLM(r) \/ ReplyNone(r) \/ Refresh(r)) /\ UNCHANGED dashVars
  <2>1. /\ row' = row /\ clash' = clash
        /\ r \in Patches => req[r].pc = "refresh" /\ req'[r].pc = "answered"
    BY <1>9, RequestsDistinct DEF SkipSummary, AskLLM, ReplyNone, Refresh, Respond, Worked, Typed,
                                  Requested
  <2>2. typed' = typed
    BY <1>9 DEF dashVars
  <2>3. ASSUME NEW p \in Patches, UnderWay(p)'
        PROVE  /\ req'[p].pc \in {"new", "loaded"} /\ ~call[p].edits
                     => call[p].form.notes = row.notes
               /\ req'[p].pc \in {"refresh", "answered"} => Columns(row) = call[p].form
    BY <1>2, <1>3, <1>4, <2>1, <2>3 DEF Alone
  <2> QED
    BY <1>1, <1>5, <2>1, <2>2, <2>3 DEF Alone, Columns
<1> QED
  BY <1>6, <1>7, <1>8, <1>9 DEF BackendStep

LEMMA AloneStep ==
    ASSUME TriageInv, TriageInv', SessionInv, Sent, Alone, [DashNext]_allVars
    PROVE  Alone'
<1> USE DEF SessionInv
<1>1. TypeOK
  BY TriageShows
<1>2. \A o \in Patches : o \in Requests /\ o \in Clicks
  BY DEF Requests, Clicks
<1>3. CASE UNCHANGED <<vars, call, typed, overlap>>
  BY <1>3 DEF Alone, UnderWay, Columns, vars
<1>4. ASSUME NEW b \in Browsers, NEW c \in Clicks, ClickTriage(c, b)
      PROVE  Alone'
  <2>1. /\ UNCHANGED <<row, req, clash, typed, page>>
        /\ c \in Patches /\ call[c].pc = "new" /\ call'[c].pc = "waiting"
        /\ ~call'[c].edits => call'[c].form.notes = page[b].notes
        /\ overlap' = (overlap \/ page[b] # Columns(row) \/ \E o \in Patches : UnderWay(o))
        /\ \A o \in Clicks : o # c => call'[o] = call[o]
    BY <1>4, TriageClick DEF vars
  <2> SUFFICES ASSUME ~overlap' PROVE Alone'
    BY DEF Alone
  <2>2. ~overlap /\ page[b] = Columns(row) /\ \A o \in Patches : ~UnderWay(o)
    BY <2>1
  <2>3. ASSUME NEW o \in Patches, UnderWay(o)'
        PROVE  o = c
    BY <1>2, <2>1, <2>2, <2>3 DEF UnderWay
  <2>4. req[c].pc = "new"
    BY <1>2, <2>1 DEF Sent
  <2>5. ~call'[c].edits => call'[c].form.notes = row.notes
    BY <2>1, <2>2 DEF Columns
  <2> QED
    BY <2>1, <2>2, <2>3, <2>4, <2>5 DEF Alone
<1>5. ASSUME NEW b \in Browsers, NEW c \in Clicks, ClickSummary(c, b) \/ ClickAdmin(c, b)
      PROVE  Alone'
  <2>1. /\ UNCHANGED <<row, req, clash, typed, overlap>> /\ c \notin Patches
        /\ \A o \in Clicks : o # c => call'[o] = call[o]
    BY <1>5, OtherClick DEF vars
  <2>2. \A o \in Patches : call'[o] = call[o]
    BY <1>2, <2>1
  <2> QED
    BY <2>1, <2>2 DEF Alone, UnderWay, Columns
<1>6. CASE AlertAppears /\ UNCHANGED dashVars
  <2>1. row = NoRow /\ row' = NewRow
    BY <1>6 DEF AlertAppears, TriageInv, Worked
  <2>2. row'.notes = row.notes /\ Columns(row)' = Columns(row)
    BY <2>1 DEF NoRow, NewRow, Columns
  <2> QED
    BY <1>6, <2>2 DEF AlertAppears, dashVars, Alone, UnderWay
<1>7. ASSUME NEW r \in Requests, Receive(r) \/ BackendStep(r)
      PROVE  Alone'
  BY <1>7, AloneBackend
<1>8. ASSUME NEW c \in Clicks, TakeAnswer(c) \/ TakeAdminAnswer(c) \/ GiveUp(c)
      PROVE  Alone'
  <2>1. /\ UNCHANGED <<row, req, clash, typed, overlap>>
        /\ call[c].pc = "waiting" /\ call'[c].pc = "redirect"
        /\ call'[c].form = call[c].form /\ call'[c].edits = call[c].edits
        /\ \A o \in Clicks : o # c => call'[o] = call[o]
    BY <1>8, AnswerEffect DEF vars
  <2>2. \A o \in Patches : /\ UnderWay(o)' => UnderWay(o)
                           /\ call'[o].form = call[o].form /\ call'[o].edits = call[o].edits
    BY <1>2, <2>1 DEF UnderWay
  <2> QED
    BY <2>1, <2>2 DEF Alone, Columns
<1>9. ASSUME NEW c \in Clicks, Follow(c) \/ ShowPage(c) \/ Lose(c)
      PROVE  Alone'
  <2>1. /\ UNCHANGED <<row, req, clash, typed, overlap>>
        /\ call[c].pc \in {"waiting", "redirect", "loading"}
        /\ call'[c].pc \in {"loading", "shown", "lost"}
        /\ call'[c].form = call[c].form /\ call'[c].edits = call[c].edits
        /\ \A o \in Clicks : o # c => call'[o] = call[o]
    BY <1>1, <1>9, FollowEffect, ShowEffect, LoseEffect DEF vars
  <2>2. \A o \in Patches : /\ UnderWay(o)' => UnderWay(o)
                           /\ call'[o].form = call[o].form /\ call'[o].edits = call[o].edits
    BY <1>2, <2>1 DEF UnderWay
  <2> QED
    BY <2>1, <2>2 DEF Alone, Columns
<1>10. CASE Restart \/ \E b \in Browsers : (\E u \in Users : Login(b, u)) \/ Logout(b) \/ OpenAlert(b)
  BY <1>3, <1>10 DEF Restart, Login, Logout, OpenAlert
<1>11. CASE UNCHANGED allVars
  BY <1>3, <1>11 DEF allVars, dashVars
<1> QED
  BY <1>4, <1>5, <1>6, <1>7, <1>8, <1>9, <1>10, <1>11 DEF DashNext, CallStep

-----------------------------------------------------------------------------
(* What the dashboard promises *)

DashInv == TriageInv /\ SessionInv /\ Sent /\ Alone

LEMMA DashInvariant == DashSpec => []DashInv
<1>1. DashInit => DashInv
  BY TriageInit, SessionsStart, SentStart, AloneStart DEF DashInit, DashInv
<1>2. DashInv /\ [DashNext]_allVars => DashInv'
  <2> SUFFICES ASSUME DashInv, [DashNext]_allVars PROVE DashInv'
    OBVIOUS
  <2> USE DEF DashInv
  <2>1. TriageInv'
    BY ClientStep, TriageStep DEF SessionInv
  <2>2. SessionInv'
    BY SessionsStep, TriageShows
  <2>3. Sent'
    BY SentStep
  <2>4. Alone'
    BY <2>1, AloneStep
  <2> QED
    BY <2>1, <2>2, <2>3, <2>4
<1> QED
  BY <1>1, <1>2, PTL DEF DashSpec

\* Whatever people do at their browsers, the backend sees no other than the
\* requests it is written for: the dashboard with its backend implements
\* AlertTriage, and all that was proved of it holds (api_client.py:21-42).
THEOREM DashboardIsAClient == DashSpec => Spec
<1>1. DashInit => Init
  BY DEF DashInit
<1>2. DashInv /\ [DashNext]_allVars => [Next]_vars
  BY ClientStep DEF DashInv, SessionInv
<1> QED
  BY <1>1, <1>2, DashInvariant, PTL DEF DashSpec, Spec

\* Every variable of the dashboard and of the alert behind it keeps its type.
THEOREM TypesAreKept == DashSpec => []DashTypeOK
<1>1. DashInv => DashTypeOK
  <2> SUFFICES ASSUME DashInv PROVE DashTypeOK
    OBVIOUS
  <2> USE DEF DashInv, SessionInv
  <2>1. TypeOK
    BY TriageShows
  <2>2. \A c \in Clicks : call[c].pc \in CallPCs /\ call[c].form \in Inputs
    BY DEF DashTyped, Called
  <2>3. \A c \in Clicks :
           /\ call[c].session \in Sessions
           /\ call[c].pc \in {"waiting", "redirect", "loading"}
                 => call[c].by \in Browsers /\ call[c].session # NoSession
    BY DEF Awaited, DashTyped, Called
  <2> QED
    BY <2>1, <2>2, <2>3 DEF DashTypeOK, DashTyped
<1> QED
  BY <1>1, DashInvariant, PTL

\* Nobody gets a block, an unblock or a verification through who was never
\* made admin, and no browser has such a session: however cookies outlive the
\* accounts they were made from, and whichever session an answer brings back
\* that was given after a logout or another login (auth.py:35-48,
\* routes/auth.py:27-30).
THEOREM AdminsAlone == DashSpec => []OnlyAdminsBlock
<1>1. DashInv => OnlyAdminsBlock
  BY DEF DashInv, SessionInv, AdminsNamed, Named, OnlyAdminsBlock, MayBlock
<1> QED
  BY <1>1, DashInvariant, PTL

\* As long as forms are sent one at a time and from a page that is up to
\* date, saving a status does not touch the notes (routes/alerts.py:82).
THEOREM NotesAreKept == DashSpec => []NotesStayUntilEdited
<1>1. DashInv => NotesStayUntilEdited
  BY DEF DashInv, Alone, NotesStayUntilEdited
<1> QED
  BY <1>1, DashInvariant, PTL

\* After a form was saved in time, and alone, the page the browser comes to
\* shows what was saved (routes/alerts.py:81-93).
THEOREM SavedIsShown == DashSpec => UpdateIsShown
<1> DEFINE Shown ==
       \A p \in Patches :
          call[p].pc = "loading" /\ call'[p].pc = "shown" /\ call[p].flash = "success" /\ ~overlap
             => page'[call[p].by] \in {NoPage, call[p].form}
<1>1. DashInv /\ [DashNext]_allVars => [Shown]_allVars
  <2> SUFFICES ASSUME DashInv, DashNext, NEW p \in Patches, ~overlap,
                      call[p].pc = "loading", call'[p].pc = "shown", call[p].flash = "success"
               PROVE  page'[call[p].by] \in {NoPage, call[p].form}
    OBVIOUS
  <2> USE DEF DashInv, SessionInv
  <2>1. p \in Clicks /\ p \in Requests
    BY DEF Clicks, Requests
  <2>2. ShowPage(p)
    <3>1. ~(call' = call)
      OBVIOUS
    <3>2. ASSUME NEW b \in Browsers, NEW c \in Clicks,
                 ClickTriage(c, b) \/ ClickSummary(c, b) \/ ClickAdmin(c, b)
          PROVE  FALSE
      BY <2>1, <3>2, TriageClick, OtherClick
    <3>3. ASSUME NEW c \in Clicks, TakeAnswer(c) \/ TakeAdminAnswer(c) \/ GiveUp(c)
          PROVE  FALSE
      BY <2>1, <3>3, AnswerEffect
    <3>4. ASSUME NEW c \in Clicks, \/ Follow(c) \/ Lose(c)
                                   \/ ShowPage(c) /\ c # p
          PROVE  FALSE
      BY <2>1, <3>4, FollowEffect, LoseEffect, ShowEffect, TriageShows
    <3>5. ~(\/ AlertAppears /\ UNCHANGED dashVars
            \/ \E r \in Requests : Receive(r) \/ BackendStep(r))
      BY <3>1, BackendEffect
    <3>6. ~(Restart \/ \E b \in Browsers : (\E u \in Users : Login(b, u)) \/ Logout(b) \/ OpenAlert(b))
      BY <3>1 DEF Restart, Login, Logout, OpenAlert
    <3> QED
      BY <3>2, <3>3, <3>4, <3>5, <3>6 DEF DashNext, CallStep
  <2>3. page'[call[p].by] \in {NoPage, Columns(row)}
    BY <2>1, <2>2, ShowEffect, TriageShows DEF Landings
  <2>4. Columns(row) = call[p].form
    BY <2>1 DEF Sent, Alone, UnderWay
  <2> QED
    BY <2>3, <2>4
<1> QED
  BY <1>1, DashInvariant, PTL DEF DashSpec, UpdateIsShown
==============================================================================
