----------------------------- MODULE AlertTriage -----------------------------
(***************************************************************************)
(* What happens to one row of alerts after detection wrote it: analysts'   *)
(* PATCH /alerts/{id} and POST /alerts/{id}/summary (routers/alerts.py),   *)
(* the latter with a call to an LLM in its middle (services/summarization).*)
(*                                                                         *)
(* Each request has its own session: it loads the row, works on the loaded *)
(* copy, and its commit writes the columns whose value it changed, no      *)
(* others (SQLAlchemy's unit of work).  Alerts do not interact; a request  *)
(* for one that does not exist yet is answered with 404.  closure_reason   *)
(* and notes are treated alike; one column, `notes`, stands for both.      *)
(***************************************************************************)
EXTENDS Naturals, FiniteSets

CONSTANTS
    Patches,      \* PATCH requests
    Summaries,    \* summary requests
    Texts,        \* what an analyst may note
    Statuses,     \* the statuses in use, of open, triaged and closed
    LLMEnabled    \* an API key is configured

ASSUME RequestsDistinct == Patches \cap Summaries = {}
ASSUME StatusesAssumption == "open" \in Statuses /\ Statuses \subseteq {"open", "triaged", "closed"}
ASSUME SwitchAssumption == LLMEnabled \in BOOLEAN
ASSUME FinitelyMany == IsFiniteSet(Summaries)

VARIABLES
    row,     \* the committed row: NoRow, or its columns
    req,     \* the requests: input, loaded copy, LLM reply, answer
    last,    \* no variable of the code: the input of the last PATCH that committed
    clash,   \* nor this: two PATCHes have been under way at once
    stores,  \* nor this: how many summaries have been stored
    peak     \* nor this: the most summary requests ever under way at once

vars == <<row, req, last, clash, stores, peak>>

Requests == Patches \cup Summaries

Null   == "null"

ASSUME NullAssumption == Null \notin Requests

NoRow  == [exists |-> FALSE, status |-> "open", notes |-> Null, summary |-> Null]
NewRow == [NoRow EXCEPT !.exists = TRUE]

Inputs == [status : Statuses, notes : Texts \cup {Null}]

Columns(r) == [status |-> r.status, notes |-> r.notes]

NewRequest == [pc |-> "new", input |-> Columns(NewRow), loaded |-> NoRow, answer |-> NoRow]

InFlight(r) == req[r].pc \notin {"new", "answered", "missing"}

Respond(r, answer) == req' = [req EXCEPT ![r].pc = "answered", ![r].answer = answer]

\* The detection runner commits the alert (DetectionRunner!InsertAlert).
AlertAppears ==
    /\ ~row.exists
    /\ row' = NewRow
    /\ last' = Columns(NewRow)
    /\ UNCHANGED <<req, clash, stores, peak>>

\* row = db.get(Alert, alert_id), in either handler.
Load(r, input) ==
    LET under(kind) == {o \in kind : InFlight(o)} \cup {r} IN
    /\ req[r].pc = "new"
    /\ req' = [req EXCEPT ![r] = [NewRequest EXCEPT
                  !.pc = IF row.exists THEN "loaded" ELSE "missing",
                  !.input = input, !.loaded = row]]
    /\ clash' = (clash \/ (r \in Patches /\ row.exists /\ under(Patches) # {r}))
    /\ peak' = IF r \in Summaries /\ row.exists /\ Cardinality(under(Summaries)) > peak
               THEN Cardinality(under(Summaries)) ELSE peak
    /\ UNCHANGED <<row, last, stores>>

\* Mutant: the whole row is written back as it was loaded.
WrittenWhole(loaded, changed) == changed

\* Column by column: what the request changed, otherwise what is there.
Written(loaded, changed) ==
    [c \in DOMAIN row |-> IF changed[c] # loaded[c] THEN changed[c] ELSE row[c]]

\* Mutant: a patch only sets what was not set before.
PatchedBlanks(loaded, input) ==
    [loaded EXCEPT !.status = input.status,
                   !.notes = IF loaded.notes = Null THEN input.notes ELSE loaded.notes]

\* The assignments of update_alert.
Patched(loaded, input) ==
    [loaded EXCEPT !.status = input.status, !.notes = input.notes]

\* update_alert: db.commit(); db.refresh(row); the refreshed row is the answer.
CommitPatch(p) ==
    /\ p \in Patches /\ req[p].pc = "loaded"
    /\ row' = Written(req[p].loaded, Patched(req[p].loaded, req[p].input))
    /\ req' = [req EXCEPT ![p].pc = "refresh"]
    /\ last' = req[p].input
    /\ UNCHANGED <<clash, stores, peak>>

\* generate_alert_summary: nothing to generate, the loaded row is the answer.
SkipSummary(s) ==
    /\ s \in Summaries /\ req[s].pc = "loaded"
    /\ LLMEnabled => req[s].loaded.summary # Null
    /\ Respond(s, req[s].loaded)
    /\ UNCHANGED <<row, last, clash, stores, peak>>

\* Mutant: every request asks the LLM.
AskLLMAlways(s) ==
    /\ s \in Summaries /\ req[s].pc = "loaded"
    /\ LLMEnabled
    /\ req' = [req EXCEPT ![s].pc = "asking"]
    /\ UNCHANGED <<row, last, clash, stores, peak>>

\* The prompt is built from the events and alerts of the address, and posted.
AskLLM(s) ==
    /\ s \in Summaries /\ req[s].pc = "loaded"
    /\ req[s].loaded.summary = Null /\ LLMEnabled
    /\ req' = [req EXCEPT ![s].pc = "asking"]
    /\ UNCHANGED <<row, last, clash, stores, peak>>

\* Mutant: the text of an error is returned as if it were a summary.
RepliesWithErrors(s) == IF LLMEnabled THEN {s, "timed out"} ELSE {Null}

\* What SummarizationService.summarize_alert may return to s: a text of its
\* own, or None for a timeout, a network error, a status other than 200, an
\* unexpected shape, or a switched-off LLM.  It never raises.
Replies(s) == IF LLMEnabled THEN {Null, s} ELSE {Null}

\* It returned None: the row stays, and the loaded copy is the answer.
ReplyNone(s) ==
    /\ req[s].pc = "asking" /\ Null \in Replies(s)
    /\ Respond(s, req[s].loaded)
    /\ UNCHANGED <<row, last, clash, stores, peak>>

\* It returned a text: row.summary = summary_text; db.commit().
StoreSummary(s) ==
    /\ req[s].pc = "asking"
    /\ \E text \in Replies(s) \ {Null} :
          row' = Written(req[s].loaded, [req[s].loaded EXCEPT !.summary = text])
    /\ req' = [req EXCEPT ![s].pc = "refresh"]
    /\ stores' = stores + 1
    /\ UNCHANGED <<last, clash, peak>>

\* db.refresh(row), the answer.
Refresh(r) ==
    /\ req[r].pc = "refresh"
    /\ Respond(r, row)
    /\ UNCHANGED <<row, last, clash, stores, peak>>

Init ==
    /\ row = NoRow
    /\ req = [r \in Requests |-> NewRequest]
    /\ last = Columns(NoRow)
    /\ clash = FALSE
    /\ stores = 0
    /\ peak = 0

Next ==
    \/ AlertAppears
    \/ \E p \in Patches, input \in Inputs : Load(p, input)
    \/ \E s \in Summaries : Load(s, Columns(NewRow))
    \/ \E r \in Requests : CommitPatch(r) \/ SkipSummary(r) \/ AskLLM(r)
                           \/ ReplyNone(r) \/ StoreSummary(r) \/ Refresh(r)

Spec == Init /\ [][Next]_vars

-----------------------------------------------------------------------------
(* Properties *)

Rows == [exists : BOOLEAN, status : Statuses, notes : Texts \cup {Null},
         summary : Summaries \cup {Null}]

\* Columns keep their types, and a row is only worked on once it exists.
TypeOK ==
    /\ row \in Rows
    /\ \A r \in Requests : /\ req[r].loaded \in Rows /\ req[r].answer \in Rows
                           /\ req[r].input \in Inputs
                           /\ InFlight(r) => req[r].loaded.exists
                           /\ req[r].pc = "answered" => req[r].answer.exists
    /\ last \in Inputs /\ clash \in BOOLEAN
    /\ stores \in 0 .. Cardinality(Summaries) /\ peak \in 0 .. Cardinality(Summaries)

\* An analyst's decision stands until the next one: however long a summary
\* takes, it does not put back the triage columns it loaded before
\* (alerts.py:74 against alerts.py:136).  PATCHes that overlap each other may
\* leave a mixture, but each column is still one that some of them asked for.
TriageStands ==
    /\ ~clash => Columns(row) = last
    /\ \A c \in {"status", "notes"} :
          row[c] \in {NewRow[c]} \cup {req[p].input[c] : p \in {o \in Patches : req[o].pc # "new"}}

\* The answer to a PATCH that overlapped no other shows its decision, and the
\* answer to a request that has stored a summary shows one.
AnswersShowEffect ==
    \A r \in Requests : req[r].pc = "answered" =>
        /\ r \in Patches /\ ~clash => Columns(req[r].answer) = req[r].input
        /\ row.summary = r => req[r].answer.summary # Null

\* Once there is a summary there always is one, and no more are stored than
\* requests have overlapped: one, if they never do ("Generate (once)",
\* alerts.py:89).
SummaryGeneratedOnce ==
    /\ stores <= peak
    /\ stores > 0 <=> row.summary # Null
==============================================================================
