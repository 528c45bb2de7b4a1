------------------------------ MODULE Dashboard ------------------------------
(***************************************************************************)
(* The dashboard in front of the backend (apps/dashboard): who may press   *)
(* which button, what the browser is told, and the forms it sends.         *)
(*                                                                         *)
(* A click is a POST to the dashboard, which checks the session cookie,    *)
(* calls the backend, flashes a message and redirects the browser to a     *)
(* page, for which it calls the backend again, up to three times.  A call  *)
(* that timed out is not taken back: the backend may still receive it, and *)
(* still works on it.  gunicorn kills a worker whose handler takes more    *)
(* than 30 seconds, and the browser is left without an answer.             *)
(*                                                                         *)
(* Sessions live in cookies.  An answer brings back the session with which *)
(* its request came in, however old it is by then (Flask: the session is   *)
(* permanent, and SESSION_REFRESH_EACH_REQUEST is on).                     *)
(*                                                                         *)
(* The alert and the backend's requests for it are those of AlertTriage;   *)
(* of the block and unblock calls only the answer matters here             *)
(* (BlockService has the rest).                                            *)
(***************************************************************************)
EXTENDS AlertTriage

CONSTANTS
    Browsers,       \* each has one session cookie and shows one page
    Users,          \* names with an account
    AdminClicks,    \* clicks on a button for admins: block, unblock, verify
    Accounts,       \* the entries of the first DASHBOARD_USERS
    FirstUser,      \* whose session each browser has when the model starts
    Workers,        \* gunicorn's workers; each handles one request at a time
    MaxActs         \* bound on what people do: clicks, logins, restarts...

ASSUME ClicksDistinct == Requests \cap AdminClicks = {}
ASSUME DashboardAssumption ==
    {MaxActs, Workers} \subseteq Nat /\ FirstUser \in [Browsers -> Users]

VARIABLES
    config,   \* DASHBOARD_USERS as the running process parsed it: their roles
    cookie,   \* the session of each browser, signed by the dashboard
    page,     \* the triage columns that the browser's alert page shows, or NoPage
    call,     \* the clicks and the calls they make
    acts,     \* how often somebody did something, for the bound
    admins,   \* no variable of the code: the users some configuration made admin
    typed,    \* nor this: the note typed last, of those that were saved
    overlap   \* nor this: a form was sent while another was under way, or from
              \* a page that did not show the alert as it was

dashVars == <<config, cookie, page, call, acts, admins, typed, overlap>>
allVars  == <<vars, dashVars>>

Clicks == Requests \cup AdminClicks

NoSession == [user |-> "none", role |-> "none"]
NoPage    == [status |-> "none", notes |-> Null]

NewCall == [pc |-> "new", by |-> "none", session |-> NoSession, form |-> Columns(NewRow),
            edits |-> FALSE, flash |-> "none"]

\* Somebody does something.
Act == acts < MaxActs /\ acts' = acts + 1

\* A worker is free.  A request that has to wait for one is as good as one
\* sent later: none of its browser's is being handled.
Free == Cardinality({c \in Clicks : call[c].pc \in {"waiting", "loading"}}) < Workers

\* Mutant: the role is the request's, the user is whom the cookie names by now.
ReissueRole(c) ==
    cookie' = [cookie EXCEPT ![call[c].by].role = IF @ = "none" THEN @ ELSE call[c].session.role]

\* save_session: the session goes back as its request brought it.
Reissue(c) == cookie' = [cookie EXCEPT ![call[c].by] = call[c].session]

-----------------------------------------------------------------------------
(* Accounts and sessions *)

\* Mutant: an entry whose last segment is no role makes an admin.
RoleOfAdmin(entry) == IF entry \in {"analyst", "admin"} THEN entry ELSE "admin"

\* _parse_dashboard_users: the last segment of an entry, unless it is part
\* of the password hash.
RoleOf(entry) == IF entry \in {"analyst", "admin"} THEN entry ELSE "analyst"

\* What the last segment of a user's entry may be.
Entries == {"admin", "hash"}

ASSUME AccountsAssumption == Accounts \in [Users -> Entries]

Parsed(raw) == [u \in Users |-> RoleOf(raw[u])]

AdminsOf(raw) == {u \in Users : raw[u] = "admin"}

\* The process starts again with another DASHBOARD_USERS.  Cookies live on:
\* the secret they are signed with stays.
Restart ==
    /\ Act
    /\ \E raw \in [Users -> Entries] :
          config' = Parsed(raw) /\ admins' = admins \cup AdminsOf(raw)
    /\ config' # config
    /\ UNCHANGED <<vars, cookie, page, call, typed, overlap>>

\* POST /login with the right password: verify_credentials, session.clear()
\* and the new session.  A wrong password changes nothing.
Login(b, u) ==
    /\ Free /\ Act
    /\ cookie' = [cookie EXCEPT ![b] = [user |-> u, role |-> config[u]]]
    /\ UNCHANGED <<vars, config, page, call, admins, typed, overlap>>

\* POST /logout, or the cookie expires.
Logout(b) ==
    /\ cookie[b] # NoSession /\ Free /\ Act
    /\ cookie' = [cookie EXCEPT ![b] = NoSession]
    /\ UNCHANGED <<vars, config, page, call, admins, typed, overlap>>

\* login_required: every route but the login page asks for a session.
LoggedIn(b) == cookie[b] # NoSession

\* role_required("admin"): the role is read from the cookie.
MayBlock(b) == LoggedIn(b) /\ cookie[b].role = "admin"

-----------------------------------------------------------------------------
(* Clicks *)

\* A click of b has not led to a page yet.
Waits(b) == \E c \in Clicks : call[c].by = b

\* The next click of its kind (clicks have no identity but their order).
\* Who clicks twice leaves the first page: that is Lose.
Unclicked(c, kind, b) ==
    /\ ~Waits(b)
    /\ c \in kind /\ call[c].pc = "new"
    /\ c = CHOOSE d \in kind : call[d].pc = "new"
    /\ Free /\ Act

\* A PATCH is under way as long as anyone still works on it, or may yet.
UnderWay(p) ==
    \/ call[p].pc \in {"waiting", "redirect", "loading"}
    \/ call[p].pc \in {"shown", "lost"} /\ req[p].pc \notin {"answered", "missing"}

\* GET /alerts/<id>, in one step: the session that it brings back late is
\* one that ShowPage can bring back late, too.
OpenAlert(b) ==
    /\ LoggedIn(b) /\ row.exists /\ Free /\ Act
    /\ page' = [page EXCEPT ![b] = Columns(row)]
    /\ page' # page
    /\ UNCHANGED <<vars, config, cookie, call, admins, typed, overlap>>

\* Mutant: the notes are not filled in.
FormsBlank(shown) ==
    {[fields |-> [status |-> s, notes |-> Null], edits |-> FALSE] : s \in Statuses}
    \cup {[fields |-> f, edits |-> TRUE] : f \in {g \in Inputs : g.notes # shown.notes}}

\* What the triage form may hold when it is sent: its fields come filled in
\* with what the page shows, and the analyst may change the status, and edit
\* the notes.
Forms(shown) ==
    {[fields |-> [status |-> s, notes |-> shown.notes], edits |-> FALSE] : s \in Statuses}
    \cup {[fields |-> f, edits |-> TRUE] : f \in {g \in Inputs : g.notes # shown.notes}}

Send(c, b, form) ==
    call' = [call EXCEPT ![c] = [pc |-> "waiting", by |-> b, session |-> cookie[b],
                                 form |-> form.fields, edits |-> form.edits, flash |-> "none"]]

NoForm == [fields |-> Columns(NewRow), edits |-> FALSE]

\* POST /alerts/<id>/triage.
ClickTriage(p, b) ==
    /\ Unclicked(p, Patches, b)
    /\ LoggedIn(b) /\ page[b] # NoPage
    /\ \E form \in Forms(page[b]) : Send(p, b, form)
    /\ overlap' = (\/ overlap
                   \/ page[b] # Columns(row)
                   \/ \E o \in Patches : UnderWay(o))
    /\ UNCHANGED <<vars, config, cookie, page, admins, typed>>

\* POST /alerts/<id>/summary.
ClickSummary(s, b) ==
    /\ Unclicked(s, Summaries, b)
    /\ LoggedIn(b) /\ page[b] # NoPage
    /\ Send(s, b, NoForm)
    /\ UNCHANGED <<vars, config, cookie, page, admins, typed, overlap>>

\* Mutant: any session may.
ClickAdminUnchecked(c, b) ==
    /\ Unclicked(c, AdminClicks, b)
    /\ LoggedIn(b)
    /\ Send(c, b, NoForm)
    /\ UNCHANGED <<vars, config, cookie, page, admins, typed, overlap>>

\* POST /entities/ip/<ip>/block or unblock, GET /response/audit/verify.
\* Without the role the answer is 403, at once, and the backend is not called.
ClickAdmin(c, b) ==
    /\ Unclicked(c, AdminClicks, b)
    /\ LoggedIn(b)
    /\ IF MayBlock(b) THEN Send(c, b, NoForm)
       ELSE call' = [call EXCEPT ![c].pc = "refused"]
    /\ UNCHANGED <<vars, config, cookie, page, admins, typed, overlap>>

-----------------------------------------------------------------------------
(* The calls to the backend *)

\* The message, and the redirect, with the session in its cookie.
Flash(c, kind) ==
    /\ call' = [call EXCEPT ![c].pc = "redirect", ![c].flash = kind]
    /\ Reissue(c)

\* The backend receives the request, maybe after the dashboard gave it up.
Receive(r) ==
    /\ call[r].pc # "new"
    /\ Load(r, call[r].form)
    /\ UNCHANGED dashVars

\* The steps of AlertTriage that follow.
BackendStep(r) ==
    \/ CommitPatch(r) /\ typed' = (IF call[r].edits THEN call[r].form.notes ELSE typed)
                      /\ UNCHANGED <<config, cookie, page, call, acts, admins, overlap>>
    \/ (SkipSummary(r) \/ AskLLM(r) \/ ReplyNone(r) \/ StoreSummary(r) \/ Refresh(r))
       /\ UNCHANGED dashVars

\* The answer comes in time: raise_for_status, and the message it leads to.
TakeAnswer(r) ==
    /\ r \in Requests /\ call[r].pc = "waiting"
    /\ req[r].pc \in {"answered", "missing"}
    /\ Flash(r, IF req[r].pc = "missing" THEN "danger"
                ELSE IF r \in Patches THEN "success"
                ELSE IF req[r].answer.summary = Null THEN "warning" ELSE "none")
    /\ UNCHANGED <<vars, config, page, acts, admins, typed, overlap>>

\* What the block service or the verification answered.
TakeAdminAnswer(c) ==
    /\ c \in AdminClicks /\ call[c].pc = "waiting"
    /\ \E kind \in {"success", "warning", "danger"} : Flash(c, kind)
    /\ UNCHANGED <<vars, config, page, acts, admins, typed, overlap>>

\* Mutant: a timeout is no reason to worry anybody.
GiveUpQuietly(c) ==
    /\ call[c].pc = "waiting"
    /\ Flash(c, "success")
    /\ UNCHANGED <<vars, config, page, acts, admins, typed, overlap>>

\* API_TIMEOUT has passed, or the connection broke: the except branch.
GiveUp(c) ==
    /\ call[c].pc = "waiting"
    /\ Flash(c, "danger")
    /\ UNCHANGED <<vars, config, page, acts, admins, typed, overlap>>

\* The browser follows the redirect, with the cookie it has by now.
Follow(c) ==
    /\ call[c].pc = "redirect" /\ LoggedIn(call[c].by) /\ Free
    /\ call' = [call EXCEPT ![c].pc = "loading", ![c].session = cookie[call[c].by]]
    /\ UNCHANGED <<vars, config, cookie, page, acts, admins, typed, overlap>>

\* Where a redirect ends: at the alert, or at the list when the call for the
\* alert fails; at the page of the address, or the audit log, after a click
\* for admins, where a failed call leaves no more than a gap.
Landings(c) ==
    {NoPage} \cup (IF c \in Requests /\ row.exists THEN {Columns(row)} ELSE {})

Ended(c, how) ==
    call' = [call EXCEPT ![c] = [NewCall EXCEPT !.pc = how, !.form = call[c].form,
                                                !.edits = call[c].edits]]

\* The backend was called for the page's parts, and the page is answered;
\* the message is shown and forgotten.
ShowPage(c) ==
    /\ call[c].pc = "loading"
    /\ \E p \in Landings(c) : page' = [page EXCEPT ![call[c].by] = p]
    /\ Ended(c, "shown") /\ Reissue(c)
    /\ UNCHANGED <<vars, config, acts, admins, typed, overlap>>

\* No page comes of the click: gunicorn kills the worker in the middle of its
\* handler, the user has left the page meanwhile, or a redirect meets the
\* login page.
Lose(c) ==
    /\ call[c].pc \in {"waiting", "redirect", "loading"}
    /\ page' = [page EXCEPT ![call[c].by] = NoPage]
    /\ Ended(c, "lost")
    /\ UNCHANGED <<vars, config, cookie, acts, admins, typed, overlap>>

-----------------------------------------------------------------------------
DashInit ==
    /\ Init
    /\ config = Parsed(Accounts)
    /\ admins = AdminsOf(Accounts)
    /\ cookie = [b \in Browsers |-> [user |-> FirstUser[b], role |-> config[FirstUser[b]]]]
    /\ page = [b \in Browsers |-> NoPage]
    /\ call = [c \in Clicks |-> NewCall]
    /\ acts = 0
    /\ typed = Null
    /\ overlap = FALSE

CallStep(c) ==
    TakeAnswer(c) \/ TakeAdminAnswer(c) \/ GiveUp(c) \/ Follow(c) \/ ShowPage(c) \/ Lose(c)

DashNext ==
    \/ Restart
    \/ AlertAppears /\ UNCHANGED dashVars
    \/ \E b \in Browsers :
          \/ \E u \in Users : Login(b, u)
          \/ Logout(b)
          \/ OpenAlert(b)
          \/ \E c \in Clicks : ClickTriage(c, b) \/ ClickSummary(c, b) \/ ClickAdmin(c, b)
    \/ \E r \in Requests : Receive(r) \/ BackendStep(r)
    \/ \E c \in Clicks : CallStep(c)

DashSpec == DashInit /\ [][DashNext]_allVars

-----------------------------------------------------------------------------
(* Properties *)

Roles    == {"admin", "analyst"}
Sessions == {NoSession} \cup [user : Users, role : Roles]
CallPCs  == {"new", "waiting", "redirect", "loading", "shown", "lost", "refused"}

\* Every variable keeps its type, those of AlertTriage included; a call is
\* under way only for a browser that brought a session.
DashTypeOK ==
    /\ TypeOK
    /\ config \in [Users -> Roles] /\ admins \subseteq Users
    /\ cookie \in [Browsers -> Sessions]
    /\ page \in [Browsers -> {NoPage} \cup Inputs]
    /\ \A c \in Clicks :
          /\ call[c].pc \in CallPCs /\ call[c].form \in Inputs
          /\ call[c].session \in Sessions
          /\ call[c].pc \in {"waiting", "redirect", "loading"}
                => call[c].by \in Browsers /\ call[c].session # NoSession
    /\ acts \in 0 .. MaxActs
    /\ typed \in Texts \cup {Null} /\ overlap \in BOOLEAN

\* Only a user whom some DASHBOARD_USERS made admin gets a block, an unblock or
\* a verification through, and no browser has an admin's session of anybody
\* else: whoever used it before, however often the accounts change, and
\* whichever session a late answer brings back after a logout or a login.  A
\* role lasts as long as its cookie (auth.py:43).
OnlyAdminsBlock ==
    /\ \A c \in AdminClicks :
          call[c].pc \in {"waiting", "redirect"} => call[c].session.user \in admins
    /\ \A b \in Browsers : MayBlock(b) => cookie[b].user \in admins

\* As long as every form is sent from a page that shows the alert as it is,
\* a note stays until somebody edits it: saving a status writes all columns,
\* and the notes it writes are those that were there (routes/alerts.py:82).
NotesStayUntilEdited == ~overlap => row.notes = typed

\* After "Alert updated." the page shows what was saved, unless another form
\* was under way: one whose call had long timed out, say.
UpdateIsShown ==
    [][\A p \in Patches :
          call[p].pc = "loading" /\ call'[p].pc = "shown" /\ call[p].flash = "success" /\ ~overlap
             => page'[call[p].by] \in {NoPage, call[p].form}]_allVars
==============================================================================
