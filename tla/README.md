# LDR-platform: TLA+ models, checks and proofs

LDR-platform collects web-server and application logs (`apps/backend`, FastAPI
over SQLAlchemy and Postgres), detects attacks with threshold rules
(`apps/worker`, rules in `rules/`), shows the alerts to analysts
(`apps/dashboard`, Flask) and lets them block addresses, with an audit log that
is chained by hashes. This directory holds TLA+ modules of its stateful parts,
the TLC runs that check them on small instances, and proofs checked by TLAPS.
Source paths below are relative to `src/apps/backend/app/` unless they start
with another top-level directory of the repository.

Contents: [1 Inventory](#1-inventory) · [2 Modules](#2-modules) ·
[3 What the models leave out, and their clock](#3-what-the-models-leave-out-and-their-clock) ·
[4 Runs](#4-runs) · [5 Fairness](#5-fairness) · [6 Proofs](#6-proofs) ·
[7 Findings](#7-findings) · [8 Observations](#8-observations) ·
[9 Not modelled](#9-not-modelled) · [10 Plan](#10-plan) · [11 Running it](#11-running-it)

## 1 Inventory

Agents post batches of log events to the ingest API, which stores them in
`events`. Detection runs (the worker's loop, or `cli detect`) read `events` and
write `alerts`. Analysts, through the dashboard, list and triage alerts, ask an
LLM for summaries, and block addresses, which writes `blocked_ips` and
`audit_log`. `cli retention` deletes old events, `cli audit-verify` checks the
audit chain. The components share nothing but the database: every HTTP request
and every detection run has a session of its own (`deps.get_db`,
`SessionLocal`), Postgres' default isolation is READ COMMITTED, and nothing in
the code takes a lock. The one piece of shared memory is the ingest limiter's
table of deques. So the hard behaviours are those of transactions that overlap,
die, are repeated, or work on copies that have gone stale.

| Component | State | Operations | What is hard | Correct if |
|---|---|---|---|---|
| **Response service** `services/response/block.py`, `routers/response.py` | `blocked_ips` (expiry, `is_active`), `audit_log` | block, unblock, block status, audit listing | query, flush, hash lookup and commit of two requests interleave; blocks run out without being touched; one return path does not commit | the audit log accounts for every row; an answer that reports a change is durable; without overlap an address has one lease |
| **Audit chain** `services/response/audit_chain.py` | `prev_hash`, `entry_hash` of `audit_log` | `compute_entry_hash`, `get_latest_hash`, `verify_chain` | links follow commits, the walk follows `created_at`; no lock on the newest hash | edits of rows are found and located; an unedited log is accepted |
| **Threshold engine** `services/detection/engine.py`, `match.py` | one counter per rule and group value: timestamps, last alert | `process(events)` | window and cooldown boundaries; order of events | alerts are exactly the bursts the rules describe, a cooldown apart |
| **Detection runner and worker** `services/detection/runner.py`, `src/apps/worker/worker.py` | `alerts`; the run's snapshot and list of candidates | lookback query, engine, duplicate query, insert and commit, notification; the worker's endless loop | crash between commit and mail; late events; triage during a run; two runs at once | no duplicate open alerts, none without its events, every burst alerted |
| **Ingest API** `routers/ingest.py`, `services/storage/` | `events`, unique `dedupe_hash` | ingest a batch, retention | a commit per event, the batch is not atomic; agents retry | each event stored once and counted once, nothing acknowledged is lost |
| **Normalizer and dedupe hash** `services/normalizer/`, `utils/dedupe.py` | none | parse nginx and flask lines, normalise, hash | precedence of parsed and envelope fields, malformed input | (what Ingest stores) |
| **Ingest rate limiter** `security/rate_limit.py`, `auth/ingest_limits.py` | one deque of times per token | `allow` | test, pop, check and append by several threads, each a step | the limit holds, up to what overlapping threads can add |
| **Alert triage and LLM summary** `routers/alerts.py`, `services/summarization/` | one row of `alerts` | PATCH, POST summary, list, get | the row is loaded before an LLM call of up to ten seconds and written after it | an analyst's decision stands; a summary is generated once |
| **Risk scorer** `services/risk/scorer.py` | none | score and label of an address from its alerts | decay, rounding, cap, label thresholds | the score follows the active alerts; labels change at their thresholds |
| **Entity views, evidence export** `routers/entities.py`, `services/evidence/` | none | summary, risk, evidence bundle; pages of the alert list | several queries per answer, each seeing what is committed by then; pages by offset from a moving list | the parts of an answer agree up to what changed between their queries |
| **Simulation** `services/simulation/` | none | posts attack-shaped events per rule, waits, looks for alerts, reports | an attack is committed event by event while the worker reads; alerts of other origin | an attack that was read whole is reported |
| **Dashboard** `src/apps/dashboard/` | signed session cookie with user and role; the forms in open pages | login, logout, triage, summary, block and unblock, verification, as a client of the API with a ten-second timeout | a role that outlives its account; late answers that bring back old sessions; a request reported as failed, or killed with its worker, that is committed later; forms filled in from old pages | only admins block; a message tells what happened |
| **CLI** `cli.py` | none | detect, retention, audit-verify, simulate, … | runs beside the worker | (the properties of what it calls) |
| LLM prompt `services/summarization/prompt_builder.py` | none | builds a prompt | – | – |
| Rule files `rules/*.yml`, `services/detection/rule_loader.py` | none | load at the start of a run | one malformed file stops all detection | – |
| Migrations | schema | one-off DDL | rows older than the hash chain | – |
| Plumbing (settings, logging, health) | none | – | – | – |

`PROJECT.json` lists the files of each component, and under `hazards` the places
where this code can go wrong in ways a test would hardly reach, each with the
properties that would show it.

## 2 Modules

```
AuditChain ──> BlockService ──> BlockServiceRefinement ─(INSTANCE)─> BlockRegistry
                    └────────> AuditTampering
SlidingWindow ──> ThresholdEngine
      └────────> DetectionRunner ──> EntityViews ──> Clients
                        │    RiskScorer ──┘             │
                        └──> Simulation ────────────────┘
AlertTriage ──> Dashboard        Normalizer ──> Ingest        RateLimiter

BlockServiceRefinement, AuditTampering, OrderLemmas ──> BlockService_proofs
ThresholdEngine, OrderLemmas ──> ThresholdEngine_proofs
DetectionRunner, OrderLemmas ──> DetectionRunner_proofs
Ingest ──> Ingest_proofs                 RateLimiter, OrderLemmas ──> RateLimiter_proofs
Dashboard ──> Dashboard_proofs           Clients, DetectionRunner_proofs ──> Clients_proofs
```

An arrow means "is extended by". Each `MC` module extends the module it is named
for and defines the values of the constants of its runs; MCBlockService extends
BlockServiceRefinement and AuditTampering.

**BlockService** models both handlers as processes with one action per database
access; `req[r]` is a request's Python locals.

| Action | Code (`services/response/block.py`) |
|---|---|
| `Arrive` | the router calls the service; `now = _now()` in `block_ip` |
| `FindActive` | `_active_block(ip)`: one row in force, any, if there is one |
| `FindAll` | `_all_active_blocks(ip)`: all rows with `is_active`, expired or not |
| `Stamp` | `created_at = _now()` in `_write_audit` |
| `Link` | `prev_hash = get_latest_hash(db)` |
| `CommitBlock` | both rows of a block, committed together (`Commit`) |
| `ReturnAlreadyBlocked` | the `block_ip_noop` path, which returns without a commit |
| `CommitUnblock`, `CommitUnblockNoop` | the update of the rows read by `FindAll`, and the entry |
| `Return` | the answer; `_block_to_dict` first reads the stored row again, since the commit expired its attributes |
| `Fail` | an exception or the death of the process, before the commit, when `get_db` closes the session and everything pending is rolled back, or after it, when the rows stay and the caller sees an error |
| `Tick` | time passes |

`Serialised` is no part of the code: TRUE restricts behaviours to requests that
do not overlap, for the properties that the code only has then.

**AuditChain** has the digest, `get_latest_hash` and `verify_chain` as operators
on the log. **AuditTampering** edits stored rows, as the unit tests of
`verify_chain` do. Its property quantifies over the edits of every log the
service can leave: an append reads `created_at` and `entry_hash` only, which the
edits do not touch, so an edit followed by appends gives the same log as the
appends followed by the edit, and no action for it is needed.
**BlockRegistry** is the abstract promise: one lease per address and a trail of
what was done. **BlockServiceRefinement** maps the active rows of an address to
its lease and the log to the trail.

**SlidingWindow** is one event meeting one counter of the engine (prune, count,
fire, cool down). **ThresholdEngine** walks a stream with it, one event a step,
for the properties of the engine alone. **DetectionRunner** iterates the same
operators over the snapshot of a run (`EngineAfter`, over the stream that
`InOrder` makes of it by the text of `@timestamp`, that is by local time,
`Reading`), and has an action per database access of the run: `StartRun` (query and engine), `PassCheck`/`SkipDuplicate` (the
duplicate query), `InsertAlert` (add and commit), `Notify`, `FinishRun`, `Crash`;
around it events arrive (`Ingest`, late or dated ahead), analysts change statuses
(`SetStatus`) and time passes.

**Normalizer** is what ingest makes of one envelope, the hash included.
**Ingest** commits an event per step: `Store`, `SkipKnown` (`IntegrityError`),
`BreakOnPoison` (any other error), `Die`, `DieAfterCommit`, `Answer`, and
`DeleteOldEvents` for retention.

**RateLimiter** is `allow()` under threads, one operation on the deque a step:
`Enter` reads the clock, `Look` is the loop's `while q`, `Test` compares `q[0]`,
`Pop` takes what is the head by then, `Measure` takes the length, `Refuse` and
`Admit` are the two returns. `Fail` is the `IndexError` of a thread that finds the
deque emptied by another. Nothing is relied on but that each operation is atomic.

**AlertTriage** follows one alert row through PATCH and summary requests. A
request loads the row and later writes the columns whose values it changed
(`Written`), which is what SQLAlchemy's unit of work does.

**Dashboard** composes those requests with the browsers that cause them.

| Action | Code (`src/apps/dashboard/dashboard/`) |
|---|---|
| `Restart` | the process starts with another `DASHBOARD_USERS`; cookies stay valid |
| `Login`, `Logout` | `routes/auth.py`; `Logout` is also a cookie that expires |
| `OpenAlert` | the alert's page, whose form is filled in with the row as it is |
| `ClickTriage`, `ClickSummary`, `ClickAdmin` | the POST handlers up to their call of the API; `ClickAdmin` is block, unblock and verification, behind `role_required` |
| `Receive`, `BackendStep` | the backend's part, AlertTriage's actions, maybe after the dashboard has given up |
| `TakeAnswer`, `TakeAdminAnswer`, `GiveUp` | the answer, or the `except` branch after `API_TIMEOUT`; which message is flashed |
| `Follow`, `ShowPage` | the redirect with the cookie the browser has by now; the page's calls of the API and the message shown |
| `Lose` | no page comes of the click: gunicorn kills the worker, the user has left, or the redirect meets the login page |

A session is in its cookie, and every answer brings back the one its request
came in with (`Reissue`; the session is permanent, and Flask sends such a session
with each response): an answer that is late undoes a logout or a login in between.
`Free` is gunicorn's number of workers, each with one request at a time; the calls
of one page are one step, as nothing but the page depends on them.

**RiskScorer** computes score, label and breakdown from a family of alert rows.
**EntityViews** has an action per query: `CountEvents`, `FindFirst`, `FindLast`,
`GroupPaths`, `GroupStatuses` for the summary of an address (`ValueOf` is what an
event has in the column, or that it has nothing; `TopItems` the ten of the limit),
`ListAlerts`, `FindEvents`, `AssessRisk` for its evidence bundle, `ReadPage` for
the list of alerts.
**Simulation** has `BeginSimulation`, `PostAttack` (a rule's payload),
`StoreAttack` (one event of it committed by the backend), `AttackSent`,
`AbortSimulation` (a refused or slow request ends the command), `Report`
(`check_fired` and the coverage report). **Clients** composes both with
detection: runs of the worker and of `cli detect`, late events, triage and
retention go on between any two queries.

## 3 What the models leave out, and their clock

**Clock.** `created_at` is written by the application with microseconds. The
models take the times at which audit rows are created as distinct and
increasing: `Stamp` moves the clock on. Equal times, or a clock set back, would
leave "the newest row" undefined in the code (`audit_chain.py:80`); that is a
listed hazard without a property. Everywhere else times may be equal.

**Database.** Transactions are READ COMMITTED; a statement reads what is
committed when it runs, and a commit is one step. The database's own failures
appear as `Fail`, `Crash`, `Die`. The unique index on `dedupe_hash` makes an
insert wait for the transaction that holds its key; each transaction of ingest
has one insert, so its commit is one step.

**SHA-256** is injective: in AuditChain a digest is the sequence of payloads it
was computed over, in Normalizer the tuple of what is hashed. Canonical JSON is
taken to separate different payloads.

**One row, one key.** Alerts do not interact in AlertTriage, nor tokens in
RateLimiter, so one of each is modelled. `closure_reason` and `notes` are treated
alike by `update_alert`; one column stands for both. The alert list is ordered
by `created_at`; EntityViews orders it by commit, which is the same for the one
runner that inserts while a list is read. A page is given by the positions of its
rows in that order (`Position`), the set of rows that LIMIT and OFFSET cut out.

**Floats.** RiskScorer counts in thousandths, and the decay of each age is a
constant with the properties the code's exponential has (`DecayAssumption`).

**Clicks.** A dashboard click is used once; a repeated click is another one. Of a
block or unblock the dashboard sees only the answer, any of its kinds.

**UTC offsets.** An event has its instant and the offset it is written with, in
units of the clock; the offsets that an address uses are a constant (`ZonesOf`).

**Rules** are constants; matching an event against a rule's `match` block is the
set `event.matches`.

**External code** is SQLAlchemy's sessions, the database, the SMTP server and
the LLM, modelled by what `src/` can see of them.

**Auxiliary variables** follow the run and are read by no action's guard other
than bounds: `log`, `peak` (RateLimiter), `removed` and the field `by` (Ingest),
`last`, `clash`, `stores`, `peak` (AlertTriage), `admins`, `typed`, `overlap`
(Dashboard), `deleted` and the fields `due`, `left` of `pager` (EntityViews),
`mine`, `read` (Simulation), `looked`, `origin` (Clients), `reopened` in the rows
of DetectionRunner.

## 4 Runs

Bounds are the constants of the `.cfg` files. All passing runs are exhaustive.

| Run | Instance | Shows |
|---|---|---|
| `BlockService_concurrent` | 3 requests that overlap, 1 address, no expiry or 2 units, 2 ticks; 4 343 254 states | the two tables account for each other, answers are committed, the chain is never detached |
| `BlockService_serial` | 3 requests one after the other, 2 addresses, 3 ticks; 633 804 states | the chain verifies, one block in force per address, unblock covers expired blocks, `verify_chain` reports exactly the edited logs and the oldest edited row, **refinement of BlockRegistry** |
| `ThresholdEngine` | every sorted stream of up to 4 events, 2 addresses, 4 instants, two rules; 379 873 states | the engine alerts exactly the bursts of its rules, a cooldown apart |
| `DetectionRunner` | 1 worker, 4 events, 2 addresses in 2 time zones, lookback of 1, events at 4 instants, 1 crash; 896 484 states | no duplicate open alerts, none without its events, runs cover what they read, mails lost only by crashes, **no burst overlooked for ever by a worker that goes on** |
| `RateLimiter` | 2 threads, 9 calls, limit 2 in a window of 1, 4 ticks; 892 808 states | how far the limit can be overshot, and that nobody is refused without cause |
| `Ingest` | 3 deliveries of 5 batches, retention; 418 757 states | counts are exact, nothing acknowledged is lost, what a poisonous event hides |
| `Dashboard` | 2 browsers, 2 users, 2 PATCHes, 2 summaries, 1 admin's click, 2 workers, 4 acts of people; 1 013 853 states | triage survives slow summaries, timeouts and killed workers, summaries stored ≤ summaries overlapping, only admins block though old sessions come back, no note is lost to a fresh form, messages are true |
| `Clients` | 1 address, 2 rules, 2–3 events and those of the attacks, 2 instants, pages of 1, lists of 1, 2 ranges, a check of the newest alert; one client at a time beside 1 runner, or 2 runners and nobody; 628 307 states | answers put together from several queries agree, a page misses only what moved, simulations report what was detected, duplicates need a race, risk follows the alerts |
| `BlockService_noop`, `BlockService_intact`, `ThresholdEngine_offsets`, `DetectionRunner_late` | smallest instance that shows it | the disagreements of section 7, each by a counterexample |

Every property of a passing run has a mutant in `PROJECT.json`: the change of one
definition, like a plausible bug of the code, under which TLC finds the property
violated with the run's own constants. The mutated forms stand beside the
definitions they replace, marked `Mutant:`.

**Why the bounds are enough.** A request of the response service takes five steps;
three of them already have the patterns that matter: two overlap and a third reads
what they left, a fork in the chain is extended, a row is claimed by two unblocks.
Two more clock units than the ttl let a block run out before, between and after
any two steps. Four events make two bursts of a count-two rule for one key, or one
for each of two keys; one unit more than the cooldown lets a second alert follow.
In DetectionRunner the lookback is one unit and the clock makes two ticks, so
events fall out of it, with one crash at every step of a run; cooldown and gap
together are two units and events lie at four instants, 0 to 3 (`Ahead`), so that
a burst can be too young for an old alert to stand for it; `MaxAlerts` bounds
closing, not alerts. The second address writes its timestamps two units ahead, so
that the walk mixes the two addresses in an order that is not that of the
instants. In RateLimiter nine calls and four ticks fill the deque, let it age, and
fill it beyond its limit while each of two threads pops a hit that the other had
tested: the bound of `OvershootBounded` is reached (six requests where the limit
is two), and the deque runs empty under a thread (`Fail`). A third thread
multiplies the states without a new pattern; the theorem is for any number. In
Ingest three deliveries suffice for a first one, its repetition, and one that
overlaps both. In Dashboard four acts are enough for both browsers to open the
alert and send a form from it, for a login between somebody else's login and a
click, or for a restart that takes a role away from a cookie; the calls they cause
interleave without bound. In Clients the longest answer has five queries; each can
have an insert, a deletion or a triage before it. Two alerts and pages of one make
the list move under its reader in every way: a new head, a row that leaves, both.
A summary has three events, with two values of a column and one without, and room
for one value. A simulation attacks with two rules and looks at the newest alert
only, so that the alert of the one can hide that of the other. `Finished` ends a
behaviour when its client has its answer, because clients write nothing that
others read but a simulation's events; its five kinds (`ClientKinds`) are
therefore taken one at a time.

**The properties, and what they are about**

- `RegistryMatchesAudit`: two tables, written by interleaved transactions that
  may die, agree in both directions. It holds although two blocks of one address
  can both succeed and two unblocks can claim the same row.
- `AnswersAreCommitted`: durable and atomic answers. `block_ip` flushes its row
  before it has its audit entry, and can fail before its commit, leaving nothing,
  or after it, leaving both rows.
- `ChainIsRooted`: the race on `get_latest_hash` can fork the chain but never
  leaves an entry whose predecessor is not in the log, or was rolled back.
- `OneBlockInForce`, `UnblockCoversEarlierBlocks`, `ChainVerifies`,
  `ImplementsRegistry` hold only without overlap; with it, each has a
  counterexample (section 8).
- `AlertsCountBurst` and `NoBurstMissed` compare the pruned list of the engine
  with the definition of a burst over the whole stream, cooldown included.
- `NoDuplicateOpen`, `RunCoversSnapshot`: what the duplicate query keeps out and
  what it must not, whatever was committed, closed or arrived meanwhile. Alerts
  that an analyst has re-opened are exempt: nothing checks for duplicates then.
- `MailsLostOnlyByCrashes`: the notification comes after the commit, outside any
  transaction; a crash costs at most one mail, and no later run makes up for it.
- `AlertsJustified`, `RunCoversSnapshot`, `EvidenceBacksAlerts`: for events whose
  addresses keep to one UTC offset each (`OneZone`), since the engine sorts the
  text of the timestamps (finding 3). Offsets may differ between addresses.
- `BurstsAreAlerted`: see section 5.
- `OvershootBounded`: when `peak` calls overlapped, a window admits at most
  `MaxRequests + 2 * (peak - 1) + peak * (peak - 1)`. Each overlapping call can
  append on a length that is no longer true, and, holding an old `now`, after a
  later call has dropped the hits of that time. And a call that has tested an old
  head may pop a hit of the current window, when another has popped that head
  first: once for each other call when the old hits run out, and once more for
  each old hit that was recorded late. `RefusalJustified` is the converse.
- `CountsMatchRows`, `PassedIsStored`: exact counts and no loss under repetition,
  overlap, death with or without a confirmed commit, and retention.
- `TamperingIsLocalised`: any number of edits, of any rows, at any time, and
  `verify_chain` names the oldest.
- `TriageStands`, `AnswersShowEffect`, `SummaryGeneratedOnce`: stale copies in the
  backend, now with requests that the dashboard has given up and repeats.
- `NotesStayUntilEdited`, `UpdateIsShown`: stale copies in the browser. The form
  sends every column; while each form comes from a page that shows the row as it
  is, saving a status takes no note back, and the page after "Alert updated."
  shows the update. Without that condition neither holds (section 8).
- `OnlyAdminsBlock`: the role is in the cookie, across restarts with other
  accounts, several users of one browser, and late answers that bring back the
  session of a user who has logged out.
- `SummaryAddsUp`, `EvidenceBacksAlerts`, `RiskAgreesWithList`: the queries of one
  answer see different databases. The lists of a summary leave out events without
  a value and, when they are full, values that fewer events have. The order of the
  queries matters: with the events of a bundle read before its alerts,
  `EvidenceBacksAlerts` would fail.
- `PagesMissOnlyWhatMoved`: offsets count from the head of a list that moves; a
  reader misses at most one alert for each that left the filter meanwhile.
- `DetectedAttacksReported`: the report looks for alerts by rule only, and the
  duplicate query may have dropped the alert that the attack would have raised. A
  rule that is missing from the report has no alert among the newest 200, but one
  that as many newer alerts hide.
- `DuplicatesNeedARace`: what is left of `NoDuplicateOpen` when the worker and
  `cli detect` run at once.
- `RiskFollowsAlerts`: the score moves only for a reason, in its direction,
  rounding and cap included.

## 5 Fairness

No specification here has fairness: nothing in the code guarantees that a process
goes on. `worker.py` is a `while True` whose body catches every exception, but
`smtplib.SMTP` is opened without a timeout (`services/notifications/email.py:156`),
so a mail server that accepts a connection and says nothing stops the worker in
`Notify` for good; gunicorn kills a worker of the dashboard whose handler takes
more than 30 seconds (`src/apps/dashboard/Dockerfile:22`), and a handler may make
several calls of up to ten seconds each. No property says therefore that a click
leads to a page.

The one liveness property, `BurstsAreAlerted` of the run `DetectionRunner`, has its
condition as a hypothesis: if some runner advances infinitely often, a burst in
the lookback does not stay without alert for ever: a run raises one, or the burst
leaves the lookback. The code promises no more (a worker that is down for longer
than `DETECTION_LOOKBACK_MINUTES` never sees the events). `Advances(w)` is a step of
the run that is no crash; a worker that hangs, or a rule file that stays malformed
and ends every run, breaks the hypothesis. Crashes are bounded by `MaxCrashes`. No
event, tick or analyst is bound to act. The hypothesis is what weak fairness of the
run's steps would give, as some `RunStep(w)` is enabled in every state. The run
uses no symmetry.

In every other run requests may stop anywhere, which is why none checks for
deadlock.

## 6 Proofs

The modules named `…_proofs` hold theorems that TLAPS checks, for **every** value
of the constants that satisfies the assumptions declared beside them. Those are:
keys of different kinds differ (`RequestsAssumption`, `RequestsDistinct`,
`ClicksDistinct`, `NullAssumption`), durations, counts and bounds are numbers
(`TTLsAssumption`, `RuleOfAssumption`, `RunnerAssumption`, `LimitAssumption`,
`InstantsAssumption`, …), the rules of a run, the threads of the pool and the
summary requests are finitely many (they are counted), and the accounts and
batches have their types. The number of requests, threads, runners, events,
rows, addresses and rules is arbitrary otherwise.

Some theorems have a hypothesis of their own, written
`ASSUME … PROVE Spec => []…`, or have it in the property; none can be dropped:

- `Serialised`: no two requests of the response service overlap. Without it the
  chain can fork, and an address can have two blocks (section 8).
- `OneOffset` (ThresholdEngine): all timestamps carry one UTC offset. Without
  it sorting by text does not sort instants (finding 3).
- `OneZone` (DetectionRunner and what builds on it): the events of one address
  carry one UTC offset, in the snapshot or the table the property speaks of. It is
  weaker than `OneOffset`: events of different addresses may be met in any order,
  as each counter belongs to one address.
- `OneRunner` (DetectionRunner): there is one runner, as in the deployment.
  Without it both can insert the same alert (section 8).
- `AttacksFit` (Clients): rules group by one field, and the timestamps of an
  attack lie within its rule's window. Every file of `rules/` is like that:
  `group_by` is the source address, and the events of `attack_shapes.py` are
  seconds apart, at most as many as fit into the window. A rule with two fields
  never fires (section 8), and an attack longer than its window is no burst.

**Response service** (BlockService_proofs).

| Theorem | States | Inductive invariant, and why it is needed |
|---|---|---|
| `TypeInvHolds`, `TypeCorrect` | `[]TypeInv`, `[]TypeOK` | `TypeInv` = `TypeOK` ∧ `Clocked` ∧ `RowsCommitted`. Keys of `blocked_ips` stay unique only because a row belongs to a request that is past its commit (`RowsCommitted`); the newest row of the log exists only because creation times are below the clock (`Clocked`: a nonempty bounded set of naturals has a greatest element, `OrderLemmas`). |
| `ChainRooted` | `[]ChainIsRooted` | `RootInv` adds `LinksAreRooted`: the hash a request has read and not yet used belongs to a committed entry. Entries are never removed, so it still does at the commit, however many commits come between. |
| `AnswersCommitted` | `[]AnswersAreCommitted` | `AnswerInv`: a request carries the note of a change exactly when its rows are stored (`NotesMatchRows`), and none before its commit (`NotedWhenSettled`), so that failing after the commit, or being answered, changes nothing. `NotesFit` ties the note to the operation: a block request has both rows or neither. |
| `RegistryAudited` | `[]RegistryMatchesAudit` | `RegistryInv` adds `KeysAreStored`: the keys a request has collected for its update are keys of rows. Without it an entry could list a row that appears only later. |
| `ChainVerified` (`Serialised`) | `[]ChainVerifies` | `ChainInv`: creation order is commit order (`LogOrdered`), a stamped request will be the last (`StampedLast`), the hash it has read is still the newest (`LinkedToLast`), every row extends its predecessor (`LogLinked`). The walk of `verify_chain`, over a log of any length, then meets the predecessor's hash at every row. |
| `TamperingLocalised` (`Serialised`) | `[]TamperingIsLocalised` | `ChainInv` again: edits change neither `entry_hash` nor `created_at`, so the walk is the same (`SameWalk`); digests are injective, so a row mismatches exactly when it is edited (`MismatchIsEdit`), and the oldest edited row is where the walk stops. |
| `OneBlockEach`, `UnblockIsComplete` (`Serialised`) | `[]OneBlockInForce`, `[]UnblockCoversEarlierBlocks` | `LeaseInv`: what a request has found is still so when it commits (`FoundIsCurrent`), at most one row of an address is in force (`OneInForce`), entries and rows name the same address (`EntriesNameRows`). Time can end a block between two steps, but puts none back into force. |
| `RegistryImplemented` (`Serialised`) | `Spec => ImplementsRegistry` | the step simulation: under `LeaseInv`, `CommitBlock` is BlockRegistry's `Block`, `CommitUnblock` its `Unblock`, every other step leaves leases and trail alone. |

**Threshold engine** (ThresholdEngine_proofs). `BurstInv` says that an event a
counter has dropped is more than a window older than one it has met
(`PrunedForGood`); in a stream that is ordered (`Ordered`, from `OneOffset`) it can
be part of no later burst, so the counter is the burst. Hence `AlertsAreBursts`
and `AlertsFitWindow`. `CooldownInv` adds that a counter's `last_alert_at` is that
of its newest alert (`LastIsNewest`), for `AlertsCoolDown` and `BurstsAreAlerted`.

**Detection** (DetectionRunner_proofs). The first part is about the engine as a
function of a snapshot. The sort (`InOrder`) and the loop (`EngineAfter`) are
recursive functions. That these are defined at all is proved with a least
counterexample (`SortingEnds`, `EngineEnds`): the least number of elements, or of
events, at which the definition would fail, fails to be one. The same argument
carries the engine's invariant (`EngineKeeps`) along the loop: counters are the
pruned windows, alerts are backed, bursts have been met. `EngineJustified` and
`EngineComplete` are what runs need: every candidate stands for a burst in its
window, and every burst has a candidate at most a cooldown older. The sort is by
the text of the timestamps; that it puts the events of one key in the order of
their instants is what `OneZone` is for.

| Theorem | States | Inductive invariant |
|---|---|---|
| `MailsAreSent` | `[]MailsLostOnlyByCrashes` | `MailInv`, with `Typed`: the row a run is about to mail is in the table and has its candidate's rule, so a crash costs one mail at most |
| `NoDuplicates` (`OneRunner`) | `[]NoDuplicateOpen` | `DuplicateInv`, with `ClearToInsert`: between the query and the insert nothing comes in the way of a candidate but an alert that an analyst re-opens |
| `AlertsAreBacked` | `[]AlertsJustified` | `BackedInv`: while no address mixes offsets, the candidates in the queue are backed by the table too, which only grows |
| `RunsAreThorough` | `[]RunCoversSnapshot` | `CoverInv`: each candidate of the snapshot is still in the queue or has an alert; triage and other runs take none away |

**Ingest** (Ingest_proofs). `IngestInv` relates a delivery's position, its counts
and the rows that carry its name: rows stand before its position
(`RowsPlaced`), what it has passed is not poisonous (`PassedIsClean`), it made
finitely many rows. Hence `CountsAreExact`, `NothingPassedIsLost`,
`PoisonHidesTheRest`; that events with one hash make one row is a lemma about
Normalizer.

**Rate limiter** (RateLimiter_proofs). For `OvershootIsBounded`, `Room(T)` counts
the window that ends at any instant T in two phases. While no call has read the
clock after T, a call decides to pop only under a head older than the window, so
that the hits of the window that get lost (`Taken`), with the calls about to pop
another (`Pending`, once no old head protects the window), are paid for by the
others that decided under the same head: `peak - 1`, and as many again for each old
hit recorded behind the window's first (`Late`), of which there are at most
`peak - 1`, since the calls they belong to overlapped it (`OrderInv`). Whoever found
room counted all the other hits, so the window holds at most the limit, these
`peak * (peak - 1)`, and those who decide at the same time. Once a call is past T
hits may be dropped, but from then on only the calls still under way with an
earlier reading can add to the window, fewer than `peak`. The run shows that two
threads reach the bound. For `RefusalsAreJustified`, `OrderInv` bounds the hits
recorded behind a younger one, with the calls that may still be, by `peak - 1`; a
call that ends its loop has found its head in its own window, or the deque empty
(`FreshInv`), and so are all hits behind it but those; what it measures then is no
more than what its window holds and they (`BasisInv`), whatever is popped later.

**Triage and dashboard** (Dashboard_proofs). `TriageInv` follows the stale copies:
the columns a request will write are those it changed (`Worked`), each column of
the row was asked for (`AskedFor`), a request about to store a summary is one of
those that overlap (`Once`). Hence `DecisionsStand`, `AnswersAreTrue` and
`SummariesAreFew`, about AlertTriage's `Spec`; `DashboardIsAClient` proves
`DashSpec => Spec`, so that they hold under the dashboard as well. `SessionInv`
says that an admin's session names a user in `admins`, be it in a cookie or one that
a call under way will bring back, whence `AdminsAlone`;
`DashInv` adds what the form of a call under way shows while no other is, for
`NotesAreKept` and the action property `SavedIsShown`.

**Clients** (Clients_proofs). A step of the clients is a step of DetectionRunner's
`Next`, or retention, or leaves the platform alone (`PlatformStep`); so what is
proved of runs above holds while clients look on. Retention breaks one thing
only, that events stay, so invariants that speak of events take those it deleted
into account (`Ever`).

| Theorem | States | Inductive invariant |
|---|---|---|
| `SummariesAddUp` | `[]SummaryAddsUp` | `SummaryInv`: each event counted is still in the table or was deleted; each query that has run has found those that are left now, between its bounds or in its list (`ListOf`), or has a full list of values that more events have |
| `BundlesHoldTheirEvents` | `[]EvidenceBacksAlerts` | `HistoryInv` (`BackedInv` over `Ever`) and `BundleInv`: the events of a listed alert are in the table, in the bundle, deleted or outside the range |
| `RiskFitsTheList` | `[]RiskAgreesWithList` | the same, with the property: an alert that was listed as closed is active only when it was re-opened (`ClosedStays`) |
| `PagesMissFew` | `[]PagesMissOnlyWhatMoved` | `PagerInv`: no more rows have slipped under the offset unseen (`Slipped`) than have left the list. New rows only push others away from the head; a row that leaves pulls one row at most under the offset (`PlacesMove`), as no two rows have one position and none is left free (`Places`, a bijection between finite sets); so a page that is not full is the last (`LastPage`) |
| `DuplicatesComeFromRaces` | `[]DuplicatesNeedARace` | `RaceInv`, with `ClearButForRaces`: whatever is in the way of a candidate about to be inserted came after its run had looked |
| `AttacksAreReported` (`AttacksFit`) | `[]DetectedAttacksReported` | `CoverInv` above, and `SimInv`: the events sent for a rule are as many as it counts, from one address and within the window (`Attacked`), so that they are a burst in every snapshot that holds them (`AttackIsBurst`), and `CoverInv` gives an alert of the rule, which the check finds unless as many newer ones hide it. `IdsDense` is needed so that each POST adds an event that was not there: rows that are alike are numbered without a gap |

**Risk** (last section of Clients_proofs). `RiskThresholds`: for every set of rows and every
decay, if the weighted sum is a natural number of thousandths, the score lies in
0..100 and each label begins exactly where rounding half to even lifts the sum
to its threshold: `low` above 500 thousandths (half a point rounds to 0),
`medium`, `high` and `critical` from 19 500, 49 500 and 79 500 on (those halves
round up). It follows from `RoundedNear` (rounding moves a total by half a point
at most, and to the even side on a half) and `Capped`. That the sum is a natural
number is its assumption.

**How the proofs are laid out.** Each inductive proof has one step for `Init`, one
per action of `Next`, and a temporal step by PTL. What an action does to the
pieces of the state is a lemma of its own (`QuietStores`, `CommitAppends`,
`EnterEffect`, …), cited by every invariant. `Newest`, `Oldest`, min and max are
`CHOOSE`s; that they denote something follows from `OrderLemmas`, which derives
least and greatest elements of sets of numbers from the well-foundedness of `<`
on the naturals and from cardinality. The runs of section 4 check the same
properties on small instances.

**Only model-checked.**

- Liveness (`BurstsAreAlerted`): it is beyond the prover's reach.
- `RiskFollowsAlerts`: a sum over a set of alerts is a fold from the community
  modules, and what a fold gives needs induction over data.

## 7 Findings

Disagreements between what the repository says and what its code does, each with
a run that ends in a counterexample.

1. **`BlockService_noop`, `EveryAnswerAudited`.** "All public methods write to
   audit_log unconditionally so every response action is traceable, even no-ops"
   (`block.py:24`, also `:46`). For an address already blocked, `block_ip` adds
   its `block_ip_noop` row and returns without a commit (`block.py:71`); `get_db`
   closes the session, and the row is gone. The unit tests use one session
   throughout and see the pending row.
2. **`BlockService_intact`, `IntactChainVerifies`.** "ok=True if the whole chain
   […] is intact" (`audit_chain.py:105`). `created_at` is read before the newest
   hash (`block.py:207-208`). If a request with a later `created_at` commits in
   between, the two entries are linked in one order and walked in the other:
   `verify_chain` reports a mismatch in a log that nobody edited and that is one
   unforked chain. The race the code documents (`audit_chain.py:71`) is the fork.
3. **`ThresholdEngine_offsets`, `AlertsSpanWindow`.** "ensure stable order by
   timestamp" (`engine.py:35`): the events are sorted by the text of `@timestamp`,
   which orders different UTC offsets by their local reading. An earlier instant
   met later has a negative age and stays, and the alert spans more than the
   rule's window. Agents choose the offset; ingest keeps it.
4. **`DetectionRunner_late`, `OnlyNearDuplicatesDropped`.** "don't create
   duplicate open alerts for same rule+ip within same ended_at minute"
   (`runner.py:60`): the query has a lower bound on `ended_at` and no upper one
   (`runner.py:67`), so a burst that arrives late is dropped for an open alert
   that ended long after it.

## 8 Observations

What the models show about the code, where the repository promises nothing else
or says so only loosely.

- Two overlapping blocks of one address both insert, and the address has two
  active rows (`OneBlockInForce` under `Serialised = FALSE`). A later unblock
  deactivates both.
- `unblock_ip` answers `unblocked` for an address whose block has run out
  (`block.py:117`): expired rows are still `is_active`. BlockRegistry says the
  same: a lease that has run out is held until it is released.
- A block committed while an unblock is under way may stay active although its
  entry stands before the unblock's; two overlapping unblocks list the same row.
- The engine's cooldown state lives for one run (`runner.py:37`); between runs
  only the duplicate query holds repeated alerts back, by ten minutes, where
  `docs/architecture.md:41` speaks of a per-rule cooldown.
- A mail is lost if the run dies between commit and notification, and the worker
  and `cli detect` running at once can both insert the same alert
  (`runner.py:91`): `NoDuplicateOpen` is checked for one runner, which is all the
  deployment starts, and `DuplicatesNeedARace` for both.
- A summary is generated again, and replaces the first, when two requests for it
  overlap, though `routers/alerts.py:89` says "Generate (once)" and
  `db/models/alert.py:42-44` "cached here permanently (no regeneration path)". The
  dashboard's timeout equals that of the LLM call, so repeating the click while
  the first request is still under way is easy.
- The triage form sends every column as its page had it: saving a status from a
  page opened before a colleague's note takes the note back
  (`src/apps/dashboard/dashboard/routes/alerts.py:82`). The backend has no
  version to compare.
- After a timeout the dashboard flashes a failure, and the update or the summary
  may be committed a moment later.
- An answer that comes after a logout or a login in the same browser brings back
  the session its request came in with, an admin's maybe: the session is permanent
  (`src/apps/dashboard/dashboard/routes/auth.py:28`), and Flask sends it with every
  response. Two gunicorn workers are enough.
- A block request can fail after its commit, in the reload of the row it stored
  (`services/response/block.py:99`): the caller sees an error and the block is there.
- A mail server that accepts the connection and says nothing stops the worker
  (`services/notifications/email.py:156` has no timeout), and with it all detection.
- A click may lead to no page: a handler may take longer than the 30 seconds after
  which gunicorn kills its worker (`src/apps/dashboard/Dockerfile:22`); what it asked
  the backend for is done all the same.
- Two threads in the limiter's loop can each pop, the one the old head and the
  other a hit of the current window, or find the deque empty and answer 500
  (`security/rate_limit.py:26-27`). The bound on what is let through counts this in.
- A summary lists the ten paths and statuses that most events have; the probe
  attack's many paths do not fit.
- A role lives as long as its cookie, up to eight hours, whatever happens to the
  account (`src/apps/dashboard/dashboard/auth.py:43`). Who pressed the button is
  not in the audit log: the dashboard sends the fixed actor `analyst`
  (`src/apps/dashboard/dashboard/routes/entities.py:89`).
- The range of an evidence bundle selects alerts by `created_at` and events by
  `event_timestamp`: an alert raised in the range for events before it is listed
  without them. The risk in the bundle knows of no range.
- Old alerts that are still open can add up to half a point or less, and the
  address is then labelled `none` (`RiskThresholds`).
- A simulation counts as fired any alert of the rule among the newest 200, those
  of earlier simulations and of other rules' attacks included, under the
  report's "fired … just now" (`services/simulation/report.py:4`); the attack
  for rule 006 also matches rule 001.
- A POST that is refused (429) or slow ends `simulate` without a report; what was
  stored by then stays, and is detected.
- PATCHes that overlap can leave the status of one and the notes of the other.
- A batch with an event that raises neither `ValueError` nor `IntegrityError` is
  answered with 500 on each attempt, the events behind it are never stored, and
  those before it are (`NothingBehindPoison`).
- The hash covers `@timestamp` with its offset: the same instant written with
  another offset is a different event.
- `settings.INGEST_RATE_LIMIT` (1000) is used nowhere; `auth/ingest_limits.py`
  fixes 200 per minute beside a comment that says 60. As there is one valid agent
  token, all agents share one deque.
- A rule that groups by two fields never fires (`engine.py:91`); no rule in
  `rules/` does.

## 9 Not modelled

- **The LLM's prompt** is text put together from an alert's columns; no state, and
  nothing else depends on it.
- **Rule files.** Reading YAML has no state. The rules are constants of the
  models; a file that cannot be read ends the run, which is `Crash`.
- **Migrations** are one-off; what the chain migration leaves behind, rows without
  hashes, is in `LegacyIds`.
- **Plumbing**: settings, logging, health, wiring.
- **Layout**: the files of an evidence bundle, the coverage report, the templates
  beyond their forms and links, what the CLI prints.
- **Equal creation times** of audit rows, and a clock that is set back (section 3):
  the order of ties is the database's.

`PROJECT.json` has the reason for each component.

## 10 Plan

What is modelled was modelled in the order of what is at stake: the response
service with its chain; detection, the platform's purpose; ingest, limiter and
triage, where requests meet; then the clients that compose them. Left, in order:

1. **Proofs.** Every invariant that a run checks has its theorem. Left are lemmas
   about the parts that other modules take for granted: that the dedupe hash of
   Normalizer separates what the unique index must keep apart, and which part of
   `RiskFollowsAlerts` does without the sum itself.
2. **Models.** Audit rows with equal `created_at`, the tie order being any; enough
   alerts in the Clients run for the score to reach its thresholds.

## 11 Running it

```
tlc -workers 2 -config BlockService_serial.cfg MCBlockService.tla
tlapm BlockService_proofs.tla
```

`PROJECT.json` lists the module and configuration of each run, the properties it
checks, the mutants, the source lines each definition models, the findings, the
hazards and the theorems.
