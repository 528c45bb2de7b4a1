---------------------------- MODULE BlockService ----------------------------
(***************************************************************************)
(* The response service: POST /response/block, POST /response/unblock/{ip} *)
(* and the two tables they share, blocked_ips and audit_log                *)
(* (services/response/block.py, routers/response.py, deps.get_db).         *)
(*                                                                         *)
(* Every request runs in a thread and a database transaction of its own    *)
(* (READ COMMITTED): it reads committed rows at several points, and what   *)
(* it adds becomes visible at its commit, or never.  A request is here a   *)
(* small process with one action per database access; `req[r]` holds its   *)
(* input and the Python locals that outlive a step.                        *)
(***************************************************************************)
EXTENDS AuditChain, FiniteSets

CONSTANTS
    Requests,    \* the HTTP requests; a request's name also names the block
                 \* row and the audit row it creates (their uuid4 keys)
    IPs,         \* source addresses
    TTLs,        \* values of ttl_minutes, NoTTL among them when it is allowed
    LegacyIds,   \* audit rows written before the chain existed
    MaxClock,    \* bound on Tick
    Serialised   \* TRUE when the callers never have two requests in flight

ASSUME RequestsAssumption == Requests \cap LegacyIds = {}
ASSUME TTLsAssumption     == TTLs \subseteq Nat
ASSUME MaxClockAssumption == MaxClock \in Nat
ASSUME SerialisedAssumption == Serialised \in BOOLEAN

VARIABLES
    clock,    \* the database host's and the backend's common UTC clock
    blocks,   \* committed rows of blocked_ips
    audit,    \* committed rows of audit_log, in commit order
    req       \* the requests

vars == <<clock, blocks, audit, req>>

\* expires_at IS NULL; the code computes it whenever ttl_minutes is falsy.
NoTTL    == 0
NoExpiry == 0

Ops     == {"block", "unblock"}
PCs     == {"new", "find", "stamp", "link", "finish", "committed", "done", "failed"}
Notes   == {"none", "blocked", "already_blocked", "unblocked", "not_blocked"}
Actions == {"block_ip", "unblock_ip", "unblock_ip_noop"}

Calls == {c \in [op : Ops, ip : IPs, ttl : TTLs \cup {NoTTL}] :
              c.op = "unblock" => c.ttl = NoTTL}

BlockRows == [id : Requests, ip : IPs, expires : Nat, active : BOOLEAN]

Payloads == [id : Requests \cup LegacyIds, created : Nat, action : Actions,
             ip : IPs, blocks : SUBSET Requests]

AuditRows == [payload : Payloads, prev : Seq(Payloads), hash : Seq(Payloads)]

RequestStates ==
    [pc : PCs, call : Calls, now : Nat, found : SUBSET Requests,
     created : Nat, prev : Seq(Payloads), note : Notes]

-----------------------------------------------------------------------------
(* Queries *)

\* The row counts as a block at time t (_active_block's last two clauses).
InForce(b, t) == b.active /\ (b.expires = NoExpiry \/ b.expires > t)

\* The rows _active_block selects from; it returns any one of them.
ActiveBlocks(ip, t) == {b \in blocks : b.ip = ip /\ InForce(b, t)}

\* Mutant: only unexpired rows are deactivated.
AllActiveBlocksInForce(ip) ==
    {b \in blocks : b.ip = ip /\ b.active /\ (b.expires = NoExpiry \/ b.expires > clock)}

\* The rows _all_active_blocks returns, expired ones included.
AllActiveBlocks(ip) == {b \in blocks : b.ip = ip /\ b.active}

\* is_blocked / get_block_status: a read, it changes nothing.
IsBlocked(ip) == ActiveBlocks(ip, clock) # {}

-----------------------------------------------------------------------------
(* The requests *)

Goto(r, label) == req' = [req EXCEPT ![r].pc = label]

InFlight(r) == req[r].pc \notin {"new", "done", "failed"}

\* The router calls BlockService.  block_ip takes `now` first; unblock_ip
\* takes no time, `now` is then only when the request arrived.
Arrive(r) ==
    /\ req[r].pc = "new"
    /\ Serialised => \A q \in Requests : ~InFlight(q)
    /\ req' = [req EXCEPT ![r].pc = "find", ![r].now = clock]
    /\ UNCHANGED <<clock, blocks, audit>>

\* block_ip: existing = self._active_block(ip).
FindActive(r) ==
    /\ req[r].pc = "find" /\ req[r].call.op = "block"
    /\ LET rows == ActiveBlocks(req[r].call.ip, clock) IN
       \E found \in (IF rows = {} THEN {{}} ELSE {{b.id} : b \in rows}) :
          req' = [req EXCEPT ![r].pc = "stamp", ![r].found = found]
    /\ UNCHANGED <<clock, blocks, audit>>

\* unblock_ip: rows = self._all_active_blocks(ip).
FindAll(r) ==
    /\ req[r].pc = "find" /\ req[r].call.op = "unblock"
    /\ req' = [req EXCEPT
                 ![r].pc = "stamp",
                 ![r].found = {b.id : b \in AllActiveBlocks(req[r].call.ip)}]
    /\ UNCHANGED <<clock, blocks, audit>>

\* _write_audit: created_at = _now().  No two reads of the clock are equal.
Stamp(r) ==
    /\ req[r].pc = "stamp"
    /\ req' = [req EXCEPT ![r].pc = "link", ![r].created = clock]
    /\ clock' = clock + 1
    /\ UNCHANGED <<blocks, audit>>

\* _write_audit: prev_hash = get_latest_hash(self._db).
Link(r) ==
    /\ req[r].pc = "link"
    /\ req' = [req EXCEPT ![r].pc = "finish", ![r].prev = GetLatestHash(audit)]
    /\ UNCHANGED <<clock, blocks, audit>>

\* Mutant: prev_hash is stored but not fed to the digest.
AuditRowUnlinked(r, action, ids) ==
    LET payload == [id |-> r, created |-> req[r].created, action |-> action,
                    ip |-> req[r].call.ip, blocks |-> ids]
    IN  [payload |-> payload, prev |-> req[r].prev, hash |-> Digest(NoHash, payload)]

\* The row _write_audit adds to the session.
AuditRow(r, action, ids) ==
    LET payload == [id |-> r, created |-> req[r].created, action |-> action,
                    ip |-> req[r].call.ip, blocks |-> ids]
    IN  [payload |-> payload, prev |-> req[r].prev,
         hash |-> Digest(req[r].prev, payload)]

\* The row block_ip adds to the session.
BlockRow(r) ==
    [id |-> r, ip |-> req[r].call.ip, active |-> TRUE,
     expires |-> IF req[r].call.ttl = NoTTL THEN NoExpiry
                 ELSE req[r].now + req[r].call.ttl]

\* self._db.commit(): the rows are stored, the note is still to be returned.
Commit(r, note) ==
    /\ req' = [req EXCEPT ![r].pc = "committed", ![r].note = note]
    /\ UNCHANGED clock

\* Mutant: the commit is issued before _write_audit adds its row.
CommitBlockUnaudited(r) ==
    /\ req[r].pc = "finish" /\ req[r].call.op = "block" /\ req[r].found = {}
    /\ blocks' = blocks \cup {BlockRow(r)}
    /\ audit' = audit
    /\ Commit(r, "blocked")

\* Mutant: the existing block is not looked at.
CommitBlockAlways(r) ==
    /\ req[r].pc = "finish" /\ req[r].call.op = "block"
    /\ blocks' = blocks \cup {BlockRow(r)}
    /\ audit' = Append(audit, AuditRow(r, "block_ip", {r}))
    /\ Commit(r, "blocked")

\* block_ip on a free address: both rows are committed together.
CommitBlock(r) ==
    /\ req[r].pc = "finish" /\ req[r].call.op = "block" /\ req[r].found = {}
    /\ blocks' = blocks \cup {BlockRow(r)}
    /\ audit' = Append(audit, AuditRow(r, "block_ip", {r}))
    /\ Commit(r, "blocked")

\* block_ip on a blocked address: it returns with its block_ip_noop row
\* pending, and get_db closes the session, which rolls the row back.
ReturnAlreadyBlocked(r) ==
    /\ req[r].pc = "finish" /\ req[r].call.op = "block" /\ req[r].found # {}
    /\ req' = [req EXCEPT ![r].pc = "done", ![r].note = "already_blocked"]
    /\ UNCHANGED <<clock, blocks, audit>>

\* unblock_ip with nothing to deactivate.
CommitUnblockNoop(r) ==
    /\ req[r].pc = "finish" /\ req[r].call.op = "unblock" /\ req[r].found = {}
    /\ audit' = Append(audit, AuditRow(r, "unblock_ip_noop", {}))
    /\ Commit(r, "not_blocked")
    /\ UNCHANGED blocks

\* Mutant: rows are deactivated by inserting inactive copies of them.
DeactivatedCopies(ids) ==
    blocks \cup {[b EXCEPT !.active = FALSE] : b \in {c \in blocks : c.id \in ids}}

\* Mutant: the loop stops after the first of the rows it read.
DeactivatedFirst(ids) ==
    LET one == CHOOSE i \in ids : TRUE
    IN  {IF b.id = one THEN [b EXCEPT !.active = FALSE] ELSE b : b \in blocks}

\* The UPDATE of the rows read by FindAll.
Deactivated(ids) ==
    {IF b.id \in ids THEN [b EXCEPT !.active = FALSE] ELSE b : b \in blocks}

\* unblock_ip: every row it read is deactivated, whoever changed it meanwhile.
CommitUnblock(r) ==
    /\ req[r].pc = "finish" /\ req[r].call.op = "unblock" /\ req[r].found # {}
    /\ blocks' = Deactivated(req[r].found)
    /\ audit' = Append(audit, AuditRow(r, "unblock_ip", req[r].found))
    /\ Commit(r, "unblocked")

\* The answer to a request that has committed: block_ip first reads the row
\* it stored again, since the commit expired its attributes.
Return(r) ==
    /\ req[r].pc = "committed"
    /\ Goto(r, "done")
    /\ UNCHANGED <<clock, blocks, audit>>

\* Mutant: the block row flushed for its key survives a failed request.
FailAfterFlush(r) ==
    /\ InFlight(r)
    /\ blocks' = IF req[r].pc \in {"link", "finish"} /\ req[r].call.op = "block"
                    /\ req[r].found = {}
                 THEN blocks \cup {BlockRow(r)} ELSE blocks
    /\ Goto(r, "failed")
    /\ UNCHANGED <<clock, audit>>

\* The process dies, or a statement raises.  Before the commit, get_db closes
\* the session and the transaction is rolled back; after it (the query of
\* _block_to_dict, say) what was committed stays, and the caller sees an error.
Fail(r) ==
    /\ InFlight(r)
    /\ Goto(r, "failed")
    /\ UNCHANGED <<clock, blocks, audit>>

Tick ==
    /\ clock < MaxClock
    /\ clock' = clock + 1
    /\ UNCHANGED <<blocks, audit, req>>

-----------------------------------------------------------------------------
LegacyRow(l, ip) ==
    [payload |-> [id |-> l, created |-> 0, action |-> "unblock_ip_noop",
                  ip |-> ip, blocks |-> {}],
     prev |-> NoHash, hash |-> NoHash]

Fresh(c) == [pc |-> "new", call |-> c, now |-> 0, found |-> {},
             created |-> 0, prev |-> NoHash, note |-> "none"]

Init ==
    /\ clock = 1
    /\ blocks = {}
    /\ audit \in {<< >>} \cup {<<LegacyRow(l, ip)>> : l \in LegacyIds, ip \in IPs}
    /\ req \in [Requests -> {Fresh(c) : c \in Calls}]

Next ==
    \/ Tick
    \/ \E r \in Requests :
          \/ Arrive(r)
          \/ FindActive(r)
          \/ FindAll(r)
          \/ Stamp(r)
          \/ Link(r)
          \/ CommitBlock(r)
          \/ ReturnAlreadyBlocked(r)
          \/ CommitUnblockNoop(r)
          \/ CommitUnblock(r)
          \/ Return(r)
          \/ Fail(r)

Spec == Init /\ [][Next]_vars

-----------------------------------------------------------------------------
(* Properties *)

\* Every variable keeps its type: rows carry the columns of their table, and
\* no two rows of blocked_ips share a key.
TypeOK ==
    /\ clock \in Nat
    /\ blocks \subseteq BlockRows
    /\ \A b, c \in blocks : b.id = c.id => b = c
    /\ audit \in Seq(AuditRows)
    /\ req \in [Requests -> RequestStates]

Entries(action) == {i \in DOMAIN audit : audit[i].payload.action = action}

\* blocked_ips is what the audit log says it is: a row exists exactly when a
\* block_ip entry announces it, and it is inactive exactly when an unblock_ip
\* entry lists it, whatever the requests' interleaving and failures.
RegistryMatchesAudit ==
    /\ \A r \in Requests :
          (\E b \in blocks : b.id = r) <=>
          (\E i \in Entries("block_ip") : audit[i].payload.blocks = {r})
    /\ \A b \in blocks :
          ~b.active <=> \E i \in Entries("unblock_ip") : b.id \in audit[i].payload.blocks

\* An answer that reports a change has its rows in the tables for good; a
\* block request has left both its rows or neither, also when it failed, and
\* one that has not come to its commit has left nothing.
AnswersAreCommitted ==
    \A r \in Requests :
        LET logged == \E i \in DOMAIN audit : audit[i].payload.id = r
            stored == \E b \in blocks : b.id = r
        IN  /\ req[r].pc = "done" =>
                  /\ req[r].note \in {"blocked", "unblocked", "not_blocked"} => logged
                  /\ req[r].note = "blocked" => stored
            /\ stored <=> logged /\ req[r].call.op = "block"
            /\ logged => req[r].pc \in {"committed", "done", "failed"}

\* Concurrent requests may fork the chain but never detach from it: every
\* chained entry extends, by a digest of its own fields, either nothing or an
\* entry committed before it.
ChainIsRooted ==
    \A i \in Chained(audit) :
        /\ audit[i].hash = Digest(audit[i].prev, audit[i].payload)
        /\ \/ audit[i].prev = NoHash
           \/ \E j \in Chained(audit) : j < i /\ audit[j].hash = audit[i].prev

\* Requests that do not overlap leave a log that verify_chain accepts.
ChainVerifies == VerifyChain(audit).ok

\* Requests that do not overlap never put two blocks of one address in force.
OneBlockInForce == \A ip \in IPs : Cardinality(ActiveBlocks(ip, clock)) <= 1

\* Once an unblock of an address is in the log, no block logged before it is
\* active, the expired ones included (unblock_ip's "all active blocks").
UnblockCoversEarlierBlocks ==
    \A i \in Entries("unblock_ip") \cup Entries("unblock_ip_noop"), j \in Entries("block_ip") :
        j < i /\ audit[j].payload.ip = audit[i].payload.ip
            => \A b \in blocks : b.id = audit[j].payload.id => ~b.active

-----------------------------------------------------------------------------
(* What the repository says and the code does not do (README, "Findings") *)

\* "All public methods write to audit_log unconditionally [...] even no-ops"
\* (block.py:24): every answered call has its entry.
EveryAnswerAudited ==
    \A r \in Requests :
        req[r].pc = "done" => \E i \in DOMAIN audit : audit[i].payload.id = r

\* No two entries extend the same hash: the race that get_latest_hash
\* documents has not happened.
Unforked ==
    \A i, j \in Chained(audit) : audit[i].prev = audit[j].prev => i = j

\* "ok=True if the whole chain [...] is intact" (audit_chain.py:105): a log
\* that nobody edited and whose entries form one chain is accepted.
IntactChainVerifies == Unforked => VerifyChain(audit).ok
=============================================================================
