----------------------------- MODULE AuditChain -----------------------------
(***************************************************************************)
(* The hash chain kept over the audit_log table                            *)
(* (services/response/audit_chain.py), as operators on the committed log.  *)
(*                                                                         *)
(* A log is the sequence of audit_log rows in the order they were          *)
(* committed.  The code never sees that order: it reads the table          *)
(* ORDER BY created_at, so every operator below orders rows by             *)
(* payload.created.  Creation times are distinct (see README, "Clock").    *)
(*                                                                         *)
(* SHA-256 is taken to be injective: the digest of (prev, payload) is the  *)
(* sequence prev extended with payload.  NULL, and the '' that             *)
(* `prev_hash or ''` makes of it, is the empty sequence.                   *)
(***************************************************************************)
EXTENDS Naturals, Sequences

\* prev_hash / entry_hash IS NULL.
NoHash == << >>

\* compute_entry_hash over the canonical JSON of a row's fields.
Digest(prev, payload) == Append(prev, payload)

\* The rows that carry an entry_hash; the others predate the feature.
Chained(log) == {i \in DOMAIN log : log[i].hash # NoHash}

Created(log, i) == log[i].payload.created

\* The row of S that comes last in created_at order.
Newest(log, S) == CHOOSE i \in S : \A j \in S : Created(log, j) <= Created(log, i)

\* The row of S that comes first in created_at order.
Oldest(log, S) == CHOOSE i \in S : \A j \in S : Created(log, i) <= Created(log, j)

\* Mutant: the chain is continued from the oldest chained row (asc for desc).
GetLatestHashAsc(log) ==
    IF Chained(log) = {} THEN NoHash ELSE log[Oldest(log, Chained(log))].hash

\* get_latest_hash: the hash of the chained row created last.
GetLatestHash(log) ==
    IF Chained(log) = {} THEN NoHash ELSE log[Newest(log, Chained(log))].hash

\* Verification starts at the first row that carries a hash ("started").
Verified(log) ==
    {i \in DOMAIN log : \E k \in Chained(log) : Created(log, k) <= Created(log, i)}

\* expected_prev when the walk reaches row i: the hash of the verified row
\* created just before it, NULL at the first one.
ExpectedPrev(log, i) ==
    LET before == {j \in Verified(log) : Created(log, j) < Created(log, i)}
    IN  IF before = {} THEN NoHash ELSE log[Newest(log, before)].hash

\* Mutant: only the link is compared, never the recomputed hash.
MismatchLinkOnly(log, i) == log[i].prev # ExpectedPrev(log, i)

\* A row at which the walk stops.
Mismatch(log, i) ==
    \/ log[i].prev # ExpectedPrev(log, i)
    \/ Digest(log[i].prev, log[i].payload) # log[i].hash

\* verify_chain: the first mismatch in created_at order, or ok.
VerifyChain(log) ==
    LET bad == {i \in Verified(log) : Mismatch(log, i)} IN
    IF bad = {}
    THEN [ok |-> TRUE, invalid |-> {}, reason |-> "none"]
    ELSE LET first == Oldest(log, bad) IN
         [ok      |-> FALSE,
          invalid |-> {log[first].payload.id},
          reason  |-> IF log[first].prev # ExpectedPrev(log, first)
                      THEN "prev_hash_mismatch" ELSE "entry_hash_mismatch"]
=============================================================================
