------------------------- MODULE BlockService_proofs -------------------------
(***************************************************************************)
(* Theorems about BlockService, for every set of requests, addresses and   *)
(* ttls, every clock bound and any number of committed rows: first those   *)
(* that hold whatever requests overlap; then, from OneAtATime on, those of *)
(* requests that do not overlap, up to the refinement of BlockRegistry.    *)
(***************************************************************************)
EXTENDS BlockServiceRefinement, AuditTampering, OrderLemmas, SequenceTheorems

-----------------------------------------------------------------------------
(* The newest row of a log *)

\* Newest returns a row that no row of the set is younger than.
LEMMA NewestIsNewest ==
    ASSUME NEW log \in Seq(AuditRows), NEW S \in SUBSET DOMAIN log, S # {},
           NEW bound \in Nat, \A i \in S : Created(log, i) <= bound
    PROVE  /\ Newest(log, S) \in S
           /\ \A j \in S : Created(log, j) <= Created(log, Newest(log, S))
<1> DEFINE Times == {Created(log, i) : i \in S}
<1>1. \A i \in S : Created(log, i) \in Nat
  <2> SUFFICES ASSUME NEW i \in S
               PROVE  log[i].payload.created \in Nat
    BY DEF Created
  <2>1. log[i] \in AuditRows
    OBVIOUS
  <2>2. QED
    BY <2>1 DEF AuditRows, Payloads
<1>2. Times \in SUBSET Nat /\ Times # {} /\ \A t \in Times : t <= bound
  BY <1>1
<1>3. PICK t \in Times : \A u \in Times : u <= t
  <2> HIDE DEF Times
  <2>1. Times \in SUBSET Int /\ bound \in Int
    BY <1>2
  <2>2. QED
    BY <1>2, <2>1, GreatestInteger
<1>4. \E i \in S : \A j \in S : Created(log, j) <= Created(log, i)
  BY <1>3
<1>5. QED
  BY <1>4 DEF Newest

\* The hash a new row is chained onto is a hash, or NULL.
LEMMA LatestHashType ==
    ASSUME NEW log \in Seq(AuditRows),
           NEW bound \in Nat, \A i \in DOMAIN log : Created(log, i) <= bound
    PROVE  /\ GetLatestHash(log) \in Seq(Payloads)
           /\ \/ GetLatestHash(log) = NoHash
              \/ \E j \in Chained(log) : log[j].hash = GetLatestHash(log)
<1>1. CASE Chained(log) = {}
  BY <1>1, EmptySeq DEF GetLatestHash, NoHash
<1>2. CASE Chained(log) # {}
  <2>1. Newest(log, Chained(log)) \in Chained(log)
    BY <1>2, NewestIsNewest DEF Chained
  <2>2. ASSUME NEW i \in DOMAIN log
        PROVE  log[i].hash \in Seq(Payloads)
    <3>1. log[i] \in AuditRows
      OBVIOUS
    <3>2. QED
      BY <3>1 DEF AuditRows
  <2>3. QED
    BY <1>2, <2>1, <2>2 DEF GetLatestHash, Chained
<1>3. QED
  BY <1>1, <1>2

-----------------------------------------------------------------------------
(* Types, keys and clock *)

\* An entry is created before it is committed, and the clock has moved on.
Clocked ==
    /\ \A i \in DOMAIN audit : Created(audit, i) < clock
    /\ \A r \in Requests : req[r].pc \in {"link", "finish"} => req[r].created < clock

\* The labels of a request that is past its commit, or will never come to it.
Settled == {"committed", "done", "failed"}

\* A block row belongs to a request that has committed.
RowsCommitted == \A b \in blocks : req[b.id].pc \in Settled

TypeInv == TypeOK /\ Clocked /\ RowsCommitted

\* The row a commit adds is an audit row, and younger than the clock.
LEMMA AuditRowType ==
    ASSUME TypeInv, NEW r \in Requests, req[r].pc = "finish",
           NEW action \in Actions, NEW ids \in SUBSET Requests
    PROVE  /\ AuditRow(r, action, ids) \in AuditRows
           /\ AuditRow(r, action, ids).payload.created < clock
<1> DEFINE payload == [id |-> r, created |-> req[r].created, action |-> action,
                       ip |-> req[r].call.ip, blocks |-> ids]
<1>1. req[r] \in RequestStates
  BY DEF TypeInv, TypeOK
<1>2. payload \in Payloads
  BY <1>1 DEF RequestStates, Calls, Payloads
<1>3. req[r].prev \in Seq(Payloads) /\ Append(req[r].prev, payload) \in Seq(Payloads)
  <2> HIDE DEF payload
  <2> QED
    BY <1>1, <1>2 DEF RequestStates
<1>4. AuditRow(r, action, ids) = [payload |-> payload, prev |-> req[r].prev,
                                  hash |-> Append(req[r].prev, payload)]
  BY DEF AuditRow, Digest
<1>5. payload.created < clock
  BY DEF TypeInv, Clocked
<1>6. QED
  <2> HIDE DEF payload
  <2> QED
    BY <1>2, <1>3, <1>4, <1>5 DEF AuditRows

\* The rows of the initial log are audit rows created before the clock starts.
LEMMA TypeInit == Init => TypeInv
<1> SUFFICES ASSUME Init
             PROVE  TypeInv
  OBVIOUS
<1>1. \A c \in Calls : Fresh(c) \in RequestStates
  BY EmptySeq DEF Fresh, RequestStates, NoHash, PCs, Notes
<1>2. req \in [Requests -> RequestStates] /\ \A r \in Requests : req[r].pc = "new"
  <2>1. ASSUME NEW r \in Requests
        PROVE  req[r] \in RequestStates /\ req[r].pc = "new"
    <3>1. PICK c \in Calls : req[r] = Fresh(c)
      BY DEF Init
    <3>2. req[r] \in RequestStates
      BY <1>1, <3>1
    <3>3. req[r].pc = "new"
      BY <3>1 DEF Fresh
    <3>4. QED
      BY <3>2, <3>3
  <2>2. QED
    BY <2>1 DEF Init
<1>3. \A l \in LegacyIds, ip \in IPs :
         LegacyRow(l, ip) \in AuditRows /\ LegacyRow(l, ip).payload.created = 0
  BY EmptySeq DEF LegacyRow, AuditRows, Payloads, Actions, NoHash
<1>4. audit \in Seq(AuditRows) /\ \A i \in DOMAIN audit : Created(audit, i) = 0
  <2>1. CASE audit = << >>
    BY <2>1
  <2>2. CASE audit # << >>
    <3>1. PICK l \in LegacyIds, ip \in IPs : audit = <<LegacyRow(l, ip)>>
      BY <2>2 DEF Init
    <3>2. DOMAIN audit = {1} /\ audit[1] = LegacyRow(l, ip)
      BY <3>1
    <3>3. QED
      BY <1>3, <3>1, <3>2 DEF Created
  <2>3. QED
    BY <2>1, <2>2
<1>5. clock = 1 /\ blocks = {}
  BY DEF Init
<1>6. QED
  BY <1>2, <1>4, <1>5 DEF TypeInv, TypeOK, Clocked, RowsCommitted

\* Writing one request's record changes that request only.
LEMMA Rewritten ==
    ASSUME TypeInv, NEW r \in Requests, NEW s \in RequestStates,
           req' = [req EXCEPT ![r] = s]
    PROVE  /\ req' \in [Requests -> RequestStates]
           /\ req'[r] = s
           /\ \A q \in Requests : q # r => req'[q] = req[q]
BY DEF TypeInv, TypeOK

\* The keys of stored rows are requests, and so is a request's own row's key.
LEMMA KeysAreRequests ==
    ASSUME TypeInv
    PROVE  /\ \A b \in blocks : b.id \in Requests /\ b \in BlockRows
           /\ \A i \in DOMAIN audit : audit[i] \in AuditRows /\ Created(audit, i) \in Nat
<1>1. ASSUME NEW i \in DOMAIN audit
      PROVE  audit[i] \in AuditRows /\ Created(audit, i) \in Nat
  <2>1. audit[i] \in AuditRows
    BY DEF TypeInv, TypeOK
  <2>2. QED
    BY <2>1 DEF Created, AuditRows, Payloads
<1>2. QED
  BY <1>1 DEF TypeInv, TypeOK, BlockRows

\* The row block_ip adds is a row of its table, active and keyed by its request.
LEMMA BlockRowType ==
    ASSUME TypeInv, NEW r \in Requests
    PROVE  BlockRow(r) \in BlockRows /\ BlockRow(r).id = r /\ BlockRow(r).active
<1> DEFINE expires == IF req[r].call.ttl = NoTTL THEN NoExpiry
                      ELSE req[r].now + req[r].call.ttl
<1>1. req[r].now \in Nat /\ req[r].call \in Calls
  BY DEF TypeInv, TypeOK, RequestStates
<1>2. req[r].call.ip \in IPs /\ req[r].call.ttl \in TTLs \cup {NoTTL}
  BY <1>1 DEF Calls
<1>3. req[r].call.ttl \in Nat
  <2>1. NoTTL \in Nat
    BY DEF NoTTL
  <2>2. \A ttl \in TTLs : ttl \in Nat
    BY TTLsAssumption, Zenon
  <2>3. QED
    BY <1>2, <2>1, <2>2, Zenon
<1>4. expires \in Nat
  BY <1>1, <1>3 DEF NoExpiry
<1>5. BlockRow(r) = [id |-> r, ip |-> req[r].call.ip, active |-> TRUE,
                     expires |-> expires]
  BY DEF BlockRow
<1> HIDE DEF expires
<1>6. QED
  BY <1>2, <1>4, <1>5 DEF BlockRows

\* A step of one request that stores nothing keeps TypeInv.
LEMMA QuietStep ==
    ASSUME TypeInv, NEW r \in Requests, NEW s \in RequestStates,
           req' = [req EXCEPT ![r] = s], req[r].pc \in Settled => s.pc \in Settled,
           blocks' = blocks, audit' = audit, clock' \in {clock, clock + 1},
           s.pc \in {"link", "finish"} => s.created < clock'
    PROVE  TypeInv'
<1>1. clock \in Nat /\ clock' \in Nat /\ clock <= clock'
  BY DEF TypeInv, TypeOK
<1>2. req' \in [Requests -> RequestStates] /\ req'[r] = s
      /\ \A q \in Requests : q # r => req'[q] = req[q]
  BY Rewritten
<1>3. TypeOK'
  BY <1>1, <1>2 DEF TypeInv, TypeOK
<1>4. \A i \in DOMAIN audit : Created(audit, i)' < clock'
  <2> SUFFICES ASSUME NEW i \in DOMAIN audit
               PROVE  Created(audit, i)' < clock'
    OBVIOUS
  <2>1. Created(audit, i)' = Created(audit, i)
    BY DEF Created
  <2>2. Created(audit, i) \in Nat /\ Created(audit, i) < clock
    BY KeysAreRequests DEF TypeInv, Clocked
  <2>3. QED
    BY <1>1, <2>1, <2>2
<1>5. ASSUME NEW q \in Requests, req'[q].pc \in {"link", "finish"}
      PROVE  req'[q].created < clock'
  <2>1. CASE q = r
    BY <1>2, <1>5, <2>1
  <2>2. CASE q # r
    <3>1. req[q].created \in Nat /\ req[q].created < clock
      BY <1>2, <1>5, <2>2 DEF TypeInv, TypeOK, RequestStates, Clocked
    <3>2. QED
      BY <1>1, <1>2, <2>2, <3>1
  <2>3. QED
    BY <2>1, <2>2
<1>6. Clocked'
  BY <1>4, <1>5 DEF Clocked
<1>7. RowsCommitted'
  BY <1>2, KeysAreRequests DEF TypeInv, RowsCommitted
<1>8. QED
  BY <1>3, <1>6, <1>7 DEF TypeInv

\* Deactivation keeps the rows, their keys and every column but `active`.
LEMMA DeactivatedRows ==
    ASSUME TypeInv, NEW ids \in SUBSET Requests
    PROVE  /\ Deactivated(ids) \subseteq BlockRows
           /\ \A b, c \in Deactivated(ids) : b.id = c.id => b = c
           /\ \A b \in Deactivated(ids) : \E c \in blocks : c.id = b.id
           /\ \A c \in blocks : \E b \in Deactivated(ids) : b.id = c.id
           /\ \A b \in Deactivated(ids), c \in blocks :
                 b.id = c.id => (b.active <=> c.active /\ b.id \notin ids)
<1> DEFINE Update(b) == IF b.id \in ids THEN [b EXCEPT !.active = FALSE] ELSE b
<1>1. ASSUME NEW b \in blocks
      PROVE  /\ Update(b) \in BlockRows /\ Update(b).id = b.id
             /\ Update(b).active <=> b.active /\ b.id \notin ids
  <2>1. b \in BlockRows
    BY KeysAreRequests
  <2>2. CASE b.id \in ids
    BY <2>1, <2>2 DEF BlockRows
  <2>3. CASE b.id \notin ids
    BY <2>1, <2>3
  <2>4. QED
    BY <2>2, <2>3
<1>2. Deactivated(ids) = {Update(b) : b \in blocks}
  BY DEF Deactivated
<1>3. \A b, c \in blocks : b.id = c.id => b = c
  BY DEF TypeInv, TypeOK
<1> HIDE DEF Update
<1>4. QED
  BY <1>1, <1>2, <1>3

\* A commit that appends one audit row and answers the request keeps TypeInv,
\* provided the block rows it leaves are rows of known keys.
LEMMA CommitStep ==
    ASSUME TypeInv, NEW r \in Requests, NEW note \in Notes,
           NEW action \in Actions, NEW ids \in SUBSET Requests,
           req[r].pc = "finish", Commit(r, note),
           audit' = Append(audit, AuditRow(r, action, ids)),
           blocks' \subseteq BlockRows,
           \A b, c \in blocks' : b.id = c.id => b = c,
           \A b \in blocks' : b.id = r \/ \E c \in blocks : c.id = b.id
    PROVE  TypeInv'
<1> DEFINE row == AuditRow(r, action, ids)
<1> DEFINE s == [req[r] EXCEPT !.pc = "committed", !.note = note]
<1>1. row \in AuditRows /\ row.payload.created < clock
  BY AuditRowType
<1> HIDE DEF row
<1>2. s \in RequestStates /\ s.pc = "committed"
  <2>1. req[r] \in RequestStates
    BY DEF TypeInv, TypeOK
  <2>2. QED
    BY <2>1 DEF RequestStates, PCs
<1>3. req' = [req EXCEPT ![r] = s] /\ clock' = clock
  BY DEF Commit
<1> HIDE DEF s
<1>4. req' \in [Requests -> RequestStates] /\ req'[r] = s
      /\ \A q \in Requests : q # r => req'[q] = req[q]
  BY <1>2, <1>3, Rewritten
<1>5. audit \in Seq(AuditRows) /\ audit' = Append(audit, row)
  BY DEF TypeInv, TypeOK, row
<1>6. TypeOK'
  BY <1>1, <1>3, <1>4, <1>5 DEF TypeInv, TypeOK
<1>7. ASSUME NEW i \in DOMAIN audit'
      PROVE  audit'[i].payload.created < clock
  <2>1. CASE i \in DOMAIN audit
    BY <1>1, <1>5, <2>1 DEF TypeInv, Clocked, Created
  <2>2. CASE i = Len(audit) + 1
    BY <1>1, <1>5, <2>2
  <2>3. QED
    BY <1>1, <1>5, <2>1, <2>2
<1>8. Clocked'
  <2>1. \A q \in Requests : req'[q].pc \in {"link", "finish"} => req'[q].created < clock'
    BY <1>2, <1>3, <1>4 DEF TypeInv, Clocked
  <2>2. QED
    BY <1>3, <1>7, <2>1 DEF Clocked, Created
<1>9. RowsCommitted'
  <2> SUFFICES ASSUME NEW b \in blocks'
               PROVE  req'[b.id].pc \in Settled
    BY DEF RowsCommitted
  <2>1. CASE b.id = r
    BY <1>2, <1>4, <2>1 DEF Settled
  <2>2. CASE b.id # r
    <3>1. PICK c \in blocks : c.id = b.id
      BY <2>2
    <3>2. req[b.id].pc \in Settled /\ b.id \in Requests
      BY <3>1, KeysAreRequests DEF TypeInv, RowsCommitted
    <3>3. QED
      BY <1>4, <2>2, <3>2
  <2>3. QED
    BY <2>1, <2>2
<1>10. QED
  BY <1>6, <1>8, <1>9 DEF TypeInv

\* The audit rows' times are at most the clock, as LatestHashType wants it.
LEMMA LatestHashNow ==
    ASSUME TypeInv
    PROVE  /\ GetLatestHash(audit) \in Seq(Payloads)
           /\ \/ GetLatestHash(audit) = NoHash
              \/ \E j \in Chained(audit) : audit[j].hash = GetLatestHash(audit)
<1>1. audit \in Seq(AuditRows) /\ clock \in Nat
  BY DEF TypeInv, TypeOK
<1>2. ASSUME NEW i \in DOMAIN audit
      PROVE  Created(audit, i) <= clock
  <2>1. Created(audit, i) \in Nat /\ Created(audit, i) < clock
    BY KeysAreRequests DEF TypeInv, Clocked
  <2>2. QED
    BY <1>1, <2>1
<1>3. QED
  BY <1>1, <1>2, LatestHashType

\* Every step keeps the types, the keys and the clock's lead over the entries.
LEMMA TypeStep == TypeInv /\ [Next]_vars => TypeInv'
<1> SUFFICES ASSUME TypeInv, [Next]_vars
             PROVE  TypeInv'
  OBVIOUS
<1>1. CASE Tick
  <2>1. clock \in Nat /\ clock' \in Nat /\ clock < clock'
    BY <1>1 DEF Tick, TypeInv, TypeOK
  <2>2. \A i \in DOMAIN audit : Created(audit, i) < clock'
    BY <2>1, KeysAreRequests DEF TypeInv, Clocked
  <2>3. ASSUME NEW q \in Requests, req[q].pc \in {"link", "finish"}
        PROVE  req[q].created < clock'
    BY <2>1, <2>3 DEF TypeInv, TypeOK, RequestStates, Clocked
  <2>4. audit' = audit /\ req' = req /\ blocks' = blocks
    BY <1>1 DEF Tick
  <2>5. TypeOK' /\ RowsCommitted'
    BY <2>1, <2>4 DEF TypeInv, TypeOK, RowsCommitted
  <2>6. Clocked'
    BY <2>2, <2>3, <2>4 DEF Clocked, Created
  <2>7. QED
    BY <2>5, <2>6 DEF TypeInv
<1>2. ASSUME NEW r \in Requests, Arrive(r)
      PROVE  TypeInv'
  <2> DEFINE s == [req[r] EXCEPT !.pc = "find", !.now = clock]
  <2>1. req[r] \in RequestStates /\ clock \in Nat
    BY DEF TypeInv, TypeOK
  <2>2. s \in RequestStates /\ s.pc = "find"
    BY <2>1 DEF RequestStates, PCs
  <2>3. req' = [req EXCEPT ![r] = s] /\ req[r].pc = "new"
    BY <1>2 DEF Arrive
  <2>4. QED
    BY <1>2, <2>2, <2>3, QuietStep DEF Arrive, Settled
<1>3. ASSUME NEW r \in Requests, FindActive(r)
      PROVE  TypeInv'
  <2>1. PICK found \in SUBSET Requests :
           req' = [req EXCEPT ![r].pc = "stamp", ![r].found = found]
    <3> DEFINE rows == ActiveBlocks(req[r].call.ip, clock)
    <3>1. PICK found \in (IF rows = {} THEN {{}} ELSE {{b.id} : b \in rows}) :
             req' = [req EXCEPT ![r].pc = "stamp", ![r].found = found]
      BY <1>3 DEF FindActive
    <3>2. \A b \in rows : b.id \in Requests
      BY KeysAreRequests DEF ActiveBlocks
    <3> HIDE DEF rows
    <3>3. found \in SUBSET Requests
      BY <3>1, <3>2
    <3>4. QED
      BY <3>1, <3>3
  <2> DEFINE s == [req[r] EXCEPT !.pc = "stamp", !.found = found]
  <2>2. req[r] \in RequestStates
    BY DEF TypeInv, TypeOK
  <2>3. s \in RequestStates /\ s.pc = "stamp"
    BY <2>2 DEF RequestStates, PCs
  <2>4. req' = [req EXCEPT ![r] = s] /\ req[r].pc = "find"
    BY <1>3, <2>1 DEF FindActive
  <2>5. QED
    BY <1>3, <2>3, <2>4, QuietStep DEF FindActive, Settled
<1>4. ASSUME NEW r \in Requests, FindAll(r)
      PROVE  TypeInv'
  <2> DEFINE found == {b.id : b \in AllActiveBlocks(req[r].call.ip)}
  <2> DEFINE s == [req[r] EXCEPT !.pc = "stamp", !.found = found]
  <2>1. found \in SUBSET Requests
    BY KeysAreRequests DEF AllActiveBlocks
  <2>2. req' = [req EXCEPT ![r] = s] /\ req[r].pc = "find"
    BY <1>4 DEF FindAll
  <2> HIDE DEF found
  <2>3. req[r] \in RequestStates
    BY DEF TypeInv, TypeOK
  <2>4. s \in RequestStates /\ s.pc = "stamp"
    BY <2>1, <2>3 DEF RequestStates, PCs
  <2>5. QED
    BY <1>4, <2>2, <2>4, QuietStep DEF FindAll, Settled
<1>5. ASSUME NEW r \in Requests, Stamp(r)
      PROVE  TypeInv'
  <2> DEFINE s == [req[r] EXCEPT !.pc = "link", !.created = clock]
  <2>1. req[r] \in RequestStates /\ clock \in Nat
    BY DEF TypeInv, TypeOK
  <2>2. s \in RequestStates /\ s.pc = "link" /\ s.created = clock
    BY <2>1 DEF RequestStates, PCs
  <2>3. req' = [req EXCEPT ![r] = s] /\ req[r].pc = "stamp" /\ clock' = clock + 1
    BY <1>5 DEF Stamp
  <2>4. s.created < clock'
    BY <2>1, <2>2, <2>3
  <2>5. QED
    BY <1>5, <2>2, <2>3, <2>4, QuietStep DEF Stamp, Settled
<1>6. ASSUME NEW r \in Requests, Link(r)
      PROVE  TypeInv'
  <2> DEFINE s == [req[r] EXCEPT !.pc = "finish", !.prev = GetLatestHash(audit)]
  <2>1. req[r] \in RequestStates /\ GetLatestHash(audit) \in Seq(Payloads)
    BY LatestHashNow DEF TypeInv, TypeOK
  <2>2. s \in RequestStates /\ s.pc = "finish" /\ s.created = req[r].created
    BY <2>1 DEF RequestStates, PCs
  <2>3. req' = [req EXCEPT ![r] = s] /\ req[r].pc = "link" /\ req[r].created < clock
    BY <1>6 DEF Link, TypeInv, Clocked
  <2>4. QED
    BY <1>6, <2>2, <2>3, QuietStep DEF Link, Settled
<1>7. ASSUME NEW r \in Requests, CommitBlock(r)
      PROVE  TypeInv'
  <2>1. \A b \in blocks : b.id # r
    BY <1>7 DEF CommitBlock, TypeInv, RowsCommitted, Settled
  <2>2. BlockRow(r) \in BlockRows /\ BlockRow(r).id = r
    BY BlockRowType
  <2>3. blocks' = blocks \cup {BlockRow(r)}
    BY <1>7 DEF CommitBlock
  <2>4. blocks' \subseteq BlockRows /\ \A b, c \in blocks' : b.id = c.id => b = c
    BY <2>1, <2>2, <2>3 DEF TypeInv, TypeOK
  <2>5. \A b \in blocks' : b.id = r \/ \E c \in blocks : c.id = b.id
    BY <2>2, <2>3
  <2>6. "block_ip" \in Actions /\ "blocked" \in Notes /\ {r} \in SUBSET Requests
    BY DEF Actions, Notes
  <2>7. QED
    BY <1>7, <2>4, <2>5, <2>6, CommitStep DEF CommitBlock
<1>8. ASSUME NEW r \in Requests, ReturnAlreadyBlocked(r)
      PROVE  TypeInv'
  <2> DEFINE s == [req[r] EXCEPT !.pc = "done", !.note = "already_blocked"]
  <2>1. req[r] \in RequestStates
    BY DEF TypeInv, TypeOK
  <2>2. s \in RequestStates /\ s.pc = "done"
    BY <2>1 DEF RequestStates, PCs, Notes
  <2>3. req' = [req EXCEPT ![r] = s] /\ req[r].pc = "finish"
    BY <1>8 DEF ReturnAlreadyBlocked
  <2>4. QED
    BY <1>8, <2>2, <2>3, QuietStep DEF ReturnAlreadyBlocked, Settled
<1>9. ASSUME NEW r \in Requests, CommitUnblockNoop(r)
      PROVE  TypeInv'
  <2>1. "unblock_ip_noop" \in Actions /\ "not_blocked" \in Notes /\ {} \in SUBSET Requests
    BY DEF Actions, Notes
  <2>2. blocks' = blocks
    BY <1>9 DEF CommitUnblockNoop
  <2>3. blocks' \subseteq BlockRows /\ \A b, c \in blocks' : b.id = c.id => b = c
    BY <2>2 DEF TypeInv, TypeOK
  <2>4. QED
    BY <1>9, <2>1, <2>2, <2>3, CommitStep DEF CommitUnblockNoop
<1>10. ASSUME NEW r \in Requests, CommitUnblock(r)
       PROVE  TypeInv'
  <2>1. "unblock_ip" \in Actions /\ "unblocked" \in Notes
        /\ req[r].found \in SUBSET Requests
    BY DEF Actions, Notes, TypeInv, TypeOK, RequestStates
  <2>2. blocks' = Deactivated(req[r].found)
    BY <1>10 DEF CommitUnblock
  <2>3. /\ blocks' \subseteq BlockRows
        /\ \A b, c \in blocks' : b.id = c.id => b = c
        /\ \A b \in blocks' : \E c \in blocks : c.id = b.id
    BY <2>1, <2>2, DeactivatedRows
  <2>4. QED
    BY <1>10, <2>1, <2>3, CommitStep DEF CommitUnblock
<1>11. ASSUME NEW r \in Requests, Fail(r)
       PROVE  TypeInv'
  <2> DEFINE s == [req[r] EXCEPT !.pc = "failed"]
  <2>1. req[r] \in RequestStates
    BY DEF TypeInv, TypeOK
  <2>2. s \in RequestStates /\ s.pc = "failed"
    BY <2>1 DEF RequestStates, PCs
  <2>3. req' = [req EXCEPT ![r] = s]
    BY <1>11 DEF Fail, Goto
  <2>4. QED
    BY <1>11, <2>2, <2>3, QuietStep DEF Fail, Settled
<1>12. ASSUME NEW r \in Requests, Return(r)
       PROVE  TypeInv'
  <2> DEFINE s == [req[r] EXCEPT !.pc = "done"]
  <2>1. req[r] \in RequestStates
    BY DEF TypeInv, TypeOK
  <2>2. s \in RequestStates /\ s.pc = "done"
    BY <2>1 DEF RequestStates, PCs
  <2>3. req' = [req EXCEPT ![r] = s]
    BY <1>12 DEF Return, Goto
  <2>4. QED
    BY <1>12, <2>2, <2>3, QuietStep DEF Return, Settled
<1>13. CASE UNCHANGED vars
  BY <1>13 DEF vars, TypeInv, TypeOK, Clocked, RowsCommitted, Created
<1>14. QED
  BY <1>1, <1>2, <1>3, <1>4, <1>5, <1>6, <1>7, <1>8, <1>9, <1>10, <1>11, <1>12, <1>13 DEF Next

\* Every reachable state is well typed, block keys are unique, and every
\* audit entry and every stamped request is older than the clock.
THEOREM TypeInvHolds == Spec => []TypeInv
<1>1. Init => TypeInv
  BY TypeInit
<1>2. TypeInv /\ [Next]_vars => TypeInv'
  BY TypeStep
<1>3. QED
  BY <1>1, <1>2, PTL DEF Spec

\* The type invariant the runs check, for all parameters.
THEOREM TypeCorrect == Spec => []TypeOK
<1>1. TypeInv => TypeOK
  BY DEF TypeInv
<1>2. QED
  BY <1>1, TypeInvHolds, PTL

-----------------------------------------------------------------------------
(* What holds however the requests interleave and fail: the chain is        *)
(* rooted, answers are committed, and blocked_ips is what audit_log says.   *)

\* A step that writes one request's record and neither table.
Quiet(r) == Arrive(r) \/ FindActive(r) \/ FindAll(r) \/ Stamp(r) \/ Link(r)
            \/ ReturnAlreadyBlocked(r) \/ Return(r) \/ Fail(r)

\* A step that commits an audit row.
Commits(r) == CommitBlock(r) \/ CommitUnblockNoop(r) \/ CommitUnblock(r)

\* Quiet steps store nothing, and do not touch the other requests.
LEMMA QuietStores ==
    ASSUME TypeInv, NEW r \in Requests, Quiet(r)
    PROVE  /\ blocks' = blocks /\ audit' = audit
           /\ \A q \in Requests : q # r => req'[q] = req[q]
<1>1. blocks' = blocks /\ audit' = audit
  BY DEF Quiet, Arrive, FindActive, FindAll, Stamp, Link, ReturnAlreadyBlocked, Return, Fail
<1>2. req \in [Requests -> RequestStates]
  BY DEF TypeInv, TypeOK
<1>3. ASSUME NEW q \in Requests, q # r
      PROVE  req'[q] = req[q]
  <2>1. CASE Arrive(r)
    BY <1>2, <1>3, <2>1 DEF Arrive
  <2>2. CASE FindActive(r)
    <3>1. PICK found : req' = [req EXCEPT ![r].pc = "stamp", ![r].found = found]
      BY <2>2 DEF FindActive
    <3>2. QED
      BY <1>2, <1>3, <3>1
  <2>3. CASE FindAll(r)
    BY <1>2, <1>3, <2>3 DEF FindAll
  <2>4. CASE Stamp(r)
    BY <1>2, <1>3, <2>4 DEF Stamp
  <2>5. CASE Link(r)
    BY <1>2, <1>3, <2>5 DEF Link
  <2>6. CASE ReturnAlreadyBlocked(r)
    BY <1>2, <1>3, <2>6 DEF ReturnAlreadyBlocked
  <2>7. CASE Return(r) \/ Fail(r)
    BY <1>2, <1>3, <2>7 DEF Return, Fail, Goto
  <2>8. QED
    BY <2>1, <2>2, <2>3, <2>4, <2>5, <2>6, <2>7 DEF Quiet
<1>4. QED
  BY <1>1, <1>3

\* What a committed row looks like, and where it stands in the log.
LEMMA CommitAppends ==
    ASSUME TypeInv, NEW r \in Requests, req[r].pc = "finish",
           NEW action \in Actions, NEW ids \in SUBSET Requests, NEW note \in Notes,
           audit' = Append(audit, AuditRow(r, action, ids)), Commit(r, note)
    PROVE  /\ DOMAIN audit' = DOMAIN audit \cup {Len(audit) + 1}
           /\ Len(audit) + 1 \notin DOMAIN audit
           /\ \A i \in DOMAIN audit : audit'[i] = audit[i] /\ i < Len(audit) + 1
           /\ audit'[Len(audit) + 1] = AuditRow(r, action, ids)
           /\ \A q \in Requests : q # r => req'[q] = req[q]
           /\ req'[r].pc = "committed" /\ req'[r].note = note
           /\ clock' = clock
<1>1. audit \in Seq(AuditRows) /\ AuditRow(r, action, ids) \in AuditRows
  BY AuditRowType DEF TypeInv, TypeOK
<1>2. req \in [Requests -> RequestStates] /\ req[r] \in RequestStates
  BY DEF TypeInv, TypeOK
<1>3. req' = [req EXCEPT ![r].pc = "committed", ![r].note = note] /\ clock' = clock
  BY DEF Commit
<1>4. /\ \A q \in Requests : q # r => req'[q] = req[q]
      /\ req'[r].pc = "committed" /\ req'[r].note = note
  BY <1>2, <1>3 DEF RequestStates
<1> DEFINE row == AuditRow(r, action, ids)
<1> HIDE DEF row
<1>5. row \in AuditRows /\ audit' = Append(audit, row)
  BY <1>1 DEF row
<1>6. /\ DOMAIN audit' = DOMAIN audit \cup {Len(audit) + 1}
      /\ Len(audit) + 1 \notin DOMAIN audit
      /\ \A i \in DOMAIN audit : audit'[i] = audit[i] /\ i < Len(audit) + 1
      /\ audit'[Len(audit) + 1] = row
  BY <1>1, <1>5
<1>7. QED
  BY <1>3, <1>4, <1>6 DEF row

\* Each commit, reduced to the row it appends and the answer it gives.
LEMMA CommitKinds ==
    ASSUME TypeInv, NEW r \in Requests, Commits(r)
    PROVE  /\ req[r].pc = "finish"
           /\ \E action \in Actions, ids \in SUBSET Requests, note \in Notes \ {"none"} :
                 /\ audit' = Append(audit, AuditRow(r, action, ids))
                 /\ Commit(r, note)
                 /\ note \in {"blocked", "unblocked", "not_blocked"}
                 /\ note = "blocked" <=> CommitBlock(r)
                 /\ action = "block_ip" <=> CommitBlock(r)
                 /\ action = "unblock_ip" <=> CommitUnblock(r)
                 /\ CommitBlock(r) => ids = {r}
                 /\ CommitUnblock(r) => ids = req[r].found
<1>1. req[r].found \in SUBSET Requests
  BY DEF TypeInv, TypeOK, RequestStates
<1>2. CASE CommitBlock(r)
  <2>1. ~CommitUnblock(r)
    BY <1>2 DEF CommitBlock, CommitUnblock
  <2>2. "block_ip" \in Actions /\ "blocked" \in Notes \ {"none"} /\ {r} \in SUBSET Requests
    BY DEF Actions, Notes
  <2>3. /\ req[r].pc = "finish"
        /\ audit' = Append(audit, AuditRow(r, "block_ip", {r})) /\ Commit(r, "blocked")
    BY <1>2 DEF CommitBlock
  <2>4. QED
    BY <1>2, <2>1, <2>2, <2>3
<1>3. CASE CommitUnblockNoop(r)
  <2>1. ~CommitUnblock(r) /\ ~CommitBlock(r)
    BY <1>3 DEF CommitBlock, CommitUnblock, CommitUnblockNoop
  <2>2. /\ "unblock_ip_noop" \in Actions /\ "not_blocked" \in Notes \ {"none"}
        /\ {} \in SUBSET Requests
    BY DEF Actions, Notes
  <2>3. /\ req[r].pc = "finish"
        /\ audit' = Append(audit, AuditRow(r, "unblock_ip_noop", {}))
        /\ Commit(r, "not_blocked")
    BY <1>3 DEF CommitUnblockNoop
  <2>4. QED
    BY <2>1, <2>2, <2>3
<1>4. CASE CommitUnblock(r)
  <2>1. ~CommitBlock(r)
    BY <1>4 DEF CommitBlock, CommitUnblock
  <2>2. "unblock_ip" \in Actions /\ "unblocked" \in Notes \ {"none"}
    BY DEF Actions, Notes
  <2>3. /\ req[r].pc = "finish"
        /\ audit' = Append(audit, AuditRow(r, "unblock_ip", req[r].found))
        /\ Commit(r, "unblocked")
    BY <1>4 DEF CommitUnblock
  <2>4. QED
    BY <1>1, <1>4, <2>1, <2>2, <2>3
<1>5. QED
  BY <1>2, <1>3, <1>4 DEF Commits

\* A step is a clock tick, a quiet step, a commit or a stutter.
LEMMA StepKinds ==
    ASSUME [Next]_vars
    PROVE  \/ UNCHANGED <<blocks, audit, req>>
           \/ \E r \in Requests : Quiet(r) \/ Commits(r)
BY DEF Next, Tick, vars, Quiet, Commits

-----------------------------------------------------------------------------
(* The chain is rooted *)

\* A hash some chained row of the log carries, or NULL.
Rooted(log, hash) == hash = NoHash \/ \E j \in Chained(log) : log[j].hash = hash

\* The hash a request has read is still in the log when it commits: rows
\* are never deleted.
LinksAreRooted ==
    \A r \in Requests : req[r].pc = "finish" => Rooted(audit, req[r].prev)

RootInv == TypeInv /\ ChainIsRooted /\ LinksAreRooted

LEMMA RootInit == Init => RootInv
<1> SUFFICES ASSUME Init
             PROVE  RootInv
  OBVIOUS
<1>1. TypeInv
  BY TypeInit
<1>2. Chained(audit) = {}
  <2>1. \A l \in LegacyIds, ip \in IPs : LegacyRow(l, ip).hash = NoHash
    BY DEF LegacyRow
  <2>2. ASSUME NEW i \in DOMAIN audit
        PROVE  audit[i].hash = NoHash
    <3>1. PICK l \in LegacyIds, ip \in IPs : audit = <<LegacyRow(l, ip)>>
      BY <2>2 DEF Init
    <3>2. audit[i] = LegacyRow(l, ip)
      BY <2>2, <3>1
    <3>3. QED
      BY <2>1, <3>2
  <2>3. QED
    BY <2>2 DEF Chained
<1>3. \A r \in Requests : req[r].pc = "new"
  BY DEF Init, Fresh
<1>4. QED
  BY <1>1, <1>2, <1>3 DEF RootInv, ChainIsRooted, LinksAreRooted

\* The request that links reads the hash of a chained row, or NULL.
LEMMA QuietKeepsRoots ==
    ASSUME RootInv, NEW r \in Requests, Quiet(r)
    PROVE  ChainIsRooted' /\ LinksAreRooted'
<1>1. /\ blocks' = blocks /\ audit' = audit
      /\ \A q \in Requests : q # r => req'[q] = req[q]
  BY QuietStores DEF RootInv
<1>2. ChainIsRooted'
  BY <1>1 DEF RootInv, ChainIsRooted, Chained
<1>3. ASSUME req'[r].pc = "finish"
      PROVE  Rooted(audit, req'[r].prev)
  <2>1. req \in [Requests -> RequestStates] /\ req[r] \in RequestStates
    BY DEF RootInv, TypeInv, TypeOK
  <2>2. CASE Link(r)
    <3>1. req'[r].prev = GetLatestHash(audit)
      BY <2>1, <2>2 DEF Link, RequestStates
    <3>2. QED
      BY <3>1, LatestHashNow DEF RootInv, Rooted
  <2>3. CASE ~Link(r)
    <3>1. CASE FindActive(r)
      <4>1. PICK found : req' = [req EXCEPT ![r].pc = "stamp", ![r].found = found]
        BY <3>1 DEF FindActive
      <4>2. QED
        BY <1>3, <2>1, <4>1 DEF RequestStates
    <3>2. CASE Arrive(r)
      BY <1>3, <2>1, <3>2 DEF Arrive, RequestStates
    <3>3. CASE FindAll(r)
      BY <1>3, <2>1, <3>3 DEF FindAll, RequestStates
    <3>4. CASE Stamp(r)
      BY <1>3, <2>1, <3>4 DEF Stamp, RequestStates
    <3>5. CASE ReturnAlreadyBlocked(r)
      BY <1>3, <2>1, <3>5 DEF ReturnAlreadyBlocked, RequestStates
    <3>6. CASE Return(r) \/ Fail(r)
      BY <1>3, <2>1, <3>6 DEF Return, Fail, Goto, RequestStates
    <3>7. QED
      BY <2>3, <3>1, <3>2, <3>3, <3>4, <3>5, <3>6 DEF Quiet
  <2>4. QED
    BY <2>2, <2>3
<1>4. ASSUME NEW q \in Requests, req'[q].pc = "finish"
      PROVE  Rooted(audit, req'[q].prev)
  <2>1. CASE q = r
    BY <1>3, <1>4, <2>1
  <2>2. CASE q # r
    BY <1>1, <1>4, <2>2 DEF RootInv, LinksAreRooted
  <2>3. QED
    BY <2>1, <2>2
<1>5. LinksAreRooted'
  BY <1>1, <1>4 DEF LinksAreRooted, Rooted, Chained
<1>6. QED
  BY <1>2, <1>5

\* A committed row extends the hash its request read.
LEMMA CommitKeepsRoots ==
    ASSUME RootInv, NEW r \in Requests, Commits(r)
    PROVE  ChainIsRooted' /\ LinksAreRooted'
<1>1. TypeInv /\ req[r].pc = "finish" /\ Rooted(audit, req[r].prev)
  BY CommitKinds DEF RootInv, LinksAreRooted
<1>2. PICK action \in Actions, ids \in SUBSET Requests, note \in Notes \ {"none"} :
         audit' = Append(audit, AuditRow(r, action, ids)) /\ Commit(r, note)
  BY <1>1, CommitKinds
<1> DEFINE row == AuditRow(r, action, ids)
<1> DEFINE n == Len(audit) + 1
<1>3. /\ DOMAIN audit' = DOMAIN audit \cup {n}
      /\ n \notin DOMAIN audit
      /\ \A i \in DOMAIN audit : audit'[i] = audit[i] /\ i < n
      /\ audit'[n] = row
      /\ \A q \in Requests : q # r => req'[q] = req[q]
      /\ req'[r].pc = "committed"
  BY <1>1, <1>2, CommitAppends
<1>4. row.prev = req[r].prev /\ row.hash = Digest(row.prev, row.payload)
      /\ row.hash # NoHash
  <2>1. row.prev = req[r].prev /\ row.hash = Append(req[r].prev, row.payload)
    BY DEF AuditRow, Digest
  <2>2. req[r].prev \in Seq(Payloads) /\ row.payload \in Payloads
    BY <1>1, AuditRowType DEF TypeInv, TypeOK, RequestStates, AuditRows
  <2> HIDE DEF row
  <2>3. QED
    BY <2>1, <2>2 DEF NoHash, Digest
<1> HIDE DEF row, n
<1>5. Chained(audit') = Chained(audit) \cup {n}
  BY <1>3, <1>4 DEF Chained
<1>6. Chained(audit) \subseteq DOMAIN audit
  BY DEF Chained
<1>7. ASSUME NEW h, Rooted(audit, h)
      PROVE  Rooted(audit', h)
  BY <1>3, <1>5, <1>6, <1>7 DEF Rooted
<1>8. ASSUME NEW i \in Chained(audit')
      PROVE  /\ audit'[i].hash = Digest(audit'[i].prev, audit'[i].payload)
             /\ \/ audit'[i].prev = NoHash
                \/ \E j \in Chained(audit') : j < i /\ audit'[j].hash = audit'[i].prev
  <2>1. CASE i = n
    <3>1. PICK h : h = req[r].prev
      OBVIOUS
    <3>2. h = NoHash \/ \E j \in Chained(audit) : audit[j].hash = h
      BY <1>1, <3>1 DEF Rooted
    <3>3. h = NoHash \/ \E j \in Chained(audit') : j < n /\ audit'[j].hash = h
      BY <1>3, <1>5, <1>6, <3>2
    <3>4. QED
      BY <1>3, <1>4, <2>1, <3>1, <3>3
  <2>2. CASE i # n
    <3>1. i \in Chained(audit) /\ i \in DOMAIN audit /\ audit'[i] = audit[i]
      BY <1>3, <1>5, <1>6, <2>2
    <3>2. /\ audit[i].hash = Digest(audit[i].prev, audit[i].payload)
          /\ \/ audit[i].prev = NoHash
             \/ \E j \in Chained(audit) : j < i /\ audit[j].hash = audit[i].prev
      BY <3>1 DEF RootInv, ChainIsRooted
    <3>3. QED
      BY <1>3, <1>5, <1>6, <3>1, <3>2
  <2>3. QED
    BY <2>1, <2>2
<1>9. ChainIsRooted'
  BY <1>8 DEF ChainIsRooted
<1>10. LinksAreRooted'
  <2> SUFFICES ASSUME NEW q \in Requests, req'[q].pc = "finish"
               PROVE  Rooted(audit', req'[q].prev)
    BY DEF LinksAreRooted
  <2>1. q # r
    BY <1>3
  <2>2. req'[q] = req[q] /\ Rooted(audit, req[q].prev)
    BY <1>3, <2>1 DEF RootInv, LinksAreRooted
  <2>3. QED
    BY <1>7, <2>2
<1>11. QED
  BY <1>9, <1>10

LEMMA RootStep == RootInv /\ [Next]_vars => RootInv'
<1> SUFFICES ASSUME RootInv, [Next]_vars
             PROVE  RootInv'
  OBVIOUS
<1>1. TypeInv'
  BY TypeStep DEF RootInv
<1>2. CASE UNCHANGED <<blocks, audit, req>>
  BY <1>1, <1>2 DEF RootInv, ChainIsRooted, LinksAreRooted, Rooted, Chained
<1>3. ASSUME NEW r \in Requests, Quiet(r) \/ Commits(r)
      PROVE  RootInv'
  BY <1>1, <1>3, QuietKeepsRoots, CommitKeepsRoots DEF RootInv
<1>4. QED
  BY <1>2, <1>3, StepKinds

\* However the requests interleave, no entry of the log is detached from the
\* chain: forks are the worst the race of get_latest_hash can do.
THEOREM ChainRooted == Spec => []ChainIsRooted
<1>1. Init => RootInv
  BY RootInit
<1>2. RootInv /\ [Next]_vars => RootInv'
  BY RootStep
<1>3. RootInv => ChainIsRooted
  BY DEF RootInv
<1>4. QED
  BY <1>1, <1>2, <1>3, PTL DEF Spec

-----------------------------------------------------------------------------
(* Answers are committed *)

\* A request carries a note of a change exactly when its rows are stored.
NotesMatchRows ==
    \A r \in Requests :
        /\ req[r].note \in {"blocked", "unblocked", "not_blocked"}
              <=> \E i \in DOMAIN audit : audit[i].payload.id = r
        /\ req[r].note = "blocked" <=> \E b \in blocks : b.id = r

\* A request that has not come to its commit carries no note.
NotedWhenSettled == \A r \in Requests : req[r].pc \notin Settled => req[r].note = "none"

\* The note is one of the request's own operation.
NotesFit ==
    \A r \in Requests :
        /\ req[r].note = "blocked" => req[r].call.op = "block"
        /\ req[r].note \in {"unblocked", "not_blocked"} => req[r].call.op = "unblock"

AnswerInv == TypeInv /\ NotesMatchRows /\ NotedWhenSettled /\ NotesFit

Logged(r) == \E i \in DOMAIN audit : audit[i].payload.id = r

Stored(r) == \E b \in blocks : b.id = r

LEMMA AnswerInit == Init => AnswerInv
<1> SUFFICES ASSUME Init
             PROVE  AnswerInv
  OBVIOUS
<1>1. \A r \in Requests : req[r].pc = "new" /\ req[r].note = "none"
  BY DEF Init, Fresh
<1>2. ASSUME NEW r \in Requests, NEW i \in DOMAIN audit
      PROVE  audit[i].payload.id # r
  <2>1. PICK l \in LegacyIds, ip \in IPs : audit = <<LegacyRow(l, ip)>>
    BY <1>2 DEF Init
  <2>2. audit[i] = LegacyRow(l, ip)
    BY <1>2, <2>1
  <2>3. audit[i].payload.id = l
    BY <2>2 DEF LegacyRow
  <2>4. QED
    BY <2>3, RequestsAssumption
<1>3. blocks = {}
  BY DEF Init
<1>4. QED
  BY <1>1, <1>2, <1>3, TypeInit DEF AnswerInv, NotesMatchRows, NotedWhenSettled, NotesFit

\* A quiet step answers nothing, or "already_blocked".
LEMMA QuietNotes ==
    ASSUME TypeInv, NEW r \in Requests, Quiet(r)
    PROVE  /\ req'[r].call = req[r].call
           /\ \/ req'[r].note = req[r].note /\ (req[r].pc \in Settled => req'[r].pc \in Settled)
              \/ /\ req'[r].note = "already_blocked" /\ req'[r].pc \in Settled
                 /\ req[r].pc = "finish"
<1>1. req \in [Requests -> RequestStates] /\ req[r] \in RequestStates
  BY DEF TypeInv, TypeOK
<1>2. CASE FindActive(r)
  <2>1. PICK found : req' = [req EXCEPT ![r].pc = "stamp", ![r].found = found]
    BY <1>2 DEF FindActive
  <2>2. QED
    BY <1>1, <1>2, <2>1 DEF FindActive, RequestStates, Settled
<1>3. CASE Arrive(r)
  BY <1>1, <1>3 DEF Arrive, RequestStates, Settled
<1>4. CASE FindAll(r)
  BY <1>1, <1>4 DEF FindAll, RequestStates, Settled
<1>5. CASE Stamp(r)
  BY <1>1, <1>5 DEF Stamp, RequestStates, Settled
<1>6. CASE Link(r)
  BY <1>1, <1>6 DEF Link, RequestStates, Settled
<1>7. CASE ReturnAlreadyBlocked(r)
  BY <1>1, <1>7 DEF ReturnAlreadyBlocked, RequestStates, Settled
<1>8. CASE Return(r) \/ Fail(r)
  BY <1>1, <1>8 DEF Return, Fail, Goto, RequestStates, Settled
<1>9. QED
  BY <1>2, <1>3, <1>4, <1>5, <1>6, <1>7, <1>8 DEF Quiet

\* What a commit stores: the block row of its own request, or no new key.
LEMMA CommitKeys ==
    ASSUME TypeInv, NEW r \in Requests, Commits(r)
    PROVE  \A q \in Requests : Stored(q)' <=> Stored(q) \/ (q = r /\ CommitBlock(r))
<1>1. CASE CommitBlock(r)
  BY <1>1, BlockRowType DEF CommitBlock, Stored
<1>2. CASE CommitUnblockNoop(r)
  BY <1>2 DEF CommitUnblockNoop, CommitBlock, Stored
<1>3. CASE CommitUnblock(r)
  <2>1. req[r].found \in SUBSET Requests
    BY DEF TypeInv, TypeOK, RequestStates
  <2>2. blocks' = Deactivated(req[r].found) /\ ~CommitBlock(r)
    BY <1>3 DEF CommitUnblock, CommitBlock
  <2>3. QED
    BY <2>1, <2>2, DeactivatedRows DEF Stored
<1>4. QED
  BY <1>1, <1>2, <1>3 DEF Commits

LEMMA AnswerStep == AnswerInv /\ [Next]_vars => AnswerInv'
<1> SUFFICES ASSUME AnswerInv, [Next]_vars
             PROVE  AnswerInv'
  OBVIOUS
<1>1. TypeInv /\ TypeInv'
  BY TypeStep DEF AnswerInv
<1>2. \A q \in Requests :
         /\ req[q].note \in {"blocked", "unblocked", "not_blocked"} <=> Logged(q)
         /\ req[q].note = "blocked" <=> Stored(q)
         /\ req[q].pc \notin Settled => req[q].note = "none"
         /\ req[q].note = "blocked" => req[q].call.op = "block"
         /\ req[q].note \in {"unblocked", "not_blocked"} => req[q].call.op = "unblock"
  BY DEF AnswerInv, NotesMatchRows, NotedWhenSettled, NotesFit, Logged, Stored
<1>3. SUFFICES
         \A q \in Requests :
            /\ req'[q].note \in {"blocked", "unblocked", "not_blocked"} <=> Logged(q)'
            /\ req'[q].note = "blocked" <=> Stored(q)'
            /\ req'[q].pc \notin Settled => req'[q].note = "none"
            /\ req'[q].note = "blocked" => req'[q].call.op = "block"
            /\ req'[q].note \in {"unblocked", "not_blocked"} => req'[q].call.op = "unblock"
  BY <1>1 DEF AnswerInv, NotesMatchRows, NotedWhenSettled, NotesFit, Logged, Stored
<1>4. CASE UNCHANGED <<blocks, audit, req>>
  BY <1>2, <1>4 DEF Logged, Stored
<1>5. ASSUME NEW r \in Requests, Quiet(r), NEW q \in Requests
      PROVE  /\ req'[q].note \in {"blocked", "unblocked", "not_blocked"} <=> Logged(q)'
             /\ req'[q].note = "blocked" <=> Stored(q)'
             /\ req'[q].pc \notin Settled => req'[q].note = "none"
             /\ req'[q].note = "blocked" => req'[q].call.op = "block"
             /\ req'[q].note \in {"unblocked", "not_blocked"} => req'[q].call.op = "unblock"
  <2>1. blocks' = blocks /\ audit' = audit /\ (q # r => req'[q] = req[q])
    BY <1>1, <1>5, QuietStores
  <2>2. (Logged(q)' <=> Logged(q)) /\ (Stored(q)' <=> Stored(q))
    BY <2>1 DEF Logged, Stored
  <2>3. CASE q = r
    <3>1. /\ req'[r].call = req[r].call
          /\ \/ req'[r].note = req[r].note /\ (req[r].pc \in Settled => req'[r].pc \in Settled)
             \/ /\ req'[r].note = "already_blocked" /\ req'[r].pc \in Settled
                /\ req[r].pc = "finish"
      BY <1>1, <1>5, QuietNotes
    <3>2. req[r].pc = "finish" => req[r].note = "none"
      BY <1>2 DEF Settled
    <3>3. QED
      BY <1>2, <2>2, <2>3, <3>1, <3>2
  <2>4. CASE q # r
    BY <1>2, <2>1, <2>2, <2>4
  <2>5. QED
    BY <2>3, <2>4
<1>6. ASSUME NEW r \in Requests, Commits(r), NEW q \in Requests
      PROVE  /\ req'[q].note \in {"blocked", "unblocked", "not_blocked"} <=> Logged(q)'
             /\ req'[q].note = "blocked" <=> Stored(q)'
             /\ req'[q].pc \notin Settled => req'[q].note = "none"
             /\ req'[q].note = "blocked" => req'[q].call.op = "block"
             /\ req'[q].note \in {"unblocked", "not_blocked"} => req'[q].call.op = "unblock"
  <2>1. req[r].pc = "finish"
    BY <1>1, <1>6, CommitKinds
  <2>2. PICK action \in Actions, ids \in SUBSET Requests, note \in Notes \ {"none"} :
           /\ audit' = Append(audit, AuditRow(r, action, ids)) /\ Commit(r, note)
           /\ note \in {"blocked", "unblocked", "not_blocked"}
           /\ note = "blocked" <=> CommitBlock(r)
    BY <1>1, <1>6, CommitKinds
  <2>3. AuditRow(r, action, ids).payload.id = r
    BY DEF AuditRow
  <2>4. Logged(q)' <=> Logged(q) \/ q = r
    BY <1>1, <2>1, <2>2, <2>3, CommitAppends DEF Logged
  <2>5. /\ q # r => req'[q] = req[q]
        /\ req'[r].pc = "committed" /\ req'[r].note = note
    BY <1>1, <2>1, <2>2, CommitAppends
  <2>6. Stored(q)' <=> Stored(q) \/ (q = r /\ CommitBlock(r))
    BY <1>1, <1>6, CommitKeys
  <2>7. ~Stored(r)
    BY <1>2, <2>1 DEF Settled
  <2>8. /\ req'[r].call = req[r].call
        /\ CommitBlock(r) <=> req[r].call.op = "block"
        /\ req[r].call.op \in {"block", "unblock"}
    <3>1. req \in [Requests -> RequestStates] /\ req[r] \in RequestStates
      BY <1>1 DEF TypeInv, TypeOK
    <3>2. req'[r].call = req[r].call
      BY <2>2, <3>1 DEF Commit, RequestStates
    <3>3. req[r].call.op \in {"block", "unblock"}
      BY <3>1 DEF RequestStates, Calls, Ops
    <3>4. QED
      BY <1>6, <3>2, <3>3 DEF Commits, CommitBlock, CommitUnblockNoop, CommitUnblock
  <2>9. CASE q = r
    BY <2>2, <2>4, <2>5, <2>6, <2>7, <2>8, <2>9 DEF Settled
  <2>10. CASE q # r
    BY <1>2, <2>4, <2>5, <2>6, <2>10
  <2>11. QED
    BY <2>9, <2>10
<1>7. QED
  BY <1>4, <1>5, <1>6, StepKinds

\* What the notes say of the rows, said of the answers.
LEMMA AnswersFollow == AnswerInv => AnswersAreCommitted
<1> SUFFICES ASSUME AnswerInv, NEW r \in Requests
             PROVE  /\ req[r].pc = "done" =>
                          /\ req[r].note \in {"blocked", "unblocked", "not_blocked"} => Logged(r)
                          /\ req[r].note = "blocked" => Stored(r)
                    /\ Stored(r) <=> Logged(r) /\ req[r].call.op = "block"
                    /\ Logged(r) => req[r].pc \in {"committed", "done", "failed"}
  BY DEF AnswersAreCommitted, Logged, Stored
<1>1. /\ req[r].note \in {"blocked", "unblocked", "not_blocked"} <=> Logged(r)
      /\ req[r].note = "blocked" <=> Stored(r)
      /\ req[r].pc \notin Settled => req[r].note = "none"
      /\ req[r].note = "blocked" => req[r].call.op = "block"
      /\ req[r].note \in {"unblocked", "not_blocked"} => req[r].call.op = "unblock"
  BY DEF AnswerInv, NotesMatchRows, NotedWhenSettled, NotesFit, Logged, Stored
<1>2. QED
  BY <1>1 DEF Settled

\* A crash or an error between any two database calls of any request, those
\* after its commit included, leaves neither a half-done change nor a change
\* without its entry, and no answered change is missing from either table.
THEOREM AnswersCommitted == Spec => []AnswersAreCommitted
<1>1. Init => AnswerInv
  BY AnswerInit
<1>2. AnswerInv /\ [Next]_vars => AnswerInv'
  BY AnswerStep
<1>3. AnswerInv => AnswersAreCommitted
  BY AnswersFollow
<1>4. QED
  BY <1>1, <1>2, <1>3, PTL DEF Spec

-----------------------------------------------------------------------------
(* blocked_ips is what audit_log says it is *)

\* The keys a request has read, and those the log lists as unblocked, are
\* keys of stored rows.
KeysAreStored ==
    /\ \A r \in Requests : req[r].pc \in {"stamp", "link", "finish"} =>
          \A k \in req[r].found : Stored(k)
    /\ \A i \in Entries("unblock_ip") : \A k \in audit[i].payload.blocks : Stored(k)

RegistryInv == TypeInv /\ RegistryMatchesAudit /\ KeysAreStored

Announced(r) == \E i \in Entries("block_ip") : audit[i].payload.blocks = {r}

Lifted(r) == \E i \in Entries("unblock_ip") : r \in audit[i].payload.blocks

LEMMA RegistryInit == Init => RegistryInv
<1> SUFFICES ASSUME Init
             PROVE  RegistryInv
  OBVIOUS
<1>1. \A r \in Requests : req[r].pc = "new"
  BY DEF Init, Fresh
<1>2. ASSUME NEW i \in DOMAIN audit
      PROVE  audit[i].payload.action = "unblock_ip_noop"
  <2>1. PICK l \in LegacyIds, ip \in IPs : audit = <<LegacyRow(l, ip)>>
    BY <1>2 DEF Init
  <2>2. audit[i] = LegacyRow(l, ip)
    BY <1>2, <2>1
  <2>3. QED
    BY <2>2 DEF LegacyRow
<1>3. Entries("block_ip") = {} /\ Entries("unblock_ip") = {}
  BY <1>2 DEF Entries
<1>4. blocks = {}
  BY DEF Init
<1>5. QED
  BY <1>1, <1>3, <1>4, TypeInit DEF RegistryInv, RegistryMatchesAudit, KeysAreStored

\* What a request reads is stored, and a quiet step forgets nothing.
LEMMA QuietFinds ==
    ASSUME RegistryInv, NEW r \in Requests, Quiet(r),
           req'[r].pc \in {"stamp", "link", "finish"}
    PROVE  \A k \in req'[r].found : Stored(k)
<1>1. req \in [Requests -> RequestStates] /\ req[r] \in RequestStates
  BY DEF RegistryInv, TypeInv, TypeOK
<1>2. req[r].pc \in {"stamp", "link", "finish"} => \A k \in req[r].found : Stored(k)
  BY DEF RegistryInv, KeysAreStored
<1>3. CASE FindActive(r)
  <2> DEFINE rows == ActiveBlocks(req[r].call.ip, clock)
  <2>1. PICK found \in (IF rows = {} THEN {{}} ELSE {{b.id} : b \in rows}) :
           req' = [req EXCEPT ![r].pc = "stamp", ![r].found = found]
    BY <1>3 DEF FindActive
  <2>2. \A b \in rows : Stored(b.id)
    BY DEF ActiveBlocks, Stored
  <2> HIDE DEF rows
  <2>3. \A k \in found : Stored(k)
    BY <2>1, <2>2
  <2>4. req'[r].found = found
    BY <1>1, <2>1 DEF RequestStates
  <2>5. QED
    BY <2>3, <2>4
<1>4. CASE FindAll(r)
  <2> DEFINE found == {b.id : b \in AllActiveBlocks(req[r].call.ip)}
  <2>1. \A k \in found : Stored(k)
    BY DEF AllActiveBlocks, Stored
  <2>2. req' = [req EXCEPT ![r].pc = "stamp", ![r].found = found]
    BY <1>4 DEF FindAll
  <2> HIDE DEF found
  <2>3. req'[r].found = found
    BY <1>1, <2>2 DEF RequestStates
  <2>4. QED
    BY <2>1, <2>3
<1>5. CASE Arrive(r) \/ ReturnAlreadyBlocked(r) \/ Return(r) \/ Fail(r)
  <2>1. req'[r].pc \in {"find", "done", "failed"}
    BY <1>1, <1>5 DEF Arrive, ReturnAlreadyBlocked, Return, Fail, Goto, RequestStates
  <2>2. QED
    BY <2>1
<1>6. CASE Stamp(r)
  BY <1>1, <1>2, <1>6 DEF Stamp, RequestStates
<1>7. CASE Link(r)
  BY <1>1, <1>2, <1>7 DEF Link, RequestStates
<1>8. QED
  BY <1>3, <1>4, <1>5, <1>6, <1>7 DEF Quiet

\* Which requests the log announces or lists as unblocked after a commit.
LEMMA CommitEntries ==
    ASSUME TypeInv, NEW r \in Requests, req[r].pc = "finish",
           NEW action \in Actions, NEW ids \in SUBSET Requests, NEW note \in Notes,
           audit' = Append(audit, AuditRow(r, action, ids)), Commit(r, note)
    PROVE  \A q \in Requests :
              /\ Announced(q)' <=> Announced(q) \/ (action = "block_ip" /\ ids = {q})
              /\ Lifted(q)' <=> Lifted(q) \/ (action = "unblock_ip" /\ q \in ids)
<1> DEFINE row == AuditRow(r, action, ids)
<1> DEFINE n == Len(audit) + 1
<1>1. /\ DOMAIN audit' = DOMAIN audit \cup {n}
      /\ n \notin DOMAIN audit
      /\ \A i \in DOMAIN audit : audit'[i] = audit[i]
      /\ audit'[n] = row
  BY CommitAppends
<1>2. row.payload.action = action /\ row.payload.blocks = ids
  BY DEF AuditRow
<1> HIDE DEF row, n
<1>3. ASSUME NEW kind \in Actions
      PROVE  /\ Entries(kind)' = Entries(kind) \cup {i \in {n} : action = kind}
             /\ Entries(kind) \subseteq DOMAIN audit
  BY <1>1, <1>2 DEF Entries
<1>4. "block_ip" \in Actions /\ "unblock_ip" \in Actions
  BY DEF Actions
<1>5. ASSUME NEW q \in Requests
      PROVE  Announced(q)' <=> Announced(q) \/ (action = "block_ip" /\ ids = {q})
  BY <1>1, <1>2, <1>3, <1>4 DEF Announced
<1>6. ASSUME NEW q \in Requests
      PROVE  Lifted(q)' <=> Lifted(q) \/ (action = "unblock_ip" /\ q \in ids)
  BY <1>1, <1>2, <1>3, <1>4 DEF Lifted
<1>7. QED
  BY <1>5, <1>6

\* The invariant in terms of requests instead of rows.
LEMMA RegistryByRequest ==
    ASSUME TypeInv
    PROVE  RegistryMatchesAudit <=>
              /\ \A q \in Requests : Stored(q) <=> Announced(q)
              /\ \A b \in blocks : ~b.active <=> Lifted(b.id)
BY DEF RegistryMatchesAudit, Stored, Announced, Lifted

LEMMA RegistryStep == RegistryInv /\ [Next]_vars => RegistryInv'
<1> SUFFICES ASSUME RegistryInv, [Next]_vars
             PROVE  RegistryInv'
  OBVIOUS
<1>1. TypeInv /\ TypeInv'
  BY TypeStep DEF RegistryInv
<1>2. /\ \A q \in Requests : Stored(q) <=> Announced(q)
      /\ \A b \in blocks : ~b.active <=> Lifted(b.id)
  BY <1>1, RegistryByRequest DEF RegistryInv
<1>3. /\ \A q \in Requests : Lifted(q) => Stored(q)
      /\ \A q \in Requests : req[q].pc \in {"stamp", "link", "finish"} =>
            \A k \in req[q].found : Stored(k)
  BY DEF RegistryInv, KeysAreStored, Lifted
<1>4. CASE UNCHANGED <<blocks, audit, req>>
  BY <1>1, <1>4 DEF RegistryInv, RegistryMatchesAudit, KeysAreStored, Stored, Entries
<1>5. ASSUME NEW r \in Requests, Quiet(r)
      PROVE  RegistryInv'
  <2>1. /\ blocks' = blocks /\ audit' = audit
        /\ \A q \in Requests : q # r => req'[q] = req[q]
    BY <1>1, <1>5, QuietStores
  <2>2. RegistryMatchesAudit'
    BY <2>1 DEF RegistryInv, RegistryMatchesAudit, Entries
  <2>3. ASSUME NEW q \in Requests, req'[q].pc \in {"stamp", "link", "finish"},
               NEW k \in req'[q].found
        PROVE  Stored(k)
    <3>1. CASE q = r
      BY <1>5, <2>3, <3>1, QuietFinds
    <3>2. CASE q # r
      BY <1>3, <2>1, <2>3, <3>2
    <3>3. QED
      BY <3>1, <3>2
  <2>4. KeysAreStored'
    BY <2>1, <2>3 DEF RegistryInv, KeysAreStored, Stored, Entries
  <2>5. QED
    BY <1>1, <2>2, <2>4 DEF RegistryInv
<1>6. ASSUME NEW r \in Requests, Commits(r)
      PROVE  RegistryInv'
  <2>1. req[r].pc = "finish" /\ \A k \in req[r].found : Stored(k)
    BY <1>1, <1>3, <1>6, CommitKinds
  <2>2. PICK action \in Actions, ids \in SUBSET Requests, note \in Notes \ {"none"} :
           /\ audit' = Append(audit, AuditRow(r, action, ids)) /\ Commit(r, note)
           /\ action = "block_ip" <=> CommitBlock(r)
           /\ action = "unblock_ip" <=> CommitUnblock(r)
           /\ CommitBlock(r) => ids = {r}
           /\ CommitUnblock(r) => ids = req[r].found
    BY <1>1, <1>6, CommitKinds
  <2>3. \A q \in Requests : Stored(q)' <=> Stored(q) \/ (q = r /\ CommitBlock(r))
    BY <1>1, <1>6, CommitKeys
  <2>4. \A q \in Requests :
           /\ Announced(q)' <=> Announced(q) \/ (action = "block_ip" /\ ids = {q})
           /\ Lifted(q)' <=> Lifted(q) \/ (action = "unblock_ip" /\ q \in ids)
    BY <1>1, <2>1, <2>2, CommitEntries
  <2>5. \A q \in Requests : Stored(q)' <=> Announced(q)'
    BY <1>2, <2>2, <2>3, <2>4
  <2>6. ASSUME NEW b \in blocks'
        PROVE  ~b.active <=> Lifted(b.id)'
    <3>1. b.id \in Requests
      BY <1>1 DEF TypeInv, TypeOK, BlockRows
    <3>2. CASE CommitBlock(r)
      <4>1. ~Stored(r) /\ ~Lifted(r)
        BY <1>1, <1>3, <2>1 DEF TypeInv, RowsCommitted, Stored, Settled
      <4>2. b \in blocks \/ b = BlockRow(r)
        BY <3>2 DEF CommitBlock
      <4>3. Lifted(b.id)' <=> Lifted(b.id)
        BY <2>2, <2>4, <3>1, <3>2 DEF CommitBlock, CommitUnblock
      <4>4. QED
        BY <1>1, <1>2, <4>1, <4>2, <4>3, BlockRowType
    <3>3. CASE CommitUnblockNoop(r)
      <4>1. b \in blocks /\ ~CommitUnblock(r)
        BY <3>3 DEF CommitUnblockNoop, CommitUnblock
      <4>2. QED
        BY <1>2, <2>2, <2>4, <3>1, <4>1
    <3>4. CASE CommitUnblock(r)
      <4>1. req[r].found \in SUBSET Requests /\ b \in Deactivated(req[r].found)
        BY <1>1, <3>4 DEF CommitUnblock, TypeInv, TypeOK, RequestStates
      <4>2. PICK c \in blocks : c.id = b.id
        BY <1>1, <4>1, DeactivatedRows
      <4>3. b.active <=> c.active /\ b.id \notin req[r].found
        BY <1>1, <4>1, <4>2, DeactivatedRows
      <4>4. ~c.active <=> Lifted(b.id)
        BY <1>2, <4>2
      <4>5. Lifted(b.id)' <=> Lifted(b.id) \/ b.id \in req[r].found
        BY <2>2, <2>4, <3>1, <3>4
      <4>6. QED
        BY <4>3, <4>4, <4>5
    <3>5. QED
      BY <1>6, <3>2, <3>3, <3>4 DEF Commits
  <2>7. RegistryMatchesAudit'
    BY <1>1, <2>5, <2>6 DEF RegistryMatchesAudit, Stored, Announced, Lifted
  <2>8. ASSUME NEW q \in Requests, Lifted(q)'
        PROVE  Stored(q)'
    BY <1>3, <2>1, <2>2, <2>3, <2>4, <2>8
  <2>9. ASSUME NEW q \in Requests, req'[q].pc \in {"stamp", "link", "finish"},
               NEW k \in req'[q].found
        PROVE  Stored(k)'
    <3>1. req'[r].pc = "committed" /\ \A p \in Requests : p # r => req'[p] = req[p]
      BY <1>1, <2>1, <2>2, CommitAppends
    <3>2. Stored(k) /\ k \in Requests
      <4>1. q # r /\ req'[q] = req[q]
        BY <2>9, <3>1
      <4>2. req[q].found \in SUBSET Requests
        BY <1>1 DEF TypeInv, TypeOK, RequestStates
      <4>3. QED
        BY <1>3, <2>9, <4>1, <4>2
    <3>3. QED
      BY <2>3, <3>2
  <2>10. \A i \in Entries("unblock_ip")' : \A k \in audit'[i].payload.blocks : Stored(k)'
    <3> SUFFICES ASSUME NEW i \in Entries("unblock_ip")', NEW k \in audit'[i].payload.blocks
                 PROVE  Stored(k)'
      OBVIOUS
    <3>1. i \in DOMAIN audit' /\ audit' \in Seq(AuditRows)
      BY <1>1 DEF Entries, TypeInv, TypeOK
    <3>2. audit'[i] \in AuditRows
      BY <3>1
    <3>3. k \in Requests
      BY <3>2 DEF AuditRows, Payloads
    <3>4. Lifted(k)'
      BY DEF Lifted
    <3>5. QED
      BY <2>8, <3>3, <3>4
  <2>11. KeysAreStored'
    BY <2>9, <2>10 DEF KeysAreStored
  <2>12. QED
    BY <1>1, <2>7, <2>11 DEF RegistryInv
<1>7. QED
  BY <1>4, <1>5, <1>6, StepKinds

\* The audit log accounts for every row of blocked_ips and for its state,
\* under every interleaving and every failure of the requests.
THEOREM RegistryAudited == Spec => []RegistryMatchesAudit
<1>1. Init => RegistryInv
  BY RegistryInit
<1>2. RegistryInv /\ [Next]_vars => RegistryInv'
  BY RegistryStep
<1>3. RegistryInv => RegistryMatchesAudit
  BY DEF RegistryInv
<1>4. QED
  BY <1>1, <1>2, <1>3, PTL DEF Spec

-----------------------------------------------------------------------------
(* One request at a time *)

OneAtATime == \A q, r \in Requests : InFlight(q) /\ InFlight(r) => q = r

\* Only a request in flight takes a step, apart from the one that arrives.
LEMMA StepsInFlight ==
    ASSUME NEW r \in Requests, Quiet(r) \/ Commits(r)
    PROVE  InFlight(r) \/ Arrive(r)
BY DEF Quiet, Commits, InFlight, FindActive, FindAll, Stamp, Link, ReturnAlreadyBlocked,
       Return, Fail, CommitBlock, CommitUnblockNoop, CommitUnblock

\* Quiet steps and commits leave the records of the other requests alone.
LEMMA OthersStay ==
    ASSUME TypeInv, NEW r \in Requests, Quiet(r) \/ Commits(r)
    PROVE  \A q \in Requests : q # r => req'[q] = req[q]
<1>1. CASE Quiet(r)
  BY <1>1, QuietStores
<1>2. CASE Commits(r)
  BY <1>2, CommitKinds, CommitAppends
<1>3. QED
  BY <1>1, <1>2

LEMMA OneAtATimeStep ==
    ASSUME Serialised, TypeInv, OneAtATime, [Next]_vars
    PROVE  OneAtATime'
<1>1. CASE UNCHANGED <<blocks, audit, req>>
  BY <1>1 DEF OneAtATime, InFlight
<1>2. ASSUME NEW r \in Requests, Quiet(r) \/ Commits(r)
      PROVE  OneAtATime'
  <2>1. \A q \in Requests : q # r => (InFlight(q)' <=> InFlight(q))
    BY <1>2, OthersStay DEF InFlight
  <2>2. InFlight(r) \/ \A q \in Requests : ~InFlight(q)
    BY <1>2, StepsInFlight DEF Arrive
  <2>3. QED
    BY <2>1, <2>2 DEF OneAtATime
<1>3. QED
  BY <1>1, <1>2, StepKinds

LEMMA OneAtATimeInit == Init => OneAtATime
BY DEF Init, OneAtATime, InFlight, Fresh

\* Which step takes a request to which label, and what it writes there.
LEMMA QuietLabels ==
    ASSUME TypeInv, NEW r \in Requests, Quiet(r)
    PROVE  /\ req'[r].call = req[r].call
           /\ req'[r].pc = "stamp" => FindActive(r) \/ FindAll(r)
           /\ req'[r].pc = "link" => Stamp(r) /\ req'[r].created = clock
                                     /\ req'[r].found = req[r].found
           /\ req'[r].pc = "finish" => /\ Link(r) /\ req[r].pc = "link"
                                       /\ req'[r].created = req[r].created
                                       /\ req'[r].prev = GetLatestHash(audit)
                                       /\ req'[r].found = req[r].found
<1>1. req \in [Requests -> RequestStates] /\ req[r] \in RequestStates
  BY DEF TypeInv, TypeOK
<1>2. CASE FindActive(r)
  <2>1. PICK found : req' = [req EXCEPT ![r].pc = "stamp", ![r].found = found]
    BY <1>2 DEF FindActive
  <2>2. QED
    BY <1>1, <1>2, <2>1 DEF RequestStates
<1>3. CASE FindAll(r)
  BY <1>1, <1>3 DEF FindAll, RequestStates
<1>4. CASE Stamp(r)
  BY <1>1, <1>4 DEF Stamp, RequestStates
<1>5. CASE Link(r)
  BY <1>1, <1>5 DEF Link, RequestStates
<1>6. CASE Arrive(r) \/ ReturnAlreadyBlocked(r) \/ Return(r) \/ Fail(r)
  BY <1>1, <1>6 DEF Arrive, ReturnAlreadyBlocked, Return, Fail, Goto, RequestStates
<1>7. QED
  BY <1>2, <1>3, <1>4, <1>5, <1>6 DEF Quiet

-----------------------------------------------------------------------------
(* The chain verifies *)

\* The order of creation is the order of commits.
LogOrdered == \A i, j \in DOMAIN audit : i < j => Created(audit, i) < Created(audit, j)

\* A request that has its created_at will be the last of the log.
StampedLast ==
    \A r \in Requests : req[r].pc \in {"link", "finish"} =>
        \A i \in DOMAIN audit : Created(audit, i) < req[r].created

\* What the row committed last carries; a legacy row carries no hash.
LastHash(log) == IF log = << >> THEN NoHash ELSE log[Len(log)].hash

\* The hash a request has read is still the newest one.
LinkedToLast == \A r \in Requests : req[r].pc = "finish" => req[r].prev = LastHash(audit)

PreviousHash(i) == IF i = 1 THEN NoHash ELSE audit[i - 1].hash

\* Only the first row may be a legacy row, and every other one extends its
\* predecessor by a digest of its own fields.
LogLinked ==
    \A i \in DOMAIN audit :
        /\ i > 1 => audit[i].hash # NoHash
        /\ audit[i].hash # NoHash =>
              /\ audit[i].prev = PreviousHash(i)
              /\ audit[i].hash = Digest(audit[i].prev, audit[i].payload)

ChainInv == TypeInv /\ OneAtATime /\ LogOrdered /\ StampedLast /\ LinkedToLast /\ LogLinked

LEMMA ChainInit == Init => ChainInv
<1> SUFFICES ASSUME Init
             PROVE  ChainInv
  OBVIOUS
<1>1. \A r \in Requests : req[r].pc = "new"
  BY DEF Init, Fresh
<1>2. ASSUME NEW i \in DOMAIN audit
      PROVE  i = 1 /\ audit[i].hash = NoHash
  <2>1. PICK l \in LegacyIds, ip \in IPs : audit = <<LegacyRow(l, ip)>>
    BY <1>2 DEF Init
  <2>2. i = 1 /\ audit[i] = LegacyRow(l, ip)
    BY <1>2, <2>1
  <2>3. QED
    BY <2>2 DEF LegacyRow
<1>3. LogOrdered /\ LogLinked
  BY <1>2 DEF LogOrdered, LogLinked
<1>4. StampedLast /\ LinkedToLast
  BY <1>1 DEF StampedLast, LinkedToLast
<1>5. QED
  BY <1>3, <1>4, TypeInit, OneAtATimeInit DEF ChainInv

\* The rows of an ordered log are numbered 1 to Len(audit).
LEMMA LogRows ==
    ASSUME TypeInv
    PROVE  /\ audit \in Seq(AuditRows) /\ Len(audit) \in Nat /\ DOMAIN audit = 1 .. Len(audit)
           /\ audit = << >> <=> Len(audit) = 0
           /\ clock \in Nat
           /\ \A i \in DOMAIN audit : Created(audit, i) \in Nat /\ Created(audit, i) <= clock
<1>1. audit \in Seq(AuditRows) /\ clock \in Nat
  BY DEF TypeInv, TypeOK
<1>2. Len(audit) \in Nat /\ DOMAIN audit = 1 .. Len(audit) /\ (audit = << >> <=> Len(audit) = 0)
  BY <1>1, EmptySeq
<1>3. ASSUME NEW i \in DOMAIN audit
      PROVE  Created(audit, i) \in Nat /\ Created(audit, i) <= clock
  <2>1. Created(audit, i) \in Nat /\ Created(audit, i) < clock
    BY KeysAreRequests DEF TypeInv, Clocked
  <2>2. QED
    BY <1>1, <2>1
<1>4. QED
  BY <1>1, <1>2, <1>3

\* In an ordered log the newest of a set of rows is the last of them.
LEMMA NewestIsLast ==
    ASSUME TypeInv, LogOrdered, NEW S \in SUBSET DOMAIN audit,
           NEW n \in S, \A i \in S : i <= n
    PROVE  Newest(audit, S) = n
<1> DEFINE m == Newest(audit, S)
<1>1. m \in S /\ \A j \in S : Created(audit, j) <= Created(audit, m)
  BY LogRows, NewestIsNewest
<1> HIDE DEF m
<1>2. m \in DOMAIN audit /\ n \in DOMAIN audit /\ m <= n /\ Created(audit, n) <= Created(audit, m)
  BY <1>1
<1>3. m < n => Created(audit, m) < Created(audit, n)
  BY <1>2 DEF LogOrdered
<1>4. m \in Nat /\ n \in Nat /\ Created(audit, m) \in Nat /\ Created(audit, n) \in Nat
  BY <1>2, LogRows
<1>5. m = n
  BY <1>2, <1>3, <1>4
<1>6. QED
  BY <1>5 DEF m

\* Then get_latest_hash gives the hash of the last row.
LEMMA LatestHashIsLast ==
    ASSUME TypeInv, LogOrdered, LogLinked
    PROVE  GetLatestHash(audit) = LastHash(audit)
<1> DEFINE n == Len(audit)
<1>1. CASE n = 0
  <2>1. Chained(audit) = {} /\ audit = << >>
    BY <1>1, LogRows DEF Chained
  <2>2. QED
    BY <2>1 DEF GetLatestHash, LastHash
<1>2. CASE n # 0 /\ audit[n].hash = NoHash
  <2>1. n = 1
    BY <1>2, LogRows DEF LogLinked
  <2>2. Chained(audit) = {}
    BY <1>2, <2>1, LogRows DEF Chained
  <2>3. QED
    BY <1>2, <2>2, LogRows DEF GetLatestHash, LastHash
<1>3. CASE n # 0 /\ audit[n].hash # NoHash
  <2>1. n \in Chained(audit) /\ Chained(audit) \in SUBSET DOMAIN audit
        /\ \A i \in Chained(audit) : i <= n
    BY <1>3, LogRows DEF Chained
  <2>2. Newest(audit, Chained(audit)) = n
    BY <2>1, NewestIsLast
  <2>3. QED
    BY <1>3, <2>1, <2>2, LogRows DEF GetLatestHash, LastHash
<1>4. QED
  BY <1>1, <1>2, <1>3

LEMMA ChainQuiet ==
    ASSUME ChainInv, NEW r \in Requests, Quiet(r)
    PROVE  LogOrdered' /\ StampedLast' /\ LinkedToLast' /\ LogLinked'
<1>1. /\ blocks' = blocks /\ audit' = audit
      /\ \A q \in Requests : q # r => req'[q] = req[q]
  BY QuietStores DEF ChainInv
<1>2. LogOrdered' /\ LogLinked'
  BY <1>1 DEF ChainInv, LogOrdered, LogLinked, PreviousHash, Created
<1>3. ASSUME req'[r].pc \in {"link", "finish"}, NEW i \in DOMAIN audit
      PROVE  Created(audit, i) < req'[r].created
  <2>1. req'[r].pc = "link" => req'[r].created = clock
    BY QuietLabels DEF ChainInv
  <2>2. req'[r].pc = "finish" => req'[r].created = req[r].created /\ req[r].pc = "link"
    BY QuietLabels DEF ChainInv
  <2>3. Created(audit, i) < clock
    BY DEF ChainInv, TypeInv, Clocked
  <2>4. req[r].pc = "link" => Created(audit, i) < req[r].created
    BY DEF ChainInv, StampedLast
  <2>5. QED
    BY <1>3, <2>1, <2>2, <2>3, <2>4
<1>4. StampedLast'
  BY <1>1, <1>3 DEF ChainInv, StampedLast, Created
<1>5. req'[r].pc = "finish" => req'[r].prev = LastHash(audit)
  BY QuietLabels, LatestHashIsLast DEF ChainInv
<1>6. LinkedToLast'
  BY <1>1, <1>5 DEF ChainInv, LinkedToLast
<1>7. QED
  BY <1>2, <1>4, <1>6

LEMMA ChainCommit ==
    ASSUME ChainInv, NEW r \in Requests, Commits(r)
    PROVE  LogOrdered' /\ StampedLast' /\ LinkedToLast' /\ LogLinked'
<1> DEFINE n == Len(audit) + 1
<1>1. req[r].pc = "finish" /\ TypeInv
  BY CommitKinds DEF ChainInv
<1>2. PICK action \in Actions, ids \in SUBSET Requests, note \in Notes \ {"none"} :
         audit' = Append(audit, AuditRow(r, action, ids)) /\ Commit(r, note)
  BY <1>1, CommitKinds
<1>3. /\ DOMAIN audit' = DOMAIN audit \cup {n}
      /\ \A i \in DOMAIN audit : audit'[i] = audit[i] /\ i < n
      /\ audit'[n] = AuditRow(r, action, ids)
      /\ \A q \in Requests : q # r => req'[q] = req[q]
      /\ req'[r].pc = "committed"
  BY <1>1, <1>2, CommitAppends
<1> DEFINE row == AuditRow(r, action, ids)
<1>4. /\ row.payload.created = req[r].created
      /\ row.prev = LastHash(audit)
      /\ row.hash = Digest(row.prev, row.payload)
  BY <1>1 DEF AuditRow, ChainInv, LinkedToLast
<1>5. row.hash # NoHash
  <2>1. row \in AuditRows
    BY <1>1, AuditRowType
  <2>2. row.prev \in Seq(Payloads) /\ row.payload \in Payloads
    BY <2>1 DEF AuditRows
  <2> HIDE DEF row
  <2>3. Append(row.prev, row.payload) # << >>
    BY <2>2
  <2>4. QED
    BY <1>4, <2>3 DEF Digest, NoHash
<1> HIDE DEF row
<1>6. \A i \in DOMAIN audit : Created(audit, i) < req[r].created
  BY <1>1 DEF ChainInv, StampedLast
<1>7. Len(audit) \in Nat /\ DOMAIN audit = 1 .. Len(audit) /\ (audit = << >> <=> Len(audit) = 0)
  BY <1>1, LogRows
<1>8. LogOrdered'
  <2> SUFFICES ASSUME NEW i \in DOMAIN audit', NEW j \in DOMAIN audit', i < j
               PROVE  audit'[i].payload.created < audit'[j].payload.created
    BY DEF LogOrdered, Created
  <2>1. i \in DOMAIN audit
    BY <1>3, <1>7
  <2>2. CASE j \in DOMAIN audit
    BY <1>3, <2>1, <2>2 DEF ChainInv, LogOrdered, Created
  <2>3. CASE j = n
    BY <1>3, <1>4, <1>6, <2>1, <2>3 DEF Created, row
  <2>4. QED
    BY <1>3, <2>2, <2>3
<1>9. LogLinked'
  <2> SUFFICES ASSUME NEW i \in DOMAIN audit'
               PROVE  /\ i > 1 => audit'[i].hash # NoHash
                      /\ audit'[i].hash # NoHash =>
                            /\ audit'[i].prev = PreviousHash(i)'
                            /\ audit'[i].hash = Digest(audit'[i].prev, audit'[i].payload)
    BY DEF LogLinked
  <2>1. CASE i \in DOMAIN audit
    <3>1. PreviousHash(i)' = PreviousHash(i)
      BY <1>3, <1>7, <2>1 DEF PreviousHash
    <3>2. QED
      BY <1>3, <2>1, <3>1 DEF ChainInv, LogLinked
  <2>2. CASE i = n
    <3>1. PreviousHash(i)' = LastHash(audit)
      <4>1. i = Len(audit) + 1 /\ (i = 1 <=> audit = << >>)
        BY <1>7, <2>2
      <4>2. i # 1 => audit'[i - 1] = audit[Len(audit)]
        <5>1. i # 1 => i - 1 = Len(audit) /\ i - 1 \in DOMAIN audit
          BY <1>7, <4>1
        <5>2. QED
          BY <1>3, <5>1
      <4>3. QED
        BY <4>1, <4>2 DEF PreviousHash, LastHash
    <3>2. QED
      BY <1>3, <1>4, <1>5, <2>2, <3>1 DEF row
  <2>3. QED
    BY <1>3, <2>1, <2>2
<1>10. \A q \in Requests : req'[q].pc \notin {"link", "finish"}
  BY <1>1, <1>3 DEF ChainInv, OneAtATime, InFlight
<1>11. StampedLast' /\ LinkedToLast'
  BY <1>10 DEF StampedLast, LinkedToLast
<1>12. QED
  BY <1>8, <1>9, <1>11

LEMMA ChainStep == ASSUME Serialised, ChainInv, [Next]_vars PROVE ChainInv'
<1>1. TypeInv' /\ OneAtATime'
  BY TypeStep, OneAtATimeStep DEF ChainInv
<1>2. CASE UNCHANGED <<blocks, audit, req>>
  BY <1>1, <1>2 DEF ChainInv, LogOrdered, StampedLast, LinkedToLast, LogLinked, PreviousHash, Created
<1>3. QED
  BY <1>1, <1>2, ChainQuiet, ChainCommit, StepKinds DEF ChainInv

\* In such a log the order of creation is that of the rows, and the walk of
\* verify_chain visits the rows that carry a hash.
LEMMA VerifiedRows ==
    ASSUME ChainInv
    PROVE  /\ \A j, k \in DOMAIN audit : Created(audit, k) <= Created(audit, j) <=> k <= j
           /\ \A j \in DOMAIN audit : j \in Verified(audit) <=> audit[j].hash # NoHash
<1>1. TypeInv /\ LogOrdered /\ LogLinked
  BY DEF ChainInv
<1>2. Verified(audit) \subseteq DOMAIN audit /\ DOMAIN audit \subseteq Nat
  BY <1>1, LogRows DEF Verified
<1>3. \A j, k \in DOMAIN audit : Created(audit, k) <= Created(audit, j) <=> k <= j
  <2> SUFFICES ASSUME NEW j \in DOMAIN audit, NEW k \in DOMAIN audit
               PROVE  Created(audit, k) <= Created(audit, j) <=> k <= j
    OBVIOUS
  <2>1. j \in Nat /\ k \in Nat /\ Created(audit, j) \in Nat /\ Created(audit, k) \in Nat
    BY <1>1, <1>2, LogRows
  <2>2. (j < k => Created(audit, j) < Created(audit, k)) /\ (k < j => Created(audit, k) < Created(audit, j))
    BY <1>1 DEF LogOrdered
  <2>3. QED
    BY <2>1, <2>2
<1>4. \A j \in DOMAIN audit : j \in Verified(audit) <=> audit[j].hash # NoHash
  <2> SUFFICES ASSUME NEW j \in DOMAIN audit
               PROVE  j \in Verified(audit) <=> audit[j].hash # NoHash
    OBVIOUS
  <2>1. CASE audit[j].hash # NoHash
    BY <1>2, <1>3, <2>1 DEF Verified, Chained
  <2>2. ASSUME j \in Verified(audit)
        PROVE  audit[j].hash # NoHash
    <3>1. PICK k \in Chained(audit) : Created(audit, k) <= Created(audit, j)
      BY <2>2 DEF Verified
    <3>2. k \in DOMAIN audit /\ audit[k].hash # NoHash
      BY <3>1 DEF Chained
    <3>3. k <= j
      BY <1>3, <3>1, <3>2
    <3>4. j = k \/ j > 1
      BY <1>1, <3>2, <3>3, LogRows
    <3>5. QED
      BY <1>1, <3>2, <3>4 DEF LogLinked
  <2>3. QED
    BY <2>1, <2>2
<1>5. QED
  BY <1>3, <1>4

\* The walk of verify_chain finds no mismatch in such a log.
LEMMA LinkedRowMatches ==
    ASSUME ChainInv, NEW i \in Verified(audit)
    PROVE  ~Mismatch(audit, i)
<1>1. TypeInv /\ LogOrdered /\ LogLinked
  BY DEF ChainInv
<1>2. Verified(audit) \subseteq DOMAIN audit /\ DOMAIN audit \subseteq Nat
  BY <1>1, LogRows DEF Verified
<1>3. \A j, k \in DOMAIN audit : Created(audit, k) <= Created(audit, j) <=> k <= j
  BY VerifiedRows
<1>4. \A j \in DOMAIN audit : j \in Verified(audit) <=> audit[j].hash # NoHash
  BY VerifiedRows
<1>5. i \in DOMAIN audit /\ audit[i].hash # NoHash
  BY <1>2, <1>4
<1> DEFINE before == {j \in Verified(audit) : Created(audit, j) < Created(audit, i)}
<1>6. before = {j \in DOMAIN audit : j < i /\ audit[j].hash # NoHash}
  <2>1. \A j \in DOMAIN audit : Created(audit, j) < Created(audit, i) <=> j < i
    <3> SUFFICES ASSUME NEW j \in DOMAIN audit
                 PROVE  Created(audit, j) < Created(audit, i) <=> j < i
      OBVIOUS
    <3>1. Created(audit, i) <= Created(audit, j) <=> i <= j
      BY <1>3, <1>5
    <3>2. j \in Nat /\ i \in Nat /\ Created(audit, j) \in Nat /\ Created(audit, i) \in Nat
      BY <1>1, <1>2, <1>5, LogRows
    <3>3. QED
      BY <3>1, <3>2
  <2>2. QED
    BY <1>2, <1>4, <2>1
<1>7. ExpectedPrev(audit, i) = IF before = {} THEN NoHash ELSE audit[Newest(audit, before)].hash
  BY DEF ExpectedPrev
<1> HIDE DEF before
<1>8. ExpectedPrev(audit, i) = PreviousHash(i)
  <2>1. CASE i = 1
    <3>1. before = {}
      BY <1>1, <1>6, <2>1, LogRows
    <3>2. QED
      BY <1>7, <2>1, <3>1 DEF PreviousHash
  <2>2. CASE i # 1
    <3>1. i - 1 \in DOMAIN audit /\ i - 1 < i /\ i \in Nat
          /\ \A j \in DOMAIN audit : j < i => j <= i - 1
      BY <1>1, <1>5, <2>2, LogRows
    <3>2. CASE audit[i - 1].hash # NoHash
      <4>1. i - 1 \in before /\ before \in SUBSET DOMAIN audit /\ \A j \in before : j <= i - 1
        BY <1>6, <3>1, <3>2
      <4>2. Newest(audit, before) = i - 1
        BY <1>1, <4>1, NewestIsLast
      <4>3. QED
        BY <1>7, <2>2, <4>1, <4>2 DEF PreviousHash
    <3>3. CASE audit[i - 1].hash = NoHash
      <4>1. i - 1 = 1
        BY <1>1, <3>1, <3>3, LogRows DEF LogLinked
      <4>2. before = {}
        BY <1>1, <1>6, <3>1, <3>3, <4>1, LogRows
      <4>3. QED
        BY <1>7, <2>2, <3>3, <4>2 DEF PreviousHash
    <3>4. QED
      BY <3>2, <3>3
  <2>3. QED
    BY <2>1, <2>2
<1>9. QED
  BY <1>1, <1>5, <1>8 DEF Mismatch, LogLinked

\* Requests that do not overlap leave a log that verify_chain accepts, however
\* many there are, whichever of them fail, and whatever legacy row comes first.
THEOREM ChainVerified == ASSUME Serialised PROVE Spec => []ChainVerifies
<1>1. Init => ChainInv
  BY ChainInit
<1>2. ChainInv /\ [Next]_vars => ChainInv'
  BY ChainStep
<1>3. ChainInv => ChainVerifies
  BY LinkedRowMatches DEF ChainVerifies, VerifyChain
<1>4. QED
  BY <1>1, <1>2, <1>3, PTL DEF Spec

-----------------------------------------------------------------------------
(* Edits of the log are found *)

\* An edit leaves a row a row, with its key, its created_at and its hash.
LEMMA EditedRow ==
    ASSUME NEW row \in AuditRows, NEW kind \in EditKinds, GetLatestHash(audit) \in Seq(Payloads)
    PROVE  /\ Edited(row, kind) \in AuditRows
           /\ Edited(row, kind).hash = row.hash
           /\ Edited(row, kind).payload.id = row.payload.id
           /\ Edited(row, kind).payload.created = row.payload.created
<1>1. /\ row.payload \in Payloads /\ row.prev \in Seq(Payloads) /\ row.hash \in Seq(Payloads)
      /\ row = [payload |-> row.payload, prev |-> row.prev, hash |-> row.hash]
  BY DEF AuditRows
<1>2. NoHash \in Seq(Payloads)
  BY DEF NoHash
<1>3. ASSUME NEW ids \in SUBSET Requests
      PROVE  /\ [row EXCEPT !.payload.blocks = ids] \in AuditRows
             /\ [row EXCEPT !.payload.blocks = ids].hash = row.hash
             /\ [row EXCEPT !.payload.blocks = ids].payload.id = row.payload.id
             /\ [row EXCEPT !.payload.blocks = ids].payload.created = row.payload.created
  <2> DEFINE p == [row.payload EXCEPT !.blocks = ids]
  <2>1. p \in Payloads /\ p.id = row.payload.id /\ p.created = row.payload.created
    BY <1>1 DEF Payloads
  <2>2. [row EXCEPT !.payload.blocks = ids] = [payload |-> p, prev |-> row.prev, hash |-> row.hash]
    BY <1>1
  <2> HIDE DEF p
  <2>3. QED
    BY <1>1, <2>1, <2>2 DEF AuditRows
<1>4. ASSUME NEW h \in Seq(Payloads)
      PROVE  /\ [row EXCEPT !.prev = h] \in AuditRows
             /\ [row EXCEPT !.prev = h].hash = row.hash
             /\ [row EXCEPT !.prev = h].payload = row.payload
  BY <1>1 DEF AuditRows
<1>5. CASE kind = "kept"
  BY <1>5 DEF Edited
<1>6. CASE kind = "cleared"
  BY <1>3, <1>6 DEF Edited
<1>7. CASE kind = "widened"
  BY <1>3, <1>7 DEF Edited
<1>8. CASE kind = "detached"
  BY <1>2, <1>4, <1>8 DEF Edited
<1>9. CASE kind = "relinked"
  BY <1>4, <1>9 DEF Edited
<1>10. QED
  BY <1>5, <1>6, <1>7, <1>8, <1>9 DEF EditKinds

LEMMA EditedLogRows ==
    ASSUME ChainInv, NEW kinds \in [Chained(audit) -> EditKinds]
    PROVE  /\ DOMAIN EditedLog(kinds) = DOMAIN audit
           /\ \A i \in DOMAIN audit :
                 /\ EditedLog(kinds)[i] \in AuditRows
                 /\ EditedLog(kinds)[i].hash = audit[i].hash
                 /\ EditedLog(kinds)[i].payload.id = audit[i].payload.id
                 /\ Created(EditedLog(kinds), i) = Created(audit, i)
<1>1. TypeInv /\ audit \in Seq(AuditRows)
  BY DEF ChainInv, TypeInv, TypeOK
<1>2. GetLatestHash(audit) \in Seq(Payloads)
  BY <1>1, LogRows, LatestHashType
<1>3. DOMAIN EditedLog(kinds) = DOMAIN audit
  BY DEF EditedLog
<1>4. ASSUME NEW i \in DOMAIN audit
      PROVE  /\ EditedLog(kinds)[i] \in AuditRows
             /\ EditedLog(kinds)[i].hash = audit[i].hash
             /\ EditedLog(kinds)[i].payload.id = audit[i].payload.id
             /\ EditedLog(kinds)[i].payload.created = audit[i].payload.created
  <2>1. audit[i] \in AuditRows
    BY <1>1
  <2>2. CASE i \in DOMAIN kinds
    <3>1. EditedLog(kinds)[i] = Edited(audit[i], kinds[i]) /\ kinds[i] \in EditKinds
      BY <2>2 DEF EditedLog
    <3>2. QED
      BY <1>2, <2>1, <3>1, EditedRow
  <2>3. CASE i \notin DOMAIN kinds
    BY <2>1, <2>3 DEF EditedLog
  <2>4. QED
    BY <2>2, <2>3
<1>5. QED
  BY <1>3, <1>4 DEF Created

\* verify_chain walks the edited log as it walked the log that was written.
LEMMA SameWalk ==
    ASSUME TypeInv, NEW log, DOMAIN log = DOMAIN audit,
           \A i \in DOMAIN audit : log[i].hash = audit[i].hash /\ Created(log, i) = Created(audit, i)
    PROVE  /\ Verified(log) = Verified(audit)
           /\ \A i \in DOMAIN audit : ExpectedPrev(log, i) = ExpectedPrev(audit, i)
           /\ \A S \in SUBSET DOMAIN audit : Oldest(log, S) = Oldest(audit, S)
<1>1. Chained(log) = Chained(audit) /\ Chained(audit) \subseteq DOMAIN audit
  BY DEF Chained
<1>2. Verified(log) = Verified(audit) /\ Verified(audit) \subseteq DOMAIN audit
  BY <1>1 DEF Verified
<1>3. ASSUME NEW S \in SUBSET DOMAIN audit
      PROVE  Newest(log, S) = Newest(audit, S) /\ Oldest(log, S) = Oldest(audit, S)
  <2>1. \A i \in S : (\A j \in S : Created(log, j) <= Created(log, i))
                        <=> (\A j \in S : Created(audit, j) <= Created(audit, i))
    OBVIOUS
  <2>2. \A i \in S : (\A j \in S : Created(log, i) <= Created(log, j))
                        <=> (\A j \in S : Created(audit, i) <= Created(audit, j))
    OBVIOUS
  <2>3. Newest(log, S) = Newest(audit, S)
    BY <2>1 DEF Newest
  <2>4. Oldest(log, S) = Oldest(audit, S)
    BY <2>2 DEF Oldest
  <2>5. QED
    BY <2>3, <2>4
<1>4. ASSUME NEW i \in DOMAIN audit
      PROVE  ExpectedPrev(log, i) = ExpectedPrev(audit, i)
  <2> DEFINE before == {j \in Verified(audit) : Created(audit, j) < Created(audit, i)}
  <2>1. before = {j \in Verified(log) : Created(log, j) < Created(log, i)}
    BY <1>2
  <2>2. before \in SUBSET DOMAIN audit
    BY <1>2
  <2>3. ExpectedPrev(audit, i) = IF before = {} THEN NoHash ELSE audit[Newest(audit, before)].hash
    BY DEF ExpectedPrev
  <2>4. ExpectedPrev(log, i) = IF before = {} THEN NoHash ELSE log[Newest(log, before)].hash
    BY <2>1 DEF ExpectedPrev
  <2> HIDE DEF before
  <2>5. Newest(log, before) = Newest(audit, before)
    BY <1>3, <2>2
  <2>6. CASE before = {}
    BY <2>3, <2>4, <2>6
  <2>7. CASE before # {}
    <3>1. Newest(audit, before) \in before
      BY <2>2, <2>7, LogRows, NewestIsNewest
    <3>2. QED
      BY <2>2, <2>3, <2>4, <2>5, <2>7, <3>1
  <2>8. QED
    BY <2>6, <2>7
<1>5. QED
  BY <1>2, <1>3, <1>4

\* A digest stands for the fields it was taken of.
LEMMA DigestInjective ==
    ASSUME NEW h \in Seq(Payloads), NEW p \in Payloads,
           NEW g \in Seq(Payloads), NEW o \in Payloads, Digest(h, p) = Digest(g, o)
    PROVE  h = g /\ p = o
<1>1. /\ Len(Append(h, p)) = Len(h) + 1 /\ Append(h, p)[Len(h) + 1] = p
      /\ \A k \in 1 .. Len(h) : Append(h, p)[k] = h[k]
  BY AppendProperties
<1>2. /\ Len(Append(g, o)) = Len(g) + 1 /\ Append(g, o)[Len(g) + 1] = o
      /\ \A k \in 1 .. Len(g) : Append(g, o)[k] = g[k]
  BY AppendProperties
<1>3. Append(h, p) = Append(g, o)
  BY DEF Digest
<1>4. Len(h) \in Nat /\ Len(g) \in Nat
  OBVIOUS
<1>5. Len(h) = Len(g)
  BY <1>1, <1>2, <1>3, <1>4
<1>6. h = g
  BY <1>1, <1>2, <1>3, <1>5, SeqEqual
<1>7. QED
  BY <1>1, <1>2, <1>3, <1>5, <1>6

\* So a row mismatches exactly when it is no longer what was written.
LEMMA MismatchIsEdit ==
    ASSUME ChainInv, NEW kinds \in [Chained(audit) -> EditKinds], NEW i \in Chained(audit)
    PROVE  Mismatch(EditedLog(kinds), i) <=> EditedLog(kinds)[i] # audit[i]
<1> DEFINE new == EditedLog(kinds)[i]
<1> DEFINE old == audit[i]
<1>1. i \in DOMAIN audit /\ audit[i].hash # NoHash
  BY DEF Chained
<1>2. new \in AuditRows /\ old \in AuditRows /\ new.hash = old.hash
  <2>1. audit \in Seq(AuditRows)
    BY DEF ChainInv, TypeInv, TypeOK
  <2>2. QED
    BY <1>1, <2>1, EditedLogRows
<1>3. ExpectedPrev(EditedLog(kinds), i) = ExpectedPrev(audit, i)
  BY <1>1, EditedLogRows, SameWalk DEF ChainInv
<1>4. old.prev = ExpectedPrev(audit, i) /\ Digest(old.prev, old.payload) = old.hash
  <2>1. i \in Verified(audit)
    BY <1>1, VerifiedRows
  <2>2. ~Mismatch(audit, i)
    BY <2>1, LinkedRowMatches
  <2>3. QED
    BY <2>2 DEF Mismatch
<1>5. Mismatch(EditedLog(kinds), i) <=> new.prev # old.prev \/ Digest(new.prev, new.payload) # old.hash
  BY <1>2, <1>3, <1>4 DEF Mismatch
<1> HIDE DEF new, old
<1>6. /\ new.prev \in Seq(Payloads) /\ new.payload \in Payloads
      /\ old.prev \in Seq(Payloads) /\ old.payload \in Payloads
      /\ (new = old <=> new.prev = old.prev /\ new.payload = old.payload)
  BY <1>2 DEF AuditRows
<1>7. Digest(new.prev, new.payload) = Digest(old.prev, old.payload)
        <=> new.prev = old.prev /\ new.payload = old.payload
  BY <1>6, DigestInjective
<1>8. Mismatch(EditedLog(kinds), i) <=> new # old
  BY <1>4, <1>5, <1>6, <1>7
<1>9. QED
  BY <1>8 DEF new, old

\* Of a log that requests wrote one after the other, verify_chain reports
\* every edit of a prev_hash or of a detail, however many rows are edited, and
\* names the oldest of them (test_audit_chain.py:106-137).
THEOREM TamperingLocalised == ASSUME Serialised PROVE Spec => []TamperingIsLocalised
<1>1. ASSUME ChainInv
      PROVE  TamperingIsLocalised
  <2> SUFFICES ASSUME NEW kinds \in [Chained(audit) -> EditKinds]
               PROVE  LET log    == EditedLog(kinds)
                          edited == {i \in Chained(audit) : log[i] # audit[i]}
                          result == VerifyChain(log)
                      IN  /\ result.ok <=> edited = {}
                          /\ edited # {} => result.invalid = {audit[Oldest(audit, edited)].payload.id}
    BY DEF TamperingIsLocalised
  <2> DEFINE log == EditedLog(kinds)
             edited == {i \in Chained(audit) : log[i] # audit[i]}
             bad == {i \in Verified(log) : Mismatch(log, i)}
  <2>1. Chained(audit) \subseteq DOMAIN audit /\ Verified(log) = Chained(audit)
    <3>1. Verified(audit) = Chained(audit)
      BY <1>1, VerifiedRows DEF Verified, Chained
    <3>2. QED
      BY <1>1, <3>1, EditedLogRows, SameWalk DEF Chained, ChainInv
  <2>2. bad = edited
    BY <1>1, <2>1, MismatchIsEdit
  <2>3. edited \in SUBSET DOMAIN audit
    BY <2>1
  <2>4. Oldest(log, edited) = Oldest(audit, edited)
    BY <1>1, <2>3, EditedLogRows, SameWalk DEF ChainInv
  <2>5. ASSUME edited # {}
        PROVE  Oldest(audit, edited) \in DOMAIN audit
    <3>1. edited \in SUBSET Nat
      BY <1>1, <2>3, LogRows DEF ChainInv
    <3> HIDE DEF edited
    <3>2. PICK m \in edited : \A n \in edited : m <= n
      BY <2>5, <3>1, LeastNatural
    <3>3. \A n \in edited : Created(audit, m) <= Created(audit, n)
      BY <1>1, <2>3, <3>2, VerifiedRows
    <3>4. Oldest(audit, edited) \in edited
      BY <3>2, <3>3 DEF Oldest
    <3>5. QED
      BY <2>3, <3>4
  <2>6. log[Oldest(audit, edited)].payload.id = audit[Oldest(audit, edited)].payload.id
          \/ edited = {}
    BY <1>1, <2>5, EditedLogRows
  <2>7. VerifyChain(log).ok <=> bad = {}
    BY DEF VerifyChain
  <2>8. bad # {} => VerifyChain(log).invalid = {log[Oldest(log, bad)].payload.id}
    BY DEF VerifyChain
  <2> HIDE DEF log, edited, bad
  <2>9. /\ VerifyChain(log).ok <=> edited = {}
        /\ edited # {} => VerifyChain(log).invalid = {audit[Oldest(audit, edited)].payload.id}
    BY <2>2, <2>4, <2>6, <2>7, <2>8
  <2>10. QED
    BY <2>9 DEF log, edited
<1>2. Init => ChainInv
  BY ChainInit
<1>3. ChainInv /\ [Next]_vars => ChainInv'
  BY ChainStep
<1>4. QED
  BY <1>1, <1>2, <1>3, PTL DEF Spec

-----------------------------------------------------------------------------
(* Leases: what an address's rows say between two requests *)

Prepared(r) == req[r].pc \in {"stamp", "link", "finish"}

OneInForce ==
    \A b, c \in blocks :
        b.ip = c.ip /\ InForce(b, clock) /\ InForce(c, clock) => b = c

\* Nobody has changed what the request found: a free address is still free,
\* and the rows to deactivate are still all the active ones.
FoundIsCurrent ==
    \A r \in Requests : Prepared(r) =>
        /\ req[r].call.op = "block" /\ req[r].found = {}
              => ActiveBlocks(req[r].call.ip, clock) = {}
        /\ req[r].call.op = "unblock"
              => req[r].found = {b.id : b \in AllActiveBlocks(req[r].call.ip)}

\* A block_ip entry and the row of its key name the same address.
EntriesNameRows ==
    \A i \in Entries("block_ip"), b \in blocks :
        b.id = audit[i].payload.id => b.ip = audit[i].payload.ip

\* A row's expiry was counted from a time not later than now.
LeasesFromArrivals ==
    /\ \A b \in blocks : b.expires \in Registry!Expiries
    /\ \A r \in Requests : req[r].now <= clock

LeaseInv ==
    /\ AnswerInv
    /\ OneAtATime
    /\ OneInForce
    /\ FoundIsCurrent
    /\ EntriesNameRows
    /\ LeasesFromArrivals
    /\ UnblockCoversEarlierBlocks

\* Deactivation moves no row to another address or expiry, and the rows it
\* leaves active are the active ones it did not name.
LEMMA DeactivatedColumns ==
    ASSUME TypeInv, NEW ids \in SUBSET Requests
    PROVE  /\ \A b \in Deactivated(ids) :
                 \E c \in blocks : c.id = b.id /\ c.ip = b.ip /\ c.expires = b.expires
           /\ \A b : b \in Deactivated(ids) /\ b.active
                     <=> b \in blocks /\ b.active /\ b.id \notin ids
<1> DEFINE Update(b) == IF b.id \in ids THEN [b EXCEPT !.active = FALSE] ELSE b
<1>1. ASSUME NEW b \in blocks
      PROVE  /\ Update(b).id = b.id /\ Update(b).ip = b.ip /\ Update(b).expires = b.expires
             /\ b.id \in ids => Update(b).active = FALSE
             /\ b.id \notin ids => Update(b) = b
  <2>1. b \in BlockRows
    BY KeysAreRequests
  <2>2. QED
    BY <2>1 DEF BlockRows
<1>2. Deactivated(ids) = {Update(b) : b \in blocks}
  BY DEF Deactivated
<1> HIDE DEF Update
<1>3. QED
  BY <1>1, <1>2

LEMMA ClockAdvances ==
    ASSUME TypeInv, [Next]_vars
    PROVE  clock \in Nat /\ clock' \in Nat /\ clock <= clock'
<1>1. clock \in Nat
  BY DEF TypeInv, TypeOK
<1>2. clock' = clock \/ clock' = clock + 1
  BY DEF Next, vars, Tick, Arrive, FindActive, FindAll, Stamp, Link, CommitBlock, Commit,
         ReturnAlreadyBlocked, CommitUnblockNoop, CommitUnblock, Return, Fail
<1>3. QED
  BY <1>1, <1>2

\* Time puts no row back into force.
LEMMA ForceEnds ==
    ASSUME TypeInv, [Next]_vars, NEW b \in blocks, InForce(b, clock')
    PROVE  InForce(b, clock)
<1>1. b.expires \in Nat
  BY KeysAreRequests DEF BlockRows
<1>2. QED
  BY <1>1, ClockAdvances DEF InForce

\* Neither does it take a possible expiry away.
LEMMA ExpiriesGrow ==
    ASSUME TypeInv, [Next]_vars
    PROVE  Registry!Expiries \subseteq Registry!Expiries'
BY ClockAdvances DEF Registry!Expiries

LEMMA LeaseInit == Init => LeaseInv
<1> SUFFICES ASSUME Init
             PROVE  LeaseInv
  OBVIOUS
<1>1. \A r \in Requests : req[r].pc = "new" /\ req[r].now = 0
  BY DEF Init, Fresh
<1>2. blocks = {} /\ clock = 1
  BY DEF Init
<1>3. OneInForce /\ EntriesNameRows /\ UnblockCoversEarlierBlocks
  BY <1>2 DEF OneInForce, EntriesNameRows, UnblockCoversEarlierBlocks
<1>4. FoundIsCurrent /\ LeasesFromArrivals
  BY <1>1, <1>2 DEF FoundIsCurrent, Prepared, LeasesFromArrivals
<1>5. QED
  BY <1>3, <1>4, AnswerInit, OneAtATimeInit DEF LeaseInv

\* What the parts that speak of committed rows alone need of a step that
\* commits nothing.
LEMMA LeaseStored ==
    ASSUME LeaseInv, [Next]_vars, UNCHANGED <<blocks, audit>>
    PROVE  /\ OneInForce' /\ EntriesNameRows' /\ UnblockCoversEarlierBlocks'
           /\ \A b \in blocks' : b.expires \in Registry!Expiries'
           /\ \A ip \in IPs : ActiveBlocks(ip, clock) = {} => ActiveBlocks(ip, clock)' = {}
<1>1. TypeInv
  BY DEF LeaseInv, AnswerInv
<1>2. OneInForce'
  BY <1>1, ForceEnds DEF LeaseInv, OneInForce, InForce
<1>3. EntriesNameRows' /\ UnblockCoversEarlierBlocks'
  BY DEF LeaseInv, EntriesNameRows, UnblockCoversEarlierBlocks, Entries
<1>4. \A b \in blocks' : b.expires \in Registry!Expiries'
  BY <1>1, ExpiriesGrow DEF LeaseInv, LeasesFromArrivals
<1>5. ASSUME NEW ip \in IPs, ActiveBlocks(ip, clock) = {}
      PROVE  ActiveBlocks(ip, clock)' = {}
  BY <1>1, <1>5, ForceEnds DEF ActiveBlocks, InForce
<1>6. QED
  BY <1>2, <1>3, <1>4, <1>5

LEMMA LeaseQuiet ==
    ASSUME LeaseInv, [Next]_vars, NEW r \in Requests, Quiet(r)
    PROVE  /\ OneInForce' /\ FoundIsCurrent' /\ EntriesNameRows' /\ LeasesFromArrivals'
           /\ UnblockCoversEarlierBlocks'
<1>1. TypeInv /\ TypeInv'
  BY TypeStep DEF LeaseInv, AnswerInv
<1>2. /\ UNCHANGED <<blocks, audit>>
      /\ \A q \in Requests : q # r => req'[q] = req[q]
  BY <1>1, QuietStores
<1>3. \A q \in Requests : /\ req[q] \in RequestStates /\ req'[q] \in RequestStates
                          /\ req[q].call \in Calls /\ req[q].call.ip \in IPs
  BY <1>1 DEF TypeInv, TypeOK, RequestStates, Calls
<1>4. req'[r].now = req[r].now \/ req'[r].now = clock
  <2>1. req \in [Requests -> RequestStates] /\ req[r] \in RequestStates
    BY <1>1 DEF TypeInv, TypeOK
  <2>2. CASE FindActive(r)
    <3>1. PICK found : req' = [req EXCEPT ![r].pc = "stamp", ![r].found = found]
      BY <2>2 DEF FindActive
    <3>2. QED
      BY <2>1, <3>1 DEF RequestStates
  <2>3. CASE Arrive(r) \/ FindAll(r) \/ Stamp(r) \/ Link(r) \/ ReturnAlreadyBlocked(r) \/ Return(r) \/ Fail(r)
    BY <2>1, <2>3 DEF Arrive, FindAll, Stamp, Link, ReturnAlreadyBlocked, Return, Fail, Goto,
                      RequestStates
  <2>4. QED
    BY <2>2, <2>3 DEF Quiet
<1>5. LeasesFromArrivals'
  <2>1. ASSUME NEW q \in Requests
        PROVE  req'[q].now <= clock'
    <3>1. req[q].now \in Nat /\ req[q].now <= clock
      BY <1>3 DEF LeaseInv, LeasesFromArrivals, RequestStates
    <3>2. req'[q].now = req[q].now \/ req'[q].now = clock
      BY <1>2, <1>4
    <3>3. QED
      BY <1>1, <3>1, <3>2, ClockAdvances
  <2>2. QED
    BY <1>2, <2>1, LeaseStored DEF LeasesFromArrivals
<1>6. ASSUME NEW q \in Requests, Prepared(q)'
      PROVE  /\ req'[q].call = req[q].call
             /\ \/ Prepared(q) /\ req'[q].found = req[q].found
                \/ q = r /\ (FindActive(r) \/ FindAll(r))
  <2>1. CASE q # r
    BY <1>2, <1>6, <2>1 DEF Prepared
  <2>2. CASE q = r
    BY <1>1, <1>6, <2>2, QuietLabels DEF Prepared, Stamp, Link
  <2>3. QED
    BY <2>1, <2>2
<1>7. ASSUME FindActive(r)
      PROVE  req'[r].found = {} => ActiveBlocks(req[r].call.ip, clock) = {}
  <2> DEFINE rows == ActiveBlocks(req[r].call.ip, clock)
  <2>1. PICK found \in (IF rows = {} THEN {{}} ELSE {{b.id} : b \in rows}) :
           req' = [req EXCEPT ![r].pc = "stamp", ![r].found = found]
    BY <1>7 DEF FindActive
  <2>2. req'[r].found = found
    BY <1>1, <1>3, <2>1 DEF TypeInv, TypeOK, RequestStates
  <2> HIDE DEF rows
  <2>3. found = {} => rows = {}
    BY <2>1
  <2>4. QED
    BY <2>2, <2>3 DEF rows
<1>8. ASSUME FindAll(r)
      PROVE  req'[r].found = {b.id : b \in AllActiveBlocks(req[r].call.ip)}
  <2> DEFINE found == {b.id : b \in AllActiveBlocks(req[r].call.ip)}
  <2>1. req' = [req EXCEPT ![r].pc = "stamp", ![r].found = found]
    BY <1>8 DEF FindAll
  <2> HIDE DEF found
  <2>2. req'[r].found = found
    BY <1>1, <1>3, <2>1 DEF TypeInv, TypeOK, RequestStates
  <2>3. QED
    BY <2>2 DEF found
<1>9. FoundIsCurrent'
  <2> SUFFICES ASSUME NEW q \in Requests, Prepared(q)'
               PROVE  /\ req'[q].call.op = "block" /\ req'[q].found = {}
                            => ActiveBlocks(req'[q].call.ip, clock') = {}
                      /\ req'[q].call.op = "unblock"
                            => req'[q].found = {b.id : b \in AllActiveBlocks(req'[q].call.ip)}
    BY <1>2 DEF FoundIsCurrent, ActiveBlocks, AllActiveBlocks
  <2>1. CASE Prepared(q) /\ req'[q].found = req[q].found
    BY <1>3, <1>6, <2>1, LeaseStored, <1>2 DEF LeaseInv, FoundIsCurrent, ActiveBlocks
  <2>2. CASE q = r /\ FindActive(r)
    BY <1>2, <1>3, <1>6, <1>7, <2>2, LeaseStored DEF FindActive, ActiveBlocks
  <2>3. CASE q = r /\ FindAll(r)
    BY <1>6, <1>8, <2>3 DEF FindAll
  <2>4. QED
    BY <1>6, <2>1, <2>2, <2>3
<1>10. QED
  BY <1>2, <1>5, <1>9, LeaseStored

\* A commit finds every other request at rest, and its own key unused.
LEMMA CommitAlone ==
    ASSUME LeaseInv, NEW r \in Requests, Commits(r)
    PROVE  /\ TypeInv /\ req[r].pc = "finish" /\ clock' = clock
           /\ \A q \in Requests : ~Prepared(q)' /\ req'[q].now = req[q].now
           /\ ~Logged(r) /\ ~Stored(r)
<1>1. TypeInv /\ req[r].pc = "finish" /\ req[r] \in RequestStates
      /\ req \in [Requests -> RequestStates]
  BY CommitKinds DEF LeaseInv, AnswerInv, TypeInv, TypeOK
<1>2. PICK action \in Actions, ids \in SUBSET Requests, note \in Notes \ {"none"} :
         audit' = Append(audit, AuditRow(r, action, ids)) /\ Commit(r, note)
  BY <1>1, CommitKinds
<1>3. /\ \A q \in Requests : q # r => req'[q] = req[q]
      /\ req'[r].pc = "committed" /\ clock' = clock
  BY <1>1, <1>2, CommitAppends
<1>4. req'[r].now = req[r].now
  BY <1>1, <1>2 DEF Commit, RequestStates
<1>5. \A q \in Requests : q # r => ~InFlight(q)
  BY <1>1 DEF LeaseInv, OneAtATime, InFlight
<1>6. \A q \in Requests : ~Prepared(q)' /\ req'[q].now = req[q].now
  BY <1>3, <1>4, <1>5 DEF Prepared, InFlight
<1>7. req[r].note = "none"
  BY <1>1 DEF LeaseInv, AnswerInv, NotedWhenSettled, Settled
<1>8. ~Logged(r) /\ ~Stored(r)
  BY <1>7 DEF LeaseInv, AnswerInv, NotesMatchRows, Logged, Stored
<1>9. QED
  BY <1>1, <1>3, <1>6, <1>8

\* The entries a log has after a commit: the old ones and the new one.
LEMMA CommitLog ==
    ASSUME LeaseInv, NEW r \in Requests, Commits(r)
    PROVE  \E n \in Nat :
              /\ DOMAIN audit' = DOMAIN audit \cup {n}
              /\ \A i \in DOMAIN audit : i \in Nat /\ i < n /\ audit'[i] = audit[i]
              /\ audit'[n].payload.id = r /\ audit'[n].payload.ip = req[r].call.ip
              /\ audit'[n].payload.action = "block_ip" <=> CommitBlock(r)
<1>1. TypeInv /\ req[r].pc = "finish"
  BY CommitAlone
<1>2. PICK action \in Actions, ids \in SUBSET Requests, note \in Notes \ {"none"} :
         /\ audit' = Append(audit, AuditRow(r, action, ids)) /\ Commit(r, note)
         /\ action = "block_ip" <=> CommitBlock(r)
  BY <1>1, CommitKinds
<1>3. /\ DOMAIN audit' = DOMAIN audit \cup {Len(audit) + 1}
      /\ \A i \in DOMAIN audit : audit'[i] = audit[i] /\ i < Len(audit) + 1
      /\ audit'[Len(audit) + 1] = AuditRow(r, action, ids)
  BY <1>1, <1>2, CommitAppends
<1>4. Len(audit) + 1 \in Nat /\ \A i \in DOMAIN audit : i \in Nat
  BY <1>1, LogRows
<1>5. QED
  BY <1>2, <1>3, <1>4 DEF AuditRow

LEMMA LeaseBlock ==
    ASSUME LeaseInv, NEW r \in Requests, CommitBlock(r)
    PROVE  /\ OneInForce' /\ EntriesNameRows' /\ UnblockCoversEarlierBlocks'
           /\ \A b \in blocks' : b.expires \in Registry!Expiries'
<1>1. /\ TypeInv /\ clock' = clock /\ ~Logged(r) /\ ~Stored(r) /\ req[r].pc = "finish"
      /\ Commits(r)
  BY CommitAlone DEF Commits
<1>2. /\ blocks' = blocks \cup {BlockRow(r)}
      /\ req[r].call.op = "block" /\ req[r].found = {}
  BY DEF CommitBlock
<1>3. PICK n \in Nat :
         /\ DOMAIN audit' = DOMAIN audit \cup {n}
         /\ \A i \in DOMAIN audit : i \in Nat /\ i < n /\ audit'[i] = audit[i]
         /\ audit'[n].payload.id = r /\ audit'[n].payload.ip = req[r].call.ip
         /\ audit'[n].payload.action = "block_ip"
  BY <1>1, CommitLog
<1>4. BlockRow(r).id = r /\ BlockRow(r).ip = req[r].call.ip
  BY DEF BlockRow
<1>5. ActiveBlocks(req[r].call.ip, clock) = {}
  BY <1>1, <1>2 DEF LeaseInv, FoundIsCurrent, Prepared
<1>6. \A b \in blocks : ~(b.ip = req[r].call.ip /\ InForce(b, clock))
  BY <1>5 DEF ActiveBlocks
<1>7. OneInForce'
  <2> SUFFICES ASSUME NEW b \in blocks', NEW c \in blocks', b.ip = c.ip,
                      InForce(b, clock), InForce(c, clock)
               PROVE  b = c
    BY <1>1 DEF OneInForce, InForce
  <2>1. CASE b \in blocks /\ c \in blocks
    BY <2>1 DEF LeaseInv, OneInForce
  <2>2. CASE b = BlockRow(r) \/ c = BlockRow(r)
    BY <1>2, <1>4, <1>6, <2>2
  <2>3. QED
    BY <1>2, <2>1, <2>2
<1>8. \A i \in DOMAIN audit : audit[i].payload.id # r
  BY <1>1 DEF Logged
<1>9. \A b \in blocks : b.id # r
  BY <1>1 DEF Stored
<1>10. EntriesNameRows'
  <2> SUFFICES ASSUME NEW i \in DOMAIN audit', audit'[i].payload.action = "block_ip",
                      NEW b \in blocks', b.id = audit'[i].payload.id
               PROVE  b.ip = audit'[i].payload.ip
    BY DEF EntriesNameRows, Entries
  <2>1. CASE i \in DOMAIN audit /\ b \in blocks
    BY <1>3, <2>1 DEF LeaseInv, EntriesNameRows, Entries
  <2>2. CASE i \in DOMAIN audit /\ b = BlockRow(r)
    BY <1>3, <1>4, <1>8, <2>2
  <2>3. CASE i = n /\ b \in blocks
    BY <1>3, <1>9, <2>3
  <2>4. CASE i = n /\ b = BlockRow(r)
    BY <1>3, <1>4, <2>4
  <2>5. QED
    BY <1>2, <1>3, <2>1, <2>2, <2>3, <2>4
<1>11. UnblockCoversEarlierBlocks'
  <2> SUFFICES ASSUME NEW i \in DOMAIN audit', NEW j \in DOMAIN audit', j < i,
                      audit'[i].payload.action \in {"unblock_ip", "unblock_ip_noop"},
                      audit'[j].payload.action = "block_ip",
                      audit'[j].payload.ip = audit'[i].payload.ip,
                      NEW b \in blocks', b.id = audit'[j].payload.id
               PROVE  ~b.active
    BY DEF UnblockCoversEarlierBlocks, Entries
  <2>1. i \in DOMAIN audit
    BY <1>3
  <2>2. j \in DOMAIN audit
    BY <1>3, <2>1
  <2>3. b \in blocks
    BY <1>2, <1>3, <1>4, <1>8, <2>2
  <2>4. QED
    BY <1>3, <2>1, <2>2, <2>3 DEF LeaseInv, UnblockCoversEarlierBlocks, Entries
<1>12. BlockRow(r).expires \in Registry!Expiries
  <2>1. req[r] \in RequestStates /\ clock \in Nat
    BY <1>1 DEF TypeInv, TypeOK
  <2>2. req[r].now \in 0 .. clock /\ req[r].call.ttl \in TTLs \cup {NoTTL}
    BY <2>1 DEF LeaseInv, LeasesFromArrivals, RequestStates, Calls
  <2>3. QED
    BY <2>2 DEF BlockRow, NoExpiry, Registry!Expiries
<1>13. \A b \in blocks' : b.expires \in Registry!Expiries'
  BY <1>1, <1>2, <1>12 DEF LeaseInv, LeasesFromArrivals, Registry!Expiries
<1>14. QED
  BY <1>7, <1>10, <1>11, <1>13

LEMMA LeaseUnblock ==
    ASSUME LeaseInv, NEW r \in Requests, CommitUnblock(r) \/ CommitUnblockNoop(r)
    PROVE  /\ OneInForce' /\ EntriesNameRows' /\ UnblockCoversEarlierBlocks'
           /\ \A b \in blocks' : b.expires \in Registry!Expiries'
<1>1. /\ TypeInv /\ clock' = clock /\ req[r].pc = "finish" /\ Commits(r)
  BY CommitAlone DEF Commits
<1>2. req[r].call.op = "unblock" /\ req[r].found \in SUBSET Requests /\ ~CommitBlock(r)
  BY <1>1 DEF CommitUnblock, CommitUnblockNoop, CommitBlock, TypeInv, TypeOK, RequestStates
<1>3. PICK n \in Nat :
         /\ DOMAIN audit' = DOMAIN audit \cup {n}
         /\ \A i \in DOMAIN audit : i \in Nat /\ i < n /\ audit'[i] = audit[i]
         /\ audit'[n].payload.ip = req[r].call.ip
         /\ audit'[n].payload.action # "block_ip"
  BY <1>1, <1>2, CommitLog
<1>4. /\ \A b \in blocks' :
            \E c \in blocks : c.id = b.id /\ c.ip = b.ip /\ c.expires = b.expires
      /\ \A b \in blocks' : b.active => b \in blocks /\ b.id \notin req[r].found
  <2>1. CASE CommitUnblock(r)
    BY <1>1, <1>2, <2>1, DeactivatedColumns DEF CommitUnblock
  <2>2. CASE CommitUnblockNoop(r)
    BY <2>2 DEF CommitUnblockNoop
  <2>3. QED
    BY <2>1, <2>2
<1>5. req[r].found = {b.id : b \in AllActiveBlocks(req[r].call.ip)}
  BY <1>1, <1>2 DEF LeaseInv, FoundIsCurrent, Prepared
<1>6. \A b \in blocks' : b.active => b \in blocks /\ b.ip # req[r].call.ip
  BY <1>4, <1>5 DEF AllActiveBlocks
<1>7. OneInForce'
  BY <1>1, <1>4 DEF LeaseInv, OneInForce, InForce
<1>8. EntriesNameRows'
  <2> SUFFICES ASSUME NEW i \in DOMAIN audit', audit'[i].payload.action = "block_ip",
                      NEW b \in blocks', b.id = audit'[i].payload.id
               PROVE  b.ip = audit'[i].payload.ip
    BY DEF EntriesNameRows, Entries
  <2>1. i \in DOMAIN audit /\ audit'[i] = audit[i]
    BY <1>3
  <2>2. PICK c \in blocks : c.id = b.id /\ c.ip = b.ip
    BY <1>4
  <2>3. QED
    BY <2>1, <2>2 DEF LeaseInv, EntriesNameRows, Entries
<1>9. UnblockCoversEarlierBlocks'
  <2> SUFFICES ASSUME NEW i \in DOMAIN audit', NEW j \in DOMAIN audit', j < i,
                      audit'[i].payload.action \in {"unblock_ip", "unblock_ip_noop"},
                      audit'[j].payload.action = "block_ip",
                      audit'[j].payload.ip = audit'[i].payload.ip,
                      NEW b \in blocks', b.id = audit'[j].payload.id, b.active
               PROVE  FALSE
    BY DEF UnblockCoversEarlierBlocks, Entries
  <2>1. j \in DOMAIN audit /\ audit'[j] = audit[j]
    BY <1>3
  <2>2. b \in blocks /\ b.ip # req[r].call.ip
    BY <1>6
  <2>3. CASE i = n
    BY <1>3, <2>1, <2>2, <2>3 DEF LeaseInv, EntriesNameRows, Entries
  <2>4. CASE i \in DOMAIN audit
    BY <1>3, <2>1, <2>2, <2>4 DEF LeaseInv, UnblockCoversEarlierBlocks, Entries
  <2>5. QED
    BY <1>3, <2>3, <2>4
<1>10. \A b \in blocks' : b.expires \in Registry!Expiries'
  BY <1>1, <1>4 DEF LeaseInv, LeasesFromArrivals, Registry!Expiries
<1>11. QED
  BY <1>7, <1>8, <1>9, <1>10

LEMMA LeaseStep == ASSUME Serialised, LeaseInv, [Next]_vars PROVE LeaseInv'
<1>1. TypeInv /\ AnswerInv' /\ OneAtATime'
  BY AnswerStep, OneAtATimeStep DEF LeaseInv, AnswerInv
<1>2. CASE UNCHANGED <<blocks, audit, req>>
  <2>1. ASSUME NEW r \in Requests, Prepared(r), req[r].call.op = "block", req[r].found = {}
        PROVE  ActiveBlocks(req[r].call.ip, clock') = {}
    <3>1. req[r].call.ip \in IPs /\ ActiveBlocks(req[r].call.ip, clock) = {}
      BY <1>1, <2>1 DEF TypeInv, TypeOK, RequestStates, Calls, LeaseInv, FoundIsCurrent
    <3>2. QED
      BY <1>2, <3>1, LeaseStored DEF ActiveBlocks
  <2>2. FoundIsCurrent'
    BY <1>2, <2>1 DEF LeaseInv, FoundIsCurrent, Prepared, ActiveBlocks, AllActiveBlocks
  <2>3. \A r \in Requests : req'[r].now <= clock'
    <3>1. \A r \in Requests : req[r].now \in Nat /\ req[r].now <= clock
      BY <1>1 DEF LeaseInv, LeasesFromArrivals, TypeInv, TypeOK, RequestStates
    <3>2. QED
      BY <1>1, <1>2, <3>1, ClockAdvances
  <2>4. QED
    BY <1>1, <1>2, <2>2, <2>3, LeaseStored DEF LeaseInv, LeasesFromArrivals
<1>3. ASSUME NEW r \in Requests, Quiet(r)
      PROVE  LeaseInv'
  BY <1>1, <1>3, LeaseQuiet DEF LeaseInv
<1>4. ASSUME NEW r \in Requests, Commits(r)
      PROVE  LeaseInv'
  <2>1. /\ OneInForce' /\ EntriesNameRows' /\ UnblockCoversEarlierBlocks'
        /\ \A b \in blocks' : b.expires \in Registry!Expiries'
    BY <1>4, LeaseBlock, LeaseUnblock DEF Commits
  <2>2. FoundIsCurrent' /\ LeasesFromArrivals'
    BY <1>4, <2>1, CommitAlone DEF FoundIsCurrent, LeaseInv, LeasesFromArrivals
  <2>3. QED
    BY <1>1, <2>1, <2>2 DEF LeaseInv
<1>5. QED
  BY <1>2, <1>3, <1>4, StepKinds

LEMMA LeaseInvHolds == ASSUME Serialised PROVE Spec => []LeaseInv
<1>1. Init => LeaseInv
  BY LeaseInit
<1>2. LeaseInv /\ [Next]_vars => LeaseInv'
  BY LeaseStep
<1>3. QED
  BY <1>1, <1>2, PTL DEF Spec

\* Requests that do not overlap never put two blocks of one address in force:
\* block_ip looks for one before it adds its own, and time adds none.
THEOREM OneBlockEach == ASSUME Serialised PROVE Spec => []OneBlockInForce
<1>1. LeaseInv => OneBlockInForce
  <2> SUFFICES ASSUME LeaseInv, NEW ip \in IPs
               PROVE  Cardinality(ActiveBlocks(ip, clock)) <= 1
    BY DEF OneBlockInForce
  <2> DEFINE rows == ActiveBlocks(ip, clock)
  <2>1. \A b, c \in rows : b = c
    BY DEF LeaseInv, OneInForce, ActiveBlocks
  <2>2. CASE rows = {}
    BY <2>2, FS_EmptySet
  <2>3. CASE rows # {}
    <3>1. PICK b : rows = {b}
      BY <2>1, <2>3
    <3>2. Cardinality(rows) = 1
      BY <3>1, FS_Singleton
    <3>3. QED
      BY <3>2
  <2>4. QED
    BY <2>2, <2>3
<1>2. QED
  BY <1>1, LeaseInvHolds, PTL

\* Without an overlap, an unblock in the log leaves no block logged before it
\* active: unblock_ip reads every active row, and no row appears behind it.
THEOREM UnblockIsComplete == ASSUME Serialised PROVE Spec => []UnblockCoversEarlierBlocks
<1>1. LeaseInv => UnblockCoversEarlierBlocks
  BY DEF LeaseInv
<1>2. QED
  BY <1>1, LeaseInvHolds, PTL

-----------------------------------------------------------------------------
(* The two tables implement one lease per address and a trail *)

Leases == [ip \in IPs |-> LeaseOf(ip)]

TrailEntry(row) == [action |-> row.payload.action, ip |-> row.payload.ip]

LEMMA TrailAppend ==
    ASSUME NEW log \in Seq(AuditRows), NEW row \in AuditRows
    PROVE  TrailOf(Append(log, row)) = Append(TrailOf(log), TrailEntry(row))
<1> DEFINE n == Len(log)
<1> DEFINE Entry == [action : Actions, ip : IPs]
<1>1. n \in Nat /\ DOMAIN log = 1 .. n
  OBVIOUS
<1>2. \A a \in AuditRows : TrailEntry(a) \in Entry
  BY DEF TrailEntry, AuditRows, Payloads
<1>3. TrailOf(log) \in [1 .. n -> Entry] /\ \A i \in 1 .. n : TrailOf(log)[i] = TrailEntry(log[i])
  BY <1>1, <1>2 DEF TrailOf, TrailEntry
<1>4. TrailOf(log) \in Seq(Entry) /\ Len(TrailOf(log)) = n
  <2> HIDE DEF Entry, n
  <2>1. TrailOf(log) \in Seq(Entry)
    BY <1>1, <1>3, SeqDef
  <2>2. QED
    BY <1>1, <1>3, <2>1, LenProperties
<1> HIDE DEF Entry, n
<1>5. Append(log, row) \in Seq(AuditRows) /\ DOMAIN Append(log, row) = 1 .. n + 1
      /\ Append(log, row)[n + 1] = row /\ Len(Append(log, row)) = n + 1
      /\ \A i \in 1 .. n : Append(log, row)[i] = log[i]
  BY <1>1 DEF n
<1> DEFINE left  == TrailOf(Append(log, row))
           right == Append(TrailOf(log), TrailEntry(row))
<1>6. /\ left \in Seq(Entry) /\ Len(left) = n + 1
      /\ \A i \in 1 .. n + 1 : left[i] = TrailEntry(Append(log, row)[i])
  <2>1. \A i \in 1 .. n + 1 : Append(log, row)[i] \in AuditRows
    BY <1>5, ElementOfSeq
  <2>2. /\ left \in [1 .. n + 1 -> Entry]
        /\ \A i \in 1 .. n + 1 : left[i] = TrailEntry(Append(log, row)[i])
    BY <1>2, <1>5, <2>1 DEF TrailOf, TrailEntry
  <2> HIDE DEF left
  <2>3. left \in Seq(Entry)
    BY <1>1, <2>2, SeqDef
  <2>4. QED
    BY <1>1, <2>2, <2>3, LenProperties
<1>7. /\ right \in Seq(Entry) /\ Len(right) = n + 1 /\ right[n + 1] = TrailEntry(row)
      /\ \A i \in 1 .. n : right[i] = TrailOf(log)[i]
  BY <1>1, <1>2, <1>4
<1> HIDE DEF left, right
<1>8. \A i \in 1 .. n + 1 : left[i] = right[i]
  BY <1>1, <1>3, <1>5, <1>6, <1>7
<1>9. left = right
  BY <1>6, <1>7, <1>8, SeqEqual
<1>10. QED
  BY <1>9 DEF left, right

\* Only the active rows of an address decide on its lease.
LEMMA LeaseUntouched ==
    ASSUME NEW ip \in IPs, AllActiveBlocks(ip)' = AllActiveBlocks(ip)
    PROVE  LeaseOf(ip)' = LeaseOf(ip)
BY DEF LeaseOf, ActiveExpiries

LEMMA RegistryStart == Init => Registry!Init
<1> SUFFICES ASSUME Init
             PROVE  Registry!Init
  OBVIOUS
<1>1. Leases = [ip \in IPs |-> Registry!Free]
  BY DEF Init, Leases, LeaseOf, ActiveExpiries, AllActiveBlocks, Registry!Free
<1>2. TrailOf(audit) \in {<< >>} \cup {<<[action |-> "unblock_ip_noop", ip |-> ip]>> : ip \in IPs}
  <2>1. CASE audit = << >>
    <3>1. TrailOf(audit) = << >>
      BY <2>1 DEF TrailOf
    <3>2. QED
      BY <3>1
  <2>2. ASSUME NEW l \in LegacyIds, NEW ip \in IPs, audit = <<LegacyRow(l, ip)>>
        PROVE  TrailOf(audit) = <<[action |-> "unblock_ip_noop", ip |-> ip]>>
    BY <2>2 DEF TrailOf, LegacyRow
  <2>3. QED
    BY <2>1, <2>2 DEF Init
<1>3. QED
  BY <1>1, <1>2 DEF Init, Registry!Init, Leases

\* Where the active rows stay, a step is a tick of the registry or none.
LEMMA RegistryWaits ==
    ASSUME UNCHANGED <<blocks, audit>>, clock' = clock \/ clock' = clock + 1
    PROVE  [Registry!Next]_(Registry!vars)
<1>1. \A ip \in IPs : AllActiveBlocks(ip)' = AllActiveBlocks(ip)
  BY DEF AllActiveBlocks
<1>2. Leases' = Leases /\ TrailOf(audit)' = TrailOf(audit)
  BY <1>1, LeaseUntouched DEF Leases, TrailOf
<1>3. QED
  BY <1>2 DEF Registry!Next, Registry!Tick, Registry!vars, Leases

\* The lease a set of rows amounts to ends at one of their expiries.
LEMMA LeaseEnds ==
    ASSUME NEW ip \in IPs, ActiveExpiries(ip) # {}, NEW bound \in Nat,
           \A e \in ActiveExpiries(ip) : e \in Nat /\ e <= bound
    PROVE  /\ LeaseOf(ip).held
           /\ LeaseOf(ip).expires \in ActiveExpiries(ip)
<1> DEFINE E == ActiveExpiries(ip)
<1>1. CASE NoExpiry \in E
  BY <1>1 DEF LeaseOf, NoExpiry
<1>2. CASE NoExpiry \notin E
  <2>1. E \in SUBSET Int /\ E # {} /\ bound \in Int /\ \A e \in E : e <= bound
    OBVIOUS
  <2>2. \E e \in E : \A f \in E : f <= e
    <3> HIDE DEF E
    <3>1. QED
      BY <2>1, GreatestInteger
  <2>3. (CHOOSE e \in E : \A f \in E : f <= e) \in E
    BY <2>2
  <2>4. QED
    BY <1>2, <2>3 DEF LeaseOf
<1>3. QED
  BY <1>1, <1>2

LEMMA RegistryBlocks ==
    ASSUME LeaseInv, NEW r \in Requests, CommitBlock(r)
    PROVE  Registry!Block(req[r].call.ip)
<1> DEFINE here == req[r].call.ip
<1> DEFINE row == BlockRow(r)
<1>1. /\ TypeInv /\ clock' = clock /\ req[r].pc = "finish" /\ req[r] \in RequestStates
      /\ clock \in Nat /\ audit \in Seq(AuditRows)
  BY CommitAlone DEF Commits, TypeInv, TypeOK
<1>2. here \in IPs
  BY <1>1 DEF RequestStates, Calls
<1>3. /\ blocks' = blocks \cup {row}
      /\ audit' = Append(audit, AuditRow(r, "block_ip", {r}))
      /\ req[r].call.op = "block" /\ req[r].found = {}
  BY DEF CommitBlock
<1>4. row \in BlockRows /\ row.active /\ row.ip = here /\ row.expires \in Nat
  BY <1>1, BlockRowType DEF BlockRow, BlockRows
<1> HIDE DEF row
<1>5. \A e \in ActiveExpiries(here) : e \in Nat /\ e # NoExpiry /\ e <= clock
  <2> SUFFICES ASSUME NEW b \in blocks, b.ip = here, b.active
               PROVE  b.expires \in Nat /\ b.expires # NoExpiry /\ b.expires <= clock
    BY DEF ActiveExpiries, AllActiveBlocks
  <2>1. b.expires \in Nat
    BY <1>1, KeysAreRequests DEF BlockRows
  <2>2. ~InForce(b, clock)
    BY <1>1, <1>3 DEF LeaseInv, FoundIsCurrent, Prepared, ActiveBlocks
  <2>3. QED
    BY <1>1, <2>1, <2>2 DEF InForce
<1>6. ~Registry!InForce(Leases[here])
  <2>1. CASE ActiveExpiries(here) = {}
    BY <1>2, <2>1 DEF Leases, LeaseOf, Registry!InForce
  <2>2. CASE ActiveExpiries(here) # {}
    <3>1. LeaseOf(here).expires \in ActiveExpiries(here)
      BY <1>1, <1>2, <1>5, <2>2, LeaseEnds
    <3>2. QED
      BY <1>1, <1>2, <1>5, <3>1 DEF Leases, Registry!InForce, NoExpiry
  <2>3. QED
    BY <2>1, <2>2
<1>7. ASSUME NEW ip \in IPs, ip # here
      PROVE  LeaseOf(ip)' = LeaseOf(ip)
  <2>1. AllActiveBlocks(ip)' = AllActiveBlocks(ip)
    BY <1>3, <1>4, <1>7 DEF AllActiveBlocks
  <2>2. QED
    BY <2>1, LeaseUntouched
<1> DEFINE E == ActiveExpiries(here) \cup {row.expires}
<1>8. \A ip \in IPs : ip = here => ActiveExpiries(ip)' = E
  BY <1>3, <1>4 DEF ActiveExpiries, AllActiveBlocks
<1>9. PICK e \in E : \A ip \in IPs : ip = here => LeaseOf(ip)' = [held |-> TRUE, expires |-> e]
  <2>1. E # {} /\ \A f \in E : f \in Int /\ f <= clock + row.expires
    BY <1>1, <1>4, <1>5
  <2>2. \E e \in E : \A f \in E : f <= e
    <3> HIDE DEF E
    <3>1. E \in SUBSET Int /\ clock + row.expires \in Int
      BY <1>1, <1>4, <2>1
    <3>2. QED
      BY <2>1, <3>1, GreatestInteger
  <2> DEFINE end == IF E = {} \/ NoExpiry \in E THEN 0
                    ELSE CHOOSE e \in E : \A f \in E : f <= e
  <2>3. ASSUME NEW ip \in IPs, ip = here
        PROVE  LeaseOf(ip)' = [held |-> TRUE, expires |-> end]
    <3>1. ActiveExpiries(ip)' = E
      BY <1>8, <2>3
    <3> HIDE DEF E
    <3>2. LeaseOf(ip)' = [held |-> E # {}, expires |-> end]
      BY <3>1 DEF LeaseOf
    <3>3. QED
      BY <2>1, <3>2
  <2>4. end \in E
    <3> HIDE DEF E
    <3>1. QED
      BY <2>1, <2>2 DEF NoExpiry
  <2> HIDE DEF end, E
  <2>5. QED
    BY <2>3, <2>4
<1>10. e \in Registry!Expiries
  <2>1. \A f \in ActiveExpiries(here) : f \in Registry!Expiries
    BY DEF LeaseInv, LeasesFromArrivals, ActiveExpiries, AllActiveBlocks
  <2>2. \A b \in blocks' : b.expires \in Registry!Expiries'
    BY LeaseBlock
  <2>3. row.expires \in Registry!Expiries
    BY <1>1, <1>3, <2>2 DEF Registry!Expiries
  <2>4. QED
    BY <2>1, <2>3
<1>11. Leases' = [Leases EXCEPT ![here] = [held |-> TRUE, expires |-> e]]
  BY <1>2, <1>7, <1>9 DEF Leases
<1>12. TrailOf(audit') = Append(TrailOf(audit), [action |-> "block_ip", ip |-> here])
  <2>1. "block_ip" \in Actions /\ {r} \in SUBSET Requests
    BY DEF Actions
  <2>2. AuditRow(r, "block_ip", {r}) \in AuditRows
    BY <1>1, <2>1, AuditRowType
  <2>3. TrailEntry(AuditRow(r, "block_ip", {r})) = [action |-> "block_ip", ip |-> here]
    BY DEF TrailEntry, AuditRow
  <2>4. QED
    BY <1>1, <1>3, <2>2, <2>3, TrailAppend
<1>13. QED
  BY <1>1, <1>6, <1>10, <1>11, <1>12 DEF Registry!Block, Leases, TrailOf

LEMMA RegistryUnblocks ==
    ASSUME LeaseInv, NEW r \in Requests, CommitUnblock(r) \/ CommitUnblockNoop(r)
    PROVE  Registry!Unblock(req[r].call.ip)
<1> DEFINE here == req[r].call.ip
<1>1. /\ TypeInv /\ clock' = clock /\ req[r].pc = "finish" /\ req[r] \in RequestStates
      /\ audit \in Seq(AuditRows)
  BY CommitAlone DEF Commits, TypeInv, TypeOK
<1>2. here \in IPs /\ req[r].found \in SUBSET Requests /\ req[r].call.op = "unblock"
  BY <1>1 DEF RequestStates, Calls, CommitUnblock, CommitUnblockNoop
<1>3. req[r].found = {b.id : b \in AllActiveBlocks(here)}
  BY <1>1, <1>2 DEF LeaseInv, FoundIsCurrent, Prepared
<1>4. \A b : b \in blocks' /\ b.active <=> b \in blocks /\ b.active /\ b.id \notin req[r].found
  <2>1. CASE CommitUnblock(r)
    BY <1>1, <1>2, <2>1, DeactivatedColumns DEF CommitUnblock
  <2>2. CASE CommitUnblockNoop(r)
    BY <2>2 DEF CommitUnblockNoop
  <2>3. QED
    BY <2>1, <2>2
<1>5. \A b \in blocks : b.active => (b.id \in req[r].found <=> b.ip = here)
  <2>1. \A b, c \in blocks : b.id = c.id => b = c
    BY <1>1 DEF TypeInv, TypeOK
  <2>2. QED
    BY <1>3, <2>1 DEF AllActiveBlocks
<1>6. \A ip \in IPs : ip # here => LeaseOf(ip)' = LeaseOf(ip)
  <2>1. \A ip \in IPs : ip # here => AllActiveBlocks(ip)' = AllActiveBlocks(ip)
    BY <1>4, <1>5 DEF AllActiveBlocks
  <2>2. QED
    BY <2>1, LeaseUntouched
<1>7. \A ip \in IPs : ip = here => LeaseOf(ip)' = Registry!Free
  BY <1>4, <1>5 DEF LeaseOf, ActiveExpiries, AllActiveBlocks, Registry!Free
<1>8. Leases' = [Leases EXCEPT ![here] = Registry!Free]
  BY <1>2, <1>6, <1>7 DEF Leases
<1>9. Leases[here].held <=> req[r].found # {}
  <2>1. Leases[here].held <=> ActiveExpiries(here) # {}
    BY <1>2 DEF Leases, LeaseOf
  <2>2. ActiveExpiries(here) # {} <=> AllActiveBlocks(here) # {}
    BY DEF ActiveExpiries
  <2>3. QED
    BY <1>3, <2>1, <2>2
<1> DEFINE action == IF Leases[here].held THEN "unblock_ip" ELSE "unblock_ip_noop"
<1> DEFINE ids == IF Leases[here].held THEN req[r].found ELSE {}
<1>10. audit' = Append(audit, AuditRow(r, action, ids))
  BY <1>9 DEF CommitUnblock, CommitUnblockNoop
<1>11. action \in Actions /\ ids \in SUBSET Requests
  BY <1>2 DEF Actions
<1> HIDE DEF action, ids
<1>12. TrailOf(audit') = Append(TrailOf(audit), [action |-> action, ip |-> here])
  <2>1. AuditRow(r, action, ids) \in AuditRows
    BY <1>1, <1>11, AuditRowType
  <2>2. TrailEntry(AuditRow(r, action, ids)) = [action |-> action, ip |-> here]
    BY DEF TrailEntry, AuditRow
  <2>3. QED
    BY <1>1, <1>10, <2>1, <2>2, TrailAppend
<1>13. QED
  BY <1>1, <1>8, <1>12 DEF Registry!Unblock, Leases, action, TrailOf

LEMMA RegistryMoves ==
    ASSUME LeaseInv, [Next]_vars
    PROVE  [Registry!Next]_(Registry!vars)
<1>1. TypeInv
  BY DEF LeaseInv, AnswerInv
<1>2. ASSUME NEW r \in Requests, Commits(r)
      PROVE  Registry!Next
  <2>1. req[r].call.ip \in IPs
    BY <1>1 DEF TypeInv, TypeOK, RequestStates, Calls
  <2>2. QED
    BY <1>2, <2>1, RegistryBlocks, RegistryUnblocks DEF Commits, Registry!Next
<1>3. ASSUME UNCHANGED <<blocks, audit>>
      PROVE  [Registry!Next]_(Registry!vars)
  <2>1. clock' = clock \/ clock' = clock + 1
    BY DEF Next, vars, Tick, Arrive, FindActive, FindAll, Stamp, Link, CommitBlock, Commit,
           ReturnAlreadyBlocked, CommitUnblockNoop, CommitUnblock, Return, Fail
  <2>2. QED
    BY <1>3, <2>1, RegistryWaits
<1>4. QED
  BY <1>1, <1>2, <1>3, QuietStores, StepKinds

\* Requests that do not overlap act on each address as on a single lease, and
\* the audit log without its hashes is the trail of what they did.
THEOREM RegistryImplemented == ASSUME Serialised PROVE Spec => ImplementsRegistry
<1>1. Init => Registry!Init
  BY RegistryStart
<1>2. LeaseInv /\ [Next]_vars => [Registry!Next]_(Registry!vars)
  BY RegistryMoves
<1>3. QED
  BY <1>1, <1>2, LeaseInvHolds, PTL DEF Spec, ImplementsRegistry, Registry!Spec
==============================================================================
