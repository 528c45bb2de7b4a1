--------------------------- MODULE AuditTampering ---------------------------
(***************************************************************************)
(* The audit log edited behind the service's back, while the service goes  *)
(* on appending to it.  The edits are those that the unit tests of         *)
(* verify_chain make: the detail of a row, or its prev_hash.               *)
(*                                                                         *)
(* An append reads nothing that these edits change (get_latest_hash        *)
(* selects created_at and entry_hash), so a log edited at any time and     *)
(* appended to is a log appended to and edited: every log the service can  *)
(* leave is taken here with every choice of edits.                         *)
(***************************************************************************)
EXTENDS BlockService

EditKinds == {"kept", "cleared", "widened", "detached", "relinked"}

\* tampered.detail = {...}; rows[i].prev_hash = ...
Edited(row, kind) ==
    CASE kind = "kept"     -> row
      [] kind = "cleared"  -> [row EXCEPT !.payload.blocks = {}]
      [] kind = "widened"  -> [row EXCEPT !.payload.blocks = Requests]
      [] kind = "detached" -> [row EXCEPT !.prev = NoHash]
      [] kind = "relinked" -> [row EXCEPT !.prev = GetLatestHash(audit)]

EditedLog(kinds) ==
    [i \in DOMAIN audit |-> IF i \in DOMAIN kinds THEN Edited(audit[i], kinds[i]) ELSE audit[i]]

\* verify_chain reports exactly the logs that differ from what the service
\* wrote, and names the oldest edited row, however many rows were edited and
\* however many were appended afterwards (test_audit_chain.py:106-137).
TamperingIsLocalised ==
    (\A r \in Requests : ~InFlight(r)) =>
        \A kinds \in [Chained(audit) -> EditKinds] :
            LET log    == EditedLog(kinds)
                edited == {i \in Chained(audit) : log[i] # audit[i]}
                result == VerifyChain(log)
            IN  /\ result.ok <=> edited = {}
                /\ edited # {} => result.invalid = {audit[Oldest(audit, edited)].payload.id}
=============================================================================
