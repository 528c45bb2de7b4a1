----------------------------- MODULE Normalizer -----------------------------
(***************************************************************************)
(* What ingest makes of one envelope of an agent: the parsers, the         *)
(* normalised event that rules are matched against, and the dedupe hash    *)
(* (services/normalizer, utils/dedupe.py).                                 *)
(*                                                                         *)
(* An envelope is [at, log, service, ip, raw]; raw holds the fields that   *)
(* ingest looks at, Absent where a key is missing; `request` stands for    *)
(* method and path, which the mapper uses together.  Field values are      *)
(* non-empty texts (an empty one counts as missing in mapper.py).          *)
(***************************************************************************)
EXTENDS Naturals

CONSTANTS
    Absent,     \* a key that is not there
    Garbled,    \* a line the nginx pattern does not match, a status that is no number
    NotText,    \* an nginx_line that is not a string
    TooLong     \* an address longer than the column's 64 characters

NothingParsed ==
    [ip |-> Absent, request |-> Absent, status |-> Absent, action |-> Absent, route |-> Absent]

\* parse_nginx_access_line, and the branch of ingest_events that calls it:
\* a line that does not match is kept unparsed.
ParseNginx(raw) ==
    IF raw.line \in {Absent, Garbled} THEN NothingParsed
    ELSE [NothingParsed EXCEPT !.ip = raw.line.ip, !.request = raw.line.request,
                               !.status = raw.line.status]

\* parse_flask_json: the fields that are there, a bad status left out.
ParseFlask(raw) ==
    [ip |-> raw.ip, request |-> raw.request, action |-> raw.action, route |-> raw.route,
     status |-> IF raw.status = Garbled THEN Absent ELSE raw.status]

ParsedOf(e) ==
    CASE e.log = "nginx" -> ParseNginx(e.raw)
      [] e.log = "flask" -> ParseFlask(e.raw)
      [] OTHER           -> NothingParsed

\* a or b, for a value that may be missing.
Or(a, b) == IF a # Absent THEN a ELSE b

DerivedOutcome(status) ==
    IF status = Absent THEN "unknown"
    ELSE IF status >= 400 THEN "failure" ELSE "success"

\* normalize_event; no parser gives an outcome of its own.
Normalized(e) ==
    LET parsed == ParsedOf(e) IN
    [at |-> e.at, log |-> e.log, service |-> e.service,
     ip      |-> Or(parsed.ip, e.ip),
     action  |-> Or(parsed.action, Or(e.raw.action, "log_ingested")),
     outcome |-> Or(e.raw.outcome, DerivedOutcome(parsed.status)),
     request |-> parsed.request,
     status  |-> IF parsed.request = Absent THEN Absent ELSE parsed.status,
     route   |-> parsed.route]

\* Mutant: the hash leaves the payload out.
DedupeHashEnvelope(e) == <<e.log, e.service, e.ip, e.at>>

\* compute_dedupe_hash: canonical JSON under SHA-256, taken as free of
\* collisions.  It covers the envelope's address, not the parsed one.
DedupeHash(e) == <<e.log, e.service, e.ip, e.at, e.raw>>

\* The envelope raises something that is neither ValueError nor
\* IntegrityError: line.strip() on a number, or the database's DataError.
Poisonous(e) ==
    IF e.log = "nginx" /\ e.raw.line = NotText THEN TRUE ELSE Normalized(e).ip = TooLong
=============================================================================
