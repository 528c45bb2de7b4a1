------------------------------- MODULE MCIngest -------------------------------
(* Ingest on a small instance. *)
EXTENDS Ingest, TLC

CONSTANTS d1, d2, d3, agent, client, page

ThreeDeliveries == {d1, d2, d3}

NoFields == [line |-> Absent, ip |-> Absent, request |-> Absent, action |-> Absent,
             outcome |-> Absent, status |-> Absent, route |-> Absent]

Envelope(log, at, raw) ==
    [at |-> at, log |-> log, service |-> "web", ip |-> agent, raw |-> raw]

\* A failed login, an access line, an unparseable one, and two poisonous ones.
Login   == Envelope("flask", 1, [NoFields EXCEPT
               !.ip = client, !.request = page, !.status = 401, !.action = "login_failed"])
Access  == Envelope("nginx", 2, [NoFields EXCEPT !.line = [
               ip |-> client, request |-> page, status |-> 200]])
Noise   == Envelope("nginx", 2, [NoFields EXCEPT !.line = Garbled])
BadLine == Envelope("nginx", 2, [NoFields EXCEPT !.line = NotText])
BadIP   == Envelope("flask", 1, [NoFields EXCEPT !.ip = TooLong, !.status = Garbled])

AllEnvelopes == {Login, Access, Noise, BadLine, BadIP}

\* Overlapping, repeating, reordered and poisoned batches.
SmallBatches ==
    {<<Login, Access, Noise>>, <<Access, Login>>, <<Noise, Noise>>,
     <<Login, BadLine, Access>>, <<Access, BadIP>>}

Days == 2 .. 3

AnyDelivery == Permutations(Deliveries)
===============================================================================
