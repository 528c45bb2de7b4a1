------------------------------ MODULE MCClients ------------------------------
(* Clients on a small instance. *)
EXTENDS Clients

CONSTANTS worker, detect, a1, burst, probe

TwoRunners == {worker, detect}
OneIP      == {a1}
TwoRules   == {burst, probe}
UTC        == [ip \in IPs |-> {0}]

\* Most events have a path and every one has a status; there is room for one.
Values(column, e) ==
    IF column = "path" THEN CASE e.id = 1 -> "/" [] e.id = 2 -> "none" [] OTHER -> "/login"
                       ELSE IF e.id = 1 THEN "200" ELSE "404"

\* A unit of time is four days.  Two events in a window:
Pairs     == [r \in Rules |-> [window |-> 1, count |-> 2, cooldown |-> 1, fields |-> 1]]
AllLow    == [r \in Rules |-> "low"]
Own       == [r \in Rules |-> {r}]
OnlyIP    == [r \in Rules |-> a1]

\* 1000 exp(-0.02 h) after 0, 4 and 8 days.
FourDays  == [age \in 0 .. MaxAge |-> CASE age = 0 -> 1000 [] age = 1 -> 147 [] OTHER -> 21]

\* Both instants, and the second alone.
AllRanges == {<<0, 1>>, <<1, 1>>}

AllKinds  == {"summary", "bundle", "pager", "simulation", "nobody"}

\* A summary reads no alerts, a page no events; two runners race beside nobody.
WhoDetects == [kind \in ClientKinds |->
                  CASE kind = "summary" -> {} [] kind = "nobody" -> Runners [] OTHER -> {worker}]
HowMany    == [kind \in ClientKinds |-> IF kind = "summary" THEN 3 ELSE 2]
WhichRules == [kind \in ClientKinds |-> {{burst}}]
==============================================================================
