----------------------- MODULE BlockServiceRefinement -----------------------
(***************************************************************************)
(* BlockService implements BlockRegistry: the active rows of an address    *)
(* are its lease, the audit log without its hashes is the trail.           *)
(***************************************************************************)
EXTENDS BlockService

ActiveExpiries(ip) == {b.expires : b \in AllActiveBlocks(ip)}

\* Rows that expired unnoticed stay active beside the one in force: the
\* lease ends when the last of them does, never if one has no expiry.
LeaseOf(ip) ==
    [held    |-> ActiveExpiries(ip) # {},
     expires |-> IF ActiveExpiries(ip) = {} \/ NoExpiry \in ActiveExpiries(ip) THEN 0
                 ELSE CHOOSE e \in ActiveExpiries(ip) :
                          \A f \in ActiveExpiries(ip) : f <= e]

TrailOf(log) ==
    [i \in DOMAIN log |-> [action |-> log[i].payload.action, ip |-> log[i].payload.ip]]

Registry == INSTANCE BlockRegistry WITH
    lease <- [ip \in IPs |-> LeaseOf(ip)],
    trail <- TrailOf(audit)

\* Requests that do not overlap act on each address as on a single lease:
\* every commit of BlockService is a Block or an Unblock of BlockRegistry.
ImplementsRegistry == Registry!Spec
=============================================================================
