---------------------------- MODULE BlockRegistry ----------------------------
(***************************************************************************)
(* What the response service promises its users: one lease per address.    *)
(* An address is held or not, a held address has at most one expiry, and   *)
(* every change, and every unblock that changed nothing, leaves one entry  *)
(* in a trail that only grows.  There are no rows, no requests and no      *)
(* hashes here.  BlockService implements it as long as its requests do not *)
(* overlap (BlockServiceRefinement).                                       *)
(***************************************************************************)
EXTENDS Naturals, Sequences

CONSTANTS IPs, TTLs

VARIABLES clock, lease, trail

vars == <<clock, lease, trail>>

Free == [held |-> FALSE, expires |-> 0]

\* An expiry of 0 means that the lease has none.
InForce(l) == l.held /\ (l.expires = 0 \/ l.expires > clock)

\* The expiries a block can have: its ttl is counted from the time the
\* request arrived, some time before the block takes effect.
Expiries == {0} \cup {t + ttl : t \in 0 .. clock, ttl \in TTLs}

Init ==
    /\ clock = 1
    /\ lease = [ip \in IPs |-> Free]
    /\ trail \in {<< >>} \cup {<<[action |-> "unblock_ip_noop", ip |-> ip]>> : ip \in IPs}

\* An address in force is never blocked again.
Block(ip) ==
    /\ ~InForce(lease[ip])
    /\ \E e \in Expiries : lease' = [lease EXCEPT ![ip] = [held |-> TRUE, expires |-> e]]
    /\ trail' = Append(trail, [action |-> "block_ip", ip |-> ip])
    /\ UNCHANGED clock

\* A lease that has run out is still held until somebody releases it.
Unblock(ip) ==
    /\ lease' = [lease EXCEPT ![ip] = Free]
    /\ trail' = Append(trail,
                  [action |-> IF lease[ip].held THEN "unblock_ip" ELSE "unblock_ip_noop",
                   ip |-> ip])
    /\ UNCHANGED clock

Tick == clock' = clock + 1 /\ UNCHANGED <<lease, trail>>

Next == Tick \/ \E ip \in IPs : Block(ip) \/ Unblock(ip)

Spec == Init /\ [][Next]_vars
=============================================================================
