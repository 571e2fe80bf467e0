------------------------------ MODULE MCProxy -------------------------------
(* One client that asks, and one that comes and goes.                        *)
EXTENDS Proxy

CONSTANTS c1, c2

MCConns == {c1, c2}
MCAddrs == {"v4"}
MCRequests == [c \in MCConns |-> IF c = c1 THEN 1 ELSE 0]
=============================================================================
