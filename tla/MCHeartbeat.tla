------------------------------ MODULE MCHeartbeat ------------------------------
(* At first, a chain of two nodes below the control node.                  *)
EXTENDS Heartbeat
CONSTANTS a, b
ChainAbove == [n \in Nodes |-> IF n = a THEN Control ELSE a]
=============================================================================
