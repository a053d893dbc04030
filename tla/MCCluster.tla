----------------------------- MODULE MCCluster -----------------------------
(* Two nodes with the same output id 1 and one of their own each; node 1   *)
(* is the gateway.  Thresholds in heartbeat periods: one heartbeat may be  *)
(* late (3000 ms), two lost ones are a loss (6000 ms).                     *)
EXTENDS Cluster

MCLocalIo == [n \in Nodes |-> IF n = 1 THEN {1} ELSE {1, 2}]
=============================================================================
