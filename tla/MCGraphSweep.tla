---------------------------- MODULE MCGraphSweep ----------------------------
(* Instances of GraphSweep for TLC. *)
EXTENDS GraphSweep

CONSTANTS p1, p2  \* processes

=============================================================================
