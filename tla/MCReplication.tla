--------------------------- MODULE MCReplication ---------------------------
(* Model checking of Replication: core, its stream and its replicas.        *)
EXTENDS Replication, TLC

(* No definition names a replica. *)
Symmetry == Permutations(Replicas)
=============================================================================
