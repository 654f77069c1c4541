---------------------------- MODULE MCCoreStream ----------------------------
(* Model checking of CoreStream with clients of any behaviour.              *)
EXTENDS CoreStream, TLC

(* No state or action tells two replicas, or two suspended states, apart.   *)
Symmetry == Permutations(Replicas)

(* from_seq below, at and beyond the end of the log. *)
AnyFromSeq == 1 .. MaxSeq + 2
=============================================================================
