-------------------------- MODULE MCComputeClient --------------------------
(* ComputeClient on small instances.  Requests are interchangeable.        *)
EXTENDS ComputeClient, TLC

RequestSymmetry == Permutations(Requests)
=============================================================================
