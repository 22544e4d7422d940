---------------------------- MODULE MCTerraform ----------------------------
(* Terraform with what TLC needs to explore it. *)
EXTENDS Terraform, TLC

\* Tasks, sizes and the servers not there at first are interchangeable.
Symmetry ==
  Permutations(Tasks) \cup Permutations(Objects \ Existing) \cup Permutations(Sizes)
=============================================================================
