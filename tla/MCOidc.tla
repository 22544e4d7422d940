------------------------------- MODULE MCOidc -------------------------------
(* Oidc with what TLC needs to explore it. *)
EXTENDS Oidc, TLC

RequestSymmetry == Permutations(Requests)
=============================================================================
