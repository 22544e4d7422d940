----------------------------- MODULE MCListing -----------------------------
(* Listing with what TLC needs to explore it. *)
EXTENDS Listing, TLC

\* Items are interchangeable, apart from those that cannot be converted.
ItemSymmetry == Permutations(Bad) \cup Permutations(Ids \ Bad)
=============================================================================
