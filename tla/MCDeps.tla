------------------------------- MODULE MCDeps -------------------------------
(* Deps with what TLC needs to explore it. *)
EXTENDS Deps, TLC

\* Requests of one kind are interchangeable.
Symmetry ==
  Permutations(PollRequests) \cup Permutations(Probes)
    \cup Permutations(Requests \ (PollRequests \cup Probes))
=============================================================================
