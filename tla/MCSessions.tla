----------------------------- MODULE MCSessions -----------------------------
(* Sessions with interchangeable pairs, processes and requests.            *)
EXTENDS Sessions, TLC

Symmetry ==
  Permutations(Pairs) \cup Permutations(Procs) \cup Permutations(Requests)
=============================================================================
