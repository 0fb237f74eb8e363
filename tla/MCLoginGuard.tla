---------------------------- MODULE MCLoginGuard ----------------------------
(* LoginGuard with interchangeable requests.                               *)
EXTENDS LoginGuard, TLC

(* The last power stands for the one whose lock is infinite.               *)
MCMultiplier ==
  [n \in 0..MaxStrikes |-> IF n = MaxStrikes THEN MaxTime + Lockout ELSE 2 ^ n]

Symmetry == Permutations(Requests)
=============================================================================
