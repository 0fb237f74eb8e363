---------------------------- MODULE SlidingWindow ----------------------------
(* The window over past times that the limits of backend/app/tools/base.py *)
(* and of backend/app/core/rate_limiter.py keep.                           *)
EXTENDS Naturals, Sequences

(* The times less than span ago.  They are an end of the list, since its   *)
(* times are in order; the code looks at each.                             *)
Within(times, now, span) ==
  LET old == CHOOSE n \in 0..Len(times) :
               \A i \in DOMAIN times : times[i] + span > now <=> i > n
  IN SubSeq(times, old + 1, Len(times))
=============================================================================
