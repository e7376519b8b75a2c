----------------------------- MODULE MCCollect -----------------------------
(***************************************************************************)
(* Collect with three repositories and pages of at most two: a search for  *)
(* one (a page of one) and a search for three (two pages of two).          *)
(***************************************************************************)
EXTENDS Collect

MCLimits == {1, 3}

\* The clock when a rate limit arrives; the dates below are before it, soon
\* after it, and further away than MaxWait.
MCTimes == {2}

Seconds(n) == [unit |-> "seconds", value |-> n]
Date(t)    == [unit |-> "date", value |-> t]

\* A refusal with no headers, one with budget left, an empty budget that
\* resets in the past, soon or late, and a Retry-After of either kind or of no
\* use.
MCHeaders ==
  {[remaining |-> None, retry |-> None,       reset |-> None],
   [remaining |-> 1,    retry |-> None,       reset |-> 3],
   [remaining |-> 0,    retry |-> None,       reset |-> 1],
   [remaining |-> 0,    retry |-> None,       reset |-> 9],
   [remaining |-> 1,    retry |-> Seconds(1), reset |-> 9],
   [remaining |-> None, retry |-> Seconds(0), reset |-> 3],
   [remaining |-> 0,    retry |-> Date(1),    reset |-> None],
   [remaining |-> 0,    retry |-> Date(4),    reset |-> 1]}
=============================================================================
