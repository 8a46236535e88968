----------------------------- MODULE Statistics -----------------------------
(***************************************************************************)
(* Which of n sorted latencies PrintStage prints as a percentile.  The     *)
(* code multiplies an odd number by 0.5, 0.99, 0.995 or 0.999, which is    *)
(* never a whole number, so that rounding does not matter.                 *)
(***************************************************************************)
EXTENDS Integers

\* In thousandths, smallest first.
Percentiles == {500, 990, 995, 999}

\* One less for an even number, "to get the correct index".
Size(n) == IF n % 2 = 0 THEN n - 1 ELSE n

Rank(n, p) == (Size(n) * p) \div 1000
=============================================================================
