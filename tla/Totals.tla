------------------------------- MODULE Totals -------------------------------
(***************************************************************************)
(* Sums of natural numbers over a finite set, written without recursion:  *)
(* x contributes the f[x] pairs <<x, 1>>, ..., <<x, f[x]>>, and the total  *)
(* is the number of pairs.  Balances, holds, quotas and counters of the    *)
(* repository are all SUM(...) or COUNT(...) over rows, and this form lets *)
(* the same definition be evaluated by TLC and reasoned about by TLAPS.    *)
(***************************************************************************)
EXTENDS Integers, FiniteSets

Units(S, f) == UNION {{x} \X (1..f[x]) : x \in S}

Total(S, f) == Cardinality(Units(S, f))

\* The two halves of a signed amount.
Gain(n) == IF n > 0 THEN n ELSE 0
Loss(n) == IF n < 0 THEN -n ELSE 0
=============================================================================
