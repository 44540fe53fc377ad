------------------------------ MODULE Medians ------------------------------
(***************************************************************************)
(* The median of the experiment programs (statistics.median), of a         *)
(* function from things to values, doubled so that it is an integer.       *)
(***************************************************************************)
EXTENDS Integers, FiniteSets

\* The value at place k of the values of v in ascending order.
Middle(v, k) ==
    CHOOSE x \in {v[i] : i \in DOMAIN v} :
        /\ Cardinality({i \in DOMAIN v : v[i] < x}) < k
        /\ k <= Cardinality({i \in DOMAIN v : v[i] <= x})

\* The two middle values, which are one when their number is odd; of nothing
\* it is 0.
Median2(v) ==
    LET n == Cardinality(DOMAIN v) IN
    IF n = 0 THEN 0 ELSE Middle(v, (n + 1) \div 2) + Middle(v, n \div 2 + 1)
=============================================================================
