------------------------------ MODULE Capacity ------------------------------
(***************************************************************************)
(* Amounts of a divisible resource held by a set of holders.               *)
(*                                                                         *)
(* The simulator adds up the HBM of pins and of resident invocations with  *)
(* Python's sum().  Here the sum over S of size[x] is the number of units  *)
(* <<x, k>> the holders own, which keeps every fact about a sum a fact     *)
(* about the cardinality of a finite set.                                  *)
(***************************************************************************)
EXTENDS Integers, FiniteSets

\* The units held by one holder, and by a set of holders.
UnitsOf(x, size) == {x} \X (1..size[x])
Units(S, size) == UNION {UnitsOf(x, size) : x \in S}

\* sum(size[x] for x in S)
Total(S, size) == Cardinality(Units(S, size))

\* The least and the greatest element of a non-empty finite set of integers.
Least(S) == CHOOSE m \in S : \A x \in S : m <= x
Greatest(S) == CHOOSE m \in S : \A x \in S : x <= m

\* The increasing enumerations of a finite set of integers: exactly one.
Ascending(S) ==
    {s \in [1..Cardinality(S) -> S] :
        \A i, j \in 1..Cardinality(S) : i < j => s[i] < s[j]}
=============================================================================
