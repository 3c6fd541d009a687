------------------------------- MODULE Totals -------------------------------
(***************************************************************************)
(* Finite sums without recursion: the sum of f over S is the number of     *)
(* unit tokens <<x, 1>> .. <<x, f[x]>> of its members.                     *)
(***************************************************************************)
EXTENDS Integers, FiniteSets

Tokens(f, S) == UNION {{x} \X (1 .. f[x]) : x \in S}
Total(f, S) == Cardinality(Tokens(f, S))
=============================================================================
