------------------------------ MODULE Ranking ------------------------------
(* Sorting a finite set.                                                   *)
EXTENDS Naturals, FiniteSets, Sequences

\* The members of S, each after those that R says come before it.
Ranked(S, R) ==
  [n \in 1..Cardinality(S) |-> CHOOSE i \in S : Cardinality({j \in S : <<j, i>> \in R}) = n - 1]

Sorted(S) == Ranked(S, {e \in S \X S : e[1] < e[2]})

\* The places of s in this order.
Rearranged(s, places) == [n \in DOMAIN places |-> s[places[n]]]
=============================================================================
