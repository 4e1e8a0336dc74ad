-------------------------------- MODULE Sums --------------------------------
(***************************************************************************)
(* Sums over finite sets, for the totals that the other modules relate to  *)
(* what they count.                                                        *)
(***************************************************************************)
EXTENDS Integers, FiniteSets

\* The sum of f[x] for x in S, for a function f to the naturals and S finite:
\* the number of pairs that count each x once per unit of f[x].
Units(f, S) == UNION {{x} \X (1 .. f[x]) : x \in S}
SumOver(f, S) == Cardinality(Units(f, S))
=============================================================================
