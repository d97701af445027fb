------------------------------ MODULE Sorting ------------------------------
(***************************************************************************)
(* sorted() of Python, as the sifting code uses it.  Each element is put   *)
(* at its place by counting those that come before it: no choice among     *)
(* permutations, so that SortingProofs can count as well.                  *)
(***************************************************************************)
EXTENDS Integers, FiniteSets

\* The place of f[i] among the values of f.  The sort is stable: of equal values
\* the one with the smaller index comes first.
Place(f, i) == Cardinality({j \in DOMAIN f : f[j] < f[i] \/ (f[j] = f[i] /\ j <= i)})

\* The values of f in increasing order.
Sorted(f) == [n \in 1 .. Cardinality(DOMAIN f) |-> f[CHOOSE i \in DOMAIN f : Place(f, i) = n]]

\* The elements of a set of numbers in increasing order.
Increasing(S) == Sorted([x \in S |-> x])
=============================================================================
