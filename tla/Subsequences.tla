------------------------------ MODULE Subsequences ------------------------------
(* Choosing and ordering elements, as the web app does with Array.filter, sort and *)
(* Set.  SelectSeq and SortSeq would do; these are defined without recursion, for  *)
(* proofs.                                                                         *)
EXTENDS Integers, FiniteSets, Sequences

\* The elements of a finite set in the order R, a set of pairs: each in the place that the
\* number of those up to it says.
InOrder(S, R) ==
    [k \in 1..Cardinality(S) |-> CHOOSE x \in S : Cardinality({y \in S : <<y, x>> \in R}) = k]

Ascending(I) == InOrder(I, {pair \in I \X I : pair[1] <= pair[2]})

\* The elements of s at the positions in I.
ElementsAt(s, I) ==
    LET at == Ascending(I)
    IN  [k \in DOMAIN at |-> s[at[k]]]

\* The elements of s that are in T, and those that are not.
Within(s, T) == ElementsAt(s, {i \in DOMAIN s : s[i] \in T})
Without(s, T) == ElementsAt(s, {i \in DOMAIN s : s[i] \notin T})

\* Each element once, where it is first.
Distinct(s) == ElementsAt(s, {i \in DOMAIN s : \A j \in 1..(i - 1) : s[j] # s[i]})

===============================================================================
