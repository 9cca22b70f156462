---------------------------- MODULE MCSearchIndex -----------------------------
(* Instances of SearchIndex for TLC. *)
EXTENDS SearchIndex, TLC

Symmetry == Permutations(Runs) \union Permutations(Clients)
===============================================================================
