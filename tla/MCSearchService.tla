--------------------------- MODULE MCSearchService ----------------------------
(* Instances of SearchService for TLC. *)
EXTENDS SearchService, TLC

Symmetry == Permutations(Runs) \union Permutations(Clients)
===============================================================================
