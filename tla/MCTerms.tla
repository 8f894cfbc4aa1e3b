------------------------------ MODULE MCTerms ------------------------------
(* Two requests, three versions of each document.  Requests are            *)
(* interchangeable.                                                         *)
EXTENDS Terms
Symmetry == Permutations(Requests)
=============================================================================
