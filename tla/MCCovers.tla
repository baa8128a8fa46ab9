------------------------------ MODULE MCCovers ------------------------------
(***************************************************************************)
(* Covers for TLC: books, files and requests are interchangeable.          *)
(***************************************************************************)
EXTENDS Covers, TLC

Symmetry ==
    Permutations(Books) \cup Permutations(Covers) \cup Permutations(Requests)
=============================================================================
