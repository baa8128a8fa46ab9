------------------------------ MODULE MCLoans ------------------------------
(***************************************************************************)
(* Loans for TLC: the ids are model values, interchangeable where no       *)
(* property tells them apart.                                              *)
(***************************************************************************)
EXTENDS Loans, TLC

Symmetry ==
    Permutations(Students) \cup Permutations(Books) \cup Permutations(Isbns)
      \cup Permutations(LoanIds) \cup Permutations(Requests)
============================================================================
