----------------------------- MODULE MCAccounts -----------------------------
(***************************************************************************)
(* Accounts for TLC: ids, codes, tokens and requests are interchangeable.  *)
(***************************************************************************)
EXTENDS Accounts, TLC

Symmetry ==
    Permutations(Users \ FutureAdmins) \cup Permutations(Codes)
      \cup Permutations(Passwords) \cup Permutations(Devices)
      \cup Permutations(Tokens) \cup Permutations(States)
      \cup Permutations(Subjects) \cup Permutations(Requests)
=============================================================================
