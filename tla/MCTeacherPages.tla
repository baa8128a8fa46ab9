--------------------------- MODULE MCTeacherPages ---------------------------
(* The teacher's pages on two of everything.                               *)
EXTENDS TeacherPages, TLC

Symmetry == Permutations(Ids) \cup Permutations(Values)
=============================================================================
