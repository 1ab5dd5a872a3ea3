------------------------- MODULE MCSubmissionGrades -------------------------
(* Small instances of SubmissionGrades.                                    *)
EXTENDS SubmissionGrades, TLC

CONSTANTS g1, g2, g3

Symmetry == Permutations(Graders)
=============================================================================
