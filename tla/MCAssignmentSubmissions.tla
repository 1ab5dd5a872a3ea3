----------------------- MODULE MCAssignmentSubmissions -----------------------
(* A small instance of AssignmentSubmissions.                              *)
EXTENDS AssignmentSubmissions, TLC

CONSTANTS ann, bob, red, blue, d1, d2, r1, r2

Symmetry == Permutations(Students) \cup Permutations(Groups)
              \cup Permutations(Drafts) \cup Permutations(Requests)

\* Staff publish for single students, then for groups, then allow more.
Stages == {{"published"}, {"published", "grouped"},
           {"published", "grouped", "resubmission"}}
=============================================================================
