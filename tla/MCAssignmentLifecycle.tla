----------------------- MODULE MCAssignmentLifecycle -----------------------
(* Small instances of AssignmentLifecycle for TLC. *)
EXTENDS AssignmentLifecycle, TLC

\* Workers, claim ids, coordinations and editors are interchangeable.
Symmetry ==
    Permutations(Workers) \cup Permutations(ClaimIds) \cup
    Permutations(Coordinations) \cup Permutations(Editors)
=============================================================================
