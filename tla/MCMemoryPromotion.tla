------------------------- MODULE MCMemoryPromotion -------------------------
(* Small instances of MemoryPromotion for TLC. *)
EXTENDS MemoryPromotion, TLC

\* Ids, contents and reviewers are interchangeable.
Symmetry ==
    Permutations(Candidates) \cup Permutations(Entries) \cup
    Permutations(Contents) \cup Permutations(Reviewers)
=============================================================================
