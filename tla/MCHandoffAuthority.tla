------------------------- MODULE MCHandoffAuthority -------------------------
(* Small instances of HandoffAuthority for TLC. *)
EXTENDS HandoffAuthority, TLC

\* The ids of each kind are interchangeable; sources and senders are some of
\* the assignments and roles, so that only permutations keeping them apply.
Symmetry ==
    Permutations(WorkItems) \cup Permutations(Keys) \cup Permutations(Texts)
    \cup {p \in Permutations(Assignments) : {p[a] : a \in Sources} = Sources}
    \cup {p \in Permutations(Roles) : {p[r] : r \in Senders} = Senders}
=============================================================================
