-------------------------- MODULE MCAssistantLedger --------------------------
(* A small instance of AssistantLedger for TLC. *)
EXTENDS AssistantLedger, TLC

CONSTANTS t1, c1, c2, s1, s2

MCTargets == {t1}
MCCallers == {c1, c2}
MCServers == {s1, s2}
Act(kind, target) == [kind |-> kind, target |-> target]

\* An explicit creation before or after other actions, an update, and lists
\* that are refused.
MCBodies ==
    {<<Act("create_drawn", NoTarget), Act("create", t1)>>,
     <<Act("update", t1), Act("create_project", NoTarget)>>,
     <<Act("create_project", NoTarget)>>,
     <<Act("update", NoTarget)>>,
     <<Act("update_tokenless", t1)>>}

\* A ledger from before handoffs had revisions.
Historical ==
    [body |-> <<Act("update_tokenless", t1)>>, status |-> "proposed", attempts |-> <<>>, latest |-> NoResult]

MCImports == {Historical} \cup
    {[body |-> <<Act("create", t1)>>, status |-> "proposed", attempts |-> <<>>,
      latest |-> [status |-> "applied", count |-> 1]],
     [body |-> <<Act("create", t1)>>, status |-> "applied", attempts |-> <<>>, latest |-> NoResult]}

\* Callers and processes are interchangeable.
Symmetry == Permutations(MCCallers) \cup Permutations(MCServers)
=============================================================================
