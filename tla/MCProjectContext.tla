-------------------------- MODULE MCProjectContext --------------------------
(* A small instance of ProjectContext for TLC. *)
EXTENDS ProjectContext, TLC

CONSTANTS r1, r2, r3, s1, k1, here, p1, p2

MCRootIds == {r1, r2, r3}
EditedRootIds == {r1, r2}
MCSourceIds == {s1}
MCSkills == {k1}
MCPaths == {here}
Root(id, content) == [id |-> id, content |-> content]
Host(roots, default) == [roots |-> roots, default |-> default]
MCHostProjects ==
    {Host(<<Root(r1, here), Root(r2, Inactive), Root(r3, Inactive)>>, r2),
     Host(<<Root(r2, here), Root(r1, Inactive), Root(r3, Inactive)>>, r1)}

\* The skill is in a directory of every active root, or behind guidance too.
MCFileSets == {{<<here, "own", k1>>}, {<<here, "own", k1>>, <<here, "guided", k1>>}}

MCSkillInputs ==
    {[description |-> "edited", status |-> Unset], [description |-> "", status |-> "invalid"]}

Edit(op, id, content) == [op |-> op, id |-> id, content |-> content]
MCEdits ==
    {Edit(op, r, here) : op \in {"CreateRoot", "AttachProjectRoot", "DeleteRoot", "RemoveProjectRoot",
                                 "SetProjectDefaults"}, r \in EditedRootIds}
    \cup {Edit("UpdateRoot", r, x) : r \in EditedRootIds, x \in {here, Inactive}}
    \cup {Edit(op, s1, Guide) : op \in {"CreateContextSource", "UpdateContextSource", "DeleteContextSource"}}
    \cup {Edit("UpdateContextSource", s1, Plain), Edit("DiscoverProjectSkills", NoRoot, Plain),
           Edit("RenameProject", NoRoot, Plain)}
    \cup {Edit("PatchRoots", NoRoot, <<Root(r, here)>>) : r \in EditedRootIds}

MCCallers == {p1, p2}
Symmetry == Permutations(EditedRootIds) \cup Permutations(MCCallers)
=============================================================================
