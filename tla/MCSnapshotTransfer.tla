-------------------------- MODULE MCSnapshotTransfer --------------------------
(* A small instance of SnapshotTransfer for TLC: one project with two work  *)
(* items and a record of most kinds.                                        *)
EXTENDS SnapshotTransfer

At(t, i) == [Blank EXCEPT !.tab = t, !.id = i]
Project == At("projects", "p")
Skill == At("project_skills", "s1")
Work(i) == [At("work_items", i) EXCEPT !.status = "ready"]
Queued == [At("assignments", "a1") EXCEPT !.item = "w1", !.role = "r1", !.status = "queued",
                                          !.ver = 1]
Proof == [At("evidence", "v1") EXCEPT !.item = "w1", !.link = "a1"]
Note == [At("artifacts", "x1") EXCEPT !.item = "w1", !.link = "a1", !.role = "r1"]
Open == [At("handoffs", "h1") EXCEPT !.item = "w1", !.src = "a1", !.role = "r1",
                                        !.tgt = "w2", !.status = "open", !.ver = 1]
Candidate == [At("memory_candidates", "m1") EXCEPT !.status = "pending"]
Proposal == [At("assistant_proposals", "b1") EXCEPT !.status = "proposed"]

Full == {Project, Skill, At("roles", "r1"), Work("w1"), Work("w2"), Queued, Note, Proof,
         Open, Candidate, Proposal}
\* A handoff to an assignment, with and without naming its work item.
Elsewhere == [Queued EXCEPT !.id = "a3", !.item = "w2"]
MCSourceRows ==
    {Full, (Full \ {Open, Note, Skill, Candidate, Proposal})
           \cup {Elsewhere, [Open EXCEPT !.link = "a3", !.tgt = None]}}

\* An empty target, and one that holds an older state and records of its own.
MCTargetRows ==
    {{}, {Project, Work("w2"), [Open EXCEPT !.item = "w2", !.src = None]},
     {Project, [At("roles", "r1") EXCEPT !.status = "older"], At("roles", "r9"), Work("w1"), Queued, Work("w2"),
          [Proof EXCEPT !.status = "older"], [Open EXCEPT !.src = None],
          At("memory_entries", "e9")}}

Do(op, r) == Ask(op, [r EXCEPT !.ver = 1])
MCChanges ==
    {Do("DeleteProject", Project), Do("DeleteRole", At("roles", "r1")),
     Do("DeleteAssignment", Queued), Do("DeleteWorkItem", Work("w2")),
     Do("UpdateQueuedAssignment", [Queued EXCEPT !.item = "w2", !.src = "r1", !.tgt = "w1"]),
     Do("DeleteHandoff", Open), Do("CreateHandoff", [Open EXCEPT !.item = "w2", !.src = None]),
     Do("CreateReview", [Note EXCEPT !.id = "y1"]),
     Do("AcceptHandoffWithFollowUp", [Open EXCEPT !.link = "a2", !.claim = "key"]),
     Do("UpdateAssistantProposal", [Proposal EXCEPT !.ref = "blank attempt"]),
     Do("PromoteMemoryCandidate", [Candidate EXCEPT !.link = "e1"])}
=============================================================================
