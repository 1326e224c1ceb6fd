-------------------------- MODULE MCSqliteTransition --------------------------
(* A small instance of SqliteTransition for TLC: two callers in one process *)
(* and one in another, on one file, two of them at a time.                  *)
EXTENDS SqliteTransition, TLC

CONSTANTS c1, c2, c3, p1, p2

MCCalls == {c1, c2, c3}
MCProcesses == {p1, p2}
MCProcessOf == c1 :> p1 @@ c2 :> p1 @@ c3 :> p2

At(t, i) == [Blank EXCEPT !.tab = t, !.id = i]
Base == {At("projects", "p"), At("work_items", "w1"), At("work_items", "w2"), At("roles", "r1")}
Assigned(status, by, claim) ==
    [At("assignments", "a1") EXCEPT !.item = "w1", !.role = "r1", !.status = status,
                                     !.by = by, !.claim = claim, !.ver = 1]
Open == [At("handoffs", "h1") EXCEPT !.item = "w1", !.role = "r1", !.tgt = "w2",
                                         !.status = "open", !.ver = 1]
Candidate == [At("memory_candidates", "m1") EXCEPT !.status = "pending"]

MCInitialRows ==
    {Base \cup {Assigned("queued", None, None), Open, Candidate},
     Base \cup {Assigned("claimed", "k1", "l1"), [Open EXCEPT !.link = "a1", !.tgt = "w1"],
                Candidate}}

Ask(op, id) == [op |-> op, id |-> id, item |-> None, role |-> None, link |-> None,
                src |-> None, tgt |-> None, ver |-> 1, claim |-> "l1", status |-> None,
                by |-> "k1", ref |-> None, late |-> FALSE]
\* A request that gives the record it writes.
Give(op, id, status) == [Ask(op, id) EXCEPT !.claim = None, !.by = None, !.status = status]

\* Every operation, on the rows above.
Deletions == {Ask("DeleteProject", "p"), Ask("DeleteWorkItem", "w1"), Ask("DeleteWorkItem", "w2"),
              Ask("DeleteRole", "r1"), Ask("DeleteAssignment", "a1"),
              Ask("DeleteMemoryCandidate", "m1")}
Creations ==
    {Give("CreateProject", "p", None), Give("CreateProjectSkill", "s1", "available"),
     Give("CreateWorkItem", "w2", "ready"), Give("CreateRole", "r1", None),
     Give("CreateMemoryEntry", "e2", None), Give("CreateMemoryCandidate", "m2", "pending"),
     Give("CreateAssistantProposal", "b1", "proposed")}
    \cup {[Give(op, "x1", None) EXCEPT !.item = "w1", !.role = "r1", !.link = "a1"] :
              op \in {"CreateArtifact", "CreateReview"}}
    \cup {[Give("CreateEvidence", "x1", None) EXCEPT !.item = "w1", !.link = "a1"]}
    \cup {[Give("CreateAssignment", i, "queued") EXCEPT !.item = "w2", !.role = "r1"] :
              i \in {"a1", "a2"}}
    \cup {[Give("CreateHandoff", "h2", "open") EXCEPT !.item = "w1", !.src = "a1",
                                                         !.role = "r1", !.tgt = "w2"]}
Changes ==
    {Give("UpdateProject", "p", "renamed"), Give("UpdateProjectSkill", "s1", "missing"),
     Give("UpdateWorkItem", "w1", "done"), Give("UpdateRole", "r1", "renamed"),
     Give("UpdateMemoryEntry", "e1", "disabled"), Give("UpdateMemoryCandidate", "m1", "rejected"),
     Give("UpdateAssistantProposal", "b1", "applied"),
     [Give("RestoreAssignmentSnapshot", "a1", "failed") EXCEPT !.item = "w2", !.role = "r1"],
     [Ask("UpdateQueuedAssignment", "a1") EXCEPT !.item = "w2", !.role = "r1", !.tgt = "w1",
                                                 !.src = "r1"],
     [Give("RestoreHandoffSnapshot", "h1", "dismissed") EXCEPT !.item = "w1", !.role = "r1",
                                                               !.tgt = "w2"]}
Transitions ==
    {[Ask(op, "a1") EXCEPT !.status = "running"] :
         op \in {"ClaimAssignmentWithLease", "RenewAssignmentClaim", "PrepareAssignmentWithClaim",
                 "ReleaseAssignmentWithClaim", "UpdateAssignmentStatusWithClaim",
                 "ClaimAssignment", "PrepareAssignment", "ReleaseAssignment",
                 "UpdateAssignmentStatus"}}
    \cup {[Ask(op, "a1") EXCEPT !.status = "completed"] :
              op \in {"CompleteAssignmentWithClaim", "CompleteAssignment"}}
    \cup {[Ask("RecoverAssignmentClaim", "a1") EXCEPT !.late = TRUE]}
Handoffs ==
    {[Ask("UpdateHandoff", "h1") EXCEPT !.item = "w1", !.role = "r1", !.tgt = "w2",
                                        !.status = "dismissed", !.ref = "x1"],
     [Ask("UpdateHandoff", "h1") EXCEPT !.item = "w1", !.role = "r1", !.tgt = "w2",
                                        !.status = "open"],
     [Ask("DeleteHandoff", "h1") EXCEPT !.item = "w1"]}
Accept(key) == [Ask("AcceptHandoffWithFollowUp", "h1") EXCEPT !.item = "w1", !.link = key,
                                                              !.claim = "k"]
Rival == [Ask("ClaimAssignment", "a1") EXCEPT !.by = "k2"]
Promote(e) == [Ask("PromoteMemoryCandidate", "m1") EXCEPT !.link = e]

MCRequests == Deletions \cup Creations \cup Changes \cup Transitions \cup Handoffs
              \cup {Accept("a2"), Accept("a3"), Promote("e1"), Promote("e2"),
                    Rival, Ask("DeleteMemoryEntry", "e1")}

\* The first caller asks for anything; the second, in its process, and the
\* third, in another, for what is most in its way.
MCMayAsk ==
    c1 :> MCRequests
    @@ c2 :> {Accept("a3"), Ask("DeleteAssignment", "a1"), Ask("DeleteRole", "r1")}
    @@ c3 :> {Ask("DeleteWorkItem", "w2"), Ask("DeleteWorkItem", "w1"), Promote("e2"),
              Ask("DeleteRole", "r1"), Rival}
=============================================================================
