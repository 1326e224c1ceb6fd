--------------------------- MODULE MCOperationsView ---------------------------
(* A small instance of OperationsView for TLC: a work item with finished     *)
(* work and a review that asks for more, another that it hands off to, and  *)
(* two operators who patch the first.                                       *)
EXTENDS OperationsView, TLC

CONSTANTS marker, owner

MCEditors == {marker, owner}
MCPatchOf == marker :> [status |-> "done"] @@ owner :> [role |-> "r1"]

At(t, i) == [Blank EXCEPT !.tab = t, !.id = i]
Work(i) == [At("work_items", i) EXCEPT !.status = "ready"]
Assigned(i, w, status) == [At("assignments", i) EXCEPT !.item = w, !.role = "r1",
                                                      !.status = status, !.ver = 1]
Proof(i, a) == [At("evidence", i) EXCEPT !.item = "w1", !.link = a]
Review(i, verdict) == [At("reviews", i) EXCEPT !.item = "w1", !.link = "a1", !.role = "r1",
                                               !.status = verdict]
Handoff(w) == [At("handoffs", "h1") EXCEPT !.item = "w1", !.src = "a1", !.role = "r1", !.tgt = w,
                                           !.status = "open", !.ref = "y1", !.ver = 1]
Candidate == [At("memory_candidates", "m1") EXCEPT !.status = "pending"]

Base == {At("projects", "p"), At("roles", "r1"), Work("w1"), Work("w2"), Candidate}

\* Ids with a colon, by which an assignment of one work item gets the id of
\* another's.
MCSplit(i) == CASE i = "w1:a3" -> <<"w1", "a3">> [] i = "a3:b" -> <<"a3", "b">> [] OTHER -> <<i>>

\* Reviewed and handed off, in the item or to the other; at work under a
\* claim, with more to do; done; and with ids that hold colons.
MCInitialRows ==
    {Base \cup {Assigned("a1", "w1", "completed"), Review("y1", "changes_requested")} \cup rest :
        rest \in {{Proof("v1", None), Handoff("w1")}, {Proof("v1", "a1"), Handoff("w2")}}}
    \cup {Base \cup {[Assigned("a1", "w1", "claimed") EXCEPT !.by = "k1", !.claim = "l1"],
                     Assigned("a3", "w1", "queued")},
          Base \cup {Assigned("a1", "w1", "completed"), Proof("v1", None)},
          {At("projects", "p"), Work("w1"), Assigned("a3:b", "w1", "queued"),
           Work("w1:a3"), Assigned("b", "w1:a3", "queued")}}

Do(op, r) == r @@ [op |-> op, late |-> FALSE]
Decided(status) == Do("UpdateHandoff", [Handoff("w1") EXCEPT !.status = status])
MCChanges ==
    {Do("AcceptHandoffWithFollowUp", [Handoff("w1") EXCEPT !.link = "a2", !.claim = "key"]),
     Decided("dismissed"), [Decided("superseded") EXCEPT !.ref = None], Do("DeleteHandoff", Handoff("w1")),
     Do("CreateHandoff", [Handoff("w1") EXCEPT !.id = "h2", !.ref = "y2"]),
     Do("CreateAssignment", Assigned("a4", "w1", "queued")),
     Do("UpdateQueuedAssignment", [Assigned("a3", "w2", "queued") EXCEPT !.tgt = "w1", !.src = "r1"]),
     Do("DeleteAssignment", Assigned("a1", "w1", "queued")),
     Do("UpdateAssignmentStatus", Assigned("a1", "w1", "awaiting_approval")),
     Do("CreateEvidence", Proof("v2", "a1")),
     Do("CreateReview", Review("y2", "blocked")),
     Do("DeleteWorkItem", Work("w1")), Do("DeleteRole", At("roles", "r1")),
     Do("UpdateMemoryCandidate", [Candidate EXCEPT !.status = "rejected"])}
    \cup {Do("CompleteAssignment", Assigned(a, "w1", status)) :
              a \in {"a1", "a2"}, status \in {"completed", "failed"}}
=============================================================================
