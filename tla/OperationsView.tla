---------------------------- MODULE OperationsView ----------------------------
(***************************************************************************)
(* The read models that tell an operator what to do (closeout_readiness.go,*)
(* operations_brief.go, activity.go, the attention list of                 *)
(* project_health.go), and the tool that marks a work item done            *)
(* (work_items.update in tools.go).  A read model lists one table after    *)
(* the other while others write; the tool reads a work item, patches its   *)
(* copy and writes the whole record back.  A store call is one step, but   *)
(* for the lists of a work item, which are two, as in SQLite: they ask for *)
(* the item, and then select.                                              *)
(*                                                                         *)
(* The status of a review row is its verdict, the ref of a handoff row the *)
(* record it links, the role of a work item its owner.  Titles, details,   *)
(* times, the order of items and the attention limit are left out, and the *)
(* project is there throughout.                                            *)
(***************************************************************************)
EXTENDS StoreStatements

CONSTANTS InitialRows, Changes,
          MaxChanges,  \* bound: writes in a behaviour
          Editors, PatchOf, PatchedItem, \* who patches which fields of which item
          Split(_)     \* the pieces of an id that hosts may give, cut at its colons

Active == {"queued", "claimed", "running", "awaiting_approval", "awaiting_review"}

\* What the store and the service see to: ids are never blank, an assignment
\* is in one of its states, and a work item in some.
ValidRow(r) ==
    /\ r.tab \in Tables
    /\ r.tab \in {"work_items", "assignments", "reviews", "handoffs", "memory_candidates"} => r.id # None
    /\ r.tab = "assignments" => r.status \in Active \cup Terminal
    /\ r.tab = "work_items" => r.status # None

\* The project is not deleted, and nothing imported into it, meanwhile.
ValidRequest(q) ==
    /\ q.op \in Ops \ {"DeleteProject", "RestoreAssignmentSnapshot", "RestoreHandoffSnapshot"}
    /\ q.id # None
    /\ q.op = "AcceptHandoffWithFollowUp" => q.link # None
    /\ q.op \in {"CreateWorkItem", "UpdateWorkItem"} => q.status # None
    /\ q.op \in {"CreateAssignment", "UpdateAssignmentStatus", "UpdateAssignmentStatusWithClaim",
                 "CompleteAssignment", "CompleteAssignmentWithClaim"}
          => q.status \in Active \cup Terminal

ASSUME ViewAssumption ==
    /\ \A img \in InitialRows : AreRows(img) /\ Keyed(img) /\ \A r \in img : ValidRow(r)
    /\ \A q \in Changes : ValidRequest(q)
    /\ MaxChanges \in Nat
    /\ None # "ready"
    /\ \A e \in Editors : DOMAIN PatchOf[e] \cap {"tab", "id"} = {}

VARIABLES
    rows,
    view, turn, current, items, got,  \* the one read: the read model, the list to
              \* read next, its work item, those to come, the rows it got
    admitted, \* the list found its work item
    clear,    \* history: work items that were clear at a moment of the read
    stirred,  \* history: those whose assignments or reviews came or went, or that
              \* were deleted, meanwhile
    editor,   \* editor -> progress of its patch
    changes

place == <<turn, current, items, admitted>>
reader == <<view, place, got>>
vars == <<rows, reader, clear, stirred, editor, changes>>

NoCopy == [Blank EXCEPT !.status = "none"]

Init ==
    /\ rows \in InitialRows
    /\ view = "none" /\ turn = "none" /\ current = None /\ items = {} /\ admitted = FALSE
    /\ got = {} /\ clear = {} /\ stirred = {}
    /\ editor = [e \in Editors |-> [at |-> "idle", copy |-> NoCopy, overlapped |-> FALSE]]
    /\ changes = 0

Ids(img, t) == {r.id : r \in OfTable(img, t)}
Of(img, t, w) == {r \in OfTable(img, t) : r.item = w}

-----------------------------------------------------------------------------
(* What the read models make of what they read.                            *)

Closed(w) == w.status \in {"done", "cancelled"}
HasEvidence(a, evidence) == \E e \in evidence : e.link \in {None, a.id}

RequiresFollowUp(r) == r.status \in {"changes_requested", "blocked"}

\* A linked handoff that is open blocks; else one whose follow-up in the
\* item is completed clears; else any follow-up blocks, and a handoff that
\* was dismissed or superseded clears.
FollowUpBlocked(r, handoffs, assignments) ==
    LET linked == {h \in handoffs : h.ref = r.id}
        targeted == {h \in linked : h.link # None}
    IN /\ RequiresFollowUp(r)
       /\ \/ \E h \in linked : h.status = "open"
          \/ /\ ~\E h \in targeted, a \in assignments : a.id = h.link /\ a.status = "completed"
             /\ \/ targeted # {}
                \/ ~\E h \in linked : h.status \in {"dismissed", "superseded"}

\* Mutant: as if the pause for an approval were the end of the work.
CloseoutClass_Paused(a) == IF a.status \in Active \ {"awaiting_approval"} THEN "active"
                           ELSE IF a.status \in Terminal THEN a.status ELSE "completed"

CloseoutClass(a) == IF a.status \in Active THEN "active"
                    ELSE IF a.status \in Terminal THEN a.status ELSE "unresolved"

EvaluateWorkItemCloseoutReadiness(w, assignments, evidence, reviews, handoffs) ==
    LET missing == {a \in assignments : a.status = "completed" /\ ~HasEvidence(a, evidence)}
        open == {h \in handoffs : h.status = "open"}
        followUps == {r \in reviews : FollowUpBlocked(r, handoffs, assignments)}
        blockers == ({CloseoutClass(a) : a \in assignments} \ {"completed"})
                    \cup {k \in {"missing_evidence", "handoff", "review_follow_up"} :
                             CASE k = "missing_evidence" -> missing # {}
                               [] k = "handoff"          -> open # {}
                               [] k = "review_follow_up" -> followUps # {}}
    IN IF Closed(w)
       THEN [status |-> "done", blockers |-> {}, missing |-> {}, open |-> {}, followUps |-> {}]
       ELSE [status |-> IF blockers = {} THEN "ready" ELSE "blocked", blockers |-> blockers,
             missing |-> missing, open |-> open, followUps |-> followUps]

\* The readiness of a work item that was read, from what was read.
Readiness(w, seen) ==
    EvaluateWorkItemCloseoutReadiness(w, Of(seen, "assignments", w.id), Of(seen, "evidence", w.id),
                                      Of(seen, "reviews", w.id), Of(seen, "handoffs", w.id))

\* late: the claims that have expired.
OperationSeverity(a, late) ==
    CASE a.status \in {"queued", "awaiting_approval", "failed", "cancelled"} -> "blocked"
      [] a.status = "claimed" /\ a.claim # None /\ a.claim \in late -> "blocked"
      [] a.status \in {"claimed", "running", "awaiting_review"} -> "active"
      [] OTHER -> "none"

OperationItem(kind, severity, w, assignment, record) ==
    [kind |-> kind, severity |-> severity, item |-> w, assignment |-> assignment,
     record |-> record]

\* The items of one work item; the closeout item needs an assignment.
WorkItemOperations(w, seen, late) ==
    LET readiness == Readiness(w, seen)
        assigned == Of(seen, "assignments", w.id)
        Single(kind, severity) == {OperationItem(kind, severity, w.id, None, None)}
    IN {OperationItem("assignment", OperationSeverity(a, late), w.id, a.id, None) :
            a \in {b \in assigned : OperationSeverity(b, late) # "none"}}
       \cup {OperationItem("missing_evidence", "blocked", w.id, a.id, None) :
                a \in readiness.missing}
       \cup {OperationItem("review_follow_up", "blocked", w.id, r.link, r.id) :
                r \in readiness.followUps}
       \cup {OperationItem("handoff", "blocked", w.id, None, h.id) : h \in readiness.open}
       \cup (IF readiness.status = "ready" /\ assigned # {}
             THEN Single("closeout_ready", "ready") ELSE {})
       \cup (IF ~Closed(w) /\ assigned = {} THEN Single("work_item", "info") ELSE {})

ProjectOperationsBrief(seen, late) ==
    (UNION {WorkItemOperations(w, seen, late) : w \in OfTable(seen, "work_items")})
    \cup {OperationItem("memory_candidate", "action", None, None, c.id) :
             c \in {d \in OfTable(seen, "memory_candidates") : d.status = "pending"}}

\* healthItemID joins the parts that are not blank with colons, which an id may
\* hold itself; the attention list of project health keeps one item for each.
HealthItemID(i) ==
    LET Part(p) == IF p = None THEN <<>> ELSE Split(p)
    IN <<i.kind>> \o Part(i.item) \o Part(i.assignment) \o Part(i.record)

ActivityBucket(a, late) ==
    CASE a.status = "claimed" /\ a.claim # None /\ a.claim \in late -> "blocked"
      [] a.status \in {"claimed", "running", "awaiting_review"} -> "active"
      [] a.status \in {"queued", "awaiting_approval", "failed", "cancelled"} -> "blocked"
      [] a.status = "completed" -> "completed"
      [] OTHER -> "other"

-----------------------------------------------------------------------------
(* Clear: what ready means, of the rows at one moment.  A follow-up is      *)
(* settled by a completed assignment of the item, or, if none was planned, *)
(* by dismissing or superseding its handoff.                               *)

Settled(r, img) ==
    LET linked == {h \in Of(img, "handoffs", r.item) : h.ref = r.id}
    IN \/ \E h \in linked, a \in Of(img, "assignments", r.item) :
              a.id = h.link /\ a.status = "completed"
       \/ /\ \A h \in linked : h.link = None
          /\ \E h \in linked : h.status \in {"dismissed", "superseded"}

IsClear(w, img) ==
    /\ \A a \in Of(img, "assignments", w) :
          a.status = "completed" /\ \E e \in Of(img, "evidence", w) : e.link \in {None, a.id}
    /\ \A h \in Of(img, "handoffs", w) : h.status # "open"
    /\ \A r \in Of(img, "reviews", w) : RequiresFollowUp(r) => Settled(r, img)

ClearNow(img) == {w \in Ids(img, "work_items") : IsClear(w, img)}

Places(img) == {<<r.tab, r.id, r.item>> :
                   r \in OfTable(img, "assignments") \cup OfTable(img, "reviews")}
Stirred(old, new) ==
    {k[3] : k \in (Places(old) \ Places(new)) \cup (Places(new) \ Places(old))}
    \cup (Ids(old, "work_items") \ Ids(new, "work_items"))

Reading == turn # "none"
Watch(new) ==
    /\ clear' = IF Reading THEN clear \cup ClearNow(new) ELSE clear
    /\ stirred' = IF Reading THEN stirred \cup Stirred(rows, new) ELSE stirred

-----------------------------------------------------------------------------
(* The read models' reads.                                                 *)

ItemLists == {"evidence", "reviews", "handoffs"}

StartReading(kind, w) ==
    /\ view = "none"
    /\ view' = kind /\ turn' = "work_items" /\ current' = w /\ items' = {} /\ got' = {}
    /\ admitted' = FALSE /\ clear' = ClearNow(rows) /\ stirred' = {}
    /\ UNCHANGED <<rows, editor, changes>>

WorkItemCloseoutReadiness == \E w \in Ids(rows, "work_items") : StartReading("closeout", w)
OperationsBrief == StartReading("brief", None)

\* Work items, assignments and candidates of the project, or the one work
\* item; then three lists of each work item.
Listed == {r \in OfTable(rows, turn) :
              /\ turn \in ItemLists => r.item = current
              /\ turn = "work_items" /\ current # None => r.id = current}
Refused == /\ turn \in ItemLists \cup {"work_items"} /\ current # None
           /\ current \notin Ids(rows, "work_items")

Last == IF view = "brief" THEN turn \in {"memory_candidates", "handoffs"} ELSE turn = "handoffs"
NextList ==
    /\ ~Last
    /\ turn' = CASE turn = "work_items"  -> "assignments"
               [] turn = "assignments" -> IF view = "brief" THEN "memory_candidates" ELSE "evidence"
               [] turn = "evidence"    -> "reviews"
               [] turn = "reviews"     -> "handoffs"
    /\ items' = IF turn = "work_items" /\ view = "brief" THEN {r.id : r \in Listed} ELSE items
    /\ UNCHANGED current
\* The brief takes the work items in their order, which is any.
NextItem ==
    /\ Last /\ turn' = "evidence" /\ current' \in items /\ items' = items \ {current'}
EndReading ==
    /\ Last /\ items = {} /\ turn' = "none" /\ UNCHANGED <<current, items>>

\* A list of a work item asks for the item.
AdmitList ==
    /\ turn \in ItemLists /\ ~admitted /\ ~Refused
    /\ admitted' = TRUE
    /\ UNCHANGED <<rows, view, turn, current, items, got, clear, stirred, editor, changes>>

\* The SELECT, whatever was deleted since; or the work item itself.
ReadList ==
    /\ Reading /\ (IF turn \in ItemLists THEN admitted ELSE ~Refused)
    /\ admitted' = FALSE
    /\ got' = got \cup Listed
    /\ NextList \/ NextItem \/ EndReading
    /\ UNCHANGED <<rows, view, clear, stirred, editor, changes>>

\* A work item deleted since: the whole answer is not found.
FailReading ==
    /\ Reading /\ ~admitted /\ Refused
    /\ view' = "failed" /\ turn' = "none" /\ current' = None /\ items' = {} /\ got' = {}
    /\ UNCHANGED <<rows, admitted, clear, stirred, editor, changes>>

-----------------------------------------------------------------------------
(* Writers.                                                                *)

Patched(r, patch) ==
    [c \in DOMAIN Blank |-> IF c \in DOMAIN patch THEN patch[c] ELSE r[c]]
Rows(img, i) == {r \in OfTable(img, "work_items") : r.id = i}
Target == Get(rows, "work_items", PatchedItem)
Advance(e, at, copy) ==
    editor' = [editor EXCEPT ![e] = [at |-> at, copy |-> copy, overlapped |-> FALSE]]

\* Whoever is between its read and its write has been overtaken by the write.
Overtaken(x, new) ==
    [editor[x] EXCEPT !.overlapped = @ \/ /\ editor[x].at \in {"read", "checked"}
                                          /\ Rows(new, PatchedItem) # Rows(rows, PatchedItem)]

\* Any call of the store; changes after the read are of no interest.
Change ==
    /\ view = "none" \/ Reading
    /\ changes < MaxChanges /\ changes' = changes + 1
    /\ \E q \in Changes :
          /\ Refusals(q, rows) = {}
          /\ rows' = RunAll(Operation(q, rows).do, rows)
    /\ editor' = [x \in Editors |-> Overtaken(x, rows')]
    /\ Watch(rows')
    /\ UNCHANGED <<reader>>

\* Mutant: fields that are not given take their defaults.
ReadForPatch_Defaults(e) ==
    /\ changes < MaxChanges /\ editor[e].at = "idle" /\ Has(rows, "work_items", PatchedItem)
    /\ Advance(e, "read", Patched([Blank EXCEPT !.id = PatchedItem], PatchOf[e]))
    /\ UNCHANGED <<rows, reader, clear, stirred, changes>>

\* updateWorkItem: the tool reads the item and patches its copy.
ReadForPatch(e) ==
    /\ changes < MaxChanges /\ editor[e].at = "idle" /\ Has(rows, "work_items", PatchedItem)
    /\ Advance(e, "read", Patched(Target, PatchOf[e]))
    /\ UNCHANGED <<rows, reader, clear, stirred, changes>>

\* Service.UpdateWorkItem: the item is read again, for its creation time, the
\* owner looked up, and a blank status set to ready.
Valid(e) == /\ Has(rows, "work_items", PatchedItem)
            /\ editor[e].copy.role # None => Has(rows, "roles", editor[e].copy.role)
CheckPatch(e) ==
    /\ editor[e].at = "read" /\ Valid(e)
    /\ editor' = [editor EXCEPT ![e].at = "checked",
                                ![e].copy.status = IF @ = None THEN "ready" ELSE @]
    /\ UNCHANGED <<rows, reader, clear, stirred, changes>>

\* The whole record is written, whatever was written meanwhile.
WritePatch(e) ==
    /\ editor[e].at = "checked" /\ Has(rows, "work_items", PatchedItem)
    /\ changes < MaxChanges /\ changes' = changes + 1
    /\ rows' = (rows \ {Target}) \cup {editor[e].copy}
    /\ editor' = [x \in Editors |-> IF x = e THEN [editor[e] EXCEPT !.at = "written"]
                                    ELSE Overtaken(x, rows')]
    /\ Watch(rows')
    /\ UNCHANGED <<reader>>

RefusePatch(e) ==
    /\ \/ editor[e].at = "idle" /\ ~Has(rows, "work_items", PatchedItem)
       \/ editor[e].at = "read" /\ ~Valid(e)
       \/ editor[e].at = "checked" /\ ~Has(rows, "work_items", PatchedItem)
    /\ Advance(e, "refused", NoCopy)
    /\ UNCHANGED <<rows, reader, clear, stirred, changes>>

Next == \/ WorkItemCloseoutReadiness \/ OperationsBrief \/ AdmitList \/ ReadList \/ FailReading \/ Change
        \/ \E e \in Editors : ReadForPatch(e) \/ CheckPatch(e) \/ WritePatch(e) \/ RefusePatch(e)

Spec == Init /\ [][Next]_vars

-----------------------------------------------------------------------------
(* Properties.                                                             *)

\* Every record has an id of its own in its table, a read that failed
\* answers nothing, and a read holds one version of each record of an item.
TypeOK ==
    /\ AreRows(rows) /\ Keyed(rows) /\ \A r \in rows \cup got : ValidRow(r)
    /\ \A r, s \in got : r.tab = s.tab /\ r.id = s.id /\ r.item = s.item => r = s
    /\ view \in {"none", "closeout", "brief", "failed"}
    /\ turn \in {"none", "work_items", "assignments", "memory_candidates"} \cup ItemLists
    /\ view \in {"none", "failed"} => ~Reading /\ got = {}
    /\ items \subseteq Ids(got, "work_items") /\ (items # {} => Reading)
    /\ admitted \in BOOLEAN /\ (admitted => turn \in ItemLists)
    /\ \A e \in Editors : editor[e].at \in {"idle", "read", "checked", "written", "refused"}
    /\ changes \in 0..MaxChanges

Answered(kinds) == view \in kinds /\ ~Reading

\* Although its lists are read one after the other, an answer that a work
\* item is ready to be closed was true at a moment of the read, unless an
\* assignment or a review came to the item or left it, or the item itself was
\* deleted, meanwhile.
ReadyHeld ==
    Answered({"closeout", "brief"}) =>
        \A w \in OfTable(got, "work_items") :
            Readiness(w, got).status = "ready" => w.id \in clear \cup stirred

Claims(img) == {a.claim : a \in OfTable(img, "assignments")} \ {None}

\* Whatever claims have expired, a brief has an item for every work item
\* that is open, blocks on the assignments that activity calls blocked, and
\* gives no two items whose ids hold no colon one id, which project health
\* would drop.
Unsplit(i) == \A p \in {i.item, i.assignment, i.record} \ {None} : Split(p) = <<p>>
NothingHidden ==
    Answered({"brief"}) => \A late \in SUBSET Claims(got) :
        LET answer == ProjectOperationsBrief(got, late)
        IN /\ \A w \in OfTable(got, "work_items") :
                 ~Closed(w) => \E i \in answer : i.item = w.id
           /\ \A a \in OfTable(got, "assignments") :
                 (ActivityBucket(a, late) = "blocked") <=> (OperationSeverity(a, late) = "blocked")
           /\ \A i, j \in {k \in answer : Unsplit(k)} :
                 HealthItemID(i) = HealthItemID(j) => i = j

AnswersHold == ReadyHeld /\ NothingHidden

\* A patch of a work item leaves the fields it does not name as they are,
\* unless another write of the item came between its read and its write; in
\* particular nobody else's patch reopens an item that was marked done.
PatchKeepsTheRest ==
    [][\A e \in Editors :
          editor[e].at = "checked" /\ editor'[e].at = "written" /\ ~editor[e].overlapped =>
              \A r \in Rows(rows, PatchedItem), x \in Rows(rows', PatchedItem),
                 c \in DOMAIN Blank \ DOMAIN PatchOf[e] : x[c] = r[c]]_vars
=============================================================================
