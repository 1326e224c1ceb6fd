--------------------------- MODULE StoreStatements ---------------------------
(***************************************************************************)
(* The operations of internal/sqlitestore as what they ask of a database:  *)
(* the rows a call looks up before it writes, whether it writes in a       *)
(* transaction, what that transaction refuses after its SELECT, and the    *)
(* statements it runs.  Pure operators over a set of rows.                 *)
(*                                                                         *)
(* The rows are those of one project and, among assistant_proposals, of    *)
(* its proposals: "of the project" is the whole table.                     *)
(*                                                                         *)
(* A row keeps the columns decisions are taken on.  "link" is the          *)
(* assignment a record, a handoff or a receipt names, and the entry a      *)
(* promoted candidate names; "ver" stands for updated_at, which every      *)
(* transition but a renewal moves forward, and in a receipt for the        *)
(* request's hash; "ref" is the run of an assignment, the artifact or      *)
(* review a handoff links (at most one here), and in a proposal what an    *)
(* import of it objects to.  Texts and roots are left out, as is           *)
(* ValidateAssignmentClaimState, which valid rows always pass              *)
(* (AssignmentLifecycle).  Time enters as the request's "late": whether    *)
(* the clock has passed the lease when the transaction looks at it.        *)
(***************************************************************************)
EXTENDS Naturals, Sequences

CONSTANTS None

Owned == {"project_skills", "work_items", "roles", "assignments", "artifacts", "evidence",
          "reviews", "handoffs", "command_receipts", "memory_entries", "memory_candidates"}
Tables == Owned \cup {"projects", "assistant_proposals"}

Blank == [tab |-> "work_items", id |-> None, item |-> None, link |-> None, src |-> None,
          role |-> None, tgt |-> None, status |-> None, by |-> None, claim |-> None,
          ref |-> None, ver |-> 0]

\* Errors a caller can tell apart; "failed" is any other error.
Typed == {"notfound", "duplicate", "conflict", "invalid"}
Answers == {"none", "ok", "failed"} \cup Typed

Has(img, t, i) == \E r \in img : r.tab = t /\ r.id = i
Get(img, t, i) == CHOOSE r \in img : r.tab = t /\ r.id = i
OfTable(img, t) == {r \in img : r.tab = t}
\* The primary keys.
Keyed(img) == \A r, s \in img : r.tab = s.tab /\ r.id = s.id => r = s

\* A row has all of its columns.
IsRow(r) == r = [c \in DOMAIN Blank |-> r[c]]
AreRows(img) == \A r \in img : IsRow(r)

\* The record of a request as a row of table t.
Row(q, t) == [c \in DOMAIN Blank |-> IF c = "tab" THEN t ELSE q[c]]

-----------------------------------------------------------------------------
(* Statements.                                                             *)

Insert(row) == [do |-> "insert", row |-> row, ver |-> None, miss |-> "none"]
\* UPDATE ... WHERE id and, if given, updated_at; miss answers for no row.
Put(row, ver, miss) == [do |-> "put", row |-> row, ver |-> ver, miss |-> miss]
Delete(t, col, val) == [do |-> "delete", row |-> [Blank EXCEPT !.tab = t, ![col] = val],
                        ver |-> col, miss |-> "none"]
DeleteOne(t, i) == [Delete(t, "id", i) EXCEPT !.miss = "notfound"]

Matches(s, img) ==
    {r \in img :
        /\ r.tab = s.row.tab
        /\ CASE s.do = "delete" -> r[s.ver] = s.row[s.ver]
             [] s.do = "put"    -> r.id = s.row.id /\ (s.ver # None => r.ver = s.ver)
             [] s.do = "insert" -> r.id = s.row.id}

\* The typed errors a statement meets: a key that exists, a work item or a
\* project that does not (the foreign keys), no row affected.
Misses(s, img) ==
    IF s.do = "insert"
    THEN {a \in {"duplicate", "notfound"} :
            IF a = "duplicate" THEN Matches(s, img) # {}
            ELSE \/ s.row.item # None /\ ~Has(img, "work_items", s.row.item)
                 \/ s.row.tab \in Owned /\ OfTable(img, "projects") = {}}
    ELSE IF Matches(s, img) = {} THEN {s.miss} \ {"none"} ELSE {}

Run(s, img) == (img \ (IF s.do = "insert" THEN {} ELSE Matches(s, img)))
               \cup (IF s.do = "delete" THEN {} ELSE {s.row})

\* The rows after each number of statements of a list, and after all of them.
RunTo(list, img) ==
    LET after[k \in 0..Len(list)] == IF k = 0 THEN img ELSE Run(list[k], after[k - 1])
    IN after
RunAll(list, img) == RunTo(list, img)[Len(list)]

\* The errors a statement of the list meets when those before it have run.
ListMisses(list, img) == UNION {Misses(list[k], RunTo(list, img)[k - 1]) : k \in DOMAIN list}

-----------------------------------------------------------------------------
(* Shapes of operations.  A lookup is a row that must exist, in a work     *)
(* item if one is given.                                                   *)

Look(t, i, item) == IF i = None THEN <<>> ELSE <<[tab |-> t, id |-> i, item |-> item]>>
Item(i) == Look("work_items", i, None)
Role(i) == Look("roles", i, None)
Found(look, img) == \E r \in img : /\ r.tab = look.tab /\ r.id = look.id
                                   /\ look.item # None => r.item = look.item

Plan(mode, looks, no, list) == [mode |-> mode, looks |-> looks, no |-> no, do |-> list]
\* Lookups, then one statement in a transaction of its own.
Autocommit(looks, statement) == Plan("auto", looks, {}, <<statement>>)

\* beginAssignmentTransition: BEGIN IMMEDIATE, read the row, decide, and one
\* UPDATE that asks for the revision that was read.
Transition(q, img, looks, allowed, next) ==
    LET no == IF ~Has(img, "assignments", q.id) THEN {"notfound"}
              ELSE IF allowed THEN {} ELSE {"conflict"}
    IN Plan("immediate", looks, no,
            IF no = {} THEN <<Put(next, Get(img, "assignments", q.id).ver, "conflict")>> ELSE <<>>)

Stamped(r) == [r EXCEPT !.ver = @ + 1]

-----------------------------------------------------------------------------
(* Projects, skills, work items and roles.                                 *)

CreateProject(q, img) == Autocommit(<<>>, Insert(Row(q, "projects")))
UpdateProject(q, img) == Autocommit(<<>>, Put(Row(q, "projects"), None, "notfound"))

\* One transaction over every table of the project.
DeleteProject(q, img) ==
    Plan("deferred", <<>>, {},
         [k \in 1..12 |->
             LET t == <<"command_receipts", "artifacts", "evidence", "reviews", "handoffs",
                        "memory_candidates", "memory_entries", "assistant_proposals",
                        "assignments", "project_skills", "work_items", "roles">>[k]
             IN Delete(t, "tab", t)]
         \o <<DeleteOne("projects", q.id)>>)

CreateProjectSkill(q, img) == Autocommit(<<>>, Insert(Row(q, "project_skills")))
UpdateProjectSkill(q, img) == Autocommit(<<>>, Put(Row(q, "project_skills"), None, "notfound"))

CreateWorkItem(q, img) == Autocommit(<<>>, Insert(Row(q, "work_items")))
UpdateWorkItem(q, img) == Autocommit(<<>>, Put(Row(q, "work_items"), None, "notfound"))

\* Mutant: each statement commits by itself.
DeleteWorkItem_Autocommit(q, img) ==
    Plan("auto", <<>>, {},
         <<Delete("artifacts", "item", q.id), Delete("evidence", "item", q.id),
           Delete("reviews", "item", q.id), Delete("assignments", "item", q.id),
           Delete("handoffs", "item", q.id), Delete("handoffs", "tgt", q.id),
           DeleteOne("work_items", q.id)>>)

\* One transaction: the records of the work item, the handoffs from and to
\* it, and the item, which must have been there.
DeleteWorkItem(q, img) ==
    Plan("deferred", <<>>, {},
         <<Delete("artifacts", "item", q.id), Delete("evidence", "item", q.id),
           Delete("reviews", "item", q.id), Delete("assignments", "item", q.id),
           Delete("handoffs", "item", q.id), Delete("handoffs", "tgt", q.id),
           DeleteOne("work_items", q.id)>>)

CreateRole(q, img) == Autocommit(<<>>, Insert(Row(q, "roles")))
UpdateRole(q, img) == Autocommit(<<>>, Put(Row(q, "roles"), None, "notfound"))
DeleteRole(q, img) == Autocommit(<<>>, DeleteOne("roles", q.id))

-----------------------------------------------------------------------------
(* Assignments.                                                            *)

CreateAssignment(q, img) ==
    Autocommit(Item(q.item) \o Role(q.role), Insert(Row(q, "assignments")))

\* One UPDATE of the whole row, whatever its revision.
RestoreAssignmentSnapshot(q, img) ==
    Autocommit(Item(q.item) \o Role(q.role), Put(Row(q, "assignments"), None, "notfound"))

\* The work item and the role are looked up before the transaction; the row
\* must be as the caller read it (in q.tgt and q.src at revision q.ver).
UpdateQueuedAssignment(q, img) ==
    LET a == Get(img, "assignments", q.id)
    IN Transition(q, img, Item(q.item) \o Role(q.role),
                  /\ a.status = "queued" /\ a.by = None /\ a.ref = None
                  /\ a.ver = q.ver /\ a.item = q.tgt /\ a.role = q.src,
                  Stamped([a EXCEPT !.item = q.item, !.role = q.role]))

Terminal == {"completed", "failed", "cancelled"}

ClaimAllowsMutation(a, q) ==
    /\ a.claim # None /\ a.claim = q.claim
    /\ a.status = "claimed" => ~q.late

Reserved(a, by, claim) == Stamped([a EXCEPT !.status = "claimed", !.by = by, !.claim = claim])
Requeued(a) == Stamped([a EXCEPT !.status = "queued", !.by = None, !.claim = None, !.ref = None])
Prepared(a, q) == Stamped([a EXCEPT !.ref = q.id])
Moved(a, q) == Stamped([a EXCEPT !.status = q.status])

ClaimAssignmentWithLease(q, img) ==
    LET a == Get(img, "assignments", q.id)
    IN Transition(q, img, <<>>, a.status = "queued", Reserved(a, q.by, q.claim))

\* Only claim_expires_at moves, and the row's revision stays.
RenewAssignmentClaim(q, img) ==
    LET a == Get(img, "assignments", q.id)
    IN Transition(q, img, <<>>,
                  a.status = "claimed" /\ ClaimAllowsMutation(a, q),
                  a)

RecoverAssignmentClaim(q, img) ==
    LET a == Get(img, "assignments", q.id)
    IN Transition(q, img, <<>>,
                  a.status = "claimed" /\ a.claim # None /\ a.claim = q.claim /\ q.late,
                  Requeued(a))

PrepareAssignmentWithClaim(q, img) ==
    LET a == Get(img, "assignments", q.id)
    IN Transition(q, img, <<>>,
                  a.status = "claimed" /\ ClaimAllowsMutation(a, q),
                  Prepared(a, q))

ReleaseAssignmentWithClaim(q, img) ==
    LET a == Get(img, "assignments", q.id)
    IN Transition(q, img, <<>>,
                  a.status = "claimed" /\ ClaimAllowsMutation(a, q),
                  Requeued(a))

UpdateAssignmentStatusWithClaim(q, img) ==
    LET a == Get(img, "assignments", q.id)
    IN Transition(q, img, <<>>,
                  a.status \notin Terminal \cup {"queued"} /\ ClaimAllowsMutation(a, q),
                  Moved(a, q))

CompleteAssignmentWithClaim(q, img) ==
    LET a == Get(img, "assignments", q.id)
    IN Transition(q, img, <<>>,
                  a.status \notin Terminal \cup {"queued"} /\ ClaimAllowsMutation(a, q),
                  Moved(a, q))

ClaimAssignment(q, img) ==
    LET a == Get(img, "assignments", q.id)
    IN Transition(q, img, <<>>, a.status = "queued", Reserved(a, q.by, None))

PrepareAssignment(q, img) ==
    LET a == Get(img, "assignments", q.id)
    IN Transition(q, img, <<>>,
                  a.status = "claimed" /\ a.by = q.by,
                  Prepared(a, q))

ReleaseAssignment(q, img) ==
    LET a == Get(img, "assignments", q.id)
    IN Transition(q, img, <<>>, a.status = "claimed" /\ a.by = q.by, Requeued(a))

CompleteAssignment(q, img) ==
    LET a == Get(img, "assignments", q.id)
    IN Transition(q, img, <<>>, a.status \notin Terminal, Moved(a, q))

UpdateAssignmentStatus(q, img) ==
    LET a == Get(img, "assignments", q.id)
    IN Transition(q, img, <<>>,
                  a.status \notin Terminal \cup {"queued"},
                  Moved(a, q))

\* Its artifacts and reviews go with it; evidence and handoffs keep naming it.
DeleteAssignment(q, img) ==
    Plan("deferred", <<>>, {},
         <<Delete("artifacts", "link", q.id), Delete("reviews", "link", q.id),
           DeleteOne("assignments", q.id)>>)

-----------------------------------------------------------------------------
(* Artifacts, evidence and reviews: lookups, then an insert.               *)

CreateArtifact(q, img) ==
    Autocommit(Item(q.item) \o Look("assignments", q.link, q.item) \o Role(q.role),
         Insert(Row(q, "artifacts")))
CreateEvidence(q, img) ==
    Autocommit(Item(q.item) \o Look("assignments", q.link, q.item),
         Insert(Row(q, "evidence")))
CreateReview(q, img) ==
    Autocommit(Item(q.item) \o Look("assignments", q.link, q.item) \o Role(q.role),
         Insert(Row(q, "reviews")))

-----------------------------------------------------------------------------
(* Handoffs.                                                               *)

HandoffLooks(h) ==
    Look("assignments", h.src, h.item) \o Role(h.role)
    \o Look("assignments", h.link, h.tgt) \o Item(h.tgt)

\* Every reference is looked up, one statement each, before the insert.
CreateHandoff(q, img) ==
    Autocommit(Item(q.item) \o HandoffLooks(Row(q, "handoffs")), Insert(Row(q, "handoffs")))

\* validateHandoffTransition: the same references, read in the transaction.
ValidHandoff(h, img) ==
    LET looks == HandoffLooks(h) IN \A k \in DOMAIN looks : Found(looks[k], img)

\* beginHandoffTransition: BEGIN IMMEDIATE and read the row; then the refusals
\* and the statements of the handoff that was read.
HandoffTransition(q, img, refused, list) ==
    LET h == [tab |-> "handoffs", id |-> q.id, item |-> q.item]
        no == IF Found(h, img) THEN refused ELSE {"notfound"}
    IN Plan("immediate", <<>>, no, IF no = {} THEN list ELSE <<>>)

RestoreHandoffSnapshot(q, img) ==
    HandoffTransition(q, img,
        IF ValidHandoff(Row(q, "handoffs"), img) THEN {} ELSE {"notfound"},
        <<Put(Row(q, "handoffs"), None, "notfound")>>)

\* The handoff h as the request patches it.
PatchedHandoff(h, q) == [h EXCEPT !.role = q.role, !.link = q.link, !.tgt = q.tgt,
                           !.ref = q.ref, !.status = q.status]
PutPatched(h, q) == IF PatchedHandoff(h, q) = h THEN <<>>
                    ELSE <<Put(Stamped(PatchedHandoff(h, q)), h.ver, "conflict")>>

\* Mutant: the references are looked up before the transaction, as a creation
\* looks them up.
UpdateHandoff_LooksBefore(q, img) ==
    LET h == Get(img, "handoffs", q.id)
    IN [HandoffTransition(q, img, IF h.ver # q.ver THEN {"conflict"} ELSE {},
                          PutPatched(h, q))
        EXCEPT !.looks = HandoffLooks(PatchedHandoff(Blank, q))]

\* An update that changes nothing answers the handoff and writes nothing.
UpdateHandoff(q, img) ==
    LET h == Get(img, "handoffs", q.id)
    IN HandoffTransition(q, img,
           IF h.ver # q.ver THEN {"conflict"}
           ELSE IF PatchedHandoff(h, q) # h /\ ~ValidHandoff(PatchedHandoff(h, q), img)
                THEN {"notfound"} ELSE {},
           PutPatched(h, q))

DeleteHandoff(q, img) ==
    HandoffTransition(q, img,
        IF Get(img, "handoffs", q.id).ver # q.ver THEN {"conflict"} ELSE {},
        <<DeleteOne("handoffs", q.id)>>)

\* The receipt of an earlier acceptance under the same key answers again,
\* from the rows as they are now, if they still agree.
Replay(q, img) ==
    LET receipt == Get(img, "command_receipts", q.claim)
        agrees == /\ receipt.ver = q.ver
                  /\ Has(img, "handoffs", q.id)
                  /\ Has(img, "assignments", receipt.link)
                  /\ LET h == Get(img, "handoffs", q.id)
                         a == Get(img, "assignments", receipt.link)
                     IN /\ h.status = "accepted" /\ h.link = a.id /\ h.tgt = a.item
                        /\ h.role # None /\ h.role = a.role
    IN Plan("immediate", <<>>, IF agrees THEN {} ELSE {"conflict"}, <<>>)

\* The follow-up of handoff h: the linked assignment, or a new one.
FollowUp(q, img, h) ==
    LET linked == h.link # None
        item == IF linked THEN Get(img, "assignments", h.link).item
                ELSE IF h.tgt # None THEN h.tgt ELSE h.item
        a == IF linked THEN Get(img, "assignments", h.link)
             ELSE [Blank EXCEPT !.tab = "assignments", !.id = q.link, !.item = item,
                                !.role = h.role, !.status = "queued", !.ver = 1]
        satisfied == linked /\ h.status = "accepted" /\ h.tgt = item
        new == Stamped([h EXCEPT !.status = "accepted", !.link = a.id, !.tgt = item])
    IN (IF linked THEN <<>> ELSE <<Insert(a)>>)
       \o (IF satisfied THEN <<>> ELSE <<Put(new, h.ver, "conflict")>>)
       \o <<Insert([Blank EXCEPT !.tab = "command_receipts", !.id = q.claim, !.link = a.id,
                                 !.ver = q.ver])>>

AcceptHandoffWithFollowUp(q, img) ==
    LET h == Get(img, "handoffs", q.id)
        AgreesWith(a) == /\ a.role = h.role /\ (h.tgt # None => a.item = h.tgt)
                         /\ Has(img, "work_items", a.item)
        refused ==
            IF h.ver # q.ver \/ h.status \in {"dismissed", "superseded"} THEN {"conflict"}
            ELSE IF h.role = None THEN {"invalid"}
            ELSE IF ~Has(img, "roles", h.role) THEN {"notfound"}
            ELSE IF h.link # None
            THEN IF /\ Has(img, "assignments", h.link)
                    /\ AgreesWith(Get(img, "assignments", h.link))
                 THEN {} ELSE {"conflict"}
            ELSE IF Has(img, "work_items", IF h.tgt # None THEN h.tgt ELSE h.item)
                 THEN {} ELSE {"notfound"}
    IN IF Has(img, "command_receipts", q.claim) THEN Replay(q, img)
       ELSE HandoffTransition(q, img, refused, FollowUp(q, img, h))

-----------------------------------------------------------------------------
(* Memory and proposals.                                                   *)

CreateMemoryEntry(q, img) == Autocommit(<<>>, Insert(Row(q, "memory_entries")))
UpdateMemoryEntry(q, img) == Autocommit(<<>>, Put(Row(q, "memory_entries"), None, "notfound"))
DeleteMemoryEntry(q, img) == Autocommit(<<>>, DeleteOne("memory_entries", q.id))
CreateMemoryCandidate(q, img) == Autocommit(<<>>, Insert(Row(q, "memory_candidates")))
UpdateMemoryCandidate(q, img) == Autocommit(<<>>, Put(Row(q, "memory_candidates"), None, "notfound"))
DeleteMemoryCandidate(q, img) == Autocommit(<<>>, DeleteOne("memory_candidates", q.id))

\* Read in a deferred transaction, then the entry and the candidate; a
\* candidate promoted before answers its entry.
PromoteMemoryCandidate(q, img) ==
    LET c == Get(img, "memory_candidates", q.id)
        entry == [Blank EXCEPT !.tab = "memory_entries", !.id = q.link]
        Answer(no, list) == Plan("deferred", <<>>, no, list)
    IN IF ~Has(img, "memory_candidates", q.id) THEN Answer({"notfound"}, <<>>)
       ELSE IF c.status = "promoted" /\ c.link # None
       THEN Answer(IF Has(img, "memory_entries", c.link) THEN {} ELSE {"notfound"}, <<>>)
       ELSE IF c.status # "pending" THEN Answer({"conflict"}, <<>>)
       ELSE Answer({}, <<Insert(entry),
                         Put([c EXCEPT !.status = "promoted", !.link = q.link], None,
                             "notfound")>>)

CreateAssistantProposal(q, img) == Autocommit(<<>>, Insert(Row(q, "assistant_proposals")))
UpdateAssistantProposal(q, img) ==
    Autocommit(<<>>, Put(Row(q, "assistant_proposals"), None, "notfound"))

-----------------------------------------------------------------------------
\* The operations of core.Store that write.
Ops ==
    {"CreateProject", "UpdateProject", "DeleteProject", "CreateProjectSkill",
     "UpdateProjectSkill", "CreateWorkItem", "UpdateWorkItem", "DeleteWorkItem",
     "CreateRole", "UpdateRole", "DeleteRole", "CreateAssignment",
     "RestoreAssignmentSnapshot", "UpdateQueuedAssignment", "ClaimAssignmentWithLease",
     "RenewAssignmentClaim", "RecoverAssignmentClaim", "PrepareAssignmentWithClaim",
     "ReleaseAssignmentWithClaim", "UpdateAssignmentStatusWithClaim",
     "CompleteAssignmentWithClaim", "ClaimAssignment", "PrepareAssignment",
     "ReleaseAssignment", "CompleteAssignment", "UpdateAssignmentStatus",
     "DeleteAssignment", "CreateArtifact", "CreateEvidence", "CreateReview",
     "CreateHandoff", "RestoreHandoffSnapshot", "UpdateHandoff", "DeleteHandoff",
     "AcceptHandoffWithFollowUp", "CreateMemoryEntry", "UpdateMemoryEntry",
     "DeleteMemoryEntry", "CreateMemoryCandidate", "UpdateMemoryCandidate",
     "DeleteMemoryCandidate", "PromoteMemoryCandidate", "CreateAssistantProposal",
     "UpdateAssistantProposal"}

Operation(q, img) ==
    CASE q.op = "CreateProject"                   -> CreateProject(q, img)
      [] q.op = "UpdateProject"                   -> UpdateProject(q, img)
      [] q.op = "DeleteProject"                   -> DeleteProject(q, img)
      [] q.op = "CreateProjectSkill"              -> CreateProjectSkill(q, img)
      [] q.op = "UpdateProjectSkill"              -> UpdateProjectSkill(q, img)
      [] q.op = "CreateWorkItem"                  -> CreateWorkItem(q, img)
      [] q.op = "UpdateWorkItem"                  -> UpdateWorkItem(q, img)
      [] q.op = "DeleteWorkItem"                  -> DeleteWorkItem(q, img)
      [] q.op = "CreateRole"                      -> CreateRole(q, img)
      [] q.op = "UpdateRole"                      -> UpdateRole(q, img)
      [] q.op = "DeleteRole"                      -> DeleteRole(q, img)
      [] q.op = "CreateAssignment"                -> CreateAssignment(q, img)
      [] q.op = "RestoreAssignmentSnapshot"       -> RestoreAssignmentSnapshot(q, img)
      [] q.op = "UpdateQueuedAssignment"          -> UpdateQueuedAssignment(q, img)
      [] q.op = "ClaimAssignmentWithLease"        -> ClaimAssignmentWithLease(q, img)
      [] q.op = "RenewAssignmentClaim"            -> RenewAssignmentClaim(q, img)
      [] q.op = "RecoverAssignmentClaim"          -> RecoverAssignmentClaim(q, img)
      [] q.op = "PrepareAssignmentWithClaim"      -> PrepareAssignmentWithClaim(q, img)
      [] q.op = "ReleaseAssignmentWithClaim"      -> ReleaseAssignmentWithClaim(q, img)
      [] q.op = "UpdateAssignmentStatusWithClaim" -> UpdateAssignmentStatusWithClaim(q, img)
      [] q.op = "CompleteAssignmentWithClaim"     -> CompleteAssignmentWithClaim(q, img)
      [] q.op = "ClaimAssignment"                 -> ClaimAssignment(q, img)
      [] q.op = "PrepareAssignment"               -> PrepareAssignment(q, img)
      [] q.op = "ReleaseAssignment"               -> ReleaseAssignment(q, img)
      [] q.op = "CompleteAssignment"              -> CompleteAssignment(q, img)
      [] q.op = "UpdateAssignmentStatus"          -> UpdateAssignmentStatus(q, img)
      [] q.op = "DeleteAssignment"                -> DeleteAssignment(q, img)
      [] q.op = "CreateArtifact"                  -> CreateArtifact(q, img)
      [] q.op = "CreateEvidence"                  -> CreateEvidence(q, img)
      [] q.op = "CreateReview"                    -> CreateReview(q, img)
      [] q.op = "CreateHandoff"                   -> CreateHandoff(q, img)
      [] q.op = "RestoreHandoffSnapshot"          -> RestoreHandoffSnapshot(q, img)
      [] q.op = "UpdateHandoff"                   -> UpdateHandoff(q, img)
      [] q.op = "DeleteHandoff"                   -> DeleteHandoff(q, img)
      [] q.op = "AcceptHandoffWithFollowUp"       -> AcceptHandoffWithFollowUp(q, img)
      [] q.op = "CreateMemoryEntry"               -> CreateMemoryEntry(q, img)
      [] q.op = "UpdateMemoryEntry"               -> UpdateMemoryEntry(q, img)
      [] q.op = "DeleteMemoryEntry"               -> DeleteMemoryEntry(q, img)
      [] q.op = "CreateMemoryCandidate"           -> CreateMemoryCandidate(q, img)
      [] q.op = "UpdateMemoryCandidate"           -> UpdateMemoryCandidate(q, img)
      [] q.op = "DeleteMemoryCandidate"           -> DeleteMemoryCandidate(q, img)
      [] q.op = "PromoteMemoryCandidate"          -> PromoteMemoryCandidate(q, img)
      [] q.op = "CreateAssistantProposal"         -> CreateAssistantProposal(q, img)
      [] q.op = "UpdateAssistantProposal"         -> UpdateAssistantProposal(q, img)

\* Every typed error that is true of the operation on these rows.
Refusals(q, img) ==
    LET o == Operation(q, img)
    IN o.no \cup ListMisses(o.do, img)
       \cup (IF \E k \in DOMAIN o.looks : ~Found(o.looks[k], img) THEN {"notfound"} ELSE {})
=============================================================================
