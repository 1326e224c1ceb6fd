------------------------- MODULE OperationsViewProofs -------------------------
(***************************************************************************)
(* Proofs for OperationsView: what a read that others overtake may still   *)
(* say, and what a patch leaves alone.                                     *)
(***************************************************************************)
EXTENDS OperationsView, StoreStatementsProofs

-----------------------------------------------------------------------------
(* What a change makes of the rows.                                        *)

Insertions == {"CreateProject", "CreateProjectSkill", "CreateWorkItem", "CreateRole",
               "CreateAssignment", "CreateArtifact", "CreateEvidence", "CreateReview",
               "CreateHandoff", "CreateMemoryEntry", "CreateMemoryCandidate",
               "CreateAssistantProposal"}
Updates == {"UpdateProject", "UpdateProjectSkill", "UpdateWorkItem", "UpdateRole",
            "UpdateMemoryEntry", "UpdateMemoryCandidate", "UpdateAssistantProposal"}
Removals == {"DeleteRole", "DeleteMemoryEntry", "DeleteMemoryCandidate"}

\* An operation of one statement: the row it inserts, puts or deletes.
LEMMA InsertionIs ==
    ASSUME NEW q, q.op \in Insertions, NEW img
    PROVE  \E t \in Tables : \E looks :
              /\ t = "work_items" => q.op = "CreateWorkItem"
              /\ t = "assignments" => q.op = "CreateAssignment"
              /\ Operation(q, img) = Autocommit(looks, Insert(Row(q, t)))
  <1> DEFINE Does(t) == \E looks : Operation(q, img) = Autocommit(looks, Insert(Row(q, t)))
  <1>1. CASE q.op = "CreateProject"
    <2>1. Does("projects")
      BY <1>1 DEF Operation, CreateProject
    <2> HIDE DEF Does
    <2>2. \E t \in Tables : (t = "work_items" => q.op = "CreateWorkItem") /\ (t = "assignments" => q.op = "CreateAssignment") /\ Does(t)
      BY <1>1, <2>1 DEF Tables, Owned
    <2> QED
      BY <2>2 DEF Does
  <1>2. CASE q.op = "CreateProjectSkill"
    <2>1. Does("project_skills")
      BY <1>2 DEF Operation, CreateProjectSkill
    <2> HIDE DEF Does
    <2>2. \E t \in Tables : (t = "work_items" => q.op = "CreateWorkItem") /\ (t = "assignments" => q.op = "CreateAssignment") /\ Does(t)
      BY <1>2, <2>1 DEF Tables, Owned
    <2> QED
      BY <2>2 DEF Does
  <1>3. CASE q.op = "CreateWorkItem"
    <2>1. Does("work_items")
      BY <1>3 DEF Operation, CreateWorkItem
    <2> HIDE DEF Does
    <2>2. \E t \in Tables : (t = "work_items" => q.op = "CreateWorkItem") /\ (t = "assignments" => q.op = "CreateAssignment") /\ Does(t)
      BY <1>3, <2>1 DEF Tables, Owned
    <2> QED
      BY <2>2 DEF Does
  <1>4. CASE q.op = "CreateRole"
    <2>1. Does("roles")
      BY <1>4 DEF Operation, CreateRole
    <2> HIDE DEF Does
    <2>2. \E t \in Tables : (t = "work_items" => q.op = "CreateWorkItem") /\ (t = "assignments" => q.op = "CreateAssignment") /\ Does(t)
      BY <1>4, <2>1 DEF Tables, Owned
    <2> QED
      BY <2>2 DEF Does
  <1>5. CASE q.op = "CreateAssignment"
    <2>1. Does("assignments")
      BY <1>5 DEF Operation, CreateAssignment
    <2> HIDE DEF Does
    <2>2. \E t \in Tables : (t = "work_items" => q.op = "CreateWorkItem") /\ (t = "assignments" => q.op = "CreateAssignment") /\ Does(t)
      BY <1>5, <2>1 DEF Tables, Owned
    <2> QED
      BY <2>2 DEF Does
  <1>6. CASE q.op = "CreateArtifact"
    <2>1. Does("artifacts")
      BY <1>6 DEF Operation, CreateArtifact
    <2> HIDE DEF Does
    <2>2. \E t \in Tables : (t = "work_items" => q.op = "CreateWorkItem") /\ (t = "assignments" => q.op = "CreateAssignment") /\ Does(t)
      BY <1>6, <2>1 DEF Tables, Owned
    <2> QED
      BY <2>2 DEF Does
  <1>7. CASE q.op = "CreateEvidence"
    <2>1. Does("evidence")
      BY <1>7 DEF Operation, CreateEvidence
    <2> HIDE DEF Does
    <2>2. \E t \in Tables : (t = "work_items" => q.op = "CreateWorkItem") /\ (t = "assignments" => q.op = "CreateAssignment") /\ Does(t)
      BY <1>7, <2>1 DEF Tables, Owned
    <2> QED
      BY <2>2 DEF Does
  <1>8. CASE q.op = "CreateReview"
    <2>1. Does("reviews")
      BY <1>8 DEF Operation, CreateReview
    <2> HIDE DEF Does
    <2>2. \E t \in Tables : (t = "work_items" => q.op = "CreateWorkItem") /\ (t = "assignments" => q.op = "CreateAssignment") /\ Does(t)
      BY <1>8, <2>1 DEF Tables, Owned
    <2> QED
      BY <2>2 DEF Does
  <1>9. CASE q.op = "CreateHandoff"
    <2>1. Does("handoffs")
      BY <1>9 DEF Operation, CreateHandoff
    <2> HIDE DEF Does
    <2>2. \E t \in Tables : (t = "work_items" => q.op = "CreateWorkItem") /\ (t = "assignments" => q.op = "CreateAssignment") /\ Does(t)
      BY <1>9, <2>1 DEF Tables, Owned
    <2> QED
      BY <2>2 DEF Does
  <1>10. CASE q.op = "CreateMemoryEntry"
    <2>1. Does("memory_entries")
      BY <1>10 DEF Operation, CreateMemoryEntry
    <2> HIDE DEF Does
    <2>2. \E t \in Tables : (t = "work_items" => q.op = "CreateWorkItem") /\ (t = "assignments" => q.op = "CreateAssignment") /\ Does(t)
      BY <1>10, <2>1 DEF Tables, Owned
    <2> QED
      BY <2>2 DEF Does
  <1>11. CASE q.op = "CreateMemoryCandidate"
    <2>1. Does("memory_candidates")
      BY <1>11 DEF Operation, CreateMemoryCandidate
    <2> HIDE DEF Does
    <2>2. \E t \in Tables : (t = "work_items" => q.op = "CreateWorkItem") /\ (t = "assignments" => q.op = "CreateAssignment") /\ Does(t)
      BY <1>11, <2>1 DEF Tables, Owned
    <2> QED
      BY <2>2 DEF Does
  <1>12. CASE q.op = "CreateAssistantProposal"
    <2>1. Does("assistant_proposals")
      BY <1>12 DEF Operation, CreateAssistantProposal
    <2> HIDE DEF Does
    <2>2. \E t \in Tables : (t = "work_items" => q.op = "CreateWorkItem") /\ (t = "assignments" => q.op = "CreateAssignment") /\ Does(t)
      BY <1>12, <2>1 DEF Tables, Owned
    <2> QED
      BY <2>2 DEF Does
  <1> QED
    BY <1>1, <1>2, <1>3, <1>4, <1>5, <1>6, <1>7, <1>8, <1>9, <1>10, <1>11, <1>12 DEF Insertions

LEMMA UpdateIs ==
    ASSUME NEW q, q.op \in Updates, NEW img
    PROVE  \E t \in Tables : \E looks :
              /\ t = "work_items" => q.op = "UpdateWorkItem"
              /\ t \notin {"assignments", "evidence", "reviews"}
              /\ Operation(q, img) = Autocommit(looks, Put(Row(q, t), None, "notfound"))
  <1> DEFINE Does(t) == \E looks : Operation(q, img) = Autocommit(looks, Put(Row(q, t), None, "notfound"))
  <1>1. CASE q.op = "UpdateProject"
    <2>1. Does("projects")
      BY <1>1 DEF Operation, UpdateProject
    <2> HIDE DEF Does
    <2>2. \E t \in Tables : (t = "work_items" => q.op = "UpdateWorkItem") /\ t \notin {"assignments", "evidence", "reviews"} /\ Does(t)
      BY <1>1, <2>1 DEF Tables, Owned
    <2> QED
      BY <2>2 DEF Does
  <1>2. CASE q.op = "UpdateProjectSkill"
    <2>1. Does("project_skills")
      BY <1>2 DEF Operation, UpdateProjectSkill
    <2> HIDE DEF Does
    <2>2. \E t \in Tables : (t = "work_items" => q.op = "UpdateWorkItem") /\ t \notin {"assignments", "evidence", "reviews"} /\ Does(t)
      BY <1>2, <2>1 DEF Tables, Owned
    <2> QED
      BY <2>2 DEF Does
  <1>3. CASE q.op = "UpdateWorkItem"
    <2>1. Does("work_items")
      BY <1>3 DEF Operation, UpdateWorkItem
    <2> HIDE DEF Does
    <2>2. \E t \in Tables : (t = "work_items" => q.op = "UpdateWorkItem") /\ t \notin {"assignments", "evidence", "reviews"} /\ Does(t)
      BY <1>3, <2>1 DEF Tables, Owned
    <2> QED
      BY <2>2 DEF Does
  <1>4. CASE q.op = "UpdateRole"
    <2>1. Does("roles")
      BY <1>4 DEF Operation, UpdateRole
    <2> HIDE DEF Does
    <2>2. \E t \in Tables : (t = "work_items" => q.op = "UpdateWorkItem") /\ t \notin {"assignments", "evidence", "reviews"} /\ Does(t)
      BY <1>4, <2>1 DEF Tables, Owned
    <2> QED
      BY <2>2 DEF Does
  <1>5. CASE q.op = "UpdateMemoryEntry"
    <2>1. Does("memory_entries")
      BY <1>5 DEF Operation, UpdateMemoryEntry
    <2> HIDE DEF Does
    <2>2. \E t \in Tables : (t = "work_items" => q.op = "UpdateWorkItem") /\ t \notin {"assignments", "evidence", "reviews"} /\ Does(t)
      BY <1>5, <2>1 DEF Tables, Owned
    <2> QED
      BY <2>2 DEF Does
  <1>6. CASE q.op = "UpdateMemoryCandidate"
    <2>1. Does("memory_candidates")
      BY <1>6 DEF Operation, UpdateMemoryCandidate
    <2> HIDE DEF Does
    <2>2. \E t \in Tables : (t = "work_items" => q.op = "UpdateWorkItem") /\ t \notin {"assignments", "evidence", "reviews"} /\ Does(t)
      BY <1>6, <2>1 DEF Tables, Owned
    <2> QED
      BY <2>2 DEF Does
  <1>7. CASE q.op = "UpdateAssistantProposal"
    <2>1. Does("assistant_proposals")
      BY <1>7 DEF Operation, UpdateAssistantProposal
    <2> HIDE DEF Does
    <2>2. \E t \in Tables : (t = "work_items" => q.op = "UpdateWorkItem") /\ t \notin {"assignments", "evidence", "reviews"} /\ Does(t)
      BY <1>7, <2>1 DEF Tables, Owned
    <2> QED
      BY <2>2 DEF Does
  <1> QED
    BY <1>1, <1>2, <1>3, <1>4, <1>5, <1>6, <1>7 DEF Updates

LEMMA RemovalIs ==
    ASSUME NEW q, q.op \in Removals, NEW img
    PROVE  \E t \in Tables : \E looks :
              /\ t \notin {"assignments", "evidence", "reviews"}
              /\ Operation(q, img) = Autocommit(looks, DeleteOne(t, q.id))
  <1> DEFINE Does(t) == \E looks : Operation(q, img) = Autocommit(looks, DeleteOne(t, q.id))
  <1>1. CASE q.op = "DeleteRole"
    <2>1. Does("roles")
      BY <1>1 DEF Operation, DeleteRole
    <2> HIDE DEF Does
    <2>2. \E t \in Tables : t \notin {"assignments", "evidence", "reviews"} /\ Does(t)
      BY <1>1, <2>1 DEF Tables, Owned
    <2> QED
      BY <2>2 DEF Does
  <1>2. CASE q.op = "DeleteMemoryEntry"
    <2>1. Does("memory_entries")
      BY <1>2 DEF Operation, DeleteMemoryEntry
    <2> HIDE DEF Does
    <2>2. \E t \in Tables : t \notin {"assignments", "evidence", "reviews"} /\ Does(t)
      BY <1>2, <2>1 DEF Tables, Owned
    <2> QED
      BY <2>2 DEF Does
  <1>3. CASE q.op = "DeleteMemoryCandidate"
    <2>1. Does("memory_candidates")
      BY <1>3 DEF Operation, DeleteMemoryCandidate
    <2> HIDE DEF Does
    <2>2. \E t \in Tables : t \notin {"assignments", "evidence", "reviews"} /\ Does(t)
      BY <1>3, <2>1 DEF Tables, Owned
    <2> QED
      BY <2>2 DEF Does
  <1> QED
    BY <1>1, <1>2, <1>3 DEF Removals

Sound(img) == AreRows(img) /\ Keyed(img) /\ \A r \in img : ValidRow(r)

\* A completed assignment or a review that changed at all is gone, and evidence
\* goes with the assignments of its work item.
Lost(old, new) ==
    /\ \A r \in old \ new :
          r.tab = "reviews" \/ (r.tab = "assignments" /\ r.status = "completed")
          => ~Has(new, r.tab, r.id)
    /\ \A r \in old \ new : r.tab = "evidence" => Of(new, "assignments", r.item) = {}

LEMMA ResultIsKeyed ==
    ASSUME NEW q, q.op \in Ops, NEW img, Sound(img), Refusals(q, img) = {}
    PROVE  Keyed(Result(q, img)) /\ AreRows(Result(q, img))
  <1>1. /\ AreStatements(Operation(q, img).do) /\ AreRows(Result(q, img))
    BY EffectWrites DEF Sound, Result
  <1>2. ListMisses(Operation(q, img).do, img) = {}
    BY DEF Refusals
  <1> QED
    BY <1>1, <1>2, ListKeepsKeys DEF Sound, Result

\* What has to be seen of each operation.
Makes(q, img) == (\A r \in Result(q, img) : ValidRow(r)) /\ Lost(img, Result(q, img))

\* Nothing is lost when rows only go, if evidence stays.
LEMMA FewerMake ==
    ASSUME NEW q, NEW img, Sound(img), Result(q, img) \subseteq img,
           \A r \in img \ Result(q, img) :
               r.tab = "evidence" => Of(Result(q, img), "assignments", r.item) = {}
    PROVE  Makes(q, img)
  <1> DEFINE new == Result(q, img)
  <1>1. ASSUME NEW r \in img \ new, Has(new, r.tab, r.id) PROVE FALSE
    <2>1. PICK s \in new : s.tab = r.tab /\ s.id = r.id
      BY <1>1 DEF Has
    <2>2. s \in img
      BY <2>1
    <2> HIDE DEF new
    <2> QED
      BY <1>1, <2>1, <2>2 DEF Sound, Keyed
  <1> HIDE DEF new
  <1>2. \A r \in new : ValidRow(r)
    BY DEF Sound, new
  <1> QED
    BY <1>1, <1>2 DEF Makes, Lost, new

\* A row that is put in its table is valid if the request is.
LEMMA RequestedRowIsValid ==
    ASSUME NEW q, ValidRequest(q), NEW t \in Tables,
           t = "work_items" => q.op \in {"CreateWorkItem", "UpdateWorkItem"},
           t = "assignments" => q.op = "CreateAssignment"
    PROVE  Row(q, t).tab = t /\ Row(q, t).id = q.id /\ ValidRow(Row(q, t))
  <1>1. Row(q, t).tab = t /\ Row(q, t).id = q.id /\ Row(q, t).status = q.status
    BY RowIsRow DEF Columns
  <1> QED
    BY <1>1 DEF ValidRow, ValidRequest

LEMMA InsertionsMake ==
    ASSUME NEW q, ValidRequest(q), NEW img, Sound(img), q.op \in Insertions
    PROVE  Makes(q, img)
  <1>1. PICK t \in Tables : \E looks :
            /\ t = "work_items" => q.op = "CreateWorkItem"
            /\ t = "assignments" => q.op = "CreateAssignment"
            /\ Operation(q, img) = Autocommit(looks, Insert(Row(q, t)))
    BY InsertionIs
  <1>2. Result(q, img) = img \cup {Row(q, t)}
    <2> DEFINE row == Row(q, t)
    <2>1. PICK looks : Operation(q, img) = Autocommit(looks, Insert(row))
      BY <1>1
    <2> HIDE DEF row
    <2>2. /\ Result(q, img) = img \cup {row}
          /\ Refusals(q, img) \subseteq {"duplicate", "notfound"}
          /\ "duplicate" \in Refusals(q, img) <=> Has(img, row.tab, row.id)
          /\ "notfound" \notin Refusals(q, img) <=>
                /\ AllFound(looks, img)
                /\ row.item # None => Has(img, "work_items", row.item)
                /\ row.tab \in Owned => OfTable(img, "projects") # {}
      BY <2>1, InsertMakes
    <2> QED
      BY <2>2 DEF row
  <1>3. ValidRow(Row(q, t))
    BY <1>1, RequestedRowIsValid
  <1> QED
    BY <1>2, <1>3 DEF Makes, Lost, Sound

LEMMA UpdatesMake ==
    ASSUME NEW q, ValidRequest(q), NEW img, Sound(img), q.op \in Updates
    PROVE  Makes(q, img)
  <1>1. PICK t \in Tables : \E looks :
            /\ t = "work_items" => q.op = "UpdateWorkItem"
            /\ t \notin {"assignments", "evidence", "reviews"}
            /\ Operation(q, img) = Autocommit(looks, Put(Row(q, t), None, "notfound"))
    BY UpdateIs
  <1> DEFINE row == Row(q, t)
  <1>2. Result(q, img) = {r \in img : ~(r.tab = row.tab /\ r.id = row.id)} \cup {row}
    <2>1. PICK looks : Operation(q, img) = Autocommit(looks, Put(row, None, "notfound"))
      BY <1>1
    <2> HIDE DEF row
    <2>2. /\ Result(q, img) = {r \in img : ~(r.tab = row.tab /\ r.id = row.id)} \cup {row}
          /\ Refusals(q, img) = {} <=> AllFound(looks, img) /\ Has(img, row.tab, row.id)
      BY <2>1, PutMakes
    <2> QED
      BY <2>2
  <1>3. row.tab = t /\ ValidRow(row)
    BY <1>1, RequestedRowIsValid
  <1> HIDE DEF row
  <1> QED
    BY <1>1, <1>2, <1>3 DEF Makes, Lost, Sound

LEMMA RemovalsMake ==
    ASSUME NEW q, NEW img, Sound(img), q.op \in Removals
    PROVE  Makes(q, img)
  <1>1. PICK t \in Tables : \E looks :
            /\ t \notin {"assignments", "evidence", "reviews"}
            /\ Operation(q, img) = Autocommit(looks, DeleteOne(t, q.id))
    BY RemovalIs
  <1>2. Operation(q, img).do = <<DeleteOne(t, q.id)>>
    BY <1>1 DEF Autocommit, Plan
  <1>3. \A r : r \in Result(q, img) <=> r \in img /\ ~(r.tab = t /\ r.id = q.id)
    BY <1>2, DeletionOne DEF Result
  <1> QED
    BY <1>1, <1>3, FewerMake

LEMMA TransitionsMake ==
    ASSUME NEW q, ValidRequest(q), NEW img, Sound(img), Refusals(q, img) = {},
           q.op \in TransitionOps
    PROVE  Makes(q, img)
  <1> DEFINE a == Get(img, "assignments", q.id)
             new == Result(q, img)
  <1>1. /\ AreRows(img) /\ Keyed(img)
    BY DEF Sound
  <1>2. Has(img, "assignments", q.id) /\ a.status \notin Terminal
    BY <1>1, TransitionMakes
  <1>3. PICK next : AssignmentAfter(q, img, next) /\ new = (img \ {a}) \cup {next}
    BY <1>1, TransitionMakes
  <1>4. a \in img /\ a.tab = "assignments" /\ a.id = q.id
    BY <1>1, <1>2, Gets
  <1>5. /\ next.tab = "assignments" /\ next.id = q.id
        /\ \/ next.status \in {a.status, "queued", "claimed"}
           \/ q.op \in Movers /\ next.status = q.status
    BY <1>1, <1>2, <1>3 DEF AssignmentAfter
  <1> HIDE DEF a, new
  <1>6. a.status \in Active \cup Terminal
    BY <1>4 DEF Sound, ValidRow
  <1>7. next.status \in Active \cup Terminal
    BY <1>5, <1>6 DEF ValidRequest, Movers, Active
  <1>8. ValidRow(next)
    BY <1>5, <1>7 DEF ValidRow, ValidRequest, Tables, Owned
  <1>9. \A r \in new : ValidRow(r)
    BY <1>3, <1>8 DEF Sound
  <1>10. a.status # "completed"
    BY <1>2 DEF Terminal, a
  <1>11. Lost(img, new)
    BY <1>3, <1>4, <1>10 DEF Lost
  <1> QED
    BY <1>9, <1>11 DEF Makes, new

LEMMA HandoffsMake ==
    ASSUME NEW q, ValidRequest(q), NEW img, Sound(img), Refusals(q, img) = {},
           q.op \in {"UpdateHandoff", "AcceptHandoffWithFollowUp"}
    PROVE  Makes(q, img)
  <1> DEFINE new == Result(q, img)
  <1>1. AreRows(img) /\ Operation(q, img).no = {}
    BY DEF Sound, Refusals
  <1>2. /\ \A r \in img : r.tab # "handoffs" => r \in new
        /\ \A g \in new : g.tab = "handoffs" => \E h \in img : h.tab = "handoffs" /\ h.id = g.id
        /\ \A g \in new : g.tab # "handoffs" =>
              \/ g \in img
              \/ g.tab = "command_receipts"
              \/ /\ g.tab = "assignments" /\ g.id = q.link /\ g.status = "queued"
                 /\ q.op = "AcceptHandoffWithFollowUp"
    BY <1>1, HandoffsMove
  <1> HIDE DEF new
  <1>3. ASSUME NEW g \in new PROVE ValidRow(g)
    <2>1. CASE g.tab = "handoffs"
      BY <1>2, <2>1 DEF Sound, ValidRow, Tables, Owned
    <2>2. CASE g.tab # "handoffs"
      BY <1>2, <2>2 DEF Sound, ValidRow, ValidRequest, Tables, Owned, Active
    <2> QED
      BY <2>1, <2>2
  <1>4. Lost(img, new)
    BY <1>2 DEF Lost
  <1> QED
    BY <1>3, <1>4 DEF Makes, new

LEMMA PromotionsMake ==
    ASSUME NEW q, NEW img, Sound(img), q.op = "PromoteMemoryCandidate"
    PROVE  Makes(q, img)
  <1> DEFINE new == Result(q, img)
  <1>1. /\ \A r \in img : r.tab # "memory_candidates" => r \in new
        /\ \A g \in new : \/ g \in img
                          \/ g.tab = "memory_entries"
                          \/ /\ g.tab = "memory_candidates"
                             /\ \E c \in img : c.tab = g.tab /\ c.id = g.id
    BY PromotionMakes DEF Sound
  <1> HIDE DEF new
  <1>2. \A g \in new : ValidRow(g)
    BY <1>1 DEF Sound, ValidRow, Tables, Owned
  <1>3. Lost(img, new)
    BY <1>1 DEF Lost
  <1> QED
    BY <1>2, <1>3 DEF Makes, new

LEMMA HandoffDeletionMakes ==
    ASSUME NEW q, NEW img, Sound(img), q.op = "DeleteHandoff"
    PROVE  Makes(q, img)
  <1> DEFINE s == DeleteOne("handoffs", q.id)
  <1>1. s.do = "delete" /\ s.row.tab = "handoffs"
    BY DEF DeleteOne, Delete, Blank
  <1>2. Operation(q, img).do \in {<<>>, <<s>>}
    BY DEF Operation, DeleteHandoff, HandoffTransition, Plan
  <1> HIDE DEF s
  <1>3. Result(q, img) \in {img, Run(s, img)}
    BY <1>2, NothingToRun, OneToRun DEF Result
  <1>4. /\ Run(s, img) \subseteq img
        /\ \A r \in img : r.tab # "handoffs" => r \in Run(s, img)
    BY <1>1 DEF Run, Matches
  <1> QED
    BY <1>3, <1>4, FewerMake

LEMMA AssignmentDeletionMakes ==
    ASSUME NEW q, NEW img, Sound(img), q.op = "DeleteAssignment"
    PROVE  Makes(q, img)
  <1> DEFINE list == <<Delete("artifacts", "link", q.id), Delete("reviews", "link", q.id),
                       DeleteOne("assignments", q.id)>>
  <1>1. Operation(q, img).do = list
    BY DEF Operation, DeleteAssignment, Plan
  <1>2. AreStatements(list)
    BY Deletions DEF AreStatements, IsList, Elements
  <1>3. \A s \in Elements(list) : s.do = "delete" /\ s.row.tab # "evidence"
    <2>1. Elements(list) = {Delete("artifacts", "link", q.id), Delete("reviews", "link", q.id),
                            DeleteOne("assignments", q.id)}
      BY DEF Elements
    <2>2. \A t \in {"artifacts", "reviews"} : Delete(t, "link", q.id).do = "delete"
                                             /\ Delete(t, "link", q.id).row.tab = t
      BY DEF Delete, Blank
    <2>3. /\ DeleteOne("assignments", q.id).do = "delete"
          /\ DeleteOne("assignments", q.id).row.tab = "assignments"
      BY DEF DeleteOne, Delete, Blank
    <2> HIDE DEF list
    <2> QED
      BY <2>1, <2>2, <2>3
  <1> HIDE DEF list
  <1>4. Result(q, img) = {r \in img : ~Deleted(list, r)}
    BY <1>1, <1>2, <1>3, DeletionsMake DEF Result
  <1>5. \A r : Deleted(list, r) => r.tab # "evidence"
    BY <1>3 DEF Deleted
  <1>6. \A r \in img \ Result(q, img) : r.tab # "evidence"
    BY <1>4, <1>5
  <1>7. Result(q, img) \subseteq img
    BY <1>4
  <1> QED
    BY <1>6, <1>7, FewerMake

LEMMA WorkItemDeletionLoses ==
    ASSUME NEW q, NEW img, Sound(img), q.op = "DeleteWorkItem"
    PROVE  Makes(q, img)
  <1>1. Result(q, img) = {r \in img : /\ ~(r.tab \in RecordTables /\ r.item = q.id)
                                      /\ ~(r.tab = "handoffs" /\ r.tgt = q.id)
                                      /\ ~(r.tab = "work_items" /\ r.id = q.id)}
    BY WorkItemDeletionMakes
  <1>2. ASSUME NEW r \in img \ Result(q, img), r.tab = "evidence"
        PROVE  Of(Result(q, img), "assignments", r.item) = {}
    <2>1. r.item = q.id
      BY <1>1, <1>2
    <2>2. \A a \in Result(q, img) : a.tab = "assignments" => a.item # q.id
      BY <1>1 DEF RecordTables
    <2> QED
      BY <2>1, <2>2 DEF Of, OfTable
  <1>3. Result(q, img) \subseteq img
    BY <1>1
  <1> QED
    BY <1>2, <1>3, FewerMake

\* Whatever operation is carried out, the rows stay sound, and it loses
\* nothing but what a read can tell.
LEMMA ChangeMakes ==
    ASSUME NEW q, ValidRequest(q), NEW img, Sound(img), Refusals(q, img) = {}
    PROVE  Sound(Result(q, img)) /\ Lost(img, Result(q, img))
  <1>1. q.op \in Ops \ {"DeleteProject", "RestoreAssignmentSnapshot", "RestoreHandoffSnapshot"}
    BY DEF ValidRequest
  <1>2. q.op \in Insertions \cup Updates \cup Removals \cup TransitionOps
                 \cup {"UpdateHandoff", "AcceptHandoffWithFollowUp", "PromoteMemoryCandidate",
                       "DeleteHandoff", "DeleteAssignment", "DeleteWorkItem"}
    BY <1>1 DEF Ops, Insertions, Updates, Removals, TransitionOps
  <1>3. Makes(q, img)
    BY <1>2, InsertionsMake, UpdatesMake, RemovalsMake, TransitionsMake, HandoffsMake,
       PromotionsMake, HandoffDeletionMakes, AssignmentDeletionMakes, WorkItemDeletionLoses
  <1>4. Keyed(Result(q, img)) /\ AreRows(Result(q, img))
    BY <1>1, ResultIsKeyed
  <1> QED
    BY <1>3, <1>4 DEF Makes, Sound

-----------------------------------------------------------------------------
(* What was read of a work item and the rows of a later moment.            *)

\* The completed assignments that were read are as they were, and the others
\* are still the assignments of the item.
AssignedAre(w, seen, img) ==
    /\ \A a \in Of(seen, "assignments", w) : a.status = "completed" => a \in img
    /\ {a.id : a \in Of(seen, "assignments", w)} = {a.id : a \in Of(img, "assignments", w)}
\* Evidence that was read is there as long as an assignment is.
EvidenceIs(w, seen, img) ==
    Of(seen, "evidence", w) \subseteq img \/ Of(img, "assignments", w) = {}
ReviewsAre(w, seen, img) == Of(seen, "reviews", w) = Of(img, "reviews", w)

LEMMA OfIs ==
    ASSUME NEW img, NEW t, NEW w
    PROVE  \A r : r \in Of(img, t, w) <=> r \in img /\ r.tab = t /\ r.item = w
  BY DEF Of, OfTable

\* An item that no assignment or review came to or left has those it had.
LEMMA NotStirred ==
    ASSUME NEW old, NEW new, NEW w, w \notin Stirred(old, new), NEW t \in {"assignments", "reviews"}
    PROVE  /\ \A r \in Of(old, t, w) : \E s \in Of(new, t, w) : s.id = r.id
           /\ \A s \in Of(new, t, w) : \E r \in Of(old, t, w) : r.id = s.id
  <1>1. ASSUME NEW a, NEW b, (Places(a) \ Places(b)) \subseteq (Places(old) \ Places(new))
                                                    \cup (Places(new) \ Places(old)),
               NEW r \in Of(a, t, w)
        PROVE  \E s \in Of(b, t, w) : s.id = r.id
    <2> DEFINE k == <<r.tab, r.id, r.item>>
    <2>1. r \in a /\ r.tab = t /\ r.item = w
      BY OfIs
    <2>2. k \in Places(a)
      BY <2>1 DEF Places, OfTable
    <2>3. k[3] = w
      BY <2>1
    <2> HIDE DEF k
    <2>4. k \in Places(b)
      BY <1>1, <2>2, <2>3 DEF Stirred
    <2>5. PICK s \in b : k = <<s.tab, s.id, s.item>>
      BY <2>4 DEF Places, OfTable
    <2>6. s.tab = t /\ s.id = r.id /\ s.item = w
      BY <2>1, <2>5 DEF k
    <2> QED
      BY <2>6, OfIs
  <1> QED
    BY <1>1

LEMMA AgreesStill ==
    ASSUME NEW old, NEW new, Sound(old), Sound(new), Lost(old, new), NEW seen,
           NEW w, w \notin Stirred(old, new)
    PROVE  /\ AssignedAre(w, seen, old) => AssignedAre(w, seen, new)
           /\ EvidenceIs(w, seen, old) => EvidenceIs(w, seen, new)
           /\ ReviewsAre(w, seen, old) => ReviewsAre(w, seen, new)
  <1> DEFINE OfIds(img) == {a.id : a \in Of(img, "assignments", w)}
  <1>1. OfIds(old) = OfIds(new)
    BY NotStirred
  <1>2. Of(old, "assignments", w) = {} => Of(new, "assignments", w) = {}
    BY NotStirred
  <1>3. ASSUME AssignedAre(w, seen, old) PROVE AssignedAre(w, seen, new)
    <2>1. ASSUME NEW a \in Of(seen, "assignments", w), a.status = "completed" PROVE a \in new
      <3>1. a \in old /\ a.tab = "assignments" /\ a.item = w
        BY <1>3, <2>1, OfIs DEF AssignedAre
      <3>2. a \in Of(old, "assignments", w)
        BY <3>1, OfIs
      <3>3. PICK s \in Of(new, "assignments", w) : s.id = a.id
        BY <3>2, NotStirred
      <3>4. Has(new, "assignments", a.id)
        BY <3>3, OfIs DEF Has
      <3> QED
        BY <2>1, <3>1, <3>4 DEF Lost
    <2> QED
      BY <1>1, <1>3, <2>1 DEF AssignedAre
  <1>4. ASSUME EvidenceIs(w, seen, old) PROVE EvidenceIs(w, seen, new)
    <2>1. CASE Of(old, "assignments", w) = {}
      BY <1>2, <2>1 DEF EvidenceIs
    <2>2. CASE Of(seen, "evidence", w) \subseteq old
      <3>1. ASSUME NEW e \in Of(seen, "evidence", w), e \notin new
            PROVE  Of(new, "assignments", w) = {}
        <4>1. e \in old \ new /\ e.tab = "evidence" /\ e.item = w
          BY <2>2, <3>1, OfIs
        <4> QED
          BY <4>1 DEF Lost
      <3> QED
        BY <3>1 DEF EvidenceIs
    <2> QED
      BY <1>4, <2>1, <2>2 DEF EvidenceIs
  <1>5. ASSUME ReviewsAre(w, seen, old) PROVE ReviewsAre(w, seen, new)
    <2>1. ASSUME NEW r \in Of(old, "reviews", w) PROVE r \in Of(new, "reviews", w)
      <3>1. PICK s \in Of(new, "reviews", w) : s.id = r.id
        BY NotStirred
      <3>2. Has(new, "reviews", r.id) /\ r.tab = "reviews" /\ r \in old
        BY <3>1, OfIs DEF Has
      <3>3. r \in new
        BY <3>2 DEF Lost
      <3> QED
        BY <3>3, OfIs
    <2>2. ASSUME NEW s \in Of(new, "reviews", w) PROVE s \in Of(old, "reviews", w)
      <3>1. PICK r \in Of(old, "reviews", w) : r.id = s.id
        BY NotStirred
      <3>2. r \in Of(new, "reviews", w)
        BY <2>1
      <3>3. r \in new /\ s \in new /\ r.tab = "reviews" /\ s.tab = "reviews"
        BY <3>2, OfIs
      <3>4. r = s
        BY <3>1, <3>3 DEF Sound, Keyed
      <3> QED
        BY <3>4
    <2> QED
      BY <1>5, <2>1, <2>2 DEF ReviewsAre
  <1> QED
    BY <1>3, <1>4, <1>5

\* The parts of a readiness that says ready.
LEMMA ReadyIs ==
    ASSUME NEW w, NEW A, NEW E, NEW R, NEW H,
           \A a \in A : a.status \in Active \cup Terminal,
           EvaluateWorkItemCloseoutReadiness(w, A, E, R, H).status = "ready"
    PROVE  /\ \A a \in A : a.status = "completed" /\ HasEvidence(a, E)
           /\ \A h \in H : h.status # "open"
           /\ \A r \in R : ~FollowUpBlocked(r, H, A)
  <1> DEFINE missing == {a \in A : a.status = "completed" /\ ~HasEvidence(a, E)}
             open == {h \in H : h.status = "open"}
             followUps == {r \in R : FollowUpBlocked(r, H, A)}
             classes == {CloseoutClass(a) : a \in A} \ {"completed"}
             kinds == {k \in {"missing_evidence", "handoff", "review_follow_up"} :
                         CASE k = "missing_evidence" -> missing # {}
                           [] k = "handoff"          -> open # {}
                           [] k = "review_follow_up" -> followUps # {}}
             blockers == classes \cup kinds
  <1>1. blockers = {}
    <2>1. EvaluateWorkItemCloseoutReadiness(w, A, E, R, H) =
             IF Closed(w)
             THEN [status |-> "done", blockers |-> {}, missing |-> {}, open |-> {},
                   followUps |-> {}]
             ELSE [status |-> IF blockers = {} THEN "ready" ELSE "blocked",
                   blockers |-> blockers, missing |-> missing, open |-> open,
                   followUps |-> followUps]
      BY DEF EvaluateWorkItemCloseoutReadiness
    <2> HIDE DEF blockers, missing, open, followUps
    <2> QED
      BY <2>1
  <1>2. missing = {} /\ open = {} /\ followUps = {}
    <2> HIDE DEF missing, open, followUps, classes
    <2>1. kinds = {}
      BY <1>1
    <2> QED
      BY <2>1
  <1>3. ASSUME NEW a \in A PROVE a.status = "completed"
    <2>1. CloseoutClass(a) = "completed"
      BY <1>1
    <2> QED
      BY <2>1 DEF CloseoutClass, Active, Terminal
  <1> QED
    BY <1>2, <1>3

\* An answer that says ready, of lists that agree with the rows, is true of them.
LEMMA ReadyIsClear ==
    ASSUME NEW w, NEW seen, NEW img, Sound(img), \A r \in seen : ValidRow(r),
           AssignedAre(w.id, seen, img), EvidenceIs(w.id, seen, img), ReviewsAre(w.id, seen, img),
           Of(seen, "handoffs", w.id) = Of(img, "handoffs", w.id),
           Readiness(w, seen).status = "ready"
    PROVE  IsClear(w.id, img)
  <1> DEFINE A == Of(seen, "assignments", w.id)
             E == Of(seen, "evidence", w.id)
             R == Of(seen, "reviews", w.id)
             H == Of(seen, "handoffs", w.id)
  <1>1. \A a \in A : a.status \in Active \cup Terminal
    BY OfIs DEF ValidRow
  <1>2. /\ \A a \in A : a.status = "completed" /\ HasEvidence(a, E)
        /\ \A h \in H : h.status # "open"
        /\ \A r \in R : ~FollowUpBlocked(r, H, A)
    <2> HIDE DEF A, E, R, H
    <2> QED
      BY <1>1, ReadyIs DEF Readiness, A, E, R, H
  <1>3. \A a \in A : a \in Of(img, "assignments", w.id)
    BY <1>2, OfIs DEF AssignedAre
  <1>4. ASSUME NEW a \in Of(img, "assignments", w.id) PROVE a \in A
    <2>1. PICK b \in A : b.id = a.id
      BY DEF AssignedAre
    <2>2. b \in img /\ a \in img /\ b.tab = "assignments" /\ a.tab = "assignments"
      BY <1>3, <2>1, OfIs
    <2> HIDE DEF A
    <2> QED
      BY <2>1, <2>2 DEF Sound, Keyed
  <1>5. ASSUME NEW a \in Of(img, "assignments", w.id)
        PROVE  a.status = "completed" /\ \E e \in Of(img, "evidence", w.id) : e.link \in {None, a.id}
    <2>1. a.status = "completed" /\ HasEvidence(a, E)
      BY <1>2, <1>4
    <2>2. PICK e \in E : e.link \in {None, a.id}
      BY <2>1 DEF HasEvidence
    <2>3. e \in img
      BY DEF EvidenceIs
    <2>4. e \in Of(img, "evidence", w.id)
      BY <2>3, OfIs
    <2> QED
      BY <2>1, <2>2, <2>4
  <1>6. ASSUME NEW r \in Of(img, "reviews", w.id), RequiresFollowUp(r) PROVE Settled(r, img)
    <2>1. r \in R /\ r.item = w.id
      BY OfIs DEF ReviewsAre
    <2> DEFINE linked == {h \in H : h.ref = r.id}
    <2>2. /\ linked = {h \in Of(img, "handoffs", r.item) : h.ref = r.id}
          /\ \A a \in A : a \in Of(img, "assignments", r.item)
      BY <1>3, <2>1
    <2>3. ~FollowUpBlocked(r, H, A) /\ \A h \in linked : h.status # "open"
      BY <1>2, <2>1
    <2> HIDE DEF H, A, R
    <2>4. \/ \E h \in linked, a \in A : a.id = h.link /\ a.status = "completed"
          \/ /\ \A h \in linked : h.link = None
             /\ \E h \in linked : h.status \in {"dismissed", "superseded"}
      BY <1>6, <2>3 DEF FollowUpBlocked
    <2> HIDE DEF linked
    <2> QED
      BY <2>2, <2>4 DEF Settled
  <1> QED
    BY <1>2, <1>5, <1>6 DEF IsClear

-----------------------------------------------------------------------------
(* What a brief answers of what was read.                                  *)

LEMMA OneMore ==
    ASSUME NEW S, NEW s \in Seq(S), NEW e \in S, NEW t \in Seq(S), Len(t) = Len(s) + 1,
           \A k \in 1..Len(s) : t[k] = s[k], t[Len(t)] = e
    PROVE  s \o <<e>> = t
  <1>1. <<e>> \in Seq(S) /\ Len(<<e>>) = 1 /\ <<e>>[1] = e
    OBVIOUS
  <1>2. /\ s \o <<e>> \in Seq(S) /\ Len(s \o <<e>>) = Len(s) + 1
        /\ \A k \in 1..(Len(s) + 1) : (s \o <<e>>)[k] = IF k <= Len(s) THEN s[k]
                                                        ELSE <<e>>[k - Len(s)]
    BY <1>1, ConcatProperties
  <1>3. Len(s) \in Nat
    BY LenProperties
  <1>4. \A k \in 1..Len(t) : (s \o <<e>>)[k] = t[k]
    BY <1>1, <1>2, <1>3
  <1> QED
    BY <1>2, <1>4, SeqEqual

LEMMA Pairs ==
    ASSUME NEW a, NEW b
    PROVE  <<a>> \o <<b>> = <<a, b>>
  <1> DEFINE S == {a, b}
             s == <<a>>
             t == <<a, b>>
  <1>1. s \in Seq(S) /\ t \in Seq(S) /\ b \in S
    OBVIOUS
  <1>2. Len(t) = Len(s) + 1 /\ t[Len(t)] = b /\ \A k \in 1..Len(s) : t[k] = s[k]
    OBVIOUS
  <1> HIDE DEF S, s, t
  <1>3. s \o <<b>> = t
    BY <1>1, <1>2, OneMore
  <1> QED
    BY <1>3 DEF s, t

LEMMA Triples ==
    ASSUME NEW a, NEW b, NEW c
    PROVE  <<a, b>> \o <<c>> = <<a, b, c>>
  <1> DEFINE S == {a, b, c}
             s == <<a, b>>
             t == <<a, b, c>>
  <1>1. s \in Seq(S) /\ t \in Seq(S) /\ c \in S
    OBVIOUS
  <1>2. Len(t) = Len(s) + 1 /\ t[Len(t)] = c /\ \A k \in 1..Len(s) : t[k] = s[k]
    OBVIOUS
  <1> HIDE DEF S, s, t
  <1>3. s \o <<c>> = t
    BY <1>1, <1>2, OneMore
  <1> QED
    BY <1>3 DEF s, t

LEMMA Quadruples ==
    ASSUME NEW a, NEW b, NEW c, NEW d
    PROVE  <<a, b, c>> \o <<d>> = <<a, b, c, d>>
  <1> DEFINE S == {a, b, c, d}
             s == <<a, b, c>>
             t == <<a, b, c, d>>
  <1>1. s \in Seq(S) /\ t \in Seq(S) /\ d \in S
    OBVIOUS
  <1>2. Len(t) = Len(s) + 1 /\ t[Len(t)] = d /\ \A k \in 1..Len(s) : t[k] = s[k]
    OBVIOUS
  <1> HIDE DEF S, s, t
  <1>3. s \o <<d>> = t
    BY <1>1, <1>2, OneMore
  <1> QED
    BY <1>3 DEF s, t

LEMMA HealthItemIDIs ==
    ASSUME NEW i, Unsplit(i)
    PROVE  LET k == i.kind  w == i.item  a == i.assignment  r == i.record
           IN /\ w # None /\ a # None /\ r # None => HealthItemID(i) = <<k, w, a, r>>
              /\ w # None /\ a # None /\ r = None => HealthItemID(i) = <<k, w, a>>
              /\ w # None /\ a = None /\ r # None => HealthItemID(i) = <<k, w, r>>
              /\ w # None /\ a = None /\ r = None => HealthItemID(i) = <<k, w>>
              /\ w = None /\ a = None /\ r # None => HealthItemID(i) = <<k, r>>
  <1> DEFINE k == i.kind
             w == i.item
             a == i.assignment
             r == i.record
             Part(p) == IF p = None THEN <<>> ELSE <<p>>
  <1>1. HealthItemID(i) = ((<<k>> \o Part(w)) \o Part(a)) \o Part(r)
    <2> DEFINE Cut(p) == IF p = None THEN <<>> ELSE Split(p)
    <2>1. \A p \in {w, a, r} : Cut(p) = Part(p)
      BY DEF Unsplit
    <2>2. HealthItemID(i) = ((<<k>> \o Cut(w)) \o Cut(a)) \o Cut(r)
      BY DEF HealthItemID
    <2> HIDE DEF Cut, Part, k, w, a, r
    <2> QED
      BY <2>1, <2>2
  <1> HIDE DEF k, w, a, r
  <1>2. <<k>> \o <<w>> = <<k, w>> /\ <<k>> \o <<r>> = <<k, r>>
    BY Pairs
  <1>3. <<k, w>> \o <<a>> = <<k, w, a>> /\ <<k, w>> \o <<r>> = <<k, w, r>>
    BY Triples
  <1>4. <<k, w, a>> \o <<r>> = <<k, w, a, r>>
    BY Quadruples
  <1>5. /\ <<k>> \o <<>> = <<k>> /\ <<k, w>> \o <<>> = <<k, w>>
        /\ <<k, w, a>> \o <<>> = <<k, w, a>>
    OBVIOUS
  <1>6. ASSUME w # None, a # None, r # None PROVE HealthItemID(i) = <<k, w, a, r>>
    BY <1>1, <1>2, <1>3, <1>4, <1>6
  <1>7. ASSUME w # None, a # None, r = None PROVE HealthItemID(i) = <<k, w, a>>
    BY <1>1, <1>2, <1>3, <1>5, <1>7
  <1>8. ASSUME w # None, a = None, r # None PROVE HealthItemID(i) = <<k, w, r>>
    BY <1>1, <1>2, <1>3, <1>5, <1>8
  <1>9. ASSUME w # None, a = None, r = None PROVE HealthItemID(i) = <<k, w>>
    BY <1>1, <1>2, <1>5, <1>9
  <1>10. ASSUME w = None, a = None, r # None PROVE HealthItemID(i) = <<k, r>>
    BY <1>1, <1>2, <1>5, <1>10
  <1> QED
    BY <1>6, <1>7, <1>8, <1>9, <1>10 DEF k, w, a, r

\* The shape of an item says which kind of item it is.
Shaped(i) ==
    /\ i = OperationItem(i.kind, i.severity, i.item, i.assignment, i.record)
    /\ CASE i.kind \in {"assignment", "missing_evidence"} ->
                i.item # None /\ i.assignment # None /\ i.record = None
         [] i.kind = "review_follow_up" -> i.item # None /\ i.record # None
         [] i.kind = "handoff" -> i.item # None /\ i.assignment = None /\ i.record # None
         [] i.kind \in {"closeout_ready", "work_item"} ->
                i.item # None /\ i.assignment = None /\ i.record = None
         [] i.kind = "memory_candidate" ->
                i.item = None /\ i.assignment = None /\ i.record # None

Kinds == {"assignment", "missing_evidence", "review_follow_up", "handoff", "closeout_ready",
          "work_item", "memory_candidate"}

LEMMA ShapedByID ==
    ASSUME NEW i, NEW j, i.kind \in Kinds, j.kind \in Kinds, Shaped(i), Shaped(j),
           Unsplit(i), Unsplit(j), HealthItemID(i) = HealthItemID(j)
    PROVE  i.kind = j.kind /\ i.item = j.item /\ i.assignment = j.assignment /\ i.record = j.record
  <1> DEFINE Full(x) == <<x.kind, x.item, x.assignment, x.record>>
             Assigned(x) == <<x.kind, x.item, x.assignment>>
             Recorded(x) == <<x.kind, x.item, x.record>>
             Single(x) == <<x.kind, x.item>>
             Lone(x) == <<x.kind, x.record>>
             Shape(x) == HealthItemID(x) \in {Full(x), Assigned(x), Recorded(x), Single(x), Lone(x)}
  <1>1. ASSUME NEW x, x.kind \in Kinds, Shaped(x), Unsplit(x)
        PROVE  /\ x.kind \in {"assignment", "missing_evidence"} => HealthItemID(x) = Assigned(x)
               /\ x.kind = "review_follow_up" =>
                      \/ x.assignment # None /\ HealthItemID(x) = Full(x)
                      \/ x.assignment = None /\ HealthItemID(x) = Recorded(x)
               /\ x.kind = "handoff" => HealthItemID(x) = Recorded(x)
               /\ x.kind \in {"closeout_ready", "work_item"} => HealthItemID(x) = Single(x)
               /\ x.kind = "memory_candidate" => HealthItemID(x) = Lone(x)
    <2> HIDE DEF Full, Assigned, Recorded, Single, Lone
    <2>1. /\ x.item # None /\ x.assignment # None /\ x.record # None => HealthItemID(x) = Full(x)
          /\ x.item # None /\ x.assignment # None /\ x.record = None => HealthItemID(x) = Assigned(x)
          /\ x.item # None /\ x.assignment = None /\ x.record # None => HealthItemID(x) = Recorded(x)
          /\ x.item # None /\ x.assignment = None /\ x.record = None => HealthItemID(x) = Single(x)
          /\ x.item = None /\ x.assignment = None /\ x.record # None => HealthItemID(x) = Lone(x)
      BY <1>1, HealthItemIDIs DEF Full, Assigned, Recorded, Single, Lone
    <2> QED
      BY <1>1, <2>1 DEF Shaped, Kinds
  <1>2. i.kind = j.kind
    <2>1. \A x : x.kind \in Kinds /\ Shaped(x) /\ Unsplit(x) => HealthItemID(x)[1] = x.kind
      BY <1>1 DEF Kinds
    <2> QED
      BY <2>1
  <1>3. CASE i.kind \in {"assignment", "missing_evidence"}
    <2>1. Assigned(i) = Assigned(j)
      BY <1>1, <1>2, <1>3
    <2>2. i.item = j.item /\ i.assignment = j.assignment
      BY <2>1
    <2>3. i.record = None /\ j.record = None
      BY <1>2, <1>3 DEF Shaped
    <2> QED
      BY <1>2, <2>2, <2>3
  <1>4. CASE i.kind = "review_follow_up"
    <2>1. HealthItemID(i) \in {Full(i), Recorded(i)} /\ HealthItemID(j) \in {Full(j), Recorded(j)}
      BY <1>1, <1>2, <1>4
    <2>2. Full(i) # Recorded(j) /\ Full(j) # Recorded(i)
      OBVIOUS
    <2>3. \/ Full(i) = Full(j)
          \/ i.assignment = None /\ j.assignment = None /\ Recorded(i) = Recorded(j)
      <3> HIDE DEF Full, Recorded
      <3> QED
        BY <1>1, <1>2, <1>4, <2>2
    <2> QED
      BY <1>2, <2>3
  <1>5. CASE i.kind = "handoff"
    <2>1. Recorded(i) = Recorded(j)
      BY <1>1, <1>2, <1>5
    <2> QED
      BY <1>2, <1>5, <2>1 DEF Shaped
  <1>6. CASE i.kind \in {"closeout_ready", "work_item"}
    <2>1. Single(i) = Single(j)
      BY <1>1, <1>2, <1>6
    <2> QED
      BY <1>2, <1>6, <2>1 DEF Shaped
  <1>7. CASE i.kind = "memory_candidate"
    <2>1. Lone(i) = Lone(j)
      BY <1>1, <1>2, <1>7
    <2> QED
      BY <1>2, <1>7, <2>1 DEF Shaped
  <1> QED
    BY <1>3, <1>4, <1>5, <1>6, <1>7 DEF Kinds

\* The records a readiness names are of the work item; if every assignment is
\* completed and the item is open, it is ready or names one.
LEMMA ReadinessNames ==
    ASSUME NEW w, NEW seen
    PROVE  LET it == Readiness(w, seen)
           IN /\ it.missing \subseteq Of(seen, "assignments", w.id)
              /\ it.followUps \subseteq Of(seen, "reviews", w.id)
              /\ it.open \subseteq Of(seen, "handoffs", w.id)
              /\ ~Closed(w) /\ (\A a \in Of(seen, "assignments", w.id) : a.status = "completed")
                 => \/ it.status = "ready"
                    \/ it.missing # {} \/ it.followUps # {} \/ it.open # {}
  <1> DEFINE A == Of(seen, "assignments", w.id)
             E == Of(seen, "evidence", w.id)
             R == Of(seen, "reviews", w.id)
             H == Of(seen, "handoffs", w.id)
             it == EvaluateWorkItemCloseoutReadiness(w, A, E, R, H)
             missing == {a \in A : a.status = "completed" /\ ~HasEvidence(a, E)}
             open == {h \in H : h.status = "open"}
             followUps == {r \in R : FollowUpBlocked(r, H, A)}
             classes == {CloseoutClass(a) : a \in A} \ {"completed"}
             kinds == {k \in {"missing_evidence", "handoff", "review_follow_up"} :
                         CASE k = "missing_evidence" -> missing # {}
                           [] k = "handoff"          -> open # {}
                           [] k = "review_follow_up" -> followUps # {}}
             blockers == classes \cup kinds
  <1>1. Readiness(w, seen) = it
    BY DEF Readiness
  <1>2. it = IF Closed(w)
             THEN [status |-> "done", blockers |-> {}, missing |-> {}, open |-> {},
                   followUps |-> {}]
             ELSE [status |-> IF blockers = {} THEN "ready" ELSE "blocked",
                   blockers |-> blockers, missing |-> missing, open |-> open,
                   followUps |-> followUps]
    BY DEF EvaluateWorkItemCloseoutReadiness
  <1>3. missing \subseteq A /\ followUps \subseteq R /\ open \subseteq H
    OBVIOUS
  <1>4. ASSUME \A a \in A : a.status = "completed", missing = {}, open = {}, followUps = {}
        PROVE  blockers = {}
    <2>1. classes = {}
      BY <1>4 DEF CloseoutClass, Active, Terminal
    <2> HIDE DEF missing, open, followUps
    <2>2. kinds = {}
      BY <1>4
    <2> QED
      BY <2>1, <2>2
  <1> HIDE DEF it, missing, open, followUps, blockers, A, R, H
  <1>5. it.missing \subseteq A /\ it.followUps \subseteq R /\ it.open \subseteq H
    BY <1>2, <1>3
  <1>6. ASSUME ~Closed(w), \A a \in A : a.status = "completed"
        PROVE  it.status = "ready" \/ it.missing # {} \/ it.followUps # {} \/ it.open # {}
    BY <1>2, <1>4, <1>6
  <1> QED
    BY <1>1, <1>5, <1>6 DEF A, R, H

SeverityOf(i, seen, late) ==
    CASE i.kind = "assignment" ->
             \E a \in OfTable(seen, "assignments") :
                 a.item = i.item /\ a.id = i.assignment /\ i.severity = OperationSeverity(a, late)
      [] i.kind \in {"missing_evidence", "review_follow_up", "handoff"} -> i.severity = "blocked"
      [] i.kind = "closeout_ready" -> i.severity = "ready"
      [] i.kind = "work_item" -> i.severity = "info"
      [] i.kind = "memory_candidate" -> i.severity = "action"

\* What is true of each item of an answer.
AnItem(i, seen, late) == i.kind \in Kinds /\ Shaped(i) /\ SeverityOf(i, seen, late)

LEMMA ItemForms ==
    ASSUME NEW seen, NEW late, NEW w, w # None
    PROVE  /\ \A a \in OfTable(seen, "assignments") : a.item = w /\ a.id # None =>
                 /\ AnItem(OperationItem("assignment", OperationSeverity(a, late), w, a.id, None),
                           seen, late)
                 /\ AnItem(OperationItem("missing_evidence", "blocked", w, a.id, None), seen, late)
           /\ \A r : r # None =>
                 /\ \A a : AnItem(OperationItem("review_follow_up", "blocked", w, a, r), seen, late)
                 /\ AnItem(OperationItem("handoff", "blocked", w, None, r), seen, late)
                 /\ AnItem(OperationItem("memory_candidate", "action", None, None, r), seen, late)
           /\ AnItem(OperationItem("closeout_ready", "ready", w, None, None), seen, late)
           /\ AnItem(OperationItem("work_item", "info", w, None, None), seen, late)
  BY DEF AnItem, Shaped, Kinds, SeverityOf, OperationItem

LEMMA WorkItemItems ==
    ASSUME NEW seen, \A r \in seen : ValidRow(r), NEW late,
           NEW w \in OfTable(seen, "work_items"), NEW i \in WorkItemOperations(w, seen, late)
    PROVE  AnItem(i, seen, late)
  <1> DEFINE it == Readiness(w, seen)
             assigned == Of(seen, "assignments", w.id)
  <1>1. w.id # None
    BY DEF OfTable, ValidRow
  <1>2. /\ \A a \in assigned : a \in OfTable(seen, "assignments") /\ a.item = w.id /\ a.id # None
        /\ \A r \in Of(seen, "reviews", w.id) \cup Of(seen, "handoffs", w.id) : r.id # None
    BY DEF Of, OfTable, ValidRow
  <1>3. /\ it.missing \subseteq assigned /\ it.followUps \subseteq Of(seen, "reviews", w.id)
        /\ it.open \subseteq Of(seen, "handoffs", w.id)
    BY ReadinessNames
  <1>4. \/ \E a \in assigned :
              i = OperationItem("assignment", OperationSeverity(a, late), w.id, a.id, None)
        \/ \E a \in it.missing : i = OperationItem("missing_evidence", "blocked", w.id, a.id, None)
        \/ \E r \in it.followUps :
              i = OperationItem("review_follow_up", "blocked", w.id, r.link, r.id)
        \/ \E h \in it.open : i = OperationItem("handoff", "blocked", w.id, None, h.id)
        \/ i = OperationItem("closeout_ready", "ready", w.id, None, None)
        \/ i = OperationItem("work_item", "info", w.id, None, None)
    BY DEF WorkItemOperations
  <1> HIDE DEF it, assigned
  <1> QED
    BY <1>1, <1>2, <1>3, <1>4, ItemForms

LEMMA BriefItems ==
    ASSUME NEW seen, \A r \in seen : ValidRow(r), NEW late, NEW i \in ProjectOperationsBrief(seen, late)
    PROVE  AnItem(i, seen, late)
  <1>1. CASE \E w \in OfTable(seen, "work_items") : i \in WorkItemOperations(w, seen, late)
    BY <1>1, WorkItemItems
  <1>2. CASE \E c \in OfTable(seen, "memory_candidates") :
                 i = OperationItem("memory_candidate", "action", None, None, c.id)
    <2>1. PICK c \in OfTable(seen, "memory_candidates") :
              i = OperationItem("memory_candidate", "action", None, None, c.id)
      BY <1>2
    <2>2. c.id # None
      BY DEF OfTable, ValidRow
    <2> QED
      BY <2>1, <2>2, ItemForms
  <1>3. \/ i \in UNION {WorkItemOperations(w, seen, late) : w \in OfTable(seen, "work_items")}
        \/ i \in {OperationItem("memory_candidate", "action", None, None, c.id) :
                    c \in {d \in OfTable(seen, "memory_candidates") : d.status = "pending"}}
    BY DEF ProjectOperationsBrief
  <1> QED
    BY <1>1, <1>2, <1>3

\* The blocks of the brief are those of activity.
LEMMA SameBlocks ==
    ASSUME NEW a, NEW late
    PROVE  ActivityBucket(a, late) = "blocked" <=> OperationSeverity(a, late) = "blocked"
  BY DEF ActivityBucket, OperationSeverity

\* An open work item has an item.
LEMMA OpenHasItem ==
    ASSUME NEW seen, \A r \in seen : ValidRow(r), NEW late,
           NEW w \in OfTable(seen, "work_items"), ~Closed(w)
    PROVE  \E i \in WorkItemOperations(w, seen, late) : i.item = w.id
  <1> DEFINE it == Readiness(w, seen)
             assigned == Of(seen, "assignments", w.id)
             of == WorkItemOperations(w, seen, late)
  <1>1. \A kind, severity, a, r : OperationItem(kind, severity, w.id, a, r).item = w.id
    BY DEF OperationItem
  <1>2. /\ \A a \in assigned : OperationSeverity(a, late) # "none" =>
              OperationItem("assignment", OperationSeverity(a, late), w.id, a.id, None) \in of
        /\ \A a \in it.missing : OperationItem("missing_evidence", "blocked", w.id, a.id, None) \in of
        /\ \A r \in it.followUps :
              OperationItem("review_follow_up", "blocked", w.id, r.link, r.id) \in of
        /\ \A h \in it.open : OperationItem("handoff", "blocked", w.id, None, h.id) \in of
        /\ it.status = "ready" /\ assigned # {} =>
              OperationItem("closeout_ready", "ready", w.id, None, None) \in of
        /\ assigned = {} => OperationItem("work_item", "info", w.id, None, None) \in of
    BY DEF WorkItemOperations
  <1>3. ASSUME NEW a \in assigned, OperationSeverity(a, late) = "none" PROVE a.status = "completed"
    <2>1. a.status \in Active \cup Terminal
      BY OfIs DEF ValidRow
    <2> QED
      BY <1>3, <2>1 DEF OperationSeverity, Active, Terminal
  <1>4. (\A a \in assigned : a.status = "completed")
        => it.status = "ready" \/ it.missing # {} \/ it.followUps # {} \/ it.open # {}
    BY ReadinessNames
  <1> HIDE DEF it, assigned, of
  <1>5. \E i \in of : i.item = w.id
    <2>1. CASE assigned = {}
      BY <1>1, <1>2, <2>1
    <2>2. CASE \E a \in assigned : OperationSeverity(a, late) # "none"
      BY <1>1, <1>2, <2>2
    <2>3. CASE assigned # {} /\ \A a \in assigned : OperationSeverity(a, late) = "none"
      <3>1. it.status = "ready" \/ it.missing # {} \/ it.followUps # {} \/ it.open # {}
        BY <1>3, <1>4, <2>3
      <3>2. CASE it.status = "ready"
        BY <1>1, <1>2, <2>3, <3>2
      <3>3. CASE it.missing # {}
        BY <1>1, <1>2, <3>3
      <3>4. CASE it.followUps # {}
        BY <1>1, <1>2, <3>4
      <3>5. CASE it.open # {}
        BY <1>1, <1>2, <3>5
      <3> QED
        BY <3>1, <3>2, <3>3, <3>4, <3>5
    <2> QED
      BY <2>1, <2>2, <2>3
  <1> QED
    BY <1>5 DEF of

\* No two items of an answer have one id, if no colon is in their parts.
LEMMA ItemByID ==
    ASSUME NEW seen, \A r \in seen : ValidRow(r),
           \A r, s \in seen : r.tab = s.tab /\ r.id = s.id /\ r.item = s.item => r = s,
           NEW late, NEW i \in ProjectOperationsBrief(seen, late),
           NEW j \in ProjectOperationsBrief(seen, late), Unsplit(i), Unsplit(j),
           HealthItemID(i) = HealthItemID(j)
    PROVE  i = j
  <1>1. AnItem(i, seen, late) /\ AnItem(j, seen, late)
    BY BriefItems
  <1>2. i.kind = j.kind /\ i.item = j.item /\ i.assignment = j.assignment /\ i.record = j.record
    BY <1>1, ShapedByID DEF AnItem
  <1>3. i.severity = j.severity
    <2>1. CASE i.kind = "assignment"
      <3>1. PICK a \in OfTable(seen, "assignments") :
                a.item = i.item /\ a.id = i.assignment /\ i.severity = OperationSeverity(a, late)
        BY <1>1, <2>1 DEF AnItem, SeverityOf
      <3>2. PICK b \in OfTable(seen, "assignments") :
                b.item = j.item /\ b.id = j.assignment /\ j.severity = OperationSeverity(b, late)
        BY <1>1, <1>2, <2>1 DEF AnItem, SeverityOf
      <3>3. a = b
        BY <1>2, <3>1, <3>2 DEF OfTable
      <3> QED
        BY <3>1, <3>2, <3>3
    <2>2. CASE i.kind # "assignment"
      BY <1>1, <1>2, <2>2 DEF AnItem, SeverityOf, Kinds
    <2> QED
      BY <2>1, <2>2
  <1>4. /\ i = OperationItem(i.kind, i.severity, i.item, i.assignment, i.record)
        /\ j = OperationItem(j.kind, j.severity, j.item, j.assignment, j.record)
    BY <1>1 DEF AnItem, Shaped
  <1> QED
    BY <1>2, <1>3, <1>4

\* Nothing is hidden in any state of the right types.
LEMMA NothingHiddenIs == TypeOK => NothingHidden
  <1> SUFFICES ASSUME TypeOK, NEW late \in SUBSET Claims(got)
               PROVE  LET answer == ProjectOperationsBrief(got, late)
                      IN /\ \A w \in OfTable(got, "work_items") :
                               ~Closed(w) => \E i \in answer : i.item = w.id
                         /\ \A a \in OfTable(got, "assignments") :
                               (ActivityBucket(a, late) = "blocked")
                               <=> (OperationSeverity(a, late) = "blocked")
                         /\ \A i, j \in {k \in answer : Unsplit(k)} :
                               HealthItemID(i) = HealthItemID(j) => i = j
    BY DEF NothingHidden
  <1> DEFINE answer == ProjectOperationsBrief(got, late)
  <1>1. /\ \A r \in got : ValidRow(r)
        /\ \A r, s \in got : r.tab = s.tab /\ r.id = s.id /\ r.item = s.item => r = s
    BY DEF TypeOK
  <1>2. ASSUME NEW w \in OfTable(got, "work_items"), ~Closed(w)
        PROVE  \E i \in answer : i.item = w.id
    <2>1. PICK i \in WorkItemOperations(w, got, late) : i.item = w.id
      BY <1>1, <1>2, OpenHasItem
    <2>2. i \in answer
      BY DEF ProjectOperationsBrief
    <2> QED
      BY <2>1, <2>2
  <1>3. ASSUME NEW i \in answer, NEW j \in answer, Unsplit(i), Unsplit(j),
               HealthItemID(i) = HealthItemID(j)
        PROVE  i = j
    BY <1>1, <1>3, ItemByID
  <1> QED
    BY <1>2, <1>3, SameBlocks

-----------------------------------------------------------------------------
(* The invariant: the lists that have been read, and what is still true of *)
(* what they said.                                                         *)

ProjectLists == {"work_items", "assignments", "memory_candidates"}
Later == [evidence |-> {"reviews", "handoffs"}, reviews |-> {"handoffs"}, handoffs |-> {}]

\* The list t has been read, for work item i if it is a list of an item.
Past(t, i) ==
    /\ t = "work_items" => turn # "work_items"
    /\ t = "assignments" => turn \notin {"work_items", "assignments"}
    /\ t = "memory_candidates" => turn \in ItemLists \cup {"none"}
    /\ t \in ItemLists => /\ i \notin items /\ turn \in ItemLists \cup {"none"}
                          /\ i # current \/ turn = "none" \/ turn \in Later[t]

\* What was got is from lists that have been read.
Read == \A r \in got : r.tab \in ProjectLists \cup ItemLists /\ Past(r.tab, r.item)

\* Where the read is.
Placed ==
    /\ Reading => view \in {"closeout", "brief"}
    /\ turn = "work_items" => items = {}
    /\ turn \in ItemLists => current # None /\ current \notin items
    /\ view = "closeout" => /\ items = {} /\ turn # "memory_candidates"
                            /\ Ids(got, "work_items") \subseteq {current}
                            /\ Reading => current # None
    /\ view = "brief" => /\ turn \in ProjectLists => current = None
                         /\ turn \in {"assignments", "memory_candidates"} =>
                                Ids(got, "work_items") = items

\* What was read of a work item agrees with the rows as they are, unless an
\* assignment or a review came to it or left it.
Agrees(w) ==
    /\ Past("assignments", w) => AssignedAre(w, got, rows)
    /\ Past("evidence", w) => EvidenceIs(w, got, rows)
    /\ Past("reviews", w) => ReviewsAre(w, got, rows)
Agreeing ==
    Reading => /\ ClearNow(rows) \subseteq clear
               /\ \A w \in Ids(got, "work_items") \ stirred : Agrees(w)

\* A work item whose lists say it is ready was clear at a moment of the read.
ReadyWas ==
    \A w \in OfTable(got, "work_items") :
        Past("handoffs", w.id) /\ Readiness(w, got).status = "ready" => w.id \in clear \cup stirred

\* A copy that no write overtook has the fields of the row its patch leaves.
Unpatched(e) == DOMAIN Blank \ DOMAIN PatchOf[e]
CopyIs(e, copy, img) == \A r \in Rows(img, PatchedItem), c \in Unpatched(e) : copy[c] = r[c]
Edits(x, e, img) ==
    /\ x = [at |-> x.at, copy |-> x.copy, overlapped |-> x.overlapped]
    /\ x.at \in {"idle", "read", "checked", "written", "refused"}
    /\ x.at \in {"read", "checked"} =>
          /\ IsRow(x.copy) /\ x.copy.tab = "work_items" /\ x.copy.id = PatchedItem
          /\ x.at = "checked" => x.copy.status # None
          /\ x.overlapped \/ CopyIs(e, x.copy, img)
Editing == /\ editor = [e \in Editors |-> editor[e]]
           /\ \A e \in Editors : Edits(editor[e], e, rows)

\* A work item that a list found is there, or was deleted since.
Admission == admitted => current \in Ids(rows, "work_items") \cup stirred

IInv == TypeOK /\ Read /\ Placed /\ Agreeing /\ Admission /\ ReadyWas /\ Editing

-----------------------------------------------------------------------------
(* Reading a list.                                                         *)

LEMMA ListedIs ==
    ASSUME NEW r
    PROVE  r \in Listed <=> /\ r \in rows /\ r.tab = turn
                            /\ turn \in ItemLists => r.item = current
                            /\ turn = "work_items" /\ current # None => r.id = current
  BY DEF Listed, OfTable

\* Where a read goes after a list.
Goes ==
    \/ /\ turn = "work_items" /\ turn' = "assignments" /\ current' = current
       /\ items' = IF view = "brief" THEN {r.id : r \in Listed} ELSE items
    \/ /\ turn = "assignments"
       /\ turn' = IF view = "brief" THEN "memory_candidates" ELSE "evidence"
       /\ current' = current /\ items' = items
    \/ turn = "evidence" /\ turn' = "reviews" /\ current' = current /\ items' = items
    \/ turn = "reviews" /\ turn' = "handoffs" /\ current' = current /\ items' = items
    \/ /\ turn = "handoffs" \/ (turn = "memory_candidates" /\ view = "brief")
       /\ \/ turn' = "evidence" /\ current' \in items /\ items' = items \ {current'}
          \/ turn' = "none" /\ items = {} /\ current' = current /\ items' = items

LEMMA ReadGoes == TypeOK /\ Placed /\ ReadList => Goes
  <1> SUFFICES ASSUME TypeOK, Placed, ReadList PROVE Goes
    OBVIOUS
  <1>1. /\ view \in {"closeout", "brief"} /\ turn # "none"
        /\ turn \in {"work_items", "assignments", "memory_candidates"} \cup ItemLists
        /\ view = "closeout" => turn # "memory_candidates"
    BY DEF TypeOK, Placed, ReadList, Reading
  <1>2. Last => turn = "handoffs" \/ (turn = "memory_candidates" /\ view = "brief")
    BY <1>1 DEF Last
  <1>3. CASE NextList
    <2>1. turn \in {"work_items", "assignments", "evidence", "reviews"}
      BY <1>1, <1>3 DEF NextList, Last, ItemLists
    <2> QED
      BY <1>3, <2>1 DEF NextList, Goes
  <1>4. CASE NextItem
    <2>1. /\ turn = "handoffs" \/ (turn = "memory_candidates" /\ view = "brief")
          /\ turn' = "evidence" /\ current' \in items /\ items' = items \ {current'}
      BY <1>2, <1>4 DEF NextItem
    <2> QED
      BY <2>1 DEF Goes
  <1>5. CASE EndReading
    <2>1. /\ turn = "handoffs" \/ (turn = "memory_candidates" /\ view = "brief")
          /\ turn' = "none" /\ items = {} /\ current' = current /\ items' = items
      BY <1>2, <1>5 DEF EndReading
    <2> QED
      BY <2>1 DEF Goes
  <1> QED
    BY <1>3, <1>4, <1>5 DEF ReadList

\* What was read stays read, the list that is read is read then and was not
\* before, and nothing else is.
LEMMA ReadMoves ==
    ASSUME TypeOK, Read, Placed, ReadList
    PROVE  /\ \A t \in ProjectLists \cup ItemLists : \A i : Past(t, i) => Past(t, i)'
           /\ \A r \in Listed : /\ r.tab \in ProjectLists \cup ItemLists
                                /\ Past(r.tab, r.item)' /\ ~Past(r.tab, r.item)
           /\ \A t \in {"assignments"} \cup ItemLists : \A w \in Ids(got', "work_items") :
                 Past(t, w)' => \/ Past(t, w) /\ w \in Ids(got, "work_items")
                                \/ t = turn /\ (t \in ItemLists => w = current)
           /\ turn = "work_items" => got = {}
           /\ turn # "work_items" => Ids(got', "work_items") = Ids(got, "work_items")
           /\ Placed'
  <1>1. Goes
    BY ReadGoes
  <1>2. /\ view' = view /\ rows' = rows /\ got' = got \cup Listed
        /\ view \in {"closeout", "brief"} /\ Reading
    BY DEF ReadList, Placed
  <1>3. /\ items \subseteq Ids(got, "work_items")
        /\ \A r \in rows \cup got : ValidRow(r)
    BY DEF TypeOK
  <1>4. \A i \in Ids(got, "work_items") : i # None
    BY <1>3 DEF Ids, OfTable, ValidRow
  <1>5. turn = "work_items" => got = {}
    BY DEF Read, Past, ProjectLists, ItemLists, Later
  <1>6. turn # "work_items" => Ids(got', "work_items") = Ids(got, "work_items")
    <2>1. turn # "work_items" => OfTable(got', "work_items") = OfTable(got, "work_items")
      BY <1>2, ListedIs DEF OfTable
    <2> QED
      BY <2>1 DEF Ids
  <1>7. turn = "work_items" => Ids(got', "work_items") = {r.id : r \in Listed}
    BY <1>2, <1>5, ListedIs DEF Ids, OfTable
  <1>8. \A i \in {r.id : r \in Listed} : turn = "work_items" /\ current # None => i = current
    BY ListedIs
  <1>9. Placed'
    <2>1. CASE turn = "work_items"
      BY <1>1, <1>2, <1>7, <1>8, <2>1 DEF Placed, Goes, Reading, ProjectLists, ItemLists
    <2>2. CASE turn = "assignments"
      BY <1>1, <1>2, <1>6, <2>2 DEF Placed, Goes, Reading, ProjectLists, ItemLists
    <2>3. CASE turn \in {"evidence", "reviews"}
      BY <1>1, <1>2, <1>6, <2>3 DEF Placed, Goes, Reading, ProjectLists, ItemLists
    <2>4. CASE turn \in {"handoffs", "memory_candidates"}
      BY <1>1, <1>2, <1>3, <1>4, <1>6, <2>4 DEF Placed, Goes, Reading, ProjectLists, ItemLists
    <2> QED
      BY <1>1, <2>1, <2>2, <2>3, <2>4 DEF Goes
  <1>10. ASSUME NEW t \in ProjectLists \cup ItemLists, NEW i, Past(t, i) PROVE Past(t, i)'
    BY <1>1, <1>10 DEF Goes, Past, ProjectLists, ItemLists, Later
  <1>11. ASSUME NEW r \in Listed
         PROVE  /\ r.tab \in ProjectLists \cup ItemLists
                /\ Past(r.tab, r.item)' /\ ~Past(r.tab, r.item)
    <2>1. r.tab = turn /\ (turn \in ItemLists => r.item = current)
      BY ListedIs
    <2>2. turn \in ItemLists => current \notin items
      BY DEF Placed
    <2> QED
      BY <1>1, <2>1, <2>2 DEF Goes, Past, ProjectLists, ItemLists, Later
  <1>12. ASSUME NEW t \in {"assignments"} \cup ItemLists, NEW w \in Ids(got', "work_items"),
                Past(t, w)'
         PROVE  \/ Past(t, w) /\ w \in Ids(got, "work_items")
                \/ t = turn /\ (t \in ItemLists => w = current)
    <2>1. CASE turn = "work_items"
      BY <1>1, <1>12, <2>1 DEF Goes, Past, ItemLists
    <2>2. CASE turn = "assignments"
      BY <1>1, <1>2, <1>6, <1>12, <2>2 DEF Goes, Past, ItemLists, Later, Placed
    <2>3. CASE turn \in {"evidence", "reviews"}
      BY <1>1, <1>6, <1>12, <2>3 DEF Goes, Past, ItemLists, Later
    <2>4. CASE turn = "handoffs"
      BY <1>1, <1>6, <1>12, <2>4 DEF Goes, Past, ItemLists, Later
    <2>5. CASE turn = "memory_candidates"
      BY <1>1, <1>2, <1>6, <1>12, <2>5 DEF Goes, Past, ItemLists, Later, Placed
    <2> QED
      BY <1>1, <2>1, <2>2, <2>3, <2>4, <2>5 DEF Goes
  <1> QED
    BY <1>5, <1>6, <1>9, <1>10, <1>11, <1>12

\* The rows of a list of an item after it was read, and as it is read.
LEMMA OfGot ==
    ASSUME TypeOK, Read, Placed, ReadList, NEW t \in {"assignments"} \cup ItemLists, NEW w
    PROVE  /\ Past(t, w) => Of(got', t, w) = Of(got, t, w)
           /\ t = turn /\ (t \in ItemLists => w = current) =>
                 Of(got', t, w) = Of(rows, t, w)
  <1>1. got' = got \cup Listed
    BY DEF ReadList
  <1>2. \A r \in Listed : ~Past(r.tab, r.item) /\ Past(r.tab, r.item)'
    BY ReadMoves
  <1>3. ASSUME Past(t, w) PROVE Of(got', t, w) = Of(got, t, w)
    <2>1. \A r \in Listed : ~(r.tab = t /\ r.item = w)
      BY <1>2, <1>3
    <2> QED
      BY <1>1, <2>1 DEF Of, OfTable
  <1>4. ASSUME t = turn, t \in ItemLists => w = current PROVE Of(got', t, w) = Of(rows, t, w)
    <2>1. \A r : r.tab = t /\ r.item = w => ~Past(r.tab, r.item)
      BY <1>4 DEF Past, ItemLists, Later, Placed
    <2>2. \A r \in got : ~(r.tab = t /\ r.item = w)
      BY <2>1 DEF Read
    <2>3. \A r : r.tab = t /\ r.item = w => (r \in Listed <=> r \in rows)
      BY <1>4, ListedIs DEF ItemLists
    <2>4. \A r : r \in Of(got', t, w) <=> r \in Of(rows, t, w)
      BY <1>1, <2>2, <2>3, OfIs
    <2> QED
      BY <2>4 DEF Of, OfTable
  <1> QED
    BY <1>3, <1>4

LEMMA ReadListAgrees ==
    ASSUME TypeOK, Read, Placed, Agreeing, Admission, ReadyWas, ReadList
    PROVE  Agreeing' /\ ReadyWas'
  <1>1. /\ rows' = rows /\ clear' = clear /\ stirred' = stirred /\ got' = got \cup Listed
        /\ Reading /\ (turn \in ItemLists => admitted)
    BY DEF ReadList
  <1>2. \A t \in {"assignments"} \cup ItemLists : \A w \in Ids(got', "work_items") :
            Past(t, w)' => \/ Past(t, w) /\ w \in Ids(got, "work_items")
                           \/ t = turn /\ (t \in ItemLists => w = current)
    BY ReadMoves
  <1>3. \A t \in {"assignments"} \cup ItemLists : \A w :
            /\ Past(t, w) => Of(got', t, w) = Of(got, t, w)
            /\ t = turn /\ (t \in ItemLists => w = current) => Of(got', t, w) = Of(rows, t, w)
    BY OfGot
  <1>4. \A t \in {"assignments"} \cup ItemLists : \A w \in Ids(got', "work_items") :
            Past(t, w)' => \/ /\ Past(t, w) /\ w \in Ids(got, "work_items")
                              /\ Of(got', t, w) = Of(got, t, w)
                           \/ Of(got', t, w) = Of(rows, t, w)
    BY <1>2, <1>3
  <1>5. /\ ClearNow(rows) \subseteq clear
        /\ \A w \in Ids(got, "work_items") \ stirred : Agrees(w)
    BY <1>1 DEF Agreeing
  <1>6. ASSUME NEW w \in Ids(got', "work_items") \ stirred
        PROVE  /\ Past("assignments", w)' => AssignedAre(w, got', rows)
               /\ Past("evidence", w)' => EvidenceIs(w, got', rows)
               /\ Past("reviews", w)' => ReviewsAre(w, got', rows)
    <2>1. ASSUME Past("assignments", w)' PROVE AssignedAre(w, got', rows)
      <3>1. \/ /\ Past("assignments", w) /\ w \in Ids(got, "work_items")
               /\ Of(got', "assignments", w) = Of(got, "assignments", w)
            \/ Of(got', "assignments", w) = Of(rows, "assignments", w)
        BY <1>4, <2>1
      <3>2. CASE Of(got', "assignments", w) = Of(rows, "assignments", w)
        BY <3>2, OfIs DEF AssignedAre
      <3> QED
        BY <1>5, <3>1, <3>2 DEF Agrees, AssignedAre
    <2>2. ASSUME Past("evidence", w)' PROVE EvidenceIs(w, got', rows)
      <3>1. \/ /\ Past("evidence", w) /\ w \in Ids(got, "work_items")
               /\ Of(got', "evidence", w) = Of(got, "evidence", w)
            \/ Of(got', "evidence", w) = Of(rows, "evidence", w)
        BY <1>4, <2>2 DEF ItemLists
      <3>2. CASE Of(got', "evidence", w) = Of(rows, "evidence", w)
        BY <3>2, OfIs DEF EvidenceIs
      <3> QED
        BY <1>5, <3>1, <3>2 DEF Agrees, EvidenceIs
    <2>3. ASSUME Past("reviews", w)' PROVE ReviewsAre(w, got', rows)
      <3>1. \/ /\ Past("reviews", w) /\ w \in Ids(got, "work_items")
               /\ Of(got', "reviews", w) = Of(got, "reviews", w)
            \/ Of(got', "reviews", w) = Of(rows, "reviews", w)
        BY <1>4, <2>3 DEF ItemLists
      <3> QED
        BY <1>5, <3>1 DEF Agrees, ReviewsAre
    <2> QED
      BY <2>1, <2>2, <2>3
  <1>7. Agreeing'
    BY <1>1, <1>5, <1>6 DEF Agreeing, Agrees
  <1>8. ASSUME NEW w \in OfTable(got', "work_items"), Past("handoffs", w.id)',
               Readiness(w, got').status = "ready"
        PROVE  w.id \in clear \cup stirred
    <2>1. w.id \in Ids(got', "work_items")
      BY DEF Ids
    <2>2. \/ Past("handoffs", w.id) /\ w.id \in Ids(got, "work_items")
          \/ turn = "handoffs" /\ w.id = current
      BY <1>2, <1>8, <2>1 DEF ItemLists
    <2>3. w \in OfTable(got, "work_items")
      <3>1. turn # "work_items"
        BY <2>2, ReadMoves DEF Ids, OfTable
      <3> QED
        BY <1>1, <1>8, <3>1, ListedIs DEF OfTable
    <2>4. CASE Past("handoffs", w.id)
      <3>1. \A t \in {"assignments", "evidence", "reviews"} : Past(t, w.id)
        BY <2>4 DEF Past, ItemLists, Later
      <3>2. \A t \in {"assignments", "evidence", "reviews", "handoffs"} :
                Of(got', t, w.id) = Of(got, t, w.id)
        BY <1>3, <2>4, <3>1 DEF ItemLists
      <3>3. Readiness(w, got') = Readiness(w, got)
        BY <3>2 DEF Readiness
      <3> QED
        BY <1>8, <2>3, <2>4, <3>3 DEF ReadyWas
    <2>5. CASE turn = "handoffs" /\ w.id = current /\ w.id \notin stirred
      <3>1. w.id \in Ids(got, "work_items")
        BY <2>3 DEF Ids
      <3>2. \A t \in {"assignments", "evidence", "reviews"} : Past(t, w.id)
        BY <2>5 DEF Past, ItemLists, Later, Placed
      <3>3. \A t \in {"assignments", "evidence", "reviews"} : Past(t, w.id)'
        BY <3>2, ReadMoves DEF ProjectLists, ItemLists
      <3>4. /\ AssignedAre(w.id, got', rows) /\ EvidenceIs(w.id, got', rows)
            /\ ReviewsAre(w.id, got', rows)
        BY <1>6, <2>1, <2>5, <3>3
      <3>5. Of(got', "handoffs", w.id) = Of(rows, "handoffs", w.id)
        BY <1>3, <2>5 DEF ItemLists
      <3>6. Sound(rows) /\ \A r \in got' : ValidRow(r)
        BY <1>1, ListedIs DEF TypeOK, Sound
      <3>7. IsClear(w.id, rows)
        BY <1>8, <3>4, <3>5, <3>6, ReadyIsClear
      <3>8. w.id \in Ids(rows, "work_items")
        BY <1>1, <2>5 DEF Admission, ItemLists
      <3> QED
        BY <1>5, <3>7, <3>8 DEF ClearNow
    <2> QED
      BY <2>2, <2>4, <2>5
  <1>9. ReadyWas'
    BY <1>1, <1>8 DEF ReadyWas
  <1> QED
    BY <1>7, <1>9

LEMMA ReadListTypes ==
    ASSUME TypeOK, Read, Placed, ReadList
    PROVE  TypeOK' /\ Read'
  <1>1. /\ rows' = rows /\ view' = view /\ editor' = editor /\ changes' = changes
        /\ got' = got \cup Listed /\ view \in {"closeout", "brief"}
    BY DEF ReadList, Placed
  <1>1a. admitted' \in BOOLEAN /\ ~admitted'
    BY DEF ReadList
  <1>2. Goes
    BY ReadGoes
  <1>3. /\ \A t \in ProjectLists \cup ItemLists : \A i : Past(t, i) => Past(t, i)'
        /\ \A r \in Listed : /\ r.tab \in ProjectLists \cup ItemLists
                             /\ Past(r.tab, r.item)' /\ ~Past(r.tab, r.item)
        /\ turn = "work_items" => got = {}
        /\ turn # "work_items" => Ids(got', "work_items") = Ids(got, "work_items")
    BY ReadMoves
  <1>4. Read'
    BY <1>1, <1>3 DEF Read
  <1>5. AreRows(rows') /\ Keyed(rows') /\ \A r \in rows' \cup got' : ValidRow(r)
    BY <1>1, ListedIs DEF TypeOK
  <1>6. ASSUME NEW r \in got', NEW s \in got', r.tab = s.tab, r.id = s.id, r.item = s.item
        PROVE  r = s
    <2>1. \A x \in got : Past(x.tab, x.item)
      BY DEF Read
    <2>2. r \in Listed <=> s \in Listed
      BY <1>1, <1>3, <1>6, <2>1
    <2>3. CASE r \in Listed /\ s \in Listed
      BY <1>6, <2>3, ListedIs DEF TypeOK, Keyed
    <2> QED
      BY <1>1, <1>6, <2>2, <2>3 DEF TypeOK
  <1>7. turn' \in {"none", "work_items", "assignments", "memory_candidates"} \cup ItemLists
    BY <1>2 DEF Goes, ItemLists
  <1>8. items' \subseteq Ids(got', "work_items") /\ (items' # {} => turn' # "none")
    <2>1. CASE turn = "work_items"
      <3>1. OfTable(got', "work_items") = Listed
        BY <1>1, <1>3, <2>1, ListedIs DEF OfTable
      <3>2. Ids(got', "work_items") = {r.id : r \in Listed}
        BY <3>1 DEF Ids
      <3>3. items = {}
        BY <1>3, <2>1 DEF TypeOK, Ids, OfTable
      <3> QED
        BY <1>2, <2>1, <3>2, <3>3 DEF Goes
    <2>2. CASE turn # "work_items"
      BY <1>2, <1>3, <2>2 DEF Goes, TypeOK
    <2> QED
      BY <2>1, <2>2
  <1> QED
    BY <1>1, <1>1a, <1>4, <1>5, <1>6, <1>7, <1>8 DEF TypeOK, Reading

LEMMA ReadListStep == IInv /\ ReadList => IInv'
  <1> SUFFICES ASSUME IInv, ReadList PROVE IInv'
    OBVIOUS
  <1>1. TypeOK' /\ Read'
    BY ReadListTypes DEF IInv
  <1>2. Placed'
    BY ReadMoves DEF IInv
  <1>3. Agreeing' /\ ReadyWas'
    BY ReadListAgrees DEF IInv
  <1>4. Editing'
    <2>1. editor' = editor /\ rows' = rows
      BY DEF ReadList
    <2> QED
      BY <2>1 DEF IInv, Editing, Edits, CopyIs
  <1>5. Admission'
    BY DEF ReadList, Admission
  <1> QED
    BY <1>1, <1>2, <1>3, <1>4, <1>5 DEF IInv

\* A list that found its work item has read nothing yet.
LEMMA AdmitListStep == IInv /\ AdmitList => IInv'
  <1> SUFFICES ASSUME IInv, AdmitList PROVE IInv'
    OBVIOUS
  <1>1. /\ rows' = rows /\ view' = view /\ turn' = turn /\ current' = current /\ items' = items
        /\ got' = got /\ clear' = clear /\ stirred' = stirred /\ changes' = changes
        /\ editor' = editor /\ admitted' = TRUE /\ turn \in ItemLists /\ ~Refused
    BY DEF AdmitList
  <1>2. admitted' \in BOOLEAN /\ turn' \in ItemLists
    BY <1>1
  <1>3. TypeOK' /\ Editing'
    BY <1>1, <1>2 DEF IInv, TypeOK, Reading, Editing, Edits, CopyIs
  <1>4. Read' /\ Placed' /\ Agreeing' /\ ReadyWas'
    BY <1>1 DEF IInv, Read, Placed, Agreeing, Agrees, ReadyWas, Past, Reading
  <1>5. current \in Ids(rows, "work_items")
    BY <1>1 DEF IInv, Placed, Refused
  <1>6. Admission'
    BY <1>1, <1>5 DEF Admission, Ids, OfTable
  <1> QED
    BY <1>3, <1>4, <1>6 DEF IInv

\* A read that begins has read nothing.
LEMMA NothingRead ==
    ASSUME got' = {}
    PROVE  /\ Read' /\ ReadyWas' /\ Ids(got, "work_items")' = {}
  BY DEF Read, ReadyWas, Ids, OfTable

LEMMA StartReadingStep ==
    ASSUME IInv, NEW kind, NEW w, StartReading(kind, w),
           \/ kind = "closeout" /\ w \in Ids(rows, "work_items")
           \/ kind = "brief" /\ w = None
    PROVE  IInv'
  <1>1. /\ view' = kind /\ turn' = "work_items" /\ current' = w /\ items' = {} /\ got' = {}
        /\ clear' = ClearNow(rows) /\ rows' = rows /\ editor' = editor /\ changes' = changes
    BY DEF StartReading
  <1>1a. admitted' \in BOOLEAN /\ ~admitted'
    BY DEF StartReading
  <1>2. Read' /\ ReadyWas' /\ Ids(got, "work_items")' = {}
    BY <1>1, NothingRead
  <1>3. kind = "closeout" => w # None
    BY DEF IInv, TypeOK, Ids, OfTable, ValidRow
  <1>4. TypeOK'
    BY <1>1, <1>1a, <1>2 DEF IInv, TypeOK, Reading
  <1>5. Placed'
    BY <1>1, <1>2, <1>3 DEF Placed, Reading, ProjectLists, ItemLists
  <1>6. Agreeing'
    <2>1. ClearNow(rows)' = ClearNow(rows)
      BY <1>1
    <2> QED
      BY <1>1, <1>2, <2>1 DEF Agreeing
  <1>7. Editing'
    BY <1>1 DEF IInv, Editing, Edits, CopyIs
  <1> QED
    BY <1>1a, <1>2, <1>4, <1>5, <1>6, <1>7 DEF IInv, Admission

LEMMA FailReadingStep == IInv /\ FailReading => IInv'
  <1> SUFFICES ASSUME IInv, FailReading PROVE IInv'
    OBVIOUS
  <1>1. /\ view' = "failed" /\ turn' = "none" /\ items' = {} /\ got' = {}
        /\ rows' = rows /\ editor' = editor /\ changes' = changes
    BY DEF FailReading
  <1>1a. admitted' \in BOOLEAN /\ ~admitted'
    <2>1. UNCHANGED admitted /\ ~admitted
      BY DEF FailReading
    <2>2. admitted \in BOOLEAN
      BY DEF IInv, TypeOK
    <2> QED
      BY <2>1, <2>2
  <1>2. Read' /\ ReadyWas' /\ Ids(got, "work_items")' = {}
    BY <1>1, NothingRead
  <1>3. TypeOK'
    BY <1>1, <1>1a, <1>2 DEF IInv, TypeOK, Reading
  <1>4. Placed' /\ Agreeing'
    BY <1>1 DEF Placed, Agreeing, Reading, ItemLists
  <1>5. Editing'
    BY <1>1 DEF IInv, Editing, Edits, CopyIs
  <1> QED
    BY <1>1a, <1>2, <1>3, <1>4, <1>5 DEF IInv, Admission

-----------------------------------------------------------------------------
(* Writing while others read.                                              *)

LEMMA RowsMove ==
    ASSUME IInv, Sound(rows'), Lost(rows, rows'), Watch(rows'), UNCHANGED reader
    PROVE  Read' /\ Placed' /\ Agreeing' /\ Admission' /\ ReadyWas'
  <1>1. view' = view /\ turn' = turn /\ current' = current /\ items' = items /\ got' = got
        /\ admitted' = admitted
    BY DEF reader, place
  <1>2. /\ clear \subseteq clear' /\ stirred \subseteq stirred'
        /\ Reading => ClearNow(rows') \subseteq clear' /\ Stirred(rows, rows') \subseteq stirred'
    BY DEF Watch
  <1>3. Read' /\ Placed'
    BY <1>1 DEF IInv, Read, Placed, Past, Reading
  <1>4. ReadyWas'
    BY <1>1, <1>2 DEF IInv, ReadyWas, Past
  <1>5. ASSUME Reading, NEW w \in Ids(got, "work_items") \ stirred' PROVE Agrees(w)'
    <2>1. w \notin stirred /\ w \notin Stirred(rows, rows')
      BY <1>2, <1>5
    <2>2. Agrees(w)
      BY <1>5, <2>1 DEF IInv, Agreeing
    <2>3. Sound(rows)
      BY DEF IInv, TypeOK, Sound
    <2>4. /\ AssignedAre(w, got, rows) => AssignedAre(w, got, rows')
          /\ EvidenceIs(w, got, rows) => EvidenceIs(w, got, rows')
          /\ ReviewsAre(w, got, rows) => ReviewsAre(w, got, rows')
      BY <2>1, <2>3, AgreesStill
    <2> QED
      BY <1>1, <2>2, <2>4 DEF Agrees, Past
  <1>6. Agreeing'
    BY <1>1, <1>2, <1>5 DEF Agreeing, Reading
  <1>7. Admission'
    <2>1. admitted => turn \in ItemLists
      BY DEF IInv, TypeOK
    <2>2. admitted => Reading
      BY <2>1 DEF Reading, ItemLists
    <2>3. Ids(rows, "work_items") \subseteq Ids(rows', "work_items") \cup Stirred(rows, rows')
      BY DEF Stirred
    <2>4. admitted => current \in Ids(rows', "work_items") \cup stirred'
      BY <1>2, <2>2, <2>3 DEF IInv, Admission
    <2> QED
      BY <1>1, <2>4 DEF Admission, Ids, OfTable
  <1> QED
    BY <1>3, <1>4, <1>6, <1>7

LEMMA RowsMoveTypes ==
    ASSUME TypeOK, Sound(rows'), UNCHANGED reader, changes < MaxChanges, changes' = changes + 1,
           \A e \in Editors : editor'[e].at \in {"idle", "read", "checked", "written", "refused"}
    PROVE  TypeOK'
  <1>1. view' = view /\ turn' = turn /\ items' = items /\ got' = got
        /\ admitted' = admitted
    BY DEF reader, place
  <1>2. changes' \in 0..MaxChanges
    BY ViewAssumption DEF TypeOK
  <1> QED
    BY <1>1, <1>2 DEF TypeOK, Sound, Reading

\* A write that changes the item overtakes whoever is at it.
LEMMA OvertakenEdits ==
    ASSUME NEW x \in Editors, Edits(editor[x], x, rows), NEW new
    PROVE  Edits(Overtaken(x, new), x, new) /\ Overtaken(x, new).at = editor[x].at
  <1> DEFINE was == editor[x]
             now == Overtaken(x, new)
             by == was.at \in {"read", "checked"} /\ Rows(new, PatchedItem) # Rows(rows, PatchedItem)
  <1>1. was = [at |-> was.at, copy |-> was.copy, overlapped |-> was.overlapped]
    BY DEF Edits
  <1>2. now = [was EXCEPT !.overlapped = @ \/ by]
    BY DEF Overtaken
  <1> HIDE DEF was, now, by
  <1>3. now = [at |-> was.at, copy |-> was.copy, overlapped |-> was.overlapped \/ by]
    BY <1>1, <1>2
  <1>4. now.at = was.at /\ now.copy = was.copy /\ (now.overlapped <=> was.overlapped \/ by)
    BY <1>3
  <1>5. now = [at |-> now.at, copy |-> now.copy, overlapped |-> now.overlapped]
    BY <1>3
  <1>6. ASSUME was.at \in {"read", "checked"}, ~now.overlapped PROVE CopyIs(x, now.copy, new)
    <2>1. ~was.overlapped /\ ~by
      BY <1>4, <1>6
    <2>2. CopyIs(x, was.copy, rows)
      BY <1>6, <2>1 DEF Edits, was
    <2>3. Rows(new, PatchedItem) = Rows(rows, PatchedItem)
      BY <1>6, <2>1 DEF by
    <2> QED
      BY <1>4, <2>2, <2>3 DEF CopyIs
  <1> QED
    BY <1>4, <1>5, <1>6 DEF Edits, was, now

LEMMA ChangeStep == IInv /\ Change => IInv'
  <1> SUFFICES ASSUME IInv, Change PROVE IInv'
    OBVIOUS
  <1>1. PICK q \in Changes : /\ Refusals(q, rows) = {}
                             /\ rows' = RunAll(Operation(q, rows).do, rows)
    BY DEF Change
  <1>2. /\ changes < MaxChanges /\ changes' = changes + 1 /\ Watch(rows') /\ UNCHANGED reader
        /\ editor' = [x \in Editors |-> Overtaken(x, rows')]
    BY DEF Change
  <1>3. Sound(rows) /\ ValidRequest(q) /\ rows' = Result(q, rows)
    BY <1>1, ViewAssumption DEF IInv, TypeOK, Sound, Result
  <1>4. Sound(rows') /\ Lost(rows, rows')
    BY <1>1, <1>3, ChangeMakes
  <1>5. Read' /\ Placed' /\ Agreeing' /\ Admission' /\ ReadyWas'
    BY <1>2, <1>4, RowsMove
  <1>6. \A x \in Editors : /\ Edits(editor'[x], x, rows')
                           /\ editor'[x].at = editor[x].at
    <2>1. \A x \in Editors : Edits(editor[x], x, rows)
      BY DEF IInv, Editing
    <2>2. \A x \in Editors : editor'[x] = Overtaken(x, rows')
      BY <1>2
    <2> QED
      BY <2>1, <2>2, OvertakenEdits
  <1>7. Editing'
    BY <1>2, <1>6 DEF Editing
  <1>8. TypeOK'
    BY <1>2, <1>4, <1>6, RowsMoveTypes DEF IInv, TypeOK
  <1> QED
    BY <1>5, <1>7, <1>8 DEF IInv

\* The row that a checked copy is written over.
LEMMA TargetIs ==
    ASSUME TypeOK, Has(rows, "work_items", PatchedItem)
    PROVE  /\ Target \in rows /\ IsRow(Target) /\ ValidRow(Target)
           /\ Target.tab = "work_items" /\ Target.id = PatchedItem
           /\ Rows(rows, PatchedItem) = {Target}
  <1>1. /\ Target \in rows /\ IsRow(Target) /\ Target.tab = "work_items" /\ Target.id = PatchedItem
    BY Gets DEF TypeOK, Target
  <1>2. ASSUME NEW r \in Rows(rows, PatchedItem) PROVE r = Target
    BY <1>1 DEF Rows, OfTable, TypeOK, Keyed
  <1>3. Target \in Rows(rows, PatchedItem)
    BY <1>1 DEF Rows, OfTable
  <1> QED
    BY <1>1, <1>2, <1>3 DEF TypeOK

LEMMA WritePatchStep ==
    ASSUME IInv, NEW e \in Editors, WritePatch(e)
    PROVE  IInv'
  <1> DEFINE copy == editor[e].copy
  <1>1. /\ editor[e].at = "checked" /\ Has(rows, "work_items", PatchedItem)
        /\ changes < MaxChanges /\ changes' = changes + 1
        /\ rows' = (rows \ {Target}) \cup {copy}
        /\ editor' = [x \in Editors |-> IF x = e THEN [editor[e] EXCEPT !.at = "written"]
                                        ELSE Overtaken(x, rows')]
        /\ Watch(rows') /\ UNCHANGED reader
    BY DEF WritePatch
  <1>2. /\ Target \in rows /\ ValidRow(Target)
        /\ Target.tab = "work_items" /\ Target.id = PatchedItem
    BY <1>1, TargetIs DEF IInv
  <1>3. IsRow(copy) /\ copy.tab = "work_items" /\ copy.id = PatchedItem /\ copy.status # None
    BY <1>1 DEF IInv, Editing, Edits
  <1> HIDE DEF copy
  <1>4. ValidRow(copy)
    BY <1>2, <1>3 DEF ValidRow
  <1>5. Sound(rows')
    BY <1>1, <1>2, <1>3, <1>4 DEF IInv, TypeOK, Sound, AreRows, Keyed
  <1>6. Lost(rows, rows')
    BY <1>1, <1>2 DEF Lost
  <1>7. Read' /\ Placed' /\ Agreeing' /\ Admission' /\ ReadyWas'
    BY <1>1, <1>5, <1>6, RowsMove
  <1>8. ASSUME NEW x \in Editors
        PROVE  /\ Edits(editor'[x], x, rows')
               /\ editor'[x].at \in {"idle", "read", "checked", "written", "refused"}
    <2>1. Edits(editor[x], x, rows)
      BY DEF IInv, Editing
    <2>2. CASE x = e
      <3>1. editor'[x] = [editor[e] EXCEPT !.at = "written"]
        BY <1>1, <2>2
      <3>2. editor[e] = [at |-> editor[e].at, copy |-> copy, overlapped |-> editor[e].overlapped]
        BY <2>1, <2>2 DEF Edits, copy
      <3>3. editor'[x] = [at |-> "written", copy |-> copy, overlapped |-> editor[e].overlapped]
        BY <3>1, <3>2
      <3> QED
        BY <3>3 DEF Edits
    <2>3. CASE x # e
      <3>1. editor'[x] = Overtaken(x, rows')
        BY <1>1, <2>3
      <3>2. Edits(Overtaken(x, rows'), x, rows')
        BY <2>1, OvertakenEdits
      <3> QED
        BY <3>1, <3>2 DEF Edits
    <2> QED
      BY <2>2, <2>3
  <1>9. Editing'
    <2>1. editor' = [x \in Editors |-> editor'[x]]
      BY <1>1
    <2> QED
      BY <1>8, <2>1 DEF Editing
  <1>10. TypeOK'
    BY <1>1, <1>5, <1>8, RowsMoveTypes DEF IInv
  <1> QED
    BY <1>7, <1>9, <1>10 DEF IInv

\* A step of an editor that writes nothing.
LEMMA EditorMoves ==
    ASSUME IInv, UNCHANGED <<rows, reader, clear, stirred, changes>>, NEW e \in Editors, NEW now,
           editor' = [editor EXCEPT ![e] = now], Edits(now, e, rows)
    PROVE  IInv'
  <1>1. /\ rows' = rows /\ view' = view /\ turn' = turn /\ current' = current /\ items' = items
        /\ got' = got /\ clear' = clear /\ stirred' = stirred /\ changes' = changes
        /\ admitted' = admitted
    BY DEF reader, place
  <1>2. \A x \in Editors : editor'[x] = IF x = e THEN now ELSE editor[x]
    BY DEF IInv, Editing
  <1>3. \A x \in Editors : Edits(editor'[x], x, rows)
    BY <1>2 DEF IInv, Editing
  <1>4. Editing'
    <2>1. editor' = [x \in Editors |-> editor'[x]]
      BY DEF IInv, Editing
    <2> QED
      BY <1>1, <1>3, <2>1 DEF Editing
  <1>5. TypeOK'
    <2>1. \A x \in Editors : editor'[x].at \in {"idle", "read", "checked", "written", "refused"}
      BY <1>3 DEF Edits
    <2> QED
      BY <1>1, <2>1 DEF IInv, TypeOK, Reading
  <1>6. Read' /\ Placed' /\ Agreeing' /\ Admission' /\ ReadyWas'
    BY <1>1 DEF IInv, Read, Placed, Agreeing, Agrees, Admission, ReadyWas, Past, Reading, Ids,
                OfTable
  <1> QED
    BY <1>4, <1>5, <1>6 DEF IInv

LEMMA ReadForPatchStep ==
    ASSUME IInv, NEW e \in Editors, ReadForPatch(e)
    PROVE  IInv'
  <1> DEFINE copy == Patched(Target, PatchOf[e])
             now == [at |-> "read", copy |-> copy, overlapped |-> FALSE]
  <1>1. /\ Has(rows, "work_items", PatchedItem)
        /\ editor' = [editor EXCEPT ![e] = now]
        /\ UNCHANGED <<rows, reader, clear, stirred, changes>>
    BY DEF ReadForPatch, Advance
  <1>2. /\ IsRow(Target) /\ Target.tab = "work_items" /\ Target.id = PatchedItem
        /\ Rows(rows, PatchedItem) = {Target}
    BY <1>1, TargetIs DEF IInv
  <1>3. DOMAIN Blank = Columns
    BY DEF Blank, Columns
  <1>4. "tab" \notin DOMAIN PatchOf[e] /\ "id" \notin DOMAIN PatchOf[e]
    BY ViewAssumption
  <1>5. copy = [c \in Columns |-> IF c \in DOMAIN PatchOf[e] THEN PatchOf[e][c] ELSE Target[c]]
    BY <1>3 DEF Patched
  <1> HIDE DEF copy
  <1>6. IsRow(copy) /\ copy.tab = "work_items" /\ copy.id = PatchedItem
    BY <1>2, <1>4, <1>5, RowFields DEF Columns
  <1>7. CopyIs(e, copy, rows)
    BY <1>2, <1>3, <1>5 DEF CopyIs, Unpatched
  <1>8. Edits(now, e, rows)
    BY <1>6, <1>7 DEF Edits
  <1> HIDE DEF now
  <1> QED
    BY <1>1, <1>8, EditorMoves

LEMMA CheckPatchStep ==
    ASSUME IInv, NEW e \in Editors, CheckPatch(e)
    PROVE  IInv'
  <1> DEFINE was == editor[e]
             status == IF was.copy.status = None THEN "ready" ELSE was.copy.status
             copy == [was.copy EXCEPT !.status = status]
             now == [was EXCEPT !.at = "checked", !.copy = copy]
  <1>1. /\ was.at = "read" /\ Has(rows, "work_items", PatchedItem)
        /\ UNCHANGED <<rows, reader, clear, stirred, changes>>
    BY DEF CheckPatch, Valid
  <1>2. /\ was = [at |-> was.at, copy |-> was.copy, overlapped |-> was.overlapped]
        /\ IsRow(was.copy) /\ was.copy.tab = "work_items" /\ was.copy.id = PatchedItem
        /\ was.overlapped \/ CopyIs(e, was.copy, rows)
    BY <1>1 DEF IInv, Editing, Edits
  <1>3. editor' = [editor EXCEPT ![e] = now]
    BY DEF CheckPatch
  <1>4. now = [at |-> "checked", copy |-> copy, overlapped |-> was.overlapped]
    <2> DEFINE half == [was EXCEPT !.at = "checked"]
    <2>1. was = [at |-> was.at, copy |-> was.copy, overlapped |-> was.overlapped]
      BY <1>2
    <2> HIDE DEF was, copy
    <2>2. half = [at |-> "checked", copy |-> was.copy, overlapped |-> was.overlapped]
      BY <2>1
    <2>3. now = [half EXCEPT !.copy = copy]
      OBVIOUS
    <2> HIDE DEF half, now
    <2>4. [half EXCEPT !.copy = copy]
             = [at |-> "checked", copy |-> copy, overlapped |-> was.overlapped]
      BY <2>2
    <2> QED
      BY <2>3, <2>4
  <1>5. /\ IsRow(copy) /\ copy.tab = "work_items" /\ copy.id = PatchedItem
        /\ copy.status = status /\ \A c \in Columns \ {"status"} : copy[c] = was.copy[c]
    <2> HIDE DEF was, status
    <2> QED
      BY <1>2, RowFields DEF Columns
  <1>6. ASSUME CopyIs(e, was.copy, rows) PROVE CopyIs(e, copy, rows)
    <2>1. /\ Rows(rows, PatchedItem) = {Target} /\ Target.status # None
      BY <1>1, TargetIs DEF IInv, ValidRow
    <2>2. DOMAIN Blank = Columns
      BY DEF Blank, Columns
    <2>3. ASSUME NEW c \in Unpatched(e) PROVE copy[c] = Target[c]
      <3>1. was.copy[c] = Target[c] /\ c \in Columns
        BY <1>6, <2>1, <2>2, <2>3 DEF CopyIs, Unpatched
      <3> QED
        BY <1>5, <2>1, <3>1
    <2> QED
      BY <2>1, <2>3 DEF CopyIs
  <1> HIDE DEF was, copy, now
  <1>7. Edits(now, e, rows)
    <2>1. copy.status # None
      <3>1. None # "ready"
        BY ViewAssumption
      <3> QED
        BY <1>5, <3>1
    <2> QED
      BY <1>2, <1>4, <1>5, <1>6, <2>1 DEF Edits
  <1> QED
    BY <1>1, <1>3, <1>7, EditorMoves

LEMMA RefusePatchStep ==
    ASSUME IInv, NEW e \in Editors, RefusePatch(e)
    PROVE  IInv'
  <1> DEFINE now == [at |-> "refused", copy |-> NoCopy, overlapped |-> FALSE]
  <1>1. editor' = [editor EXCEPT ![e] = now] /\ UNCHANGED <<rows, reader, clear, stirred, changes>>
    BY DEF RefusePatch, Advance
  <1>2. Edits(now, e, rows)
    BY DEF Edits
  <1> HIDE DEF now
  <1> QED
    BY <1>1, <1>2, EditorMoves


-----------------------------------------------------------------------------
(* The theorems.                                                           *)

LEMMA Begins == Init => IInv
  <1> SUFFICES ASSUME Init PROVE IInv
    OBVIOUS
  <1>1. /\ AreRows(rows) /\ Keyed(rows) /\ \A r \in rows : ValidRow(r)
        /\ view = "none" /\ turn = "none" /\ items = {} /\ got = {} /\ changes = 0
        /\ editor = [e \in Editors |-> [at |-> "idle", copy |-> NoCopy, overlapped |-> FALSE]]
    BY ViewAssumption DEF Init
  <1>1a. admitted \in BOOLEAN /\ ~admitted
    BY DEF Init
  <1>2. \A e \in Editors : Edits(editor[e], e, rows)
    BY <1>1 DEF Edits
  <1>3. TypeOK
    <2>1. changes \in 0..MaxChanges
      BY <1>1, ViewAssumption
    <2>2. \A e \in Editors : editor[e].at \in {"idle", "read", "checked", "written", "refused"}
      BY <1>2 DEF Edits
    <2> QED
      BY <1>1, <1>1a, <2>1, <2>2 DEF TypeOK, Reading
  <1>4. Read /\ Placed /\ Agreeing /\ ReadyWas
    BY <1>1 DEF Read, Placed, Agreeing, ReadyWas, OfTable, Ids, Reading, ItemLists
  <1>5. Editing
    <2>1. editor = [e \in Editors |-> editor[e]]
      BY <1>1
    <2> QED
      BY <1>2, <2>1 DEF Editing
  <1> QED
    BY <1>1a, <1>3, <1>4, <1>5 DEF IInv, Admission

LEMMA StutterStep == IInv /\ UNCHANGED vars => IInv'
  <1> SUFFICES ASSUME IInv, UNCHANGED vars PROVE IInv'
    OBVIOUS
  <1>1. /\ rows' = rows /\ view' = view /\ turn' = turn /\ current' = current /\ items' = items
        /\ got' = got /\ clear' = clear /\ stirred' = stirred /\ changes' = changes
        /\ editor' = editor /\ admitted' = admitted
    BY DEF vars, reader, place
  <1>2. TypeOK' /\ Editing'
    BY <1>1 DEF IInv, TypeOK, Reading, Editing, Edits, CopyIs
  <1>3. Read' /\ Placed' /\ Agreeing' /\ Admission' /\ ReadyWas'
    BY <1>1 DEF IInv, Read, Placed, Agreeing, Agrees, Admission, ReadyWas, Past, Reading, Ids,
                OfTable
  <1> QED
    BY <1>2, <1>3 DEF IInv

LEMMA NextStep == IInv /\ Next => IInv'
  <1> SUFFICES ASSUME IInv, Next PROVE IInv'
    OBVIOUS
  <1>1. CASE WorkItemCloseoutReadiness
    <2>1. PICK w \in Ids(rows, "work_items") : StartReading("closeout", w)
      BY <1>1 DEF WorkItemCloseoutReadiness
    <2> QED
      BY <2>1, StartReadingStep
  <1>2. CASE OperationsBrief
    <2>1. StartReading("brief", None)
      BY <1>2 DEF OperationsBrief
    <2> QED
      BY <2>1, StartReadingStep
  <1>3. CASE ReadList
    BY <1>3, ReadListStep
  <1>4. CASE FailReading
    BY <1>4, FailReadingStep
  <1>7. CASE AdmitList
    BY <1>7, AdmitListStep
  <1>5. CASE Change
    BY <1>5, ChangeStep
  <1>6. ASSUME NEW e \in Editors,
               ReadForPatch(e) \/ CheckPatch(e) \/ WritePatch(e) \/ RefusePatch(e)
        PROVE  IInv'
    BY <1>6, ReadForPatchStep, CheckPatchStep, WritePatchStep, RefusePatchStep
  <1> QED
    BY <1>1, <1>2, <1>3, <1>4, <1>5, <1>6, <1>7 DEF Next

\* The read and the patches keep the invariant of the proofs, whatever the
\* rows, the writes and the patches are: what was read of an item that no
\* assignment or review came to or left is what the tables hold, as far as
\* readiness asks, and a copy nobody overtook is its row, but for the patch.
THEOREM Inductive == Spec => []IInv
  <1>1. IInv /\ [Next]_vars => IInv'
    BY NextStep, StutterStep
  <1> QED
    BY Begins, <1>1, PTL DEF Spec

\* Every record has an id of its own in its table under every operation of
\* the store, and a read holds one version of each record of an item, though
\* its lists are read at different times.
THEOREM TypesHold == Spec => []TypeOK
  <1>1. IInv => TypeOK
    BY DEF IInv
  <1> QED
    BY Inductive, <1>1, PTL

LEMMA ReadyHolds == IInv => ReadyHeld
  <1> SUFFICES ASSUME IInv, Answered({"closeout", "brief"}), NEW w \in OfTable(got, "work_items"),
                      Readiness(w, got).status = "ready"
               PROVE  w.id \in clear \cup stirred
    BY DEF ReadyHeld
  <1>1. turn = "none" /\ items = {}
    BY DEF IInv, TypeOK, Answered, Reading
  <1>2. Past("handoffs", w.id)
    BY <1>1 DEF Past, ItemLists, ProjectLists
  <1> QED
    BY <1>2 DEF IInv, ReadyWas

\* The answers of closeout readiness and of the operations brief: a ready
\* item was clear at a moment of the read, unless an assignment or review
\* came to it or left it or it was deleted, and a brief hides no open item, no
\* assignment that activity calls blocked, and, where ids hold no colon, no
\* item behind another one's id.
THEOREM AnswersSound == Spec => []AnswersHold
  <1>1. IInv => AnswersHold
    BY ReadyHolds, NothingHiddenIs DEF IInv, AnswersHold
  <1> QED
    BY Inductive, <1>1, PTL

LEMMA PatchStepKeeps ==
    ASSUME IInv, NEW e \in Editors, WritePatch(e), ~editor[e].overlapped,
           NEW r \in Rows(rows, PatchedItem), NEW x \in Rows(rows', PatchedItem),
           NEW c \in Unpatched(e)
    PROVE  x[c] = r[c]
  <1>1. /\ editor[e].at = "checked" /\ Has(rows, "work_items", PatchedItem)
        /\ rows' = (rows \ {Target}) \cup {editor[e].copy}
    BY DEF WritePatch
  <1>2. Rows(rows, PatchedItem) = {Target}
    BY <1>1, TargetIs DEF IInv
  <1>3. x = editor[e].copy
    BY <1>1, <1>2 DEF Rows, OfTable
  <1>4. CopyIs(e, editor[e].copy, rows)
    BY <1>1 DEF IInv, Editing, Edits
  <1> QED
    BY <1>3, <1>4 DEF CopyIs

LEMMA OnlyItsWriteWrites ==
    ASSUME IInv, Next, NEW e \in Editors, editor[e].at = "checked", editor'[e].at = "written"
    PROVE  WritePatch(e)
  <1>1. \A x \in Editors : \A now : editor' = [editor EXCEPT ![x] = now] =>
            editor'[e] = IF e = x THEN now ELSE editor[e]
    BY DEF IInv, Editing
  <1>2. \A x \in Editors : Overtaken(x, rows').at = editor[x].at
    BY OvertakenEdits DEF IInv, Editing
  <1>3. ~(UNCHANGED editor)
    OBVIOUS
  <1>4. ~WorkItemCloseoutReadiness /\ ~OperationsBrief /\ ~AdmitList /\ ~ReadList /\ ~FailReading
    BY <1>3 DEF WorkItemCloseoutReadiness, OperationsBrief, StartReading, AdmitList, ReadList,
                FailReading
  <1>5. ~Change
    BY <1>2 DEF Change
  <1>6. ASSUME NEW x \in Editors PROVE ~ReadForPatch(x) /\ ~RefusePatch(x)
    BY <1>1 DEF ReadForPatch, RefusePatch, Advance
  <1>7. ASSUME NEW x \in Editors PROVE ~CheckPatch(x)
    <2> SUFFICES ASSUME CheckPatch(x) PROVE FALSE
      OBVIOUS
    <2>1. \A y \in Editors \ {x} : editor'[y] = editor[y]
      BY DEF CheckPatch, IInv, Editing
    <2>2. editor[x].at = "read"
      BY DEF CheckPatch
    <2> QED
      BY <2>1, <2>2
  <1>8. ASSUME NEW x \in Editors, WritePatch(x), x # e PROVE FALSE
    <2>1. editor'[e] = Overtaken(e, rows')
      BY <1>8 DEF WritePatch
    <2> QED
      BY <1>2, <2>1
  <1> QED
    BY <1>4, <1>5, <1>6, <1>7, <1>8 DEF Next

\* work_items.update: whatever the patch, the item and the other writers, a
\* field the patch does not name is in the written record as it was in the
\* record it replaces, unless another write of the item came between the
\* tool's read and its write.
THEOREM PatchesKeep == Spec => PatchKeepsTheRest
  <1> DEFINE Kept == \A e \in Editors :
                        editor[e].at = "checked" /\ editor'[e].at = "written" /\ ~editor[e].overlapped =>
                            \A r \in Rows(rows, PatchedItem), x \in Rows(rows', PatchedItem),
                               c \in DOMAIN Blank \ DOMAIN PatchOf[e] : x[c] = r[c]
  <1>1. IInv /\ [Next]_vars => [Kept]_vars
    <2> SUFFICES ASSUME IInv, Next PROVE Kept
      OBVIOUS
    <2> QED
      BY OnlyItsWriteWrites, PatchStepKeeps DEF Unpatched
  <1> QED
    BY Inductive, <1>1, PTL DEF Spec, PatchKeepsTheRest
=============================================================================
