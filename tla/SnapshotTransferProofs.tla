------------------------ MODULE SnapshotTransferProofs ------------------------
(***************************************************************************)
(* Proofs for SnapshotTransfer: what a snapshot holds of a store that went *)
(* on changing, that an import of it leaves nothing dangling and loses     *)
(* nothing, and why an import is refused.                                  *)
(***************************************************************************)
EXTENDS SnapshotTransfer, StoreStatementsProofs

-----------------------------------------------------------------------------
(* What a record refers to.                                                *)

Refers(r, img) ==
    /\ r.tab \in ItemTables => Resolves("work_items", r.item, None, img)
    /\ r.tab \in {"artifacts", "evidence", "reviews"} =>
           Resolves("assignments", r.link, r.item, img)
    /\ r.tab \in {"assignments", "artifacts", "reviews", "handoffs"} =>
           Resolves("roles", r.role, None, img)
    /\ r.tab = "handoffs" => /\ Resolves("assignments", r.src, r.item, img)
                             /\ Resolves("assignments", r.link, r.tgt, img)
                             /\ Resolves("work_items", r.tgt, None, img)

LEMMA OneLook ==
    ASSUME NEW img, NEW t, NEW i, NEW item
    PROVE  IsList(Look(t, i, item)) /\ (AllFound(Look(t, i, item), img) <=> Resolves(t, i, item, img))
  <1>1. AllFound(Look(t, i, item), img) <=> Resolves(t, i, item, img)
    BY DEF AllFound, Resolves, Look
  <1> QED
    BY <1>1, LookIsList

LEMMA NoLook == ASSUME NEW img PROVE IsList(<<>>) /\ AllFound(<<>>, img)
  BY NoneIsList DEF AllFound

\* What a creation looks up, and the row it inserts.
Creates(q, t) ==
    \E looks : /\ IsList(looks)
               /\ \A img : /\ Operation(q, img) = Autocommit(looks, Insert(Row(q, t)))
                           /\ AllFound(looks, img) <=> Refers(Row(q, t), img)

LEMMA CreationIs ==
    ASSUME NEW t \in Importable, NEW q, q.op = CreateOp[t]
    PROVE  Creates(q, t)
  <1> DEFINE row == Row(q, t)
  <1>1. /\ row.tab = t /\ row.item = q.item /\ row.link = q.link /\ row.role = q.role
        /\ row.src = q.src /\ row.tgt = q.tgt
    BY RowIsRow DEF Columns
  <1>2. CASE t \in {"projects", "project_skills", "roles", "work_items", "memory_entries",
                    "memory_candidates", "assistant_proposals"}
    <2>1. \A img : Operation(q, img) = Autocommit(<<>>, Insert(row))
      <3>1. CASE t = "projects"
        BY <3>1 DEF CreateOp, Operation, CreateProject
      <3>2. CASE t = "project_skills"
        BY <3>2 DEF CreateOp, Operation, CreateProjectSkill
      <3>3. CASE t = "roles"
        BY <3>3 DEF CreateOp, Operation, CreateRole
      <3>4. CASE t = "work_items"
        BY <3>4 DEF CreateOp, Operation, CreateWorkItem
      <3>5. CASE t = "memory_entries"
        BY <3>5 DEF CreateOp, Operation, CreateMemoryEntry
      <3>6. CASE t = "memory_candidates"
        BY <3>6 DEF CreateOp, Operation, CreateMemoryCandidate
      <3>7. CASE t = "assistant_proposals"
        BY <3>7 DEF CreateOp, Operation, CreateAssistantProposal
      <3> QED
        BY <1>2, <3>1, <3>2, <3>3, <3>4, <3>5, <3>6, <3>7
    <2> HIDE DEF row
    <2>2. \A img : Refers(row, img)
      BY <1>1, <1>2 DEF Refers, ItemTables
    <2> QED
      BY <2>1, <2>2, NoLook DEF Creates, row
  <1>3. CASE t = "assignments"
    <2> DEFINE looks == Item(q.item) \o Role(q.role)
    <2>1. \A img : Operation(q, img) = Autocommit(looks, Insert(row))
      BY <1>3 DEF CreateOp, Operation, CreateAssignment
    <2> HIDE DEF row
    <2>2. ASSUME NEW img
          PROVE  IsList(looks) /\ (AllFound(looks, img) <=> Refers(row, img))
      <3>1. /\ IsList(Item(q.item))
            /\ AllFound(Item(q.item), img) <=> Resolves("work_items", q.item, None, img)
        BY OneLook DEF Item
      <3>2. /\ IsList(looks)
            /\ AllFound(looks, img) <=> AllFound(Item(q.item), img)
                                        /\ Resolves("roles", q.role, None, img)
        BY <3>1, AllFoundLooks DEF Role
      <3> QED
        BY <1>1, <1>3, <3>1, <3>2 DEF Refers, ItemTables
    <2> HIDE DEF looks
    <2> QED
      BY <2>1, <2>2 DEF Creates, row
  <1>4. CASE t \in {"artifacts", "reviews"}
    <2> DEFINE looks == Item(q.item) \o Look("assignments", q.link, q.item) \o Role(q.role)
    <2>1. \A img : Operation(q, img) = Autocommit(looks, Insert(row))
      BY <1>4 DEF CreateOp, Operation, CreateArtifact, CreateReview
    <2> HIDE DEF row
    <2>2. ASSUME NEW img
          PROVE  IsList(looks) /\ (AllFound(looks, img) <=> Refers(row, img))
      <3> DEFINE l2 == Item(q.item) \o Look("assignments", q.link, q.item)
      <3>1. /\ IsList(Item(q.item))
            /\ AllFound(Item(q.item), img) <=> Resolves("work_items", q.item, None, img)
        BY OneLook DEF Item
      <3>2. /\ IsList(l2)
            /\ AllFound(l2, img) <=> AllFound(Item(q.item), img)
                                     /\ Resolves("assignments", q.link, q.item, img)
        BY <3>1, AllFoundLooks
      <3> HIDE DEF l2
      <3>3. /\ IsList(l2 \o Role(q.role))
            /\ AllFound(l2 \o Role(q.role), img) <=> AllFound(l2, img)
                                                     /\ Resolves("roles", q.role, None, img)
        BY <3>2, AllFoundLooks DEF Role
      <3>4. looks = l2 \o Role(q.role)
        BY DEF l2
      <3> HIDE DEF looks
      <3> QED
        BY <1>1, <1>4, <3>1, <3>2, <3>3, <3>4 DEF Refers, ItemTables
    <2> HIDE DEF looks
    <2> QED
      BY <2>1, <2>2 DEF Creates, row
  <1>5. CASE t = "evidence"
    <2> DEFINE looks == Item(q.item) \o Look("assignments", q.link, q.item)
    <2>1. \A img : Operation(q, img) = Autocommit(looks, Insert(row))
      BY <1>5 DEF CreateOp, Operation, CreateEvidence
    <2> HIDE DEF row
    <2>2. ASSUME NEW img
          PROVE  IsList(looks) /\ (AllFound(looks, img) <=> Refers(row, img))
      <3>1. /\ IsList(Item(q.item))
            /\ AllFound(Item(q.item), img) <=> Resolves("work_items", q.item, None, img)
        BY OneLook DEF Item
      <3>2. /\ IsList(looks)
            /\ AllFound(looks, img) <=> AllFound(Item(q.item), img)
                                        /\ Resolves("assignments", q.link, q.item, img)
        BY <3>1, AllFoundLooks
      <3> QED
        BY <1>1, <1>5, <3>1, <3>2 DEF Refers, ItemTables
    <2> HIDE DEF looks
    <2> QED
      BY <2>1, <2>2 DEF Creates, row
  <1>6. CASE t = "handoffs"
    <2> DEFINE looks == Item(q.item) \o HandoffLooks(row)
    <2>1. \A img : Operation(q, img) = Autocommit(looks, Insert(row))
      BY <1>6 DEF CreateOp, Operation, CreateHandoff
    <2> HIDE DEF row
    <2>2. ASSUME NEW img
          PROVE  IsList(looks) /\ (AllFound(looks, img) <=> Refers(row, img))
      <3>1. IsList(Item(q.item)) /\ IsList(HandoffLooks(row))
        BY LookIsList, ConcatIsList DEF HandoffLooks, Item, Role
      <3>2. AllFound(Item(q.item), img) <=> Resolves("work_items", q.item, None, img)
        BY OneLook DEF Item
      <3>3. AllFound(looks, img) <=> AllFound(Item(q.item), img) /\ AllFound(HandoffLooks(row), img)
        <4>1. Elements(looks) = Elements(Item(q.item)) \cup Elements(HandoffLooks(row))
          BY <3>1, ConcatElements
        <4>2. \A list : AllFound(list, img) <=> \A l \in Elements(list) : Found(l, img)
          BY DEF AllFound, Elements
        <4> HIDE DEF looks
        <4> QED
          BY <4>1, <4>2
      <3>4. AllFound(HandoffLooks(row), img) <=> ValidHandoff(row, img)
        BY DEF AllFound, ValidHandoff
      <3>5. IsList(looks)
        BY <3>1, ConcatIsList
      <3> HIDE DEF looks
      <3> QED
        BY <1>1, <1>6, <3>2, <3>3, <3>4, <3>5, ValidHandoffIs DEF Refers, ItemTables
    <2> HIDE DEF looks
    <2> QED
      BY <2>1, <2>2 DEF Creates, row
  <1> QED
    BY <1>2, <1>3, <1>4, <1>5, <1>6 DEF Importable, CreateOp

\* An update or a restoration that the import may ask for, handoffs apart.
Replaces(q, t) ==
    \E looks : /\ IsList(looks)
               /\ \A img : /\ Operation(q, img) = Autocommit(looks, Put(Row(q, t), None, "notfound"))
                           /\ AllFound(looks, img) <=> Refers(Row(q, t), img)

LEMMA ReplacementIs ==
    ASSUME NEW t \in Replaced \ {"handoffs"}, NEW q, q.op = ReplaceOp[t]
    PROVE  Replaces(q, t)
  <1> DEFINE row == Row(q, t)
  <1>1. row.tab = t /\ row.item = q.item /\ row.role = q.role
    BY RowIsRow DEF Columns
  <1>2. CASE t # "assignments"
    <2>1. \A img : Operation(q, img) = Autocommit(<<>>, Put(row, None, "notfound"))
      <3>1. CASE t = "projects"
        BY <3>1 DEF ReplaceOp, Operation, UpdateProject
      <3>2. CASE t = "project_skills"
        BY <3>2 DEF ReplaceOp, Operation, UpdateProjectSkill
      <3>3. CASE t = "roles"
        BY <3>3 DEF ReplaceOp, Operation, UpdateRole
      <3>4. CASE t = "work_items"
        BY <3>4 DEF ReplaceOp, Operation, UpdateWorkItem
      <3>5. CASE t = "memory_entries"
        BY <3>5 DEF ReplaceOp, Operation, UpdateMemoryEntry
      <3>6. CASE t = "memory_candidates"
        BY <3>6 DEF ReplaceOp, Operation, UpdateMemoryCandidate
      <3>7. CASE t = "assistant_proposals"
        BY <3>7 DEF ReplaceOp, Operation, UpdateAssistantProposal
      <3> QED
        BY <1>2, <3>1, <3>2, <3>3, <3>4, <3>5, <3>6, <3>7 DEF Replaced, ReplaceOp
    <2> HIDE DEF row
    <2>2. \A img : Refers(row, img)
      BY <1>1, <1>2 DEF Refers, ItemTables, Replaced, ReplaceOp
    <2> QED
      BY <2>1, <2>2, NoLook DEF Replaces, row
  <1>3. CASE t = "assignments"
    <2> DEFINE looks == Item(q.item) \o Role(q.role)
    <2>1. \A img : Operation(q, img) = Autocommit(looks, Put(row, None, "notfound"))
      BY <1>3 DEF ReplaceOp, Operation, RestoreAssignmentSnapshot
    <2> HIDE DEF row
    <2>2. ASSUME NEW img
          PROVE  IsList(looks) /\ (AllFound(looks, img) <=> Refers(row, img))
      <3>1. /\ IsList(Item(q.item))
            /\ AllFound(Item(q.item), img) <=> Resolves("work_items", q.item, None, img)
        BY OneLook DEF Item
      <3>2. /\ IsList(looks)
            /\ AllFound(looks, img) <=> AllFound(Item(q.item), img)
                                        /\ Resolves("roles", q.role, None, img)
        BY <3>1, AllFoundLooks DEF Role
      <3> QED
        BY <1>1, <1>3, <3>1, <3>2 DEF Refers, ItemTables
    <2> HIDE DEF looks
    <2> QED
      BY <2>1, <2>2 DEF Replaces, row
  <1> QED
    BY <1>2, <1>3

\* The request of a record has its columns.
LEMMA AskIs ==
    ASSUME NEW op, NEW r, IsRow(r)
    PROVE  Ask(op, r).op = op /\ Row(Ask(op, r), r.tab) = r
  <1>1. DOMAIN Blank = Columns
    BY DEF Blank, Columns
  <1>2. DOMAIN Ask(op, r) = Columns \cup {"op", "late"} /\ Ask(op, r).op = op
    BY <1>1 DEF Ask
  <1>3. \A c \in Columns : Ask(op, r)[c] = r[c]
    BY <1>1 DEF Ask, Columns
  <1>4. Row(Ask(op, r), r.tab) = [c \in Columns |-> IF c = "tab" THEN r.tab ELSE Ask(op, r)[c]]
    BY <1>1 DEF Row
  <1>5. r = [c \in Columns |-> r[c]]
    BY RowFields
  <1> QED
    BY <1>2, <1>3, <1>4, <1>5 DEF Columns

\* The creation of a record looks up what the record names.
LEMMA RecordCreation ==
    ASSUME NEW r, IsRow(r), r.tab \in Importable, NEW img
    PROVE  /\ Operation(Ask(CreateOp[r.tab], r), img) = Autocommit(Names(r), Insert(r))
           /\ AllFound(Names(r), img) <=> Refers(r, img)
  <1> DEFINE q == Ask(CreateOp[r.tab], r)
  <1>1. q.op = CreateOp[r.tab] /\ Row(q, r.tab) = r
    BY AskIs
  <1> HIDE DEF q
  <1>2. PICK looks : \A i : /\ Operation(q, i) = Autocommit(looks, Insert(r))
                            /\ AllFound(looks, i) <=> Refers(r, i)
    BY <1>1, CreationIs DEF Creates
  <1>3. Names(r) = looks
    BY <1>2 DEF Names, Autocommit, Plan, q
  <1> QED
    BY <1>2, <1>3 DEF q

\* What its replacement looks up and puts.
LEMMA RecordReplacement ==
    ASSUME NEW r, IsRow(r), r.tab \in Replaced \ {"handoffs"}, NEW img
    PROVE  \E looks :
              /\ Operation(Ask(ReplaceOp[r.tab], r), img) = Autocommit(looks, Put(r, None, "notfound"))
              /\ AllFound(looks, img) <=> Refers(r, img)
  <1> DEFINE q == Ask(ReplaceOp[r.tab], r)
  <1>1. q.op = ReplaceOp[r.tab] /\ Row(q, r.tab) = r
    BY AskIs
  <1> HIDE DEF q
  <1>2. Replaces(q, r.tab)
    BY <1>1, ReplacementIs
  <1> QED
    BY <1>1, <1>2 DEF Replaces, q

\* And that of a handoff.
LEMMA RestorationMakes ==
    ASSUME NEW q, q.op = "RestoreHandoffSnapshot", NEW img
    PROVE  LET row == Row(q, "handoffs")
           IN /\ Refusals(q, img) = {} <=>
                    /\ Found([tab |-> "handoffs", id |-> q.id, item |-> q.item], img)
                    /\ ValidHandoff(row, img)
              /\ Refusals(q, img) = {} =>
                    Result(q, img) = {r \in img : ~(r.tab = row.tab /\ r.id = row.id)} \cup {row}
  <1> DEFINE row == Row(q, "handoffs")
             s == Put(row, None, "notfound")
             there == Found([tab |-> "handoffs", id |-> q.id, item |-> q.item], img)
             no == IF there THEN IF ValidHandoff(row, img) THEN {} ELSE {"notfound"}
                   ELSE {"notfound"}
  <1>1. Operation(q, img) = Plan("immediate", <<>>, no, IF no = {} THEN <<s>> ELSE <<>>)
    BY DEF Operation, RestoreHandoffSnapshot, HandoffTransition
  <1>2. row.tab = "handoffs" /\ row.id = q.id
    BY RowIsRow DEF Columns
  <1>3. s.do = "put" /\ s.row = row /\ s.ver = None /\ s.miss = "notfound"
    BY DEF Put
  <1>4. there => \E r \in img : r.tab = "handoffs" /\ r.id = q.id
    BY DEF Found
  <1>5. no = {} <=> there /\ ValidHandoff(row, img)
    OBVIOUS
  <1> HIDE DEF row, s, there, no
  <1>6. /\ Operation(q, img).looks = <<>> /\ Operation(q, img).no = no
        /\ no = {} => Operation(q, img).do = <<s>>
        /\ no # {} => Operation(q, img).do = <<>>
    BY <1>1 DEF Plan
  <1>7. Matches(s, img) = {r \in img : r.tab = row.tab /\ r.id = row.id}
    BY <1>3 DEF Matches
  <1>8. Refusals(q, img) = no \cup ListMisses(Operation(q, img).do, img)
    BY <1>6 DEF Refusals
  <1>9. CASE no # {}
    BY <1>5, <1>8, <1>9 DEF row, there
  <1>10. CASE no = {}
    <2>1. Result(q, img) = Run(s, img) /\ ListMisses(Operation(q, img).do, img) = Misses(s, img)
      BY <1>6, <1>10, OneToRun DEF Result
    <2>2. Misses(s, img) = {}
      BY <1>2, <1>3, <1>4, <1>5, <1>7, <1>10 DEF Misses
    <2>3. Run(s, img) = {r \in img : ~(r.tab = row.tab /\ r.id = row.id)} \cup {row}
      BY <1>3, <1>7 DEF Run
    <2> QED
      BY <1>5, <1>8, <1>10, <2>1, <2>2, <2>3 DEF row, there
  <1> QED
    BY <1>9, <1>10

-----------------------------------------------------------------------------
(* Changes of a store.                                                     *)

LEMMA ClosedIs ==
    ASSUME NEW img, AreRows(img)
    PROVE  Closed(img) <=> /\ \A r \in img : Refers(r, img)
                           /\ \A r \in img : r.tab \in Owned => OfTable(img, "projects") # {}
  <1>1. ASSUME NEW r \in img, r.tab \in Importable
        PROVE  (\A k \in DOMAIN Names(r) : Found(Names(r)[k], img)) <=> Refers(r, img)
    <2>1. IsRow(r)
      BY DEF AreRows
    <2>2. AllFound(Names(r), img) <=> Refers(r, img)
      BY <1>1, <2>1, RecordCreation
    <2> QED
      BY <2>2 DEF AllFound
  <1>2. ASSUME NEW r \in img, r.tab \notin Importable PROVE Refers(r, img)
    BY <1>2 DEF Refers, ItemTables, Importable, CreateOp
  <1> QED
    BY <1>1, <1>2 DEF Closed

\* What records may refer to is still there, and where it was.
Stays(img, new) ==
    \A r \in img : r.tab \in {"projects", "work_items", "roles", "assignments"} =>
        \E s \in new : s.tab = r.tab /\ s.id = r.id /\ s.item = r.item

LEMMA ResolvesYet ==
    ASSUME NEW img, NEW new, Stays(img, new), NEW t \in {"work_items", "roles", "assignments"},
           NEW i, NEW item, Resolves(t, i, item, img)
    PROVE  Resolves(t, i, item, new)
  BY DEF Resolves, Found, Stays

LEMMA RefersYet ==
    ASSUME NEW img, NEW new, Stays(img, new), NEW r, Refers(r, img)
    PROVE  Refers(r, new)
  <1>1. \A t \in {"work_items", "roles", "assignments"} : \A i, item :
            Resolves(t, i, item, img) => Resolves(t, i, item, new)
    BY ResolvesYet
  <1> QED
    BY <1>1 DEF Refers

\* Rows are closed still if what they refer to stays, and each new row has it.
LEMMA ClosedYet ==
    ASSUME NEW img, AreRows(img), Closed(img), NEW new, AreRows(new), Stays(img, new),
           \A g \in new : g \in img \/ Refers(g, new),
           \A g \in new : \/ g \in img \/ g.tab \notin Owned
                          \/ OfTable(img, "projects") # {} \/ \E r \in img : r.tab \in Owned
    PROVE  Closed(new)
  <1>1. /\ \A r \in img : Refers(r, img)
        /\ \A r \in img : r.tab \in Owned => OfTable(img, "projects") # {}
    BY ClosedIs
  <1>2. \A g \in new : Refers(g, new)
    BY <1>1, RefersYet
  <1>3. OfTable(img, "projects") # {} => OfTable(new, "projects") # {}
    BY DEF OfTable, Stays
  <1>4. ASSUME NEW g \in new, g.tab \in Owned PROVE OfTable(new, "projects") # {}
    BY <1>1, <1>3, <1>4
  <1> QED
    BY <1>2, <1>4, ClosedIs

\* What each operation has to keep.
Keeps(q, img) == /\ \A r \in Result(q, img) : r.tab \in Tables /\ OfItems(r)
                 /\ Closed(img) /\ ~Loosens(q, img) => Closed(Result(q, img))

LEMMA ResultIsRows ==
    ASSUME NEW q, q.op \in Ops, NEW img, Stored(img), Refusals(q, img) = {}
    PROVE  Keyed(Result(q, img)) /\ AreRows(Result(q, img))
  <1>1. /\ AreStatements(Operation(q, img).do) /\ AreRows(Result(q, img))
    BY EffectWrites DEF Stored, Result
  <1>2. ListMisses(Operation(q, img).do, img) = {}
    BY DEF Refusals
  <1> QED
    BY <1>1, <1>2, ListKeepsKeys DEF Stored, Result

LEMMA CreationKeeps ==
    ASSUME NEW q, q.op \in Ops, WellFormed(q), NEW img, Stored(img), Refusals(q, img) = {},
           NEW t \in Importable, q.op = CreateOp[t]
    PROVE  Keeps(q, img)
  <1> DEFINE row == Row(q, t)
             new == Result(q, img)
  <1>1. PICK looks : \A i : /\ Operation(q, i) = Autocommit(looks, Insert(row))
                            /\ AllFound(looks, i) <=> Refers(row, i)
    BY CreationIs DEF Creates
  <1>2. row.tab = t /\ row.item = q.item
    BY RowIsRow DEF Columns
  <1>3. row.tab \in Tables /\ OfItems(row)
    BY <1>2 DEF WellFormed, OfItems, Tables, Owned, Importable, CreateOp
  <1>4. AreRows(new) /\ AreRows(img)
    BY ResultIsRows DEF Stored
  <1> HIDE DEF row, new
  <1>5. /\ new = img \cup {row} /\ Refers(row, img)
        /\ row.tab \in Owned => OfTable(img, "projects") # {}
    <2>1. /\ Operation(q, img) = Autocommit(looks, Insert(row))
          /\ AllFound(looks, img) <=> Refers(row, img)
      BY <1>1
    <2> QED
      BY <2>1, InsertMakes DEF new
  <1>6. Stays(img, new)
    BY <1>5 DEF Stays
  <1>7. Refers(row, new)
    BY <1>5, <1>6, RefersYet
  <1>8. Closed(img) => Closed(new)
    BY <1>4, <1>5, <1>6, <1>7, ClosedYet
  <1>9. \A r \in new : r.tab \in Tables /\ OfItems(r)
    BY <1>3, <1>5 DEF Stored
  <1> QED
    BY <1>8, <1>9 DEF Keeps, new

LEMMA ReplacementKeeps ==
    ASSUME NEW q, q.op \in Ops, WellFormed(q), NEW img, Stored(img), Refusals(q, img) = {},
           NEW t \in Replaced \ {"handoffs"}, q.op = ReplaceOp[t]
    PROVE  Keeps(q, img)
  <1> DEFINE row == Row(q, t)
             new == Result(q, img)
  <1>1. PICK looks : \A i : /\ Operation(q, i) = Autocommit(looks, Put(row, None, "notfound"))
                            /\ AllFound(looks, i) <=> Refers(row, i)
    BY ReplacementIs DEF Replaces
  <1>2. row.tab = t /\ row.item = q.item
    BY RowIsRow DEF Columns
  <1>3. row.tab \in Tables /\ OfItems(row)
    BY <1>2 DEF WellFormed, OfItems, Tables, Owned, Replaced, ReplaceOp
  <1>4. AreRows(new) /\ AreRows(img)
    BY ResultIsRows DEF Stored
  <1> HIDE DEF row, new
  <1>5. /\ new = {r \in img : ~(r.tab = row.tab /\ r.id = row.id)} \cup {row}
        /\ Refers(row, img) /\ Has(img, row.tab, row.id)
    <2>1. /\ Operation(q, img) = Autocommit(looks, Put(row, None, "notfound"))
          /\ AllFound(looks, img) <=> Refers(row, img)
      BY <1>1
    <2> QED
      BY <2>1, PutMakes DEF new
  <1>6. PICK old \in img : old.tab = row.tab /\ old.id = row.id
    BY <1>5 DEF Has
  <1>7. ASSUME Closed(img), ~Loosens(q, img) PROVE Closed(new)
    <2>1. t # "assignments"
      BY <1>7 DEF Loosens, ReplaceOp
    <2>2. \A r \in img : r.tab = t => r.item = None
      BY <2>1 DEF Stored, OfItems, ItemTables, Replaced, ReplaceOp
    <2>3. row.item = None
      BY <1>2, <1>3, <2>1 DEF OfItems, ItemTables, Replaced, ReplaceOp
    <2>4. Stays(img, new)
      BY <1>2, <1>5, <2>2, <2>3 DEF Stays
    <2>5. Refers(row, new)
      BY <1>5, <2>4, RefersYet
    <2>6. \A g \in new : g \in img \/ Refers(g, new)
      BY <1>5, <2>5
    <2>7. \A g \in new : g \in img \/ g.tab \notin Owned \/ \E r \in img : r.tab \in Owned
      BY <1>5, <1>6
    <2> QED
      BY <1>4, <1>7, <2>4, <2>6, <2>7, ClosedYet
  <1>8. \A r \in new : r.tab \in Tables /\ OfItems(r)
    BY <1>3, <1>5 DEF Stored
  <1> QED
    BY <1>7, <1>8 DEF Keeps, new

LEMMA RestorationKeeps ==
    ASSUME NEW q, q.op \in Ops, WellFormed(q), NEW img, Stored(img), Refusals(q, img) = {},
           q.op = "RestoreHandoffSnapshot"
    PROVE  Keeps(q, img)
  <1> DEFINE row == Row(q, "handoffs")
             new == Result(q, img)
  <1>1. row.tab = "handoffs" /\ row.item = q.item /\ row.id = q.id
    BY RowIsRow DEF Columns
  <1>2. row.tab \in Tables /\ OfItems(row)
    BY <1>1 DEF WellFormed, OfItems, Tables, Owned, ItemTables, Replaced, ReplaceOp
  <1>3. AreRows(new) /\ AreRows(img)
    BY ResultIsRows DEF Stored
  <1> HIDE DEF row, new
  <1>4. /\ new = {r \in img : ~(r.tab = row.tab /\ r.id = row.id)} \cup {row}
        /\ Found([tab |-> "handoffs", id |-> q.id, item |-> q.item], img)
        /\ ValidHandoff(row, img)
    BY RestorationMakes DEF new, row
  <1>5. PICK old \in img : old.tab = "handoffs" /\ old.id = q.id /\ (q.item # None => old.item = q.item)
    BY <1>4 DEF Found
  <1>6. ASSUME Closed(img) PROVE Closed(new)
    <2>1. Stays(img, new)
      BY <1>1, <1>4 DEF Stays
    <2>2. Resolves("work_items", row.item, None, img)
      <3>1. Refers(old, img)
        BY <1>3, <1>6, ClosedIs
      <3>2. row.item # None => old.item = row.item
        BY <1>1, <1>5
      <3> QED
        BY <1>5, <3>1, <3>2 DEF Refers, ItemTables, Resolves
    <2>3. Refers(row, img)
      BY <1>1, <1>4, <2>2, ValidHandoffIs DEF Refers
    <2>4. Refers(row, new)
      BY <2>1, <2>3, RefersYet
    <2>5. \A g \in new : g \in img \/ Refers(g, new)
      BY <1>4, <2>4
    <2>6. \E r \in img : r.tab \in Owned
      BY <1>5 DEF Owned
    <2> QED
      BY <1>3, <1>6, <2>1, <2>5, <2>6, ClosedYet
  <1>7. \A r \in new : r.tab \in Tables /\ OfItems(r)
    BY <1>2, <1>4 DEF Stored
  <1> QED
    BY <1>6, <1>7 DEF Keeps, new

LEMMA TransitionKeeps ==
    ASSUME NEW q, q.op \in Ops, WellFormed(q), NEW img, Stored(img), Refusals(q, img) = {},
           q.op \in TransitionOps
    PROVE  Keeps(q, img)
  <1> DEFINE a == Get(img, "assignments", q.id)
             new == Result(q, img)
  <1>1. AreRows(new) /\ AreRows(img) /\ Keyed(img)
    BY ResultIsRows DEF Stored
  <1>2. Has(img, "assignments", q.id)
    BY <1>1, TransitionMakes
  <1>3. PICK next : AssignmentAfter(q, img, next) /\ new = (img \ {a}) \cup {next}
    BY <1>1, TransitionMakes
  <1>4. a \in img /\ a.tab = "assignments" /\ a.id = q.id
    BY <1>1, <1>2, Gets
  <1>5. /\ next.tab = "assignments" /\ next.id = q.id
        /\ IF q.op = "UpdateQueuedAssignment" THEN next.item = q.item
           ELSE next.item = a.item /\ next.role = a.role
    BY <1>1, <1>2, <1>3 DEF AssignmentAfter
  <1> HIDE DEF a, new
  <1>6. next.tab \in Tables /\ OfItems(next)
    BY <1>4, <1>5 DEF WellFormed, OfItems, Tables, Owned, ItemTables, Stored
  <1>7. ASSUME Closed(img), ~Loosens(q, img) PROVE Closed(new)
    <2>1. next.item = a.item /\ next.role = a.role
      BY <1>5, <1>7 DEF Loosens
    <2>2. Stays(img, new)
      BY <1>3, <1>4, <1>5, <2>1 DEF Stays
    <2>3. Refers(a, img)
      BY <1>1, <1>4, <1>7, ClosedIs
    <2>4. Refers(next, img)
      BY <1>4, <1>5, <2>1, <2>3 DEF Refers
    <2>5. Refers(next, new)
      BY <2>2, <2>4, RefersYet
    <2>6. \A g \in new : g \in img \/ Refers(g, new)
      BY <1>3, <2>5
    <2>7. \E r \in img : r.tab \in Owned
      BY <1>4 DEF Owned
    <2> QED
      BY <1>1, <1>7, <2>2, <2>6, <2>7, ClosedYet
  <1>8. \A r \in new : r.tab \in Tables /\ OfItems(r)
    BY <1>3, <1>6 DEF Stored
  <1> QED
    BY <1>7, <1>8 DEF Keeps, new

LEMMA HandoffChangeKeeps ==
    ASSUME NEW q, q.op \in Ops, NEW img, Stored(img), Refusals(q, img) = {},
           q.op \in {"UpdateHandoff", "AcceptHandoffWithFollowUp"}
    PROVE  Keeps(q, img)
  <1> DEFINE new == Result(q, img)
  <1>1. AreRows(new) /\ AreRows(img)
    BY ResultIsRows DEF Stored
  <1>2. Operation(q, img).no = {} /\ ListMisses(Operation(q, img).do, img) = {}
    BY DEF Refusals
  <1>3. /\ \A r \in img : r.tab # "handoffs" => r \in new
        /\ \A g \in new : g.tab = "handoffs" =>
              \E h \in img : h.tab = "handoffs" /\ h.id = g.id /\ h.item = g.item /\ h.src = g.src
        /\ \A g \in new : g.tab # "handoffs" =>
              \/ g \in img
              \/ g.tab = "command_receipts" /\ g.item = None
              \/ /\ g.tab = "assignments" /\ Has(img, "roles", g.role)
                 /\ Has(img, "work_items", g.item)
                 /\ \E h \in img : /\ h.tab = "handoffs"
                                   /\ g.item = IF h.tgt # None THEN h.tgt ELSE h.item
        /\ new = img \/ \E h \in img : h.tab = "handoffs"
    BY <1>1, <1>2, HandoffsMove
  <1>4. \A h \in new : h \notin img /\ h.tab = "handoffs" /\ Has(img, "handoffs", h.id)
                       => ValidHandoff([h EXCEPT !.src = None], new)
    BY <1>1, <1>2, HandoffChangesResolve DEF ChangesResolve, Result
  <1> HIDE DEF new
  <1>5. ASSUME NEW g \in new PROVE g.tab \in Tables /\ OfItems(g)
    <2>1. \A h \in img : h.tab = "handoffs" => h.item # None
      BY DEF Stored, OfItems, ItemTables
    <2>2. CASE g.tab = "handoffs"
      BY <1>3, <2>1, <2>2 DEF OfItems, Tables, Owned, ItemTables
    <2>3. CASE g.tab # "handoffs"
      BY <1>3, <2>1, <2>3 DEF OfItems, Tables, Owned, ItemTables, Stored
    <2> QED
      BY <2>2, <2>3
  <1>6. ASSUME Closed(img) PROVE Closed(new)
    <2>1. Stays(img, new)
      BY <1>3 DEF Stays
    <2>2. \A r \in img : Refers(r, img)
      BY <1>1, <1>6, ClosedIs
    <2>3. ASSUME NEW g \in new, g \notin img, g.tab = "handoffs" PROVE Refers(g, new)
      <3>1. PICK h \in img : h.tab = "handoffs" /\ h.id = g.id /\ h.item = g.item /\ h.src = g.src
        BY <1>3, <2>3
      <3>2. Refers(h, new)
        BY <2>1, <2>2, RefersYet
      <3> DEFINE x == [g EXCEPT !.src = None]
      <3>3. ValidHandoff(x, new)
        BY <1>4, <2>3, <3>1 DEF Has
      <3>4. x.role = g.role /\ x.link = g.link /\ x.tgt = g.tgt
        BY <1>1, RowFields DEF Columns, AreRows
      <3> HIDE DEF x
      <3>5. /\ Resolves("roles", g.role, None, new)
            /\ Resolves("assignments", g.link, g.tgt, new)
            /\ Resolves("work_items", g.tgt, None, new)
        BY <3>3, <3>4, ValidHandoffIs
      <3>6. /\ Resolves("assignments", g.src, g.item, new)
            /\ Resolves("work_items", g.item, None, new)
        BY <3>1, <3>2 DEF Refers, ItemTables
      <3> QED
        BY <2>3, <3>5, <3>6 DEF Refers
    <2>4. ASSUME NEW g \in new, g \notin img, g.tab # "handoffs" PROVE Refers(g, new)
      <3>1. CASE g.tab = "command_receipts"
        BY <3>1 DEF Refers, ItemTables
      <3>2. CASE g.tab = "assignments"
        <4>1. Has(img, "roles", g.role) /\ Has(img, "work_items", g.item)
          BY <1>3, <2>4, <3>2
        <4>2. Resolves("roles", g.role, None, img) /\ Resolves("work_items", g.item, None, img)
          BY <4>1 DEF Has, Resolves, Found
        <4>3. Refers(g, img)
          BY <3>2, <4>2 DEF Refers
        <4> QED
          BY <2>1, <4>3, RefersYet
      <3> QED
        BY <1>3, <2>4, <3>1, <3>2
    <2>5. \A g \in new : g \in img \/ \E r \in img : r.tab \in Owned
      BY <1>3 DEF Owned
    <2> QED
      BY <1>1, <1>6, <2>1, <2>3, <2>4, <2>5, ClosedYet
  <1> QED
    BY <1>5, <1>6 DEF Keeps, new

LEMMA PromotionKeeps ==
    ASSUME NEW q, q.op \in Ops, NEW img, Stored(img), Refusals(q, img) = {},
           q.op = "PromoteMemoryCandidate"
    PROVE  Keeps(q, img)
  <1> DEFINE new == Result(q, img)
  <1>1. AreRows(new) /\ AreRows(img)
    BY ResultIsRows DEF Stored
  <1>2. /\ \A r \in img : r.tab # "memory_candidates" => r \in new
        /\ \A g \in new :
              \/ g \in img
              \/ g.tab = "memory_entries" /\ g.item = None
              \/ /\ g.tab = "memory_candidates"
                 /\ \E c \in img : c.tab = g.tab /\ c.id = g.id /\ c.item = g.item
        /\ new = img \/ \E c \in img : c.tab = "memory_candidates"
    BY <1>1, PromotionMakes
  <1> HIDE DEF new
  <1>3. \A g \in new : g.tab \in Tables /\ OfItems(g)
    BY <1>2 DEF OfItems, Tables, Owned, ItemTables, Stored
  <1>4. ASSUME Closed(img) PROVE Closed(new)
    <2>1. Stays(img, new)
      BY <1>2 DEF Stays
    <2>2. \A g \in new : g \in img \/ Refers(g, new)
      BY <1>2 DEF Refers, ItemTables
    <2>3. \A g \in new : g \in img \/ \E r \in img : r.tab \in Owned
      BY <1>2 DEF Owned
    <2> QED
      BY <1>1, <1>4, <2>1, <2>2, <2>3, ClosedYet
  <1> QED
    BY <1>3, <1>4 DEF Keeps, new

\* What the deletions take away.
\* Rows that go and that nothing refers to.
LEMMA FewerKeeps ==
    ASSUME NEW q, q.op \in Ops, NEW img, Stored(img), Refusals(q, img) = {},
           Result(q, img) \subseteq img,
           Closed(img) /\ ~Loosens(q, img) => Stays(img, Result(q, img))
    PROVE  Keeps(q, img)
  <1> DEFINE new == Result(q, img)
  <1>1. AreRows(new) /\ AreRows(img)
    BY ResultIsRows DEF Stored
  <1> HIDE DEF new
  <1>2. ASSUME Closed(img), ~Loosens(q, img) PROVE Closed(new)
    BY <1>1, <1>2, ClosedYet DEF new
  <1>3. \A g \in new : g.tab \in Tables /\ OfItems(g)
    BY DEF Stored, new
  <1> QED
    BY <1>2, <1>3 DEF Keeps, new

LEMMA DeletionKeeps ==
    ASSUME NEW q, q.op \in {"DeleteRole", "DeleteMemoryEntry", "DeleteMemoryCandidate"},
           NEW img, Stored(img), Refusals(q, img) = {}
    PROVE  Keeps(q, img)
  <1>1. PICK t :
            /\ t \in {"roles", "memory_entries", "memory_candidates"}
            /\ Operation(q, img) = Autocommit(<<>>, DeleteOne(t, q.id))
            /\ t = "roles" => q.op = "DeleteRole"
    <2>1. CASE q.op = "DeleteRole"
      BY <2>1 DEF Operation, DeleteRole
    <2>2. CASE q.op = "DeleteMemoryEntry"
      BY <2>2 DEF Operation, DeleteMemoryEntry
    <2>3. CASE q.op = "DeleteMemoryCandidate"
      BY <2>3 DEF Operation, DeleteMemoryCandidate
    <2> QED
      BY <2>1, <2>2, <2>3
  <1>2. \A r : r \in Result(q, img) <=> r \in img /\ ~(r.tab = t /\ r.id = q.id)
    <2>1. Operation(q, img).do = <<DeleteOne(t, q.id)>>
      BY <1>1 DEF Autocommit, Plan
    <2> QED
      BY <2>1, DeletionOne DEF Result
  <1>3. ~Loosens(q, img) => Stays(img, Result(q, img))
    BY <1>1, <1>2 DEF Loosens, Stays
  <1>4. q.op \in Ops /\ Result(q, img) \subseteq img
    BY <1>2 DEF Ops
  <1> QED
    BY <1>3, <1>4, FewerKeeps

LEMMA HandoffDeletionKeeps ==
    ASSUME NEW q, q.op = "DeleteHandoff", NEW img, Stored(img), Refusals(q, img) = {}
    PROVE  Keeps(q, img)
  <1> DEFINE s == DeleteOne("handoffs", q.id)
  <1>1. s.do = "delete" /\ s.row.tab = "handoffs"
    BY DEF DeleteOne, Delete, Blank
  <1>2. Operation(q, img).do \in {<<>>, <<s>>}
    BY DEF Operation, DeleteHandoff, HandoffTransition, Plan
  <1> HIDE DEF s
  <1>3. Result(q, img) \in {img, Run(s, img)}
    BY <1>2, NothingToRun, OneToRun DEF Result
  <1>4. /\ Run(s, img) \subseteq img
        /\ \A r \in img : r.tab # "handoffs" => r \in Run(s, img)
    BY <1>1 DEF Run, Matches
  <1>5. Result(q, img) \subseteq img /\ Stays(img, Result(q, img))
    BY <1>3, <1>4 DEF Stays
  <1> QED
    BY <1>5, FewerKeeps DEF Ops

LEMMA AssignmentDeletionKeeps ==
    ASSUME NEW q, q.op = "DeleteAssignment", NEW img, Stored(img), Refusals(q, img) = {}
    PROVE  Keeps(q, img)
  <1> DEFINE list == <<Delete("artifacts", "link", q.id), Delete("reviews", "link", q.id),
                       DeleteOne("assignments", q.id)>>
  <1>1. Operation(q, img).do = list
    BY DEF Operation, DeleteAssignment, Plan
  <1>2. AreStatements(list)
    BY Deletions DEF AreStatements, IsList, Elements
  <1>3. \A s \in Elements(list) : s.do = "delete"
    BY DEF Elements, Delete, DeleteOne
  <1> HIDE DEF list
  <1>4. Result(q, img) \subseteq img
    BY <1>1, <1>2, <1>3, DeletionsMake DEF Result
  <1> QED
    BY <1>4, FewerKeeps DEF Ops, Loosens

LEMMA WorkItemDeletionKeeps ==
    ASSUME NEW q, q.op = "DeleteWorkItem", NEW img, Stored(img), Refusals(q, img) = {}
    PROVE  Keeps(q, img)
  <1> DEFINE new == Result(q, img)
             w == q.id
  <1>1. AreRows(new) /\ AreRows(img) /\ q.op \in Ops
    <2>1. q.op \in Ops
      BY DEF Ops
    <2> QED
      BY <2>1, ResultIsRows DEF Stored
  <1>2. new = {r \in img : /\ ~(r.tab \in ItemTables /\ r.item = w)
                           /\ ~(r.tab = "handoffs" /\ r.tgt = w)
                           /\ ~(r.tab = "work_items" /\ r.id = w)}
    BY WorkItemDeletionMakes DEF RecordTables, ItemTables
  <1> HIDE DEF new, w
  <1>3. ASSUME Closed(img), ~Loosens(q, img) PROVE Closed(new)
    <2>1. /\ \A r \in img : Refers(r, img)
          /\ \A r \in img : r.tab \in Owned => OfTable(img, "projects") # {}
      BY <1>1, <1>3, ClosedIs
    <2>2. ASSUME NEW i, i # w, Resolves("work_items", i, None, img)
          PROVE  Resolves("work_items", i, None, new)
      BY <1>2, <2>2 DEF Resolves, Found, ItemTables
    <2>3. ASSUME NEW i, Resolves("roles", i, None, img)
          PROVE  Resolves("roles", i, None, new)
      BY <1>2, <2>3 DEF Resolves, Found, ItemTables
    <2>4. ASSUME NEW i, NEW item, item # None, item # w, Resolves("assignments", i, item, img)
          PROVE  Resolves("assignments", i, item, new)
      BY <1>2, <2>4 DEF Resolves, Found, ItemTables
    <2>5. ASSUME NEW h \in new, h.tab = "handoffs", Resolves("assignments", h.link, h.tgt, img)
          PROVE  Resolves("assignments", h.link, h.tgt, new)
      <3>1. h \in img /\ h.item # w /\ h.tgt # w
        BY <1>2, <2>5 DEF ItemTables
      <3>2. CASE h.tgt # None
        BY <2>4, <2>5, <3>1, <3>2
      <3>3. CASE h.tgt = None /\ h.link # None
        <4>1. PICK a \in img : a.tab = "assignments" /\ a.id = h.link
          BY <2>5, <3>3 DEF Resolves, Found
        <4>2. a.item # w
          BY <1>3, <2>5, <3>1, <3>3, <4>1 DEF Loosens, OfTable, w
        <4>3. a \in new
          BY <1>2, <4>1, <4>2
        <4> QED
          BY <3>3, <4>1, <4>3 DEF Resolves, Found
      <3>4. CASE h.link = None
        BY <3>4 DEF Resolves
      <3> QED
        BY <3>2, <3>3, <3>4
    <2>6. ASSUME NEW r \in new PROVE Refers(r, new)
      <3>1. r \in img /\ (r.tab \in ItemTables => r.item # w /\ r.item # None)
        BY <1>2 DEF Stored, OfItems
      <3>2. r.tab = "handoffs" => r.tgt # w
        BY <1>2
      <3>3. Refers(r, img)
        BY <2>1, <3>1
      <3> QED
        BY <2>2, <2>3, <2>4, <2>5, <3>1, <3>2, <3>3 DEF Refers, ItemTables
    <2>7. OfTable(img, "projects") # {} => OfTable(new, "projects") # {}
      BY <1>2 DEF OfTable, ItemTables
    <2>8. \A r \in new : r.tab \in Owned => OfTable(new, "projects") # {}
      BY <1>2, <2>1, <2>7
    <2> QED
      BY <1>1, <2>6, <2>8, ClosedIs
  <1>4. \A g \in new : g.tab \in Tables /\ OfItems(g)
    BY <1>2 DEF Stored
  <1> QED
    BY <1>3, <1>4 DEF Keeps, new

\* A project goes with every row of every table.
LEMMA ProjectDeletionKeeps ==
    ASSUME NEW q, q.op = "DeleteProject", NEW img, Stored(img), Refusals(q, img) = {}
    PROVE  Keeps(q, img)
  <1> DEFINE t == <<"command_receipts", "artifacts", "evidence", "reviews", "handoffs",
                    "memory_candidates", "memory_entries", "assistant_proposals",
                    "assignments", "project_skills", "work_items", "roles">>
             all == [k \in 1..12 |-> Delete(t[k], "tab", t[k])]
             last == <<DeleteOne("projects", q.id)>>
             new == Result(q, img)
  <1>1. Operation(q, img).do = all \o last
    BY DEF Operation, DeleteProject, Plan
  <1>2. \A u : Delete(u, "tab", u).do = "delete" /\ Delete(u, "tab", u).ver = "tab"
               /\ Delete(u, "tab", u).row.tab = u /\ Delete(u, "tab", u).row["tab"] = u
    BY DEF Delete, Blank
  <1>3. Tables \ {"projects"} = {t[k] : k \in 1..12}
    <2>1. {t[k] : k \in 1..12} = {t[1], t[2], t[3], t[4], t[5], t[6], t[7], t[8], t[9], t[10],
                                  t[11], t[12]}
      <3> HIDE DEF t
      <3> QED
        OBVIOUS
    <2> QED
      BY <2>1 DEF Tables, Owned
  <1> HIDE DEF t
  <1>4. IsList(all) /\ \A k \in 1..12 : Delete(t[k], "tab", t[k]) \in Elements(all)
    <2>1. all \in Seq(Elements(all))
      BY DEF Elements
    <2> QED
      BY <2>1 DEF IsList, Elements
  <1>5. \A s \in Elements(all) : s.do = "delete" /\ IsStatement(s)
    <2>1. \A s \in Elements(all) : \E k \in 1..12 : s = Delete(t[k], "tab", t[k])
      BY DEF Elements
    <2>2. \A u : IsStatement(Delete(u, "tab", u))
      BY DEF IsStatement, Delete, Typed
    <2> HIDE DEF all
    <2> QED
      BY <1>2, <2>1, <2>2
  <1>6. IsList(last) /\ Elements(last) = {DeleteOne("projects", q.id)}
    BY OneIsList
  <1>7. DeleteOne("projects", q.id).do = "delete" /\ IsStatement(DeleteOne("projects", q.id))
    BY Deletions DEF DeleteOne, Delete
  <1> HIDE DEF all, last, new
  <1>8. IsList(all \o last) /\ Elements(all \o last) = Elements(all) \cup Elements(last)
    BY <1>4, <1>6, ConcatIsList, ConcatElements
  <1>9. AreStatements(all \o last) /\ \A s \in Elements(all \o last) : s.do = "delete"
    BY <1>5, <1>6, <1>7, <1>8 DEF AreStatements
  <1>10. new = {r \in img : ~Deleted(all \o last, r)}
    BY <1>1, <1>9, DeletionsMake DEF Result, new
  <1>11. ASSUME NEW r \in new PROVE r \in img /\ r.tab = "projects"
    <2>1. r \in img /\ ~Deleted(all \o last, r)
      BY <1>10
    <2>2. ASSUME r.tab # "projects" PROVE FALSE
      <3>1. r.tab \in Tables
        BY <2>1 DEF Stored
      <3>2. PICK k \in 1..12 : r.tab = t[k]
        BY <1>3, <2>2, <3>1
      <3>3. PICK s \in Elements(all \o last) : s = Delete(t[k], "tab", t[k])
        BY <1>4, <1>8, <3>2
      <3>4. r.tab = s.row.tab /\ r[s.ver] = s.row[s.ver]
        BY <1>2, <3>2, <3>3
      <3> QED
        BY <2>1, <3>4 DEF Deleted
    <2> QED
      BY <2>1, <2>2
  <1>12. q.op \in Ops
    BY DEF Ops
  <1>13. AreRows(new)
    BY <1>12, ResultIsRows DEF new
  <1>14. Closed(new)
    <2>1. \A r \in new : Refers(r, new)
      BY <1>11 DEF Refers, ItemTables
    <2>2. \A r \in new : r.tab \notin Owned
      BY <1>11 DEF Owned
    <2> QED
      BY <1>13, <2>1, <2>2, ClosedIs
  <1>15. \A g \in new : g.tab \in Tables /\ OfItems(g)
    BY <1>11 DEF Stored
  <1> QED
    BY <1>14, <1>15 DEF Keeps, new

\* A store holds each key once after every operation, and what its rows refer
\* to unless the operation is one of those that take it away.
LEMMA ChangeKeeps ==
    ASSUME NEW q, WellFormed(q), NEW img, Stored(img), Refusals(q, img) = {}
    PROVE  /\ Stored(After(q, img))
           /\ Closed(img) /\ ~Loosens(q, img) => Closed(After(q, img))
  <1>1. q.op \in Ops
    BY DEF WellFormed
  <1>2. Keeps(q, img)
    <2>1. CASE \E t \in Importable : q.op = CreateOp[t]
      BY <1>1, <2>1, CreationKeeps
    <2>2. CASE \E t \in Replaced \ {"handoffs"} : q.op = ReplaceOp[t]
      BY <1>1, <2>2, ReplacementKeeps
    <2>3. CASE q.op \in TransitionOps
      BY <1>1, <2>3, TransitionKeeps
    <2>4. CASE q.op \in {"RestoreHandoffSnapshot", "UpdateHandoff", "AcceptHandoffWithFollowUp",
                         "PromoteMemoryCandidate"}
      BY <1>1, <2>4, RestorationKeeps, HandoffChangeKeeps, PromotionKeeps
    <2>5. CASE q.op \in {"DeleteRole", "DeleteMemoryEntry", "DeleteMemoryCandidate"}
      BY <2>5, DeletionKeeps
    <2>6. CASE q.op \in {"DeleteHandoff", "DeleteAssignment", "DeleteWorkItem", "DeleteProject"}
      BY <2>6, HandoffDeletionKeeps, AssignmentDeletionKeeps, WorkItemDeletionKeeps,
         ProjectDeletionKeeps
    <2>7. \/ \E t \in Importable : q.op = CreateOp[t]
          \/ \E t \in Replaced \ {"handoffs"} : q.op = ReplaceOp[t]
          \/ q.op \in TransitionOps
          \/ q.op \in {"RestoreHandoffSnapshot", "UpdateHandoff", "AcceptHandoffWithFollowUp",
                       "PromoteMemoryCandidate"}
          \/ q.op \in {"DeleteRole", "DeleteMemoryEntry", "DeleteMemoryCandidate"}
          \/ q.op \in {"DeleteHandoff", "DeleteAssignment", "DeleteWorkItem", "DeleteProject"}
      <3> DEFINE rest == TransitionOps \cup {"RestoreHandoffSnapshot", "UpdateHandoff",
                 "AcceptHandoffWithFollowUp", "PromoteMemoryCandidate", "DeleteRole",
                 "DeleteMemoryEntry", "DeleteMemoryCandidate", "DeleteHandoff",
                 "DeleteAssignment", "DeleteWorkItem", "DeleteProject"}
                 creates == {"CreateProject", "CreateProjectSkill", "CreateRole",
                 "CreateWorkItem", "CreateAssignment", "CreateArtifact", "CreateEvidence",
                 "CreateReview", "CreateHandoff", "CreateMemoryEntry",
                 "CreateMemoryCandidate", "CreateAssistantProposal"}
                 updates == {"UpdateProject", "UpdateProjectSkill", "UpdateRole",
                 "UpdateWorkItem", "RestoreAssignmentSnapshot", "UpdateMemoryEntry",
                 "UpdateMemoryCandidate", "UpdateAssistantProposal"}
      <3>1. \A o \in creates : \E t \in Importable : o = CreateOp[t]
        BY DEF Importable, CreateOp
      <3>2. \A o \in updates : \E t \in Replaced \ {"handoffs"} : o = ReplaceOp[t]
        BY DEF Replaced, ReplaceOp
      <3>3. q.op \in rest \cup creates \cup updates
        BY <1>1 DEF Ops, TransitionOps
      <3> QED
        BY <3>1, <3>2, <3>3
    <2> QED
      BY <2>1, <2>2, <2>3, <2>4, <2>5, <2>6, <2>7
  <1>3. Keyed(Result(q, img)) /\ AreRows(Result(q, img))
    BY <1>1, ResultIsRows
  <1>4. After(q, img) = Result(q, img)
    BY DEF After, Result
  <1> QED
    BY <1>2, <1>3, <1>4 DEF Keeps, Stored

-----------------------------------------------------------------------------
(* The inductive invariant.                                                *)

\* What an export has listed by now, whatever became of the source meanwhile.
ReadTables == {ReadOrder[k] : k \in 1..(at - 1)}
Got(r) == IF r.tab \in PerItem
          THEN /\ at >= FirstOfItem /\ r.item \notin items
               /\ r.item = current => r.tab \in ReadTables
          ELSE r.tab \in ReadTables

\* While it reads, a snapshot holds what it has listed; if nothing changed, all
\* of that as it is in the source.
Reads ==
    phase = "reading" =>
        /\ left = {} /\ \A r \in snapshot : Got(r)
        /\ at <= 5 => items = {}
        /\ at >= FirstOfItem => current \notin items
        /\ quiet => snapshot \subseteq source
        /\ quiet /\ ~loosened =>
              /\ \A r \in source : r.tab \in Importable /\ Got(r) => r \in snapshot
              /\ at \in 6..8 => items = {r.id : r \in OfTable(source, "work_items")}

\* A snapshot holds a record once, but for a record that was seen under two
\* work items.
Holds ==
    /\ \A r, s \in snapshot : Key(r) = Key(s) /\ (r.tab \in PerItem => r.item = s.item) => r = s
    /\ quiet => Keyed(snapshot)
    /\ ~loosened => Closed(source)
    /\ phase # "reading" /\ quiet /\ ~loosened => Closed(snapshot)

\* What the import has written so far, of which tables, and what it left.
Rank == [projects |-> 1, project_skills |-> 2, roles |-> 3, work_items |-> 4,
         assignments |-> 5, artifacts |-> 6, evidence |-> 7, reviews |-> 8, handoffs |-> 9,
         memory_entries |-> 10, memory_candidates |-> 11, assistant_proposals |-> 12]
Imported == snapshot \ left
Imports ==
    Underway =>
        /\ NothingDangles
        /\ Keys(before) \subseteq Keys(target) /\ target \subseteq before \cup snapshot
        /\ \A r \in Imported : Key(r) \in Keys(target) /\ (r.tab \in Replaced => r \in target)
        /\ \A r \in before : r \in target \/ Key(r) \in Keys(Imported)
        /\ \A r \in Imported, s \in left : Rank[r.tab] <= Rank[s.tab]
        /\ phase = "done" => left = {}
        /\ phase = "replacing" =>
              /\ left # {} /\ NextRow.tab \in Replaced
              /\ Refusals(Ask(CreateOp[NextRow.tab], NextRow), target) = {"duplicate"}

IInv == TypeOK /\ Reads /\ Holds /\ Imports /\ RefusalExplained

-----------------------------------------------------------------------------
(* The order of an import.                                                 *)

\* NextRow of the rows l.
First(l) ==
    LET t == ImportOrder[CHOOSE k \in DOMAIN ImportOrder :
                            /\ OfTable(l, ImportOrder[k]) # {}
                            /\ \A j \in 1..(k - 1) : OfTable(l, ImportOrder[j]) = {}]
    IN CHOOSE r \in l : r.tab = t

LEMMA NextRowIs == NextRow = First(left) /\ NextRow' = First(left')
  BY DEF NextRow, First

LEMMA OrderIs ==
    /\ DOMAIN ImportOrder = 1..12
    /\ \A k \in 1..12 : Rank[ImportOrder[k]] = k
    /\ \A t \in Importable : Rank[t] \in 1..12 /\ ImportOrder[Rank[t]] = t
  <1>1. DOMAIN ImportOrder = 1..12
    BY DEF ImportOrder
  <1>2. \A k \in 1..12 : Rank[ImportOrder[k]] = k
    BY DEF ImportOrder, Rank
  <1>3. \A t \in Importable : Rank[t] \in 1..12 /\ ImportOrder[Rank[t]] = t
    BY DEF ImportOrder, Rank, Importable, CreateOp
  <1> QED
    BY <1>1, <1>2, <1>3

LEMMA FirstIs ==
    ASSUME NEW l, l # {}, \A r \in l : r.tab \in Importable
    PROVE  First(l) \in l /\ \A s \in l : Rank[First(l).tab] <= Rank[s.tab]
  <1> DEFINE Some(k) == OfTable(l, ImportOrder[k]) # {}
             T == {k \in 1..12 : Some(k)}
             Is(k) == Some(k) /\ \A j \in 1..(k - 1) : OfTable(l, ImportOrder[j]) = {}
             c == CHOOSE k \in DOMAIN ImportOrder : Is(k)
  <1>1. \A r \in l : Rank[r.tab] \in T /\ ImportOrder[Rank[r.tab]] = r.tab
    BY OrderIs DEF OfTable
  <1>2. T \subseteq Nat /\ T # {}
    BY <1>1
  <1> HIDE DEF T
  <1>3. PICK m \in T : \A k \in T : m <= k
    BY <1>2, LeastNatural
  <1>4. m \in DOMAIN ImportOrder /\ Is(m)
    <2>1. m \in 1..12 /\ Some(m)
      BY <1>3 DEF T
    <2>2. ASSUME NEW j \in 1..(m - 1) PROVE OfTable(l, ImportOrder[j]) = {}
      <3>1. j \notin T
        BY <1>3, <2>1
      <3>2. j \in 1..12
        BY <2>1
      <3> QED
        BY <3>1, <3>2 DEF T
    <2> QED
      BY <2>1, <2>2, OrderIs
  <1> HIDE DEF Is
  <1>5. c \in DOMAIN ImportOrder /\ Is(c)
    BY <1>4
  <1>6. First(l) = CHOOSE r \in l : r.tab = ImportOrder[c]
    BY DEF First, Is
  <1> HIDE DEF c
  <1>7. First(l) \in l /\ First(l).tab = ImportOrder[c]
    <2>1. \E r \in l : r.tab = ImportOrder[c]
      BY <1>5 DEF Is, OfTable
    <2> QED
      BY <1>6, <2>1
  <1>8. Rank[First(l).tab] = c /\ c \in 1..12
    BY <1>5, <1>7, OrderIs
  <1>9. ASSUME NEW s \in l PROVE c <= Rank[s.tab]
    <2>1. Rank[s.tab] \in 1..12 /\ OfTable(l, ImportOrder[Rank[s.tab]]) # {}
      BY <1>1 DEF T
    <2>2. ~(Rank[s.tab] \in 1..(c - 1))
      BY <1>5, <2>1 DEF Is
    <2> QED
      BY <1>8, <2>1, <2>2
  <1> QED
    BY <1>7, <1>8, <1>9

-----------------------------------------------------------------------------
(* One record of an import.                                                *)

LEMMA HasKey == ASSUME NEW img, NEW t, NEW i PROVE Has(img, t, i) <=> <<t, i>> \in Keys(img)
  BY DEF Has, Keys, Key

LEMMA RecordCreationMakes ==
    ASSUME NEW r, IsRow(r), r.tab \in Importable, NEW img
    PROVE  LET q == Ask(CreateOp[r.tab], r)
           IN /\ After(q, img) = img \cup {r}
              /\ Refusals(q, img) \subseteq {"duplicate", "notfound"}
              /\ "duplicate" \in Refusals(q, img) <=> Key(r) \in Keys(img)
              /\ "notfound" \notin Refusals(q, img) <=>
                    /\ Refers(r, img)
                    /\ r.item # None => Has(img, "work_items", r.item)
                    /\ r.tab \in Owned => OfTable(img, "projects") # {}
              /\ "notfound" \notin Refusals(q, img) =>
                    \A k \in DOMAIN Names(r) : Has(img, Names(r)[k].tab, Names(r)[k].id)
  <1> DEFINE q == Ask(CreateOp[r.tab], r)
  <1>1. /\ Operation(q, img) = Autocommit(Names(r), Insert(r))
        /\ AllFound(Names(r), img) <=> Refers(r, img)
    BY RecordCreation
  <1> HIDE DEF q
  <1>2. /\ After(q, img) = img \cup {r}
        /\ Refusals(q, img) \subseteq {"duplicate", "notfound"}
        /\ "duplicate" \in Refusals(q, img) <=> Has(img, r.tab, r.id)
        /\ "notfound" \notin Refusals(q, img) <=>
              /\ AllFound(Names(r), img)
              /\ r.item # None => Has(img, "work_items", r.item)
              /\ r.tab \in Owned => OfTable(img, "projects") # {}
    BY <1>1, InsertMakes DEF After, Result
  <1>3. AllFound(Names(r), img) =>
            \A k \in DOMAIN Names(r) : Has(img, Names(r)[k].tab, Names(r)[k].id)
    BY DEF AllFound, Found, Has
  <1>4. Key(r) \in Keys(img) <=> Has(img, r.tab, r.id)
    BY HasKey DEF Key
  <1> QED
    BY <1>1, <1>2, <1>3, <1>4 DEF q

\* A record that is there, and whose references are, is replaced, but for a
\* handoff that is under another work item.
LEMMA RecordReplacementMakes ==
    ASSUME NEW r, IsRow(r), r.tab \in Replaced, OfItems(r), NEW img,
           Refusals(Ask(CreateOp[r.tab], r), img) = {"duplicate"}
    PROVE  LET q == Ask(ReplaceOp[r.tab], r)
           IN /\ Refusals(q, img) = {} =>
                    After(q, img) = {s \in img : Key(s) # Key(r)} \cup {r}
              /\ Refusals(q, img) = {} <=>
                    (r.tab = "handoffs" => \E s \in img : Key(s) = Key(r) /\ s.item = r.item)
  <1> DEFINE q == Ask(ReplaceOp[r.tab], r)
             rest == {s \in img : ~(s.tab = r.tab /\ s.id = r.id)}
  <1>1. r.tab \in Importable
    BY DEF Replaced, ReplaceOp, Importable, CreateOp
  <1>2. Has(img, r.tab, r.id) /\ Refers(r, img)
    BY <1>1, RecordCreationMakes, HasKey DEF Key
  <1>3. \A s : Key(s) = Key(r) <=> s.tab = r.tab /\ s.id = r.id
    BY DEF Key
  <1>4. CASE r.tab # "handoffs"
    <2>1. PICK looks : /\ Operation(q, img) = Autocommit(looks, Put(r, None, "notfound"))
                       /\ AllFound(looks, img) <=> Refers(r, img)
      BY <1>4, RecordReplacement
    <2> HIDE DEF q
    <2>2. Result(q, img) = rest \cup {r} /\ Refusals(q, img) = {}
      BY <1>2, <2>1, PutMakes
    <2> QED
      BY <1>3, <1>4, <2>2 DEF After, Result, q
  <1>5. CASE r.tab = "handoffs"
    <2>1. q.op = "RestoreHandoffSnapshot" /\ Row(q, "handoffs") = r
      BY <1>5, AskIs DEF ReplaceOp
    <2>2. q.id = r.id /\ q.item = r.item
      BY <2>1, RowIsRow DEF Columns
    <2> HIDE DEF q
    <2>3. /\ Refusals(q, img) = {} <=>
                /\ Found([tab |-> "handoffs", id |-> r.id, item |-> r.item], img)
                /\ ValidHandoff(r, img)
          /\ Refusals(q, img) = {} => Result(q, img) = rest \cup {r}
      BY <2>1, <2>2, RestorationMakes
    <2>4. ValidHandoff(r, img)
      BY <1>2, <1>5, ValidHandoffIs DEF Refers
    <2>5. r.item # None
      BY <1>5 DEF OfItems, ItemTables
    <2>6. Found([tab |-> "handoffs", id |-> r.id, item |-> r.item], img)
             <=> \E s \in img : Key(s) = Key(r) /\ s.item = r.item
      BY <1>3, <1>5, <2>5 DEF Found
    <2> QED
      BY <1>3, <1>5, <2>3, <2>4, <2>6 DEF After, Result, q
  <1> QED
    BY <1>4, <1>5

-----------------------------------------------------------------------------
(* Why an import is refused.                                               *)

\* In a snapshot that has what it refers to, that comes before the record.
LEMMA NothingMissing ==
    ASSUME TypeOK, Imports, phase = "creating", left # {}, Closed(snapshot)
    PROVE  "notfound" \notin Refusals(Ask(CreateOp[NextRow.tab], NextRow), target)
  <1> DEFINE r == NextRow
  <1>1. /\ AreRows(snapshot) /\ left \subseteq snapshot
        /\ \A s \in snapshot : s.tab \in Importable /\ OfItems(s)
    BY DEF TypeOK
  <1>2. r \in left /\ \A s \in left : Rank[r.tab] <= Rank[s.tab]
    BY <1>1, NextRowIs, FirstIs
  <1>3. Underway
    BY DEF Underway
  <1> HIDE DEF r
  <1>4. IsRow(r) /\ r.tab \in Importable /\ OfItems(r) /\ r \in snapshot
    BY <1>1, <1>2 DEF AreRows
  <1>5. Refers(r, snapshot) /\ (r.tab \in Owned => OfTable(snapshot, "projects") # {})
    BY <1>1, <1>4, ClosedIs
  <1>6. ASSUME NEW s \in snapshot, Rank[s.tab] < Rank[r.tab], s.tab \in Replaced
        PROVE  s \in target
    <2>1. Rank[s.tab] \in 1..12 /\ Rank[r.tab] \in 1..12
      BY <1>1, <1>4, OrderIs
    <2>2. s \notin left
      BY <1>2, <1>6, <2>1
    <2>3. s \in Imported
      BY <2>2 DEF Imported
    <2> QED
      BY <1>3, <1>6, <2>3 DEF Imports
  <1>7. ASSUME NEW t \in {"work_items", "roles", "assignments"}, Rank[t] < Rank[r.tab],
               NEW i, NEW item, Resolves(t, i, item, snapshot)
        PROVE  Resolves(t, i, item, target)
    <2>1. t \in Replaced
      BY DEF Replaced, ReplaceOp
    <2> QED
      BY <1>6, <1>7, <2>1 DEF Resolves, Found
  <1>8. /\ r.tab \in ItemTables => Rank["work_items"] < Rank[r.tab]
        /\ r.tab \in {"artifacts", "evidence", "reviews", "handoffs"} =>
               Rank["assignments"] < Rank[r.tab]
        /\ r.tab \in {"assignments", "artifacts", "reviews", "handoffs"} =>
               Rank["roles"] < Rank[r.tab]
        /\ r.tab \in Owned => Rank["projects"] < Rank[r.tab]
    BY <1>4 DEF Rank, ItemTables, Owned, Importable, CreateOp
  <1>9. Refers(r, target)
    BY <1>5, <1>7, <1>8 DEF Refers, ItemTables
  <1>10. r.item # None => Has(target, "work_items", r.item)
    BY <1>4, <1>9 DEF Refers, OfItems, Resolves, Found, Has
  <1>11. r.tab \in Owned => OfTable(target, "projects") # {}
    <2>1. "projects" \in Replaced
      BY DEF Replaced, ReplaceOp
    <2> QED
      BY <1>5, <1>6, <1>8, <2>1 DEF OfTable
  <1> QED
    BY <1>4, <1>9, <1>10, <1>11, RecordCreationMakes DEF r

\* A snapshot of a store that did not change holds no two handoffs that clash.
LEMMA ClashIsOld ==
    ASSUME Keyed(snapshot), Clashes(before \cup snapshot)
    PROVE  Clashes(before)
  <1>1. PICK r \in OfTable(snapshot, "handoffs"), s \in OfTable(before \cup snapshot, "handoffs") :
            r.id = s.id /\ r.item # s.item
    BY DEF Clashes
  <1>2. s \notin snapshot
    BY <1>1 DEF Keyed, OfTable
  <1> QED
    BY <1>1, <1>2 DEF Clashes, OfTable

\* A proposal of the snapshot that no import accepts.
Spoilt == \E r \in snapshot : Malformed(r)

LEMMA RefusedFor ==
    ASSUME Holds, phase # "reading", ~Spoilt,
           ~Spoilt /\ Closed(snapshot) => Clashes(before \cup snapshot)
    PROVE  /\ Closed(snapshot) => Clashes(before \cup snapshot)
           /\ quiet /\ ~loosened => Clashes(before)
  BY ClashIsOld DEF Holds

-----------------------------------------------------------------------------
(* The steps of an import.                                                 *)

LEMMA StartImportStep ==
    ASSUME IInv, StartImport
    PROVE  IInv'
  <1> USE DEF IInv, StartImport, exporting, place, counts
  <1>1. TypeOK'
    BY DEF TypeOK, Stored, Keyed, AreRows, OfTable
  <1>2. Reads'
    BY DEF Reads
  <1>3. Holds'
    BY DEF Holds, Keyed, Closed, Key, OfTable
  <1>4. Imported' = {}
    BY DEF Imported
  <1>5. Imports'
    BY <1>4 DEF Imports, NothingDangles, Keys, Key
  <1>6. RefusalExplained'
    BY DEF RefusalExplained
  <1> QED
    BY <1>1, <1>2, <1>3, <1>5, <1>6

\* What stays when only the import moves.
LEMMA ImportLeaves ==
    ASSUME IInv, UNCHANGED <<source, exporting, before, loosened, counts>>,
           phase # "reading", phase' # "reading"
    PROVE  Reads' /\ Holds'
  <1>1. Reads'
    BY DEF Reads
  <1>2. Holds'
    BY DEF IInv, Holds, Keyed, Closed, Key, OfTable, exporting, place, counts
  <1> QED
    BY <1>1, <1>2

\* The next record was dealt with: the target holds its key, and, if it is one of
\* those replaced, the record itself, and no other key was lost.
Settled ==
    /\ phase \in {"creating", "replacing"} /\ left # {}
    /\ phase' = "creating" /\ left' = left \ {NextRow}
    /\ UNCHANGED <<source, exporting, before, loosened, counts>>
    /\ Stored(target') /\ Keys(target) \subseteq Keys(target')
    /\ Key(NextRow) \in Keys(target')
    /\ NextRow.tab \in Replaced => NextRow \in target'
    /\ target' \subseteq target \cup {NextRow}
    /\ \/ target' \subseteq target
       \/ \A k \in DOMAIN Names(NextRow) :
             Has(target', Names(NextRow)[k].tab, Names(NextRow)[k].id)
    /\ \A s \in target : s \in target' \/ (Key(s) = Key(NextRow) /\ s \notin Imported)

LEMMA RecordDone ==
    ASSUME IInv, Settled
    PROVE  IInv'
  <1> DEFINE r == NextRow
  <1>0. /\ phase \in {"creating", "replacing"} /\ left # {}
        /\ phase' = "creating" /\ left' = left \ {r}
        /\ UNCHANGED <<source, exporting, before, loosened, counts>>
        /\ Stored(target') /\ Keys(target) \subseteq Keys(target')
        /\ Key(r) \in Keys(target')
        /\ r.tab \in Replaced => r \in target'
        /\ target' \subseteq target \cup {r}
        /\ \/ target' \subseteq target
           \/ \A k \in DOMAIN Names(r) :
                 Has(target', Names(r)[k].tab, Names(r)[k].id)
        /\ \A s \in target : s \in target' \/ (Key(s) = Key(r) /\ s \notin Imported)
    BY DEF Settled
  <1>1. /\ AreRows(snapshot) /\ left \subseteq snapshot
        /\ \A s \in snapshot : s.tab \in Importable /\ OfItems(s)
    BY DEF TypeOK, IInv
  <1>2. r \in left /\ \A s \in left : Rank[r.tab] <= Rank[s.tab]
    BY <1>0, <1>1, NextRowIs, FirstIs
  <1>3. Underway /\ Underway' /\ phase \in {"creating", "replacing"}
    BY <1>0 DEF Underway
  <1> HIDE DEF r
  <1>4. Reads' /\ Holds'
    BY <1>0, <1>3, ImportLeaves DEF Underway
  <1>5. TypeOK'
    BY <1>0, <1>1 DEF IInv, TypeOK, Stored, Keyed, AreRows, OfTable, exporting, place, counts
  <1>6. Imported' = Imported \cup {r}
    BY <1>0, <1>1, <1>2 DEF Imported, exporting
  <1>7. NothingDangles'
    <2>1. \A s \in target \ before :
              \A k \in DOMAIN Names(s) : Has(target, Names(s)[k].tab, Names(s)[k].id)
      BY <1>3 DEF IInv, Imports, NothingDangles
    <2>2. ASSUME NEW t, NEW i, Has(target, t, i) PROVE Has(target', t, i)
      BY <1>0, <2>2, HasKey
    <2>3. ASSUME NEW s \in target', s \notin before, NEW k \in DOMAIN Names(s)
          PROVE  Has(target', Names(s)[k].tab, Names(s)[k].id)
      <3>1. CASE s \in target
        BY <2>1, <2>2, <2>3, <3>1
      <3>2. CASE s \notin target
        BY <1>0, <2>3, <3>2
      <3> QED
        BY <3>1, <3>2
    <2> QED
      BY <1>0, <2>3 DEF NothingDangles
  <1>8. Keys(before)' \subseteq Keys(target)' /\ target' \subseteq before' \cup snapshot'
    <2>1. Keys(before) \subseteq Keys(target) /\ target \subseteq before \cup snapshot
      BY <1>3 DEF IInv, Imports
    <2> QED
      BY <1>0, <1>1, <1>2, <2>1 DEF Keys, Key, exporting
  <1>9. \A s \in Imported' : Key(s) \in Keys(target') /\ (s.tab \in Replaced => s \in target')
    <2>1. \A s \in Imported : Key(s) \in Keys(target) /\ (s.tab \in Replaced => s \in target)
      BY <1>3 DEF IInv, Imports
    <2> QED
      BY <1>0, <1>6, <2>1
  <1>10. \A s \in before' : s \in target' \/ Key(s) \in Keys(Imported')
    <2>1. \A s \in before : s \in target \/ Key(s) \in Keys(Imported)
      BY <1>3 DEF IInv, Imports
    <2>2. Keys(Imported) \subseteq Keys(Imported') /\ Key(r) \in Keys(Imported')
      BY <1>6 DEF Keys
    <2> QED
      BY <1>0, <2>1, <2>2
  <1>11. \A s \in Imported', u \in left' : Rank[s.tab] <= Rank[u.tab]
    <2>1. \A s \in Imported, u \in left : Rank[s.tab] <= Rank[u.tab]
      BY <1>3 DEF IInv, Imports
    <2> QED
      BY <1>0, <1>2, <1>6, <2>1
  <1>12. Imports'
    BY <1>0, <1>7, <1>8, <1>9, <1>10, <1>11 DEF Imports, Keys, Key, Imported
  <1>13. RefusalExplained'
    BY <1>0 DEF RefusalExplained
  <1> QED
    BY <1>4, <1>5, <1>12, <1>13 DEF IInv

\* The record is still to be dealt with, or was refused.
LEMMA RecordWaits ==
    ASSUME IInv, phase \in {"creating", "replacing"}, left # {},
           phase' \in {"replacing", "refused"}, UNCHANGED <<target, left>>,
           UNCHANGED <<source, exporting, before, loosened, counts>>,
           phase' = "replacing" =>
               /\ NextRow.tab \in Replaced
               /\ Refusals(Ask(CreateOp[NextRow.tab], NextRow), target) = {"duplicate"},
           phase' = "refused" => (~Spoilt /\ Closed(snapshot) => Clashes(before \cup snapshot))
    PROVE  IInv'
  <1>1. Underway /\ Underway' /\ phase # "reading"
    BY DEF Underway
  <1>2. Reads' /\ Holds'
    BY ImportLeaves
  <1>3. TypeOK'
    BY DEF IInv, TypeOK, Stored, Keyed, AreRows, OfTable, exporting, place, counts
  <1>4. NextRow' = NextRow
    BY NextRowIs
  <1>5. /\ NothingDangles' /\ Keys(before)' \subseteq Keys(target)'
        /\ target' \subseteq before' \cup snapshot'
        /\ \A r \in Imported' : Key(r) \in Keys(target)' /\ (r.tab \in Replaced => r \in target')
        /\ \A r \in before' : r \in target' \/ Key(r) \in Keys(Imported)'
        /\ \A r \in Imported', s \in left' : Rank[r.tab] <= Rank[s.tab]
    <2>1. /\ NothingDangles /\ Keys(before) \subseteq Keys(target)
          /\ target \subseteq before \cup snapshot
          /\ \A r \in Imported : Key(r) \in Keys(target) /\ (r.tab \in Replaced => r \in target)
          /\ \A r \in before : r \in target \/ Key(r) \in Keys(Imported)
          /\ \A r \in Imported, s \in left : Rank[r.tab] <= Rank[s.tab]
      BY <1>1 DEF IInv, Imports
    <2> QED
      BY <2>1 DEF NothingDangles, Imported, Keys, Key, exporting
  <1>6. phase' = "replacing" =>
            /\ left' # {} /\ NextRow'.tab \in Replaced
            /\ Refusals(Ask(CreateOp[NextRow'.tab], NextRow'), target') = {"duplicate"}
    BY <1>4
  <1>7. Imports'
    BY <1>5, <1>6 DEF Imports
  <1>8. RefusalExplained'
    <2>1. phase' = "refused" /\ ~Spoilt =>
              /\ Closed(snapshot) => Clashes(before \cup snapshot)
              /\ quiet /\ ~loosened => Clashes(before)
      BY <1>1, RefusedFor DEF IInv
    <2>2. (Closed(snapshot) => Clashes(before \cup snapshot))'
              <=> (Closed(snapshot) => Clashes(before \cup snapshot))
      BY DEF Closed, Clashes, OfTable, exporting
    <2>3. (quiet /\ ~loosened => Clashes(before))' <=> (quiet /\ ~loosened => Clashes(before))
      BY DEF Clashes, OfTable, exporting
    <2>4. Spoilt' <=> Spoilt
      BY DEF Spoilt, Malformed, exporting
    <2> QED
      BY <2>1, <2>2, <2>3, <2>4 DEF RefusalExplained, Spoilt
  <1> QED
    BY <1>2, <1>3, <1>7, <1>8 DEF IInv

LEMMA CreateRecordStep ==
    ASSUME IInv, CreateRecord
    PROVE  IInv'
  <1> DEFINE r == NextRow
             q == Ask(CreateOp[r.tab], r)
             found == Refusals(q, target)
             no == found \cup (IF Malformed(r) THEN {"invalid"} ELSE {})
  <1>1. /\ phase = "creating" /\ left # {}
        /\ UNCHANGED <<source, exporting, before, loosened, counts>>
        /\ \/ no = {} /\ Written(q)
           \/ /\ no = {"duplicate"} /\ r.tab \in Replaced
              /\ phase' = "replacing" /\ UNCHANGED <<target, left>>
           \/ no = {"duplicate"} /\ r.tab \notin Replaced /\ Skipped
           \/ no \notin {{}, {"duplicate"}} /\ Refused
    BY DEF CreateRecord
  <1>2. /\ AreRows(snapshot) /\ left \subseteq snapshot /\ Stored(target)
        /\ \A s \in snapshot : s.tab \in Importable /\ OfItems(s)
    BY DEF TypeOK, IInv
  <1>3. r \in left
    BY <1>1, <1>2, NextRowIs, FirstIs
  <1>4. IsRow(r) /\ r.tab \in Importable /\ OfItems(r)
    BY <1>2, <1>3 DEF AreRows
  <1>5. /\ After(q, target) = target \cup {r}
        /\ found \subseteq {"duplicate", "notfound"}
        /\ "duplicate" \in found <=> Key(r) \in Keys(target)
        /\ "notfound" \notin found =>
              \A k \in DOMAIN Names(r) : Has(target, Names(r)[k].tab, Names(r)[k].id)
    BY <1>4, RecordCreationMakes
  <1>5a. /\ no = {} => found = {}
         /\ no = {"duplicate"} => found = {"duplicate"}
         /\ ~Malformed(r) => no = found
    OBVIOUS
  <1>6. CASE no = {} /\ Written(q)
    <2>1. /\ target' = target \cup {r} /\ left' = left \ {r} /\ phase' = "creating"
      BY <1>5, <1>6 DEF Written
    <2>2. Key(r) \notin Keys(target)
      BY <1>5, <1>6, <1>5a
    <2>3. Stored(target')
      <3>1. Keyed(target')
        BY <1>2, <2>1, <2>2 DEF Stored, Keyed, Keys, Key
      <3>2. r.tab \in Tables
        BY <1>4 DEF Importable, CreateOp, Tables, Owned
      <3> QED
        BY <1>2, <1>4, <2>1, <3>1, <3>2 DEF Stored, AreRows
    <2>4. Keys(target) \subseteq Keys(target') /\ Key(r) \in Keys(target') /\ r \in target'
      BY <2>1 DEF Keys
    <2>5. \A k \in DOMAIN Names(r) : Has(target', Names(r)[k].tab, Names(r)[k].id)
      BY <1>5, <1>6, <1>5a, <2>1 DEF Has
    <2> HIDE DEF q, no, found
    <2>6. Settled
      BY <1>1, <2>1, <2>3, <2>4, <2>5 DEF Settled
    <2> QED
      BY <2>6, RecordDone
  <1>7. CASE /\ no = {"duplicate"} /\ r.tab \in Replaced
             /\ phase' = "replacing" /\ UNCHANGED <<target, left>>
    BY <1>1, <1>7, <1>5a, RecordWaits
  <1>8. CASE no = {"duplicate"} /\ r.tab \notin Replaced /\ Skipped
    <2>1. target' = target /\ phase' = "creating" /\ left' = left \ {r}
      BY <1>1, <1>8 DEF Skipped
    <2>2. Key(r) \in Keys(target)
      BY <1>5, <1>8, <1>5a
    <2> HIDE DEF q, no, found
    <2>3. Settled
      BY <1>1, <1>2, <1>8, <2>1, <2>2 DEF Settled
    <2> QED
      BY <2>3, RecordDone
  <1>9. CASE no \notin {{}, {"duplicate"}} /\ Refused
    <2>1. phase' = "refused" /\ UNCHANGED <<target, left>>
      BY <1>9 DEF Refused
    <2>2. ASSUME ~Malformed(r) PROVE "notfound" \in found
      BY <1>5, <1>9, <1>5a, <2>2
    <2>3. Spoilt \/ ~Closed(snapshot)
      <3>1. CASE Malformed(r)
        BY <1>2, <1>3, <3>1 DEF Spoilt
      <3>2. CASE ~Malformed(r)
        BY <1>1, <2>2, <3>2, NothingMissing DEF IInv
      <3> QED
        BY <3>1, <3>2
    <2> HIDE DEF r, q, no, found
    <2> QED
      BY <1>1, <2>1, <2>3, RecordWaits
  <1> QED
    BY <1>1, <1>6, <1>7, <1>8, <1>9

LEMMA ReplaceRecordStep ==
    ASSUME IInv, ReplaceRecord
    PROVE  IInv'
  <1> DEFINE r == NextRow
             q == Ask(ReplaceOp[r.tab], r)
  <1>1. /\ phase = "replacing" /\ UNCHANGED <<source, exporting, before, loosened, counts>>
        /\ IF Refusals(q, target) = {} THEN Written(q) ELSE Refused
    BY DEF ReplaceRecord
  <1>2. /\ AreRows(snapshot) /\ left \subseteq snapshot /\ Stored(target)
        /\ \A s \in snapshot : s.tab \in Importable /\ OfItems(s)
    BY DEF TypeOK, IInv
  <1>3. Underway
    BY <1>1 DEF Underway
  <1>4. /\ left # {} /\ r.tab \in Replaced
        /\ Refusals(Ask(CreateOp[r.tab], r), target) = {"duplicate"}
    BY <1>1, <1>3 DEF IInv, Imports
  <1>5. r \in left
    BY <1>2, <1>4, NextRowIs, FirstIs
  <1>6. IsRow(r) /\ r.tab \in Importable /\ OfItems(r) /\ r \in snapshot
    BY <1>2, <1>5 DEF AreRows
  <1>7. /\ Refusals(q, target) = {} => After(q, target) = {s \in target : Key(s) # Key(r)} \cup {r}
        /\ Refusals(q, target) = {} <=>
              (r.tab = "handoffs" => \E s \in target : Key(s) = Key(r) /\ s.item = r.item)
    BY <1>4, <1>6, RecordReplacementMakes
  <1>8. /\ Key(r) \in Keys(target)
        /\ \A k \in DOMAIN Names(r) : Has(target, Names(r)[k].tab, Names(r)[k].id)
    BY <1>4, <1>6, RecordCreationMakes
  <1>9. CASE Refusals(q, target) = {}
    <2>1. /\ target' = {s \in target : Key(s) # Key(r)} \cup {r}
          /\ left' = left \ {r} /\ phase' = "creating"
      BY <1>1, <1>7, <1>9 DEF Written
    <2>2. Stored(target')
      <3>1. Keyed(target')
        BY <1>2, <2>1 DEF Stored, Keyed, Key
      <3>2. r.tab \in Tables
        BY <1>6 DEF Importable, CreateOp, Tables, Owned
      <3> QED
        BY <1>2, <1>6, <2>1, <3>1, <3>2 DEF Stored, AreRows
    <2>3. Keys(target) \subseteq Keys(target') /\ Key(r) \in Keys(target') /\ r \in target'
      BY <2>1 DEF Keys
    <2>4. \A k \in DOMAIN Names(r) : Has(target', Names(r)[k].tab, Names(r)[k].id)
      BY <1>8, <2>3, HasKey
    <2>5. ASSUME NEW s \in target, s \notin target' PROVE Key(s) = Key(r) /\ s \notin Imported
      <3>1. Key(s) = Key(r) /\ s # r
        BY <2>1, <2>5
      <3>2. ASSUME s \in snapshot, s \notin left PROVE FALSE
        <4>1. ~(r.tab \in PerItem => r.item = s.item)
          BY <1>6, <3>1, <3>2 DEF IInv, Holds
        <4>2. r.tab = "handoffs"
          BY <1>4, <4>1 DEF PerItem, Replaced, ReplaceOp
        <4>3. PICK u \in target : Key(u) = Key(r) /\ u.item = r.item
          BY <1>7, <1>9, <4>2
        <4>4. u = s
          BY <1>2, <3>1, <4>3 DEF Stored, Keyed, Key
        <4> QED
          BY <4>1, <4>3, <4>4
      <3> QED
        BY <3>1, <3>2 DEF Imported
    <2> HIDE DEF q
    <2>6. target' \subseteq target \cup {r}
      BY <2>1
    <2>7. Settled
      BY <1>1, <1>4, <2>1, <2>2, <2>3, <2>4, <2>5, <2>6 DEF Settled
    <2> QED
      BY <2>7, RecordDone
  <1>10. CASE Refusals(q, target) # {}
    <2>1. phase' = "refused" /\ UNCHANGED <<target, left>>
      BY <1>1, <1>10 DEF Refused
    <2>2. r.tab = "handoffs" /\ ~\E s \in target : Key(s) = Key(r) /\ s.item = r.item
      BY <1>7, <1>10
    <2>3. PICK s \in target : Key(s) = Key(r)
      BY <1>8 DEF Keys
    <2>4. s \in before \cup snapshot
      BY <1>3 DEF IInv, Imports
    <2>5. s.tab = "handoffs" /\ s.id = r.id /\ s.item # r.item
      BY <2>2, <2>3 DEF Key
    <2>6. Clashes(before \cup snapshot)
      BY <1>6, <2>2, <2>4, <2>5 DEF Clashes, OfTable
    <2> HIDE DEF r, q
    <2> QED
      BY <1>1, <1>4, <2>1, <2>6, RecordWaits
  <1> QED
    BY <1>9, <1>10
-----------------------------------------------------------------------------
(* The steps of an export.                                                 *)

\* Where the list of a table comes in an export.
Turn == [projects |-> 1, assistant_proposals |-> 2, project_skills |-> 3, roles |-> 4,
         work_items |-> 5, assignments |-> 6, memory_entries |-> 7, memory_candidates |-> 8,
         artifacts |-> 9, evidence |-> 10, reviews |-> 11, handoffs |-> 12]

LEMMA TurnIs ==
    /\ DOMAIN ReadOrder = 1..12
    /\ \A k \in 1..12 : ReadOrder[k] \in Importable /\ Turn[ReadOrder[k]] = k
    /\ \A t \in Importable : /\ Turn[t] \in 1..12 /\ ReadOrder[Turn[t]] = t
                             /\ t \in PerItem <=> Turn[t] >= FirstOfItem
                             /\ t \in ItemTables => Turn[t] > 5
  <1>1. DOMAIN ReadOrder = 1..12
    BY DEF ReadOrder
  <1>2. \A k \in 1..12 : ReadOrder[k] \in Importable /\ Turn[ReadOrder[k]] = k
    BY DEF ReadOrder, Turn, Importable, CreateOp
  <1>3. \A t \in Importable : /\ Turn[t] \in 1..12 /\ ReadOrder[Turn[t]] = t
                              /\ t \in PerItem <=> Turn[t] >= FirstOfItem
                              /\ t \in ItemTables => Turn[t] > 5
    BY DEF ReadOrder, Turn, Importable, CreateOp, PerItem, FirstOfItem, ItemTables
  <1> QED
    BY <1>1, <1>2, <1>3

\* Which records have been listed, by the turn of their table.
Passed(r, k, c, i) ==
    IF Turn[r.tab] >= 9 THEN k >= 9 /\ r.item \notin i /\ (r.item = c => Turn[r.tab] < k)
    ELSE Turn[r.tab] < k

LEMMA GotIs ==
    ASSUME NEW r, r.tab \in Importable
    PROVE  /\ at \in 1..12 => (Got(r) <=> Passed(r, at, current, items))
           /\ at' \in 1..12 => (Got(r)' <=> Passed(r, at', current', items'))
  <1>1. \A k \in 1..12 : r.tab \in {ReadOrder[j] : j \in 1..(k - 1)} <=> Turn[r.tab] < k
    <2>1. ASSUME NEW k \in 1..12, NEW j \in 1..(k - 1), r.tab = ReadOrder[j]
          PROVE  Turn[r.tab] < k
      <3>1. j \in 1..12
        OBVIOUS
      <3> QED
        BY <2>1, <3>1, TurnIs
    <2>2. ASSUME NEW k \in 1..12, Turn[r.tab] < k
          PROVE  \E j \in 1..(k - 1) : r.tab = ReadOrder[j]
      <3>1. Turn[r.tab] \in 1..(k - 1)
        BY <2>2, TurnIs
      <3> QED
        BY <3>1, TurnIs
    <2> QED
      BY <2>1, <2>2
  <1>2. r.tab \in PerItem <=> Turn[r.tab] >= 9
    BY TurnIs DEF FirstOfItem
  <1>3. at \in 1..12 => (Got(r) <=> Passed(r, at, current, items))
    BY <1>1, <1>2 DEF Got, ReadTables, Passed, FirstOfItem
  <1>4. at' \in 1..12 => (Got(r)' <=> Passed(r, at', current', items'))
    BY <1>1, <1>2 DEF Got, ReadTables, Passed, FirstOfItem
  <1> QED
    BY <1>3, <1>4

\* The list that is read, by its turn.
LEMMA ListedIs ==
    ASSUME at \in 1..12
    PROVE  /\ Turn[Table] = at /\ Table \in Importable
           /\ \A r : r.tab \in Importable => (r.tab = Table <=> Turn[r.tab] = at)
           /\ \A r : r \in Listed <=> /\ r \in source /\ r.tab = Table
                                      /\ at >= 9 => r.item = current
           /\ at = 5 => Listed = OfTable(source, "work_items")
           /\ at = 5 <=> Table = "work_items"
           /\ Last <=> \/ at \in {8, 12}
                       \/ at = 2 /\ OfTable(snapshot, "projects") = {}
  <1>1. Turn[Table] = at /\ Table \in Importable
    BY TurnIs DEF Table
  <1>2. \A r : r.tab \in Importable => (r.tab = Table <=> Turn[r.tab] = at)
    BY <1>1, TurnIs DEF Table
  <1>3. Table \in PerItem <=> at >= 9
    BY <1>1, TurnIs DEF FirstOfItem
  <1>4. \A t \in Importable : t = Table <=> Turn[t] = at
    BY <1>1, TurnIs DEF Table
  <1>5. /\ "work_items" \in Importable /\ Turn["work_items"] = 5
        /\ "handoffs" \in Importable /\ Turn["handoffs"] = 12
        /\ "memory_candidates" \in Importable /\ Turn["memory_candidates"] = 8
        /\ "assistant_proposals" \in Importable /\ Turn["assistant_proposals"] = 2
    BY DEF Importable, CreateOp, Turn
  <1>6. /\ Table = "work_items" <=> at = 5
        /\ Table = "handoffs" <=> at = 12
        /\ Table = "memory_candidates" <=> at = 8
        /\ Table = "assistant_proposals" <=> at = 2
    BY <1>4, <1>5
  <1>7. \A r : r \in Listed <=> /\ r \in source /\ r.tab = Table
                                /\ at >= 9 => r.item = current
    BY <1>3 DEF Listed
  <1>8. at = 5 => Listed = OfTable(source, "work_items")
    BY <1>6, <1>7 DEF OfTable
  <1>9. Last <=> at \in {8, 12} \/ (at = 2 /\ OfTable(snapshot, "projects") = {})
    BY <1>6 DEF Last
  <1> QED
    BY <1>1, <1>2, <1>6, <1>7, <1>8, <1>9

\* What a list adds to the snapshot keeps of it what Holds says of the records.
LEMMA ListAdds ==
    ASSUME IInv, ReadList
    PROVE  /\ AreRows(snapshot') /\ \A r \in snapshot' : r.tab \in Importable /\ OfItems(r)
           /\ \A r, s \in snapshot' :
                 Key(r) = Key(s) /\ (r.tab \in PerItem => r.item = s.item) => r = s
           /\ quiet => snapshot' \subseteq source
           /\ quiet => Keyed(snapshot')
           /\ at \in 1..12
  <1>1. /\ Stored(source) /\ AreRows(snapshot)
        /\ \A r \in snapshot : r.tab \in Importable /\ OfItems(r)
    BY DEF IInv, TypeOK
  <1>2. at \in 1..12 /\ phase = "reading"
    BY TurnIs DEF IInv, TypeOK, ReadList
  <1>3. /\ \A r \in snapshot : Got(r)
        /\ quiet => snapshot \subseteq source
    BY <1>2 DEF IInv, Reads
  <1>4. snapshot' = snapshot \cup Listed
    BY DEF ReadList
  <1>5. \A r \in Listed : /\ r \in source /\ r.tab = Table /\ r.tab \in Importable
                          /\ Turn[r.tab] = at /\ (at >= 9 => r.item = current)
    BY <1>2, ListedIs
  <1>6. \A r \in snapshot' : IsRow(r) /\ r.tab \in Importable /\ OfItems(r)
    BY <1>1, <1>4, <1>5 DEF Stored, AreRows
  <1>7. ASSUME NEW r \in snapshot, NEW s \in Listed, Key(r) = Key(s),
               r.tab \in PerItem => r.item = s.item
        PROVE  FALSE
    <2>1. r.tab = s.tab /\ Turn[r.tab] = at /\ r.tab \in Importable
      BY <1>5, <1>7 DEF Key
    <2>2. Passed(r, at, current, items)
      BY <1>2, <1>3, <2>1, GotIs
    <2>3. at >= 9 => r.item = current
      BY <1>2, <1>5, <1>7, <2>1, TurnIs DEF FirstOfItem
    <2> QED
      BY <1>2, <2>1, <2>2, <2>3 DEF Passed
  <1>8. ASSUME NEW r \in snapshot', NEW s \in snapshot', Key(r) = Key(s),
               r.tab \in PerItem => r.item = s.item
        PROVE  r = s
    <2>1. CASE r \in snapshot /\ s \in snapshot
      BY <1>8, <2>1 DEF IInv, Holds
    <2>2. CASE r \in Listed /\ s \in Listed
      BY <1>1, <1>5, <1>8, <2>2 DEF Stored, Keyed, Key
    <2>3. CASE r \in snapshot /\ s \in Listed
      BY <1>7, <1>8, <2>3
    <2>4. CASE s \in snapshot /\ r \in Listed
      <3>1. s.tab = r.tab
        BY <1>8 DEF Key
      <3> QED
        BY <1>7, <1>8, <2>4, <3>1
    <2> QED
      BY <1>4, <2>1, <2>2, <2>3, <2>4
  <1>9. quiet => snapshot' \subseteq source
    BY <1>3, <1>4, <1>5
  <1>10. quiet => Keyed(snapshot')
    BY <1>1, <1>9 DEF Stored, Keyed
  <1> QED
    BY <1>2, <1>6, <1>8, <1>9, <1>10 DEF AreRows

\* Of a source with nothing dangling: what no work item has, or no project, is
\* not there.
LEMMA OfNothing ==
    ASSUME Stored(source), Closed(source)
    PROVE  /\ \A r \in source : r.tab \in ItemTables =>
                 r.item \in {s.id : s \in OfTable(source, "work_items")}
           /\ OfTable(source, "projects") = {} =>
                 \A r \in source : r.tab \in Importable => r.tab = "assistant_proposals"
  <1>1. /\ \A r \in source : Refers(r, source)
        /\ \A r \in source : r.tab \in Owned => OfTable(source, "projects") # {}
    BY ClosedIs DEF Stored
  <1>2. ASSUME NEW r \in source, r.tab \in ItemTables
        PROVE  r.item \in {s.id : s \in OfTable(source, "work_items")}
    <2>1. Resolves("work_items", r.item, None, source) /\ r.item # None
      BY <1>1, <1>2 DEF Refers, Stored, OfItems
    <2>2. PICK s \in source : s.tab = "work_items" /\ s.id = r.item
      BY <2>1 DEF Resolves, Found
    <2> QED
      BY <2>2 DEF OfTable
  <1>3. ASSUME NEW r \in source, r.tab \in Importable, OfTable(source, "projects") = {}
        PROVE  r.tab = "assistant_proposals"
    <2>1. r.tab \notin Owned /\ r.tab # "projects"
      BY <1>1, <1>3 DEF OfTable
    <2> QED
      BY <1>3, <2>1 DEF Importable, CreateOp, Owned
  <1> QED
    BY <1>2, <1>3

\* The next list of the store, of its project or of a work item.
LEMMA NextListStep ==
    ASSUME IInv, ReadList, NextList
    PROVE  Reads' /\ phase' = "reading" /\ at' \in 1..12
           /\ items' \cup ({current'} \ {None}) \subseteq {r.id : r \in OfTable(snapshot', "work_items")}
  <1>1. /\ at \in 1..12 /\ phase = "reading"
        /\ snapshot' = snapshot \cup Listed
        /\ quiet => snapshot' \subseteq source
        /\ \A r \in snapshot' : r.tab \in Importable
        /\ UNCHANGED <<source, quiet, loosened>> /\ left' = {}
    BY ListAdds DEF ReadList, importing, IInv, Reads
  <1>2. /\ ~Last /\ at' = at + 1 /\ current' = current /\ phase' = "reading"
        /\ items' = IF at = 5 THEN {r.id : r \in Listed} ELSE items
    BY <1>1, ListedIs DEF NextList
  <1>3. at' \in 1..12 /\ at # 8 /\ at # 12
    BY <1>1, <1>2, ListedIs
  <1>4. /\ \A r \in snapshot : Got(r)
        /\ at <= 5 => items = {}
        /\ at >= 9 => current \notin items
        /\ quiet /\ ~loosened =>
              /\ \A r \in source : r.tab \in Importable /\ Got(r) => r \in snapshot
              /\ at \in 6..8 => items = {r.id : r \in OfTable(source, "work_items")}
    BY <1>1 DEF IInv, Reads, FirstOfItem
  <1>5. ASSUME NEW r \in snapshot' PROVE Got(r)'
    <2>1. \/ Passed(r, at, current, items)
          \/ Turn[r.tab] = at /\ (at >= 9 => r.item = current)
      BY <1>1, <1>4, GotIs, ListedIs
    <2>2. Turn[r.tab] \in 1..12
      BY <1>1, TurnIs
    <2>3. Passed(r, at', current', items')
      BY <1>1, <1>2, <1>3, <1>4, <2>1, <2>2 DEF Passed
    <2> QED
      BY <1>1, <1>3, <2>3, GotIs
  <1>6. ASSUME quiet, ~loosened, NEW r \in source, r.tab \in Importable, Got(r)'
        PROVE  r \in snapshot'
    <2>1. Passed(r, at', current', items')
      BY <1>3, <1>6, GotIs
    <2>2. Turn[r.tab] \in 1..12
      BY <1>6, TurnIs
    <2>3. \/ Passed(r, at, current, items)
          \/ Turn[r.tab] = at /\ (at >= 9 => r.item = current)
      BY <1>1, <1>2, <1>3, <2>1, <2>2 DEF Passed
    <2>4. CASE Passed(r, at, current, items)
      BY <1>1, <1>4, <1>6, <2>4, GotIs
    <2>5. CASE Turn[r.tab] = at /\ (at >= 9 => r.item = current)
      BY <1>1, <1>6, <2>5, ListedIs
    <2> QED
      BY <2>3, <2>4, <2>5
  <1>7. /\ at' <= 5 => items' = {}
        /\ at' >= 9 => current' \notin items'
    BY <1>1, <1>2, <1>3, <1>4
  <1>8. quiet /\ ~loosened =>
            (at' \in 6..8 => items' = {r.id : r \in OfTable(source, "work_items")})
    BY <1>1, <1>2, <1>3, <1>4, ListedIs
  <1>9. items' \cup ({current'} \ {None}) \subseteq {r.id : r \in OfTable(snapshot', "work_items")}
    <2>1. items \cup ({current} \ {None}) \subseteq {r.id : r \in OfTable(snapshot, "work_items")}
      BY DEF IInv, TypeOK
    <2>2. at = 5 => Listed = OfTable(source, "work_items")
      BY <1>1, ListedIs
    <2> QED
      BY <1>1, <1>2, <2>1, <2>2 DEF OfTable
  <1>10. Reads'
    BY <1>1, <1>5, <1>6, <1>7, <1>8 DEF Reads, FirstOfItem, OfTable
  <1> QED
    BY <1>2, <1>3, <1>9, <1>10

\* The first list of the next work item.
LEMMA NextItemStep ==
    ASSUME IInv, ReadList, NextItem
    PROVE  Reads' /\ phase' = "reading" /\ at' \in 1..12
           /\ items' \cup ({current'} \ {None}) \subseteq {r.id : r \in OfTable(snapshot', "work_items")}
  <1>1. /\ at \in 1..12 /\ phase = "reading"
        /\ snapshot' = snapshot \cup Listed
        /\ quiet => snapshot' \subseteq source
        /\ \A r \in snapshot' : r.tab \in Importable
        /\ UNCHANGED <<source, quiet, loosened>> /\ left' = {}
    BY ListAdds DEF ReadList, importing, IInv, Reads
  <1>2. /\ Last /\ at' = 9 /\ current' \in items /\ items' = items \ {current'}
        /\ phase' = "reading"
    BY <1>1 DEF NextItem, FirstOfItem
  <1>3. /\ \A r \in snapshot : Got(r)
        /\ at <= 5 => items = {}
        /\ at >= 9 => current \notin items
        /\ quiet /\ ~loosened =>
              /\ \A r \in source : r.tab \in Importable /\ Got(r) => r \in snapshot
              /\ at \in 6..8 => items = {r.id : r \in OfTable(source, "work_items")}
    BY <1>1 DEF IInv, Reads, FirstOfItem
  <1>4. at \in {8, 12}
    BY <1>1, <1>2, <1>3, ListedIs
  <1>5. ASSUME NEW r \in snapshot' PROVE Got(r)'
    <2>1. \/ Passed(r, at, current, items)
          \/ Turn[r.tab] = at /\ (at >= 9 => r.item = current)
      BY <1>1, <1>3, GotIs, ListedIs
    <2>2. Turn[r.tab] \in 1..12
      BY <1>1, TurnIs
    <2>3. Passed(r, at', current', items')
      BY <1>2, <1>3, <1>4, <2>1, <2>2 DEF Passed
    <2>4. at' \in 1..12 /\ r.tab \in Importable
      BY <1>1, <1>2
    <2> QED
      BY <2>3, <2>4, GotIs
  <1>6. ASSUME quiet, ~loosened, NEW r \in source, r.tab \in Importable, Got(r)'
        PROVE  r \in snapshot'
    <2>1. Passed(r, 9, current', items')
      BY <1>2, <1>6, GotIs
    <2>2. Turn[r.tab] \in 1..12
      BY <1>6, TurnIs
    <2>3. Turn[r.tab] >= 9 => r.item \notin items
      BY <1>2, <2>1, <2>2 DEF Passed
    <2>4. at = 8 => Turn[r.tab] < 9
      <3>1. /\ Stored(source) /\ Closed(source)
        BY <1>6 DEF IInv, TypeOK, Holds
      <3>2. Turn[r.tab] >= 9 => r.tab \in ItemTables
        BY <1>6, TurnIs DEF FirstOfItem, PerItem, ItemTables
      <3>3. at = 8 => items = {s.id : s \in OfTable(source, "work_items")}
        BY <1>3, <1>6
      <3>4. at = 8 => (r.tab \in ItemTables => r.item \in items)
        BY <1>6, <3>1, <3>3, OfNothing
      <3> QED
        BY <2>2, <2>3, <3>2, <3>4
    <2>5. \/ Passed(r, at, current, items)
          \/ Turn[r.tab] = at /\ (at >= 9 => r.item = current)
      BY <1>4, <2>2, <2>3, <2>4 DEF Passed
    <2>6. CASE Passed(r, at, current, items)
      BY <1>1, <1>3, <1>6, <2>6, GotIs
    <2>7. CASE Turn[r.tab] = at /\ (at >= 9 => r.item = current)
      BY <1>1, <1>6, <2>7, ListedIs
    <2> QED
      BY <2>5, <2>6, <2>7
  <1>7. items' \cup ({current'} \ {None}) \subseteq {r.id : r \in OfTable(snapshot', "work_items")}
    <2>1. items \subseteq {r.id : r \in OfTable(snapshot, "work_items")}
      BY DEF IInv, TypeOK
    <2> QED
      BY <1>1, <1>2, <2>1 DEF OfTable
  <1>8. Reads'
    BY <1>1, <1>2, <1>5, <1>6 DEF Reads, FirstOfItem
  <1> QED
    BY <1>2, <1>7, <1>8

\* The last list: the snapshot of a store that did not change is all of it.
LEMMA EndExportStep ==
    ASSUME IInv, ReadList, EndExport
    PROVE  quiet /\ ~loosened => Closed(snapshot')
  <1> SUFFICES ASSUME quiet, ~loosened PROVE Closed(snapshot')
    OBVIOUS
  <1>1. /\ at \in 1..12 /\ phase = "reading" /\ AreRows(snapshot')
        /\ snapshot' = snapshot \cup Listed /\ snapshot' \subseteq source
    BY ListAdds DEF ReadList
  <1>2. Last /\ items = {}
    BY DEF EndExport
  <1>3. /\ \A r \in source : r.tab \in Importable /\ Got(r) => r \in snapshot
        /\ at \in 6..8 => OfTable(source, "work_items") = {}
    BY <1>1, <1>2 DEF IInv, Reads
  <1>4. Stored(source) /\ Closed(source)
    BY DEF IInv, TypeOK, Holds
  <1>5. \/ at \in {8, 12}
        \/ at = 2 /\ OfTable(snapshot, "projects") = {}
    BY <1>1, <1>2, ListedIs
  <1>6. ASSUME NEW r \in source, r.tab \in Importable PROVE r \in snapshot'
    <2>1. Turn[r.tab] \in 1..12
      BY <1>6, TurnIs
    <2>2. CASE at = 2
      <3>1. /\ "projects" \in Importable /\ Turn["projects"] = 1
            /\ Turn["assistant_proposals"] = 2
        BY DEF Importable, CreateOp, Turn
      <3>2. \A s \in source : s.tab = "projects" => Got(s)
        BY <2>2, <3>1, GotIs DEF Passed
      <3>3. OfTable(source, "projects") = {}
        BY <1>3, <1>5, <2>2, <3>1, <3>2 DEF OfTable
      <3>4. r.tab = "assistant_proposals"
        BY <1>4, <1>6, <3>3, OfNothing
      <3> QED
        BY <1>1, <1>6, <2>2, <3>1, <3>4, ListedIs
    <2>3. CASE at = 8
      <3>1. Turn[r.tab] >= 9 => r.tab \in ItemTables
        BY <1>6, TurnIs DEF FirstOfItem, PerItem, ItemTables
      <3>2. Turn[r.tab] < 9
        BY <1>3, <1>4, <2>1, <2>3, <3>1, OfNothing
      <3>3. Passed(r, at, current, items) \/ Turn[r.tab] = at
        BY <2>1, <2>3, <3>2 DEF Passed
      <3> QED
        BY <1>1, <1>3, <1>6, <2>3, <3>3, GotIs, ListedIs
    <2>4. CASE at = 12
      <3>1. \/ Passed(r, at, current, items)
            \/ Turn[r.tab] = at /\ r.item = current
        BY <1>2, <2>1, <2>4 DEF Passed
      <3> QED
        BY <1>1, <1>3, <1>6, <2>4, <3>1, GotIs, ListedIs
    <2> QED
      BY <1>5, <2>2, <2>3, <2>4
  <1>7. Stays(source, snapshot')
    BY <1>6 DEF Stays, Importable, CreateOp
  <1>8. \A r \in snapshot' : r \in source
    BY <1>1
  <1> QED
    BY <1>1, <1>4, <1>7, <1>8, ClosedYet DEF Stored

LEMMA ReadListStep ==
    ASSUME IInv, ReadList
    PROVE  IInv'
  <1>1. /\ phase = "reading" /\ snapshot' = snapshot \cup Listed
        /\ UNCHANGED <<source, target, left, before, quiet, loosened, changes, exports>>
        /\ NextList \/ NextItem \/ EndExport
    BY DEF ReadList, importing, counts
  <1>1a. admitted' \in BOOLEAN /\ ~admitted'
    BY DEF ReadList
  <1>2. /\ AreRows(snapshot') /\ \A r \in snapshot' : r.tab \in Importable /\ OfItems(r)
        /\ \A r, s \in snapshot' :
              Key(r) = Key(s) /\ (r.tab \in PerItem => r.item = s.item) => r = s
        /\ quiet => Keyed(snapshot')
    BY ListAdds
  <1>3. CASE NextList \/ NextItem
    <2>1. /\ Reads' /\ phase' = "reading" /\ at' \in 1..12
          /\ items' \cup ({current'} \ {None}) \subseteq {r.id : r \in OfTable(snapshot', "work_items")}
      BY <1>3, NextListStep, NextItemStep
    <2>2. TypeOK'
      BY <1>1, <1>2, <1>1a, <2>1, TurnIs DEF IInv, TypeOK, Stored, Keyed, AreRows, OfTable
    <2>3. Holds'
      BY <1>1, <1>2, <2>1 DEF IInv, Holds, Closed, Keyed, Key, OfTable
    <2>4. Imports' /\ RefusalExplained'
      BY <2>1 DEF Imports, Underway, RefusalExplained
    <2> QED
      BY <2>1, <2>2, <2>3, <2>4 DEF IInv
  <1>4. CASE EndExport
    <2>1. phase' = "held" /\ at' = 0 /\ current' = None /\ items' = {}
      BY <1>4 DEF EndExport
    <2>2. quiet /\ ~loosened => Closed(snapshot')
      BY <1>4, EndExportStep
    <2>3. TypeOK'
      BY <1>1, <1>2, <1>1a, <2>1 DEF IInv, TypeOK, Stored, Keyed, AreRows, OfTable
    <2>4. Holds'
      <3>1. ~loosened => Closed(source)
        BY DEF IInv, Holds
      <3>2. (~loosened => Closed(source))'
        BY <1>1, <3>1 DEF Closed, OfTable
      <3>3. (\A r, s \in snapshot :
                 Key(r) = Key(s) /\ (r.tab \in PerItem => r.item = s.item) => r = s)'
        BY <1>2 DEF Key
      <3>4. (quiet => Keyed(snapshot))'
        BY <1>1, <1>2 DEF Keyed
      <3>5. (phase # "reading" /\ quiet /\ ~loosened => Closed(snapshot))'
        BY <1>1, <2>2 DEF Closed, OfTable
      <3> QED
        BY <3>2, <3>3, <3>4, <3>5 DEF Holds
    <2>5. Reads' /\ Imports' /\ RefusalExplained'
      BY <2>1 DEF Reads, Imports, Underway, RefusalExplained
    <2> QED
      BY <2>3, <2>4, <2>5 DEF IInv
  <1> QED
    BY <1>1, <1>3, <1>4

\* A list that found its project or its work item has read nothing yet.
LEMMA AdmitListStep ==
    ASSUME IInv, AdmitList
    PROVE  IInv'
  <1>1. /\ phase = "reading" /\ admitted' = TRUE
        /\ UNCHANGED <<source, target, phase, at, current, items, snapshot, quiet, left, before,
                       loosened, changes, exports>>
    BY DEF AdmitList, importing, counts
  <1>2. TypeOK'
    BY <1>1 DEF IInv, TypeOK, Stored, Keyed, AreRows, OfTable
  <1>3. Reads'
    BY <1>1 DEF IInv, Reads, Got, ReadTables, OfTable
  <1>4. Holds'
    BY <1>1 DEF IInv, Holds, Keyed, Closed, Key, OfTable
  <1>5. Imports' /\ RefusalExplained'
    BY <1>1 DEF Imports, Underway, RefusalExplained
  <1> QED
    BY <1>2, <1>3, <1>4, <1>5 DEF IInv

\* An export begins, or is refused: nothing has been read.
LEMMA NothingReadStep ==
    ASSUME IInv, StartExport \/ FailExport
    PROVE  IInv'
  <1>1. /\ snapshot' = {} /\ current' = None /\ items' = {} /\ left' = {}
        /\ UNCHANGED <<source, target, loosened, changes>>
        /\ \/ phase' = "reading" /\ at' = 1
           \/ phase' = "idle" /\ at' = 0
        /\ before' = {} \/ before' = before
        /\ quiet' = TRUE \/ quiet' = quiet
        /\ exports' = exports \/ (exports' = exports + 1 /\ exports < MaxExports)
    BY DEF StartExport, FailExport, importing, counts, IInv, Reads
  <1>1a. admitted' \in BOOLEAN /\ ~admitted'
    <2>1. CASE StartExport
      BY <2>1 DEF StartExport
    <2>2. CASE FailExport
      <3>1. UNCHANGED admitted /\ ~admitted
        BY <2>2 DEF FailExport
      <3>2. admitted \in BOOLEAN
        BY DEF IInv, TypeOK
      <3> QED
        BY <3>1, <3>2
    <2> QED
      BY <2>1, <2>2
  <1>2. TypeOK'
    <2>1. Stored(source)' /\ Stored(target)' /\ Stored(before)'
      <3>1. Stored({})
        BY DEF Stored, Keyed, AreRows
      <3>2. Stored(source) /\ Stored(target) /\ Stored(before)
        BY DEF IInv, TypeOK
      <3> QED
        BY <1>1, <3>1, <3>2
    <2>2. at' \in DOMAIN ReadOrder \cup {0} /\ (phase' = "reading" <=> at' # 0)
      BY <1>1, TurnIs
    <2>3. /\ quiet' \in BOOLEAN /\ loosened' \in BOOLEAN
          /\ changes' \in 0..MaxChanges /\ exports' \in 0..MaxExports
      <3>1. /\ quiet \in BOOLEAN /\ loosened \in BOOLEAN
            /\ changes \in 0..MaxChanges /\ exports \in 0..MaxExports
        BY DEF IInv, TypeOK
      <3>2. exports' \in 0..MaxExports
        BY <1>1, <3>1, TransferAssumption
      <3>3. quiet' \in BOOLEAN
        BY <1>1, <3>1
      <3> QED
        BY <1>1, <3>1, <3>2, <3>3
    <2>4. AreRows(snapshot)' /\ \A r \in snapshot' : r.tab \in Importable /\ OfItems(r)
      BY <1>1 DEF AreRows
    <2> QED
      BY <1>1, <1>1a, <2>1, <2>2, <2>3, <2>4 DEF TypeOK
  <1>3. Closed({}) /\ Keyed({})
    BY DEF Closed, Keyed
  <1>4. Holds'
    <2>1. (~loosened => Closed(source))'
      BY <1>1 DEF IInv, Holds, Closed, OfTable
    <2>2. Closed(snapshot)' /\ Keyed(snapshot)'
      BY <1>1, <1>3
    <2> QED
      BY <1>1, <2>1, <2>2 DEF Holds
  <1>5. Reads'
    <2>1. CASE phase' = "reading"
      <3>1. at' = 1 /\ at' \in 1..12
        BY <1>1, <2>1
      <3>2. ASSUME NEW r \in source, r.tab \in Importable PROVE ~Got(r)'
        BY <3>1, <3>2, GotIs, TurnIs DEF Passed
      <3> QED
        BY <1>1, <3>1, <3>2 DEF Reads, FirstOfItem
    <2> QED
      BY <2>1 DEF Reads
  <1>6. Imports' /\ RefusalExplained'
    BY <1>1 DEF Imports, Underway, RefusalExplained
  <1> QED
    BY <1>2, <1>4, <1>5, <1>6 DEF IInv

\* A change of the source is none of the snapshot, and none of the target.
LEMMA ChangeStep ==
    ASSUME IInv, Change
    PROVE  IInv'
  <1>1. /\ phase \in {"idle", "reading", "done", "refused"} /\ changes < MaxChanges
        /\ quiet' = (quiet /\ phase # "reading") /\ changes' = changes + 1
        /\ UNCHANGED <<target, phase, at, current, items, admitted, snapshot, left, before,
                       exports>>
    BY DEF Change, place, importing
  <1>2. PICK q \in Changes : /\ Refusals(q, source) = {}
                             /\ source' = After(q, source)
                             /\ loosened' = (loosened \/ Loosens(q, source))
    BY DEF Change
  <1>3. Stored(source) /\ (~loosened => Closed(source)) /\ loosened \in BOOLEAN /\ quiet \in BOOLEAN
    BY DEF IInv, TypeOK, Holds
  <1>4. Stored(source') /\ (~loosened' => Closed(source'))
    BY <1>2, <1>3, ChangeKeeps, TransferAssumption
  <1>5. /\ quiet' \in BOOLEAN /\ loosened' \in BOOLEAN
        /\ quiet' => quiet /\ phase # "reading"
        /\ ~loosened' => ~loosened
    BY <1>1, <1>2
  <1>6. TypeOK'
    BY <1>1, <1>4, <1>5, TransferAssumption DEF IInv, TypeOK, Stored, Keyed, AreRows, OfTable
  <1>7. Reads'
    BY <1>1, <1>5 DEF IInv, Reads, Got, ReadTables
  <1>8. Holds'
    <2>1. (~loosened => Closed(source))'
      BY <1>4
    <2>2. (\A r, s \in snapshot :
               Key(r) = Key(s) /\ (r.tab \in PerItem => r.item = s.item) => r = s)'
      BY <1>1 DEF IInv, Holds, Key
    <2>3. (quiet => Keyed(snapshot))'
      BY <1>1, <1>5 DEF IInv, Holds, Keyed
    <2>4. (phase # "reading" /\ quiet /\ ~loosened => Closed(snapshot))'
      BY <1>1, <1>5 DEF IInv, Holds, Closed, OfTable
    <2> QED
      BY <2>1, <2>2, <2>3, <2>4 DEF Holds
  <1>9. Imports'
    BY <1>1 DEF IInv, Imports, Underway, NothingDangles, Imported, Keys, Key
  <1>10. RefusalExplained'
    BY <1>1, <1>5 DEF IInv, RefusalExplained, Closed, Clashes, OfTable
  <1> QED
    BY <1>6, <1>7, <1>8, <1>9, <1>10 DEF IInv

LEMMA EndImportStep ==
    ASSUME IInv, EndImport
    PROVE  IInv'
  <1>1. /\ phase = "creating" /\ left = {} /\ phase' = "done"
        /\ UNCHANGED <<source, target, exporting, importing, loosened, counts>>
    BY DEF EndImport
  <1>2. Reads' /\ Holds'
    BY <1>1, ImportLeaves DEF importing
  <1>3. TypeOK'
    BY <1>1 DEF IInv, TypeOK, Stored, Keyed, AreRows, OfTable, exporting, place, importing, counts
  <1>4. Imports'
    BY <1>1 DEF IInv, Imports, Underway, NothingDangles, Imported, Keys, Key, exporting, importing
  <1>5. RefusalExplained'
    BY <1>1 DEF RefusalExplained
  <1> QED
    BY <1>2, <1>3, <1>4, <1>5 DEF IInv

LEMMA StopImportStep ==
    ASSUME IInv, StopImport
    PROVE  IInv'
  <1>1. /\ phase \in {"creating", "replacing"} /\ phase' = "stopped"
        /\ left' = {} /\ before' = {}
        /\ UNCHANGED <<source, target, at, current, items, admitted, snapshot, quiet, loosened,
                       changes, exports>>
    BY DEF StopImport, exporting, place, counts
  <1>2. TypeOK'
    BY <1>1 DEF IInv, TypeOK, Stored, Keyed, AreRows, OfTable
  <1>3. Holds'
    BY <1>1 DEF IInv, Holds, Keyed, Closed, Key, OfTable
  <1>4. Reads' /\ Imports' /\ RefusalExplained'
    BY <1>1 DEF Reads, Imports, Underway, RefusalExplained
  <1> QED
    BY <1>2, <1>3, <1>4 DEF IInv

LEMMA StutterStep ==
    ASSUME IInv, UNCHANGED vars
    PROVE  IInv'
  <1> USE DEF vars, place, exporting, importing, counts
  <1>1. TypeOK'
    BY DEF IInv, TypeOK, Stored, Keyed, AreRows, OfTable
  <1>2. Reads'
    BY DEF IInv, Reads, Got, ReadTables, OfTable
  <1>3. Holds'
    BY DEF IInv, Holds, Keyed, Closed, Key, OfTable
  <1>4. Imports'
    <2>1. NextRow' = NextRow
      BY NextRowIs
    <2> QED
      BY <2>1 DEF IInv, Imports, Underway, NothingDangles, Imported, Keys, Key
  <1>5. RefusalExplained'
    BY DEF IInv, RefusalExplained, Closed, Clashes, OfTable
  <1> QED
    BY <1>1, <1>2, <1>3, <1>4, <1>5 DEF IInv

LEMMA Begins == Init => IInv
  <1> SUFFICES ASSUME Init PROVE IInv
    OBVIOUS
  <1> USE DEF Init
  <1>1. Stored({}) /\ Closed({}) /\ Keyed({})
    BY DEF Stored, Keyed, AreRows, Closed
  <1>1a. admitted \in BOOLEAN /\ ~admitted /\ quiet \in BOOLEAN /\ loosened \in BOOLEAN
    OBVIOUS
  <1>2. TypeOK
    BY <1>1, <1>1a, TransferAssumption DEF TypeOK, AreRows, OfTable
  <1>3. Reads /\ Imports /\ RefusalExplained
    BY DEF Reads, Imports, Underway, RefusalExplained
  <1>4. Holds
    BY <1>1 DEF Holds
  <1> QED
    BY <1>2, <1>3, <1>4 DEF IInv

-----------------------------------------------------------------------------
(* The theorems.                                                           *)

\* The inductive invariant: what an export has read, and what an import has
\* written, at every step of either.
THEOREM Inductive == Spec => []IInv
  <1>1. Init => IInv
    BY Begins
  <1>2. IInv /\ [Next]_vars => IInv'
    BY ChangeStep, NothingReadStep, AdmitListStep, ReadListStep, StartImportStep, CreateRecordStep,
       ReplaceRecordStep, EndImportStep, StopImportStep, StutterStep DEF Next
  <1> QED
    BY <1>1, <1>2, PTL DEF Spec

\* Each variable keeps its type, a store each key once, and a snapshot that is
\* handed over was read to the end (ExportSnapshot).
THEOREM TypesHold == Spec => []TypeOK
  <1>1. IInv => TypeOK
    BY DEF IInv
  <1> QED
    BY <1>1, Inductive, PTL

\* Whatever the source went through while it was read, and whatever the target
\* held: an import leaves nothing it wrote dangling, loses nothing, and ends with
\* all of the snapshot (ImportSnapshot).
THEOREM ImportsSound == Spec => []ImportSound
  <1>1. IInv => ImportSound
    <2> SUFFICES ASSUME IInv, Underway PROVE NothingDangles /\ Merges
      BY DEF ImportSound
    <2>1. /\ NothingDangles
          /\ Keys(before) \subseteq Keys(target) /\ target \subseteq before \cup snapshot
          /\ \A r \in Imported : Key(r) \in Keys(target) /\ (r.tab \in Replaced => r \in target)
          /\ \A r \in before : r \in target \/ Key(r) \in Keys(Imported)
          /\ phase = "done" => left = {}
      BY DEF IInv, Imports
    <2>2. phase = "done" => Imported = snapshot
      BY <2>1 DEF Imported
    <2> QED
      BY <2>1, <2>2 DEF Merges
  <1> QED
    BY <1>1, Inductive, PTL

\* An import is refused for what its snapshot lacks, for a handoff that is under
\* another work item or for a malformed proposal, and for nothing else; a
\* snapshot of a store that did not change meanwhile lacks nothing unless a
\* record others name was taken away.
THEOREM RefusalsExplained == Spec => []RefusalExplained
  <1>1. IInv => RefusalExplained
    BY DEF IInv
  <1> QED
    BY <1>1, Inductive, PTL
=============================================================================
