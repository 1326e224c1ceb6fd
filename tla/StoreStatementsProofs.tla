------------------------ MODULE StoreStatementsProofs ------------------------
(***************************************************************************)
(* Lemmas about the operators of StoreStatements: what a list of           *)
(* statements does one after the other, what it keeps of the keys, and     *)
(* what the plans of all operations have in common.                        *)
(*                                                                         *)
(* Induction is by the least element of a set of numbers, which follows    *)
(* from the well-foundedness of finite subsets.                            *)
(***************************************************************************)
EXTENDS StoreStatements, FiniteSetTheorems, WellFoundedInduction, SequenceTheorems, TLAPS

LEMMA LeastNatural ==
    ASSUME NEW T \in SUBSET Nat, T # {}
    PROVE  \E m \in T : \A k \in T : m <= k
  <1> DEFINE Up(n) == 0..n
             U == {Up(n) : n \in T}
  <1>1. U \subseteq FiniteSubsetsOf(Nat)
    <2> SUFFICES ASSUME NEW n \in T PROVE Up(n) \in FiniteSubsetsOf(Nat)
      OBVIOUS
    <2>1. IsFiniteSet(Up(n))
      BY FS_Interval
    <2> QED
      BY <2>1 DEF FiniteSubsetsOf
  <1>2. PICK x \in U : \A y \in U : ~(<<y, x>> \in StrictSubsetOrdering(Nat))
    <2>1. U # {}
      OBVIOUS
    <2>2. IsWellFoundedOn(StrictSubsetOrdering(Nat), FiniteSubsetsOf(Nat))
      BY FS_StrictSubsetOrderingWellFounded
    <2> HIDE DEF U
    <2> QED
      BY <1>1, <2>1, <2>2, WFMin
  <1>3. PICK m \in T : x = Up(m)
    OBVIOUS
  <1>4. ASSUME NEW k \in T, k < m PROVE FALSE
    <2>1. m \in Up(m) /\ m \notin Up(k)
      BY <1>4
    <2>2. Up(k) \subseteq Nat /\ Up(m) \subseteq Nat /\ Up(k) \subseteq Up(m) /\ Up(k) # Up(m)
      BY <1>4, <2>1
    <2>3. <<Up(k), Up(m)>> \in StrictSubsetOrdering(Nat)
      <3> HIDE DEF Up
      <3> QED
        BY <2>2 DEF StrictSubsetOrdering
    <2> QED
      BY <2>3, <1>2, <1>3
  <1> QED
    BY <1>4

\* A set of numbers that holds 0, and with each number below n the next, holds
\* all numbers up to n.
LEMMA InductionUpTo ==
    ASSUME NEW n \in Nat, NEW S, 0 \in S, \A k \in 0..(n - 1) : k \in S => k + 1 \in S
    PROVE  \A k \in 0..n : k \in S
  <1> DEFINE T == {k \in 0..n : k \notin S}
  <1>1. ASSUME T # {} PROVE FALSE
    <2>1. PICK m \in T : \A k \in T : m <= k
      <3>1. T \in SUBSET Nat
        OBVIOUS
      <3> HIDE DEF T
      <3> QED
        BY <1>1, <3>1, LeastNatural
    <2>2. m # 0 /\ m - 1 \in 0..(n - 1)
      BY <2>1
    <2>3. m - 1 \notin T
      BY <2>1, <2>2
    <2> QED
      BY <2>1, <2>2, <2>3
  <1> QED
    BY <1>1

-----------------------------------------------------------------------------
(* Lists of statements.                                                    *)

LEMMA RunToSteps ==
    ASSUME NEW list, NEW img, Len(list) \in Nat
    PROVE  /\ RunTo(list, img)[0] = img
           /\ \A k \in 1..Len(list) : RunTo(list, img)[k] = Run(list[k], RunTo(list, img)[k - 1])
  <1> DEFINE Recurs(f, n) == f = [k \in 0..n |-> IF k = 0 THEN img ELSE Run(list[k], f[k - 1])]
             S == {n \in Nat : \E f : Recurs(f, n)}
  <1>1. 0 \in S
    <2> DEFINE g == [k \in 0..0 |-> img]
    <2>1. Recurs(g, 0)
      OBVIOUS
    <2> QED
      BY <2>1
  <1>2. ASSUME NEW n \in Nat, n \in S PROVE n + 1 \in S
    <2>1. PICK f : Recurs(f, n)
      BY <1>2
    <2> DEFINE g == [k \in 0..(n + 1) |-> IF k = n + 1 THEN Run(list[n + 1], f[n]) ELSE f[k]]
    <2>2. ASSUME NEW k \in 0..(n + 1)
          PROVE  g[k] = IF k = 0 THEN img ELSE Run(list[k], g[k - 1])
      BY <2>1
    <2>3. Recurs(g, n + 1)
      BY <2>2
    <2>4. \E h : Recurs(h, n + 1)
      <3> HIDE DEF g, Recurs
      <3> QED
        BY <2>3
    <2> HIDE DEF Recurs
    <2> QED
      BY <2>4
  <1>3. Len(list) \in S
    <2> HIDE DEF S
    <2>1. \A k \in 0..(Len(list) - 1) : k \in S => k + 1 \in S
      BY <1>2
    <2>2. \A k \in 0..Len(list) : k \in S
      BY <1>1, <2>1, InductionUpTo
    <2> QED
      BY <2>2
  <1>4. RunTo(list, img) = [k \in 0..Len(list) |->
            IF k = 0 THEN img ELSE Run(list[k], RunTo(list, img)[k - 1])]
    BY <1>3 DEF RunTo
  <1> QED
    BY <1>4

LEMMA NothingToRun ==
    ASSUME NEW img
    PROVE  RunAll(<<>>, img) = img /\ ListMisses(<<>>, img) = {}
  <1>1. RunAll(<<>>, img) = img
    BY RunToSteps DEF RunAll
  <1> QED
    BY <1>1 DEF ListMisses

LEMMA OneToRun ==
    ASSUME NEW s, NEW img
    PROVE  RunAll(<<s>>, img) = Run(s, img) /\ ListMisses(<<s>>, img) = Misses(s, img)
  <1>1. /\ RunTo(<<s>>, img)[0] = img
        /\ RunTo(<<s>>, img)[1] = Run(s, RunTo(<<s>>, img)[0])
    BY RunToSteps
  <1>2. ListMisses(<<s>>, img) = Misses(s, img)
    BY <1>1 DEF ListMisses
  <1> QED
    BY <1>1, <1>2 DEF RunAll

\* Statements as the operations build them: an UPDATE answers for no row.
IsStatement(s) ==
    /\ s.do \in {"insert", "put", "delete"}
    /\ s.miss \in Typed \cup {"none"}
    /\ s.do = "put" => s.miss # "none"

LEMMA MissesTyped ==
    ASSUME NEW s, IsStatement(s), NEW img
    PROVE  Misses(s, img) \subseteq Typed
  BY DEF IsStatement, Misses, Typed

\* A statement that does not miss keeps the keys.
LEMMA RunKeepsKeys ==
    ASSUME NEW s, IsStatement(s), NEW img, Keyed(img), Misses(s, img) = {}
    PROVE  Keyed(Run(s, img))
  <1>1. CASE s.do = "insert"
    <2>1. Matches(s, img) = {}
      BY <1>1 DEF Misses
    <2> QED
      BY <1>1, <2>1 DEF Matches, Run, Keyed
  <1>2. CASE s.do = "put"
    <2>1. PICK r \in img : r \in Matches(s, img)
      BY <1>2 DEF Misses, IsStatement, Matches
    <2>2. r.tab = s.row.tab /\ r.id = s.row.id
      BY <1>2, <2>1 DEF Matches
    <2> QED
      BY <1>2, <2>1, <2>2 DEF Run, Keyed
  <1>3. CASE s.do = "delete"
    BY <1>3 DEF Run, Keyed
  <1> QED
    BY <1>1, <1>2, <1>3 DEF IsStatement

-----------------------------------------------------------------------------
(* Sequences of anything: look-ups and statements.                         *)

Elements(list) == {list[k] : k \in DOMAIN list}
IsList(list) == list \in Seq(Elements(list))
AreStatements(list) == IsList(list) /\ \A s \in Elements(list) : IsStatement(s)

LEMMA ListOver ==
    ASSUME NEW S, NEW list \in Seq(S)
    PROVE  IsList(list) /\ Elements(list) \subseteq S
  <1>1. DOMAIN list = 1..Len(list) /\ Len(list) \in Nat /\ \A k \in 1..Len(list) : list[k] \in S
    BY LenProperties, ElementOfSeq
  <1>2. list = [k \in 1..Len(list) |-> list[k]]
    BY <1>1, LenProperties
  <1>3. \A k \in 1..Len(list) : list[k] \in Elements(list)
    BY <1>1 DEF Elements
  <1>4. Elements(list) \subseteq S
    BY <1>1 DEF Elements
  <1>5. PICK T : T = Elements(list)
    OBVIOUS
  <1>6. list \in [1..Len(list) -> T]
    BY <1>2, <1>3, <1>5
  <1>7. list \in Seq(T)
    BY <1>1, <1>6, SeqDef
  <1> QED
    BY <1>4, <1>5, <1>7 DEF IsList

LEMMA ConcatIsList ==
    ASSUME NEW a, IsList(a), NEW b, IsList(b)
    PROVE  IsList(a \o b) /\ Elements(a \o b) \subseteq Elements(a) \cup Elements(b)
  <1> DEFINE S == Elements(a) \cup Elements(b)
  <1>1. a \in Seq(S) /\ b \in Seq(S)
    <2> HIDE DEF S
    <2>1. Elements(a) \subseteq S /\ Elements(b) \subseteq S
      BY DEF S
    <2> QED
      BY <2>1, SeqMonotonic DEF IsList
  <1>2. a \o b \in Seq(S)
    <2> HIDE DEF S
    <2> QED
      BY <1>1, ConcatProperties
  <1> QED
    BY <1>2, ListOver

LEMMA OneIsList ==
    ASSUME NEW x
    PROVE  IsList(<<x>>) /\ Elements(<<x>>) = {x}
  BY DEF IsList, Elements

LEMMA NoneIsList == IsList(<<>>) /\ Elements(<<>>) = {}
  BY DEF IsList, Elements

LEMMA LookIsList ==
    ASSUME NEW t, NEW i, NEW item
    PROVE  IsList(Look(t, i, item))
  BY OneIsList, NoneIsList DEF Look

-----------------------------------------------------------------------------
(* Rows.                                                                   *)

Columns == {"tab", "id", "item", "link", "src", "role", "tgt", "status", "by", "claim", "ref", "ver"}

\* A row given column by column.
LEMMA RowFields ==
    ASSUME NEW r
    PROVE  IsRow(r) <=> r = [c \in Columns |-> r[c]]
  <1>1. DOMAIN Blank = Columns
    BY DEF Blank, Columns
  <1> QED
    BY <1>1 DEF IsRow

LEMMA BlankIsRow == IsRow(Blank)
  BY DEF IsRow, Blank

LEMMA RowIsRow ==
    ASSUME NEW q, NEW t
    PROVE  /\ IsRow(Row(q, t)) /\ Row(q, t).tab = t
           /\ \A c \in Columns \ {"tab"} : Row(q, t)[c] = q[c]
  <1>1. DOMAIN Blank = Columns
    BY DEF Blank, Columns
  <1> QED
    BY <1>1, RowFields DEF Row, Columns

LEMMA RowChanges ==
    ASSUME NEW r, IsRow(r)
    PROVE  /\ IsRow(Stamped(r)) /\ Stamped(r).tab = r.tab
           /\ \A q : IsRow(PatchedHandoff(r, q)) /\ PatchedHandoff(r, q).tab = r.tab
           /\ \A by, claim : IsRow(Reserved(r, by, claim)) /\ Reserved(r, by, claim).tab = r.tab
           /\ IsRow(Requeued(r)) /\ Requeued(r).tab = r.tab
           /\ \A q : IsRow(Prepared(r, q)) /\ Prepared(r, q).tab = r.tab
           /\ \A q : IsRow(Moved(r, q)) /\ Moved(r, q).tab = r.tab
  <1>1. ASSUME NEW s, IsRow(s)
        PROVE  IsRow(Stamped(s)) /\ Stamped(s).tab = s.tab
    BY <1>1, RowFields DEF Stamped, Columns
  <1>2. ASSUME NEW q
        PROVE  IsRow(PatchedHandoff(r, q)) /\ PatchedHandoff(r, q).tab = r.tab
    BY RowFields DEF PatchedHandoff, Columns
  <1>3. ASSUME NEW by, NEW claim
        PROVE  IsRow(Reserved(r, by, claim)) /\ Reserved(r, by, claim).tab = r.tab
    <2>1. /\ IsRow([r EXCEPT !.status = "claimed", !.by = by, !.claim = claim])
          /\ [r EXCEPT !.status = "claimed", !.by = by, !.claim = claim].tab = r.tab
      BY RowFields DEF Columns
    <2> QED
      BY <2>1, <1>1 DEF Reserved
  <1>4. IsRow(Requeued(r)) /\ Requeued(r).tab = r.tab
    <2>1. /\ IsRow([r EXCEPT !.status = "queued", !.by = None, !.claim = None, !.ref = None])
          /\ [r EXCEPT !.status = "queued", !.by = None, !.claim = None, !.ref = None].tab = r.tab
      BY RowFields DEF Columns
    <2> QED
      BY <2>1, <1>1 DEF Requeued
  <1>5. ASSUME NEW q
        PROVE  IsRow(Prepared(r, q)) /\ Prepared(r, q).tab = r.tab
    <2>1. IsRow([r EXCEPT !.ref = q.id]) /\ [r EXCEPT !.ref = q.id].tab = r.tab
      BY RowFields DEF Columns
    <2> QED
      BY <2>1, <1>1 DEF Prepared
  <1>6. ASSUME NEW q
        PROVE  IsRow(Moved(r, q)) /\ Moved(r, q).tab = r.tab
    <2>1. IsRow([r EXCEPT !.status = q.status]) /\ [r EXCEPT !.status = q.status].tab = r.tab
      BY RowFields DEF Columns
    <2> QED
      BY <2>1, <1>1 DEF Moved
  <1> QED
    BY <1>1, <1>2, <1>3, <1>4, <1>5, <1>6

LEMMA Gets ==
    ASSUME NEW img, AreRows(img), NEW t, NEW i, Has(img, t, i)
    PROVE  /\ Get(img, t, i) \in img /\ IsRow(Get(img, t, i))
           /\ Get(img, t, i).tab = t /\ Get(img, t, i).id = i
  BY DEF Has, Get, AreRows

-----------------------------------------------------------------------------
(* What the statements of an operation put into the rows.                  *)

\* The operations that write a handoff.
HandoffWriters ==
    {"CreateHandoff", "RestoreHandoffSnapshot", "UpdateHandoff", "AcceptHandoffWithFollowUp"}

\* Rows only, and a handoff only by those operations.
Writes(q, s) ==
    s.do # "delete" => IsRow(s.row) /\ (s.row.tab = "handoffs" => q.op \in HandoffWriters)
WritesAll(q, list) == \A s \in Elements(list) : Writes(q, s)

LEMMA WritesLists ==
    ASSUME NEW q
    PROVE  /\ WritesAll(q, <<>>)
           /\ \A s : Writes(q, s) => WritesAll(q, <<s>>)
           /\ \A r, s : Writes(q, r) /\ Writes(q, s) => WritesAll(q, <<r, s>>)
           /\ \A a, b : IsList(a) /\ WritesAll(q, a) /\ IsList(b) /\ WritesAll(q, b)
                        => WritesAll(q, a \o b)
  <1>1. \A r, s : Elements(<<r, s>>) = {r, s}
    BY DEF Elements
  <1>2. ASSUME NEW a, NEW b, IsList(a), WritesAll(q, a), IsList(b), WritesAll(q, b)
        PROVE  WritesAll(q, a \o b)
    BY <1>2, ConcatIsList DEF WritesAll
  <1>3. WritesAll(q, <<>>) /\ \A s : Writes(q, s) => WritesAll(q, <<s>>)
    BY NoneIsList, OneIsList DEF WritesAll
  <1>4. \A r, s : Writes(q, r) /\ Writes(q, s) => WritesAll(q, <<r, s>>)
    BY <1>1 DEF WritesAll
  <1>5. \A a, b : IsList(a) /\ WritesAll(q, a) /\ IsList(b) /\ WritesAll(q, b)
                => WritesAll(q, a \o b)
    BY <1>2
  <1> QED
    BY <1>3, <1>4, <1>5

-----------------------------------------------------------------------------
(* Plans.                                                                  *)

\* Look-ups and one statement, whatever the rows are.
PlansOne(q) ==
    \E looks, s :
        /\ IsList(looks) /\ IsStatement(s) /\ Writes(q, s)
        /\ \A img : Operation(q, img) = Autocommit(looks, s)
\* A transaction of the same statements, whatever the rows are.
PlansList(q) ==
    \E list :
        /\ AreStatements(list) /\ list # <<>> /\ WritesAll(q, list)
        /\ \A img : Operation(q, img) = Plan("deferred", <<>>, {}, list)
\* A transaction that decides on the rows it reads.
Decides(q, mode, looks) ==
    \A img : \E no, list :
        /\ no \subseteq Typed /\ AreStatements(list)
        /\ AreRows(img) => WritesAll(q, list)
        /\ Operation(q, img) = Plan(mode, looks, no, list)
PlansImmediate(q) == \E looks : IsList(looks) /\ Decides(q, "immediate", looks)

LEMMA StatementForms ==
    ASSUME NEW q, NEW t
    PROVE  /\ IsStatement(Insert(Row(q, t)))
           /\ \A ver : \A miss \in {"notfound", "conflict"} :
                 IsStatement(Put(Row(q, t), ver, miss))
           /\ \A i : IsStatement(DeleteOne(t, i))
           /\ \A col, val : IsStatement(Delete(t, col, val))
           /\ t # "handoffs" \/ q.op \in HandoffWriters =>
                 /\ Writes(q, Insert(Row(q, t)))
                 /\ \A ver, miss : Writes(q, Put(Row(q, t), ver, miss))
           /\ \A i : Writes(q, DeleteOne(t, i))
           /\ \A col, val : Writes(q, Delete(t, col, val))
  BY RowIsRow DEF IsStatement, Insert, Put, Delete, DeleteOne, Typed, Writes

LEMMA Deletions ==
    ASSUME NEW q, NEW t
    PROVE  /\ \A i : IsStatement(DeleteOne(t, i)) /\ Writes(q, DeleteOne(t, i))
           /\ \A col, val : IsStatement(Delete(t, col, val)) /\ Writes(q, Delete(t, col, val))
  BY StatementForms

LEMMA OneStatement ==
    ASSUME NEW q, NEW looks, IsList(looks), NEW s, IsStatement(s), Writes(q, s),
           \A img : Operation(q, img) = Autocommit(looks, s)
    PROVE  PlansOne(q)
  BY DEF PlansOne

AutocommitOps ==
    {"CreateProject", "UpdateProject", "CreateProjectSkill", "UpdateProjectSkill",
     "CreateWorkItem", "UpdateWorkItem", "CreateRole", "UpdateRole", "DeleteRole",
     "CreateAssignment", "RestoreAssignmentSnapshot", "CreateArtifact",
     "CreateEvidence", "CreateReview", "CreateHandoff", "CreateMemoryEntry",
     "UpdateMemoryEntry", "DeleteMemoryEntry", "CreateMemoryCandidate",
     "UpdateMemoryCandidate", "DeleteMemoryCandidate", "CreateAssistantProposal",
     "UpdateAssistantProposal"}

LEMMA AutocommitOpsPlanOne ==
    ASSUME NEW q, q.op \in AutocommitOps
    PROVE  PlansOne(q)
  <1>1. ASSUME q.op = "CreateProject" PROVE PlansOne(q)
    <2>1. \A img : Operation(q, img) = Autocommit(<<>>, Insert(Row(q, "projects")))
      BY <1>1 DEF Operation, CreateProject
    <2> QED
      BY <2>1, OneStatement, StatementForms, NoneIsList
  <1>2. ASSUME q.op = "UpdateProject" PROVE PlansOne(q)
    <2>1. \A img : Operation(q, img) =
              Autocommit(<<>>, Put(Row(q, "projects"), None, "notfound"))
      BY <1>2 DEF Operation, UpdateProject
    <2> QED
      BY <2>1, OneStatement, StatementForms, NoneIsList
  <1>3. ASSUME q.op = "CreateProjectSkill" PROVE PlansOne(q)
    <2>1. \A img : Operation(q, img) = Autocommit(<<>>, Insert(Row(q, "project_skills")))
      BY <1>3 DEF Operation, CreateProjectSkill
    <2> QED
      BY <2>1, OneStatement, StatementForms, NoneIsList
  <1>4. ASSUME q.op = "UpdateProjectSkill" PROVE PlansOne(q)
    <2>1. \A img : Operation(q, img) =
              Autocommit(<<>>, Put(Row(q, "project_skills"), None, "notfound"))
      BY <1>4 DEF Operation, UpdateProjectSkill
    <2> QED
      BY <2>1, OneStatement, StatementForms, NoneIsList
  <1>5. ASSUME q.op = "CreateWorkItem" PROVE PlansOne(q)
    <2>1. \A img : Operation(q, img) = Autocommit(<<>>, Insert(Row(q, "work_items")))
      BY <1>5 DEF Operation, CreateWorkItem
    <2> QED
      BY <2>1, OneStatement, StatementForms, NoneIsList
  <1>6. ASSUME q.op = "UpdateWorkItem" PROVE PlansOne(q)
    <2>1. \A img : Operation(q, img) =
              Autocommit(<<>>, Put(Row(q, "work_items"), None, "notfound"))
      BY <1>6 DEF Operation, UpdateWorkItem
    <2> QED
      BY <2>1, OneStatement, StatementForms, NoneIsList
  <1>7. ASSUME q.op = "CreateRole" PROVE PlansOne(q)
    <2>1. \A img : Operation(q, img) = Autocommit(<<>>, Insert(Row(q, "roles")))
      BY <1>7 DEF Operation, CreateRole
    <2> QED
      BY <2>1, OneStatement, StatementForms, NoneIsList
  <1>8. ASSUME q.op = "UpdateRole" PROVE PlansOne(q)
    <2>1. \A img : Operation(q, img) =
              Autocommit(<<>>, Put(Row(q, "roles"), None, "notfound"))
      BY <1>8 DEF Operation, UpdateRole
    <2> QED
      BY <2>1, OneStatement, StatementForms, NoneIsList
  <1>9. ASSUME q.op = "DeleteRole" PROVE PlansOne(q)
    <2>1. \A img : Operation(q, img) = Autocommit(<<>>, DeleteOne("roles", q.id))
      BY <1>9 DEF Operation, DeleteRole
    <2> QED
      BY <2>1, OneStatement, StatementForms, NoneIsList
  <1>10. ASSUME q.op = "CreateAssignment" PROVE PlansOne(q)
    <2>1. \A img : Operation(q, img) =
              Autocommit(Item(q.item) \o Role(q.role), Insert(Row(q, "assignments")))
      BY <1>10 DEF Operation, CreateAssignment
    <2> QED
      BY <2>1, OneStatement, StatementForms, LookIsList, ConcatIsList
         DEF Item, Role
  <1>11. ASSUME q.op = "RestoreAssignmentSnapshot" PROVE PlansOne(q)
    <2>1. \A img : Operation(q, img) =
              Autocommit(Item(q.item) \o Role(q.role), Put(Row(q, "assignments"), None, "notfound"))
      BY <1>11 DEF Operation, RestoreAssignmentSnapshot
    <2> QED
      BY <2>1, OneStatement, StatementForms, LookIsList, ConcatIsList
         DEF Item, Role
  <1>12. ASSUME q.op = "CreateArtifact" PROVE PlansOne(q)
    <2>1. \A img : Operation(q, img) =
              Autocommit(Item(q.item) \o Look("assignments", q.link, q.item) \o Role(q.role),
                         Insert(Row(q, "artifacts")))
      BY <1>12 DEF Operation, CreateArtifact
    <2> QED
      BY <2>1, OneStatement, StatementForms, LookIsList, ConcatIsList
         DEF Item, Role
  <1>13. ASSUME q.op = "CreateEvidence" PROVE PlansOne(q)
    <2>1. \A img : Operation(q, img) =
              Autocommit(Item(q.item) \o Look("assignments", q.link, q.item),
                         Insert(Row(q, "evidence")))
      BY <1>13 DEF Operation, CreateEvidence
    <2> QED
      BY <2>1, OneStatement, StatementForms, LookIsList, ConcatIsList
         DEF Item, Role
  <1>14. ASSUME q.op = "CreateReview" PROVE PlansOne(q)
    <2>1. \A img : Operation(q, img) =
              Autocommit(Item(q.item) \o Look("assignments", q.link, q.item) \o Role(q.role),
                         Insert(Row(q, "reviews")))
      BY <1>14 DEF Operation, CreateReview
    <2> QED
      BY <2>1, OneStatement, StatementForms, LookIsList, ConcatIsList
         DEF Item, Role
  <1>15. ASSUME q.op = "CreateHandoff" PROVE PlansOne(q)
    <2>1. \A img : Operation(q, img) =
              Autocommit(Item(q.item) \o HandoffLooks(Row(q, "handoffs")),
                         Insert(Row(q, "handoffs")))
      BY <1>15 DEF Operation, CreateHandoff
    <2> QED
      BY <1>15, <2>1, OneStatement, StatementForms, LookIsList, ConcatIsList
         DEF Item, Role, HandoffLooks, HandoffWriters
  <1>16. ASSUME q.op = "CreateMemoryEntry" PROVE PlansOne(q)
    <2>1. \A img : Operation(q, img) = Autocommit(<<>>, Insert(Row(q, "memory_entries")))
      BY <1>16 DEF Operation, CreateMemoryEntry
    <2> QED
      BY <2>1, OneStatement, StatementForms, NoneIsList
  <1>17. ASSUME q.op = "UpdateMemoryEntry" PROVE PlansOne(q)
    <2>1. \A img : Operation(q, img) =
              Autocommit(<<>>, Put(Row(q, "memory_entries"), None, "notfound"))
      BY <1>17 DEF Operation, UpdateMemoryEntry
    <2> QED
      BY <2>1, OneStatement, StatementForms, NoneIsList
  <1>18. ASSUME q.op = "DeleteMemoryEntry" PROVE PlansOne(q)
    <2>1. \A img : Operation(q, img) = Autocommit(<<>>, DeleteOne("memory_entries", q.id))
      BY <1>18 DEF Operation, DeleteMemoryEntry
    <2> QED
      BY <2>1, OneStatement, StatementForms, NoneIsList
  <1>19. ASSUME q.op = "CreateMemoryCandidate" PROVE PlansOne(q)
    <2>1. \A img : Operation(q, img) = Autocommit(<<>>, Insert(Row(q, "memory_candidates")))
      BY <1>19 DEF Operation, CreateMemoryCandidate
    <2> QED
      BY <2>1, OneStatement, StatementForms, NoneIsList
  <1>20. ASSUME q.op = "UpdateMemoryCandidate" PROVE PlansOne(q)
    <2>1. \A img : Operation(q, img) =
              Autocommit(<<>>, Put(Row(q, "memory_candidates"), None, "notfound"))
      BY <1>20 DEF Operation, UpdateMemoryCandidate
    <2> QED
      BY <2>1, OneStatement, StatementForms, NoneIsList
  <1>21. ASSUME q.op = "DeleteMemoryCandidate" PROVE PlansOne(q)
    <2>1. \A img : Operation(q, img) =
              Autocommit(<<>>, DeleteOne("memory_candidates", q.id))
      BY <1>21 DEF Operation, DeleteMemoryCandidate
    <2> QED
      BY <2>1, OneStatement, StatementForms, NoneIsList
  <1>22. ASSUME q.op = "CreateAssistantProposal" PROVE PlansOne(q)
    <2>1. \A img : Operation(q, img) =
              Autocommit(<<>>, Insert(Row(q, "assistant_proposals")))
      BY <1>22 DEF Operation, CreateAssistantProposal
    <2> QED
      BY <2>1, OneStatement, StatementForms, NoneIsList
  <1>23. ASSUME q.op = "UpdateAssistantProposal" PROVE PlansOne(q)
    <2>1. \A img : Operation(q, img) =
              Autocommit(<<>>, Put(Row(q, "assistant_proposals"), None, "notfound"))
      BY <1>23 DEF Operation, UpdateAssistantProposal
    <2> QED
      BY <2>1, OneStatement, StatementForms, NoneIsList
  <1> QED
    BY <1>1, <1>2, <1>3, <1>4, <1>5, <1>6, <1>7, <1>8, <1>9, <1>10, <1>11,
       <1>12, <1>13, <1>14, <1>15, <1>16, <1>17, <1>18, <1>19, <1>20, <1>21, <1>22,
       <1>23 DEF AutocommitOps

\* The deletions over several tables.
LEMMA DeferredOpsPlanList ==
    ASSUME NEW q, q.op \in {"DeleteProject", "DeleteWorkItem", "DeleteAssignment"}
    PROVE  PlansList(q)
  <1>1. ASSUME q.op = "DeleteProject" PROVE PlansList(q)
    <2> DEFINE t == <<"command_receipts", "artifacts", "evidence", "reviews", "handoffs",
                      "memory_candidates", "memory_entries", "assistant_proposals",
                      "assignments", "project_skills", "work_items", "roles">>
               all == [k \in 1..12 |-> Delete(t[k], "tab", t[k])]
               last == <<DeleteOne("projects", q.id)>>
    <2>1. \A img : Operation(q, img) = Plan("deferred", <<>>, {}, all \o last)
      BY <1>1 DEF Operation, DeleteProject
    <2> HIDE DEF t
    <2>2. IsList(all) /\ \A s \in Elements(all) : IsStatement(s) /\ Writes(q, s)
      <3>1. \A s \in Elements(all) : IsStatement(s) /\ Writes(q, s)
        BY Deletions DEF Elements
      <3>2. all \in Seq(Elements(all))
        BY DEF Elements
      <3> QED
        BY <3>1, <3>2 DEF IsList
    <2>3. AreStatements(all \o last) /\ all \o last # <<>> /\ WritesAll(q, all \o last)
      <3> HIDE DEF all
      <3>1. IsList(last) /\ Elements(last) = {DeleteOne("projects", q.id)}
        BY OneIsList
      <3>2. IsList(all \o last) /\ Elements(all \o last) \subseteq Elements(all) \cup Elements(last)
        BY <2>2, <3>1, ConcatIsList
      <3>3. last # <<>>
        OBVIOUS
      <3>4. all \o last # <<>>
        <4> DEFINE S == Elements(all) \cup Elements(last)
        <4> HIDE DEF S, last
        <4>1. Elements(all) \subseteq S /\ Elements(last) \subseteq S
          BY DEF S
        <4>2. all \in Seq(S) /\ last \in Seq(S)
          BY <2>2, <3>1, <4>1, SeqMonotonic DEF IsList
        <4> QED
          BY <3>3, <4>2, ConcatEqualIffEmpty
      <3> QED
        BY <2>2, <3>1, <3>2, <3>4, Deletions DEF AreStatements, WritesAll
    <2> HIDE DEF all, last
    <2> QED
      BY <2>1, <2>3 DEF PlansList
  <1>2. ASSUME q.op = "DeleteWorkItem" PROVE PlansList(q)
    <2> DEFINE list == <<Delete("artifacts", "item", q.id), Delete("evidence", "item", q.id),
           Delete("reviews", "item", q.id), Delete("assignments", "item", q.id),
           Delete("handoffs", "item", q.id), Delete("handoffs", "tgt", q.id),
           DeleteOne("work_items", q.id)>>
    <2>1. \A img : Operation(q, img) = Plan("deferred", <<>>, {}, list)
      BY <1>2 DEF Operation, DeleteWorkItem
    <2>2. AreStatements(list) /\ list # <<>> /\ WritesAll(q, list)
      BY Deletions DEF AreStatements, IsList, Elements, WritesAll
    <2> QED
      BY <2>1, <2>2 DEF PlansList
  <1>3. ASSUME q.op = "DeleteAssignment" PROVE PlansList(q)
    <2> DEFINE list == <<Delete("artifacts", "link", q.id), Delete("reviews", "link", q.id),
           DeleteOne("assignments", q.id)>>
    <2>1. \A img : Operation(q, img) = Plan("deferred", <<>>, {}, list)
      BY <1>3 DEF Operation, DeleteAssignment
    <2>2. AreStatements(list) /\ list # <<>> /\ WritesAll(q, list)
      BY Deletions DEF AreStatements, IsList, Elements, WritesAll
    <2> QED
      BY <2>1, <2>2 DEF PlansList
  <1> QED
    BY <1>1, <1>2, <1>3

LEMMA StatementLists ==
    /\ AreStatements(<<>>)
    /\ \A s : IsStatement(s) => AreStatements(<<s>>)
    /\ \A r, s : IsStatement(r) /\ IsStatement(s) => AreStatements(<<r, s>>)
    /\ \A a, b : AreStatements(a) /\ AreStatements(b) => AreStatements(a \o b)
  <1>1. \A r, s : IsStatement(r) /\ IsStatement(s) => AreStatements(<<r, s>>)
    BY DEF AreStatements, IsList, Elements
  <1>2. \A a, b : AreStatements(a) /\ AreStatements(b) => AreStatements(a \o b)
    BY ConcatIsList DEF AreStatements
  <1> QED
    BY <1>1, <1>2, NoneIsList, OneIsList DEF AreStatements

\* The transitions that set the status that is asked for.
Movers == {"UpdateAssignmentStatusWithClaim", "CompleteAssignmentWithClaim",
           "CompleteAssignment", "UpdateAssignmentStatus"}

\* beginAssignmentTransition and beginHandoffTransition decide on what they read.
AssignmentAfter(q, img, next) ==
    AreRows(img) /\ Has(img, "assignments", q.id) =>
        LET a == Get(img, "assignments", q.id)
        IN /\ IsRow(next) /\ next.tab = "assignments" /\ next.id = q.id
           /\ IF q.op = "UpdateQueuedAssignment" THEN next.item = q.item
              ELSE next.item = a.item /\ next.role = a.role
           /\ \/ next.status \in {a.status, "queued", "claimed"}
              \/ q.op \in Movers /\ next.status = q.status
\* An assignment at its end stays as it is.
Unfinished(q, img, allowed) == allowed => Get(img, "assignments", q.id).status \notin Terminal

LEMMA TransitionDecides ==
    ASSUME NEW q, NEW img, NEW looks, NEW allowed, NEW next, AssignmentAfter(q, img, next)
    PROVE  \E no, list : /\ no \subseteq Typed /\ AreStatements(list)
                         /\ AreRows(img) => WritesAll(q, list)
                         /\ Transition(q, img, looks, allowed, next)
                              = Plan("immediate", looks, no, list)
  <1> DEFINE no == IF ~Has(img, "assignments", q.id) THEN {"notfound"}
                   ELSE IF allowed THEN {} ELSE {"conflict"}
             s == Put(next, Get(img, "assignments", q.id).ver, "conflict")
  <1>1. IsStatement(s)
    BY DEF IsStatement, Put, Typed
  <1>2. AreStatements(IF no = {} THEN <<s>> ELSE <<>>)
    BY <1>1, StatementLists
  <1>3. no \subseteq Typed
    BY DEF Typed
  <1>4. ASSUME AreRows(img) PROVE WritesAll(q, IF no = {} THEN <<s>> ELSE <<>>)
    <2>1. no = {} => Writes(q, s)
      BY <1>4 DEF AssignmentAfter, Writes, Put
    <2> QED
      BY <2>1, WritesLists
  <1> QED
    BY <1>2, <1>3, <1>4 DEF Transition

\* Whatever the rows are, a decision on the assignment that was read and what
\* becomes of it.
Transits(q) ==
    \E looks : /\ IsList(looks)
               /\ \A img : \E allowed, next :
                     /\ AssignmentAfter(q, img, next)
                     /\ Unfinished(q, img, allowed)
                     /\ Operation(q, img) = Transition(q, img, looks, allowed, next)

LEMMA TransitionPlans ==
    ASSUME NEW q, Transits(q)
    PROVE  PlansImmediate(q)
  <1>1. PICK looks : /\ IsList(looks)
                     /\ \A img : \E allowed, next :
                           /\ AssignmentAfter(q, img, next)
                           /\ Unfinished(q, img, allowed)
                           /\ Operation(q, img) = Transition(q, img, looks, allowed, next)
    BY DEF Transits
  <1>2. ASSUME NEW img
        PROVE  \E no, list : /\ no \subseteq Typed /\ AreStatements(list)
                             /\ AreRows(img) => WritesAll(q, list)
                             /\ Operation(q, img) = Plan("immediate", looks, no, list)
    <2>1. PICK allowed, next : /\ AssignmentAfter(q, img, next)
                               /\ Unfinished(q, img, allowed)
                               /\ Operation(q, img) = Transition(q, img, looks, allowed, next)
      BY <1>1
    <2> QED
      BY <2>1, TransitionDecides
  <1> QED
    BY <1>1, <1>2 DEF PlansImmediate, Decides

\* Every row that a transition of an assignment puts in its place.
LEMMA AssignmentsAfter ==
    ASSUME NEW q, NEW img
    PROVE  LET a == Get(img, "assignments", q.id)
           IN /\ q.op # "UpdateQueuedAssignment" =>
                    /\ AssignmentAfter(q, img, a)
                    /\ \A by, claim : AssignmentAfter(q, img, Reserved(a, by, claim))
                    /\ AssignmentAfter(q, img, Requeued(a))
                    /\ AssignmentAfter(q, img, Prepared(a, q))
                    /\ q.op \in Movers => AssignmentAfter(q, img, Moved(a, q))
              /\ q.op = "UpdateQueuedAssignment" =>
                    AssignmentAfter(q, img, Stamped([a EXCEPT !.item = q.item, !.role = q.role]))
  <1> DEFINE a == Get(img, "assignments", q.id)
             edited == [a EXCEPT !.item = q.item, !.role = q.role]
             After(s) == /\ IsRow(s) /\ s.tab = a.tab /\ s.id = a.id /\ s.item = a.item
                         /\ s.role = a.role
             Status(s) == \/ s.status \in {a.status, "queued", "claimed"}
                          \/ q.op \in Movers /\ s.status = q.status
  <1>1. AreRows(img) /\ Has(img, "assignments", q.id) => /\ IsRow(a) /\ a.tab = "assignments"
                                                        /\ a.id = q.id
    BY Gets
  <1>2. IsRow(a) => /\ IsRow(edited) /\ edited.tab = a.tab /\ edited.id = a.id
                    /\ edited.item = q.item /\ edited.status = a.status
    BY RowFields DEF Columns
  <1> HIDE DEF edited
  <1>3. ASSUME NEW r, IsRow(r)
        PROVE  /\ Stamped(r).id = r.id /\ Stamped(r).item = r.item /\ Stamped(r).role = r.role
               /\ Stamped(r).status = r.status
    BY <1>3, RowFields DEF Stamped, Columns
  <1> HIDE DEF a
  <1>4. ASSUME IsRow(a), NEW by, NEW claim
        PROVE  After(Reserved(a, by, claim)) /\ Status(Reserved(a, by, claim))
    <2> DEFINE r == [a EXCEPT !.status = "claimed", !.by = by, !.claim = claim]
    <2>1. /\ IsRow(r) /\ r.id = a.id /\ r.item = a.item /\ r.role = a.role
          /\ r.status = "claimed"
      BY <1>4, RowFields DEF Columns
    <2> HIDE DEF r
    <2>2. Reserved(a, by, claim) = Stamped(r)
      BY DEF Reserved, r
    <2> QED
      BY <1>3, <1>4, <2>1, <2>2, RowChanges
  <1>5. ASSUME IsRow(a) PROVE After(Requeued(a)) /\ Status(Requeued(a))
    BY <1>5, RowChanges, RowFields DEF Requeued, Stamped, Columns
  <1>6. ASSUME IsRow(a)
        PROVE  /\ After(Prepared(a, q)) /\ Status(Prepared(a, q))
               /\ After(Moved(a, q)) /\ Moved(a, q).status = q.status
    <2>1. After(Prepared(a, q)) /\ Status(Prepared(a, q))
      BY <1>6, RowChanges, RowFields DEF Prepared, Stamped, Columns
    <2>2. After(Moved(a, q)) /\ Moved(a, q).status = q.status
      BY <1>6, RowChanges, RowFields DEF Moved, Stamped, Columns
    <2> QED
      BY <2>1, <2>2
  <1>7. ASSUME NEW s, IsRow(a) => After(s) /\ Status(s), q.op # "UpdateQueuedAssignment"
        PROVE  AssignmentAfter(q, img, s)
    BY <1>1, <1>7 DEF AssignmentAfter, a
  <1>8. q.op # "UpdateQueuedAssignment" =>
            /\ AssignmentAfter(q, img, a)
            /\ \A by, claim : AssignmentAfter(q, img, Reserved(a, by, claim))
            /\ AssignmentAfter(q, img, Requeued(a))
            /\ AssignmentAfter(q, img, Prepared(a, q))
            /\ q.op \in Movers => AssignmentAfter(q, img, Moved(a, q))
    <2> HIDE DEF After
    <2>1. IsRow(a) => After(a)
      BY DEF After
    <2> QED
      BY <1>4, <1>5, <1>6, <1>7, <2>1
  <1>9. q.op = "UpdateQueuedAssignment" => AssignmentAfter(q, img, Stamped(edited))
    BY <1>1, <1>2, <1>3, RowChanges DEF AssignmentAfter, a
  <1> QED
    BY <1>8, <1>9 DEF a, edited

LEMMA HandoffTransitionDecides ==
    ASSUME NEW q, NEW img, NEW refused, refused \subseteq Typed, NEW list, AreStatements(list),
           AreRows(img) /\ Has(img, "handoffs", q.id) => WritesAll(q, list)
    PROVE  \E no, do : /\ no \subseteq Typed /\ AreStatements(do)
                       /\ AreRows(img) => WritesAll(q, do)
                       /\ HandoffTransition(q, img, refused, list) = Plan("immediate", <<>>, no, do)
  <1> DEFINE no == IF Found([tab |-> "handoffs", id |-> q.id, item |-> q.item], img) THEN refused ELSE {"notfound"}
             do == IF no = {} THEN list ELSE <<>>
  <1>1. no \subseteq Typed
    BY DEF Typed
  <1>2. AreStatements(do)
    BY StatementLists
  <1>3. Found([tab |-> "handoffs", id |-> q.id, item |-> q.item], img) => Has(img, "handoffs", q.id)
    BY DEF Found, Has
  <1>4. AreRows(img) => WritesAll(q, do)
    BY <1>3, WritesLists
  <1> QED
    BY <1>1, <1>2, <1>4 DEF HandoffTransition

TransitionOps ==
    {"UpdateQueuedAssignment", "ClaimAssignmentWithLease", "RenewAssignmentClaim",
     "RecoverAssignmentClaim", "PrepareAssignmentWithClaim",
     "ReleaseAssignmentWithClaim", "UpdateAssignmentStatusWithClaim",
     "CompleteAssignmentWithClaim", "ClaimAssignment", "PrepareAssignment",
     "ReleaseAssignment", "CompleteAssignment", "UpdateAssignmentStatus"}

LEMMA TransitionOpsTransit ==
    ASSUME NEW q, q.op \in TransitionOps
    PROVE  Transits(q)
  <1>1. ASSUME q.op = "UpdateQueuedAssignment" PROVE Transits(q)
    <2>1. \A img : Operation(q, img) = UpdateQueuedAssignment(q, img)
      BY <1>1 DEF Operation
    <2>2. \A img : \E allowed, next :
              /\ AssignmentAfter(q, img, next)
              /\ Unfinished(q, img, allowed)
              /\ Operation(q, img) = Transition(q, img, Item(q.item) \o Role(q.role), allowed, next)
      BY <1>1, <2>1, AssignmentsAfter DEF UpdateQueuedAssignment, Unfinished, Terminal
    <2> QED
      BY <2>2, LookIsList, ConcatIsList DEF Transits, Item, Role
  <1>2. ASSUME q.op = "ClaimAssignmentWithLease" PROVE Transits(q)
    <2>1. \A img : Operation(q, img) = ClaimAssignmentWithLease(q, img)
      BY <1>2 DEF Operation
    <2>2. ASSUME NEW img
          PROVE  \E allowed, next :
                    /\ AssignmentAfter(q, img, next)
                    /\ Unfinished(q, img, allowed)
                    /\ Operation(q, img) = Transition(q, img, <<>>, allowed, next)
      <3>1. AssignmentAfter(q, img, Reserved(Get(img, "assignments", q.id), q.by, q.claim))
        BY <1>2, AssignmentsAfter
      <3> QED
        BY <2>1, <3>1 DEF ClaimAssignmentWithLease, Unfinished, Terminal
    <2> QED
      BY <2>2, NoneIsList DEF Transits
  <1>3. ASSUME q.op = "RenewAssignmentClaim" PROVE Transits(q)
    <2>1. \A img : Operation(q, img) = RenewAssignmentClaim(q, img)
      BY <1>3 DEF Operation
    <2>2. \A img : \E allowed, next :
              /\ AssignmentAfter(q, img, next)
              /\ Unfinished(q, img, allowed)
              /\ Operation(q, img) = Transition(q, img, <<>>, allowed, next)
      BY <1>3, <2>1, AssignmentsAfter DEF RenewAssignmentClaim, Unfinished, Terminal
    <2> QED
      BY <2>2, NoneIsList DEF Transits
  <1>4. ASSUME q.op = "RecoverAssignmentClaim" PROVE Transits(q)
    <2>1. \A img : Operation(q, img) = RecoverAssignmentClaim(q, img)
      BY <1>4 DEF Operation
    <2>2. \A img : \E allowed, next :
              /\ AssignmentAfter(q, img, next)
              /\ Unfinished(q, img, allowed)
              /\ Operation(q, img) = Transition(q, img, <<>>, allowed, next)
      BY <1>4, <2>1, AssignmentsAfter DEF RecoverAssignmentClaim, Unfinished, Terminal
    <2> QED
      BY <2>2, NoneIsList DEF Transits
  <1>5. ASSUME q.op = "PrepareAssignmentWithClaim" PROVE Transits(q)
    <2>1. \A img : Operation(q, img) = PrepareAssignmentWithClaim(q, img)
      BY <1>5 DEF Operation
    <2>2. \A img : \E allowed, next :
              /\ AssignmentAfter(q, img, next)
              /\ Unfinished(q, img, allowed)
              /\ Operation(q, img) = Transition(q, img, <<>>, allowed, next)
      BY <1>5, <2>1, AssignmentsAfter DEF PrepareAssignmentWithClaim, Unfinished, Terminal
    <2> QED
      BY <2>2, NoneIsList DEF Transits
  <1>6. ASSUME q.op = "ReleaseAssignmentWithClaim" PROVE Transits(q)
    <2>1. \A img : Operation(q, img) = ReleaseAssignmentWithClaim(q, img)
      BY <1>6 DEF Operation
    <2>2. \A img : \E allowed, next :
              /\ AssignmentAfter(q, img, next)
              /\ Unfinished(q, img, allowed)
              /\ Operation(q, img) = Transition(q, img, <<>>, allowed, next)
      BY <1>6, <2>1, AssignmentsAfter DEF ReleaseAssignmentWithClaim, Unfinished, Terminal
    <2> QED
      BY <2>2, NoneIsList DEF Transits
  <1>7. ASSUME q.op = "UpdateAssignmentStatusWithClaim" PROVE Transits(q)
    <2>1. \A img : Operation(q, img) = UpdateAssignmentStatusWithClaim(q, img)
      BY <1>7 DEF Operation
    <2>2. \A img : \E allowed, next :
              /\ AssignmentAfter(q, img, next)
              /\ Unfinished(q, img, allowed)
              /\ Operation(q, img) = Transition(q, img, <<>>, allowed, next)
      BY <1>7, <2>1, AssignmentsAfter DEF UpdateAssignmentStatusWithClaim, Unfinished, Terminal, Movers
    <2> QED
      BY <2>2, NoneIsList DEF Transits
  <1>8. ASSUME q.op = "CompleteAssignmentWithClaim" PROVE Transits(q)
    <2>1. \A img : Operation(q, img) = CompleteAssignmentWithClaim(q, img)
      BY <1>8 DEF Operation
    <2>2. \A img : \E allowed, next :
              /\ AssignmentAfter(q, img, next)
              /\ Unfinished(q, img, allowed)
              /\ Operation(q, img) = Transition(q, img, <<>>, allowed, next)
      BY <1>8, <2>1, AssignmentsAfter DEF CompleteAssignmentWithClaim, Unfinished, Terminal, Movers
    <2> QED
      BY <2>2, NoneIsList DEF Transits
  <1>9. ASSUME q.op = "ClaimAssignment" PROVE Transits(q)
    <2>1. \A img : Operation(q, img) = ClaimAssignment(q, img)
      BY <1>9 DEF Operation
    <2>2. ASSUME NEW img
          PROVE  \E allowed, next :
                    /\ AssignmentAfter(q, img, next)
                    /\ Unfinished(q, img, allowed)
                    /\ Operation(q, img) = Transition(q, img, <<>>, allowed, next)
      <3>1. AssignmentAfter(q, img, Reserved(Get(img, "assignments", q.id), q.by, None))
        BY <1>9, AssignmentsAfter
      <3> QED
        BY <2>1, <3>1 DEF ClaimAssignment, Unfinished, Terminal
    <2> QED
      BY <2>2, NoneIsList DEF Transits
  <1>10. ASSUME q.op = "PrepareAssignment" PROVE Transits(q)
    <2>1. \A img : Operation(q, img) = PrepareAssignment(q, img)
      BY <1>10 DEF Operation
    <2>2. \A img : \E allowed, next :
              /\ AssignmentAfter(q, img, next)
              /\ Unfinished(q, img, allowed)
              /\ Operation(q, img) = Transition(q, img, <<>>, allowed, next)
      BY <1>10, <2>1, AssignmentsAfter DEF PrepareAssignment, Unfinished, Terminal
    <2> QED
      BY <2>2, NoneIsList DEF Transits
  <1>11. ASSUME q.op = "ReleaseAssignment" PROVE Transits(q)
    <2>1. \A img : Operation(q, img) = ReleaseAssignment(q, img)
      BY <1>11 DEF Operation
    <2>2. \A img : \E allowed, next :
              /\ AssignmentAfter(q, img, next)
              /\ Unfinished(q, img, allowed)
              /\ Operation(q, img) = Transition(q, img, <<>>, allowed, next)
      BY <1>11, <2>1, AssignmentsAfter DEF ReleaseAssignment, Unfinished, Terminal
    <2> QED
      BY <2>2, NoneIsList DEF Transits
  <1>12. ASSUME q.op = "CompleteAssignment" PROVE Transits(q)
    <2>1. \A img : Operation(q, img) = CompleteAssignment(q, img)
      BY <1>12 DEF Operation
    <2>2. \A img : \E allowed, next :
              /\ AssignmentAfter(q, img, next)
              /\ Unfinished(q, img, allowed)
              /\ Operation(q, img) = Transition(q, img, <<>>, allowed, next)
      BY <1>12, <2>1, AssignmentsAfter DEF CompleteAssignment, Unfinished, Terminal, Movers
    <2> QED
      BY <2>2, NoneIsList DEF Transits
  <1>13. ASSUME q.op = "UpdateAssignmentStatus" PROVE Transits(q)
    <2>1. \A img : Operation(q, img) = UpdateAssignmentStatus(q, img)
      BY <1>13 DEF Operation
    <2>2. \A img : \E allowed, next :
              /\ AssignmentAfter(q, img, next)
              /\ Unfinished(q, img, allowed)
              /\ Operation(q, img) = Transition(q, img, <<>>, allowed, next)
      BY <1>13, <2>1, AssignmentsAfter DEF UpdateAssignmentStatus, Unfinished, Terminal, Movers
    <2> QED
      BY <2>2, NoneIsList DEF Transits
  <1> QED
    BY <1>1, <1>2, <1>3, <1>4, <1>5, <1>6, <1>7, <1>8, <1>9, <1>10, <1>11, <1>12,
       <1>13 DEF TransitionOps

LEMMA TransitionOpsPlanImmediate ==
    ASSUME NEW q, q.op \in TransitionOps
    PROVE  PlansImmediate(q)
  BY TransitionOpsTransit, TransitionPlans

\* The refusals and the statements of a handoff that was read.
LEMMA HandoffPlans ==
    ASSUME NEW q,
           \A img : \/ \E refused, list :
                           /\ refused \subseteq Typed /\ AreStatements(list)
                           /\ AreRows(img) /\ Has(img, "handoffs", q.id) => WritesAll(q, list)
                           /\ Operation(q, img) = HandoffTransition(q, img, refused, list)
                    \/ Operation(q, img) = Replay(q, img)
    PROVE  PlansImmediate(q)
  <1>1. ASSUME NEW img
        PROVE  \E no, do : /\ no \subseteq Typed /\ AreStatements(do)
                           /\ AreRows(img) => WritesAll(q, do)
                           /\ Operation(q, img) = Plan("immediate", <<>>, no, do)
    <2>1. CASE Operation(q, img) = Replay(q, img)
      <3>1. \E no : no \subseteq Typed /\ Replay(q, img) = Plan("immediate", <<>>, no, <<>>)
        BY DEF Replay, Typed
      <3> QED
        BY <2>1, <3>1, StatementLists, WritesLists
    <2>2. CASE \E refused, list :
                   /\ refused \subseteq Typed /\ AreStatements(list)
                   /\ AreRows(img) /\ Has(img, "handoffs", q.id) => WritesAll(q, list)
                   /\ Operation(q, img) = HandoffTransition(q, img, refused, list)
      BY <2>2, HandoffTransitionDecides
    <2> QED
      BY <2>1, <2>2
  <1> QED
    BY <1>1, NoneIsList DEF PlansImmediate, Decides

\* What an acceptance writes are rows, if the handoff it reads is one.
LEMMA FollowUpStatements ==
    ASSUME NEW q, q.op \in HandoffWriters, NEW img, NEW h
    PROVE  /\ AreStatements(FollowUp(q, img, h))
           /\ IsRow(h) => WritesAll(q, FollowUp(q, img, h))
  <1>1. \A row : IsStatement(Insert(row)) /\ \A v : IsStatement(Put(row, v, "conflict"))
    BY DEF IsStatement, Insert, Put, Typed
  <1>2. \A row : IsRow(row) => Writes(q, Insert(row)) /\ \A v, m : Writes(q, Put(row, v, m))
    BY DEF Writes, Insert, Put
  <1>3. ASSUME NEW linked, NEW satisfied, NEW a, NEW new, NEW receipt
        PROVE  LET list == (IF linked THEN <<>> ELSE <<Insert(a)>>)
                           \o (IF satisfied THEN <<>> ELSE <<Put(new, h.ver, "conflict")>>)
                           \o <<Insert(receipt)>>
               IN /\ AreStatements(list)
                  /\ (~linked => IsRow(a)) /\ IsRow(new) /\ IsRow(receipt) => WritesAll(q, list)
    <2> DEFINE l1 == IF linked THEN <<>> ELSE <<Insert(a)>>
               l2 == IF satisfied THEN <<>> ELSE <<Put(new, h.ver, "conflict")>>
               l3 == <<Insert(receipt)>>
    <2>1. AreStatements(l1) /\ AreStatements(l2) /\ AreStatements(l3)
      BY <1>1, StatementLists
    <2>2. /\ (~linked => IsRow(a)) => WritesAll(q, l1)
          /\ IsRow(new) => WritesAll(q, l2)
          /\ IsRow(receipt) => WritesAll(q, l3)
      BY <1>2, WritesLists
    <2> HIDE DEF l1, l2, l3
    <2>3. AreStatements(l1 \o l2) /\ AreStatements((l1 \o l2) \o l3)
      BY <2>1, StatementLists
    <2>4. ASSUME WritesAll(q, l1), WritesAll(q, l2), WritesAll(q, l3)
          PROVE  WritesAll(q, (l1 \o l2) \o l3)
      BY <2>1, <2>3, <2>4, WritesLists DEF AreStatements
    <2> QED
      BY <2>2, <2>3, <2>4 DEF l1, l2, l3
  <1> DEFINE linked == h.link # None
             item == IF linked THEN Get(img, "assignments", h.link).item
                     ELSE IF h.tgt # None THEN h.tgt ELSE h.item
             fresh == [Blank EXCEPT !.tab = "assignments", !.id = q.link, !.item = item,
                                    !.role = h.role, !.status = "queued", !.ver = 1]
             a == IF linked THEN Get(img, "assignments", h.link) ELSE fresh
             taken == [h EXCEPT !.status = "accepted", !.link = a.id, !.tgt = item]
             receipt == [Blank EXCEPT !.tab = "command_receipts", !.id = q.claim, !.link = a.id,
                                      !.ver = q.ver]
  <1>4. IsRow(fresh) /\ IsRow(receipt)
    <2>1. ASSUME NEW i PROVE IsRow([Blank EXCEPT !.tab = "assignments", !.id = q.link, !.item = i,
                                                 !.role = h.role, !.status = "queued", !.ver = 1])
      BY BlankIsRow, RowFields DEF Columns
    <2>2. ASSUME NEW i PROVE IsRow([Blank EXCEPT !.tab = "command_receipts", !.id = q.claim, !.link = i,
                                                 !.ver = q.ver])
      BY BlankIsRow, RowFields DEF Columns
    <2> HIDE DEF item, a
    <2> QED
      BY <2>1, <2>2
  <1>5. IsRow(h) => IsRow(Stamped(taken))
    <2>1. IsRow(h) => IsRow(taken)
      <3>1. ASSUME IsRow(h), NEW link, NEW tgt
            PROVE  IsRow([h EXCEPT !.status = "accepted", !.link = link, !.tgt = tgt])
        BY <3>1, RowFields DEF Columns
      <3> HIDE DEF a, item
      <3> QED
        BY <3>1
    <2> HIDE DEF taken
    <2> QED
      BY <2>1, RowChanges
  <1>6. FollowUp(q, img, h) =
            (IF linked THEN <<>> ELSE <<Insert(a)>>)
            \o (IF linked /\ h.status = "accepted" /\ h.tgt = item THEN <<>>
                ELSE <<Put(Stamped(taken), h.ver, "conflict")>>)
            \o <<Insert(receipt)>>
    BY DEF FollowUp
  <1>7. ~linked => a = fresh
    OBVIOUS
  <1> HIDE DEF linked, item, fresh, a, taken, receipt
  <1> QED
    BY <1>3, <1>4, <1>5, <1>6, <1>7

LEMMA HandoffOpsPlanImmediate ==
    ASSUME NEW q, q.op \in {"RestoreHandoffSnapshot", "UpdateHandoff", "DeleteHandoff",
                            "AcceptHandoffWithFollowUp"}
    PROVE  PlansImmediate(q)
  <1>1. ASSUME q.op = "RestoreHandoffSnapshot" PROVE PlansImmediate(q)
    <2> DEFINE list == <<Put(Row(q, "handoffs"), None, "notfound")>>
    <2>1. AreStatements(list) /\ WritesAll(q, list)
      BY <1>1, StatementForms, StatementLists, WritesLists DEF HandoffWriters
    <2>2. \A img : \E refused : /\ refused \subseteq Typed
                                /\ Operation(q, img) = HandoffTransition(q, img, refused, list)
      BY <1>1 DEF Operation, RestoreHandoffSnapshot, Typed
    <2> QED
      BY <2>1, <2>2, HandoffPlans
  <1>2. ASSUME q.op = "UpdateHandoff" PROVE PlansImmediate(q)
    <2>1. ASSUME NEW h
          PROVE  AreStatements(PutPatched(h, q)) /\ (IsRow(h) => WritesAll(q, PutPatched(h, q)))
      <3> DEFINE s == Put(Stamped(PatchedHandoff(h, q)), h.ver, "conflict")
      <3>1. IsStatement(s)
        BY DEF IsStatement, Put, Typed
      <3>2. IsRow(h) => Writes(q, s)
        BY <1>2, RowChanges DEF Writes, Put, HandoffWriters
      <3> QED
        BY <3>1, <3>2, StatementLists, WritesLists DEF PutPatched
    <2>2. ASSUME NEW img
          PROVE  \E refused, list :
                     /\ refused \subseteq Typed /\ AreStatements(list)
                     /\ AreRows(img) /\ Has(img, "handoffs", q.id) => WritesAll(q, list)
                     /\ Operation(q, img) = HandoffTransition(q, img, refused, list)
      <3> DEFINE h == Get(img, "handoffs", q.id)
      <3>1. \E refused : /\ refused \subseteq Typed
                         /\ Operation(q, img)
                              = HandoffTransition(q, img, refused, PutPatched(h, q))
        BY <1>2 DEF Operation, UpdateHandoff, Typed
      <3>2. AreRows(img) /\ Has(img, "handoffs", q.id) => IsRow(h)
        BY Gets
      <3> QED
        BY <2>1, <3>1, <3>2
    <2> QED
      BY <2>2, HandoffPlans
  <1>3. ASSUME q.op = "DeleteHandoff" PROVE PlansImmediate(q)
    <2> DEFINE list == <<DeleteOne("handoffs", q.id)>>
    <2>1. AreStatements(list) /\ WritesAll(q, list)
      BY Deletions, StatementLists, WritesLists
    <2>2. \A img : \E refused : /\ refused \subseteq Typed
                                /\ Operation(q, img) = HandoffTransition(q, img, refused, list)
      BY <1>3 DEF Operation, DeleteHandoff, Typed
    <2> QED
      BY <2>1, <2>2, HandoffPlans
  <1>4. ASSUME q.op = "AcceptHandoffWithFollowUp" PROVE PlansImmediate(q)
    <2>1. ASSUME NEW img
          PROVE  \/ \E refused, list :
                        /\ refused \subseteq Typed /\ AreStatements(list)
                        /\ AreRows(img) /\ Has(img, "handoffs", q.id) => WritesAll(q, list)
                        /\ Operation(q, img) = HandoffTransition(q, img, refused, list)
                 \/ Operation(q, img) = Replay(q, img)
      <3> DEFINE h == Get(img, "handoffs", q.id)
      <3>1. \/ \E refused : /\ refused \subseteq Typed
                            /\ Operation(q, img)
                                 = HandoffTransition(q, img, refused, FollowUp(q, img, h))
            \/ Operation(q, img) = Replay(q, img)
        BY <1>4 DEF Operation, AcceptHandoffWithFollowUp, Typed
      <3>2. /\ AreStatements(FollowUp(q, img, h))
            /\ AreRows(img) /\ Has(img, "handoffs", q.id) => WritesAll(q, FollowUp(q, img, h))
        BY <1>4, Gets, FollowUpStatements DEF HandoffWriters
      <3> HIDE DEF h
      <3> QED
        BY <3>1, <3>2
    <2> QED
      BY <2>1, HandoffPlans
  <1> QED
    BY <1>1, <1>2, <1>3, <1>4

LEMMA PromotionDecides ==
    ASSUME NEW q, q.op = "PromoteMemoryCandidate"
    PROVE  Decides(q, "deferred", <<>>)
  <1> SUFFICES ASSUME NEW img
               PROVE  \E no, list : /\ no \subseteq Typed /\ AreStatements(list)
                                    /\ AreRows(img) => WritesAll(q, list)
                                    /\ Operation(q, img) = Plan("deferred", <<>>, no, list)
    BY DEF Decides
  <1> DEFINE c == Get(img, "memory_candidates", q.id)
             entry == [Blank EXCEPT !.tab = "memory_entries", !.id = q.link]
             promoted == [c EXCEPT !.status = "promoted", !.link = q.link]
             list == <<Insert(entry), Put(promoted, None, "notfound")>>
  <1>1. Operation(q, img) = PromoteMemoryCandidate(q, img)
    BY DEF Operation
  <1>2. CASE \/ ~Has(img, "memory_candidates", q.id)
             \/ c.status = "promoted" /\ c.link # None
             \/ c.status # "pending"
    <2>1. \E no : no \in {{}, {"notfound"}, {"conflict"}}
                  /\ PromoteMemoryCandidate(q, img) = Plan("deferred", <<>>, no, <<>>)
      BY <1>2 DEF PromoteMemoryCandidate
    <2> QED
      BY <1>1, <2>1, StatementLists, WritesLists DEF Typed
  <1>3. CASE /\ Has(img, "memory_candidates", q.id)
             /\ ~(c.status = "promoted" /\ c.link # None)
             /\ c.status = "pending"
    <2>1. PromoteMemoryCandidate(q, img) = Plan("deferred", <<>>, {}, list)
      BY <1>3 DEF PromoteMemoryCandidate
    <2>2. AreStatements(list)
      <3>1. \A row : IsStatement(Insert(row)) /\ IsStatement(Put(row, None, "notfound"))
        BY DEF IsStatement, Insert, Put, Typed
      <3> QED
        BY <3>1, StatementLists
    <2>3. ASSUME AreRows(img) PROVE WritesAll(q, list)
      <3>1. IsRow(entry) /\ entry.tab = "memory_entries"
        BY DEF IsRow, Blank
      <3>2. IsRow(c) /\ c.tab = "memory_candidates"
        BY <1>3, <2>3, Gets
      <3>3. IsRow(promoted) /\ promoted.tab = "memory_candidates"
        <4> HIDE DEF c
        <4> QED
          BY <3>2, RowFields DEF Columns
      <3> HIDE DEF entry, promoted
      <3>4. Writes(q, Insert(entry)) /\ Writes(q, Put(promoted, None, "notfound"))
        BY <3>1, <3>3 DEF Writes, Insert, Put
      <3> QED
        BY <3>4, WritesLists
    <2> HIDE DEF list
    <2> QED
      BY <1>1, <2>1, <2>2, <2>3
  <1> QED
    BY <1>2, <1>3

\* What a request asks of the database takes one of four forms, and which one
\* depends on its operation alone, not on the rows.
THEOREM EveryOperationPlans ==
    ASSUME NEW q, q.op \in Ops
    PROVE  \/ PlansOne(q) \/ PlansList(q) \/ PlansImmediate(q)
           \/ q.op = "PromoteMemoryCandidate" /\ Decides(q, "deferred", <<>>)
  BY AutocommitOpsPlanOne, DeferredOpsPlanList, TransitionOpsPlanImmediate,
     HandoffOpsPlanImmediate, PromotionDecides DEF Ops, AutocommitOps, TransitionOps

-----------------------------------------------------------------------------
(* What an operation makes of the rows.                                    *)

\* A row that was not there before was put by one of the statements.
LEMMA NewRowsAreWritten ==
    ASSUME NEW list, AreStatements(list), NEW img, NEW r \in RunAll(list, img), r \notin img
    PROVE  \E s \in Elements(list) : s.do # "delete" /\ r = s.row
  <1> DEFINE L == Len(list)
             Put_ == {s.row : s \in {x \in Elements(list) : x.do # "delete"}}
             Good(k) == RunTo(list, img)[k] \subseteq img \cup Put_
             G == {k \in 0..L : Good(k)}
  <1>1. L \in Nat /\ \A k \in 1..L : list[k] \in Elements(list)
    <2>1. list \in Seq(Elements(list))
      BY DEF AreStatements, IsList
    <2> QED
      BY <2>1, LenProperties DEF Elements
  <1> HIDE DEF L
  <1>2. /\ RunTo(list, img)[0] = img
        /\ \A k \in 1..L : RunTo(list, img)[k] = Run(list[k], RunTo(list, img)[k - 1])
    BY <1>1, RunToSteps DEF L
  <1>3. 0 \in G
    BY <1>1, <1>2
  <1>4. ASSUME NEW k \in 0..(L - 1), k \in G PROVE k + 1 \in G
    <2>1. RunTo(list, img)[k + 1] = Run(list[k + 1], RunTo(list, img)[k])
      BY <1>1, <1>2
    <2>2. list[k + 1] \in Elements(list)
      BY <1>1
    <2>3. RunTo(list, img)[k] \subseteq img \cup Put_
      BY <1>4
    <2>4. list[k + 1].do # "delete" => list[k + 1].row \in Put_
      BY <2>2
    <2> HIDE DEF Put_
    <2>5. Good(k + 1)
      BY <2>1, <2>3, <2>4 DEF Run
    <2> HIDE DEF Good
    <2> QED
      BY <1>1, <2>5
  <1>5. Good(L)
    <2> HIDE DEF Good
    <2>1. \A k \in 0..(L - 1) : k \in G => k + 1 \in G
      BY <1>4
    <2> HIDE DEF G
    <2>2. \A k \in 0..L : k \in G
      BY <1>1, <1>3, <2>1, InductionUpTo
    <2> QED
      BY <1>1, <2>2 DEF G
  <1>6. r \in Put_
    BY <1>5 DEF RunAll, L
  <1> QED
    BY <1>6

LEMMA EffectWrites ==
    ASSUME NEW q, q.op \in Ops, NEW img, AreRows(img)
    PROVE  LET new == RunAll(Operation(q, img).do, img)
           IN /\ AreStatements(Operation(q, img).do)
              /\ AreRows(new)
              /\ \A r \in new : r \notin img /\ r.tab = "handoffs" => q.op \in HandoffWriters
  <1>1. AreStatements(Operation(q, img).do) /\ WritesAll(q, Operation(q, img).do)
    <2>1. CASE PlansOne(q)
      BY <2>1, StatementLists, WritesLists DEF PlansOne, Autocommit, Plan
    <2>2. CASE PlansList(q)
      BY <2>2 DEF PlansList, Plan
    <2>3. CASE PlansImmediate(q)
      BY <2>3 DEF PlansImmediate, Decides, Plan
    <2>4. CASE q.op = "PromoteMemoryCandidate" /\ Decides(q, "deferred", <<>>)
      BY <2>4 DEF Decides, Plan
    <2> QED
      BY <2>1, <2>2, <2>3, <2>4, EveryOperationPlans
  <1> DEFINE new == RunAll(Operation(q, img).do, img)
  <1>2. ASSUME NEW r \in new, r \notin img
        PROVE  IsRow(r) /\ (r.tab = "handoffs" => q.op \in HandoffWriters)
    <2>1. PICK s \in Elements(Operation(q, img).do) : s.do # "delete" /\ r = s.row
      BY <1>1, <1>2, NewRowsAreWritten
    <2> QED
      BY <1>1, <2>1 DEF WritesAll, Writes
  <1> QED
    BY <1>1, <1>2 DEF AreRows

-----------------------------------------------------------------------------
(* The references of a handoff.                                            *)

Resolves(t, i, item, img) == i # None => Found([tab |-> t, id |-> i, item |-> item], img)
AllFound(list, img) == \A k \in DOMAIN list : Found(list[k], img)

LEMMA AllFoundLooks ==
    ASSUME NEW img, NEW a, IsList(a), NEW t, NEW i, NEW item
    PROVE  /\ IsList(a \o Look(t, i, item))
           /\ AllFound(a \o Look(t, i, item), img) <=> AllFound(a, img) /\ Resolves(t, i, item, img)
  <1>1. IsList(a \o Look(t, i, item))
    BY LookIsList, ConcatIsList
  <1>2. DOMAIN a = 1..Len(a) /\ Len(a) \in Nat
    BY LenProperties DEF IsList
  <1>3. CASE i = None
    <2>1. Look(t, i, item) = <<>> /\ a \o <<>> = a
      BY <1>3, ConcatEmptySeq DEF Look, IsList
    <2> QED
      BY <1>1, <1>3, <2>1 DEF Resolves
  <1>4. CASE i # None
    <2> DEFINE look == [tab |-> t, id |-> i, item |-> item]
    <2>1. Look(t, i, item) = <<look>>
      BY <1>4 DEF Look
    <2> HIDE DEF look
    <2>2. /\ DOMAIN (a \o <<look>>) = 1..(Len(a) + 1)
          /\ \A k \in 1..Len(a) : (a \o <<look>>)[k] = a[k]
          /\ (a \o <<look>>)[Len(a) + 1] = look
      <3> DEFINE S == Elements(a) \cup {look}
      <3>1. a \in Seq(S) /\ <<look>> \in Seq(S)
        BY SeqMonotonic DEF IsList
      <3> HIDE DEF S
      <3> QED
        BY <1>2, <3>1, ConcatProperties, LenProperties
    <2>3. AllFound(a \o <<look>>, img) <=> AllFound(a, img) /\ Found(look, img)
      BY <1>2, <2>2 DEF AllFound
    <2> QED
      BY <1>1, <1>4, <2>1, <2>3 DEF Resolves, look
  <1> QED
    BY <1>3, <1>4

LEMMA ValidHandoffIs ==
    ASSUME NEW h, NEW img
    PROVE  ValidHandoff(h, img) <=> /\ Resolves("assignments", h.src, h.item, img)
                                    /\ Resolves("roles", h.role, None, img)
                                    /\ Resolves("assignments", h.link, h.tgt, img)
                                    /\ Resolves("work_items", h.tgt, None, img)
  <1> DEFINE l1 == Look("assignments", h.src, h.item)
             l2 == l1 \o Look("roles", h.role, None)
             l3 == l2 \o Look("assignments", h.link, h.tgt)
             l4 == l3 \o Look("work_items", h.tgt, None)
  <1>1. IsList(l1) /\ (AllFound(l1, img) <=> Resolves("assignments", h.src, h.item, img))
    <2>1. AllFound(l1, img) <=> Resolves("assignments", h.src, h.item, img)
      BY DEF AllFound, Resolves, Look
    <2> QED
      BY <2>1, LookIsList
  <1> HIDE DEF l1
  <1>2. IsList(l2) /\ (AllFound(l2, img) <=> AllFound(l1, img) /\ Resolves("roles", h.role, None, img))
    BY <1>1, AllFoundLooks
  <1> HIDE DEF l2
  <1>3. IsList(l3) /\ (AllFound(l3, img) <=> AllFound(l2, img) /\ Resolves("assignments", h.link, h.tgt, img))
    BY <1>2, AllFoundLooks
  <1> HIDE DEF l3
  <1>4. AllFound(l4, img) <=> AllFound(l3, img) /\ Resolves("work_items", h.tgt, None, img)
    BY <1>3, AllFoundLooks
  <1>5. ValidHandoff(h, img) <=> AllFound(l4, img)
    BY DEF ValidHandoff, HandoffLooks, AllFound, Role, Item, l1, l2, l3
  <1> QED
    BY <1>1, <1>2, <1>3, <1>4, <1>5

\* A handoff resolves after a change that keeps what handoffs refer to.
LEMMA ResolvesStill ==
    ASSUME NEW img, NEW new, NEW t \in {"assignments", "roles", "work_items"},
           \A r \in img : r.tab # "handoffs" => r \in new,
           NEW i, NEW item, Resolves(t, i, item, img)
    PROVE  Resolves(t, i, item, new)
  BY DEF Resolves, Found

LEMMA ConcatElements ==
    ASSUME NEW a, IsList(a), NEW b, IsList(b)
    PROVE  Elements(a \o b) = Elements(a) \cup Elements(b)
  <1> DEFINE S == Elements(a) \cup Elements(b)
  <1>1. a \in Seq(S) /\ b \in Seq(S)
    <2>1. Elements(a) \subseteq S /\ Elements(b) \subseteq S
      OBVIOUS
    <2> HIDE DEF S
    <2> QED
      BY <2>1, SeqMonotonic DEF IsList
  <1> HIDE DEF S
  <1>2. /\ Len(a) \in Nat /\ DOMAIN a = 1..Len(a)
        /\ Len(b) \in Nat /\ DOMAIN b = 1..Len(b)
        /\ DOMAIN (a \o b) = 1..(Len(a) + Len(b))
        /\ \A k \in 1..(Len(a) + Len(b)) : (a \o b)[k] = IF k <= Len(a) THEN a[k] ELSE b[k - Len(a)]
    BY <1>1, ConcatProperties, LenProperties
  <1>3. ASSUME NEW x \in Elements(b) PROVE x \in Elements(a \o b)
    <2>1. PICK k \in 1..Len(b) : x = b[k]
      BY <1>2 DEF Elements
    <2>2. k + Len(a) \in 1..(Len(a) + Len(b)) /\ ~(k + Len(a) <= Len(a)) /\ (k + Len(a)) - Len(a) = k
      BY <1>2
    <2>3. (a \o b)[k + Len(a)] = b[k]
      BY <1>2, <2>2
    <2> QED
      BY <1>2, <2>1, <2>2, <2>3 DEF Elements
  <1>4. ASSUME NEW x \in Elements(a) PROVE x \in Elements(a \o b)
    <2>1. PICK k \in 1..Len(a) : x = a[k]
      BY <1>2 DEF Elements
    <2>2. k \in 1..(Len(a) + Len(b)) /\ k <= Len(a)
      BY <1>2
    <2> QED
      BY <1>2, <2>1, <2>2 DEF Elements
  <1>5. Elements(a \o b) \subseteq Elements(a) \cup Elements(b)
    BY ConcatIsList
  <1> QED
    BY <1>3, <1>4, <1>5

\* Nothing but handoffs is changed or removed.
ChangesHandoffs(list) == \A s \in Elements(list) : s.do = "insert" \/ s.row.tab = "handoffs"

LEMMA OtherRowsStay ==
    ASSUME NEW list, AreStatements(list), ChangesHandoffs(list), NEW img, NEW r, r.tab # "handoffs",
           r \in img \/ \E s \in Elements(list) : s.do = "insert" /\ s.row = r
    PROVE  r \in RunAll(list, img)
  <1> DEFINE L == Len(list)
             Good(k) == \/ r \in RunTo(list, img)[k]
                        \/ \E j \in (k + 1)..L : list[j].do = "insert" /\ list[j].row = r
             G == {k \in 0..L : Good(k)}
  <1>1. /\ L \in Nat /\ \A k \in 1..L : list[k] \in Elements(list)
        /\ \A s \in Elements(list) : \E k \in 1..L : s = list[k]
    <2>1. list \in Seq(Elements(list))
      BY DEF AreStatements, IsList
    <2> QED
      BY <2>1, LenProperties DEF Elements
  <1> HIDE DEF L
  <1>2. /\ RunTo(list, img)[0] = img
        /\ \A k \in 1..L : RunTo(list, img)[k] = Run(list[k], RunTo(list, img)[k - 1])
    BY <1>1, RunToSteps DEF L
  <1>3. 0 \in G
    BY <1>1, <1>2
  <1>4. ASSUME NEW k \in 0..(L - 1), k \in G PROVE k + 1 \in G
    <2> DEFINE s == list[k + 1]
               old == RunTo(list, img)[k]
    <2>1. RunTo(list, img)[k + 1] = Run(s, old) /\ k + 1 \in 1..L
      BY <1>1, <1>2
    <2>2. s \in Elements(list)
      BY <1>1, <2>1
    <2>3. s.do = "insert" \/ s.row.tab = "handoffs"
      BY <2>2 DEF ChangesHandoffs
    <2>4. Good(k)
      BY <1>4
    <2>5. CASE r \in old
      <3>1. r \in Run(s, old)
        BY <2>3, <2>5 DEF Run, Matches
      <3> QED
        BY <2>1, <3>1
    <2>6. CASE s.do = "insert" /\ s.row = r
      <3>1. r \in Run(s, old)
        BY <2>6 DEF Run
      <3> QED
        BY <2>1, <3>1
    <2>7. CASE r \notin old /\ ~(s.do = "insert" /\ s.row = r)
      <3>1. PICK j \in (k + 1)..L : list[j].do = "insert" /\ list[j].row = r
        BY <2>4, <2>7
      <3>2. j # k + 1
        BY <2>7, <3>1
      <3>3. j \in ((k + 1) + 1)..L
        BY <1>1, <3>2
      <3> QED
        BY <2>1, <3>1, <3>3
    <2> QED
      BY <2>5, <2>6, <2>7
  <1>5. Good(L)
    <2> HIDE DEF Good
    <2>1. \A k \in 0..(L - 1) : k \in G => k + 1 \in G
      BY <1>4
    <2> HIDE DEF G
    <2>2. \A k \in 0..L : k \in G
      BY <1>1, <1>3, <2>1, InductionUpTo
    <2> QED
      BY <1>1, <2>2 DEF G
  <1> QED
    BY <1>1, <1>5 DEF RunAll, L

\* A handoff as it is stored resolves, if one with its references did before
\* nothing but handoffs was changed.
LEMMA StillValid ==
    ASSUME NEW img, NEW new, \A r \in img : r.tab # "handoffs" => r \in new,
           NEW g, ValidHandoff(g, img),
           NEW h, IsRow(h), h.role = g.role, h.link = g.link, h.tgt = g.tgt
    PROVE  ValidHandoff([h EXCEPT !.src = None], new)
  <1> DEFINE x == [h EXCEPT !.src = None]
  <1>1. x.src = None /\ x.role = h.role /\ x.link = h.link /\ x.tgt = h.tgt
    BY RowFields DEF Columns
  <1> HIDE DEF x
  <1>2. /\ Resolves("roles", g.role, None, new)
        /\ Resolves("assignments", g.link, g.tgt, new)
        /\ Resolves("work_items", g.tgt, None, new)
    BY ValidHandoffIs, ResolvesStill
  <1>3. Resolves("assignments", None, x.item, new)
    BY DEF Resolves
  <1>4. ValidHandoff(x, new)
    BY <1>1, <1>2, <1>3, ValidHandoffIs
  <1> QED
    BY <1>4 DEF x

LEMMA OneHandoffPut ==
    ASSUME NEW img, NEW row, row.tab = "handoffs", NEW ver, NEW miss \in {"notfound", "conflict"}
    PROVE  LET list == <<Put(row, ver, miss)>>
           IN /\ \A r \in img : r.tab # "handoffs" => r \in RunAll(list, img)
              /\ \A h \in RunAll(list, img) : h \in img \/ h = row
  <1> DEFINE s == Put(row, ver, miss)
  <1>1. s.do = "put" /\ s.row = row
    BY DEF Put
  <1> HIDE DEF s
  <1>2. \A r \in Matches(s, img) : r.tab = "handoffs"
    BY <1>1 DEF Matches
  <1>3. Run(s, img) = (img \ Matches(s, img)) \cup {row}
    BY <1>1 DEF Run
  <1>4. RunAll(<<s>>, img) = Run(s, img)
    BY OneToRun
  <1>5. /\ \A r \in img : r.tab # "handoffs" => r \in RunAll(<<s>>, img)
        /\ \A h \in RunAll(<<s>>, img) : h \in img \/ h = row
    BY <1>2, <1>3, <1>4
  <1> QED
    BY <1>5 DEF s

-----------------------------------------------------------------------------
(* The rows an operation leaves.                                           *)

Result(q, img) == RunAll(Operation(q, img).do, img)

LEMMA ListKeepsKeys ==
    ASSUME NEW list, AreStatements(list), NEW img, Keyed(img), ListMisses(list, img) = {}
    PROVE  Keyed(RunAll(list, img))
  <1> DEFINE L == Len(list)
             G == {k \in 0..L : Keyed(RunTo(list, img)[k])}
  <1>1. /\ L \in Nat /\ DOMAIN list = 1..L
        /\ \A k \in 1..L : list[k] \in Elements(list) /\ IsStatement(list[k])
    <2>1. list \in Seq(Elements(list))
      BY DEF AreStatements, IsList
    <2>2. L \in Nat /\ DOMAIN list = 1..L
      BY <2>1, LenProperties
    <2> QED
      BY <2>2 DEF AreStatements, Elements
  <1> HIDE DEF L
  <1>2. /\ RunTo(list, img)[0] = img
        /\ \A k \in 1..L : RunTo(list, img)[k] = Run(list[k], RunTo(list, img)[k - 1])
    BY <1>1, RunToSteps DEF L
  <1>3. \A k \in 1..L : Misses(list[k], RunTo(list, img)[k - 1]) = {}
    BY <1>1 DEF ListMisses
  <1>4. 0 \in G
    BY <1>1, <1>2
  <1>5. ASSUME NEW k \in 0..(L - 1), k \in G PROVE k + 1 \in G
    <2>1. k + 1 \in 1..L /\ (k + 1) - 1 = k
      BY <1>1
    <2>2. /\ IsStatement(list[k + 1]) /\ Misses(list[k + 1], RunTo(list, img)[k]) = {}
          /\ RunTo(list, img)[k + 1] = Run(list[k + 1], RunTo(list, img)[k])
      BY <1>1, <1>2, <1>3, <2>1
    <2>3. Keyed(RunTo(list, img)[k + 1])
      BY <1>5, <2>2, RunKeepsKeys
    <2> QED
      BY <1>1, <2>1, <2>3
  <1>6. \A k \in 0..(L - 1) : k \in G => k + 1 \in G
    BY <1>5
  <1> HIDE DEF G
  <1>7. \A k \in 0..L : k \in G
    BY <1>1, <1>4, <1>6, InductionUpTo
  <1> QED
    BY <1>1, <1>7 DEF G, RunAll, L

LEMMA InsertMakes ==
    ASSUME NEW q, NEW img, NEW looks, NEW row, Operation(q, img) = Autocommit(looks, Insert(row))
    PROVE  /\ Result(q, img) = img \cup {row}
           /\ Refusals(q, img) \subseteq {"duplicate", "notfound"}
           /\ "duplicate" \in Refusals(q, img) <=> Has(img, row.tab, row.id)
           /\ "notfound" \notin Refusals(q, img) <=>
                 /\ AllFound(looks, img)
                 /\ row.item # None => Has(img, "work_items", row.item)
                 /\ row.tab \in Owned => OfTable(img, "projects") # {}
  <1> DEFINE s == Insert(row)
  <1>1. s.do = "insert" /\ s.row = row
    BY DEF Insert
  <1>2. Operation(q, img).no = {} /\ Operation(q, img).do = <<s>> /\ Operation(q, img).looks = looks
    BY DEF Autocommit, Plan
  <1> HIDE DEF s
  <1>3. Result(q, img) = Run(s, img) /\ ListMisses(Operation(q, img).do, img) = Misses(s, img)
    BY <1>2, OneToRun DEF Result
  <1>4. Result(q, img) = img \cup {row}
    BY <1>1, <1>3 DEF Run
  <1>5. /\ Misses(s, img) \subseteq {"duplicate", "notfound"}
        /\ "duplicate" \in Misses(s, img) <=> Has(img, row.tab, row.id)
        /\ "notfound" \in Misses(s, img) <=>
              \/ row.item # None /\ ~Has(img, "work_items", row.item)
              \/ row.tab \in Owned /\ OfTable(img, "projects") = {}
    BY <1>1 DEF Misses, Matches, Has
  <1>6. Refusals(q, img) = Misses(s, img) \cup (IF AllFound(looks, img) THEN {} ELSE {"notfound"})
    BY <1>2, <1>3 DEF Refusals, AllFound
  <1> QED
    BY <1>4, <1>5, <1>6

LEMMA PutMakes ==
    ASSUME NEW q, NEW img, NEW looks, NEW row,
           Operation(q, img) = Autocommit(looks, Put(row, None, "notfound"))
    PROVE  /\ Result(q, img) = {r \in img : ~(r.tab = row.tab /\ r.id = row.id)} \cup {row}
           /\ Refusals(q, img) = {} <=> AllFound(looks, img) /\ Has(img, row.tab, row.id)
  <1> DEFINE s == Put(row, None, "notfound")
  <1>1. s.do = "put" /\ s.row = row /\ s.ver = None /\ s.miss = "notfound"
    BY DEF Put
  <1>2. Operation(q, img).no = {} /\ Operation(q, img).do = <<s>> /\ Operation(q, img).looks = looks
    BY DEF Autocommit, Plan
  <1> HIDE DEF s
  <1>3. Result(q, img) = Run(s, img) /\ ListMisses(Operation(q, img).do, img) = Misses(s, img)
    BY <1>2, OneToRun DEF Result
  <1>4. Matches(s, img) = {r \in img : r.tab = row.tab /\ r.id = row.id}
    BY <1>1 DEF Matches
  <1>5. Result(q, img) = {r \in img : ~(r.tab = row.tab /\ r.id = row.id)} \cup {row}
    BY <1>1, <1>3, <1>4 DEF Run
  <1>6. Misses(s, img) = IF Has(img, row.tab, row.id) THEN {} ELSE {"notfound"}
    BY <1>1, <1>4 DEF Misses, Has
  <1>7. Refusals(q, img) = Misses(s, img) \cup (IF AllFound(looks, img) THEN {} ELSE {"notfound"})
    BY <1>2, <1>3 DEF Refusals, AllFound
  <1> QED
    BY <1>5, <1>6, <1>7

\* A transition of an assignment replaces the row it has read.
LEMMA TransitionMakes ==
    ASSUME NEW q, q.op \in TransitionOps, NEW img, AreRows(img), Keyed(img),
           Refusals(q, img) = {}
    PROVE  /\ Has(img, "assignments", q.id)
           /\ \E next :
                 /\ AssignmentAfter(q, img, next)
                 /\ Result(q, img) = (img \ {Get(img, "assignments", q.id)}) \cup {next}
           /\ Get(img, "assignments", q.id).status \notin Terminal
           /\ AllFound(Operation(q, img).looks, img)
  <1> DEFINE a == Get(img, "assignments", q.id)
  <1>1. PICK looks, allowed, next : /\ AssignmentAfter(q, img, next)
                                    /\ Unfinished(q, img, allowed)
                               /\ Unfinished(q, img, allowed)
                                    /\ Operation(q, img) = Transition(q, img, looks, allowed, next)
    BY TransitionOpsTransit DEF Transits
  <1>2. Operation(q, img).no = {} /\ AllFound(Operation(q, img).looks, img)
    BY DEF Refusals, AllFound
  <1> DEFINE s == Put(next, a.ver, "conflict")
  <1>3. Has(img, "assignments", q.id) /\ Operation(q, img).do = <<s>>
    BY <1>1, <1>2 DEF Transition, Plan
  <1>4. a \in img /\ a.tab = "assignments" /\ a.id = q.id
    BY <1>3, Gets
  <1>5. next.tab = "assignments" /\ next.id = q.id
    BY <1>1, <1>3 DEF AssignmentAfter
  <1> HIDE DEF a
  <1>6. s.do = "put" /\ s.row = next /\ s.ver = a.ver
    BY DEF Put
  <1> HIDE DEF s
  <1>7. Matches(s, img) = {a}
    BY <1>4, <1>5, <1>6 DEF Matches, Keyed
  <1>8. Result(q, img) = (img \ {a}) \cup {next}
    <2>1. Result(q, img) = Run(s, img)
      BY <1>3, OneToRun DEF Result
    <2> QED
      BY <1>6, <1>7, <2>1 DEF Run
  <1>9. a.status \notin Terminal
    <2>1. allowed
      BY <1>1, <1>2, <1>3 DEF Transition, Plan
    <2> QED
      BY <1>1, <2>1 DEF Unfinished, a
  <1> QED
    BY <1>1, <1>2, <1>3, <1>8, <1>9 DEF a

\* What a list of DELETE statements takes away.
Deleted(list, r) == \E s \in Elements(list) : r.tab = s.row.tab /\ r[s.ver] = s.row[s.ver]

LEMMA DeletionsMake ==
    ASSUME NEW list, AreStatements(list), \A s \in Elements(list) : s.do = "delete", NEW img
    PROVE  RunAll(list, img) = {r \in img : ~Deleted(list, r)}
  <1> DEFINE L == Len(list)
             Del(k, r) == r.tab = list[k].row.tab /\ r[list[k].ver] = list[k].row[list[k].ver]
             Good(k) == RunTo(list, img)[k] = {r \in img : \A j \in 1..k : ~Del(j, r)}
             G == {k \in 0..L : Good(k)}
  <1>1. /\ L \in Nat /\ Elements(list) = {list[k] : k \in 1..L}
        /\ \A k \in 1..L : list[k].do = "delete"
    <2>1. list \in Seq(Elements(list))
      BY DEF AreStatements, IsList
    <2>2. L \in Nat /\ DOMAIN list = 1..L
      BY <2>1, LenProperties
    <2> QED
      BY <2>2 DEF Elements
  <1> HIDE DEF L
  <1>2. /\ RunTo(list, img)[0] = img
        /\ \A k \in 1..L : RunTo(list, img)[k] = Run(list[k], RunTo(list, img)[k - 1])
    BY <1>1, RunToSteps DEF L
  <1>3. 0 \in G
    BY <1>1, <1>2
  <1>4. ASSUME NEW k \in 0..(L - 1), k \in G PROVE k + 1 \in G
    <2> DEFINE old == RunTo(list, img)[k]
               s == list[k + 1]
    <2>1. k + 1 \in 1..L /\ (k + 1) - 1 = k
      BY <1>1
    <2>2. RunTo(list, img)[k + 1] = Run(s, old) /\ s.do = "delete"
      BY <1>1, <1>2, <2>1
    <2>3. Run(s, old) = {r \in old : ~Del(k + 1, r)}
      BY <2>2 DEF Run, Matches
    <2>4. old = {r \in img : \A j \in 1..k : ~Del(j, r)}
      BY <1>4
    <2> HIDE DEF Del, old
    <2>5. \A r : (\A j \in 1..(k + 1) : ~Del(j, r)) <=> (\A j \in 1..k : ~Del(j, r)) /\ ~Del(k + 1, r)
      <3>1. 1..(k + 1) = (1..k) \cup {k + 1}
        BY <1>1
      <3> QED
        BY <3>1
    <2>6. Good(k + 1)
      BY <2>2, <2>3, <2>4, <2>5
    <2> QED
      BY <1>1, <2>1, <2>6
  <1>5. Good(L)
    <2> HIDE DEF Good
    <2>1. \A k \in 0..(L - 1) : k \in G => k + 1 \in G
      BY <1>4
    <2> HIDE DEF G
    <2>2. \A k \in 0..L : k \in G
      BY <1>1, <1>3, <2>1, InductionUpTo
    <2> QED
      BY <1>1, <2>2 DEF G
  <1>6. \A r : Deleted(list, r) <=> \E j \in 1..L : Del(j, r)
    BY <1>1 DEF Deleted
  <1> HIDE DEF Del
  <1> QED
    BY <1>5, <1>6 DEF RunAll, L

-----------------------------------------------------------------------------
(* The operations that write handoffs.                                     *)

\* A handoff that an operation changed resolves, but for its source.
ChangesResolve(q, img) ==
    LET o == Operation(q, img)
        new == RunAll(o.do, img)
    IN o.no = {} /\ ListMisses(o.do, img) = {}
       => \A h \in new : (h \notin img /\ h.tab = "handoffs" /\ Has(img, "handoffs", h.id))
                         => ValidHandoff([h EXCEPT !.src = None], new)

LEMMA CreateHandoffChangesNone ==
    ASSUME NEW q, q.op = "CreateHandoff", NEW img
    PROVE  ChangesResolve(q, img)
  <1> DEFINE row == Row(q, "handoffs")
             list == <<Insert(row)>>
  <1>1. Operation(q, img).do = list
    BY DEF Operation, CreateHandoff, Autocommit, Plan
  <1>2. RunAll(list, img) = Run(Insert(row), img) /\ ListMisses(list, img) = Misses(Insert(row), img)
    BY OneToRun
  <1>3. row.tab = "handoffs"
    BY RowIsRow
  <1> HIDE DEF row
  <1>4. ASSUME Misses(Insert(row), img) = {}, NEW h \in Run(Insert(row), img), h \notin img,
               Has(img, "handoffs", h.id)
        PROVE  FALSE
    <2>1. h = row
      BY <1>4 DEF Run, Insert
    <2>2. Matches(Insert(row), img) # {}
      BY <1>3, <1>4, <2>1 DEF Matches, Insert, Has
    <2> QED
      BY <1>4, <2>2 DEF Misses, Insert
  <1> QED
    BY <1>1, <1>2, <1>4 DEF ChangesResolve

LEMMA RestoredHandoffResolves ==
    ASSUME NEW q, q.op = "RestoreHandoffSnapshot", NEW img
    PROVE  ChangesResolve(q, img)
  <1> DEFINE row == Row(q, "handoffs")
             list == <<Put(row, None, "notfound")>>
             o == Operation(q, img)
  <1>1. o.no = {} => ValidHandoff(row, img) /\ o.do = list
    BY DEF Operation, RestoreHandoffSnapshot, HandoffTransition, Plan
  <1>2. IsRow(row) /\ row.tab = "handoffs"
    BY RowIsRow
  <1> HIDE DEF row
  <1>3. /\ \A r \in img : r.tab # "handoffs" => r \in RunAll(list, img)
        /\ \A h \in RunAll(list, img) : h \in img \/ h = row
    BY <1>2, OneHandoffPut
  <1>4. ValidHandoff(row, img) => ValidHandoff([row EXCEPT !.src = None], RunAll(list, img))
    BY <1>2, <1>3, StillValid
  <1> HIDE DEF list, o
  <1> QED
    BY <1>1, <1>3, <1>4 DEF ChangesResolve, o

LEMMA UpdatedHandoffResolves ==
    ASSUME NEW q, q.op = "UpdateHandoff", NEW img, AreRows(img)
    PROVE  ChangesResolve(q, img)
  <1> DEFINE h == Get(img, "handoffs", q.id)
             patched == PatchedHandoff(h, q)
             row == Stamped(patched)
             list == <<Put(row, h.ver, "conflict")>>
             o == Operation(q, img)
  <1>1. o.no = {} => /\ Has(img, "handoffs", q.id)
                     /\ \/ o.do = <<>>
                        \/ ValidHandoff(patched, img) /\ o.do = list
    <2>1. o = HandoffTransition(q, img,
                  IF h.ver # q.ver THEN {"conflict"}
                  ELSE IF patched # h /\ ~ValidHandoff(patched, img) THEN {"notfound"} ELSE {},
                  PutPatched(h, q))
      BY DEF Operation, UpdateHandoff
    <2>2. PutPatched(h, q) = IF patched = h THEN <<>> ELSE list
      BY DEF PutPatched
    <2>3. \A item : Found([tab |-> "handoffs", id |-> q.id, item |-> item], img)
                   => Has(img, "handoffs", q.id)
      BY DEF Found, Has
    <2> HIDE DEF o, h, patched, list
    <2> QED
      BY <2>1, <2>2, <2>3 DEF HandoffTransition, Plan
  <1>2. CASE o.no # {}
    BY <1>2 DEF ChangesResolve
  <1>3. CASE o.do = <<>>
    BY <1>3, NothingToRun DEF ChangesResolve
  <1>4. CASE Has(img, "handoffs", q.id) /\ ValidHandoff(patched, img) /\ o.do = list
    <2>1. IsRow(h) /\ h.tab = "handoffs"
      BY <1>4, Gets
    <2> HIDE DEF h
    <2>2. IsRow(patched) /\ patched.tab = "handoffs"
      BY <2>1, RowChanges
    <2> HIDE DEF patched
    <2>3. /\ IsRow(row) /\ row.tab = "handoffs"
          /\ row.role = patched.role /\ row.link = patched.link /\ row.tgt = patched.tgt
      BY <2>2, RowFields DEF Stamped, Columns
    <2> HIDE DEF row
    <2>4. /\ \A r \in img : r.tab # "handoffs" => r \in RunAll(list, img)
          /\ \A x \in RunAll(list, img) : x \in img \/ x = row
      BY <2>3, OneHandoffPut
    <2>5. ValidHandoff([row EXCEPT !.src = None], RunAll(list, img))
      BY <1>4, <2>3, <2>4, StillValid
    <2> HIDE DEF list, o
    <2> QED
      BY <1>4, <2>4, <2>5 DEF ChangesResolve, o
  <1> QED
    BY <1>1, <1>2, <1>3, <1>4

\* What an acceptance that is not a replay asks for: an agreeing linked
\* assignment, or a new one in a work item that exists.
LEMMA AcceptanceAsks ==
    ASSUME NEW q, q.op = "AcceptHandoffWithFollowUp", NEW img, Operation(q, img).no = {},
           Operation(q, img).do # <<>>
    PROVE  LET h == Get(img, "handoffs", q.id)
               a == Get(img, "assignments", h.link)
           IN /\ Has(img, "handoffs", q.id)
              /\ Operation(q, img).do = FollowUp(q, img, h)
              /\ Has(img, "roles", h.role)
              /\ h.link # None => /\ Has(img, "assignments", h.link)
                                  /\ Has(img, "work_items", a.item)
              /\ h.link = None => Has(img, "work_items", IF h.tgt # None THEN h.tgt ELSE h.item)
  <1> DEFINE h == Get(img, "handoffs", q.id)
             a == Get(img, "assignments", h.link)
             refused ==
                IF h.ver # q.ver \/ h.status \in {"dismissed", "superseded"} THEN {"conflict"}
                ELSE IF h.role = None THEN {"invalid"}
                ELSE IF ~Has(img, "roles", h.role) THEN {"notfound"}
                ELSE IF h.link # None
                THEN IF /\ Has(img, "assignments", h.link)
                        /\ a.role = h.role /\ (h.tgt # None => a.item = h.tgt)
                        /\ Has(img, "work_items", a.item)
                     THEN {} ELSE {"conflict"}
                ELSE IF Has(img, "work_items", IF h.tgt # None THEN h.tgt ELSE h.item)
                     THEN {} ELSE {"notfound"}
  <1>1. Operation(q, img) = AcceptHandoffWithFollowUp(q, img)
    BY DEF Operation
  <1>2. ~Has(img, "command_receipts", q.claim)
    BY <1>1 DEF AcceptHandoffWithFollowUp, Replay, Plan
  <1>3. Operation(q, img) = HandoffTransition(q, img, refused, FollowUp(q, img, h))
    BY <1>1, <1>2 DEF AcceptHandoffWithFollowUp
  <1>4. /\ refused = {} => /\ Has(img, "roles", h.role)
                           /\ h.link # None => /\ Has(img, "assignments", h.link)
                                               /\ Has(img, "work_items", a.item)
                           /\ h.link = None => Has(img, "work_items", IF h.tgt # None THEN h.tgt ELSE h.item)
    OBVIOUS
  <1>5. \A item : Found([tab |-> "handoffs", id |-> q.id, item |-> item], img)
                 => Has(img, "handoffs", q.id)
    BY DEF Found, Has
  <1> HIDE DEF refused, h, a
  <1>6. Has(img, "handoffs", q.id) /\ refused = {} /\ Operation(q, img).do = FollowUp(q, img, h)
    BY <1>3, <1>5 DEF HandoffTransition, Plan
  <1> QED
    BY <1>4, <1>6 DEF h, a

\* What an acceptance leaves that is not a replay: the follow-up assignment a
\* and the handoff that names it, as row.
Accepted(q, img, a, row) ==
    LET h == Get(img, "handoffs", q.id)
        new == Result(q, img)
    IN /\ Has(img, "handoffs", q.id) /\ Has(img, "roles", h.role)
       /\ a \in new /\ a.tab = "assignments" /\ Has(img, "work_items", a.item)
       /\ \/ a \in img
          \/ /\ a.role = h.role /\ a.item = IF h.tgt # None THEN h.tgt ELSE h.item
             /\ a.id = q.link /\ a.status = "queued"
       /\ IsRow(row) /\ row.tab = "handoffs" /\ row.id = h.id /\ row.item = h.item
       /\ row.src = h.src /\ row.role = h.role /\ row.link = a.id /\ row.tgt = a.item
       /\ \A r \in img : r.tab # "handoffs" => r \in new
       /\ \A g \in new : \/ g \in img \/ g \in {a, row}
                         \/ g.tab = "command_receipts" /\ g.item = None

LEMMA AcceptanceMakes ==
    ASSUME NEW q, q.op = "AcceptHandoffWithFollowUp", NEW img, AreRows(img),
           Operation(q, img).no = {}, Operation(q, img).do # <<>>
    PROVE  \E a, row : Accepted(q, img, a, row)
  <1> DEFINE h == Get(img, "handoffs", q.id)
             linked == h.link # None
             there == Get(img, "assignments", h.link)
             item == IF linked THEN there.item
                     ELSE IF h.tgt # None THEN h.tgt ELSE h.item
             fresh == [Blank EXCEPT !.tab = "assignments", !.id = q.link, !.item = item,
                                    !.role = h.role, !.status = "queued", !.ver = 1]
             a == IF linked THEN there ELSE fresh
             taken == [h EXCEPT !.status = "accepted", !.link = a.id, !.tgt = item]
             row == Stamped(taken)
             receipt == [Blank EXCEPT !.tab = "command_receipts", !.id = q.claim, !.link = a.id,
                                      !.ver = q.ver]
             l1 == IF linked THEN <<>> ELSE <<Insert(a)>>
             l2 == IF linked /\ h.status = "accepted" /\ h.tgt = item THEN <<>>
                   ELSE <<Put(row, h.ver, "conflict")>>
             l3 == <<Insert(receipt)>>
             new == Result(q, img)
  <1>1. /\ Has(img, "handoffs", q.id) /\ Operation(q, img).do = FollowUp(q, img, h)
        /\ Has(img, "roles", h.role)
        /\ linked => Has(img, "assignments", h.link) /\ Has(img, "work_items", there.item)
        /\ ~linked => Has(img, "work_items", IF h.tgt # None THEN h.tgt ELSE h.item)
    BY AcceptanceAsks
  <1>2. IsRow(h) /\ h.tab = "handoffs"
    BY <1>1, Gets
  <1>3. linked => there \in img /\ there.tab = "assignments" /\ there.id = h.link
    BY <1>1, Gets
  <1>4. /\ fresh.tab = "assignments" /\ fresh.id = q.link /\ fresh.item = item
        /\ fresh.role = h.role /\ fresh.status = "queued" /\ receipt.tab = "command_receipts" /\ receipt.item = None
    BY DEF Blank
  <1>5. FollowUp(q, img, h) = (l1 \o l2) \o l3
    BY DEF FollowUp
  <1>6. linked => item = there.item /\ a = there
    OBVIOUS
  <1>7. ~linked => item = (IF h.tgt # None THEN h.tgt ELSE h.item) /\ a = fresh
    OBVIOUS
  <1>8. Has(img, "work_items", item)
    BY <1>1, <1>6, <1>7
  <1> HIDE DEF h, there, item, fresh, a
  <1>9. /\ IsRow(row) /\ row.tab = "handoffs"
        /\ row.id = h.id /\ row.item = h.item /\ row.src = h.src
        /\ row.role = h.role /\ row.link = a.id /\ row.tgt = item
    <2>1. PICK i, w : i = a.id /\ w = item
      OBVIOUS
    <2>2. taken = [h EXCEPT !.status = "accepted", !.link = i, !.tgt = w]
      BY <2>1
    <2>3. /\ IsRow(taken) /\ taken.tab = h.tab /\ taken.role = h.role /\ taken.link = i
          /\ taken.tgt = w /\ taken.id = h.id /\ taken.item = h.item /\ taken.src = h.src
      BY <1>2, <2>2, RowFields DEF Columns
    <2> HIDE DEF taken
    <2>4. /\ IsRow(row) /\ row.tab = taken.tab /\ row.role = taken.role /\ row.link = taken.link
          /\ row.tgt = taken.tgt /\ row.id = taken.id /\ row.item = taken.item
          /\ row.src = taken.src
      BY <2>3, RowFields DEF Stamped, Columns
    <2> QED
      BY <1>2, <2>1, <2>3, <2>4
  <1> HIDE DEF taken, row, receipt, linked
  <1>10. /\ Elements(l1) \subseteq {Insert(a)} /\ (~linked => Insert(a) \in Elements(l1))
         /\ Elements(l2) \subseteq {Put(row, h.ver, "conflict")} /\ Elements(l3) = {Insert(receipt)}
         /\ IsList(l1) /\ IsList(l2) /\ IsList(l3)
    BY OneIsList, NoneIsList
  <1> HIDE DEF l1, l2, l3
  <1>11. Elements((l1 \o l2) \o l3) = (Elements(l1) \cup Elements(l2)) \cup Elements(l3)
    <2>1. IsList(l1 \o l2) /\ Elements(l1 \o l2) = Elements(l1) \cup Elements(l2)
      BY <1>10, ConcatElements, ConcatIsList
    <2> QED
      BY <1>10, <2>1, ConcatElements
  <1>12. AreStatements(Operation(q, img).do)
    <2>1. q.op \in HandoffWriters
      BY DEF HandoffWriters
    <2> QED
      BY <1>1, <2>1, FollowUpStatements
  <1>13. /\ ChangesHandoffs(Operation(q, img).do)
         /\ ~linked => Insert(a) \in Elements(Operation(q, img).do)
         /\ \A s \in Elements(Operation(q, img).do) : s.row \in {a, row, receipt}
         /\ Insert(a).do = "insert" /\ Insert(a).row = a
    BY <1>1, <1>5, <1>9, <1>10, <1>11 DEF ChangesHandoffs, Insert, Put
  <1>14. a.tab = "assignments" /\ a.item = item /\ a.tab # "handoffs"
    BY <1>3, <1>4, <1>6, <1>7
  <1>15. \A r \in img : r.tab # "handoffs" => r \in new
    BY <1>12, <1>13, OtherRowsStay DEF Result
  <1>16. a \in new
    <2>1. CASE linked
      BY <1>3, <1>6, <1>14, <1>15, <2>1
    <2>2. CASE ~linked
      BY <1>12, <1>13, <1>14, <2>2, OtherRowsStay DEF Result
    <2> QED
      BY <2>1, <2>2
  <1>17. \A g \in new : g \in img \/ g \in {a, row, receipt}
    <2>1. \A g \in new : g \in img \/ \E s \in Elements(Operation(q, img).do) : g = s.row
      BY <1>12, NewRowsAreWritten DEF Result
    <2> QED
      BY <1>13, <2>1
  <1>18. \/ a \in img
         \/ /\ a.role = h.role /\ a.item = IF h.tgt # None THEN h.tgt ELSE h.item
            /\ a.id = q.link /\ a.status = "queued"
    BY <1>3, <1>4, <1>6, <1>7
  <1> HIDE DEF new
  <1>19. Accepted(q, img, a, row)
    BY <1>1, <1>4, <1>8, <1>9, <1>14, <1>15, <1>16, <1>17, <1>18 DEF Accepted, h, new
  <1> QED
    BY <1>19

LEMMA AcceptedHandoffResolves ==
    ASSUME NEW q, q.op = "AcceptHandoffWithFollowUp", NEW img, AreRows(img)
    PROVE  ChangesResolve(q, img)
  <1> DEFINE o == Operation(q, img)
  <1>1. CASE o.no # {}
    BY <1>1 DEF ChangesResolve
  <1>2. CASE o.do = <<>>
    BY <1>2, NothingToRun DEF ChangesResolve
  <1>3. CASE o.no = {} /\ o.do # <<>>
    <2> DEFINE new == Result(q, img)
    <2>1. PICK a, row : Accepted(q, img, a, row)
      BY <1>3, AcceptanceMakes
    <2>2. /\ Resolves("roles", row.role, None, new)
          /\ Resolves("assignments", row.link, row.tgt, new)
          /\ Resolves("work_items", row.tgt, None, new)
      <3>1. Has(new, "roles", row.role) /\ Has(new, "work_items", row.tgt)
        BY <2>1 DEF Accepted, Has
      <3>2. a \in new /\ a.tab = "assignments" /\ row.link = a.id /\ row.tgt = a.item
        BY <2>1 DEF Accepted
      <3> HIDE DEF new
      <3> QED
        BY <3>1, <3>2 DEF Resolves, Found, Has
    <2>3. ValidHandoff([row EXCEPT !.src = None], new)
      <3> DEFINE x == [row EXCEPT !.src = None]
      <3>1. x.src = None /\ x.role = row.role /\ x.link = row.link /\ x.tgt = row.tgt
        BY <2>1, RowFields DEF Columns, Accepted
      <3> HIDE DEF x, new
      <3>2. Resolves("assignments", None, x.item, new)
        BY DEF Resolves
      <3>3. ValidHandoff(x, new)
        BY <2>2, <3>1, <3>2, ValidHandoffIs
      <3> QED
        BY <3>3 DEF x
    <2>4. \A g \in new : g \notin img /\ g.tab = "handoffs" => g = row
      BY <2>1 DEF Accepted
    <2> HIDE DEF new, o
    <2> QED
      BY <2>3, <2>4 DEF ChangesResolve, Result, new, o
  <1> QED
    BY <1>1, <1>2, <1>3

\* Updates and acceptances keep everything but handoffs, and of a handoff its
\* identity, its work item and its source; an acceptance adds an assignment
\* under a role and a work item that are there, and a receipt.
LEMMA HandoffsMove ==
    ASSUME NEW q, q.op \in {"UpdateHandoff", "AcceptHandoffWithFollowUp"}, NEW img, AreRows(img),
           Operation(q, img).no = {}
    PROVE  /\ \A r \in img : r.tab # "handoffs" => r \in Result(q, img)
           /\ \A g \in Result(q, img) : g.tab = "handoffs" =>
                 \E h \in img : /\ h.tab = "handoffs" /\ h.id = g.id
                                /\ h.item = g.item /\ h.src = g.src
           /\ \A g \in Result(q, img) : g.tab # "handoffs" =>
                 \/ g \in img
                 \/ g.tab = "command_receipts" /\ g.item = None
                 \/ /\ g.tab = "assignments" /\ Has(img, "roles", g.role)
                    /\ Has(img, "work_items", g.item) /\ g.id = q.link /\ g.status = "queued"
                    /\ q.op = "AcceptHandoffWithFollowUp"
                    /\ \E h \in img : /\ h.tab = "handoffs"
                                      /\ g.item = IF h.tgt # None THEN h.tgt ELSE h.item
           /\ Result(q, img) = img \/ \E h \in img : h.tab = "handoffs"
  <1> DEFINE h == Get(img, "handoffs", q.id)
             new == Result(q, img)
  <1>1. CASE Operation(q, img).do = <<>>
    <2>1. new = img
      BY <1>1, NothingToRun DEF Result
    <2> HIDE DEF new
    <2> QED
      BY <2>1 DEF new
  <1>2. CASE q.op = "AcceptHandoffWithFollowUp" /\ Operation(q, img).do # <<>>
    <2>1. PICK a, row : Accepted(q, img, a, row)
      BY <1>2, AcceptanceMakes
    <2>2. /\ Has(img, "handoffs", q.id) /\ Has(img, "roles", h.role)
          /\ a.tab = "assignments" /\ Has(img, "work_items", a.item)
          /\ \/ a \in img
             \/ /\ a.role = h.role /\ a.item = IF h.tgt # None THEN h.tgt ELSE h.item
                /\ a.id = q.link /\ a.status = "queued"
          /\ row.tab = "handoffs" /\ row.id = h.id /\ row.item = h.item /\ row.src = h.src
          /\ \A r \in img : r.tab # "handoffs" => r \in new
          /\ \A g \in new : \/ g \in img \/ g \in {a, row}
                            \/ g.tab = "command_receipts" /\ g.item = None
      BY <2>1 DEF Accepted
    <2>3. h \in img /\ h.tab = "handoffs"
      BY <2>2, Gets
    <2> HIDE DEF h, new
    <2>4. \A r \in img : r.tab # "handoffs" => r \in new
      BY <2>2
    <2>5. ASSUME NEW g \in new, g.tab = "handoffs"
          PROVE  \E x \in img : /\ x.tab = "handoffs" /\ x.id = g.id
                                /\ x.item = g.item /\ x.src = g.src
      <3>1. g \in img \/ g = row
        BY <2>2, <2>5
      <3> QED
        BY <2>2, <2>3, <2>5, <3>1
    <2>6. ASSUME NEW g \in new, g.tab # "handoffs", g \notin img,
                 ~(g.tab = "command_receipts" /\ g.item = None)
          PROVE  /\ g.tab = "assignments" /\ Has(img, "roles", g.role)
                 /\ Has(img, "work_items", g.item) /\ g.id = q.link /\ g.status = "queued"
                 /\ \E x \in img : /\ x.tab = "handoffs"
                                   /\ g.item = IF x.tgt # None THEN x.tgt ELSE x.item
      <3>1. g = a
        BY <2>2, <2>6
      <3> QED
        BY <2>2, <2>3, <2>6, <3>1
    <2> QED
      BY <1>2, <2>3, <2>4, <2>5, <2>6 DEF new
  <1>3. CASE q.op = "UpdateHandoff" /\ Operation(q, img).do # <<>>
    <2> DEFINE row == Stamped(PatchedHandoff(h, q))
               list == <<Put(row, h.ver, "conflict")>>
    <2>1. Has(img, "handoffs", q.id) /\ Operation(q, img).do = list
      <3>1. \E refused : Operation(q, img) = HandoffTransition(q, img, refused, PutPatched(h, q))
        BY <1>3 DEF Operation, UpdateHandoff
      <3>2. PutPatched(h, q) \in {<<>>, list}
        BY DEF PutPatched
      <3>3. \A item : Found([tab |-> "handoffs", id |-> q.id, item |-> item], img)
                     => Has(img, "handoffs", q.id)
        BY DEF Found, Has
      <3> HIDE DEF h, list
      <3> QED
        BY <1>3, <3>1, <3>2, <3>3 DEF HandoffTransition, Plan
    <2>2. h \in img /\ IsRow(h) /\ h.tab = "handoffs"
      BY <2>1, Gets
    <2> HIDE DEF h
    <2>3. row.tab = "handoffs" /\ row.id = h.id /\ row.item = h.item /\ row.src = h.src
      <3> DEFINE p == PatchedHandoff(h, q)
      <3>1. IsRow(p) /\ p.tab = "handoffs" /\ p.id = h.id /\ p.item = h.item /\ p.src = h.src
        BY <2>2, RowFields DEF PatchedHandoff, Columns
      <3> HIDE DEF p
      <3>2. Stamped(p).tab = p.tab /\ Stamped(p).id = p.id /\ Stamped(p).item = p.item
            /\ Stamped(p).src = p.src
        BY <3>1, RowFields DEF Stamped, Columns
      <3> QED
        BY <3>1, <3>2 DEF p
    <2> HIDE DEF row
    <2>4. /\ \A r \in img : r.tab # "handoffs" => r \in RunAll(list, img)
          /\ \A x \in RunAll(list, img) : x \in img \/ x = row
      BY <2>3, OneHandoffPut
    <2>5. new = RunAll(list, img)
      BY <2>1 DEF Result
    <2> HIDE DEF new, list
    <2>6. \A r \in img : r.tab # "handoffs" => r \in new
      BY <2>4, <2>5
    <2>7. \A x \in new : x \in img \/ x = row
      BY <2>4, <2>5
    <2> QED
      BY <2>2, <2>3, <2>6, <2>7 DEF new
  <1> QED
    BY <1>1, <1>2, <1>3

\* A promotion keeps everything but candidates, and adds an entry.
LEMMA PromotionMakes ==
    ASSUME NEW q, q.op = "PromoteMemoryCandidate", NEW img, AreRows(img)
    PROVE  /\ \A r \in img : r.tab # "memory_candidates" => r \in Result(q, img)
           /\ \A g \in Result(q, img) :
                 \/ g \in img
                 \/ g.tab = "memory_entries" /\ g.item = None
                 \/ /\ g.tab = "memory_candidates"
                    /\ \E c \in img : c.tab = g.tab /\ c.id = g.id /\ c.item = g.item
           /\ Result(q, img) = img \/ \E c \in img : c.tab = "memory_candidates"
  <1> DEFINE c == Get(img, "memory_candidates", q.id)
             entry == [Blank EXCEPT !.tab = "memory_entries", !.id = q.link]
             promoted == [c EXCEPT !.status = "promoted", !.link = q.link]
             s1 == Insert(entry)
             s2 == Put(promoted, None, "notfound")
             new == Result(q, img)
  <1>1. Operation(q, img) = PromoteMemoryCandidate(q, img)
    BY DEF Operation
  <1>2. \/ Operation(q, img).do = <<>>
        \/ Operation(q, img).do = <<s1, s2>> /\ Has(img, "memory_candidates", q.id)
    <2> HIDE DEF c, s1, s2
    <2>1. \A no, list : Plan("deferred", <<>>, no, list).do = list
      BY DEF Plan
    <2> QED
      BY <1>1, <2>1 DEF PromoteMemoryCandidate, c, s1, s2
  <1>3. CASE Operation(q, img).do = <<>>
    <2>1. new = img
      BY <1>3, NothingToRun DEF Result
    <2> HIDE DEF new
    <2> QED
      BY <2>1 DEF new
  <1>4. CASE Operation(q, img).do = <<s1, s2>> /\ Has(img, "memory_candidates", q.id)
    <2>1. c \in img /\ IsRow(c) /\ c.tab = "memory_candidates"
      BY <1>4, Gets
    <2> HIDE DEF c
    <2>2. /\ promoted.tab = "memory_candidates" /\ promoted.id = c.id /\ promoted.item = c.item
          /\ entry.tab = "memory_entries" /\ entry.item = None
      BY <2>1, RowFields DEF Columns, Blank
    <2> HIDE DEF promoted, entry
    <2>3. /\ s1.do = "insert" /\ s1.row = entry
          /\ s2.do = "put" /\ s2.row = promoted
      BY DEF Insert, Put
    <2> HIDE DEF s1, s2
    <2>4. new = Run(s2, Run(s1, img))
      <3>1. LET list == <<s1, s2>>
            IN /\ RunTo(list, img)[0] = img
               /\ \A k \in 1..Len(list) :
                     RunTo(list, img)[k] = Run(list[k], RunTo(list, img)[k - 1])
        BY RunToSteps
      <3> QED
        BY <1>4, <3>1 DEF Result, RunAll
    <2> HIDE DEF new
    <2>5. Run(s1, img) = img \cup {entry}
      BY <2>3 DEF Run
    <2>6. /\ \A r \in Run(s1, img) : r.tab # "memory_candidates" => r \in new
          /\ \A g \in new : g \in Run(s1, img) \/ g = promoted
      BY <2>2, <2>3, <2>4 DEF Run, Matches
    <2>7. \A r \in img : r.tab # "memory_candidates" => r \in new
      BY <2>5, <2>6
    <2>8. \A g \in new : g \in img \/ g = entry \/ g = promoted
      BY <2>5, <2>6
    <2> QED
      BY <2>1, <2>2, <2>7, <2>8 DEF new
  <1> QED
    BY <1>2, <1>3, <1>4

\* One row goes.
LEMMA DeletionOne ==
    ASSUME NEW t, NEW i, NEW img
    PROVE  \A r : r \in RunAll(<<DeleteOne(t, i)>>, img) <=> r \in img /\ ~(r.tab = t /\ r.id = i)
  <1> DEFINE s == DeleteOne(t, i)
  <1>1. s.do = "delete" /\ s.row.tab = t /\ s.ver = "id" /\ s.row[s.ver] = i
    BY DEF DeleteOne, Delete, Blank
  <1> HIDE DEF s
  <1>2. RunAll(<<s>>, img) = Run(s, img)
    BY OneToRun
  <1>3. \A r : r \in Run(s, img) <=> r \in img /\ ~(r.tab = t /\ r.id = i)
    BY <1>1 DEF Run, Matches
  <1> QED
    BY <1>2, <1>3 DEF s

\* The tables of the records of a work item.
RecordTables == {"assignments", "artifacts", "evidence", "reviews", "handoffs"}

\* A work item goes with its records and the handoffs to it.
LEMMA WorkItemDeletionMakes ==
    ASSUME NEW q, q.op = "DeleteWorkItem", NEW img
    PROVE  Result(q, img) =
              {r \in img : /\ ~(r.tab \in RecordTables /\ r.item = q.id)
                           /\ ~(r.tab = "handoffs" /\ r.tgt = q.id)
                           /\ ~(r.tab = "work_items" /\ r.id = q.id)}
  <1> DEFINE list == <<Delete("artifacts", "item", q.id), Delete("evidence", "item", q.id),
                       Delete("reviews", "item", q.id), Delete("assignments", "item", q.id),
                       Delete("handoffs", "item", q.id), Delete("handoffs", "tgt", q.id),
                       DeleteOne("work_items", q.id)>>
             Gone(r) == \/ r.tab \in RecordTables /\ r.item = q.id
                        \/ r.tab = "handoffs" /\ r.tgt = q.id
                        \/ r.tab = "work_items" /\ r.id = q.id
  <1>1. Operation(q, img).do = list
    BY DEF Operation, DeleteWorkItem, Plan
  <1>2. AreStatements(list)
    BY Deletions DEF AreStatements, IsList, Elements
  <1>3. \A s \in Elements(list) : s.do = "delete"
    BY DEF Elements, Delete, DeleteOne
  <1>4. \A t, col, val : /\ Delete(t, col, val).ver = col
                         /\ col \in Columns \ {"tab"} => /\ Delete(t, col, val).row.tab = t
                                                         /\ Delete(t, col, val).row[col] = val
    BY DEF Delete, Blank, Columns
  <1>5. /\ DeleteOne("work_items", q.id).ver = "id"
        /\ DeleteOne("work_items", q.id).row.tab = "work_items"
        /\ DeleteOne("work_items", q.id).row["id"] = q.id
    BY DEF DeleteOne, Delete, Blank
  <1>6. ASSUME NEW r PROVE Deleted(list, r) <=> Gone(r)
    <2>1. Elements(list) =
            {Delete("artifacts", "item", q.id), Delete("evidence", "item", q.id),
             Delete("reviews", "item", q.id), Delete("assignments", "item", q.id),
             Delete("handoffs", "item", q.id), Delete("handoffs", "tgt", q.id),
             DeleteOne("work_items", q.id)}
      BY DEF Elements
    <2> QED
      BY <1>4, <1>5, <2>1 DEF Deleted, RecordTables, Columns
  <1> HIDE DEF list
  <1>7. Result(q, img) = {r \in img : ~Deleted(list, r)}
    BY <1>1, <1>2, <1>3, DeletionsMake DEF Result
  <1> QED
    BY <1>6, <1>7

\* Every operation that changes a handoff has looked at its references in the
\* rows that it writes to, and removes none of them.
THEOREM HandoffChangesResolve ==
    ASSUME NEW q, q.op \in Ops, NEW img, AreRows(img)
    PROVE  ChangesResolve(q, img)
  <1>1. CASE q.op \in HandoffWriters
    BY <1>1, CreateHandoffChangesNone, RestoredHandoffResolves, UpdatedHandoffResolves,
       AcceptedHandoffResolves DEF HandoffWriters
  <1>2. CASE q.op \notin HandoffWriters
    BY <1>2, EffectWrites DEF ChangesResolve
  <1> QED
    BY <1>1, <1>2
=============================================================================
