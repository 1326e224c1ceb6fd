--------------------------- MODULE SnapshotTransfer ---------------------------
(***************************************************************************)
(* core/snapshot.go: a snapshot read list by list from a store that others *)
(* go on changing, and imported record by record into another.             *)
(*                                                                         *)
(* A store call that writes is one step (SqliteTransition shows that it    *)
(* may be taken so); a list is two, as in SQLite: it asks for its project  *)
(* or its work item, and then selects.  Snapshot import is an offline      *)
(* workflow for the store imported into (docs/agent-host-integration.md):  *)
(* nobody else changes the target meanwhile.  A change of the source after *)
(* an export alters nothing that the import reads, so changes wait until   *)
(* it is over.  An export is of version 2 and holds valid claims           *)
(* (AssignmentLifecycle), so the checks before the first write pass.  The  *)
(* export that answers an import reads the target and is left out.         *)
(***************************************************************************)
EXTENDS StoreStatements

CONSTANTS SourceRows, TargetRows, Changes, MaxChanges, MaxExports

VARIABLES
    source, target,  \* rows of the two stores
    phase,           \* of the transfer
    at,              \* the list to read next, or 0
    current, items,  \* the work item whose lists are read, and those to come
    admitted,        \* the list found its project or its work item
    snapshot,        \* rows read so far
    left,            \* rows of the snapshot not yet imported
    before,          \* history: the target when the import began
    quiet,           \* history: the source has not changed since the export began
    loosened,        \* history: the source may hold references to nothing
    changes, exports \* how often; bounded

vars == <<source, target, phase, at, current, items, admitted, snapshot, left, before, quiet,
          loosened, changes, exports>>
place == <<at, current, items, admitted>>
exporting == <<place, snapshot, quiet>>
importing == <<left, before>>
counts == <<changes, exports>>

-----------------------------------------------------------------------------
(* Store calls.                                                            *)

\* The columns of record r, for operation op.
Ask(op, r) == [c \in DOMAIN Blank \cup {"op", "late"} |->
                  CASE c = "op" -> op [] c = "late" -> FALSE [] OTHER -> r[c]]
After(q, img) == RunAll(Operation(q, img).do, img)

CreateOp ==
    [projects |-> "CreateProject", project_skills |-> "CreateProjectSkill",
     roles |-> "CreateRole", work_items |-> "CreateWorkItem",
     assignments |-> "CreateAssignment", artifacts |-> "CreateArtifact",
     evidence |-> "CreateEvidence", reviews |-> "CreateReview", handoffs |-> "CreateHandoff",
     memory_entries |-> "CreateMemoryEntry", memory_candidates |-> "CreateMemoryCandidate",
     assistant_proposals |-> "CreateAssistantProposal"]
ReplaceOp ==
    [projects |-> "UpdateProject", project_skills |-> "UpdateProjectSkill",
     roles |-> "UpdateRole", work_items |-> "UpdateWorkItem",
     assignments |-> "RestoreAssignmentSnapshot", handoffs |-> "RestoreHandoffSnapshot",
     memory_entries |-> "UpdateMemoryEntry", memory_candidates |-> "UpdateMemoryCandidate",
     assistant_proposals |-> "UpdateAssistantProposal"]
Importable == DOMAIN CreateOp
Replaced == DOMAIN ReplaceOp

\* What a record refers to: the rows its creation looks up.
Names(r) == Operation(Ask(CreateOp[r.tab], r), {}).looks

\* Rows that have what they refer to, their project included.
Closed(img) ==
    /\ \A r \in img : r.tab \in Importable =>
           \A k \in DOMAIN Names(r) : Found(Names(r)[k], img)
    /\ \A r \in img : r.tab \in Owned => OfTable(img, "projects") # {}

\* Records of a work item.
ItemTables == {"assignments", "artifacts", "evidence", "reviews", "handoffs"}
OfItems(r) == r.item # None <=> r.tab \in ItemTables
Stored(img) == Keyed(img) /\ AreRows(img) /\ \A r \in img : r.tab \in Tables /\ OfItems(r)

\* A request names a work item where its record has one.
WellFormed(q) ==
    /\ q.op \in Ops
    /\ \A t \in Importable : q.op = CreateOp[t] => (q.item # None <=> t \in ItemTables)
    /\ \A t \in Replaced : q.op = ReplaceOp[t] => (q.item # None <=> t \in ItemTables)
    /\ q.op = "UpdateQueuedAssignment" => q.item # None

ASSUME TransferAssumption == /\ \A img \in SourceRows \cup TargetRows : Stored(img)
                             /\ \A q \in Changes : WellFormed(q)
                             /\ MaxChanges \in Nat /\ MaxExports \in Nat

Init ==
    /\ source \in SourceRows /\ target \in TargetRows
    /\ phase = "idle" /\ at = 0 /\ current = None /\ items = {} /\ admitted = FALSE
    /\ snapshot = {} /\ left = {} /\ before = {}
    /\ quiet = TRUE /\ loosened = ~Closed(source) /\ changes = 0 /\ exports = 0

\* What removes, or moves away, a record that others may name.  A handoff may
\* name an assignment without its work item, and then outlives that item.
Loosens(q, img) ==
    \/ q.op \in {"DeleteRole", "DeleteAssignment", "UpdateQueuedAssignment",
                 "RestoreAssignmentSnapshot"}
    \/ /\ q.op = "DeleteWorkItem"
       /\ \E h \in OfTable(img, "handoffs"), a \in OfTable(img, "assignments") :
             h.item # q.id /\ h.tgt = None /\ h.link = a.id /\ a.item = q.id

Change ==
    /\ phase \in {"idle", "reading", "done", "refused"} /\ changes < MaxChanges
    /\ \E q \in Changes :
        /\ Refusals(q, source) = {}
        /\ source' = After(q, source)
        /\ loosened' = (loosened \/ Loosens(q, source))
    /\ quiet' = (quiet /\ phase # "reading") /\ changes' = changes + 1
    /\ UNCHANGED <<target, phase, place, snapshot, importing, exports>>

-----------------------------------------------------------------------------
(* ExportSnapshot.                                                         *)

\* The lists of the store, of its project, and of each work item.
ReadOrder ==
    <<"projects", "assistant_proposals", "project_skills", "roles", "work_items",
      "assignments", "memory_entries", "memory_candidates",
      "artifacts", "evidence", "reviews", "handoffs">>
FirstOfItem == 9
PerItem == {"artifacts", "evidence", "reviews", "handoffs"}
Table == ReadOrder[at]

Listed == {r \in source : r.tab = Table /\ (Table \in PerItem => r.item = current)}

\* What a list finds missing: its project, or its work item.
ListRefused == \/ Table \in Owned /\ OfTable(source, "projects") = {}
               \/ Table \in PerItem /\ ~Has(source, "work_items", current)

StartExport ==
    /\ phase \in {"idle", "stopped", "done", "refused"} /\ exports < MaxExports
    /\ phase' = "reading" /\ snapshot' = {} /\ quiet' = TRUE
    /\ at' = 1 /\ current' = None /\ items' = {} /\ admitted' = FALSE
    /\ left' = {} /\ before' = {} /\ exports' = exports + 1
    /\ UNCHANGED <<source, target, loosened, changes>>

\* The last list of the store, if it has no project, of its project, or of a
\* work item.
Last == \/ Table \in {"memory_candidates", "handoffs"}
        \/ Table = "assistant_proposals" /\ OfTable(snapshot, "projects") = {}

NextList ==
    /\ ~Last /\ at' = at + 1
    /\ items' = IF Table = "work_items" THEN {r.id : r \in Listed} ELSE items
    /\ UNCHANGED <<current, phase>>
\* Work items come in any order.
NextItem ==
    /\ Last /\ at' = FirstOfItem /\ current' \in items /\ items' = items \ {current'}
    /\ UNCHANGED phase
EndExport ==
    /\ Last /\ items = {} /\ at' = 0 /\ current' = None
    /\ phase' = "held" /\ UNCHANGED items

\* A list of the project, or of a work item, asks for it first.
AdmitList ==
    /\ phase = "reading" /\ ~admitted /\ Table \in Owned /\ ~ListRefused
    /\ admitted' = TRUE
    /\ UNCHANGED <<source, target, phase, at, current, items, snapshot, quiet, importing,
                   loosened, counts>>

\* The SELECT, whatever was deleted since.
ReadList ==
    /\ phase = "reading" /\ (Table \in Owned => admitted) /\ admitted' = FALSE
    /\ snapshot' = snapshot \cup Listed
    /\ NextList \/ NextItem \/ EndExport
    /\ UNCHANGED <<source, target, importing, quiet, loosened, counts>>

\* Mutant: what was read so far is handed over.
FailExport_Partial ==
    /\ phase = "reading" /\ ~admitted /\ ListRefused
    /\ phase' = "held"
    /\ UNCHANGED <<source, target, exporting, importing, loosened, counts>>

\* The project or a work item was deleted: the export answers not found.
FailExport ==
    /\ phase = "reading" /\ ~admitted /\ ListRefused
    /\ phase' = "idle" /\ snapshot' = {} /\ at' = 0 /\ current' = None /\ items' = {}
    /\ UNCHANGED <<source, target, admitted, importing, quiet, loosened, counts>>

-----------------------------------------------------------------------------
(* ImportSnapshot: for each record Create, and for a duplicate Update or   *)
(* Restore; an artifact, evidence or review that is there stays as it is.  *)

\* Mutant: roles after the assignments that name them.
ImportOrder_RolesLate ==
    <<"projects", "project_skills", "work_items", "assignments", "roles", "artifacts",
      "evidence", "reviews", "handoffs", "memory_entries", "memory_candidates",
      "assistant_proposals">>

ImportOrder ==
    <<"projects", "project_skills", "roles", "work_items", "assignments", "artifacts",
      "evidence", "reviews", "handoffs", "memory_entries", "memory_candidates",
      "assistant_proposals">>

\* The next record, by table and then by id.
NextRow ==
    LET t == ImportOrder[CHOOSE k \in DOMAIN ImportOrder :
                            /\ OfTable(left, ImportOrder[k]) # {}
                            /\ \A j \in 1..(k - 1) : OfTable(left, ImportOrder[j]) = {}]
    IN CHOOSE r \in left : r.tab = t

StartImport ==
    /\ phase \in {"held", "stopped"}
    /\ phase' = "creating" /\ left' = snapshot /\ before' = target
    /\ UNCHANGED <<source, target, exporting, loosened, counts>>

Written(q) ==
    /\ target' = After(q, target)
    /\ left' = left \ {NextRow} /\ phase' = "creating"
Skipped == left' = left \ {NextRow} /\ UNCHANGED <<target, phase>>
Refused == phase' = "refused" /\ UNCHANGED <<target, left>>

\* A proposal is validated before anything else, its attempts too, which were
\* stored without (AssistantLedger); ref marks one that does not pass, as for
\* an attempt that names no proposal.
Malformed(r) == r.tab = "assistant_proposals" /\ r.ref # None

\* A reference that is missing is met before the key that is there, and of a
\* proposal the import asks whether it is there.
CreateRecord ==
    /\ phase = "creating" /\ left # {}
    /\ LET q == Ask(CreateOp[NextRow.tab], NextRow)
           no == Refusals(q, target) \cup (IF Malformed(NextRow) THEN {"invalid"} ELSE {})
       IN \/ no = {} /\ Written(q)
          \/ /\ no = {"duplicate"} /\ NextRow.tab \in Replaced
             /\ phase' = "replacing" /\ UNCHANGED <<target, left>>
          \/ no = {"duplicate"} /\ NextRow.tab \notin Replaced /\ Skipped
          \/ no \notin {{}, {"duplicate"}} /\ Refused
    /\ UNCHANGED <<source, exporting, before, loosened, counts>>

\* Mutant: what is there stays as it is.
ReplaceRecord_Keeping ==
    /\ phase = "replacing"
    /\ phase' = "creating" /\ left' = left \ {NextRow}
    /\ UNCHANGED <<source, target, exporting, before, loosened, counts>>

ReplaceRecord ==
    /\ phase = "replacing"
    /\ LET q == Ask(ReplaceOp[NextRow.tab], NextRow)
       IN IF Refusals(q, target) = {} THEN Written(q) ELSE Refused
    /\ UNCHANGED <<source, exporting, before, loosened, counts>>

EndImport ==
    /\ phase = "creating" /\ left = {} /\ phase' = "done"
    /\ UNCHANGED <<source, target, exporting, importing, loosened, counts>>

\* The call is cancelled or its process ends; the snapshot is still at hand.
StopImport ==
    /\ phase \in {"creating", "replacing"} /\ left # snapshot
    /\ phase' = "stopped" /\ left' = {} /\ before' = {}
    /\ UNCHANGED <<source, target, exporting, loosened, counts>>

Next == \/ Change \/ StartExport \/ AdmitList \/ ReadList \/ FailExport
        \/ StartImport \/ CreateRecord \/ ReplaceRecord \/ EndImport \/ StopImport

Spec == Init /\ [][Next]_vars

-----------------------------------------------------------------------------
(* Properties.                                                             *)

Key(r) == <<r.tab, r.id>>
Keys(img) == {Key(r) : r \in img}

\* Each variable has its type, a store holds a key once, and a snapshot that
\* is handed over was read to the end.
TypeOK ==
    /\ Stored(source) /\ Stored(target) /\ Stored(before)
    /\ AreRows(snapshot) /\ \A r \in snapshot : r.tab \in Importable /\ OfItems(r)
    /\ phase \in {"idle", "reading", "held", "creating", "replacing", "stopped", "done",
                 "refused"}
    /\ at \in DOMAIN ReadOrder \cup {0} /\ (phase = "reading" <=> at # 0)
    /\ items \cup ({current} \ {None}) \subseteq {r.id : r \in OfTable(snapshot, "work_items")}
    /\ left \subseteq snapshot
    /\ admitted \in BOOLEAN /\ (admitted => phase = "reading")
    /\ quiet \in BOOLEAN /\ loosened \in BOOLEAN
    /\ changes \in 0..MaxChanges /\ exports \in 0..MaxExports

\* However torn the snapshot is, and wherever the import stands, was refused
\* or stopped: everything that the rows it wrote refer to is there, nothing of
\* the target is lost, and each row is the target's own or the snapshot's; once
\* it is done, every record of the snapshot is there, and as exported if it is
\* replaced.
Underway == phase \in {"creating", "replacing", "done", "refused"}
NothingDangles == \A r \in target \ before :
                      \A k \in DOMAIN Names(r) : Has(target, Names(r)[k].tab, Names(r)[k].id)
Merges == /\ Keys(before) \subseteq Keys(target) /\ target \subseteq before \cup snapshot
          /\ phase = "done" =>
                /\ \A r \in snapshot : Key(r) \in Keys(target)
                /\ \A r \in snapshot : r.tab \in Replaced => r \in target
                /\ \A r \in before : Key(r) \in Keys(snapshot) \/ r \in target
ImportSound == Underway => NothingDangles /\ Merges

\* A handoff that is under another work item cannot be replaced.
Clashes(img) == \E r \in OfTable(snapshot, "handoffs"), s \in OfTable(img, "handoffs") :
                    r.id = s.id /\ r.item # s.item

\* A refusal is the snapshot's own: whatever the target held, and unless a
\* handoff clashes or a proposal is malformed, a snapshot that has what it
\* refers to is imported; and one read while nothing changed has it unless a
\* role or an assignment was deleted, an assignment moved, or a work item was
\* deleted whose assignment a handoff of another one names by itself.
RefusalExplained ==
    phase = "refused" /\ ~(\E r \in snapshot : Malformed(r)) =>
        /\ Closed(snapshot) => Clashes(before \cup snapshot)
        /\ quiet /\ ~loosened => Clashes(before)
=============================================================================
