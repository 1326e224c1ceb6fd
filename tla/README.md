# Cairnline in TLA+

A verification development for [Cairnline](../src/README.md), a coordination
store for coding agents: projects, work items, roles, assignments, handoffs,
evidence and memory, behind an MCP server or embedded in a host.  Cairnline
runs nothing itself.  What it promises is about records: who holds an
assignment, which revision an edit was based on, which follow-up a retried
command answers with.  Several agents, an embedding host and human operators
work on the same records with no other coordination between them, which is
where these promises are hard to keep and hard to test.

The modules are translated from the Go code under `src/`; `PROJECT.json` maps
every definition to the lines it stands for, lists the hazards of the code with
the properties that cover them, and lists the runs, the mutated definitions that
show each property can fail, and the theorems.

    tlc -workers 2 -config AssignmentLifecycle.cfg MCAssignmentLifecycle
    tlapm AssignmentLifecycleProofs.tla

## The system

| component | state | operations | interaction | hard behaviour |
|---|---|---|---|---|
| assignment lifecycle (`service.go` 819-1190, `memory_store.go` 395-963, `assignment_claim.go`) | assignment records: status, claim (fencing id, acquired, expires), references, three times | create, edit, claim, renew, recover, prepare, release, progress, complete, delete; each leased (fenced) and as a host operation | called by the MCP tools and by the embedding host; read by handoffs, readiness, briefs | delayed calls of workers that lost their claim, lease expiry against heartbeats, a clock that stands still or steps back, compare-and-set |
| handoffs (`service.go` 1579-1736, `memory_store.go` 1191-1486) | handoff records, idempotency receipts | create, patch, delete, accept with follow-up | accept creates or links an assignment; deletion of work items cascades | lost answers and retries, two keys on one revision, references that vanish |
| memory (`service.go` 1807-2110, `memory_store.go` 1550-1736) | entries, candidates | CRUD, promote, reject | promotion creates an entry | calls that read first and write later, retries, blind status edits |
| projects, roots, sources (`service.go` 60-387, `assistant.go` 430-525) | project record with its lists | CRUD of project, roots, sources | every other record belongs to a project; assignments and handoffs name a root | read-modify-write without comparison, a slice shared with readers |
| work items, roles, artifacts, evidence, reviews | one record each | CRUD | cascading deletion | dangling references |
| assistant proposals (`assistant.go`) | proposal records with their attempts | propose, apply, import | applies actions of all the other components | failure or crash in the middle |
| snapshot (`snapshot.go`) | none | export, import | reads and writes every other component | not one transaction |
| skills (`service.go` 389-540, 2370-2860) | skill records | CRUD, discovery in the file system | launch packets, readiness | reconciliation |
| SQLite store (`sqlitestore/store.go`) | the database | the same interface as `MemoryStore` | several processes on one file | multi-statement transactions, crash, lost acknowledgement |
| read models (`closeout_readiness.go`, `activity.go`, `operations_brief.go`, `project_health.go`, `setup_readiness.go`) | none | lists read one after the other, then pure functions | read everything | answers that mix moments; statuses classified in several places |
| MCP server (`mcp/server.go`) | initialisation, extensions | dispatch | one goroutine per message | reordering |
| tools, resources, apps, views, command line | none | decoding, rendering; patch tools that read, edit and write back | | lost updates |

What makes them correct, in one sentence each:

- *assignment lifecycle*: work is started by one claim generation only, a
  reservation ends with the heartbeats of its worker, and no write is based on a revision its author did
  not see;
- *handoffs*: a command is answered once and for all, an answer is true when it
  is given, a decision on one revision yields one follow-up;
- *memory*: a candidate is resolved once, and becomes at most one entry;
- *projects*: a change is lost to an overlapping one at most, the default root is
  one of the roots;
- *work records*: references resolve or are allowed to dangle on purpose;
- *assistant*: the ledger says what was done, and a confirmed action is done at
  most once;
- *snapshot*: what is exported can be imported, and is the same afterwards;
- *SQLite*: it does what `MemoryStore` does, with its steps taken apart;
- *skills*: a discovery leaves what is declared, and what operators wrote;
- *read models*: what is called ready was ready, and nothing open is left out.

## Modules

### `AssignmentLifecycle`

State: `assignments` is the store's map (`Absent` for an id without a record),
`now` what the next call of the service clock returns, `issued` the claim ids
drawn by `newID`.  `snapshots` is the state of clients that read a queued
assignment and edit it later with the revision they read.  History: `starters`,
the claims whose fenced start or completion was accepted; `supplied`, which of a
record's times are still those its creator put on it.

Every operation of the store holds `MemoryStore.mu` for its whole body, and the
SQLite store runs the same body in one `BEGIN IMMEDIATE` transaction; so one
operation is one action, named like the Go method, and what interleaves are
whole operations.  A refused call changes nothing and is a stuttering step.
Since workers keep no state, an action may be taken with any claim id at any
time: calls that are late, repeated, or made by a worker that lost its claim are
among the behaviours.  The record keeps all of its fields but the names of
things: work item, role, root, mode and agent are one value `coordination`;
an execution reference or context snapshot is represented by who attached it.

An embedding host may supply `updated_at`, references, a start and a completion
time (`HostTimes`) when it creates a record; `CreateAssignment` stores them on
the queued record as they are (`service.go:869-870`).  Such a record can be
claimed and requeued like any other, so `StampsOrdered` excepts the times that
`supplied` says are still the creator's, and `StartedNeverRequeued` goes by the
status and not by the start time.

Assumed: project, work items, roles and roots exist throughout; deletion of a work item
or project is seen as the deletion of its assignments; `RestoreAssignmentSnapshot`, used
by the offline import, is in `StoreStatements` and `SnapshotTransfer`.

### `FencedWork`

The abstract specification of the same component: an item is open, reserved,
started or closed, and carries at most one fence, drawn once.  It has no clock,
leases, callers or payloads.  `ImplementsFencedWork` says that the lifecycle,
seen through status and claim id, is a behaviour of it.

### `HandoffAuthority`

State: `handoffs`, `receipts` (the idempotency receipts of `MemoryStore`), and
the records they refer to: `workItems`, `roles`, and for an assignment only its
work item and role.  `drawn` is the set of assignment ids used.  History:
`answers` (first answer per key), `answered` (what the last step answered),
`followUps` (per living handoff, the revisions from which assignments were
created).

`AcceptHandoffWithFollowUp` is the whole command, split by its branches:
`Replay` of a stored receipt with the checks that it still describes the
records, `EnsureExisting` for a handoff that is linked already, `EnsureCreated`.
Creation, patch and deletion of a handoff compare revisions; a patch can lead to
any content that validates.  Under them, hosts and operators create, move and
delete the work items, roles and assignments.  Callers carry any revision and
any key, which covers retries, duplicates, delays and reordering.

Assumed: the project and its roots exist throughout (so the root check of
accept succeeds); an assignment may be moved in any status, where the code asks
for queued work, which adds behaviours and removes none; the server never draws
an assignment id twice, while hosts may reuse the id of a deleted record;
imported times lie in `1..MaxNow`.

### `MemoryPromotion`

State: `candidates` and `entries` of one project, and in `resolving`, for each
promotion or rejection in flight, what it has read and will write.  Both methods
of the service read the candidate in one store operation and write in another:
`ReadForPromotion` is followed by `PromoteMemoryCandidate`, which looks at the
stored status again, `ReadForRejection` by `RejectMemoryCandidate`, which does
not.  `Abandon` stands for a write that is refused and for a process that dies
before it.  All other operations are one action, as they use stored state only
in their write (the read in the service decides nothing but the error).
History: `drawn`, the entry ids used; `decision`, the first resolution of each
candidate since a host last created or edited it; `answered`, the promotion
answered by the last step.

Assumed: the project exists throughout; title, body, trust label and source are
one value `content`; times, the enabled flag, the rejection reason and the
listings are left out; the server never draws an entry id twice, while hosts may
reuse the id of a deleted entry.

### `ProjectContext`

State: the one `project` record, as the slot of the lists it holds and its
default root; `bodies`, the lists in use; the `skills` registered for it; the
`files` that declare skills; and `calls`, the helpers in flight.  Every helper
(roots and sources in the service, the root actions of the assistant, the tool
`projects.update`) calls `GetProject`, edits what it read, and writes the whole
record back with `UpdateProject`, which compares nothing.  So a helper is a
sequence of actions: `GetProject`, one action per edit named like the Go
function, `Normalized` up to the write, `Write`.

`sharing` chooses the store: `MemoryStore.GetProject` returns the stored slices
(`memory_store.go:79`), the SQLite store decodes a copy.  With sharing an edit in
place (`UpdateRoot`, `UpdateContextSource`) is seen by every reader before the
write, and `RemoveProjectRoot` moves entries in the stored list one by one
(`RemoveStep`).  Discovery is `ScanSkills` (list the records, walk the
directories), one `DiscoverStep` per skill, and `FinishDiscovery`.  Hosts create and
replace the project with roots and a default root of their own (`HostProjects`),
refused if the default root is not listed.  Of the fields of a skill that an
operator edits the model keeps the `description`, the only one that may be blank:
`firstNonEmpty` (`service.go:523-525`) keeps it unless it is, and then takes the
one of the file.  History: `overtaken`, set when
somebody else's write falls between a call's read and its write; `shifted`, the
callers whose removals have moved entries of a list.

What the model showed beside its properties.  With shared lists, a root created
while another is being removed can be stored beside its double, and two removals
that overlap can both answer success with the root still there.  With three roots,
two removals of the root in front of the default one, over the one shared array,
can leave the stored list holding another root three times and not the default
root, with no call left in flight to put it right; it stays so until the next
write of the project.  An attempt to prove a stronger `DefaultRootIsRoot`, which
excused only removals in flight, led to this: the property now says how far a
single removal can be trusted, and what two leave open.
README.md:139 says of the source helpers that they "avoid whole-project
replacement": that is true of what their caller sends, while what they write is
the whole record, so a concurrent change of another list is lost
(`LostOnlyToOverlap` is what remains true).

Assumed: a host gives no list with a duplicate id or a blank path (`UniqueInputs`;
no operation of the code compares the ids of a list it is given); directories do
not change during a behaviour, while the roots that point at them do; path
normalisation and the fields of a root or source are one value `content`.

### `AssistantLedger`

State: `records`, the stored proposals with body, status, latest result and
attempts; `targets`, the explicit ids that exist; `lock`, the `assistantMu` of
each process; `home`, which process serves which caller; `calls`, the
applications in flight.  `ApplyAssistantProposalRecord` takes the mutex and reads
the record, `ApplyAction` and `FailAction` perform the actions one after the
other, `RecordAttempt` writes the record back with its attempt; `LoseAttempt` and
`Crash` are the ways in which that write does not happen.  Imports do not take
the mutex and a second process has its own.  History: `effects`, how many actions
took effect; `excused`, the ledger could not know.  `Told` is the set of actions
the attempts of a record tell of.

An action is what its success depends on: whether it creates under a drawn id,
creates under a given id, updates, or updates a handoff without the revision that
was read (`update_tokenless`).  Of the last kind an import takes and a proposal
refuses.  Application proposes the stored actions again (`assistant.go:79-82`), so
a record with one is refused then; the attempt that this leaves has no status and
names no proposal (`NoStatus`, `named`), and the record stays proposed.  The SQLite
store keeps that attempt; `MemoryStore` validates the record and refuses the write
(`LoseAttempt`).  A direct `ApplyAssistantProposal`, without
a record, is seen as what it does to the targets.  `LatestResult.Applied` and its
status are one value.  What the model showed beside its properties: a partial
application that is applied again fails at its first explicit creation, and
"rejected" overwrites "partial" as the record's status, while the attempts keep
the truth; an unconfirmed application of an unapplied record sets its status to
`needs_confirmation`.

### `StoreStatements`, `StoreContract`, `SqliteTransition`

`StoreStatements` has every writing operation of `sqlitestore/store.go` as a pure
operator: the rows it looks up first, in statements of their own; whether it
writes in autocommit, in a `BEGIN IMMEDIATE` or in a deferred transaction; what
it refuses after the `SELECT` of its transaction; and its statements.  A row has
the columns on which decisions are taken; `ref` is the run of an assignment, the
artifact or review a handoff links (one at most, of a list in the code), and in a
proposal what an import of it objects to.  The rows are those of one project.
Unique keys, foreign keys and affected-row counts give the typed errors.  `RunTo`
gives the rows after each number of statements of a list, `RunAll` those after all.

`StoreContract` is the abstract specification, what callers of a `core.Store`
rely on: an operation takes effect at one moment between call and answer or not
at all; success says that it did; a typed error says that it did not, and was
true; only an untyped error leaves it open.  It is stated over operators given as
constants (`Operation`, `RunAll`, `ListMisses`, `Refusals`), which
`SqliteTransition` fills with those of `StoreStatements`.

`SqliteTransition` takes the operations apart: callers in several processes on
one file; a process has one connection (`SetMaxOpenConns(1)`), held from `BEGIN`
to the end of a transaction; one writer at a time, deferred readers that upgrade,
busy answers at every lock; statements that fail; a `COMMIT` that takes effect and
still reports an error; a process that ends at any point.  `ImplementsContract`
is the refinement, with the committed rows as the rows and `Seen` as what callers
know of their calls.

Assumed: a `Tx.Commit` that fails ends its transaction (the contract of
`database/sql`); SQLite in its default rollback-journal mode, with its locks as
documented, and recovery of the last commit after a crash.  Left out:
`ValidateAssignmentClaimState`, which valid rows pass (shown in
`AssignmentLifecycle`), roots, texts.  What the model showed beside its properties:
`CreateArtifact`, `CreateHandoff` and `CreateAssignment` look up their references
in separate statements, so these may be gone at the insert; accepting a handoff
does not look at its source assignment again, which is why
`ChangedHandoffsResolve` leaves the source out.

### `SnapshotTransfer`

Extends `StoreStatements` and takes a store operation that writes as one step, which
`SqliteTransition` justifies.  A list of a project or of a work item is two, as in the
SQLite store: `AdmitList` asks whether the project or the item is there, and `ReadList`
is the `SELECT`, which finds nothing if it was deleted in between; for `MemoryStore` the
two come one right after the other.  State: the rows of `source` and `target`; the
`phase`; `at`, the list to read next in `ReadOrder`, and whether it is `admitted`; the
work item that is read (`current`) and those to come (`items`); the `snapshot`; what is
`left` to import. `StartExport` and `ReadList` (`NextList`, `NextItem`, `EndExport`)
read list by list while `Change` runs any of the operations on the source; `FailExport`
is a list of a project or a work item deleted since.  `StartImport`, `CreateRecord` and
`ReplaceRecord` go through the snapshot in the order of `ImportSnapshot`: create, and on
a duplicate replace or skip, by kind of record.  A proposal is validated first, with its
attempts, which nothing validated when the SQLite store took them (`Malformed`).  An
import may be refused at a record, stopped anywhere, and run again, with this or another
snapshot.  History: `before`, the target when the import began; `quiet`, nothing changed
during the export; `loosened`, an operation ran that can leave a reference to nothing,
or one was there from the start.

`Loosens` lists these operations, and the proofs show that the list is complete:
the deletion of a role or of an assignment; a write that may move an assignment to
another work item (the update of a queued one, the restoration of a snapshot's);
and the deletion of a work item while a handoff of another one links an assignment
of it without naming the work item, which `DeleteWorkItem` does not find.

Assumed: nobody else writes the target during an import
(docs/agent-host-integration.md:85 calls import "an administrative/offline
workflow"); changes of the source wait for the end of an import, with which they
commute; one project; a record has a work item exactly if its table is one of a work
item's (`WellFormed`, `OfItems`).  The preflight passes for what an export produced;
the export that answers an import is left out; receipts are not exported, as in the
code.  The target may hold anything whose keys are unique.  What the model showed: a
store that was loosened has exports, read in peace, that an empty target refuses; a
torn export that is refused midway leaves a partial import, which is sound and which
a later import completes; and a handoff with the id of one that the target holds
under another work item is a duplicate for `CreateHandoff` and not found for
`RestoreHandoffSnapshot`, so that its import is refused though nothing is missing
(`Clashes`).  A proposal with a malformed attempt stops the import of a snapshot
that lacks nothing, into any target (see *Findings*).

### `OperationsView`

Extends `StoreStatements` in the same way; the two steps of a list are here for the
lists of a work item.  `WorkItemCloseoutReadiness` and `OperationsBrief` start a read,
`AdmitList` and `ReadList` take one list (`NextList`, `NextItem`, `EndReading` say which
comes then), `FailReading` is a list of a work item deleted since, and `Change` is any
store operation by others.  State of the read: `view`, the read model; `turn`, the list
it takes next; `admitted`, that the list found its work item; `current` and `items`, its
work item and those to come; `got`, the rows it has.  What is made of the lists are
operators named like the Go functions: `EvaluateWorkItemCloseoutReadiness` with
`FollowUpBlocked` and `CloseoutClass`, `OperationSeverity`, `WorkItemOperations`,
`ProjectOperationsBrief`, `ActivityBucket`, `HealthItemID`.  `IsClear` is what ready
means at one moment; the history `clear` collects the work items that were clear at a
moment of the read, `stirred` those whose assignments or reviews came or went, or that
were deleted. `healthItemID` joins its parts with colons (`project_health.go:364`), and
ids that hosts give are only trimmed; `Split` gives the pieces of an id at its colons,
so that two items have one id in the model when they have in the code.

`work_items.update` is `ReadForPatch`, `CheckPatch` and `WritePatch` (or
`RefusePatch`) of an editor: the tool reads the record, patches its copy, and the
service writes the whole record.

Assumed (`ValidRow`, `ValidRequest`): no id is blank, as the service and the server
draw one where none is given; the service sets the status of a new assignment and
checks those that progress and completion ask for, and a work item always has a
status; the project is not deleted, and nothing is imported into it, during the
read.

What the model showed beside its properties.  Readiness can be "ready" although at
no moment it was: a handoff accepted between the list of assignments and the list
of handoffs hides both itself and its follow-up (docs/mcp-quickstart.md:303 calls
readiness advisory).  A review whose follow-up is an assignment of another work
item stays blocked for good, as only assignments of the item are looked at.  A
late patch of any field reopens a work item marked done meanwhile.  A listed work
item deleted during a brief fails the whole brief; but one that has only an open
handoff and is deleted between the two statements of a list is called ready, as the
lists are empty then.  An assignment `a3:b` of the item `w1` and an
assignment `b` of the item `w1:a3` have one health id, and the attention list of
project health keeps only one of them: `AnswersHold` promises distinct ids for items
whose parts hold no colon.

### Proof modules

`AssignmentLifecycleProofs`, `HandoffAuthorityProofs`, `ProjectContextProofs`,
`ProposalProofs` (of `AssistantLedger` and `MemoryPromotion`, whose names are
therefore distinct: `MemoryInit`, `MemoryNext`), `StoreStatementsProofs`,
`SqliteTransitionProofs`, `SnapshotTransferProofs` and `OperationsViewProofs` extend
the modules above; see *Proofs*.

## Runs

| run | instance | shows |
|---|---|---|
| `assignment_lifecycle` | 1 assignment, 2 workers, 2 claim ids, 2 coordinations, 1 editor, lease of 2 ticks, clock 1..4 and back, stamps to 4, records created with and without times of their own | the safety and action properties of the lifecycle and its refinement |
| `reservation_liveness` | 1 worker, 2 claim ids, no editor, forward clock | a leased reservation ends, or is renewed beyond the end of the clock |
| `handoff_commands` | 1 handoff, 2 keys, 2 assignments, 1 work item and role, 4 revisions | one answer per key, one follow-up per revision |
| `handoff_records` | 1 handoff, 1 key, 2 work items, a source assignment, imported times, clock that steps back | answers are true, nothing outlives its work item, revisions advance |
| `handoff_role_deletion` | 1 handoff with a sender role | a divergence from the README, see *Findings* |
| `memory_promotion` | 2 candidates, 3 entries, 2 contents, 2 calls in flight | the first resolution decides all promotions; what is answered holds |
| `memory_rejection` | 1 candidate, 2 entries, 2 calls in flight | a rejection overwrites a promotion, see *Findings* |
| `project_context` | 3 roots (hosts and removals; helpers name one of two), 1 source, 1 skill, 1 path, 2 calls, both stores | what is lost is lost to an overlap; the default root is a root; discovery reconciles |
| `assistant_ledger` | 1 proposal, 1 explicit target, 5 lists of actions (one of an update without its token) and 3 imported ledgers, 2 callers in 1 or 2 processes, 2 attempts | the attempts tell what was done; a ledger stays importable; an applied proposal is not applied again |
| `sqlite_transition` | 3 callers in 2 processes, 2 of them active; one request of every operation | each operation is one step or none, and every call ends |
| `snapshot_transfer` | 11 records of 10 kinds, or with a handoff into another work item; 11 changes of which 2 happen, 2 exports; an empty target, an older one, one with the handoff elsewhere | the target stays whole; refusals are the snapshot's own |
| `operations_view` | 5 initial states of 2 work items, one with ids that hold colons, 18 changes, 2 editors, 2 writes | ready was ready, nothing open is hidden, a patch keeps the rest |

Why the bounds are enough to meet the interesting cases.  One assignment: no operation
looks at two.  Two claim ids over a clock of four ticks with a lease of two, which may
be set back: a claim can be made, expire, be recovered and the work be claimed again,
with the first worker's calls still arriving and the second lease expiring too. Only the
clock stops at `MaxNow`: a lease taken or renewed late outlives it.  `MaxStamp` bounds
the stamps that edits and progress store; the clock may stand or be set back at any
stamp below it, so that writes at a standing or backward clock are among them.  A
recovery is not bounded, so the liveness run is not blocked by it.  Two keys and four
revisions of one handoff: accept under one key, clear the link, accept under the other,
repeat either.  Two work items: a handoff can be handed from one to the other and either
deleted.  Two calls in flight and three entry ids: both reviewers promote one candidate,
or one promotes while the other rejects, with an entry of another origin beside theirs
and one left to link by hand.

Two helper calls on a project, one of them begun before the other writes, is the
shortest overlap, and hosts replace and delete the project between any two
steps; one skill with up to four places that declare it meets every status.  Two
callers and two processes: the mutex works within a process and not between
them.  Two attempts of a proposal: partial, then again.  In the SQLite run the
first caller may ask for anything, the second (same process) and the third
(other process) for what is most in its way; two of them at a time, because an
operation's conflict is with one other, and each may crash, fail or go busy at
every statement.  Two changes during an export tear it in two places or loosen
the store first; two exports allow a refused import to be followed by a good one.
Two writes during a read: an acceptance and the completion of its follow-up, or a
patch that overtakes another.  Interchangeable ids are declared symmetric in the safety
runs; the liveness run uses no symmetry.

Each property of a passing run has a mutated definition in its module (named
after the definition, with what was broken), under which the run fails.

`CHECK_DEADLOCK FALSE` is set where a behaviour ends because its calls, changes or
exports are bounded: `project_context`, `sqlite_transition`, `snapshot_transfer`
and `operations_view`.

### Fairness

`FairSpec` has weak fairness of `Tick` (time passes) and of `RecoverAssignmentClaim`
(the operator acts on the `recover_assignment_claim` hint that the operations brief
keeps showing while a claim is expired, `operations_brief.go`).  Nothing is assumed of
workers, hosts and editors: they may crash at any point, and a worker that lives may
renew for ever, in which case its reservation does not end.  So `ReservationEnds` says:
a reservation is over, or its lease reaches beyond the last tick, which takes a renewal
(or a claim) within the lease time before it.  A worker that stops before that does not
hold the work.  The clock of that run never steps back: an operator who sets it back
again and again can hold a lease open.

`SqliteTransition` has weak fairness of `Proceed(c)`, the next step of a call that
was started: Go schedules its goroutine, and SQLite waits for a lock no longer
than `busy_timeout` (`sqliteConnectionDSN`), after which the call goes on with an
error.  Failures, crashes and new calls are not fair: nothing makes them happen.
`CallsEnd` then says that no error path keeps the connection or the lock.

## Findings

`handoff_role_deletion`: README.md:89-92 says that role references are durable
metadata and that deleting a role does not block the records that carry its id.
`UpdateHandoff` (`memory_store.go:1242`) validates every reference of the
patched handoff, also those a patch leaves alone, so a handoff that names a
deleted role cannot be dismissed, superseded or reworded until the reference is
cleared as well.

`memory_rejection`: `tools.go:1389` describes `memory_candidates.reject` as
rejecting a pending candidate "without creating accepted memory".
`RejectMemoryCandidate` (`service.go:2074-2095`) checks the status of the record
it read and later writes that record back with a plain update.  When a promotion
commits in between, its answer has gone out and its entry is accepted memory,
but the candidate ends rejected, without the link; a retry of the promotion is
refused, and a host that reopens the candidate can promote it into a second
entry.

Two more were met where the properties had to be stated with an exception; no run of
its own shows them.

`DiscoveryReconciles`: README.md:120-123 says that rediscovery preserves operator
edits, the description among them.  `DiscoverProjectSkills` (`service.go:524`) takes
`firstNonEmpty` of the stored description and that of the file, so a description that
the operator cleared comes back.

`LedgersImportable`: docs/agent-host-integration.md:164-165 says that historical
proposal ledgers, whose handoff updates may lack the token, remain importable.  When
somebody applies such a proposal, the validation of its actions refuses it, and the
empty result is recorded as an attempt all the same (`assistant.go:144`), with a blank
proposal id that validation of a record rejects (`assistant.go:351`).  The SQLite
store writes it without looking; from then on the import of an export of that project
stops at this record.

## Proofs

TLAPS proves, for all values of the constants:

*AssignmentLifecycle*: the type invariant, every safety invariant and every action
property of the run, and that each step implements a step of `FencedWork`.  The
invariants are not inductive one by one: whether a write is valid depends on the record
it starts from.  The inductive invariant says that every stored record is well formed
(`RecordOK`: types, claim state, references owned by the fence; and ordered stamps, up
to those its creator supplied), that the drawn ids cover every fence, that a starter is
the fence of started work, and that no snapshot is ahead of its record.  The argument is
in three layers: what each record helper makes of a well-formed record; what record each
kind of step can leave behind; the invariants of the state.

*HandoffAuthority*: the type invariant, the four safety invariants and the
advance of revisions.  The inductive invariant adds two facts: the receipts are
exactly the first answers, and follow-ups were created at revisions the handoff
has left behind.  Steps are sorted into those that answer nothing (`QuietStep`:
how they may change each handoff and which references they leave), replays, and
first answers.

*MemoryPromotion*: the type invariant, `PromotionsAgree` and `PromotionHolds`.
Neither is inductive: a step that answers relies on the candidate it finds.  The
inductive invariant adds that a pending candidate has no decision, and that a
linked candidate is either undecided (a host set the link) or was decided as what
it links.  A rejection that overwrites a promotion keeps it, as the decision stays
and the link goes: this is why promotions agree although the finding is real.

*AssistantLedger*: the type invariant, `LedgerTellsAttempts`, `LedgersImportable` and
`RepeatApplyProtection`.  The inductive invariant says of each application in
flight that it holds its process's mutex and stands at an action of the list it
read (`Underway`); that, until it is overtaken, the stored record does not say
applied (`NotApplied`); and of each record that is not excused that at most one
application is at work on it, on the attempts that are stored, and that what took
effect is what those attempts tell of and the `next - 1` actions of that
application (`Accounted`).  The second process and the import enter where the
mutex does not reach: they overtake or excuse.  `LedgersImportable` has an invariant of
its own (`AllImportable`): the records that applications have read are importable too,
and only one whose list lacks a token ends without a status.

*ProjectContext*: the type invariant, `DefaultRootIsRoot`, `RootIdsUnique` and the
action properties `LostOnlyToOverlap` and `DiscoveryReconciles`.  With
a slot for each call, one for the stored lists and one for those being written, a
free slot exists (`SlotIsFree`, by counting), so that writing never touches lists
somebody holds.  Beside the types, the inductive invariant says that what is ready
to be written has its default root (`Ready`), that whoever shares the stored lists
read the stored default root (`Shares`), and of a removal over them: it is behind
its own reading (`Bounded`); if it alone has moved entries, it will write, with
fewer entries than it looked at (`Moved`), and the default root is still among the
entries it has kept or has yet to look at (`Keeps`).  A second removal moves entries
in front of the first, and none of this holds any more: that is the exception in
the property.  Unique ids (`UInv`) need `UniqueInputs` and, of a list that a removal
works on, that the part it still has (`Live`) is without doubles.

The action properties rest on a third invariant, `AllCurrent`: what each call that
nobody overtook knows of the stored record, phase by phase.  Until its edit it holds
the stored lists; after it, lists that differ from the stored ones in what it is
about (`ExactLists`); a removal holds, in the part it still has, exactly the entries
that are to stay, also when the list it works on is the stored one and is half moved
(`MovedEntries`); a discovery has each skill as listed or as written.  A step of
another call either leaves all of this as it was (`CurrentFrame`) or overtakes the
call, and over a sharing store that includes edits in place.  No step but its own
write ends a call that is ready (`OnlyItsWriteEnds`).

*StoreStatements*: `EveryOperationPlans` sorts the operations of the store into four
forms, which is all that the refinement knows of them: no operation is looked at
again.  Its lemmas say what a list of statements does step by step, that it keeps
primary keys, and which rows an operation writes.  `HandoffChangesResolve` does look
at the four operations that write handoffs: what each of them has checked in its
transaction is still there after its own statements, none of which deletes; the
assignment a follow-up links is the row that the same transaction inserts.

*SqliteTransition*: the type invariant and the refinement `ImplementsContract`,
without its fairness.  The inductive invariant follows each call (`Fits`): what it
still has to look up or run; that a lock is held only inside a transaction, which
keeps its process's connection; that a transaction that has read sees the committed
rows after the first `k` of its statements, none of which missed (`Progress`); what
is decided when it commits or is undone.  Every step is then the operation in one
step, an answer, a crash, or a stutter.  That another's commit cannot pull the rows
from under a transaction is the lock's doing, and where it would go wrong the proof
fails.  `HandoffsResolve` (the property `ChangedHandoffsResolve`) follows from the
refinement: a step that changes the committed rows is one operation on all of them
(`ChangesAreEffects`), so that what `HandoffChangesResolve` says of an operation holds
of the step, at whatever point the references were deleted.

*SnapshotTransfer*: the type invariant, `ImportSound` and `RefusalExplained`.  The
argument has a part for each store.  Of the source: `ChangeKeeps`, by the forms of the
operations that the refinement already sorted, shows that every accepted operation
keeps the keys and, unless it loosens, that everything a row refers to is there
(`Closed`).  The export: a snapshot holds only what has been listed (`Got`), each
record once but for one that was seen under two work items, and, if nothing changed,
all of it (`Reads`, `Holds`); so the last list of a quiet export completes a closed
snapshot.  The import: what was dealt with is in the target, its table comes no later
in `ImportOrder` than any that is left, and a row that is lost was replaced by the
record of its key (`Imports`).  A record of a closed snapshot therefore finds what it
refers to when its turn comes, and its creation is refused as a duplicate or, if it is
a malformed proposal, as invalid (`Spoilt`), and for nothing else; its replacement
fails for a handoff that is elsewhere.  A change of the source
during the export ends what is known of it, not of the import: `ImportSound` needs
neither `quiet` nor a closed snapshot.

*OperationsView*: the type invariant (which is only proved), `AnswersHold` and
`PatchKeepsTheRest`.  What a
read has got is about moments that are past, so the invariant says what is left of it
(`Agreeing`): of a work item that no assignment or review came to or left, the
assignments listed are those that are there, and one that was completed still is; the
evidence listed is still there, as long as the item has an assignment; the reviews are
the same.  It rests on what the store's operations can undo (`ChangeMakes`, by the forms
of the operations): none changes or takes away evidence or a review but by the deletion
of its work item, none makes a completed assignment anything else, none moves one
without leaving a trace in `stirred`.  Hence, at the moment the last list (the handoffs)
is read, an item that the lists call ready is clear (`ReadyIsClear`), and that moment is
one of the read (`ReadyWas`); an item that an assignment or a review came to or left, or
that was deleted, is the exception in the property: a `SELECT` after the deletion finds
nothing, whatever the list's own check had found (`Admission`).  `Read` and `Placed` say
where the read is, so that it is known which lists of an item are from the past.
`NothingHidden` needs no more than types: the three classifications are compared status
by status, and the parts that `healthItemID` joins tell the items apart because no id is
blank, those compared hold no colon, and each kind of item has parts of its own
(`HealthItemIDIs`, `ShapedByID`).  For the patches, `Editing` says of a copy that no
write overtook that it has the fields of the stored row that its patch leaves
(`CopyIs`); `CheckPatch` may set a status only where it is blank, and a stored one is
not.

Inductions (over the entries of a list, over the statements of an operation) are
made with the least element of a set of numbers (`LeastNatural`, `InductionUpTo`),
taken from the well-foundedness of finite subsets.

The assumptions are those of the modules: sentinels outside the sets they are
added to, positive lease and bounds, inputs of their types, `UniqueInputs`; for the
store, requests that name operations, initial rows that have every column and unique
keys, and a process for each call; for the transfer, requests and rows that name a work
item where their table has one; for the read models, the valid rows and requests named
above, and patches that name neither table nor id.

Each inductive invariant was checked by TLC on the instance of its run before it
was proved.  Only model-checked: `ReservationEnds` and `CallsEnd` (liveness under
fairness is out of the prover's reach).  The findings are counterexamples found by
TLC.

## Plan

Modelled, in the order of their importance to the system's users:
`AssignmentLifecycle` with `FencedWork`, `HandoffAuthority`, `MemoryPromotion`,
`SqliteTransition` with `StoreContract`, `ProjectContext`, `AssistantLedger`,
`SnapshotTransfer`, `OperationsView`, all with proofs.

Worth doing next: the read-modify-write of `roles.update`, `memory_entries.update` and
`skills.update` beside that of `work_items.update`, and the counts of project health.

## Not modelled

JSON decoding and rendering (`app/`), the views, the command line, the schema
migrations and the public facade keep no coordination state.  The MCP server
dispatches each message in a goroutine of its own and serialises its output; what
that means for the records, calls in any order and any number of times, is in
every module.  Setup readiness, the counts of project health and the cut of its
attention list at five are counts of lists and are left out, as are launch
packets.  `roles.update`, `memory_entries.update` and `skills.update` read,
patch and write back in the same steps as `work_items.update`.  The service's
field checks and defaults, which look at one argument only, are left out where no
property depends on them.
