------------------------ MODULE AssignmentLifecycle ------------------------
(***************************************************************************)
(* The lifecycle of assignments in one project: creation, compare-and-set  *)
(* edits of queued work, leased worker claims with fencing ids, recovery   *)
(* of expired claims, the embedding host's unfenced operations, and        *)
(* deletion.                                                               *)
(*                                                                         *)
(* Every store operation holds MemoryStore.mu for its whole body (the      *)
(* SQLite store runs it in one BEGIN IMMEDIATE transaction), so one        *)
(* operation is one step.  A refused call (ErrConflict, ErrNotFound,       *)
(* ErrInvalid) changes nothing and is a stuttering step.  The project, its *)
(* work items, roles and roots exist throughout.                           *)
(***************************************************************************)
EXTENDS Integers, FiniteSets

CONSTANTS
    Assignments,    \* assignment ids
    Workers,        \* the labels callers pass as claimed_by
    ClaimIds,       \* the fencing ids the server can draw, each at most once
    Coordinations,  \* work item, role, root, mode and desired agent, as one value
    Editors,        \* clients that read an assignment and edit it later
    HostTimes,      \* start and completion times a creator may put on a record; 0 is none
    LeaseTTL,       \* Service.assignmentClaimLeaseTTL, in clock ticks
    BackwardClock,  \* may the wall clock step back between operations?
    MaxNow,         \* bound: the clock stops here
    MaxStamp,       \* bound: highest updated_at a write other than a recovery stores
    Absent, NoClaim, NoWorker, NoRef, HostRef, NoSnapshot

ASSUME LifecycleAssumption ==
    /\ HostTimes \subseteq Nat
    /\ LeaseTTL \in Nat \ {0}
    /\ MaxNow \in Nat \ {0}
    /\ MaxStamp \in Nat
    /\ BackwardClock \in BOOLEAN
    /\ NoWorker \notin Workers
    /\ NoRef \notin ClaimIds
    /\ HostRef \notin ClaimIds
    /\ NoRef # HostRef

Progress == {"running", "awaiting_approval", "awaiting_review"}
Completion == {"completed", "failed", "cancelled", "awaiting_review"}
Terminal == {"completed", "failed", "cancelled"}
Statuses == {"queued", "claimed"} \cup Progress \cup Terminal

\* Zero is Go's zero time; real times start at one.
Time == Nat
Claim == [id : ClaimIds, acquiredAt : Time, expiresAt : Time]

\* Who put an execution reference or context snapshot on the record: nobody,
\* the creator or host, or the worker holding a given claim.
RefSource == ClaimIds \cup {NoRef, HostRef}

Assignment ==
    [status : Statuses, claimedBy : Workers \cup {NoWorker}, claim : Claim \cup {NoClaim},
     coordination : Coordinations, executionRef : RefSource, contextSnapshot : RefSource,
     updatedAt : Time, startedAt : Time, completedAt : Time]

\* What an editor remembers of the assignment it read.  "age" is history: has
\* the record been written or deleted since?
Snapshot ==
    [assignment : Assignments, coordination : Coordinations, updatedAt : Time,
     age : {"current", "overtaken", "gone"}]

ASSUME SentinelAssumption ==
    /\ Absent \notin Assignment
    /\ NoClaim \notin Claim \cup ClaimIds
    /\ NoSnapshot \notin Snapshot

VARIABLES
    assignments,  \* MemoryStore.assignments of the project
    now,          \* what the next call of the service clock returns
    issued,       \* claim ids drawn so far
    snapshots,    \* what each editor last read
    starters,     \* history: claims whose fenced start or completion was accepted
    supplied      \* history: which of a record's times are still its creator's

vars == <<assignments, now, issued, snapshots, starters, supplied>>

TimeFields == {"startedAt", "completedAt"}

Present(a) == assignments[a] # Absent
Later(s, t) == IF s >= t THEN s ELSE t

(***************************************************************************)
(* Helpers of the stores.                                                  *)
(***************************************************************************)
\* ValidateAssignmentClaimState: which claims a record of each status may carry.
ClaimStateOK(item) ==
    item.claim # NoClaim =>
        /\ item.claimedBy # NoWorker
        /\ item.claim.acquiredAt # 0
        /\ item.status # "queued"
        /\ IF item.status = "claimed"
           THEN item.claim.expiresAt > item.claim.acquiredAt
           ELSE item.claim.expiresAt = 0

\* Defect: the clock's reading is stored as it is.
TransitionTime_RawClock(item, t) == t

\* Defect: an unchanged clock reuses the stored revision.
TransitionTime_NoBump(item, t) == Later(Later(t, item.updatedAt), item.startedAt)

\* assignmentTransitionTimeAt: the revision stamp of a write at time t.
TransitionTime(item, t) ==
    LET stamp == Later(Later(t, item.updatedAt), item.startedAt)
    IN  IF stamp > item.updatedAt THEN stamp ELSE item.updatedAt + 1

\* Defect: any caller that names a claim passes while the record has one.
ClaimAllowsMutation_AnyFence(item, c, t) ==
    /\ item.claim # NoClaim
    /\ item.status = "claimed" => item.claim.expiresAt > t

\* Defect: off by one at the deadline.
ClaimAllowsMutation_AtDeadline(item, c, t) ==
    /\ item.claim # NoClaim
    /\ item.claim.id = c
    /\ item.status = "claimed" => item.claim.expiresAt >= t

\* assignmentClaimAllowsMutation: is c the current fence, and unexpired if not started?
ClaimAllowsMutation(item, c, t) ==
    /\ item.claim # NoClaim
    /\ item.claim.id = c
    /\ item.status = "claimed" => item.claim.expiresAt > t

\* The guard of RecoverAssignmentClaim.
ClaimRecoverable(item, c, t) ==
    /\ item.status = "claimed"
    /\ item.claim # NoClaim
    /\ item.claim.id = c
    /\ item.claim.expiresAt # 0
    /\ item.claim.expiresAt <= t

\* Defect: the expiry survives the start.
ClearReservation_Kept(claim) == claim

\* clearAssignmentClaimReservation: drop the expiry, keep the fence.
ClearReservation(claim) ==
    IF claim = NoClaim THEN NoClaim ELSE [claim EXCEPT !.expiresAt = 0]

\* Defect: the claim survives the requeue.
Requeued_KeepsClaim(item, stamp) ==
    [item EXCEPT !.status = "queued", !.claimedBy = NoWorker,
                 !.executionRef = NoRef, !.contextSnapshot = NoRef,
                 !.startedAt = 0, !.completedAt = 0, !.updatedAt = stamp]

\* Defect: the context snapshot survives the requeue.
Requeued_KeepsContext(item, stamp) ==
    [item EXCEPT !.status = "queued", !.claimedBy = NoWorker, !.claim = NoClaim,
                 !.executionRef = NoRef,
                 !.startedAt = 0, !.completedAt = 0, !.updatedAt = stamp]

\* The record a release or a recovery leaves behind.
Requeued(item, stamp) ==
    [item EXCEPT !.status = "queued", !.claimedBy = NoWorker, !.claim = NoClaim,
                 !.executionRef = NoRef, !.contextSnapshot = NoRef,
                 !.startedAt = 0, !.completedAt = 0, !.updatedAt = stamp]

\* Attach what a caller supplied; NoRef stands for an argument left empty.
Prepared(item, ref, ctx, stamp) ==
    [item EXCEPT !.executionRef = IF ref = NoRef THEN @ ELSE ref,
                 !.contextSnapshot = IF ctx = NoRef THEN @ ELSE ctx,
                 !.updatedAt = stamp]

\* Progress to a non-terminal status; started_at is stamped once.
Progressed(item, status, ref, t) ==
    LET started == IF item.startedAt = 0 THEN TransitionTime(item, t) ELSE item.startedAt
    IN  [item EXCEPT !.status = status,
                     !.startedAt = started,
                     !.executionRef = IF ref = NoRef THEN @ ELSE ref,
                     !.claim = IF item.status = "claimed" THEN ClearReservation(@) ELSE @,
                     !.updatedAt = TransitionTime([item EXCEPT !.startedAt = started], t)]

\* Completion, or hand-over to review; all its times are one stamp.
Completed(item, status, ref, t) ==
    LET stamp == TransitionTime(item, t)
        unstarted == item.status = "queued" /\ status = "cancelled"
    IN  [item EXCEPT !.status = status,
                     !.startedAt = IF @ = 0 /\ ~unstarted THEN stamp ELSE @,
                     !.completedAt = IF status \in Terminal /\ @ = 0 THEN stamp ELSE @,
                     !.executionRef = IF ref = NoRef THEN @ ELSE ref,
                     !.claim = IF item.status = "claimed" THEN ClearReservation(@) ELSE @,
                     !.updatedAt = stamp]

\* The host's progress takes one stamp for started_at and updated_at.
HostProgressed(item, status, ref, t) ==
    LET stamp == TransitionTime(item, t)
    IN  [item EXCEPT !.status = status,
                     !.startedAt = IF @ = 0 THEN stamp ELSE @,
                     !.executionRef = IF ref = NoRef THEN @ ELSE ref,
                     !.claim = IF item.status = "claimed" THEN ClearReservation(@) ELSE @,
                     !.updatedAt = stamp]

\* Every snapshot taken of a before this step is now older than the record.
Aged(a, age) ==
    [e \in Editors |->
        IF snapshots[e] # NoSnapshot /\ snapshots[e].assignment = a /\ snapshots[e].age # "gone"
        THEN [snapshots[e] EXCEPT !.age = age]
        ELSE snapshots[e]]

\* Store a new revision of a.
Write(a, item) ==
    /\ assignments' = [assignments EXCEPT ![a] = item]
    /\ snapshots' = Aged(a, "overtaken")

\* The same, for the operations whose stamps the model bounds.
BoundedWrite(a, item) ==
    /\ item.updatedAt <= MaxStamp
    /\ Write(a, item)

(***************************************************************************)
(* Creation and compare-and-set edits.                                     *)
(***************************************************************************)
Init ==
    /\ assignments = [a \in Assignments |-> Absent]
    /\ now = 1
    /\ issued = {}
    /\ snapshots = [e \in Editors |-> NoSnapshot]
    /\ starters = [a \in Assignments |-> {}]
    /\ supplied = [a \in Assignments |-> {}]

\* Defect: the status is taken from the caller's record, which leaves it empty.
CreateAssignment_NoStatus(a, coordination, stamp, started, completed, ref, ctx) ==
    /\ ~Present(a)
    /\ assignments' = [assignments EXCEPT ![a] =
           [status |-> "", claimedBy |-> NoWorker, claim |-> NoClaim,
            coordination |-> coordination, executionRef |-> ref, contextSnapshot |-> ctx,
            updatedAt |-> stamp, startedAt |-> started, completedAt |-> completed]]
    /\ starters' = [starters EXCEPT ![a] = {}]
    /\ supplied' = [supplied EXCEPT ![a] = {field \in TimeFields : assignments'[a][field] # 0}]
    /\ UNCHANGED <<now, issued, snapshots>>

\* Service.CreateAssignment: the record is always queued and unclaimed; an
\* embedding caller may supply its own updated_at and references, and a start
\* and a completion time, which are stored on the queued record as they are.
CreateAssignment(a, coordination, stamp, started, completed, ref, ctx) ==
    /\ ~Present(a)
    /\ assignments' = [assignments EXCEPT ![a] =
           [status |-> "queued", claimedBy |-> NoWorker, claim |-> NoClaim,
            coordination |-> coordination, executionRef |-> ref, contextSnapshot |-> ctx,
            updatedAt |-> stamp, startedAt |-> started, completedAt |-> completed]]
    /\ starters' = [starters EXCEPT ![a] = {}]
    /\ supplied' = [supplied EXCEPT ![a] = {field \in TimeFields : assignments'[a][field] # 0}]
    /\ UNCHANGED <<now, issued, snapshots>>

\* GetAssignment, by a client that will edit the record later.
ReadForEdit(e, a) ==
    /\ Present(a)
    /\ snapshots' = [snapshots EXCEPT ![e] =
           [assignment |-> a, coordination |-> assignments[a].coordination,
            updatedAt |-> assignments[a].updatedAt, age |-> "current"]]
    /\ UNCHANGED <<assignments, now, issued, starters, supplied>>

\* Defect: the revision is not compared, only the coordination.
QueuedSnapshotMatches_NoRevision(item, snapshot) ==
    /\ item.coordination = snapshot.coordination
    /\ item.status = "queued"
    /\ item.claimedBy = NoWorker
    /\ item.executionRef = NoRef
    /\ item.contextSnapshot = NoRef
    /\ item.startedAt = 0
    /\ item.completedAt = 0

\* queuedAssignmentSnapshotMatches: pristine queued work at the revision that was read.
QueuedSnapshotMatches(item, snapshot) ==
    /\ item.coordination = snapshot.coordination
    /\ item.status = "queued"
    /\ item.claimedBy = NoWorker
    /\ item.executionRef = NoRef
    /\ item.contextSnapshot = NoRef
    /\ item.updatedAt = snapshot.updatedAt
    /\ item.startedAt = 0
    /\ item.completedAt = 0

UpdateQueuedAssignment(e, replacement) ==
    /\ snapshots[e] # NoSnapshot
    /\ LET a == snapshots[e].assignment IN
       /\ Present(a)
       /\ QueuedSnapshotMatches(assignments[a], snapshots[e])
       /\ BoundedWrite(a, [assignments[a] EXCEPT
              !.coordination = replacement,
              !.updatedAt = TransitionTime(assignments[a], now)])
    /\ UNCHANGED <<now, issued, starters, supplied>>

(***************************************************************************)
(* The portable worker surface: leased, fenced claims.                     *)
(***************************************************************************)
\* Defect: an expired claim can be taken over without a recovery.
ClaimAssignmentWithLease_Steals(a, w, c) ==
    /\ Present(a)
    /\ \/ assignments[a].status = "queued"
       \/ /\ assignments[a].status = "claimed"
          /\ assignments[a].claim # NoClaim
          /\ assignments[a].claim.expiresAt <= now
    /\ c \notin issued
    /\ BoundedWrite(a, [assignments[a] EXCEPT
           !.status = "claimed", !.claimedBy = w,
           !.claim = [id |-> c, acquiredAt |-> now, expiresAt |-> now + LeaseTTL],
           !.updatedAt = TransitionTime(assignments[a], now)])
    /\ issued' = issued \cup {c}
    /\ UNCHANGED <<now, starters, supplied>>

ClaimAssignmentWithLease(a, w, c) ==
    /\ Present(a)
    /\ assignments[a].status = "queued"
    /\ c \notin issued
    /\ BoundedWrite(a, [assignments[a] EXCEPT
           !.status = "claimed", !.claimedBy = w,
           !.claim = [id |-> c, acquiredAt |-> now, expiresAt |-> now + LeaseTTL],
           !.updatedAt = TransitionTime(assignments[a], now)])
    /\ ClaimStateOK(assignments'[a])
    /\ issued' = issued \cup {c}
    /\ UNCHANGED <<now, starters, supplied>>

\* A heartbeat never shortens the lease and is no revision: updated_at stays.
\* A live worker may renew without end.
RenewAssignmentClaim(a, c) ==
    /\ Present(a)
    /\ assignments[a].status = "claimed"
    /\ ClaimAllowsMutation(assignments[a], c, now)
    /\ assignments' = [assignments EXCEPT
           ![a].claim.expiresAt = Later(@, now + LeaseTTL)]
    /\ UNCHANGED <<now, issued, snapshots, starters, supplied>>

\* Defect: a claim under which something was prepared is left alone.
RecoverAssignmentClaim_UnpreparedOnly(a, c) ==
    /\ Present(a)
    /\ ClaimRecoverable(assignments[a], c, now)
    /\ assignments[a].contextSnapshot = NoRef
    /\ Write(a, Requeued(assignments[a],
           TransitionTime([assignments[a] EXCEPT !.startedAt = 0], now)))
    /\ supplied' = [supplied EXCEPT ![a] = {}]
    /\ UNCHANGED <<now, issued, starters>>

RecoverAssignmentClaim(a, c) ==
    /\ Present(a)
    /\ ClaimRecoverable(assignments[a], c, now)
    /\ Write(a, Requeued(assignments[a],
           TransitionTime([assignments[a] EXCEPT !.startedAt = 0], now)))
    /\ supplied' = [supplied EXCEPT ![a] = {}]
    /\ UNCHANGED <<now, issued, starters>>

\* A worker attaches its execution reference, its context snapshot or both.
PrepareAssignmentWithClaim(a, c, ref, ctx) ==
    /\ Present(a)
    /\ <<ref, ctx>> # <<NoRef, NoRef>>
    /\ assignments[a].status = "claimed"
    /\ ClaimAllowsMutation(assignments[a], c, now)
    /\ BoundedWrite(a, Prepared(assignments[a], ref, ctx, TransitionTime(assignments[a], now)))
    /\ UNCHANGED <<now, issued, starters, supplied>>

ReleaseAssignmentWithClaim(a, c) ==
    /\ Present(a)
    /\ assignments[a].status = "claimed"
    /\ ClaimAllowsMutation(assignments[a], c, now)
    /\ BoundedWrite(a, Requeued(assignments[a],
           TransitionTime([assignments[a] EXCEPT !.startedAt = 0], now)))
    /\ supplied' = [supplied EXCEPT ![a] = {}]
    /\ UNCHANGED <<now, issued, starters>>

UpdateAssignmentStatusWithClaim(a, c, status, ref) ==
    /\ Present(a)
    /\ assignments[a].status \notin {"queued"} \cup Terminal
    /\ ClaimAllowsMutation(assignments[a], c, now)
    /\ BoundedWrite(a, Progressed(assignments[a], status, ref, now))
    /\ ClaimStateOK(assignments'[a])
    /\ starters' = [starters EXCEPT ![a] = @ \cup {c}]
    /\ UNCHANGED <<now, issued, supplied>>

CompleteAssignmentWithClaim(a, c, status, ref) ==
    /\ Present(a)
    /\ assignments[a].status \notin {"queued"} \cup Terminal
    /\ ClaimAllowsMutation(assignments[a], c, now)
    /\ BoundedWrite(a, Completed(assignments[a], status, ref, now))
    /\ ClaimStateOK(assignments'[a])
    /\ starters' = [starters EXCEPT ![a] = @ \cup {c}]
    /\ UNCHANGED <<now, issued, supplied>>

(***************************************************************************)
(* The embedding host's surface: trusted, and not fenced by a claim id.    *)
(***************************************************************************)
ClaimAssignment(a, w) ==
    /\ Present(a)
    /\ assignments[a].status = "queued"
    /\ BoundedWrite(a, [assignments[a] EXCEPT
           !.status = "claimed", !.claimedBy = w, !.claim = NoClaim,
           !.updatedAt = TransitionTime(assignments[a], now)])
    /\ UNCHANGED <<now, issued, starters, supplied>>

PrepareAssignment(a, w, ref, ctx) ==
    /\ Present(a)
    /\ <<ref, ctx>> # <<NoRef, NoRef>>
    /\ assignments[a].status = "claimed"
    /\ assignments[a].claimedBy = w
    /\ BoundedWrite(a, Prepared(assignments[a], ref, ctx, TransitionTime(assignments[a], now)))
    /\ UNCHANGED <<now, issued, starters, supplied>>

\* Defect: only the claimant is compared, not the status.
ReleaseAssignment_AnyStatus(a, w) ==
    /\ Present(a)
    /\ assignments[a].claimedBy = w
    /\ BoundedWrite(a, Requeued(assignments[a], TransitionTime(assignments[a], now)))
    /\ supplied' = [supplied EXCEPT ![a] = {}]
    /\ UNCHANGED <<now, issued, starters>>

ReleaseAssignment(a, w) ==
    /\ Present(a)
    /\ assignments[a].status = "claimed"
    /\ assignments[a].claimedBy = w
    /\ BoundedWrite(a, Requeued(assignments[a], TransitionTime(assignments[a], now)))
    /\ supplied' = [supplied EXCEPT ![a] = {}]
    /\ UNCHANGED <<now, issued, starters>>

UpdateAssignmentStatus(a, status, ref) ==
    /\ Present(a)
    /\ assignments[a].status \notin {"queued"} \cup Terminal
    /\ BoundedWrite(a, HostProgressed(assignments[a], status, ref, now))
    /\ ClaimStateOK(assignments'[a])
    /\ UNCHANGED <<now, issued, starters, supplied>>

\* Defect: the first terminal transition does not win.
CompleteAssignment_Reopens(a, status, ref) ==
    /\ Present(a)
    /\ BoundedWrite(a, Completed(assignments[a], status, ref, now))
    /\ ClaimStateOK(assignments'[a])
    /\ UNCHANGED <<now, issued, starters, supplied>>

CompleteAssignment(a, status, ref) ==
    /\ Present(a)
    /\ assignments[a].status \notin Terminal
    /\ BoundedWrite(a, Completed(assignments[a], status, ref, now))
    /\ ClaimStateOK(assignments'[a])
    /\ UNCHANGED <<now, issued, starters, supplied>>

\* The artifacts and reviews of a go with it; they are another module's state.
DeleteAssignment(a) ==
    /\ Present(a)
    /\ assignments' = [assignments EXCEPT ![a] = Absent]
    /\ snapshots' = Aged(a, "gone")
    /\ starters' = [starters EXCEPT ![a] = {}]
    /\ supplied' = [supplied EXCEPT ![a] = {}]
    /\ UNCHANGED <<now, issued>>

(***************************************************************************)
(* The wall clock.  Service.now is time.Now().UTC(), which an operator or  *)
(* NTP may set back.                                                       *)
(***************************************************************************)
Tick ==
    /\ now < MaxNow
    /\ now' = now + 1
    /\ UNCHANGED <<assignments, issued, snapshots, starters, supplied>>

StepBack ==
    /\ BackwardClock
    /\ now > 1
    /\ now' = now - 1
    /\ UNCHANGED <<assignments, issued, snapshots, starters, supplied>>

WorkerStep(a) ==
    \E c \in ClaimIds :
        \/ \E w \in Workers : ClaimAssignmentWithLease(a, w, c)
        \/ RenewAssignmentClaim(a, c)
        \/ RecoverAssignmentClaim(a, c)
        \/ \E ref, ctx \in {NoRef, c} : PrepareAssignmentWithClaim(a, c, ref, ctx)
        \/ ReleaseAssignmentWithClaim(a, c)
        \/ \E status \in Progress, ref \in {NoRef, c} :
               UpdateAssignmentStatusWithClaim(a, c, status, ref)
        \/ \E status \in Completion, ref \in {NoRef, c} :
               CompleteAssignmentWithClaim(a, c, status, ref)

HostStep(a) ==
    \/ \E coordination \in Coordinations, stamp \in 1..MaxStamp, started, completed \in HostTimes,
          ref, ctx \in {NoRef, HostRef} :
           CreateAssignment(a, coordination, stamp, started, completed, ref, ctx)
    \/ \E w \in Workers :
           \/ ClaimAssignment(a, w)
           \/ \E ref, ctx \in {NoRef, HostRef} : PrepareAssignment(a, w, ref, ctx)
           \/ ReleaseAssignment(a, w)
    \/ \E status \in Progress, ref \in {NoRef, HostRef} : UpdateAssignmentStatus(a, status, ref)
    \/ \E status \in Completion, ref \in {NoRef, HostRef} : CompleteAssignment(a, status, ref)
    \/ DeleteAssignment(a)

EditorStep(e) ==
    \/ \E a \in Assignments : ReadForEdit(e, a)
    \/ \E replacement \in Coordinations : UpdateQueuedAssignment(e, replacement)

Next ==
    \/ \E a \in Assignments : WorkerStep(a) \/ HostStep(a)
    \/ \E e \in Editors : EditorStep(e)
    \/ Tick
    \/ StepBack

Spec == Init /\ [][Next]_vars

\* Time passes, and the operator answers the recover_assignment_claim hint of
\* the operations brief.  No worker, host or editor is assumed to take a step.
Fairness ==
    /\ WF_vars(Tick)
    /\ \A a \in Assignments, c \in ClaimIds : WF_vars(RecoverAssignmentClaim(a, c))

FairSpec == Spec /\ Fairness

(***************************************************************************)
(* Type invariant.                                                         *)
(***************************************************************************)
\* Every variable holds a value of its kind; every stored record is an Assignment.
TypeOK ==
    /\ assignments \in [Assignments -> Assignment \cup {Absent}]
    /\ now \in 1..MaxNow
    /\ issued \subseteq ClaimIds
    /\ snapshots \in [Editors -> Snapshot \cup {NoSnapshot}]
    /\ starters \in [Assignments -> SUBSET ClaimIds]
    /\ supplied \in [Assignments -> SUBSET TimeFields]

(***************************************************************************)
(* Safety: what the records may look like.                                 *)
(***************************************************************************)
\* The store never holds a claim/fence combination that
\* ValidateAssignmentClaimState rejects (assignment_claim.go:24 promises that
\* the lifecycle cannot produce one), though renewal, release and recovery
\* write without validating.
ClaimStateValid ==
    \A a \in Assignments : Present(a) => ClaimStateOK(assignments[a])

StampsOK(item, given) ==
    /\ item.status \in Progress \cup {"completed", "failed"} => item.startedAt # 0
    /\ item.status \in Terminal => item.completedAt # 0
    /\ item.status \in {"queued", "claimed"} => (item.startedAt # 0 => "startedAt" \in given)
    /\ item.status \notin Terminal => (item.completedAt # 0 => "completedAt" \in given)
    /\ item.status # "queued" => item.startedAt <= item.updatedAt
    /\ (item.status \in Terminal /\ "completedAt" \notin given) =>
          /\ item.startedAt <= item.completedAt
          /\ item.completedAt <= item.updatedAt

\* The lifecycle times agree with the status and with each other whatever the
\* clock did and whatever times the creator put on the record: work in progress,
\* completed or failed has a start, terminal work and only terminal work has a
\* completion, work that has not started carries no start, and start <=
\* completion <= revision.  Times that are still the creator's own are excepted,
\* and no requeue leaves one behind; but once the record has left the queue even
\* such a start is never ahead of the revision.
StampsOrdered ==
    \A a \in Assignments : Present(a) => StampsOK(assignments[a], supplied[a])

RefsOwned(item) ==
    \A source \in {item.executionRef, item.contextSnapshot} :
        source \in ClaimIds => item.claim # NoClaim /\ item.claim.id = source

\* A worker's preparation never outlives its claim: an execution reference or
\* context snapshot attached under claim c is on a record only while c is its
\* fence, so the next claimant of requeued work never launches from a
\* predecessor's material.
PreparationOwned ==
    \A a \in Assignments : Present(a) => RefsOwned(assignments[a])

\* Work is started or completed under at most one claim generation, whatever
\* the workers' delayed calls, the recoveries and the host do in between; that
\* generation stays the record's fence.  (README.md:113, "without allowing a
\* stale worker to prepare, start, or complete a later claim generation".)
SingleStarter ==
    \A a \in Assignments : \A c \in starters[a] :
        /\ Present(a)
        /\ assignments[a].claim # NoClaim
        /\ assignments[a].claim.id = c
        /\ assignments[a].status \notin {"queued", "claimed"}

\* A reserved assignment is at every instant either its worker's to mutate or
\* the operator's to recover, and never both: no tick at which the claim is
\* dead for everybody, none at which a recovery takes it from a live worker.
LeaseDecided ==
    \A a \in Assignments :
        (Present(a) /\ assignments[a].status = "claimed" /\ assignments[a].claim # NoClaim) =>
            LET c == assignments[a].claim.id IN
            ClaimAllowsMutation(assignments[a], c, now) <=> ~ClaimRecoverable(assignments[a], c, now)

\* The write-time validation never turns away a worker that holds the fence:
\* from any status its progress and its completion produce a valid record.
FenceHolderNeverRefused ==
    \A a \in Assignments, c \in ClaimIds :
        (/\ Present(a)
         /\ assignments[a].status \notin {"queued"} \cup Terminal
         /\ ClaimAllowsMutation(assignments[a], c, now)) =>
            /\ \A status \in Progress :
                   ClaimStateOK(Progressed(assignments[a], status, NoRef, now))
            /\ \A status \in Completion :
                   ClaimStateOK(Completed(assignments[a], status, NoRef, now))

\* An edit never overwrites a revision its editor did not see: a snapshot taken
\* before another write of the same record no longer matches it, even if the
\* clock stood still or stepped back and the record is queued again with the
\* coordination that was read.
NoLostEdit ==
    \A e \in Editors :
        (snapshots[e] # NoSnapshot /\ snapshots[e].age = "overtaken") =>
            LET a == snapshots[e].assignment IN
            ~(Present(a) /\ QueuedSnapshotMatches(assignments[a], snapshots[e]))

(***************************************************************************)
(* Safety: what a step may never do.                                       *)
(***************************************************************************)
\* The fence of a record and of an assignment, or NoClaim.
FenceOf(item) == IF item.claim # NoClaim THEN item.claim.id ELSE NoClaim
Fence(a) == IF Present(a) THEN FenceOf(assignments[a]) ELSE NoClaim

\* A write other than a heartbeat strictly advances updated_at, also when the
\* clock has stepped back; a heartbeat changes nothing but the expiry, and never
\* moves it closer: a worker may rely on the expires_at it was last given.
RevisionsAdvance ==
    [][\A a \in Assignments :
        (Present(a) /\ Present(a)' /\ assignments'[a] # assignments[a]) =>
            \/ assignments'[a].updatedAt > assignments[a].updatedAt
            \/ /\ Fence(a) # NoClaim
               /\ assignments'[a].claim.expiresAt > assignments[a].claim.expiresAt
               /\ assignments'[a] =
                     [assignments[a] EXCEPT !.claim.expiresAt = assignments'[a].claim.expiresAt]]_vars

\* A retired fence never comes back and a held one is never handed over: a
\* record's fence changes only from none to an id never drawn before, or to none.
FenceNeverReturns ==
    [][\A a \in Assignments :
        (Fence(a)' # Fence(a) /\ Fence(a)' # NoClaim) =>
            /\ Fence(a) = NoClaim
            /\ Fence(a)' \notin issued]_vars

\* Work that a worker or the host has started (a status past "claimed") is never
\* requeued, keeps its start and its fence, and a terminal record never changes
\* again: the only way back is deletion.
StartedNeverRequeued ==
    [][\A a \in Assignments :
        (Present(a) /\ Present(a)') =>
            /\ assignments[a].status \in Progress \cup Terminal =>
                   /\ assignments'[a].startedAt = assignments[a].startedAt
                   /\ assignments'[a].status \notin {"queued", "claimed"}
                   /\ Fence(a)' = Fence(a)
            /\ assignments[a].status \in Terminal => assignments'[a] = assignments[a]]_vars

(***************************************************************************)
(* The abstract specification this module implements.                      *)
(***************************************************************************)
Phase(a) ==
    CASE ~Present(a) -> "absent"
      [] Present(a) /\ assignments[a].status = "queued" -> "open"
      [] Present(a) /\ assignments[a].status = "claimed" -> "reserved"
      [] Present(a) /\ assignments[a].status \in Progress -> "started"
      [] Present(a) /\ assignments[a].status \in Terminal -> "closed"

Work == INSTANCE FencedWork WITH
    Items <- Assignments, Fences <- ClaimIds, NoFence <- NoClaim,
    phase <- [a \in Assignments |-> Phase(a)],
    fence <- [a \in Assignments |-> Fence(a)],
    drawn <- issued

\* Seen through status and fence alone, every operation of the store, fenced or
\* not, is a step of FencedWork: no path leads from started or closed work back
\* to the queue, and no fence is replaced while it is held.
ImplementsFencedWork == Work!Spec

(***************************************************************************)
(* Liveness.                                                               *)
(***************************************************************************)
\* A lease lasts only as long as its worker keeps renewing it.  With time
\* passing and an operator that recovers, a reservation whose worker has stopped
\* its heartbeats is over (started, released, recovered or deleted) by the time
\* the clock ends, whatever was prepared under it; one that is not over has been
\* renewed, or claimed, so late that its lease reaches beyond the clock.
ReservationEnds ==
    \A a \in Assignments, c \in ClaimIds :
        LET Reserved == Present(a) /\ assignments[a].status = "claimed" /\ Fence(a) = c
        IN  Reserved ~> (~Reserved \/ assignments[a].claim.expiresAt > MaxNow)
=============================================================================
