--------------------- MODULE AssignmentLifecycleProofs ---------------------
(***************************************************************************)
(* Theorems about AssignmentLifecycle, for every value of its constants.   *)
(*                                                                         *)
(* The operations differ in their guards and in the record they store, so  *)
(* the argument is in three layers: what each record helper makes of a     *)
(* well-formed record, then which records a step can leave behind, then    *)
(* the invariants of the whole state.                                      *)
(***************************************************************************)
EXTENDS AssignmentLifecycle, TLAPS

\* Everything the lifecycle guarantees of one stored record by itself, when the
\* times in given are still its creator's.
RecordOK(item, given) ==
    /\ item \in Assignment
    /\ ClaimStateOK(item)
    /\ StampsOK(item, given)
    /\ RefsOwned(item)

\* What starting, progressing and closing have in common.
Advanced(old, new) ==
    /\ new.updatedAt > old.updatedAt
    /\ new.status \in Progress \cup Terminal
    /\ FenceOf(new) = FenceOf(old)
    /\ old.status # "claimed" /\ old.status # "queued" => new.startedAt = old.startedAt

\* The records that an edit, a reservation and a heartbeat store.
Edited(item, replacement, stamp) ==
    [item EXCEPT !.coordination = replacement, !.updatedAt = stamp]

Reserved(item, w, claim, stamp) ==
    [item EXCEPT !.status = "claimed", !.claimedBy = w, !.claim = claim, !.updatedAt = stamp]

Extended(item, expiry) == [item EXCEPT !.claim.expiresAt = expiry]

-----------------------------------------------------------------------------
(* Records.                                                                *)

\* A transition stamp is later than the revision it replaces and no earlier
\* than the start or the clock.
LEMMA TransitionTimeAdvances ==
    ASSUME NEW item \in Assignment, NEW t \in Nat
    PROVE  /\ TransitionTime(item, t) \in Nat
           /\ TransitionTime(item, t) > item.updatedAt
           /\ TransitionTime(item, t) >= item.startedAt
           /\ TransitionTime(item, t) > 0
  BY DEF TransitionTime, Later, Assignment, Time

\* Clearing a reservation keeps the fence and its acquisition time.
LEMMA ClearReservationKeepsFence ==
    ASSUME NEW claim \in Claim
    PROVE  /\ ClearReservation(claim) \in Claim
           /\ ClearReservation(claim) # NoClaim
           /\ ClearReservation(claim).id = claim.id
           /\ ClearReservation(claim).acquiredAt = claim.acquiredAt
           /\ ClearReservation(claim).expiresAt = 0
  BY SentinelAssumption DEF ClearReservation, Claim, Time

\* A requeued record is well formed, at whatever stamp it is stored.
LEMMA RequeuedOK ==
    ASSUME NEW item \in Assignment, NEW stamp \in Nat
    PROVE  RecordOK(Requeued(item, stamp), {})
  <1> DEFINE new == Requeued(item, stamp)
  <1>1. new \in Assignment
    BY DEF Requeued, Assignment, Statuses, RefSource, Time
  <1>2. ClaimStateOK(new)
    BY DEF Requeued, ClaimStateOK, Assignment
  <1>3. StampsOK(new, {})
    BY DEF Requeued, StampsOK, Assignment, Progress, Terminal
  <1>4. RefsOwned(new)
    BY LifecycleAssumption DEF Requeued, RefsOwned, Assignment
  <1> QED
    BY <1>1, <1>2, <1>3, <1>4 DEF RecordOK

\* Attaching references to a claimed record keeps it well formed when the
\* references are the host's or those of the record's own fence.
LEMMA PreparedOK ==
    ASSUME NEW item, NEW given, RecordOK(item, given), item.status = "claimed",
           NEW ref \in RefSource, NEW ctx \in RefSource,
           \A source \in {ref, ctx} :
               source \in ClaimIds => item.claim # NoClaim /\ item.claim.id = source,
           NEW stamp \in Nat, stamp > item.updatedAt
    PROVE  /\ RecordOK(Prepared(item, ref, ctx, stamp), given)
           /\ Prepared(item, ref, ctx, stamp).updatedAt = stamp
           /\ Prepared(item, ref, ctx, stamp).status = "claimed"
           /\ FenceOf(Prepared(item, ref, ctx, stamp)) = FenceOf(item)
  <1> DEFINE new == Prepared(item, ref, ctx, stamp)
  <1> item \in Assignment
    BY DEF RecordOK
  <1>1. new \in Assignment
    BY DEF Prepared, Assignment, Time
  <1>2. ClaimStateOK(new)
    BY DEF Prepared, RecordOK, ClaimStateOK, Assignment
  <1>3. StampsOK(new, given)
    BY DEF Prepared, RecordOK, StampsOK, Assignment, Progress, Terminal, Time
  <1>4. RefsOwned(new)
    BY DEF Prepared, RecordOK, RefsOwned, Assignment
  <1>5. new.updatedAt = stamp /\ new.status = "claimed" /\ FenceOf(new) = FenceOf(item)
    BY DEF Prepared, FenceOf, Assignment
  <1> QED
    BY <1>1, <1>2, <1>3, <1>4, <1>5 DEF RecordOK

\* The fence of a record that left "claimed" or was beyond it already.
LEMMA RetiredClaimOK ==
    ASSUME NEW item, NEW given, RecordOK(item, given), NEW claim,
           claim = IF item.status = "claimed" THEN ClearReservation(item.claim) ELSE item.claim
    PROVE  /\ claim \in Claim \cup {NoClaim}
           /\ claim = NoClaim <=> item.claim = NoClaim
           /\ claim # NoClaim =>
                 /\ item.claimedBy # NoWorker
                 /\ claim.id = item.claim.id
                 /\ claim.acquiredAt # 0
                 /\ claim.expiresAt = 0
  <1> item.claim \in Claim \cup {NoClaim}
    BY DEF RecordOK, Assignment
  <1>1. CASE item.claim = NoClaim
    BY <1>1 DEF ClearReservation
  <1>2. CASE item.claim # NoClaim /\ item.status = "claimed"
    BY <1>2, ClearReservationKeepsFence DEF RecordOK, ClaimStateOK
  <1>3. CASE item.claim # NoClaim /\ item.status # "claimed"
    BY <1>3 DEF RecordOK, ClaimStateOK
  <1> QED
    BY <1>1, <1>2, <1>3

\* Progress under the record's own fence, or by the host without touching the
\* worker's references, keeps the record well formed.
LEMMA ProgressedOK ==
    ASSUME NEW item, NEW given, RecordOK(item, given), item.status \notin {"queued"} \cup Terminal,
           NEW status \in Progress, NEW t \in Nat, NEW ref \in RefSource,
           ref \in ClaimIds => item.claim # NoClaim /\ item.claim.id = ref
    PROVE  /\ RecordOK(Progressed(item, status, ref, t), given)
           /\ Advanced(item, Progressed(item, status, ref, t))
  <1> DEFINE new == Progressed(item, status, ref, t)
             started == IF item.startedAt = 0 THEN TransitionTime(item, t) ELSE item.startedAt
             begun == [item EXCEPT !.startedAt = started]
             claim == IF item.status = "claimed" THEN ClearReservation(item.claim) ELSE item.claim
  <1>a. item \in Assignment
    BY DEF RecordOK
  <1>b. /\ started \in Nat \ {0}
        /\ begun \in Assignment
        /\ begun.updatedAt = item.updatedAt
        /\ begun.startedAt = started
    BY <1>a, TransitionTimeAdvances DEF Assignment, Time
  <1> DEFINE stamp == TransitionTime(begun, t)
  <1>c. /\ stamp \in Nat
        /\ stamp > item.updatedAt
        /\ stamp >= started
    BY <1>b, TransitionTimeAdvances
  <1>d. /\ claim \in Claim \cup {NoClaim}
        /\ claim = NoClaim <=> item.claim = NoClaim
        /\ claim # NoClaim =>
              /\ item.claimedBy # NoWorker
              /\ claim.id = item.claim.id
              /\ claim.acquiredAt # 0
              /\ claim.expiresAt = 0
    BY RetiredClaimOK
  <1>e. /\ new.status = status
        /\ new.claimedBy = item.claimedBy
        /\ new.claim = claim
        /\ new.coordination = item.coordination
        /\ new.executionRef = IF ref = NoRef THEN item.executionRef ELSE ref
        /\ new.contextSnapshot = item.contextSnapshot
        /\ new.updatedAt = stamp
        /\ new.startedAt = started
        /\ new.completedAt = item.completedAt
    BY <1>a DEF Progressed, Assignment
  <1>f. new = [item EXCEPT !.status = status, !.startedAt = started,
                          !.executionRef = IF ref = NoRef THEN item.executionRef ELSE ref,
                          !.claim = claim, !.updatedAt = stamp]
    BY DEF Progressed
  <1> HIDE DEF new, started, begun, claim, stamp
  <1>1. new \in Assignment
    BY <1>a, <1>b, <1>c, <1>d, <1>f DEF Assignment, Statuses, Time
  <1>2. ClaimStateOK(new)
    BY <1>d, <1>e DEF ClaimStateOK, Progress
  <1>3. StampsOK(new, given)
    BY <1>a, <1>b, <1>c, <1>e DEF RecordOK, StampsOK, Assignment, Progress, Terminal, Time
  <1>4. RefsOwned(new)
    <2> SUFFICES ASSUME NEW source \in {new.executionRef, new.contextSnapshot},
                        source \in ClaimIds
                 PROVE  new.claim # NoClaim /\ new.claim.id = source
      BY DEF RefsOwned
    <2>1. item.claim # NoClaim /\ item.claim.id = source
      BY <1>e DEF RecordOK, RefsOwned
    <2> QED
      BY <2>1, <1>d, <1>e
  <1>5. Advanced(item, new)
    BY <1>a, <1>b, <1>c, <1>d, <1>e DEF started, Advanced, FenceOf, RecordOK, StampsOK, Assignment, Statuses, Progress, Terminal, Time
  <1> QED
    BY <1>1, <1>2, <1>3, <1>4, <1>5 DEF RecordOK, new

\* The host's progress, with one stamp for the start and the revision.
LEMMA HostProgressedOK ==
    ASSUME NEW item, NEW given, RecordOK(item, given), item.status \notin {"queued"} \cup Terminal,
           NEW status \in Progress, NEW t \in Nat, NEW ref \in RefSource,
           ref \in ClaimIds => item.claim # NoClaim /\ item.claim.id = ref
    PROVE  /\ RecordOK(HostProgressed(item, status, ref, t), given)
           /\ Advanced(item, HostProgressed(item, status, ref, t))
  <1> DEFINE new == HostProgressed(item, status, ref, t)
             stamp == TransitionTime(item, t)
             started == IF item.startedAt = 0 THEN stamp ELSE item.startedAt
             claim == IF item.status = "claimed" THEN ClearReservation(item.claim) ELSE item.claim
  <1>a. item \in Assignment
    BY DEF RecordOK
  <1>b. /\ stamp \in Nat
        /\ stamp > item.updatedAt
        /\ stamp >= item.startedAt
    BY <1>a, TransitionTimeAdvances
  <1>c. /\ claim \in Claim \cup {NoClaim}
        /\ claim = NoClaim <=> item.claim = NoClaim
        /\ claim # NoClaim =>
              /\ item.claimedBy # NoWorker
              /\ claim.id = item.claim.id
              /\ claim.acquiredAt # 0
              /\ claim.expiresAt = 0
    BY RetiredClaimOK
  <1>d. /\ new.status = status
        /\ new.claimedBy = item.claimedBy
        /\ new.claim = claim
        /\ new.executionRef = IF ref = NoRef THEN item.executionRef ELSE ref
        /\ new.contextSnapshot = item.contextSnapshot
        /\ new.updatedAt = stamp
        /\ new.startedAt = started
        /\ new.completedAt = item.completedAt
    BY <1>a DEF HostProgressed, Assignment
  <1>e. new = [item EXCEPT !.status = status, !.startedAt = started,
                          !.executionRef = IF ref = NoRef THEN item.executionRef ELSE ref,
                          !.claim = claim, !.updatedAt = stamp]
    BY <1>a DEF HostProgressed, Assignment
  <1> HIDE DEF new, claim, stamp
  <1>1. new \in Assignment
    BY <1>a, <1>b, <1>c, <1>e DEF Assignment, Statuses, Time, Progress, Completion, Terminal
  <1>2. ClaimStateOK(new)
    BY <1>c, <1>d DEF ClaimStateOK, Progress
  <1>3. StampsOK(new, given)
    BY <1>a, <1>b, <1>d DEF RecordOK, StampsOK, Assignment, Progress, Completion, Terminal, Statuses, Time
  <1>4. RefsOwned(new)
    <2> SUFFICES ASSUME NEW source \in {new.executionRef, new.contextSnapshot},
                        source \in ClaimIds
                 PROVE  new.claim # NoClaim /\ new.claim.id = source
      BY DEF RefsOwned
    <2>1. item.claim # NoClaim /\ item.claim.id = source
      BY <1>d DEF RecordOK, RefsOwned
    <2> QED
      BY <2>1, <1>c, <1>d
  <1>5. Advanced(item, new)
    BY <1>a, <1>b, <1>c, <1>d DEF Advanced, FenceOf, RecordOK, StampsOK, Assignment, Statuses, Progress, Terminal, Time
  <1> QED
    BY <1>1, <1>2, <1>3, <1>4, <1>5 DEF RecordOK, new

\* Completion from any status but a terminal one, by the fence or by the host.
LEMMA CompletedOK ==
    ASSUME NEW item, NEW given, RecordOK(item, given), item.status \notin Terminal,
           NEW status \in Completion, NEW t \in Nat, NEW ref \in RefSource,
           ref \in ClaimIds => item.claim # NoClaim /\ item.claim.id = ref
    PROVE  /\ RecordOK(Completed(item, status, ref, t), given)
           /\ Advanced(item, Completed(item, status, ref, t))
  <1> DEFINE new == Completed(item, status, ref, t)
             stamp == TransitionTime(item, t)
             started == IF item.startedAt = 0 /\ ~(item.status = "queued" /\ status = "cancelled")
                        THEN stamp ELSE item.startedAt
             completed == IF status \in Terminal /\ item.completedAt = 0
                          THEN stamp ELSE item.completedAt
             claim == IF item.status = "claimed" THEN ClearReservation(item.claim) ELSE item.claim
  <1>a. item \in Assignment
    BY DEF RecordOK
  <1>b. /\ stamp \in Nat
        /\ stamp > item.updatedAt
        /\ stamp >= item.startedAt
    BY <1>a, TransitionTimeAdvances
  <1>c. /\ claim \in Claim \cup {NoClaim}
        /\ claim = NoClaim <=> item.claim = NoClaim
        /\ claim # NoClaim =>
              /\ item.claimedBy # NoWorker
              /\ claim.id = item.claim.id
              /\ claim.acquiredAt # 0
              /\ claim.expiresAt = 0
    BY RetiredClaimOK
  <1>d. /\ new.status = status
        /\ new.claimedBy = item.claimedBy
        /\ new.claim = claim
        /\ new.executionRef = IF ref = NoRef THEN item.executionRef ELSE ref
        /\ new.contextSnapshot = item.contextSnapshot
        /\ new.updatedAt = stamp
        /\ new.startedAt = started
        /\ new.completedAt = completed
    BY <1>a DEF Completed, Assignment
  <1>e. new = [item EXCEPT !.status = status, !.startedAt = started,
                          !.completedAt = completed,
                          !.executionRef = IF ref = NoRef THEN item.executionRef ELSE ref,
                          !.claim = claim, !.updatedAt = stamp]
    BY <1>a DEF Completed, Assignment
  <1> HIDE DEF new, claim, stamp
  <1>f. status \in Statuses /\ started \in Nat /\ completed \in Nat
    BY <1>a, <1>b DEF Assignment, Statuses, Time, Progress, Completion, Terminal
  <1>1. new \in Assignment
    <2> HIDE DEF started, completed
    <2> QED
      BY <1>a, <1>b, <1>c, <1>e, <1>f DEF Assignment, Time
  <1>2. ClaimStateOK(new)
    BY <1>c, <1>d DEF ClaimStateOK, Completion
  <1>3. StampsOK(new, given)
    BY <1>a, <1>b, <1>d DEF RecordOK, StampsOK, Assignment, Progress, Completion, Terminal, Statuses, Time
  <1>4. RefsOwned(new)
    <2> SUFFICES ASSUME NEW source \in {new.executionRef, new.contextSnapshot},
                        source \in ClaimIds
                 PROVE  new.claim # NoClaim /\ new.claim.id = source
      BY DEF RefsOwned
    <2>1. item.claim # NoClaim /\ item.claim.id = source
      BY <1>d DEF RecordOK, RefsOwned
    <2> QED
      BY <2>1, <1>c, <1>d
  <1>5. Advanced(item, new)
    BY <1>a, <1>b, <1>c, <1>d DEF Advanced, FenceOf, RecordOK, StampsOK, Assignment, Statuses, Completion, Progress, Terminal, Time
  <1> QED
    BY <1>1, <1>2, <1>3, <1>4, <1>5 DEF RecordOK, new

\* A new assignment is a well-formed record.
LEMMA CreatedOK ==
    ASSUME NEW coordination \in Coordinations, NEW stamp \in Nat,
           NEW started \in Nat, NEW completed \in Nat,
           NEW ref \in {NoRef, HostRef}, NEW ctx \in {NoRef, HostRef}, NEW new,
           new = [status |-> "queued", claimedBy |-> NoWorker, claim |-> NoClaim,
                  coordination |-> coordination, executionRef |-> ref, contextSnapshot |-> ctx,
                  updatedAt |-> stamp, startedAt |-> started, completedAt |-> completed],
           NEW given, given = {field \in TimeFields : new[field] # 0}
    PROVE  RecordOK(new, given)
  <1>1. new \in Assignment
    BY DEF Assignment, Statuses, RefSource, Time
  <1>2. ClaimStateOK(new) /\ StampsOK(new, given)
    BY DEF ClaimStateOK, StampsOK, Progress, Terminal, TimeFields
  <1>3. RefsOwned(new)
    BY LifecycleAssumption DEF RefsOwned
  <1> QED
    BY <1>1, <1>2, <1>3 DEF RecordOK

\* An edit of queued work leaves a well-formed record.
LEMMA EditedOK ==
    ASSUME NEW item, NEW given, RecordOK(item, given), item.status = "queued",
           NEW replacement \in Coordinations,
           NEW stamp \in Nat, stamp > item.updatedAt
    PROVE  /\ RecordOK(Edited(item, replacement, stamp), given)
           /\ Edited(item, replacement, stamp).updatedAt = stamp
           /\ Edited(item, replacement, stamp).status = "queued"
           /\ FenceOf(Edited(item, replacement, stamp)) = FenceOf(item)
  <1> DEFINE new == Edited(item, replacement, stamp)
  <1>a. item \in Assignment
    BY DEF RecordOK
  <1>1. new \in Assignment
    BY <1>a DEF Edited, Assignment, Time
  <1>2. ClaimStateOK(new)
    BY <1>a DEF Edited, RecordOK, ClaimStateOK, Assignment
  <1>3. StampsOK(new, given)
    BY <1>a DEF Edited, RecordOK, StampsOK, Assignment, Progress, Terminal, Time
  <1>4. RefsOwned(new)
    BY <1>a DEF Edited, RecordOK, RefsOwned, Assignment
  <1>5. new.updatedAt = stamp /\ new.status = "queued" /\ FenceOf(new) = FenceOf(item)
    BY <1>a DEF Edited, FenceOf, Assignment
  <1> QED
    BY <1>1, <1>2, <1>3, <1>4, <1>5 DEF RecordOK

\* A reservation of queued work, leased or the host's, is well formed: queued
\* work carries no claim, so no reference of an earlier worker is left on it.
LEMMA ReservedOK ==
    ASSUME NEW item, NEW given, RecordOK(item, given), item.status = "queued",
           NEW w \in Workers, NEW claim \in Claim \cup {NoClaim},
           claim # NoClaim => claim.acquiredAt # 0 /\ claim.expiresAt > claim.acquiredAt,
           NEW stamp \in Nat, stamp > item.updatedAt, stamp >= item.startedAt
    PROVE  /\ RecordOK(Reserved(item, w, claim, stamp), given)
           /\ Reserved(item, w, claim, stamp).updatedAt = stamp
           /\ Reserved(item, w, claim, stamp).status = "claimed"
           /\ Reserved(item, w, claim, stamp).claim = claim
  <1> DEFINE new == Reserved(item, w, claim, stamp)
  <1>a. item \in Assignment
    BY DEF RecordOK
  <1>b. item.claim = NoClaim
    BY DEF RecordOK, ClaimStateOK
  <1>1. new \in Assignment
    BY <1>a DEF Reserved, Assignment, Statuses, Time
  <1>2. ClaimStateOK(new)
    BY <1>a, LifecycleAssumption DEF Reserved, ClaimStateOK, Assignment
  <1>3. StampsOK(new, given)
    BY <1>a DEF Reserved, RecordOK, StampsOK, Assignment, Progress, Terminal, Time
  <1>4. RefsOwned(new)
    BY <1>a, <1>b DEF Reserved, RecordOK, RefsOwned, Assignment
  <1>5. new.updatedAt = stamp /\ new.status = "claimed" /\ new.claim = claim
    BY <1>a DEF Reserved, Assignment
  <1> QED
    BY <1>1, <1>2, <1>3, <1>4, <1>5 DEF RecordOK

\* A heartbeat touches the expiry alone.
LEMMA RenewedOK ==
    ASSUME NEW item, NEW given, RecordOK(item, given), item.status = "claimed", item.claim # NoClaim,
           NEW expiry \in Nat, expiry >= item.claim.expiresAt
    PROVE  /\ RecordOK(Extended(item, expiry), given)
           /\ Extended(item, expiry).claim.expiresAt = expiry
           /\ FenceOf(Extended(item, expiry)) = FenceOf(item)
  <1> DEFINE new == Extended(item, expiry)
             claim == [item.claim EXCEPT !.expiresAt = expiry]
  <1>a. item \in Assignment /\ item.claim \in Claim
    BY DEF RecordOK, Assignment
  <1>b. /\ claim \in Claim
        /\ claim # NoClaim
        /\ claim.id = item.claim.id
        /\ claim.acquiredAt = item.claim.acquiredAt
        /\ claim.expiresAt = expiry
    BY <1>a, SentinelAssumption DEF Claim, Time
  <1>c. new = [item EXCEPT !.claim = claim]
    BY <1>a DEF Extended
  <1> HIDE DEF claim, new
  <1>d. /\ new.status = "claimed"
        /\ new.claimedBy = item.claimedBy
        /\ new.claim = claim
        /\ new.executionRef = item.executionRef
        /\ new.contextSnapshot = item.contextSnapshot
        /\ new.updatedAt = item.updatedAt
        /\ new.startedAt = item.startedAt
        /\ new.completedAt = item.completedAt
    BY <1>a, <1>c DEF Assignment
  <1>1. new \in Assignment
    BY <1>a, <1>b, <1>c DEF Assignment
  <1>2. ClaimStateOK(new)
    BY <1>a, <1>b, <1>d DEF RecordOK, ClaimStateOK, Claim, Time
  <1>3. StampsOK(new, given)
    BY <1>d DEF RecordOK, StampsOK
  <1>4. RefsOwned(new)
    BY <1>b, <1>d DEF RecordOK, RefsOwned
  <1>5. FenceOf(new) = FenceOf(item)
    BY <1>b, <1>d DEF FenceOf
  <1> QED
    BY <1>1, <1>2, <1>3, <1>4, <1>5, <1>b, <1>d DEF RecordOK, new

-----------------------------------------------------------------------------
(* Steps.  Every operation that stores a record has one of four effects.   *)

\* A heartbeat: nothing but a later expiry.
Renewed(old, new) ==
    /\ old.status = "claimed"
    /\ old.claim # NoClaim
    /\ FenceOf(new) = FenceOf(old)
    /\ new = [old EXCEPT !.claim.expiresAt = new.claim.expiresAt]
    /\ new.claim.expiresAt >= old.claim.expiresAt

\* Edited or prepared; reserved; requeued; started or closed.
Revised(old, new) ==
    /\ new.updatedAt > old.updatedAt
    /\ \/ /\ old.status \in {"queued", "claimed"}
          /\ new.status = old.status
          /\ FenceOf(new) = FenceOf(old)
          /\ issued' = issued
       \/ /\ old.status = "queued"
          /\ new.status = "claimed"
          /\ \/ FenceOf(new) = NoClaim /\ issued' = issued
             \/ FenceOf(new) \in ClaimIds \ issued /\ issued' = issued \cup {FenceOf(new)}
       \/ /\ old.status = "claimed"
          /\ new.status = "queued"
          /\ issued' = issued
       \/ /\ old.status \notin Terminal
          /\ Advanced(old, new)
          /\ issued' = issued

RecordsOK == \A a \in Assignments : Present(a) => RecordOK(assignments[a], supplied[a])

\* The operations that touch a alone: it was ...
Effect(a) ==
    /\ \A b \in Assignments \ {a} :
          /\ assignments'[b] = assignments[b]
          /\ starters'[b] = starters[b]
          /\ supplied'[b] = supplied[b]
    /\ \/ /\ ~Present(a)                                             \* created
          /\ RecordOK(assignments'[a], supplied'[a])
          /\ assignments'[a].status = "queued"
          /\ starters'[a] = {}
          /\ snapshots' = snapshots
          /\ issued' = issued
       \/ /\ Present(a)                                              \* deleted
          /\ assignments'[a] = Absent
          /\ starters'[a] = {}
          /\ snapshots' = Aged(a, "gone")
          /\ issued' = issued
       \/ /\ Present(a)                                              \* renewed
          /\ RecordOK(assignments'[a], supplied'[a])
          /\ Renewed(assignments[a], assignments'[a])
          /\ starters'[a] = starters[a]
          /\ snapshots' = snapshots
          /\ issued' = issued
       \/ /\ Present(a)                                              \* revised
          /\ RecordOK(assignments'[a], supplied'[a])
          /\ Revised(assignments[a], assignments'[a])
          /\ snapshots' = Aged(a, "overtaken")
          /\ \/ starters'[a] = starters[a]
             \/ /\ Advanced(assignments[a], assignments'[a])
                /\ FenceOf(assignments[a]) \in ClaimIds
                /\ starters'[a] = starters[a] \cup {FenceOf(assignments[a])}

\* The variables an Effect leaves in their types.
Retyped ==
    /\ assignments' \in [Assignments -> Assignment \cup {Absent}]
    /\ starters' \in [Assignments -> SUBSET ClaimIds]
    /\ supplied' \in [Assignments -> SUBSET TimeFields]
    /\ now' = now

\* Shared typing facts of a stored record.
LEMMA StoredRecord ==
    ASSUME TypeOK, RecordsOK, NEW a \in Assignments, Present(a)
    PROVE  /\ RecordOK(assignments[a], supplied[a])
           /\ assignments[a] \in Assignment
           /\ assignments[a].claim \in Claim \cup {NoClaim}
           /\ assignments[a].updatedAt \in Nat
           /\ now \in Nat \ {0}
  BY LifecycleAssumption DEF TypeOK, RecordsOK, RecordOK, Assignment, Present, Time

\* A write that keeps the record well formed and revises it.
LEMMA RevisionEffect ==
    ASSUME TypeOK, NEW a \in Assignments, Present(a),
           NEW new, NEW given, RecordOK(new, given), Revised(assignments[a], new), Write(a, new),
           now' = now,
           \/ given = supplied[a] /\ supplied' = supplied
           \/ given = {} /\ supplied' = [supplied EXCEPT ![a] = {}],
           \/ starters' = starters
           \/ /\ Advanced(assignments[a], new)
              /\ FenceOf(assignments[a]) \in ClaimIds
              /\ starters' = [starters EXCEPT ![a] = @ \cup {FenceOf(assignments[a])}]
    PROVE  Effect(a) /\ Retyped
  <1>1. /\ assignments' = [assignments EXCEPT ![a] = new]
        /\ snapshots' = Aged(a, "overtaken")
    BY DEF Write
  <1>2. assignments'[a] = new /\ \A b \in Assignments \ {a} : assignments'[b] = assignments[b]
    BY <1>1 DEF TypeOK
  <1>3. /\ \A b \in Assignments \ {a} : starters'[b] = starters[b]
        /\ \/ starters'[a] = starters[a]
           \/ /\ Advanced(assignments[a], new)
              /\ FenceOf(assignments[a]) \in ClaimIds
              /\ starters'[a] = starters[a] \cup {FenceOf(assignments[a])}
    BY DEF TypeOK
  <1>4. /\ supplied'[a] = given
        /\ \A b \in Assignments \ {a} : supplied'[b] = supplied[b]
        /\ supplied' \in [Assignments -> SUBSET TimeFields]
    BY DEF TypeOK
  <1>5. Effect(a)
    BY <1>1, <1>2, <1>3, <1>4 DEF Effect
  <1>6. Retyped
    <2>1. new \in Assignment
      BY DEF RecordOK
    <2>2. assignments' \in [Assignments -> Assignment \cup {Absent}]
      BY <1>1, <2>1 DEF TypeOK
    <2>3. starters' \in [Assignments -> SUBSET ClaimIds]
      BY DEF TypeOK
    <2> QED
      BY <1>4, <2>2, <2>3 DEF Retyped
  <1> QED
    BY <1>5, <1>6

\* A requeue, by its worker, the operator or the host, revises the record.
LEMMA RequeueEffect ==
    ASSUME TypeOK, RecordsOK, NEW a \in Assignments, Present(a),
           assignments[a].status = "claimed",
           NEW stamp \in Nat, stamp > assignments[a].updatedAt,
           Write(a, Requeued(assignments[a], stamp)),
           supplied' = [supplied EXCEPT ![a] = {}], UNCHANGED <<now, issued, starters>>
    PROVE  Effect(a) /\ Retyped
  <1> DEFINE new == Requeued(assignments[a], stamp)
  <1>1. assignments[a] \in Assignment
    BY StoredRecord
  <1>2. RecordOK(new, {})
    BY <1>1, RequeuedOK
  <1>3. new.updatedAt = stamp /\ new.status = "queued"
    BY <1>1 DEF Requeued, Assignment
  <1>4. Write(a, new)
    OBVIOUS
  <1> HIDE DEF new
  <1>5. Revised(assignments[a], new)
    BY <1>3 DEF Revised
  <1> QED
    BY <1>2, <1>4, <1>5, RevisionEffect

\* The stamps of the operations are later than the revision they replace.
LEMMA StampAdvances ==
    ASSUME TypeOK, RecordsOK, NEW a \in Assignments, Present(a)
    PROVE  /\ TransitionTime(assignments[a], now) \in Nat
           /\ TransitionTime(assignments[a], now) > assignments[a].updatedAt
           /\ TransitionTime(assignments[a], now) >= assignments[a].startedAt
           /\ TransitionTime([assignments[a] EXCEPT !.startedAt = 0], now) \in Nat
           /\ TransitionTime([assignments[a] EXCEPT !.startedAt = 0], now) > assignments[a].updatedAt
  <1> DEFINE reset == [assignments[a] EXCEPT !.startedAt = 0]
  <1>1. assignments[a] \in Assignment /\ now \in Nat
    BY StoredRecord
  <1>2. reset \in Assignment /\ reset.updatedAt = assignments[a].updatedAt
    BY <1>1 DEF Assignment, Time
  <1> HIDE DEF reset
  <1> QED
    BY <1>1, <1>2, TransitionTimeAdvances DEF reset
\* Every operation on an assignment has an effect of the list.
LEMMA CreateEffect ==
    ASSUME TypeOK, NEW a \in Assignments, NEW coordination \in Coordinations,
           NEW stamp \in 1..MaxStamp, NEW started \in HostTimes, NEW completed \in HostTimes,
           NEW ref \in {NoRef, HostRef}, NEW ctx \in {NoRef, HostRef},
           CreateAssignment(a, coordination, stamp, started, completed, ref, ctx)
    PROVE  Effect(a) /\ Retyped
  <1> DEFINE new == [status |-> "queued", claimedBy |-> NoWorker, claim |-> NoClaim,
            coordination |-> coordination, executionRef |-> ref, contextSnapshot |-> ctx,
            updatedAt |-> stamp, startedAt |-> started, completedAt |-> completed]
             given == {field \in TimeFields : new[field] # 0}
  <1>1. RecordOK(new, given)
    <2>1. stamp \in Nat /\ started \in Nat /\ completed \in Nat
      BY LifecycleAssumption
    <2> QED
      BY <2>1, CreatedOK
  <1>2. new.status = "queued"
    OBVIOUS
  <1>3. /\ ~Present(a)
        /\ assignments' = [assignments EXCEPT ![a] = new]
        /\ starters' = [starters EXCEPT ![a] = {}]
        /\ supplied' = [supplied EXCEPT ![a] = {field \in TimeFields : assignments'[a][field] # 0}]
        /\ UNCHANGED <<now, issued, snapshots>>
    BY DEF CreateAssignment
  <1> HIDE DEF new
  <1>4. assignments'[a] = new
    BY <1>3 DEF TypeOK
  <1>5. supplied' = [supplied EXCEPT ![a] = given] /\ given \subseteq TimeFields
    BY <1>3, <1>4
  <1> HIDE DEF given
  <1>6. /\ starters'[a] = {} /\ supplied'[a] = given
        /\ \A b \in Assignments \ {a} :
              /\ assignments'[b] = assignments[b]
              /\ starters'[b] = starters[b]
              /\ supplied'[b] = supplied[b]
    BY <1>3, <1>5 DEF TypeOK
  <1>7. Retyped
    BY <1>1, <1>3, <1>5 DEF TypeOK, Retyped, RecordOK
  <1> QED
    BY <1>1, <1>2, <1>3, <1>4, <1>6, <1>7 DEF Effect

LEMMA EditEffect ==
    ASSUME TypeOK, RecordsOK, NEW e \in Editors, NEW replacement \in Coordinations,
           UpdateQueuedAssignment(e, replacement)
    PROVE  \E a \in Assignments : Effect(a) /\ Retyped
  <1> DEFINE a == snapshots[e].assignment
             stamp == TransitionTime(assignments[a], now)
             new == Edited(assignments[a], replacement, stamp)
  <1>1. a \in Assignments
    BY DEF UpdateQueuedAssignment, TypeOK, Snapshot
  <1>2. /\ Present(a)
        /\ assignments[a].status = "queued"
        /\ Write(a, new)
        /\ UNCHANGED <<now, issued, starters, supplied>>
    BY DEF UpdateQueuedAssignment, QueuedSnapshotMatches, BoundedWrite, Edited
  <1> HIDE DEF a
  <1>3. stamp \in Nat /\ stamp > assignments[a].updatedAt
    BY <1>1, <1>2, StampAdvances
  <1>4. RecordOK(assignments[a], supplied[a])
    BY <1>1, <1>2, StoredRecord
  <1> HIDE DEF stamp
  <1>5. /\ RecordOK(new, supplied[a])
        /\ new.updatedAt = stamp
        /\ new.status = "queued"
        /\ FenceOf(new) = FenceOf(assignments[a])
    BY <1>2, <1>3, <1>4, EditedOK
  <1> HIDE DEF new
  <1>6. Revised(assignments[a], new)
    BY <1>2, <1>3, <1>5 DEF Revised
  <1> QED
    BY <1>1, <1>2, <1>5, <1>6, RevisionEffect

LEMMA LeaseEffect ==
    ASSUME TypeOK, RecordsOK, NEW a \in Assignments, NEW w \in Workers, NEW c \in ClaimIds,
           ClaimAssignmentWithLease(a, w, c)
    PROVE  Effect(a) /\ Retyped
  <1> DEFINE stamp == TransitionTime(assignments[a], now)
             claim == [id |-> c, acquiredAt |-> now, expiresAt |-> now + LeaseTTL]
             new == Reserved(assignments[a], w, claim, stamp)
  <1>1. /\ Present(a)
        /\ assignments[a].status = "queued"
        /\ c \notin issued
        /\ Write(a, new)
        /\ issued' = issued \cup {c}
        /\ UNCHANGED <<now, starters, supplied>>
    BY DEF ClaimAssignmentWithLease, BoundedWrite, Reserved
  <1>2. stamp \in Nat /\ stamp > assignments[a].updatedAt /\ stamp >= assignments[a].startedAt
    BY <1>1, StampAdvances
  <1>3. RecordOK(assignments[a], supplied[a]) /\ now \in Nat \ {0}
    BY <1>1, StoredRecord
  <1>4. /\ claim \in Claim /\ claim.id = c
        /\ claim # NoClaim
        /\ claim.acquiredAt # 0 /\ claim.expiresAt > claim.acquiredAt
    BY <1>3, LifecycleAssumption, SentinelAssumption DEF Claim, Time
  <1> HIDE DEF stamp, claim
  <1>5. RecordOK(new, supplied[a]) /\ new.updatedAt = stamp /\ new.status = "claimed" /\ new.claim = claim
    BY <1>1, <1>2, <1>3, <1>4, ReservedOK
  <1>6. FenceOf(new) = c
    BY <1>4, <1>5 DEF FenceOf
  <1> HIDE DEF new
  <1>7. Revised(assignments[a], new)
    BY <1>1, <1>2, <1>5, <1>6 DEF Revised
  <1> QED
    BY <1>1, <1>5, <1>7, RevisionEffect

LEMMA HostClaimEffect ==
    ASSUME TypeOK, RecordsOK, NEW a \in Assignments, NEW w \in Workers, ClaimAssignment(a, w)
    PROVE  Effect(a) /\ Retyped
  <1> DEFINE stamp == TransitionTime(assignments[a], now)
             new == Reserved(assignments[a], w, NoClaim, stamp)
  <1>1. /\ Present(a)
        /\ assignments[a].status = "queued"
        /\ Write(a, new)
        /\ UNCHANGED <<now, issued, starters, supplied>>
    BY DEF ClaimAssignment, BoundedWrite, Reserved
  <1>2. stamp \in Nat /\ stamp > assignments[a].updatedAt /\ stamp >= assignments[a].startedAt
    BY <1>1, StampAdvances
  <1>3. RecordOK(assignments[a], supplied[a])
    BY <1>1, StoredRecord
  <1> HIDE DEF stamp
  <1>4. RecordOK(new, supplied[a]) /\ new.updatedAt = stamp /\ new.status = "claimed" /\ new.claim = NoClaim
    BY <1>1, <1>2, <1>3, ReservedOK
  <1>5. FenceOf(new) = NoClaim
    BY <1>4 DEF FenceOf
  <1> HIDE DEF new
  <1>6. Revised(assignments[a], new)
    BY <1>1, <1>2, <1>4, <1>5 DEF Revised
  <1> QED
    BY <1>1, <1>4, <1>6, RevisionEffect

LEMMA RenewEffect ==
    ASSUME TypeOK, RecordsOK, NEW a \in Assignments, NEW c \in ClaimIds,
           RenewAssignmentClaim(a, c)
    PROVE  Effect(a) /\ Retyped
  <1> DEFINE old == assignments[a]
             expiry == Later(old.claim.expiresAt, now + LeaseTTL)
             new == Extended(old, expiry)
  <1>1. /\ Present(a)
        /\ old.status = "claimed"
        /\ old.claim # NoClaim
        /\ UNCHANGED <<now, issued, snapshots, starters, supplied>>
    BY DEF RenewAssignmentClaim, ClaimAllowsMutation
  <1>2. RecordOK(old, supplied[a]) /\ old \in Assignment /\ old.claim \in Claim /\ now \in Nat
    BY <1>1, StoredRecord
  <1>3. expiry \in Nat /\ expiry >= old.claim.expiresAt
    BY <1>2, LifecycleAssumption DEF Later, Claim, Time
  <1>4. assignments' = [assignments EXCEPT ![a] = new]
    BY <1>2 DEF RenewAssignmentClaim, TypeOK, Extended
  <1> HIDE DEF expiry
  <1>5. RecordOK(new, supplied[a]) /\ new.claim.expiresAt = expiry /\ FenceOf(new) = FenceOf(old)
    <2> HIDE DEF old
    <2> QED
      BY <1>1, <1>2, <1>3, RenewedOK
  <1>6. Renewed(old, new)
    BY <1>1, <1>3, <1>5 DEF Renewed, Extended
  <1> HIDE DEF new, old
  <1>7. assignments'[a] = new /\ \A b \in Assignments \ {a} : assignments'[b] = assignments[b]
    BY <1>4 DEF TypeOK
  <1>8. Retyped
    BY <1>1, <1>4, <1>5 DEF TypeOK, Retyped, RecordOK
  <1> QED
    BY <1>1, <1>5, <1>6, <1>7, <1>8 DEF Effect, old

LEMMA PrepareEffect ==
    ASSUME TypeOK, RecordsOK, NEW a \in Assignments, Present(a), NEW ref \in RefSource,
           NEW ctx \in RefSource, assignments[a].status = "claimed",
           \A source \in {ref, ctx} : source \in ClaimIds =>
               assignments[a].claim # NoClaim /\ assignments[a].claim.id = source,
           BoundedWrite(a, Prepared(assignments[a], ref, ctx, TransitionTime(assignments[a], now))),
           UNCHANGED <<now, issued, starters, supplied>>
    PROVE  Effect(a) /\ Retyped
  <1> DEFINE stamp == TransitionTime(assignments[a], now)
             new == Prepared(assignments[a], ref, ctx, stamp)
  <1>1. stamp \in Nat /\ stamp > assignments[a].updatedAt
    BY StampAdvances
  <1>2. RecordOK(assignments[a], supplied[a])
    BY StoredRecord
  <1>3. Write(a, new)
    BY DEF BoundedWrite
  <1> HIDE DEF stamp
  <1>4. /\ RecordOK(new, supplied[a])
        /\ new.updatedAt = stamp
        /\ new.status = "claimed"
        /\ FenceOf(new) = FenceOf(assignments[a])
    BY <1>1, <1>2, PreparedOK
  <1> HIDE DEF new
  <1>5. Revised(assignments[a], new)
    BY <1>1, <1>4 DEF Revised
  <1> QED
    BY <1>3, <1>4, <1>5, RevisionEffect

\* Progress and completion: the worker's set starters, the host's do not.
LEMMA AdvanceEffect ==
    ASSUME TypeOK, RecordsOK, NEW a \in Assignments, Present(a),
           assignments[a].status \notin Terminal,
           NEW new, RecordOK(new, supplied[a]), Advanced(assignments[a], new), BoundedWrite(a, new),
           UNCHANGED <<now, issued, supplied>>,
           \/ starters' = starters
           \/ \E c \in ClaimIds :
                 /\ assignments[a].claim # NoClaim /\ assignments[a].claim.id = c
                 /\ starters' = [starters EXCEPT ![a] = @ \cup {c}]
    PROVE  Effect(a) /\ Retyped
  <1>1. Write(a, new)
    BY DEF BoundedWrite
  <1>2. Revised(assignments[a], new)
    BY DEF Revised, Advanced
  <1>3. \/ starters' = starters
        \/ /\ FenceOf(assignments[a]) \in ClaimIds
           /\ starters' = [starters EXCEPT ![a] = @ \cup {FenceOf(assignments[a])}]
    BY DEF FenceOf
  <1> QED
    BY <1>1, <1>2, <1>3, RevisionEffect

LEMMA DeleteEffect ==
    ASSUME TypeOK, NEW a \in Assignments, DeleteAssignment(a)
    PROVE  Effect(a) /\ Retyped
  <1>1. /\ Present(a)
        /\ assignments' = [assignments EXCEPT ![a] = Absent]
        /\ starters' = [starters EXCEPT ![a] = {}]
        /\ supplied' = [supplied EXCEPT ![a] = {}]
        /\ snapshots' = Aged(a, "gone")
        /\ UNCHANGED <<now, issued>>
    BY DEF DeleteAssignment
  <1>2. /\ assignments'[a] = Absent /\ starters'[a] = {}
        /\ \A b \in Assignments \ {a} :
              /\ assignments'[b] = assignments[b]
              /\ starters'[b] = starters[b]
              /\ supplied'[b] = supplied[b]
    BY <1>1 DEF TypeOK
  <1>3. Retyped
    BY <1>1 DEF TypeOK, Retyped
  <1> QED
    BY <1>1, <1>2, <1>3 DEF Effect
LEMMA WorkerStepEffect ==
    ASSUME TypeOK, RecordsOK, NEW a \in Assignments, WorkerStep(a)
    PROVE  Effect(a) /\ Retyped
  <1> PICK c \in ClaimIds :
        \/ \E w \in Workers : ClaimAssignmentWithLease(a, w, c)
        \/ RenewAssignmentClaim(a, c)
        \/ RecoverAssignmentClaim(a, c)
        \/ \E ref, ctx \in {NoRef, c} : PrepareAssignmentWithClaim(a, c, ref, ctx)
        \/ ReleaseAssignmentWithClaim(a, c)
        \/ \E status \in Progress, ref \in {NoRef, c} :
               UpdateAssignmentStatusWithClaim(a, c, status, ref)
        \/ \E status \in Completion, ref \in {NoRef, c} :
               CompleteAssignmentWithClaim(a, c, status, ref)
    BY DEF WorkerStep
  <1>a. \A ref \in {NoRef, c} : ref \in RefSource /\ (ref \in ClaimIds => ref = c)
    BY LifecycleAssumption DEF RefSource
  <1>1. ASSUME NEW w \in Workers, ClaimAssignmentWithLease(a, w, c)
        PROVE  Effect(a) /\ Retyped
    BY <1>1, LeaseEffect
  <1>2. CASE RenewAssignmentClaim(a, c)
    BY <1>2, RenewEffect
  <1>3. CASE RecoverAssignmentClaim(a, c)
    BY <1>3, StampAdvances, RequeueEffect DEF RecoverAssignmentClaim, ClaimRecoverable
  <1>4. ASSUME NEW ref \in {NoRef, c}, NEW ctx \in {NoRef, c},
               PrepareAssignmentWithClaim(a, c, ref, ctx)
        PROVE  Effect(a) /\ Retyped
    BY <1>4, <1>a, PrepareEffect DEF PrepareAssignmentWithClaim, ClaimAllowsMutation
  <1>5. CASE ReleaseAssignmentWithClaim(a, c)
    BY <1>5, StampAdvances, RequeueEffect DEF ReleaseAssignmentWithClaim, BoundedWrite
  <1>6. ASSUME NEW status \in Progress, NEW ref \in {NoRef, c},
               UpdateAssignmentStatusWithClaim(a, c, status, ref)
        PROVE  Effect(a) /\ Retyped
    <2> DEFINE new == Progressed(assignments[a], status, ref, now)
    <2>1. /\ Present(a)
          /\ assignments[a].status \notin {"queued"} \cup Terminal
          /\ assignments[a].claim # NoClaim /\ assignments[a].claim.id = c
          /\ BoundedWrite(a, new)
          /\ starters' = [starters EXCEPT ![a] = @ \cup {c}]
          /\ UNCHANGED <<now, issued, supplied>>
      BY <1>6 DEF UpdateAssignmentStatusWithClaim, ClaimAllowsMutation
    <2>2. RecordOK(new, supplied[a]) /\ Advanced(assignments[a], new)
      BY <1>a, <2>1, StoredRecord, ProgressedOK
    <2> HIDE DEF new
    <2> QED
      BY <2>1, <2>2, AdvanceEffect
  <1>7. ASSUME NEW status \in Completion, NEW ref \in {NoRef, c},
               CompleteAssignmentWithClaim(a, c, status, ref)
        PROVE  Effect(a) /\ Retyped
    <2> DEFINE new == Completed(assignments[a], status, ref, now)
    <2>1. /\ Present(a)
          /\ assignments[a].status \notin {"queued"} \cup Terminal
          /\ assignments[a].claim # NoClaim /\ assignments[a].claim.id = c
          /\ BoundedWrite(a, new)
          /\ starters' = [starters EXCEPT ![a] = @ \cup {c}]
          /\ UNCHANGED <<now, issued, supplied>>
      BY <1>7 DEF CompleteAssignmentWithClaim, ClaimAllowsMutation
    <2>2. RecordOK(new, supplied[a]) /\ Advanced(assignments[a], new)
      BY <1>a, <2>1, StoredRecord, CompletedOK
    <2> HIDE DEF new
    <2> QED
      BY <2>1, <2>2, AdvanceEffect
  <1> QED
    BY <1>1, <1>2, <1>3, <1>4, <1>5, <1>6, <1>7

LEMMA HostStepEffect ==
    ASSUME TypeOK, RecordsOK, NEW a \in Assignments, HostStep(a)
    PROVE  Effect(a) /\ Retyped
  <1>a. \A ref \in {NoRef, HostRef} : ref \in RefSource /\ ref \notin ClaimIds
    BY LifecycleAssumption DEF RefSource
  <1>1. ASSUME NEW coordination \in Coordinations, NEW stamp \in 1..MaxStamp,
               NEW started \in HostTimes, NEW completed \in HostTimes,
               NEW ref \in {NoRef, HostRef}, NEW ctx \in {NoRef, HostRef},
               CreateAssignment(a, coordination, stamp, started, completed, ref, ctx)
        PROVE  Effect(a) /\ Retyped
    BY <1>1, CreateEffect
  <1>2. ASSUME NEW w \in Workers, ClaimAssignment(a, w)
        PROVE  Effect(a) /\ Retyped
    BY <1>2, HostClaimEffect
  <1>3. ASSUME NEW w \in Workers, NEW ref \in {NoRef, HostRef}, NEW ctx \in {NoRef, HostRef},
               PrepareAssignment(a, w, ref, ctx)
        PROVE  Effect(a) /\ Retyped
    BY <1>3, <1>a, PrepareEffect DEF PrepareAssignment
  <1>4. ASSUME NEW w \in Workers, ReleaseAssignment(a, w)
        PROVE  Effect(a) /\ Retyped
    BY <1>4, StampAdvances, RequeueEffect DEF ReleaseAssignment, BoundedWrite
  <1>5. ASSUME NEW status \in Progress, NEW ref \in {NoRef, HostRef},
               UpdateAssignmentStatus(a, status, ref)
        PROVE  Effect(a) /\ Retyped
    <2> DEFINE new == HostProgressed(assignments[a], status, ref, now)
    <2>1. /\ Present(a)
          /\ assignments[a].status \notin {"queued"} \cup Terminal
          /\ BoundedWrite(a, new)
          /\ UNCHANGED <<now, issued, starters, supplied>>
      BY <1>5 DEF UpdateAssignmentStatus
    <2>2. RecordOK(new, supplied[a]) /\ Advanced(assignments[a], new)
      BY <1>a, <2>1, StoredRecord, HostProgressedOK
    <2> HIDE DEF new
    <2> QED
      BY <2>1, <2>2, AdvanceEffect
  <1>6. ASSUME NEW status \in Completion, NEW ref \in {NoRef, HostRef},
               CompleteAssignment(a, status, ref)
        PROVE  Effect(a) /\ Retyped
    <2> DEFINE new == Completed(assignments[a], status, ref, now)
    <2>1. /\ Present(a)
          /\ assignments[a].status \notin Terminal
          /\ BoundedWrite(a, new)
          /\ UNCHANGED <<now, issued, starters, supplied>>
      BY <1>6 DEF CompleteAssignment
    <2>2. RecordOK(new, supplied[a]) /\ Advanced(assignments[a], new)
      BY <1>a, <2>1, StoredRecord, CompletedOK
    <2> HIDE DEF new
    <2> QED
      BY <2>1, <2>2, AdvanceEffect
  <1>7. CASE DeleteAssignment(a)
    BY <1>7, DeleteEffect
  <1> QED
    BY <1>1, <1>2, <1>3, <1>4, <1>5, <1>6, <1>7 DEF HostStep

\* A client reads, or the clock moves.
Idle == UNCHANGED <<assignments, issued, starters, supplied>>

\* The whole next-state relation in terms of effects.
LEMMA StepEffect ==
    ASSUME TypeOK, RecordsOK, Next
    PROVE  \/ \E a \in Assignments : Effect(a) /\ Retyped
           \/ Idle /\ now' = now /\ \E e \in Editors, a \in Assignments : ReadForEdit(e, a)
           \/ Idle /\ UNCHANGED snapshots /\ (Tick \/ StepBack)
  <1>1. ASSUME NEW a \in Assignments, WorkerStep(a) \/ HostStep(a)
        PROVE  Effect(a) /\ Retyped
    BY <1>1, WorkerStepEffect, HostStepEffect
  <1>2. ASSUME NEW e \in Editors, NEW a \in Assignments, ReadForEdit(e, a)
        PROVE  Idle /\ now' = now
    BY <1>2 DEF ReadForEdit, Idle
  <1>3. ASSUME NEW e \in Editors, NEW replacement \in Coordinations,
               UpdateQueuedAssignment(e, replacement)
        PROVE  \E a \in Assignments : Effect(a) /\ Retyped
    BY <1>3, EditEffect
  <1>4. CASE Tick \/ StepBack
    BY <1>4 DEF Tick, StepBack, Idle
  <1> QED
    BY <1>1, <1>2, <1>3, <1>4 DEF Next, EditorStep
-----------------------------------------------------------------------------
(* The inductive invariant.                                                *)

\* A snapshot is never ahead of a record that has not been deleted since it was
\* read, and behind it as soon as anything was written: revisions only grow.
SnapshotsOK ==
    \A e \in Editors :
        (snapshots[e] # NoSnapshot /\ snapshots[e].age # "gone") =>
            LET a == snapshots[e].assignment IN
            /\ Present(a)
            /\ snapshots[e].updatedAt <= assignments[a].updatedAt
            /\ snapshots[e].age = "overtaken" => snapshots[e].updatedAt < assignments[a].updatedAt

IInv == TypeOK /\ RecordsOK /\ SingleStarter /\ SnapshotsOK

\* Ageing keeps what was read and where.
LEMMA AgedSnapshots ==
    ASSUME TypeOK, NEW a \in Assignments, NEW age \in {"overtaken", "gone"},
           snapshots' = Aged(a, age), NEW e \in Editors
    PROVE  /\ snapshots' \in [Editors -> Snapshot \cup {NoSnapshot}]
           /\ snapshots'[e] = NoSnapshot <=> snapshots[e] = NoSnapshot
           /\ snapshots[e] # NoSnapshot =>
                 /\ snapshots'[e].assignment = snapshots[e].assignment
                 /\ snapshots'[e].updatedAt = snapshots[e].updatedAt
                 /\ snapshots'[e].age = IF snapshots[e].assignment = a /\ snapshots[e].age # "gone"
                                        THEN age ELSE snapshots[e].age
  <1>1. ASSUME NEW s \in Snapshot
        PROVE  /\ [s EXCEPT !.age = age] \in Snapshot
               /\ [s EXCEPT !.age = age].assignment = s.assignment
               /\ [s EXCEPT !.age = age].updatedAt = s.updatedAt
               /\ [s EXCEPT !.age = age].age = age
    BY DEF Snapshot
  <1>2. \A f \in Editors : snapshots[f] \in Snapshot \cup {NoSnapshot}
    BY DEF TypeOK
  <1>3. \A s \in Snapshot : s # NoSnapshot
    BY SentinelAssumption
  <1>4. snapshots' = [f \in Editors |->
            IF snapshots[f] # NoSnapshot /\ snapshots[f].assignment = a /\ snapshots[f].age # "gone"
            THEN [snapshots[f] EXCEPT !.age = age] ELSE snapshots[f]]
    BY DEF Aged
  <1>5. snapshots' \in [Editors -> Snapshot \cup {NoSnapshot}]
    BY <1>1, <1>2, <1>4
  <1>6. CASE snapshots[e] # NoSnapshot /\ snapshots[e].assignment = a /\ snapshots[e].age # "gone"
    <2>1. snapshots'[e] = [snapshots[e] EXCEPT !.age = age]
      BY <1>4, <1>6
    <2> QED
      BY <1>1, <1>2, <1>3, <1>5, <1>6, <2>1
  <1>7. CASE ~(snapshots[e] # NoSnapshot /\ snapshots[e].assignment = a /\ snapshots[e].age # "gone")
    <2>1. snapshots'[e] = snapshots[e]
      BY <1>4, <1>7
    <2> QED
      BY <1>5, <1>7, <2>1
  <1> QED
    BY <1>6, <1>7

LEMMA InitInvariant == Init => IInv
  <1> SUFFICES ASSUME Init PROVE IInv
    OBVIOUS
  <1>1. TypeOK
    BY LifecycleAssumption DEF Init, TypeOK
  <1>2. RecordsOK /\ SingleStarter /\ SnapshotsOK
    BY DEF Init, RecordsOK, SingleStarter, SnapshotsOK, Present
  <1> QED
    BY <1>1, <1>2 DEF IInv

\* Whatever an operation does, the record it leaves is well formed.
LEMMA EffectRecords ==
    ASSUME IInv, NEW a \in Assignments, Effect(a), Retyped
    PROVE  /\ RecordsOK'
           /\ Present(a)' => assignments'[a] \in Assignment
  <1>1. ASSUME NEW b \in Assignments, assignments'[b] # Absent
        PROVE  RecordOK(assignments'[b], supplied'[b])
    <2>1. CASE b = a
      BY <1>1, <2>1 DEF Effect
    <2>2. CASE b # a
      <3>1. assignments'[b] = assignments[b] /\ supplied'[b] = supplied[b]
        BY <2>2 DEF Effect
      <3> QED
        BY <1>1, <3>1 DEF IInv, RecordsOK, Present
    <2> QED
      BY <2>1, <2>2
  <1> QED
    BY <1>1 DEF RecordsOK, Present, RecordOK

\* TypeOK.
LEMMA EffectTypes ==
    ASSUME IInv, NEW a \in Assignments, Effect(a), Retyped
    PROVE  TypeOK'
  <1>1. issued' \subseteq ClaimIds
    BY DEF Effect, Revised, IInv, TypeOK
  <1>2. snapshots' \in [Editors -> Snapshot \cup {NoSnapshot}]
    <2>1. CASE snapshots' = snapshots
      BY <2>1 DEF IInv, TypeOK
    <2>2. ASSUME NEW age \in {"overtaken", "gone"}, snapshots' = Aged(a, age)
          PROVE  snapshots' \in [Editors -> Snapshot \cup {NoSnapshot}]
      <3>1. CASE Editors = {}
        BY <2>2, <3>1 DEF Aged
      <3>2. ASSUME NEW e \in Editors
            PROVE  snapshots' \in [Editors -> Snapshot \cup {NoSnapshot}]
        BY <2>2, AgedSnapshots DEF IInv
      <3> QED
        BY <3>1, <3>2
    <2> QED
      BY <2>1, <2>2 DEF Effect
  <1> QED
    BY <1>1, <1>2 DEF Retyped, IInv, TypeOK

\* SingleStarter: only the holder of the fence is added to the starters, and no
\* effect requeues a record that has one or changes its fence.
LEMMA EffectStarters ==
    ASSUME IInv, NEW a \in Assignments, Effect(a), Retyped
    PROVE  SingleStarter'
  <1> SUFFICES ASSUME NEW b \in Assignments, NEW c \in starters'[b]
               PROVE  /\ assignments'[b] # Absent
                      /\ assignments'[b].claim # NoClaim
                      /\ assignments'[b].claim.id = c
                      /\ assignments'[b].status \notin {"queued", "claimed"}
    BY DEF SingleStarter, Present
  <1>a. NoClaim \notin ClaimIds /\ Absent \notin Assignment
    BY SentinelAssumption
  <1>b. c \in ClaimIds
    BY DEF Retyped
  <1>1. CASE b # a
    <2>1. assignments'[b] = assignments[b] /\ starters'[b] = starters[b]
      BY <1>1 DEF Effect
    <2> QED
      BY <2>1 DEF IInv, SingleStarter, Present
  <1>2. CASE b = a /\ c \in starters[a] /\ starters'[a] # {}
    <2>1. /\ Present(a)
          /\ FenceOf(assignments[a]) = c
          /\ assignments[a].claim # NoClaim
          /\ assignments[a].status \notin {"queued", "claimed"}
      BY <1>2 DEF IInv, SingleStarter, FenceOf
    <2>2. assignments'[a] # Absent
      BY <1>2, <1>a, <2>1 DEF Effect, RecordOK
    <2>3. CASE Renewed(assignments[a], assignments'[a])
      <3>1. assignments[a] \in Assignment
        BY <2>1, StoredRecord DEF IInv
      <3>2. assignments'[a].status = assignments[a].status
        BY <2>3, <3>1 DEF Renewed, Assignment
      <3>3. FenceOf(assignments'[a]) = c
        BY <2>1, <2>3 DEF Renewed
      <3> QED
        BY <1>2, <1>a, <1>b, <2>1, <2>2, <3>2, <3>3 DEF FenceOf
    <2>4. CASE Revised(assignments[a], assignments'[a])
      <3>1. Advanced(assignments[a], assignments'[a])
        BY <2>1, <2>4 DEF Revised
      <3> QED
        BY <1>2, <1>a, <1>b, <2>1, <2>2, <3>1 DEF Advanced, FenceOf, Progress, Terminal
    <2> QED
      BY <1>2, <2>1, <2>3, <2>4 DEF Effect
  <1>3. CASE b = a /\ c \notin starters[a]
    <2>1. /\ Advanced(assignments[a], assignments'[a])
          /\ FenceOf(assignments[a]) = c
          /\ RecordOK(assignments'[a], supplied'[a])
      BY <1>3 DEF Effect
    <2> QED
      BY <1>3, <1>a, <1>b, <2>1 DEF Advanced, FenceOf, Progress, Terminal, RecordOK
  <1> QED
    BY <1>1, <1>2, <1>3

\* SnapshotsOK: a write ages every snapshot of its record below the new stamp.
LEMMA EffectSnapshots ==
    ASSUME IInv, NEW a \in Assignments, Effect(a), Retyped
    PROVE  SnapshotsOK'
  <1> SUFFICES ASSUME NEW e \in Editors, snapshots'[e] # NoSnapshot, snapshots'[e].age # "gone"
               PROVE  LET b == snapshots'[e].assignment IN
                      /\ assignments'[b] # Absent
                      /\ snapshots'[e].updatedAt <= assignments'[b].updatedAt
                      /\ snapshots'[e].age = "overtaken" =>
                             snapshots'[e].updatedAt < assignments'[b].updatedAt
    BY DEF SnapshotsOK, Present
  <1> DEFINE b == snapshots[e].assignment
  <1>a. Absent \notin Assignment
    BY SentinelAssumption
  <1>b. /\ snapshots[e] # NoSnapshot
        /\ snapshots'[e].assignment = b
        /\ snapshots'[e].updatedAt = snapshots[e].updatedAt
        /\ \/ snapshots' = snapshots /\ snapshots'[e] = snapshots[e]
           \/ \E age \in {"overtaken", "gone"} :
                 /\ snapshots' = Aged(a, age)
                 /\ snapshots'[e].age = IF b = a /\ snapshots[e].age # "gone"
                                        THEN age ELSE snapshots[e].age
    <2>1. \/ snapshots' = snapshots
          \/ \E age \in {"overtaken", "gone"} : snapshots' = Aged(a, age)
      BY DEF Effect
    <2>2. CASE snapshots' = snapshots
      BY <2>2
    <2>3. ASSUME NEW age \in {"overtaken", "gone"}, snapshots' = Aged(a, age)
          PROVE  /\ snapshots[e] # NoSnapshot
                 /\ snapshots'[e].assignment = b
                 /\ snapshots'[e].updatedAt = snapshots[e].updatedAt
                 /\ snapshots'[e].age = IF b = a /\ snapshots[e].age # "gone"
                                        THEN age ELSE snapshots[e].age
      BY <2>3, AgedSnapshots DEF IInv
    <2> QED
      BY <2>1, <2>2, <2>3
  <1>c. snapshots[e].age # "gone"
    BY <1>b
  <1>d. /\ Present(b)
        /\ snapshots[e].updatedAt <= assignments[b].updatedAt
        /\ snapshots[e].age = "overtaken" => snapshots[e].updatedAt < assignments[b].updatedAt
    BY <1>b, <1>c DEF IInv, SnapshotsOK
  <1>e. snapshots[e] \in Snapshot /\ b \in Assignments /\ snapshots[e].updatedAt \in Nat
    BY <1>b DEF IInv, TypeOK, Snapshot, Time
  <1>f. assignments[b].updatedAt \in Nat
    BY <1>d, <1>e, StoredRecord DEF IInv
  <1> HIDE DEF b
  <1>1. CASE b # a
    <2>1. assignments'[b] = assignments[b] /\ snapshots'[e].age = snapshots[e].age
      BY <1>1, <1>b, <1>e DEF Effect
    <2> QED
      BY <1>b, <1>d, <2>1 DEF Present
  <1>2. CASE b = a
    <2>1. CASE assignments'[a] = Absent /\ snapshots' = Aged(a, "gone")
      <3>1. snapshots'[e].age = "gone"
        BY <1>2, <1>b, <1>c, <2>1, AgedSnapshots DEF IInv, b
      <3> QED
        BY <3>1
    <2>2. CASE Renewed(assignments[a], assignments'[a]) /\ snapshots' = snapshots /\ RecordOK(assignments'[a], supplied'[a])
      <3>1. assignments[a] \in Assignment
        BY <1>2, <1>d, StoredRecord DEF IInv
      <3>2. assignments'[a].updatedAt = assignments[a].updatedAt
        BY <2>2, <3>1 DEF Renewed, Assignment
      <3> QED
        BY <1>2, <1>a, <1>b, <1>d, <2>2, <3>2 DEF RecordOK
    <2>3. CASE Revised(assignments[a], assignments'[a]) /\ RecordOK(assignments'[a], supplied'[a])
      <3>1. assignments'[a].updatedAt \in Nat /\ assignments'[a].updatedAt > assignments[a].updatedAt
        BY <2>3 DEF Revised, RecordOK, Assignment, Time
      <3> QED
        BY <1>2, <1>a, <1>b, <1>d, <1>e, <1>f, <2>3, <3>1 DEF RecordOK
    <2> QED
      BY <1>2, <1>d, <2>1, <2>2, <2>3 DEF Effect
  <1> QED
    BY <1>1, <1>2

\* One step keeps the invariant.
LEMMA InvariantInductive == IInv /\ [Next]_vars => IInv'
  <1> SUFFICES ASSUME IInv, [Next]_vars PROVE IInv'
    OBVIOUS
  <1>1. CASE Next
    <2>1. ASSUME NEW a \in Assignments, Effect(a), Retyped
          PROVE  IInv'
      BY <2>1, EffectTypes, EffectRecords, EffectStarters, EffectSnapshots DEF IInv
    <2>2. ASSUME Idle, now' = now, NEW e \in Editors, NEW a \in Assignments, ReadForEdit(e, a)
          PROVE  IInv'
      <3> DEFINE s == [assignment |-> a, coordination |-> assignments[a].coordination,
                       updatedAt |-> assignments[a].updatedAt, age |-> "current"]
      <3>1. Present(a) /\ snapshots' = [snapshots EXCEPT ![e] = s]
        BY <2>2 DEF ReadForEdit
      <3>2. assignments[a] \in Assignment /\ assignments[a].updatedAt \in Nat
        BY <3>1, StoredRecord DEF IInv
      <3>3. /\ s \in Snapshot
            /\ s.assignment = a /\ s.updatedAt = assignments[a].updatedAt /\ s.age = "current"
        BY <3>2 DEF Snapshot, Assignment, Time
      <3> HIDE DEF s
      <3>4. TypeOK'
        BY <2>2, <3>1, <3>3 DEF IInv, TypeOK, Idle
      <3>5. RecordsOK' /\ SingleStarter'
        BY <2>2 DEF IInv, RecordsOK, SingleStarter, Present, Idle
      <3>6. SnapshotsOK'
        <4> SUFFICES ASSUME NEW f \in Editors, snapshots'[f] # NoSnapshot,
                            snapshots'[f].age # "gone"
                     PROVE  LET b == snapshots'[f].assignment IN
                            /\ assignments[b] # Absent
                            /\ snapshots'[f].updatedAt <= assignments[b].updatedAt
                            /\ snapshots'[f].age = "overtaken" =>
                                   snapshots'[f].updatedAt < assignments[b].updatedAt
          BY <2>2 DEF SnapshotsOK, Present, Idle
        <4>1. CASE f = e
          <5>1. snapshots'[f] = s
            BY <3>1, <4>1 DEF IInv, TypeOK
          <5> QED
            BY <3>1, <3>2, <3>3, <5>1 DEF Present
        <4>2. CASE f # e
          <5>1. snapshots'[f] = snapshots[f]
            BY <3>1, <4>2 DEF IInv, TypeOK
          <5> QED
            BY <5>1 DEF IInv, SnapshotsOK, Present
        <4> QED
          BY <4>1, <4>2
      <3> QED
        BY <3>4, <3>5, <3>6 DEF IInv
    <2>3. ASSUME Idle, UNCHANGED snapshots, Tick \/ StepBack
          PROVE  IInv'
      <3>1. now' \in 1..MaxNow
        BY <2>3, LifecycleAssumption DEF Tick, StepBack, IInv, TypeOK
      <3> QED
        BY <2>3, <3>1 DEF IInv, TypeOK, RecordsOK, SingleStarter, SnapshotsOK, Present, Idle
    <2> QED
      BY <1>1, <2>1, <2>2, <2>3, StepEffect DEF IInv
  <1>2. CASE UNCHANGED vars
    BY <1>2 DEF vars, IInv, TypeOK, RecordsOK, SingleStarter, SnapshotsOK, Present
  <1> QED
    BY <1>1, <1>2

\* IInv holds in every reachable state.
THEOREM Invariant == Spec => []IInv
  BY InitInvariant, InvariantInductive, PTL DEF Spec
\* What RecordsOK says, property by property.
LEMMA RecordsImply ==
    IInv => ClaimStateValid /\ StampsOrdered /\ PreparationOwned
  BY DEF IInv, RecordsOK, RecordOK, ClaimStateValid, StampsOrdered, PreparationOwned

\* A reservation's deadline decides between its worker and the operator.
LEMMA LeasesDecided == IInv => LeaseDecided
  <1> SUFFICES ASSUME IInv, NEW a \in Assignments, Present(a),
                      assignments[a].status = "claimed", assignments[a].claim # NoClaim
               PROVE  LET c == assignments[a].claim.id IN
                      ClaimAllowsMutation(assignments[a], c, now)
                          <=> ~ClaimRecoverable(assignments[a], c, now)
    BY DEF LeaseDecided
  <1>1. assignments[a].claim \in Claim /\ RecordOK(assignments[a], supplied[a]) /\ now \in Nat
    BY StoredRecord DEF IInv
  <1>2. /\ assignments[a].claim.expiresAt \in Nat
        /\ assignments[a].claim.expiresAt > assignments[a].claim.acquiredAt
        /\ assignments[a].claim.acquiredAt \in Nat
    BY <1>1 DEF RecordOK, ClaimStateOK, Claim, Time
  <1> QED
    BY <1>1, <1>2 DEF ClaimAllowsMutation, ClaimRecoverable

\* The records that progress and completion make of a valid one are valid.
LEMMA FenceHoldersAccepted == IInv => FenceHolderNeverRefused
  <1> SUFFICES ASSUME IInv, NEW a \in Assignments, NEW c \in ClaimIds, Present(a),
                      assignments[a].status \notin {"queued"} \cup Terminal
               PROVE  /\ \A status \in Progress :
                             ClaimStateOK(Progressed(assignments[a], status, NoRef, now))
                      /\ \A status \in Completion :
                             ClaimStateOK(Completed(assignments[a], status, NoRef, now))
    BY DEF FenceHolderNeverRefused
  <1>1. RecordOK(assignments[a], supplied[a]) /\ now \in Nat
    BY StoredRecord DEF IInv
  <1>2. NoRef \in RefSource /\ NoRef \notin ClaimIds
    BY LifecycleAssumption DEF RefSource
  <1>3. ASSUME NEW status \in Progress
        PROVE  ClaimStateOK(Progressed(assignments[a], status, NoRef, now))
    <2>1. RecordOK(Progressed(assignments[a], status, NoRef, now), supplied[a])
      BY <1>1, <1>2, ProgressedOK
    <2> QED
      BY <2>1 DEF RecordOK
  <1>4. ASSUME NEW status \in Completion
        PROVE  ClaimStateOK(Completed(assignments[a], status, NoRef, now))
    <2>1. RecordOK(Completed(assignments[a], status, NoRef, now), supplied[a])
      BY <1>1, <1>2, CompletedOK
    <2> QED
      BY <2>1 DEF RecordOK
  <1> QED
    BY <1>3, <1>4

\* An overtaken snapshot carries an older revision than the record.
LEMMA EditsDetected == IInv => NoLostEdit
  <1> SUFFICES ASSUME IInv, NEW e \in Editors, snapshots[e] # NoSnapshot,
                      snapshots[e].age = "overtaken"
               PROVE  ~QueuedSnapshotMatches(assignments[snapshots[e].assignment], snapshots[e])
    BY DEF NoLostEdit
  <1>1. snapshots[e] \in Snapshot /\ snapshots[e].assignment \in Assignments
    BY DEF IInv, TypeOK, Snapshot
  <1>2. /\ Present(snapshots[e].assignment)
        /\ snapshots[e].updatedAt < assignments[snapshots[e].assignment].updatedAt
    BY DEF IInv, SnapshotsOK
  <1>3. snapshots[e].updatedAt \in Nat /\ assignments[snapshots[e].assignment].updatedAt \in Nat
    BY <1>1, <1>2, StoredRecord DEF IInv, Snapshot, Time
  <1> QED
    BY <1>2, <1>3 DEF QueuedSnapshotMatches

-----------------------------------------------------------------------------
(* Theorems: safety.                                                       *)

\* Every variable keeps its type.
THEOREM TypeCorrect == Spec => []TypeOK
  BY Invariant, PTL DEF IInv

\* No operation, the unvalidated ones included, stores a claim/fence
\* combination that ValidateAssignmentClaimState rejects.
THEOREM ClaimsStayValid == Spec => []ClaimStateValid
  BY Invariant, RecordsImply, PTL

\* Lifecycle times stay consistent with the status for every clock.
THEOREM StampsStayOrdered == Spec => []StampsOrdered
  BY Invariant, RecordsImply, PTL

\* References a worker attached are only ever on a record it still fences.
THEOREM PreparationStaysOwned == Spec => []PreparationOwned
  BY Invariant, RecordsImply, PTL

\* At most one claim generation starts or completes an assignment.
THEOREM OneStarter == Spec => []SingleStarter
  BY Invariant, PTL DEF IInv

\* At each instant a reservation is its worker's or the operator's.
THEOREM LeasesAlwaysDecided == Spec => []LeaseDecided
  BY Invariant, LeasesDecided, PTL

\* Validation never refuses a worker that holds the fence.
THEOREM FenceHoldersNeverRefused == Spec => []FenceHolderNeverRefused
  BY Invariant, FenceHoldersAccepted, PTL

\* A compare-and-set edit never overwrites a revision its editor did not see.
THEOREM EditsNeverLost == Spec => []NoLostEdit
  BY Invariant, EditsDetected, PTL

-----------------------------------------------------------------------------
(* Theorems: steps.                                                        *)

\* The step on one record, for the action properties.
LEMMA RecordStep ==
    ASSUME IInv, [Next]_vars, NEW b \in Assignments
    PROVE  \/ assignments'[b] = assignments[b]
           \/ Effect(b) /\ Retyped
  <1>1. CASE Next
    <2>1. ASSUME NEW a \in Assignments, Effect(a), Retyped
          PROVE  assignments'[b] = assignments[b] \/ (Effect(b) /\ Retyped)
      <3>1. CASE a = b
        BY <2>1, <3>1
      <3>2. CASE a # b
        BY <2>1, <3>2 DEF Effect
      <3> QED
        BY <3>1, <3>2
    <2>2. CASE Idle
      BY <2>2 DEF Idle
    <2> QED
      BY <1>1, <2>1, <2>2, StepEffect DEF IInv
  <1>2. CASE UNCHANGED vars
    BY <1>2 DEF vars
  <1> QED
    BY <1>1, <1>2

\* A write that is not a heartbeat moves the revision forward.
THEOREM RevisionsAlwaysAdvance == Spec => RevisionsAdvance
  <1> DEFINE A ==
        \A a \in Assignments :
            (Present(a) /\ Present(a)' /\ assignments'[a] # assignments[a]) =>
                \/ assignments'[a].updatedAt > assignments[a].updatedAt
                \/ /\ Fence(a) # NoClaim
                   /\ assignments'[a].claim.expiresAt > assignments[a].claim.expiresAt
                   /\ assignments'[a] =
                         [assignments[a] EXCEPT !.claim.expiresAt = assignments'[a].claim.expiresAt]
  <1>1. IInv /\ [Next]_vars => A
    <2> SUFFICES ASSUME IInv, [Next]_vars, NEW a \in Assignments,
                        assignments[a] # Absent, assignments'[a] # Absent,
                        assignments'[a] # assignments[a]
                 PROVE  \/ assignments'[a].updatedAt > assignments[a].updatedAt
                        \/ /\ Fence(a) # NoClaim
                           /\ assignments'[a].claim.expiresAt > assignments[a].claim.expiresAt
                           /\ assignments'[a] =
                                 [assignments[a] EXCEPT !.claim.expiresAt = assignments'[a].claim.expiresAt]
      BY DEF Present
    <2>1. Effect(a) /\ Present(a) /\ Retyped
      BY RecordStep DEF Present
    <2>2. CASE Revised(assignments[a], assignments'[a])
      BY <2>2 DEF Revised
    <2>3. CASE Renewed(assignments[a], assignments'[a])
      <3>1. assignments[a] \in Assignment /\ assignments[a].claim \in Claim
        BY <2>1, <2>3, StoredRecord DEF IInv, Renewed
      <3>2. Fence(a) # NoClaim
        BY <2>1, <2>3, <3>1, SentinelAssumption DEF Fence, FenceOf, Claim, Renewed
      <3>3. assignments'[a].claim.expiresAt # assignments[a].claim.expiresAt
        <4> SUFFICES ASSUME assignments'[a].claim.expiresAt = assignments[a].claim.expiresAt
                     PROVE  FALSE
          OBVIOUS
        <4>1. [assignments[a] EXCEPT !.claim.expiresAt = assignments[a].claim.expiresAt] = assignments[a]
          BY <3>1 DEF Assignment, Claim
        <4> QED
          BY <2>3, <4>1 DEF Renewed
      <3>4. assignments'[a].claim \in Claim
        BY <2>1, <3>2, SentinelAssumption, <2>3 DEF Retyped, Assignment, Fence, FenceOf, Renewed
      <3> QED
        BY <2>3, <3>1, <3>2, <3>3, <3>4 DEF Renewed, Claim, Time
    <2> QED
      BY <2>1, <2>2, <2>3 DEF Effect
  <1>2. IInv /\ [Next]_vars => [A]_vars
    BY <1>1
  <1> QED
    BY <1>2, Invariant, PTL DEF Spec, RevisionsAdvance

\* A record's fence changes only to a fresh claim id or to none.
THEOREM FencesNeverReturn == Spec => FenceNeverReturns
  <1> DEFINE A ==
        \A a \in Assignments :
            (Fence(a)' # Fence(a) /\ Fence(a)' # NoClaim) =>
                /\ Fence(a) = NoClaim
                /\ Fence(a)' \notin issued
  <1>1. IInv /\ [Next]_vars => A
    <2> SUFFICES ASSUME IInv, [Next]_vars, NEW a \in Assignments,
                        Fence(a)' # Fence(a), Fence(a)' # NoClaim
                 PROVE  Fence(a) = NoClaim /\ Fence(a)' \notin issued
      OBVIOUS
    <2>1. Effect(a) /\ Retyped
      BY RecordStep DEF Fence, Present
    <2>2. assignments'[a] # Absent /\ Fence(a)' = FenceOf(assignments'[a])
      BY DEF Fence, Present, FenceOf
    <2>3. ASSUME NEW item, NEW given, RecordOK(item, given), item.status = "queued"
          PROVE  FenceOf(item) = NoClaim
      BY <2>3 DEF RecordOK, ClaimStateOK, FenceOf
    <2>4. Present(a) => RecordOK(assignments[a], supplied[a]) /\ Fence(a) = FenceOf(assignments[a])
      BY DEF IInv, RecordsOK, Fence
    <2>5. CASE ~Present(a)
      BY <2>1, <2>2, <2>3, <2>5 DEF Effect
    <2>6. CASE Present(a) /\ Renewed(assignments[a], assignments'[a])
      BY <2>2, <2>4, <2>6 DEF Renewed
    <2>7. CASE Present(a) /\ Revised(assignments[a], assignments'[a]) /\ RecordOK(assignments'[a], supplied'[a])
      BY <2>2, <2>3, <2>4, <2>7 DEF Revised, Advanced
    <2> QED
      BY <2>1, <2>2, <2>5, <2>6, <2>7 DEF Effect
  <1>2. IInv /\ [Next]_vars => [A]_vars
    BY <1>1
  <1> QED
    BY <1>2, Invariant, PTL DEF Spec, FenceNeverReturns
\* Started work keeps its start and its fence and is never requeued; terminal
\* work is never written again.
THEOREM StartedWorkNeverRequeued == Spec => StartedNeverRequeued
  <1> DEFINE A ==
        \A a \in Assignments :
            (Present(a) /\ Present(a)') =>
                /\ assignments[a].status \in Progress \cup Terminal =>
                       /\ assignments'[a].startedAt = assignments[a].startedAt
                       /\ assignments'[a].status \notin {"queued", "claimed"}
                       /\ Fence(a)' = Fence(a)
                /\ assignments[a].status \in Terminal => assignments'[a] = assignments[a]
  <1>1. IInv /\ [Next]_vars => A
    <2> SUFFICES ASSUME IInv, [Next]_vars, NEW a \in Assignments,
                        assignments[a] # Absent, assignments'[a] # Absent
                 PROVE  /\ assignments[a].status \in Progress \cup Terminal =>
                               /\ assignments'[a].startedAt = assignments[a].startedAt
                               /\ assignments'[a].status \notin {"queued", "claimed"}
                               /\ FenceOf(assignments'[a]) = FenceOf(assignments[a])
                        /\ assignments[a].status \in Terminal => assignments'[a] = assignments[a]
      BY DEF Present, Fence, FenceOf
    <2>1. StampsOK(assignments[a], supplied[a])
      BY DEF IInv, RecordsOK, RecordOK, Present
    <2>2. CASE assignments'[a] = assignments[a]
      BY <2>2 DEF Progress, Terminal
    <2>3. CASE Effect(a)
      <3>1. \/ Renewed(assignments[a], assignments'[a])
            \/ Revised(assignments[a], assignments'[a])
        BY <2>3 DEF Effect, Present
      <3> QED
        BY <2>1, <3>1 DEF StampsOK, Renewed, Revised, Advanced, Progress, Terminal
    <2> QED
      BY <2>2, <2>3, RecordStep
  <1>2. IInv /\ [Next]_vars => [A]_vars
    BY <1>1
  <1> QED
    BY <1>2, Invariant, PTL DEF Spec, StartedNeverRequeued

-----------------------------------------------------------------------------
(* Theorem: the store implements FencedWork.                               *)

\* The mapping of a present and of an absent record.
LEMMA Mapping ==
    ASSUME NEW a \in Assignments
    PROVE  /\ ~Present(a) => Phase(a) = "absent" /\ Fence(a) = NoClaim
           /\ Present(a) /\ assignments[a].status \in Statuses =>
                 /\ assignments[a].status = "queued" <=> Phase(a) = "open"
                 /\ assignments[a].status = "claimed" <=> Phase(a) = "reserved"
                 /\ assignments[a].status \in Progress <=> Phase(a) = "started"
                 /\ assignments[a].status \in Terminal <=> Phase(a) = "closed"
                 /\ Fence(a) = FenceOf(assignments[a])
  BY DEF Phase, Fence, Statuses, Progress, Terminal

\* A step on one item, given what it does to that item's phase and fence.
LEMMA MappedStep ==
    ASSUME NEW a \in Assignments,
           \A b \in Assignments \ {a} : assignments'[b] = assignments[b],
           NEW p, NEW f, Phase(a)' = p, Fence(a)' = f
    PROVE  /\ [b \in Assignments |-> Phase(b)]' = [[b \in Assignments |-> Phase(b)] EXCEPT ![a] = p]
           /\ [b \in Assignments |-> Fence(b)]' = [[b \in Assignments |-> Fence(b)] EXCEPT ![a] = f]
  <1>1. \A b \in Assignments \ {a} : Phase(b)' = Phase(b) /\ Fence(b)' = Fence(b)
    BY DEF Phase, Fence, Present
  <1> QED
    BY <1>1
\* Every effect is a step of FencedWork, or invisible to it.
LEMMA EffectImplements ==
    ASSUME IInv, NEW a \in Assignments, Effect(a), Retyped
    PROVE  Work!Next \/ UNCHANGED Work!vars
  <1> DEFINE phase == [b \in Assignments |-> Phase(b)]
             fence == [b \in Assignments |-> Fence(b)]
  <1>a. \A b \in Assignments \ {a} : assignments'[b] = assignments[b]
    BY DEF Effect
  <1>b. /\ phase' = [phase EXCEPT ![a] = Phase(a)']
        /\ fence' = [fence EXCEPT ![a] = Fence(a)']
        /\ phase[a] = Phase(a) /\ fence[a] = Fence(a)
    BY <1>a, MappedStep
  <1>c. /\ phase = [phase EXCEPT ![a] = Phase(a)]
        /\ fence = [fence EXCEPT ![a] = Fence(a)]
    OBVIOUS
  <1>d. /\ ~Present(a) => Phase(a) = "absent" /\ Fence(a) = NoClaim
        /\ Present(a) /\ assignments[a].status \in Statuses =>
              /\ assignments[a].status = "queued" <=> Phase(a) = "open"
              /\ assignments[a].status = "claimed" <=> Phase(a) = "reserved"
              /\ assignments[a].status \in Progress <=> Phase(a) = "started"
              /\ assignments[a].status \in Terminal <=> Phase(a) = "closed"
              /\ Fence(a) = FenceOf(assignments[a])
    BY Mapping
  <1>e. /\ assignments'[a] = Absent => Phase(a)' = "absent" /\ Fence(a)' = NoClaim
        /\ assignments'[a] # Absent /\ assignments'[a].status \in Statuses =>
              /\ assignments'[a].status = "queued" <=> Phase(a)' = "open"
              /\ assignments'[a].status = "claimed" <=> Phase(a)' = "reserved"
              /\ assignments'[a].status \in Progress <=> Phase(a)' = "started"
              /\ assignments'[a].status \in Terminal <=> Phase(a)' = "closed"
              /\ Fence(a)' = FenceOf(assignments'[a])
    BY DEF Phase, Fence, FenceOf, Present, Statuses, Progress, Terminal
  <1>f. ASSUME NEW item, NEW given, RecordOK(item, given)
        PROVE  /\ item \in Assignment /\ item # Absent /\ item.status \in Statuses
               /\ item.status = "queued" => FenceOf(item) = NoClaim
    BY <1>f, SentinelAssumption DEF RecordOK, ClaimStateOK, FenceOf, Assignment
  <1>g. Present(a) => RecordOK(assignments[a], supplied[a])
    BY DEF IInv, RecordsOK
  <1> HIDE DEF phase, fence
  <1> USE DEF Work!Next
  <1>1. CASE /\ ~Present(a) /\ RecordOK(assignments'[a], supplied'[a]) /\ assignments'[a].status = "queued"
             /\ issued' = issued
    <2>1. Phase(a) = "absent" /\ Phase(a)' = "open" /\ Fence(a) = NoClaim /\ Fence(a)' = NoClaim
      BY <1>1, <1>d, <1>e, <1>f
    <2>2. Work!Open(a)
      BY <1>1, <1>b, <1>c, <2>1 DEF Work!Open, phase, fence
    <2> QED
      BY <2>2
  <1>2. CASE Present(a) /\ assignments'[a] = Absent /\ issued' = issued
    <2>1. Phase(a) # "absent"
      BY <1>2, <1>d, <1>f, <1>g DEF Statuses
    <2>2. Phase(a)' = "absent" /\ Fence(a)' = NoClaim
      BY <1>2, <1>e
    <2>3. Work!Remove(a)
      BY <1>2, <1>b, <2>1, <2>2 DEF Work!Remove, phase, fence
    <2> QED
      BY <2>3
  <1>3. CASE /\ Present(a) /\ Renewed(assignments[a], assignments'[a]) /\ RecordOK(assignments'[a], supplied'[a])
             /\ issued' = issued
    <2>1. assignments'[a].status = assignments[a].status
      BY <1>3, <1>f, <1>g DEF Renewed, Assignment
    <2>2. Phase(a)' = Phase(a) /\ Fence(a)' = Fence(a)
      BY <1>3, <1>d, <1>e, <1>f, <1>g, <2>1 DEF Renewed
    <2>3. UNCHANGED Work!vars
      BY <1>3, <1>b, <1>c, <2>2 DEF Work!vars, phase, fence
    <2> QED
      BY <2>3
  <1>4. CASE /\ Present(a) /\ Revised(assignments[a], assignments'[a]) /\ RecordOK(assignments'[a], supplied'[a])
    <2>a. /\ assignments[a].status \in Statuses /\ assignments'[a].status \in Statuses
          /\ Present(a) /\ assignments'[a] # Absent
      BY <1>4, <1>f, <1>g
    <2>1. CASE /\ assignments'[a].status = assignments[a].status
               /\ FenceOf(assignments'[a]) = FenceOf(assignments[a])
               /\ issued' = issued
      <3>1. Phase(a)' = Phase(a) /\ Fence(a)' = Fence(a)
        BY <1>d, <1>e, <2>a, <2>1 DEF Statuses
      <3> QED
        BY <1>b, <1>c, <2>1, <3>1 DEF Work!vars, phase, fence
    <2>2. CASE /\ assignments[a].status = "queued" /\ assignments'[a].status = "claimed"
               /\ FenceOf(assignments'[a]) = NoClaim /\ issued' = issued
      <3>1. Phase(a) = "open" /\ Phase(a)' = "reserved" /\ Fence(a) = NoClaim /\ Fence(a)' = NoClaim
        BY <1>d, <1>e, <1>f, <1>g, <2>a, <2>2
      <3>2. Work!ReserveUnfenced(a)
        BY <1>b, <1>c, <2>2, <3>1 DEF Work!ReserveUnfenced, phase, fence
      <3> QED
        BY <3>2
    <2>3. CASE /\ assignments[a].status = "queued" /\ assignments'[a].status = "claimed"
               /\ FenceOf(assignments'[a]) \in ClaimIds \ issued
               /\ issued' = issued \cup {FenceOf(assignments'[a])}
      <3>1. /\ Phase(a) = "open" /\ Phase(a)' = "reserved"
            /\ Fence(a)' = FenceOf(assignments'[a])
        BY <1>d, <1>e, <2>a, <2>3
      <3>2. Work!Reserve(a, FenceOf(assignments'[a]))
        BY <1>b, <2>3, <3>1 DEF Work!Reserve, phase, fence
      <3> QED
        BY <2>3, <3>2
    <2>4. CASE /\ assignments[a].status = "claimed" /\ assignments'[a].status = "queued"
               /\ issued' = issued
      <3>1. Phase(a) = "reserved" /\ Phase(a)' = "open" /\ Fence(a)' = NoClaim
        BY <1>4, <1>d, <1>e, <1>f, <2>a, <2>4
      <3>2. Work!Requeue(a)
        BY <1>b, <2>4, <3>1 DEF Work!Requeue, phase, fence
      <3> QED
        BY <3>2
    <2>5. CASE /\ assignments[a].status \notin Terminal
               /\ Advanced(assignments[a], assignments'[a])
               /\ issued' = issued
      <3>1. Phase(a) \in {"open", "reserved", "started"} /\ Fence(a)' = Fence(a)
        BY <1>d, <1>e, <2>a, <2>5 DEF Advanced, Statuses
      <3>2. CASE assignments'[a].status \in Progress
        <4>1. Phase(a)' = "started"
          BY <1>e, <2>a, <3>2
        <4>2. CASE Phase(a) = "started"
          BY <1>b, <1>c, <2>5, <3>1, <4>1, <4>2 DEF Work!vars, phase, fence
        <4>3. CASE Phase(a) \in {"open", "reserved"}
          <5>1. Work!Start(a)
            BY <1>b, <1>c, <2>5, <3>1, <4>1, <4>3 DEF Work!Start, phase, fence
          <5> QED
            BY <5>1
        <4> QED
          BY <3>1, <4>2, <4>3
      <3>3. CASE assignments'[a].status \in Terminal
        <4>1. Phase(a)' = "closed"
          BY <1>e, <2>a, <3>3
        <4>2. Work!Close(a)
          BY <1>b, <1>c, <2>5, <3>1, <4>1 DEF Work!Close, phase, fence
        <4> QED
          BY <4>2
      <3> QED
        BY <2>5, <3>2, <3>3 DEF Advanced
    <2> QED
      BY <1>4, <2>1, <2>2, <2>3, <2>4, <2>5 DEF Revised
  <1> QED
    BY <1>1, <1>2, <1>3, <1>4 DEF Effect

\* Seen through status and fence, the store is FencedWork: the abstraction has
\* no path from started or closed work back to the queue, and no way to replace
\* a fence that is held.
THEOREM ImplementsAbstraction == Spec => ImplementsFencedWork
  <1>1. Init => Work!Init
    BY DEF Init, Work!Init, Phase, Fence, Present
  <1>2. IInv /\ [Next]_vars => [Work!Next]_(Work!vars)
    <2> SUFFICES ASSUME IInv, [Next]_vars PROVE Work!Next \/ UNCHANGED Work!vars
      OBVIOUS
    <2>1. ASSUME NEW a \in Assignments, Effect(a), Retyped
          PROVE  Work!Next \/ UNCHANGED Work!vars
      BY <2>1, EffectImplements
    <2>2. CASE Idle \/ UNCHANGED vars
      <3>1. assignments' = assignments /\ issued' = issued
        BY <2>2 DEF Idle, vars
      <3>2. \A a \in Assignments : Phase(a)' = Phase(a) /\ Fence(a)' = Fence(a)
        BY <3>1 DEF Phase, Fence, Present
      <3> QED
        BY <3>1, <3>2 DEF Work!vars
    <2> QED
      BY <2>1, <2>2, StepEffect DEF IInv
  <1> QED
    BY <1>1, <1>2, Invariant, PTL DEF Spec, ImplementsFencedWork, Work!Spec
=============================================================================
