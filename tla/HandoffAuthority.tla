-------------------------- MODULE HandoffAuthority --------------------------
(***************************************************************************)
(* Handoffs of one project and the command that accepts one and ensures    *)
(* its follow-up assignment: compare-and-set edits and deletions, the      *)
(* idempotency receipts of AcceptHandoffWithFollowUp, and the work items,  *)
(* roles and assignments that come and go under them.                      *)
(*                                                                         *)
(* A store operation is one step, as in AssignmentLifecycle.  Callers keep *)
(* no state here: a call carries any revision and any idempotency key, so  *)
(* every retried, delayed, duplicated or reordered call is among the       *)
(* steps.  The project and its roots exist throughout.                     *)
(***************************************************************************)
EXTENDS Integers

CONSTANTS
    Handoffs,       \* handoff ids; a caller may reuse the id of a deleted one
    Assignments,    \* assignment ids; the server draws each at most once
    WorkItems, Roles,
    Keys,           \* idempotency keys
    Sources,        \* assignments that callers name as a handoff's source
    Senders,        \* roles that callers name as a handoff's sender
    Texts,          \* title, body, links and provenance, as one value
    BackwardClock,  \* may the wall clock step back between operations?
    MaxNow,         \* bound: the clock stops here
    MaxStamp,       \* bound: highest updated_at a write stores
    None, Absent, NoAnswer

Statuses == {"open", "accepted", "superseded", "dismissed"}

\* Zero is Go's zero time; real times start at one.
Time == Nat \ {0}

\* What SameContent compares and a patch may change; None is an empty field.
Content ==
    [sourceAssignment : Sources \cup {None}, fromRole : Senders \cup {None},
     toRole : Roles \cup {None}, targetAssignment : Assignments \cup {None},
     targetWorkItem : WorkItems \cup {None}, text : Texts, status : Statuses]

Handoff ==
    [workItem : WorkItems, content : Content,
     createdAt : Time, updatedAt : Time, statusChangedAt : Time]

\* The coordination of an assignment that handoffs look at; its lifecycle is
\* AssignmentLifecycle's.
Assignment == [workItem : WorkItems, role : Roles]

\* What RequestHash fingerprints.
Command == [handoff : Handoffs, workItem : WorkItems, expectedUpdatedAt : Time]

Outcomes == {"created", "linked_existing", "already_satisfied"}
Answer == [command : Command, assignment : Assignments, outcome : Outcomes]

ASSUME HandoffAssumption ==
    /\ MaxNow \in Nat \ {0}
    /\ MaxStamp \in Nat
    /\ BackwardClock \in BOOLEAN
    /\ Sources \subseteq Assignments
    /\ Senders \subseteq Roles
    /\ None \notin Assignments \cup WorkItems \cup Roles
    /\ Absent \notin Handoff \cup Assignment
    /\ NoAnswer \notin Answer \cup (Keys \X Answer)

VARIABLES
    handoffs, assignments, workItems, roles,
    receipts,   \* MemoryStore.receipts: the answer stored under each key
    now,        \* what the next call of the service clock returns
    drawn,      \* assignment ids used so far
    answers,    \* history: the first answer given to each key
    answered,   \* history: <<key, answer>> if the last step answered a command
    followUps   \* history: per living handoff, <<revision, assignment>> of each creation

entities == <<handoffs, assignments, workItems, roles>>
history == <<answers, answered, followUps>>
vars == <<entities, receipts, now, drawn, history>>

\* A step that answers no command.
Silent == answered' = NoAnswer /\ UNCHANGED answers

Later(s, t) == IF s >= t THEN s ELSE t

(***************************************************************************)
(* Helpers of the stores.                                                  *)
(***************************************************************************)
\* Defect: the stamp is not pushed beyond the stored revision.
HandoffTransitionTime_NoBump(item) ==
    Later(Later(now, item.createdAt), Later(item.updatedAt, item.statusChangedAt))

\* handoffTransitionTime: the revision stamp of a write at time now.
HandoffTransitionTime(item) ==
    LET stamp == Later(Later(now, item.createdAt), Later(item.updatedAt, item.statusChangedAt))
    IN  IF stamp > item.updatedAt THEN stamp ELSE item.updatedAt + 1

\* validateHandoffLocked: every reference resolves, the source assignment
\* belongs to the handoff's work item, the target one to the target work item.
ValidHandoff(workItem, content) ==
    /\ workItem \in workItems
    /\ content.fromRole \in roles \cup {None}
    /\ content.toRole \in roles \cup {None}
    /\ content.sourceAssignment # None =>
           /\ assignments[content.sourceAssignment] # Absent
           /\ assignments[content.sourceAssignment].workItem = workItem
    /\ content.targetAssignment # None =>
           /\ assignments[content.targetAssignment] # Absent
           /\ content.targetWorkItem \in {None, assignments[content.targetAssignment].workItem}
    /\ content.targetWorkItem \in workItems \cup {None}

\* Defect: the status time is not carried over from the stored record.
Revised_NoStatusTime(item, content) ==
    LET stamp == HandoffTransitionTime(item)
    IN  [item EXCEPT !.content = content,
                     !.updatedAt = stamp,
                     !.statusChangedAt = IF content.status = item.content.status THEN 0 ELSE stamp]

\* A new revision of a handoff; status_changed_at moves with the status only.
Revised(item, content) ==
    LET stamp == HandoffTransitionTime(item)
    IN  [item EXCEPT !.content = content,
                     !.updatedAt = stamp,
                     !.statusChangedAt = IF content.status = item.content.status THEN @ ELSE stamp]

\* The handoff a call names: its id, its work item and the revision that was read.
AtRevision(h, workItem, expected) ==
    /\ handoffs[h] # Absent
    /\ handoffs[h].workItem = workItem
    /\ handoffs[h].updatedAt = expected

Init ==
    /\ handoffs = [h \in Handoffs |-> Absent]
    /\ assignments = [a \in Assignments |-> Absent]
    /\ workItems = {}
    /\ roles = {}
    /\ receipts = [k \in Keys |-> NoAnswer]
    /\ now = 1
    /\ drawn = {}
    /\ answers = [k \in Keys |-> NoAnswer]
    /\ answered = NoAnswer
    /\ followUps = [h \in Handoffs |-> {}]

(***************************************************************************)
(* Handoffs: creation, compare-and-set edits, deletion.                    *)
(***************************************************************************)
\* An embedding caller or an import may supply all three times.
CreateHandoff(h, workItem) ==
    /\ handoffs[h] = Absent
    /\ \E content \in Content, created, updated, changed \in 1..MaxNow :
           /\ ValidHandoff(workItem, content)
           /\ handoffs' = [handoffs EXCEPT ![h] =
                  [workItem |-> workItem, content |-> content, createdAt |-> created,
                   updatedAt |-> updated, statusChangedAt |-> changed]]
    /\ Silent
    /\ UNCHANGED <<assignments, workItems, roles, receipts, now, drawn, followUps>>

\* PatchHandoff.  A patch of the revision that was read can lead to any
\* content; one that changes nothing is answered without a write.
UpdateHandoff(h, workItem, expected) ==
    /\ AtRevision(h, workItem, expected)
    /\ \E content \in Content \ {handoffs[h].content} :
           /\ ValidHandoff(workItem, content)
           /\ LET item == Revised(handoffs[h], content) IN
              /\ item.updatedAt <= MaxStamp
              /\ handoffs' = [handoffs EXCEPT ![h] = item]
    /\ Silent
    /\ UNCHANGED <<assignments, workItems, roles, receipts, now, drawn, followUps>>

DeleteHandoff(h, workItem, expected) ==
    /\ AtRevision(h, workItem, expected)
    /\ workItem \in workItems
    /\ handoffs' = [handoffs EXCEPT ![h] = Absent]
    /\ followUps' = [followUps EXCEPT ![h] = {}]
    /\ Silent
    /\ UNCHANGED <<assignments, workItems, roles, receipts, now, drawn>>

(***************************************************************************)
(* AcceptHandoffWithFollowUp.                                              *)
(***************************************************************************)
\* Record and return an answer.
Respond(k, answer) ==
    /\ answered' = <<k, answer>>
    /\ answers' = [answers EXCEPT ![k] = IF @ = NoAnswer THEN answer ELSE @]

\* Defect: the retry is answered from the receipt without looking at the records.
Replay_Blind(k, command) ==
    /\ receipts[k] # NoAnswer
    /\ receipts[k].command = command
    /\ Respond(k, receipts[k])
    /\ UNCHANGED <<entities, receipts, now, drawn, followUps>>

\* A retry of an answered command: its receipt is honoured while the handoff is
\* still accepted and still linked to the assignment as it was answered.
Replay(k, command) ==
    /\ receipts[k] # NoAnswer
    /\ receipts[k].command = command
    /\ LET item == handoffs[command.handoff]
           target == assignments[receipts[k].assignment]
       IN  /\ item # Absent
           /\ target # Absent
           /\ item.content.status = "accepted"
           /\ item.content.targetAssignment = receipts[k].assignment
           /\ item.content.targetWorkItem = target.workItem
           /\ item.content.toRole = target.role
    /\ Respond(k, receipts[k])
    /\ UNCHANGED <<entities, receipts, now, drawn, followUps>>

\* Defect: the revision the operator decided on is not compared.
Acceptable_AnyRevision(command) ==
    LET item == handoffs[command.handoff] IN
    /\ item # Absent
    /\ item.workItem = command.workItem
    /\ item.content.status \notin {"dismissed", "superseded"}
    /\ item.content.toRole \in roles

\* The checks of a first attempt.
Acceptable(command) ==
    LET item == handoffs[command.handoff] IN
    /\ AtRevision(command.handoff, command.workItem, command.expectedUpdatedAt)
    /\ item.content.status \notin {"dismissed", "superseded"}
    /\ item.content.toRole \in roles

\* The handoff is linked already: its assignment is the follow-up, in whatever
\* state it is, provided role and work item still agree.
EnsureExisting(k, command) ==
    /\ receipts[k] = NoAnswer
    /\ Acceptable(command)
    /\ LET h == command.handoff
           content == handoffs[h].content
           a == content.targetAssignment
       IN  /\ a # None
           /\ assignments[a] # Absent
           /\ assignments[a].role = content.toRole
           /\ content.targetWorkItem \in {None, assignments[a].workItem}
           /\ assignments[a].workItem \in workItems
           /\ LET satisfied == /\ content.status = "accepted"
                               /\ content.targetWorkItem = assignments[a].workItem
                  item == Revised(handoffs[h], [content EXCEPT
                      !.targetWorkItem = assignments[a].workItem, !.status = "accepted"])
                  answer == [command |-> command, assignment |-> a,
                             outcome |-> IF satisfied THEN "already_satisfied"
                                         ELSE "linked_existing"]
              IN  /\ ~satisfied => item.updatedAt <= MaxStamp
                  /\ handoffs' = IF satisfied THEN handoffs
                                 ELSE [handoffs EXCEPT ![h] = item]
                  /\ receipts' = [receipts EXCEPT ![k] = answer]
                  /\ Respond(k, answer)
    /\ UNCHANGED <<assignments, workItems, roles, now, drawn, followUps>>

\* Create a queued assignment with a fresh id, in the target work item or else
\* the handoff's own, link it and accept the handoff.
CreateFollowUp(command, a) ==
    LET h == command.handoff
        content == handoffs[h].content
        w == IF content.targetWorkItem = None THEN command.workItem ELSE content.targetWorkItem
        item == Revised(handoffs[h], [content EXCEPT
            !.targetAssignment = a, !.targetWorkItem = w, !.status = "accepted"])
    IN  /\ content.targetAssignment = None
        /\ w \in workItems
        /\ a \notin drawn
        /\ item.updatedAt <= MaxStamp
        /\ handoffs' = [handoffs EXCEPT ![h] = item]
        /\ assignments' = [assignments EXCEPT ![a] = [workItem |-> w, role |-> content.toRole]]
        /\ drawn' = drawn \cup {a}
        /\ followUps' = [followUps EXCEPT ![h] = @ \cup {<<command.expectedUpdatedAt, a>>}]
        /\ UNCHANGED <<workItems, roles, now>>

\* Defect: the receipt of a creation is not stored.
EnsureCreated_NoReceipt(k, command, a) ==
    /\ receipts[k] = NoAnswer
    /\ Acceptable(command)
    /\ CreateFollowUp(command, a)
    /\ Respond(k, [command |-> command, assignment |-> a, outcome |-> "created"])
    /\ UNCHANGED receipts

\* Nothing is linked yet.
EnsureCreated(k, command, a) ==
    LET answer == [command |-> command, assignment |-> a, outcome |-> "created"]
    IN  /\ receipts[k] = NoAnswer
        /\ Acceptable(command)
        /\ CreateFollowUp(command, a)
        /\ receipts' = [receipts EXCEPT ![k] = answer]
        /\ Respond(k, answer)

AcceptHandoffWithFollowUp(k, command) ==
    \/ Replay(k, command)
    \/ EnsureExisting(k, command)
    \/ \E a \in Assignments : EnsureCreated(k, command, a)

(***************************************************************************)
(* What happens to the records a handoff refers to.                        *)
(***************************************************************************)
CreateWorkItem(w) ==
    /\ w \notin workItems
    /\ workItems' = workItems \cup {w}
    /\ Silent
    /\ UNCHANGED <<handoffs, assignments, roles, receipts, now, drawn, followUps>>

\* Defect: handoffs that only target the work item are left behind.
DeleteWorkItem_OwnHandoffsOnly(w) ==
    LET gone == {h \in Handoffs : handoffs[h] # Absent /\ handoffs[h].workItem = w}
    IN  /\ w \in workItems
        /\ workItems' = workItems \ {w}
        /\ assignments' = [a \in Assignments |->
               IF assignments[a] # Absent /\ assignments[a].workItem = w
               THEN Absent ELSE assignments[a]]
        /\ handoffs' = [h \in Handoffs |-> IF h \in gone THEN Absent ELSE handoffs[h]]
        /\ followUps' = [h \in Handoffs |-> IF h \in gone THEN {} ELSE followUps[h]]
        /\ Silent
        /\ UNCHANGED <<roles, receipts, now, drawn>>

\* Its assignments go with it, and every handoff that comes from it or targets it.
DeleteWorkItem(w) ==
    LET gone == {h \in Handoffs : handoffs[h] # Absent
                     /\ w \in {handoffs[h].workItem, handoffs[h].content.targetWorkItem}}
    IN  /\ w \in workItems
        /\ workItems' = workItems \ {w}
        /\ assignments' = [a \in Assignments |->
               IF assignments[a] # Absent /\ assignments[a].workItem = w
               THEN Absent ELSE assignments[a]]
        /\ handoffs' = [h \in Handoffs |-> IF h \in gone THEN Absent ELSE handoffs[h]]
        /\ followUps' = [h \in Handoffs |-> IF h \in gone THEN {} ELSE followUps[h]]
        /\ Silent
        /\ UNCHANGED <<roles, receipts, now, drawn>>

CreateRole(r) ==
    /\ r \notin roles
    /\ roles' = roles \cup {r}
    /\ Silent
    /\ UNCHANGED <<handoffs, assignments, workItems, receipts, now, drawn, followUps>>

\* The records that name the role keep it.
DeleteRole(r) ==
    /\ r \in roles
    /\ roles' = roles \ {r}
    /\ Silent
    /\ UNCHANGED <<handoffs, assignments, workItems, receipts, now, drawn, followUps>>

\* By a host, which chooses the id.
CreateAssignment(a, w, r) ==
    /\ assignments[a] = Absent
    /\ w \in workItems
    /\ r \in roles
    /\ assignments' = [assignments EXCEPT ![a] = [workItem |-> w, role |-> r]]
    /\ drawn' = drawn \cup {a}
    /\ Silent
    /\ UNCHANGED <<handoffs, workItems, roles, receipts, now, followUps>>

\* An edit of queued work may move it to another work item and role; the
\* handoffs linked to it are not looked at.
UpdateQueuedAssignment(a, w, r) ==
    /\ assignments[a] # Absent
    /\ w \in workItems
    /\ r \in roles
    /\ assignments' = [assignments EXCEPT ![a] = [workItem |-> w, role |-> r]]
    /\ Silent
    /\ UNCHANGED <<handoffs, workItems, roles, receipts, now, drawn, followUps>>

\* Handoffs keep their links to it.
DeleteAssignment(a) ==
    /\ assignments[a] # Absent
    /\ assignments' = [assignments EXCEPT ![a] = Absent]
    /\ Silent
    /\ UNCHANGED <<handoffs, workItems, roles, receipts, now, drawn, followUps>>

Tick ==
    /\ now < MaxNow
    /\ now' = now + 1
    /\ Silent
    /\ UNCHANGED <<entities, receipts, drawn, followUps>>

StepBack ==
    /\ BackwardClock
    /\ now > 1
    /\ now' = now - 1
    /\ Silent
    /\ UNCHANGED <<entities, receipts, drawn, followUps>>

HandoffStep(h) ==
    \E w \in WorkItems :
        \/ CreateHandoff(h, w)
        \/ \E expected \in 1..MaxStamp :
               \/ UpdateHandoff(h, w, expected)
               \/ DeleteHandoff(h, w, expected)
               \/ \E k \in Keys : AcceptHandoffWithFollowUp(k,
                      [handoff |-> h, workItem |-> w, expectedUpdatedAt |-> expected])

RecordStep ==
    \/ \E w \in WorkItems : CreateWorkItem(w) \/ DeleteWorkItem(w)
    \/ \E r \in Roles : CreateRole(r) \/ DeleteRole(r)
    \/ \E a \in Assignments :
           \/ \E w \in WorkItems, r \in Roles :
                  CreateAssignment(a, w, r) \/ UpdateQueuedAssignment(a, w, r)
           \/ DeleteAssignment(a)

Next ==
    \/ \E h \in Handoffs : HandoffStep(h)
    \/ RecordStep
    \/ Tick
    \/ StepBack

Spec == Init /\ [][Next]_vars

(***************************************************************************)
(* Type invariant.                                                         *)
(***************************************************************************)
\* Every variable holds a value of its kind.
TypeOK ==
    /\ handoffs \in [Handoffs -> Handoff \cup {Absent}]
    /\ assignments \in [Assignments -> Assignment \cup {Absent}]
    /\ workItems \subseteq WorkItems
    /\ roles \subseteq Roles
    /\ receipts \in [Keys -> Answer \cup {NoAnswer}]
    /\ now \in 1..MaxNow
    /\ drawn \subseteq Assignments
    /\ answers \in [Keys -> Answer \cup {NoAnswer}]
    /\ answered \in (Keys \X Answer) \cup {NoAnswer}
    /\ followUps \in [Handoffs -> SUBSET (Time \X Assignments)]

(***************************************************************************)
(* Safety.                                                                 *)
(***************************************************************************)
\* Whatever is retried, delayed, duplicated or raced, all the answers ever
\* given to one idempotency key name the same command, assignment and outcome,
\* and so a key creates at most one assignment, even after its handoff or its
\* assignment was deleted.
OneAnswerPerKey ==
    answered # NoAnswer => answers[answered[1]] = answered[2]

\* An answer is true when it is given: the handoff is accepted and linked to the
\* assignment it names, which exists, in a work item that exists, and agrees
\* with the handoff on work item and role.  A key whose handoff was closed or
\* relinked since is refused instead.
AnswerHolds ==
    answered # NoAnswer =>
        LET item == handoffs[answered[2].command.handoff]
            a == answered[2].assignment
        IN  /\ item # Absent /\ assignments[a] # Absent
            /\ item.content.status = "accepted"
            /\ item.content.targetAssignment = a
            /\ item.content.targetWorkItem = assignments[a].workItem
            /\ item.content.targetWorkItem \in workItems
            /\ item.content.toRole = assignments[a].role

\* Two operators who decide on the same revision of a handoff, under different
\* keys, never create two follow-ups, even if the link is cleared in between.
OneFollowUpPerRevision ==
    \A h \in Handoffs : \A f, g \in followUps[h] : f[1] = g[1] => f = g

\* No handoff or assignment outlives its work item, and no handoff targets a
\* work item that is gone: the cascades leave nothing behind that reads by work
\* item would never list again.
WorkRefsAlive ==
    /\ \A h \in Handoffs : handoffs[h] # Absent =>
           /\ handoffs[h].workItem \in workItems
           /\ handoffs[h].content.targetWorkItem \in workItems \cup {None}
    /\ \A a \in Assignments : assignments[a] # Absent => assignments[a].workItem \in workItems

\* While a handoff lives, every write of it strictly advances updated_at, also
\* when the clock stands still, steps back, or trails imported times;
\* status_changed_at moves exactly with the status and is then the revision.
HandoffRevisionsAdvance ==
    [][\A h \in Handoffs :
        (handoffs[h] # Absent /\ handoffs'[h] # Absent /\ handoffs'[h] # handoffs[h]) =>
            /\ handoffs'[h].updatedAt > handoffs[h].updatedAt
            /\ handoffs'[h].updatedAt >= handoffs[h].statusChangedAt
            /\ handoffs'[h].workItem = handoffs[h].workItem
            /\ handoffs'[h].createdAt = handoffs[h].createdAt
            /\ handoffs'[h].statusChangedAt =
                   IF handoffs'[h].content.status = handoffs[h].content.status
                   THEN handoffs[h].statusChangedAt
                   ELSE handoffs'[h].updatedAt]_vars

\* README.md:91-92 says that deleting a role does not block the records that
\* still carry its id: any handoff that lives can be dismissed at its revision.
DismissalNeverBlocked ==
    \A h \in Handoffs : handoffs[h] # Absent =>
        ValidHandoff(handoffs[h].workItem, [handoffs[h].content EXCEPT !.status = "dismissed"])
=============================================================================
