----------------------- MODULE HandoffAuthorityProofs -----------------------
(***************************************************************************)
(* Theorems about HandoffAuthority, for every value of its constants.      *)
(*                                                                         *)
(* The argument: the stored receipts are exactly the first answers, so a   *)
(* retry can only repeat one; and a follow-up was created at a revision    *)
(* that the handoff has left behind for good.                              *)
(***************************************************************************)
EXTENDS HandoffAuthority, TLAPS

\* A stored receipt is the first answer to its key.
ReceiptsAreFirstAnswers == receipts = answers

\* The revisions at which follow-ups were created are past.
FollowUpsBehind ==
    \A h \in Handoffs : \A f \in followUps[h] :
        /\ handoffs[h] # Absent
        /\ f[1] < handoffs[h].updatedAt

\* The inductive invariant.
IInv ==
    /\ TypeOK
    /\ WorkRefsAlive
    /\ ReceiptsAreFirstAnswers
    /\ OneAnswerPerKey
    /\ AnswerHolds
    /\ FollowUpsBehind
    /\ OneFollowUpPerRevision

\* A step that answers no command and leaves the receipts alone.
SilentStep == Silent /\ UNCHANGED receipts

-----------------------------------------------------------------------------
(* Records.                                                                *)

\* What a write makes of a handoff.
LEMMA RevisedOK ==
    ASSUME NEW item \in Handoff, NEW content \in Content, now \in Nat
    PROVE  /\ Revised(item, content) \in Handoff
           /\ Revised(item, content).workItem = item.workItem
           /\ Revised(item, content).content = content
           /\ Revised(item, content).createdAt = item.createdAt
           /\ Revised(item, content).updatedAt > item.updatedAt
           /\ Revised(item, content).updatedAt >= item.statusChangedAt
           /\ Revised(item, content).statusChangedAt =
                 IF content.status = item.content.status
                 THEN item.statusChangedAt
                 ELSE Revised(item, content).updatedAt
  <1> DEFINE stamp == HandoffTransitionTime(item)
  <1>1. stamp \in Nat /\ stamp > item.updatedAt /\ stamp >= item.statusChangedAt
    BY DEF HandoffTransitionTime, Later, Handoff, Time
  <1>2. stamp \in Time
    BY <1>1 DEF Handoff, Time
  <1> HIDE DEF stamp
  <1> DEFINE new == [item EXCEPT !.content = content, !.updatedAt = stamp,
                 !.statusChangedAt = IF content.status = item.content.status THEN @ ELSE stamp]
  <1>3. Revised(item, content) = new
    BY DEF Revised, stamp
  <1>4. new \in Handoff
    BY <1>2 DEF Handoff
  <1>5. /\ new.workItem = item.workItem /\ new.content = content
        /\ new.createdAt = item.createdAt /\ new.updatedAt = stamp
        /\ new.statusChangedAt =
              IF content.status = item.content.status THEN item.statusChangedAt ELSE stamp
    BY DEF Handoff
  <1> QED
    BY <1>1, <1>3, <1>4, <1>5

\* Linking and accepting yields a content again.
LEMMA LinkedContent ==
    ASSUME NEW content \in Content, NEW a \in Assignments, NEW w \in WorkItems
    PROVE  /\ [content EXCEPT !.targetAssignment = a, !.targetWorkItem = w, !.status = "accepted"]
                  \in Content
           /\ [content EXCEPT !.targetWorkItem = w, !.status = "accepted"] \in Content
  BY DEF Content, Statuses
-----------------------------------------------------------------------------
(* Steps.                                                                  *)

\* What a first attempt under k leaves behind, whichever way it ensures the
\* follow-up: item is the handoff and a the assignment of its answer.
FirstAnswer(k, command, a, outcome, item) ==
    LET h == command.handoff
        answer == [command |-> command, assignment |-> a, outcome |-> outcome]
    IN  /\ receipts[k] = NoAnswer
        /\ AtRevision(h, command.workItem, command.expectedUpdatedAt)
        /\ item \in Handoff
        /\ item.workItem = handoffs[h].workItem
        /\ item.content.status = "accepted"
        /\ item.content.targetAssignment = a
        /\ item.content.targetWorkItem = assignments'[a].workItem
        /\ item.content.targetWorkItem \in workItems
        /\ item.content.toRole = assignments'[a].role
        /\ item # handoffs[h] => item = Revised(handoffs[h], item.content)
        /\ handoffs' = [handoffs EXCEPT ![h] = item]
        /\ assignments'[a] \in Assignment
        /\ assignments' = [assignments EXCEPT ![a] = assignments'[a]]
        /\ receipts' = [receipts EXCEPT ![k] = answer]
        /\ Respond(k, answer)
        /\ \/ UNCHANGED followUps
           \/ /\ item.updatedAt > handoffs[h].updatedAt
              /\ followUps' = [followUps EXCEPT ![h] = @ \cup {<<command.expectedUpdatedAt, a>>}]
        /\ drawn' \subseteq Assignments
        /\ UNCHANGED <<workItems, roles, now>>

LEMMA EnsureExistingEffect ==
    ASSUME TypeOK, NEW k \in Keys, NEW command \in Command, EnsureExisting(k, command)
    PROVE  \E a \in Assignments, outcome \in Outcomes, item \in Handoff :
               FirstAnswer(k, command, a, outcome, item)
  <1> DEFINE h == command.handoff
             content == handoffs[h].content
             a == content.targetAssignment
             w == assignments[a].workItem
             satisfied == content.status = "accepted" /\ content.targetWorkItem = w
             linked == [content EXCEPT !.targetWorkItem = w, !.status = "accepted"]
             item == IF satisfied THEN handoffs[h] ELSE Revised(handoffs[h], linked)
             outcome == IF satisfied THEN "already_satisfied" ELSE "linked_existing"
  <1>1. /\ h \in Handoffs /\ handoffs[h] # Absent /\ handoffs[h] \in Handoff
        /\ content \in Content /\ now \in Nat
    BY DEF EnsureExisting, Acceptable, AtRevision, TypeOK, Command, Handoff
  <1>2. /\ a \in Assignments /\ assignments[a] \in Assignment
        /\ assignments[a].role = content.toRole
        /\ w \in workItems /\ w \in WorkItems
    BY <1>1 DEF EnsureExisting, TypeOK, Content, Assignment
  <1>3. linked \in Content /\ linked.status = "accepted" /\ linked.targetAssignment = a
           /\ linked.targetWorkItem = w /\ linked.toRole = content.toRole
    BY <1>1, <1>2, LinkedContent DEF Content
  <1>4. CASE satisfied
    <2>1. /\ receipts[k] = NoAnswer
          /\ AtRevision(h, command.workItem, command.expectedUpdatedAt)
          /\ handoffs' = handoffs
          /\ receipts' = [receipts EXCEPT ![k] =
                 [command |-> command, assignment |-> a, outcome |-> "already_satisfied"]]
          /\ Respond(k, [command |-> command, assignment |-> a, outcome |-> "already_satisfied"])
          /\ UNCHANGED <<assignments, workItems, roles, now, drawn, followUps>>
      BY <1>4 DEF EnsureExisting, Acceptable
    <2>2. FirstAnswer(k, command, a, "already_satisfied", handoffs[h])
      BY <1>1, <1>2, <1>4, <2>1 DEF FirstAnswer, TypeOK
    <2> QED
      BY <1>1, <1>2, <2>2 DEF Outcomes
  <1>5. CASE ~satisfied
    <2>1. /\ receipts[k] = NoAnswer
          /\ AtRevision(h, command.workItem, command.expectedUpdatedAt)
          /\ handoffs' = [handoffs EXCEPT ![h] = Revised(handoffs[h], linked)]
          /\ receipts' = [receipts EXCEPT ![k] =
                 [command |-> command, assignment |-> a, outcome |-> "linked_existing"]]
          /\ Respond(k, [command |-> command, assignment |-> a, outcome |-> "linked_existing"])
          /\ UNCHANGED <<assignments, workItems, roles, now, drawn, followUps>>
      BY <1>5 DEF EnsureExisting, Acceptable
    <2>2. /\ Revised(handoffs[h], linked) \in Handoff
          /\ Revised(handoffs[h], linked).workItem = handoffs[h].workItem
          /\ Revised(handoffs[h], linked).content = linked
      BY <1>1, <1>3, RevisedOK
    <2> HIDE DEF linked
    <2>3. FirstAnswer(k, command, a, "linked_existing", Revised(handoffs[h], linked))
      BY <1>1, <1>2, <1>3, <2>1, <2>2 DEF FirstAnswer, TypeOK
    <2> QED
      BY <1>2, <2>2, <2>3 DEF Outcomes
  <1> QED
    BY <1>4, <1>5

LEMMA EnsureCreatedEffect ==
    ASSUME TypeOK, NEW k \in Keys, NEW command \in Command, NEW a \in Assignments,
           EnsureCreated(k, command, a)
    PROVE  \E item \in Handoff : FirstAnswer(k, command, a, "created", item)
  <1> DEFINE h == command.handoff
             content == handoffs[h].content
             w == IF content.targetWorkItem = None THEN command.workItem ELSE content.targetWorkItem
             linked == [content EXCEPT !.targetAssignment = a, !.targetWorkItem = w,
                                       !.status = "accepted"]
             item == Revised(handoffs[h], linked)
             made == [workItem |-> w, role |-> content.toRole]
  <1>1. /\ h \in Handoffs /\ handoffs[h] # Absent /\ handoffs[h] \in Handoff
        /\ content \in Content /\ now \in Nat
    BY DEF EnsureCreated, Acceptable, AtRevision, TypeOK, Command, Handoff
  <1>2. w \in workItems /\ w \in WorkItems
    BY DEF EnsureCreated, CreateFollowUp, TypeOK
  <1>3. linked \in Content /\ linked.status = "accepted" /\ linked.targetAssignment = a
           /\ linked.targetWorkItem = w /\ linked.toRole = content.toRole
    BY <1>1, <1>2, LinkedContent DEF Content
  <1>4. made \in Assignment
    BY <1>2 DEF EnsureCreated, Acceptable, TypeOK, Assignment
  <1>5. /\ receipts[k] = NoAnswer
        /\ AtRevision(h, command.workItem, command.expectedUpdatedAt)
        /\ handoffs' = [handoffs EXCEPT ![h] = item]
        /\ assignments' = [assignments EXCEPT ![a] = made]
        /\ drawn' = drawn \cup {a}
        /\ followUps' = [followUps EXCEPT ![h] = @ \cup {<<command.expectedUpdatedAt, a>>}]
        /\ receipts' = [receipts EXCEPT ![k] =
               [command |-> command, assignment |-> a, outcome |-> "created"]]
        /\ Respond(k, [command |-> command, assignment |-> a, outcome |-> "created"])
        /\ UNCHANGED <<workItems, roles, now>>
    BY DEF EnsureCreated, Acceptable, CreateFollowUp
  <1>6. /\ item \in Handoff
        /\ item.workItem = handoffs[h].workItem
        /\ item.content = linked
        /\ item.updatedAt > handoffs[h].updatedAt
    BY <1>1, <1>3, RevisedOK
  <1>7. assignments'[a] = made /\ drawn' \subseteq Assignments
    BY <1>5 DEF TypeOK
  <1>8. made.workItem = w /\ made.role = content.toRole
    OBVIOUS
  <1> HIDE DEF linked, made
  <1>9. FirstAnswer(k, command, a, "created", item)
    BY <1>1, <1>2, <1>3, <1>4, <1>5, <1>6, <1>7, <1>8 DEF FirstAnswer
  <1> QED
    BY <1>6, <1>9


\* A step of the accept command is a retry or a first attempt.
LEMMA AcceptEffect ==
    ASSUME TypeOK, NEW k \in Keys, NEW command \in Command,
           AcceptHandoffWithFollowUp(k, command)
    PROVE  \/ Replay(k, command)
           \/ \E a \in Assignments, outcome \in Outcomes, item \in Handoff :
                  FirstAnswer(k, command, a, outcome, item)
  <1>1. CASE Replay(k, command)
    BY <1>1
  <1>2. CASE EnsureExisting(k, command)
    BY <1>2, EnsureExistingEffect
  <1>3. ASSUME NEW a \in Assignments, EnsureCreated(k, command, a)
        PROVE  \E item \in Handoff : FirstAnswer(k, command, a, "created", item)
    BY <1>3, EnsureCreatedEffect
  <1> QED
    BY <1>1, <1>2, <1>3 DEF AcceptHandoffWithFollowUp, Outcomes

\* How a step that answers nothing may change a handoff and its follow-ups.
HandoffKept(h) == handoffs'[h] = handoffs[h] /\ followUps'[h] = followUps[h]

HandoffGone(h) == handoffs'[h] = Absent /\ followUps'[h] = {}

HandoffCreated(h) ==
    /\ handoffs[h] = Absent
    /\ handoffs'[h] \in Handoff
    /\ ValidHandoff(handoffs'[h].workItem, handoffs'[h].content)
    /\ followUps'[h] = followUps[h]

HandoffRevised(h) ==
    /\ handoffs[h] # Absent
    /\ \E content \in Content :
           /\ ValidHandoff(handoffs[h].workItem, content)
           /\ handoffs'[h] = Revised(handoffs[h], content)
    /\ followUps'[h] = followUps[h]

\* Which entities it may change besides.
RecordsKept ==
    /\ \A w \in workItems \ workItems' :
           /\ \A h \in Handoffs : handoffs'[h] # Absent =>
                  w \notin {handoffs'[h].workItem, handoffs'[h].content.targetWorkItem}
           /\ \A a \in Assignments : assignments'[a] # Absent => assignments'[a].workItem # w
    /\ \A a \in Assignments :
           \/ assignments'[a] = assignments[a]
           \/ assignments'[a] = Absent
           \/ assignments'[a] \in Assignment /\ assignments'[a].workItem \in workItems

QuietStep ==
    /\ SilentStep
    /\ handoffs' \in [Handoffs -> Handoff \cup {Absent}]
    /\ assignments' \in [Assignments -> Assignment \cup {Absent}]
    /\ workItems' \subseteq WorkItems
    /\ roles' \subseteq Roles
    /\ now' \in 1..MaxNow
    /\ drawn' \subseteq Assignments
    /\ followUps' \in [Handoffs -> SUBSET (Time \X Assignments)]
    /\ RecordsKept
    /\ \A h \in Handoffs :
           HandoffKept(h) \/ HandoffGone(h) \/ HandoffCreated(h) \/ HandoffRevised(h)

LEMMA CreateHandoffQuiet ==
    ASSUME TypeOK, NEW h \in Handoffs, NEW w \in WorkItems, CreateHandoff(h, w)
    PROVE  QuietStep
  <1>1. PICK content \in Content, created \in 1..MaxNow, updated \in 1..MaxNow,
             changed \in 1..MaxNow :
                /\ ValidHandoff(w, content)
                /\ handoffs' = [handoffs EXCEPT ![h] =
                       [workItem |-> w, content |-> content, createdAt |-> created,
                        updatedAt |-> updated, statusChangedAt |-> changed]]
    BY DEF CreateHandoff
  <1> DEFINE new == [workItem |-> w, content |-> content, createdAt |-> created,
                     updatedAt |-> updated, statusChangedAt |-> changed]
  <1>2. new \in Handoff /\ new.workItem = w /\ new.content = content
    BY HandoffAssumption DEF Handoff, Time
  <1>3. handoffs'[h] = new /\ \A g \in Handoffs \ {h} : handoffs'[g] = handoffs[g]
    BY <1>1 DEF TypeOK
  <1>4. /\ handoffs[h] = Absent /\ SilentStep
        /\ UNCHANGED <<assignments, workItems, roles, now, drawn, followUps>>
    BY DEF CreateHandoff, SilentStep
  <1> HIDE DEF new
  <1>5. handoffs' \in [Handoffs -> Handoff \cup {Absent}]
    BY <1>1, <1>2 DEF TypeOK, new
  <1>6. RecordsKept
    BY <1>4 DEF RecordsKept
  <1>7. HandoffCreated(h) /\ \A g \in Handoffs \ {h} : HandoffKept(g)
    BY <1>1, <1>2, <1>3, <1>4 DEF HandoffCreated, HandoffKept
  <1> QED
    BY <1>4, <1>5, <1>6, <1>7 DEF QuietStep, TypeOK

LEMMA UpdateHandoffQuiet ==
    ASSUME TypeOK, NEW h \in Handoffs, NEW w \in WorkItems, NEW expected,
           UpdateHandoff(h, w, expected)
    PROVE  QuietStep
  <1>1. PICK content \in Content :
            /\ ValidHandoff(w, content)
            /\ handoffs' = [handoffs EXCEPT ![h] = Revised(handoffs[h], content)]
    BY DEF UpdateHandoff
  <1>2. /\ handoffs[h] # Absent /\ handoffs[h] \in Handoff /\ handoffs[h].workItem = w
        /\ SilentStep
        /\ UNCHANGED <<assignments, workItems, roles, now, drawn, followUps>>
    BY DEF UpdateHandoff, AtRevision, SilentStep, TypeOK
  <1>3. Revised(handoffs[h], content) \in Handoff
    BY <1>2, RevisedOK DEF TypeOK
  <1>4. handoffs'[h] = Revised(handoffs[h], content)
           /\ \A g \in Handoffs \ {h} : handoffs'[g] = handoffs[g]
    BY <1>1 DEF TypeOK
  <1>5. handoffs' \in [Handoffs -> Handoff \cup {Absent}]
    BY <1>1, <1>3 DEF TypeOK
  <1>6. RecordsKept
    BY <1>2 DEF RecordsKept
  <1>7. HandoffRevised(h) /\ \A g \in Handoffs \ {h} : HandoffKept(g)
    BY <1>1, <1>2, <1>4 DEF HandoffRevised, HandoffKept
  <1> QED
    BY <1>2, <1>5, <1>6, <1>7 DEF QuietStep, TypeOK

LEMMA DeleteHandoffQuiet ==
    ASSUME TypeOK, NEW h \in Handoffs, NEW w, NEW expected, DeleteHandoff(h, w, expected)
    PROVE  QuietStep
  <1>1. /\ handoffs' = [handoffs EXCEPT ![h] = Absent]
        /\ followUps' = [followUps EXCEPT ![h] = {}]
        /\ SilentStep
        /\ UNCHANGED <<assignments, workItems, roles, now, drawn>>
    BY DEF DeleteHandoff, SilentStep
  <1>2. HandoffGone(h) /\ \A g \in Handoffs \ {h} : HandoffKept(g)
    BY <1>1 DEF HandoffGone, HandoffKept, TypeOK
  <1>3. RecordsKept
    BY <1>1 DEF RecordsKept
  <1> QED
    BY <1>1, <1>2, <1>3 DEF QuietStep, TypeOK

LEMMA DeleteWorkItemQuiet ==
    ASSUME TypeOK, NEW w \in WorkItems, DeleteWorkItem(w)
    PROVE  QuietStep
  <1> DEFINE gone == {h \in Handoffs : handoffs[h] # Absent
                          /\ w \in {handoffs[h].workItem, handoffs[h].content.targetWorkItem}}
  <1>1. /\ workItems' = workItems \ {w}
        /\ assignments' = [a \in Assignments |->
               IF assignments[a] # Absent /\ assignments[a].workItem = w
               THEN Absent ELSE assignments[a]]
        /\ handoffs' = [h \in Handoffs |-> IF h \in gone THEN Absent ELSE handoffs[h]]
        /\ followUps' = [h \in Handoffs |-> IF h \in gone THEN {} ELSE followUps[h]]
        /\ SilentStep
        /\ UNCHANGED <<roles, now, drawn>>
    BY DEF DeleteWorkItem, SilentStep
  <1>2. \A h \in Handoffs : IF h \in gone THEN HandoffGone(h) ELSE HandoffKept(h)
    BY <1>1 DEF HandoffGone, HandoffKept
  <1>3. RecordsKept
    BY <1>1 DEF RecordsKept
  <1>4. /\ handoffs' \in [Handoffs -> Handoff \cup {Absent}]
        /\ assignments' \in [Assignments -> Assignment \cup {Absent}]
        /\ followUps' \in [Handoffs -> SUBSET (Time \X Assignments)]
    BY <1>1 DEF TypeOK
  <1> QED
    BY <1>1, <1>2, <1>3, <1>4 DEF QuietStep, TypeOK

LEMMA RecordStepQuiet ==
    ASSUME TypeOK, RecordStep
    PROVE  QuietStep
  <1> DEFINE Same == UNCHANGED <<handoffs, followUps>> /\ SilentStep
  <1>a. Same => \A h \in Handoffs : HandoffKept(h)
    BY DEF HandoffKept
  <1>1. ASSUME NEW w \in WorkItems, CreateWorkItem(w) PROVE QuietStep
    <2>1. Same /\ workItems' = workItems \cup {w} /\ UNCHANGED <<assignments, roles, now, drawn>>
      BY <1>1 DEF CreateWorkItem, SilentStep
    <2>2. RecordsKept
      BY <2>1 DEF RecordsKept
    <2> QED
      BY <1>a, <2>1, <2>2 DEF QuietStep, TypeOK
  <1>2. ASSUME NEW r \in Roles, CreateRole(r) \/ DeleteRole(r) PROVE QuietStep
    <2>1. Same /\ roles' \subseteq Roles /\ UNCHANGED <<assignments, workItems, now, drawn>>
      BY <1>2 DEF CreateRole, DeleteRole, SilentStep, TypeOK
    <2>2. RecordsKept
      BY <2>1 DEF RecordsKept
    <2> QED
      BY <1>a, <2>1, <2>2 DEF QuietStep, TypeOK
  <1>3. ASSUME NEW a \in Assignments, NEW w \in WorkItems, NEW r \in Roles,
               CreateAssignment(a, w, r) \/ UpdateQueuedAssignment(a, w, r)
        PROVE  QuietStep
    <2>1. /\ Same /\ w \in workItems
          /\ assignments' = [assignments EXCEPT ![a] = [workItem |-> w, role |-> r]]
          /\ drawn' \subseteq Assignments /\ UNCHANGED <<workItems, roles, now>>
      BY <1>3 DEF CreateAssignment, UpdateQueuedAssignment, SilentStep, TypeOK
    <2>2. [workItem |-> w, role |-> r] \in Assignment
      BY DEF Assignment
    <2>3. RecordsKept
      BY <2>1, <2>2 DEF RecordsKept, TypeOK
    <2>4. assignments' \in [Assignments -> Assignment \cup {Absent}]
      BY <2>1, <2>2 DEF TypeOK
    <2> QED
      BY <1>a, <2>1, <2>3, <2>4 DEF QuietStep, TypeOK
  <1>4. ASSUME NEW a \in Assignments, DeleteAssignment(a) PROVE QuietStep
    <2>1. /\ Same /\ assignments' = [assignments EXCEPT ![a] = Absent]
          /\ UNCHANGED <<workItems, roles, now, drawn>>
      BY <1>4 DEF DeleteAssignment, SilentStep
    <2>2. RecordsKept
      BY <2>1 DEF RecordsKept, TypeOK
    <2> QED
      BY <1>a, <2>1, <2>2 DEF QuietStep, TypeOK
  <1> QED
    BY <1>1, <1>2, <1>3, <1>4, DeleteWorkItemQuiet DEF RecordStep

LEMMA ClockQuiet ==
    ASSUME TypeOK, Tick \/ StepBack
    PROVE  QuietStep
  <1>1. /\ SilentStep /\ now' \in 1..MaxNow
        /\ UNCHANGED <<handoffs, assignments, workItems, roles, drawn, followUps>>
    BY HandoffAssumption DEF Tick, StepBack, SilentStep, entities, TypeOK
  <1>2. RecordsKept /\ \A h \in Handoffs : HandoffKept(h)
    BY <1>1 DEF RecordsKept, HandoffKept
  <1> QED
    BY <1>1, <1>2 DEF QuietStep, TypeOK

\* Every step answers an accept command or is quiet.
LEMMA StepKinds ==
    ASSUME TypeOK, Next
    PROVE  \/ QuietStep
           \/ \E k \in Keys, command \in Command : AcceptHandoffWithFollowUp(k, command)
  <1>1. ASSUME NEW h \in Handoffs, HandoffStep(h)
        PROVE  \/ QuietStep
               \/ \E k \in Keys, command \in Command : AcceptHandoffWithFollowUp(k, command)
    <2>1. PICK w \in WorkItems :
            \/ CreateHandoff(h, w)
            \/ \E expected \in 1..MaxStamp :
                   \/ UpdateHandoff(h, w, expected)
                   \/ DeleteHandoff(h, w, expected)
                   \/ \E k \in Keys : AcceptHandoffWithFollowUp(k,
                          [handoff |-> h, workItem |-> w, expectedUpdatedAt |-> expected])
      BY <1>1 DEF HandoffStep
    <2>2. \A expected \in 1..MaxStamp :
              [handoff |-> h, workItem |-> w, expectedUpdatedAt |-> expected] \in Command
      BY HandoffAssumption DEF Command, Time
    <2> QED
      BY <2>1, <2>2, CreateHandoffQuiet, UpdateHandoffQuiet, DeleteHandoffQuiet
  <1> QED
    BY <1>1, RecordStepQuiet, ClockQuiet DEF Next

-----------------------------------------------------------------------------
(* The inductive invariant.                                                *)

LEMMA QuietPreserves ==
    ASSUME IInv, QuietStep
    PROVE  IInv'
  <1>1. TypeOK'
    BY DEF IInv, QuietStep, SilentStep, Silent, TypeOK
  <1>2. WorkRefsAlive'
    <2>1. ASSUME NEW h \in Handoffs, handoffs'[h] # Absent
          PROVE  /\ handoffs'[h].workItem \in workItems
                 /\ handoffs'[h].content.targetWorkItem \in workItems \cup {None}
      <3>1. CASE HandoffKept(h)
        BY <2>1, <3>1 DEF HandoffKept, IInv, WorkRefsAlive
      <3>2. CASE HandoffCreated(h)
        BY <3>2 DEF HandoffCreated, ValidHandoff
      <3>3. CASE HandoffRevised(h)
        <4>1. PICK content \in Content :
                /\ ValidHandoff(handoffs[h].workItem, content)
                /\ handoffs'[h] = Revised(handoffs[h], content)
          BY <3>3 DEF HandoffRevised
        <4>2. handoffs[h] \in Handoff /\ now \in Nat
          BY <3>3 DEF HandoffRevised, IInv, TypeOK
        <4>3. /\ handoffs'[h].workItem = handoffs[h].workItem
              /\ handoffs'[h].content = content
          BY <4>1, <4>2, RevisedOK
        <4> QED
          BY <4>1, <4>3 DEF ValidHandoff
      <3> QED
        BY <2>1, <3>1, <3>2, <3>3 DEF QuietStep, HandoffGone
    <2>2. ASSUME NEW a \in Assignments, assignments'[a] # Absent
          PROVE  assignments'[a].workItem \in workItems
      BY <2>2 DEF QuietStep, RecordsKept, IInv, WorkRefsAlive
    <2>3. None \notin WorkItems
      BY HandoffAssumption
    <2> QED
      BY <2>1, <2>2 DEF WorkRefsAlive, QuietStep, RecordsKept
  <1>3. ReceiptsAreFirstAnswers'
    BY DEF IInv, QuietStep, SilentStep, Silent, ReceiptsAreFirstAnswers
  <1>4. OneAnswerPerKey' /\ AnswerHolds'
    BY DEF QuietStep, SilentStep, Silent, OneAnswerPerKey, AnswerHolds
  <1>5. ASSUME NEW h \in Handoffs
        PROVE  /\ \A f \in followUps'[h] : handoffs'[h] # Absent /\ f[1] < handoffs'[h].updatedAt
               /\ \A f, g \in followUps'[h] : f[1] = g[1] => f = g
    <2>1. CASE HandoffKept(h)
      BY <2>1 DEF HandoffKept, IInv, FollowUpsBehind, OneFollowUpPerRevision
    <2>2. CASE HandoffGone(h)
      BY <2>2 DEF HandoffGone
    <2>3. CASE HandoffCreated(h)
      BY <2>3 DEF HandoffCreated, IInv, FollowUpsBehind
    <2>4. CASE HandoffRevised(h)
      <3>1. PICK content \in Content : handoffs'[h] = Revised(handoffs[h], content)
        BY <2>4 DEF HandoffRevised
      <3>2. handoffs[h] \in Handoff /\ now \in Nat /\ followUps'[h] = followUps[h]
        BY <2>4 DEF HandoffRevised, IInv, TypeOK
      <3>3. /\ handoffs'[h] \in Handoff
            /\ handoffs'[h].updatedAt > handoffs[h].updatedAt
        BY <3>1, <3>2, RevisedOK
      <3>4. handoffs'[h].updatedAt \in Nat /\ handoffs[h].updatedAt \in Nat
        BY <3>2, <3>3 DEF Handoff, Time
      <3>5. \A f \in followUps[h] : f[1] \in Nat /\ f[1] < handoffs[h].updatedAt
        BY DEF IInv, FollowUpsBehind, TypeOK, Time
      <3>6. handoffs'[h] # Absent
        BY <3>3, HandoffAssumption
      <3>7. \A f \in followUps'[h] : f[1] < handoffs'[h].updatedAt
        BY <3>2, <3>3, <3>4, <3>5
      <3> QED
        BY <3>2, <3>6, <3>7 DEF IInv, OneFollowUpPerRevision
    <2> QED
      BY <2>1, <2>2, <2>3, <2>4 DEF QuietStep
  <1> QED
    BY <1>1, <1>2, <1>3, <1>4, <1>5 DEF IInv, FollowUpsBehind, OneFollowUpPerRevision

LEMMA ReplayPreserves ==
    ASSUME IInv, NEW k \in Keys, NEW command \in Command, Replay(k, command)
    PROVE  IInv'
  <1>1. /\ receipts[k] # NoAnswer /\ receipts[k] \in Answer /\ receipts[k].command = command
        /\ answered' = <<k, receipts[k]>>
        /\ answers[k] = receipts[k]
        /\ answers' = answers
        /\ UNCHANGED <<handoffs, assignments, workItems, roles, receipts, now, drawn, followUps>>
    BY DEF Replay, Respond, IInv, TypeOK, ReceiptsAreFirstAnswers, entities
  <1>2. TypeOK'
    BY <1>1 DEF IInv, TypeOK
  <1>3. OneAnswerPerKey' /\ ReceiptsAreFirstAnswers'
    BY <1>1 DEF OneAnswerPerKey, IInv, ReceiptsAreFirstAnswers
  <1>4. AnswerHolds'
    <2> DEFINE item == handoffs[command.handoff]
               a == receipts[k].assignment
    <2>1. /\ item # Absent /\ assignments[a] # Absent
          /\ item.content.status = "accepted"
          /\ item.content.targetAssignment = a
          /\ item.content.targetWorkItem = assignments[a].workItem
          /\ item.content.toRole = assignments[a].role
      BY DEF Replay
    <2>2. a \in Assignments
      BY <1>1 DEF Answer
    <2>3. assignments[a].workItem \in workItems
      BY <2>1, <2>2 DEF IInv, WorkRefsAlive
    <2>4. answered'[1] = k /\ answered'[2] = receipts[k]
      BY <1>1
    <2> QED
      BY <1>1, <2>1, <2>3, <2>4 DEF AnswerHolds
  <1>5. WorkRefsAlive' /\ FollowUpsBehind' /\ OneFollowUpPerRevision'
    BY <1>1 DEF IInv, WorkRefsAlive, FollowUpsBehind, OneFollowUpPerRevision
  <1> QED
    BY <1>2, <1>3, <1>4, <1>5 DEF IInv

LEMMA FirstAnswerPreserves ==
    ASSUME IInv, NEW k \in Keys, NEW command \in Command, NEW a \in Assignments,
           NEW outcome \in Outcomes, NEW item \in Handoff,
           FirstAnswer(k, command, a, outcome, item)
    PROVE  IInv'
  <1> DEFINE h == command.handoff
             answer == [command |-> command, assignment |-> a, outcome |-> outcome]
  <1>1. /\ h \in Handoffs /\ command.expectedUpdatedAt \in Time
        /\ handoffs[h] # Absent /\ handoffs[h] \in Handoff
        /\ handoffs[h].updatedAt = command.expectedUpdatedAt
        /\ now \in Nat
    BY DEF FirstAnswer, AtRevision, Command, IInv, TypeOK
  <1>2. /\ answer \in Answer /\ answer.command = command /\ answer.assignment = a
        /\ answers[k] = NoAnswer
        /\ receipts' = [receipts EXCEPT ![k] = answer]
        /\ answers' = [answers EXCEPT ![k] = answer]
        /\ answered' = <<k, answer>>
    BY DEF FirstAnswer, Respond, Answer, IInv, ReceiptsAreFirstAnswers, TypeOK
  <1> HIDE DEF answer
  <1>3. /\ handoffs' = [handoffs EXCEPT ![h] = item]
        /\ handoffs'[h] = item
        /\ assignments' = [assignments EXCEPT ![a] = assignments'[a]]
        /\ assignments'[a] \in Assignment
        /\ UNCHANGED <<workItems, roles, now>>
        /\ drawn' \subseteq Assignments
    BY <1>1 DEF FirstAnswer, IInv, TypeOK
  <1>4. followUps' \in [Handoffs -> SUBSET (Time \X Assignments)]
    BY <1>1 DEF FirstAnswer, IInv, TypeOK
  <1>5. TypeOK'
    BY <1>1, <1>2, <1>3, <1>4 DEF IInv, TypeOK
  <1>6. ReceiptsAreFirstAnswers' /\ OneAnswerPerKey'
    BY <1>2 DEF IInv, ReceiptsAreFirstAnswers, OneAnswerPerKey, TypeOK
  <1>7. /\ item.workItem = handoffs[h].workItem
        /\ item.content.status = "accepted"
        /\ item.content.targetAssignment = a
        /\ item.content.targetWorkItem = assignments'[a].workItem
        /\ item.content.targetWorkItem \in workItems
        /\ item.content.toRole = assignments'[a].role
    BY DEF FirstAnswer
  <1>8. item # Absent /\ assignments'[a] # Absent
    BY <1>3, HandoffAssumption
  <1>9. AnswerHolds'
    <2>1. answered'[1] = k /\ answered'[2] = answer
      BY <1>2
    <2> QED
      BY <1>2, <1>3, <1>7, <1>8, <2>1 DEF AnswerHolds
  <1>10. WorkRefsAlive'
    <2>1. \A g \in Handoffs \ {h} : handoffs'[g] = handoffs[g]
      BY <1>3 DEF IInv, TypeOK
    <2>2. \A b \in Assignments \ {a} : assignments'[b] = assignments[b]
      BY <1>3 DEF IInv, TypeOK
    <2>3. item.workItem \in workItems
      BY <1>1, <1>7 DEF IInv, WorkRefsAlive
    <2> QED
      BY <1>3, <1>7, <2>1, <2>2, <2>3 DEF IInv, WorkRefsAlive
  <1>11. FollowUpsBehind' /\ OneFollowUpPerRevision'
    <2>1. ASSUME NEW g \in Handoffs \ {h}
          PROVE  followUps'[g] = followUps[g] /\ handoffs'[g] = handoffs[g]
      BY <1>1, <1>3 DEF FirstAnswer, IInv, TypeOK
    <2>2. item = handoffs[h] \/ item.updatedAt > handoffs[h].updatedAt
      <3>1. item.content \in Content
        BY DEF Handoff
      <3> QED
        BY <1>1, <3>1, RevisedOK DEF FirstAnswer
    <2>3. handoffs[h].updatedAt \in Nat /\ item.updatedAt \in Nat
      BY <1>1 DEF Handoff, Time
    <2>4. \A f \in followUps[h] : f[1] \in Nat /\ f[1] < handoffs[h].updatedAt
      BY <1>1 DEF IInv, FollowUpsBehind, TypeOK, Time
    <2>5. CASE followUps' = followUps
      <3>1. \A f \in followUps'[h] : f[1] < handoffs'[h].updatedAt
        BY <1>3, <2>2, <2>3, <2>4, <2>5
      <3> QED
        BY <1>3, <1>8, <2>1, <2>5, <3>1 DEF IInv, FollowUpsBehind, OneFollowUpPerRevision
    <2>6. CASE /\ item.updatedAt > handoffs[h].updatedAt
               /\ followUps' = [followUps EXCEPT ![h] =
                      @ \cup {<<command.expectedUpdatedAt, a>>}]
      <3>1. followUps'[h] = followUps[h] \cup {<<handoffs[h].updatedAt, a>>}
        BY <1>1, <2>6 DEF IInv, TypeOK
      <3>2. \A f \in followUps'[h] : f[1] < handoffs'[h].updatedAt
        BY <1>3, <2>3, <2>4, <2>6, <3>1
      <3>3. ASSUME NEW f \in followUps'[h], NEW g \in followUps'[h], f[1] = g[1]
            PROVE  f = g
        <4> DEFINE made == <<handoffs[h].updatedAt, a>>
        <4>1. made[1] = handoffs[h].updatedAt
          OBVIOUS
        <4>2. /\ f \in followUps[h] \/ f = made
              /\ g \in followUps[h] \/ g = made
          BY <3>1, <3>3
        <4> HIDE DEF made
        <4>3. f = made => g = made
          BY <2>3, <2>4, <3>3, <4>1, <4>2
        <4>4. g = made => f = made
          BY <2>3, <2>4, <3>3, <4>1, <4>2
        <4>5. f \in followUps[h] /\ g \in followUps[h] => f = g
          BY <1>1, <3>3 DEF IInv, OneFollowUpPerRevision
        <4> QED
          BY <4>2, <4>3, <4>4, <4>5
      <3> QED
        BY <1>3, <1>8, <2>1, <3>2, <3>3 DEF IInv, FollowUpsBehind, OneFollowUpPerRevision
    <2> QED
      BY <2>5, <2>6 DEF FirstAnswer
  <1> QED
    BY <1>5, <1>6, <1>9, <1>10, <1>11 DEF IInv
-----------------------------------------------------------------------------
(* The theorems.                                                           *)

LEMMA InitOK == Init => IInv
  <1> SUFFICES ASSUME Init PROVE IInv
    OBVIOUS
  <1>1. TypeOK
    BY HandoffAssumption DEF Init, TypeOK
  <1>2. WorkRefsAlive /\ FollowUpsBehind /\ OneFollowUpPerRevision
    BY DEF Init, WorkRefsAlive, FollowUpsBehind, OneFollowUpPerRevision
  <1>3. ReceiptsAreFirstAnswers /\ OneAnswerPerKey /\ AnswerHolds
    BY DEF Init, ReceiptsAreFirstAnswers, OneAnswerPerKey, AnswerHolds
  <1> QED
    BY <1>1, <1>2, <1>3 DEF IInv

LEMMA Inductive == IInv /\ [Next]_vars => IInv'
  <1> SUFFICES ASSUME IInv, [Next]_vars PROVE IInv'
    OBVIOUS
  <1>1. CASE UNCHANGED vars
    BY <1>1 DEF vars, entities, history, IInv, TypeOK, WorkRefsAlive, ReceiptsAreFirstAnswers,
                OneAnswerPerKey, AnswerHolds, FollowUpsBehind, OneFollowUpPerRevision
  <1>2. CASE Next
    <2>1. TypeOK
      BY DEF IInv
    <2>2. CASE QuietStep
      BY <2>2, QuietPreserves
    <2>3. ASSUME NEW k \in Keys, NEW command \in Command, AcceptHandoffWithFollowUp(k, command)
          PROVE  IInv'
      <3>1. CASE Replay(k, command)
        BY <3>1, ReplayPreserves
      <3>2. ASSUME NEW a \in Assignments, NEW outcome \in Outcomes, NEW item \in Handoff,
                   FirstAnswer(k, command, a, outcome, item)
            PROVE  IInv'
        BY <3>2, FirstAnswerPreserves
      <3> QED
        BY <2>1, <2>3, <3>1, <3>2, AcceptEffect
    <2> QED
      BY <1>2, <2>1, <2>2, <2>3, StepKinds
  <1> QED
    BY <1>1, <1>2

\* The inductive invariant holds throughout every behaviour.
THEOREM Invariant == Spec => []IInv
  BY InitOK, Inductive, PTL DEF Spec

\* Every variable of the model holds a value of its kind: no store operation
\* stores a malformed handoff, assignment or receipt.
THEOREM TypeCorrect == Spec => []TypeOK
  <1>1. IInv => TypeOK
    BY DEF IInv
  <1> QED
    BY <1>1, Invariant, PTL

\* All answers AcceptHandoffWithFollowUp ever gives to one idempotency key are
\* the same, however often and in whatever order calls are retried.
THEOREM AnswersAgree == Spec => []OneAnswerPerKey
  <1>1. IInv => OneAnswerPerKey
    BY DEF IInv
  <1> QED
    BY <1>1, Invariant, PTL

\* Every answer AcceptHandoffWithFollowUp gives, fresh or replayed, describes
\* an accepted handoff linked to a living assignment that agrees with it.
THEOREM AnswersHold == Spec => []AnswerHolds
  <1>1. IInv => AnswerHolds
    BY DEF IInv
  <1> QED
    BY <1>1, Invariant, PTL

\* One revision of a handoff yields at most one created follow-up, whatever
\* keys the racing operators use and whatever edits clear the link meanwhile.
THEOREM FollowUpsUnique == Spec => []OneFollowUpPerRevision
  <1>1. IInv => OneFollowUpPerRevision
    BY DEF IInv
  <1> QED
    BY <1>1, Invariant, PTL

\* The cascades of DeleteWorkItem leave no handoff or assignment behind that
\* belongs to, and no handoff that targets, a work item that is gone.
THEOREM WorkRefsStayAlive == Spec => []WorkRefsAlive
  <1>1. IInv => WorkRefsAlive
    BY DEF IInv
  <1> QED
    BY <1>1, Invariant, PTL

\* Every write that handoffTransitionTime stamps strictly advances the
\* revision of a living handoff, also under a clock that steps back.
THEOREM RevisionsAdvance == Spec => HandoffRevisionsAdvance
  <1> DEFINE Advance(h) ==
        (handoffs[h] # Absent /\ handoffs'[h] # Absent /\ handoffs'[h] # handoffs[h]) =>
            /\ handoffs'[h].updatedAt > handoffs[h].updatedAt
            /\ handoffs'[h].updatedAt >= handoffs[h].statusChangedAt
            /\ handoffs'[h].workItem = handoffs[h].workItem
            /\ handoffs'[h].createdAt = handoffs[h].createdAt
            /\ handoffs'[h].statusChangedAt =
                   IF handoffs'[h].content.status = handoffs[h].content.status
                   THEN handoffs[h].statusChangedAt
                   ELSE handoffs'[h].updatedAt
  <1>1. ASSUME IInv, Next, NEW h \in Handoffs,
               handoffs[h] # Absent, handoffs'[h] # Absent, handoffs'[h] # handoffs[h]
        PROVE  \E content \in Content : handoffs'[h] = Revised(handoffs[h], content)
    <2>1. TypeOK
      BY <1>1 DEF IInv
    <2>2. CASE QuietStep
      BY <1>1, <2>2 DEF QuietStep, HandoffKept, HandoffGone, HandoffCreated, HandoffRevised
    <2>3. ASSUME NEW k \in Keys, NEW command \in Command, AcceptHandoffWithFollowUp(k, command)
          PROVE  \E content \in Content : handoffs'[h] = Revised(handoffs[h], content)
      <3>1. ~Replay(k, command)
        BY <1>1 DEF Replay, entities
      <3>2. PICK a \in Assignments, outcome \in Outcomes, item \in Handoff :
                FirstAnswer(k, command, a, outcome, item)
        BY <2>1, <2>3, <3>1, AcceptEffect
      <3>3. /\ handoffs' = [handoffs EXCEPT ![command.handoff] = item]
            /\ item # handoffs[command.handoff] =>
                   item = Revised(handoffs[command.handoff], item.content)
        BY <3>2 DEF FirstAnswer
      <3>4. handoffs'[h] = item /\ h = command.handoff
        BY <1>1, <2>1, <3>3 DEF TypeOK
      <3>5. item.content \in Content
        BY DEF Handoff
      <3> QED
        BY <1>1, <3>3, <3>4, <3>5
    <2> QED
      BY <1>1, <2>1, <2>2, <2>3, StepKinds
  <1>2. IInv /\ Next => \A h \in Handoffs : Advance(h)
    <2> SUFFICES ASSUME IInv, Next, NEW h \in Handoffs, handoffs[h] # Absent,
                        handoffs'[h] # Absent, handoffs'[h] # handoffs[h]
                 PROVE  Advance(h)
      OBVIOUS
    <2>1. PICK content \in Content : handoffs'[h] = Revised(handoffs[h], content)
      BY <1>1
    <2>2. handoffs[h] \in Handoff /\ now \in Nat
      BY DEF IInv, TypeOK
    <2> QED
      BY <2>1, <2>2, RevisedOK
  <1>3. IInv /\ [Next]_vars => [\A h \in Handoffs : Advance(h)]_vars
    BY <1>2
  <1> QED
    BY <1>3, Invariant, PTL DEF Spec, HandoffRevisionsAdvance
=============================================================================
