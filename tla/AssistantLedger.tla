--------------------------- MODULE AssistantLedger ---------------------------
(***************************************************************************)
(* Assistant proposals: durable records of a list of actions, applied on   *)
(* an operator's confirmation, with a ledger of the attempts.              *)
(*                                                                         *)
(* An application reads the record, performs the actions one store         *)
(* operation after the other, and then writes the record back with its     *)
(* attempt.  Service.assistantMu is held throughout, but each process has  *)
(* its own, imports do not take it, and a process can die in the middle:   *)
(* the records and what the actions did are in the database.               *)
(***************************************************************************)
EXTENDS Naturals, Sequences, FiniteSets

CONSTANTS
    Proposals,      \* proposal ids
    Targets,        \* explicit ids that actions create or update
    Bodies,         \* lists of actions that callers submit
    Imports,        \* records that an import brings
    Servers,        \* processes on one database, each with its own assistantMu
    Callers,        \* tool calls
    MaxAttempts,    \* bound: attempts in one record
    MaxEffects,     \* bound: actions of one proposal that take effect
    NoTarget, NoResult, Absent, Idle, Free

\* What the outcome of an action depends on: creating a project or record
\* under an id drawn by the server, creating a record under an id the proposal
\* names, updating a record, updating a handoff without the revision that was read.
Kinds == {"create_project", "create_drawn", "create", "update", "update_tokenless"}
Action == {a \in [kind : Kinds, target : Targets \cup {NoTarget}] :
               a.kind = "create" => a.target \in Targets}

ResultStatuses == {"applied", "needs_confirmation", "partial", "rejected"}
NoStatus == ""
Result == [status : ResultStatuses \cup {NoStatus}, count : Nat]
\* "named": the attempt carries the id of its proposal.
Attempt == [status : ResultStatuses, count : Nat, confirmed : BOOLEAN, named : BOOLEAN]
RecordStatuses == ResultStatuses \cup {"proposed"}
Record == [body : Seq(Action), status : RecordStatuses, latest : Result \cup {NoResult},
           attempts : Seq(Attempt)]
Call == [proposal : Proposals, record : Record, confirmed : BOOLEAN, next : Nat,
         status : ResultStatuses \cup {NoStatus, "applying"}, overtaken : BOOLEAN]

\* (The code keeps any other status text of an import; nothing tells it from
\* "proposed".)
ASSUME LedgerAssumption ==
    /\ MaxAttempts \in Nat
    /\ MaxEffects \in Nat
    /\ Free \notin Callers
    /\ Bodies \subseteq Seq(Action)
    /\ Imports \subseteq Record
    /\ NoResult \notin Result /\ Absent \notin Record /\ Idle \notin Call

VARIABLES
    records,    \* the stored proposals: body, status, latest result, attempts
    targets,    \* explicit ids that exist
    home,       \* the process that serves each caller
    lock,       \* assistantMu of each process
    calls,      \* applications in flight
    effects,    \* history: actions that took effect for the record
    excused     \* history: the ledger lost track of the record, see below

vars == <<records, targets, home, lock, calls, effects, excused>>

(***************************************************************************)
(* Records and results.                                                    *)
(***************************************************************************)
\* validateAssistantAction: an update names what it updates.
ValidAction(a) == a.kind \in Kinds /\ (a.kind \in {"update", "update_tokenless"} => a.target # NoTarget)

\* validateAssistantProposal: only an import does not require the token.
ValidProposal(body, requireHandoffToken) ==
    /\ body # <<>>
    /\ \A i \in DOMAIN body :
           ValidAction(body[i]) /\ (requireHandoffToken => body[i].kind # "update_tokenless")

\* validateAssistantProposalRecord.
ValidRecord(record) ==
    ValidProposal(record.body, FALSE) /\ \A i \in DOMAIN record.attempts : record.attempts[i].named

\* assistantProposalProjectID: the record belongs to the first project that an
\* action names; the creation of a project need not name one.
NamesProject(body) == \E i \in DOMAIN body : body[i].kind # "create_project"

\* assistantProposalStatusForResult: without a status nothing was tried.
StatusFor(result) == IF result.status = NoStatus THEN "proposed" ELSE result.status

\* Defect: a record is stored with the status it came with.
NormalizeRecord_AsGiven(record) == record

\* normalizeAssistantProposalRecord: the latest result decides the status.
NormalizeRecord(record) ==
    IF record.latest = NoResult THEN record
    ELSE [record EXCEPT !.status = StatusFor(record.latest)]

IsApplied(record) ==
    \/ record.latest # NoResult /\ record.latest.status = "applied"
    \/ record.status = "applied"

\* Defect: an attempt that only asked for confirmation does not name its proposal.
AttemptFor_ConfirmedOnly(result, confirmed) ==
    [status |-> IF result.status = NoStatus THEN "rejected" ELSE result.status,
     count |-> result.count, confirmed |-> confirmed, named |-> result.status # NoStatus /\ confirmed]

\* assistantApplyAttemptForResult and applyAssistantResultToProposalRecord.  The
\* result of a proposal that was refused names neither a status nor its proposal.
AttemptFor(result, confirmed) ==
    [status |-> IF result.status = NoStatus THEN "rejected" ELSE result.status,
     count |-> result.count, confirmed |-> confirmed, named |-> result.status # NoStatus]

\* Defect: the attempts before the latest are dropped.
WithResult_LatestOnly(record, result, confirmed) ==
    [record EXCEPT !.latest = result, !.status = StatusFor(result), !.attempts = <<AttemptFor(result, confirmed)>>]

WithResult(record, result, confirmed) ==
    [record EXCEPT !.latest = result, !.status = StatusFor(result),
                   !.attempts = Append(@, AttemptFor(result, confirmed))]

(***************************************************************************)
(* Proposals come and go.                                                  *)
(***************************************************************************)
InFlight(p) == {c \in Callers : calls[c] # Idle /\ calls[c].proposal = p}

Init ==
    /\ records = [p \in Proposals |-> Absent]
    /\ targets = {}
    /\ home \in [Callers -> Servers]
    /\ lock = [s \in Servers |-> Free]
    /\ calls = [c \in Callers |-> Idle]
    /\ effects = [p \in Proposals |-> 0]
    /\ excused = [p \in Proposals |-> FALSE]

\* AssistantPropose, then the store's insert.
CreateAssistantProposal(p, body) ==
    /\ ValidProposal(body, TRUE)
    /\ records[p] = Absent
    /\ records' = [records EXCEPT ![p] =
           NormalizeRecord([body |-> body, status |-> "proposed", latest |-> NoResult, attempts |-> <<>>])]
    /\ effects' = [effects EXCEPT ![p] = 0]
    /\ excused' = [excused EXCEPT ![p] = InFlight(p) # {}]
    /\ UNCHANGED <<targets, home, lock, calls>>

\* An imported record replaces the stored one, also under an application.
ImportAssistantProposalRecord(p, record) ==
    /\ ValidRecord(record)
    /\ records' = [records EXCEPT ![p] = NormalizeRecord(record)]
    /\ calls' = [c \in Callers |-> IF c \in InFlight(p) THEN [calls[c] EXCEPT !.overtaken = TRUE] ELSE calls[c]]
    /\ excused' = [excused EXCEPT ![p] = TRUE]
    /\ UNCHANGED <<targets, home, lock, effects>>

\* The deletion of a project takes its records and its proposals.
DeleteProject ==
    /\ records' = [p \in Proposals |->
           IF records[p] # Absent /\ NamesProject(records[p].body) THEN Absent ELSE records[p]]
    /\ targets' = {}
    /\ UNCHANGED <<home, lock, calls, effects, excused>>

\* Other callers create and delete the records that actions name.
CreateTarget(t) ==
    /\ targets' = targets \cup {t}
    /\ UNCHANGED <<records, home, lock, calls, effects, excused>>
DeleteTarget(t) ==
    /\ targets' = targets \ {t}
    /\ UNCHANGED <<records, home, lock, calls, effects, excused>>

(***************************************************************************)
(* Applying a stored proposal.                                             *)
(***************************************************************************)
\* Defect: the process's mutex is not taken.
Lock_Skipped(c) == TRUE

\* assistantMu of the caller's process.
Lock(c) == lock[home[c]] = Free

NewCall(p, record, confirmed) ==
    [proposal |-> p, record |-> record, confirmed |-> confirmed, next |-> 1,
     status |-> IF ~ValidProposal(record.body, TRUE) THEN NoStatus
                ELSE IF confirmed THEN "applying" ELSE "needs_confirmation",
     overtaken |-> FALSE]

\* The lock, the read of the record, and the checks for an earlier application.
\* AssistantPropose validates the actions again, now with their tokens; for a
\* refused list, or without confirmation, no action is tried.
ApplyAssistantProposalRecord(c, p, confirmed) ==
    /\ calls[c] = Idle
    /\ Lock(c)
    /\ records[p] # Absent
    /\ ~IsApplied(records[p])
    /\ Len(records[p].attempts) < MaxAttempts
    /\ lock' = [lock EXCEPT ![home[c]] = c]
    /\ calls' = [calls EXCEPT ![c] = NewCall(p, records[p], confirmed)]
    /\ excused' = [excused EXCEPT ![p] = @ \/ \E d \in InFlight(p) : home[d] # home[c]]
    /\ UNCHANGED <<records, targets, home, effects>>

Applying(c) == calls[c] # Idle /\ calls[c].status = "applying"
Current(c) == calls[c].record.body[calls[c].next]

\* Does the action's service call succeed, as far as its target decides?
Possible(a) ==
    CASE a.kind = "create" -> a.target \notin targets
      [] a.kind = "update" -> a.target \in targets
      [] OTHER -> TRUE

\* What the action leaves behind.
TargetsAfter(a) == IF a.kind = "create" THEN targets \cup {a.target} ELSE targets

\* One action of the list takes effect.
ApplyAction(c) ==
    LET call == calls[c]
        p == call.proposal
        done == call.next = Len(call.record.body)
    IN  /\ Applying(c)
        /\ Possible(Current(c))
        /\ effects[p] < MaxEffects
        /\ targets' = TargetsAfter(Current(c))
        /\ effects' = [effects EXCEPT ![p] = @ + 1]
        /\ calls' = [calls EXCEPT ![c].next = @ + 1, ![c].status = IF done THEN "applied" ELSE @]
        /\ UNCHANGED <<records, home, lock, excused>>

\* The action fails, which ends the list: its target forbids it, the store
\* refuses it, or its answer is lost although it took effect.
FailAction(c, tookEffect) ==
    LET p == calls[c].proposal
    IN  /\ Applying(c)
        /\ tookEffect => Possible(Current(c)) /\ effects[p] < MaxEffects
        /\ targets' = IF tookEffect THEN TargetsAfter(Current(c)) ELSE targets
        /\ effects' = IF tookEffect THEN [effects EXCEPT ![p] = @ + 1] ELSE effects
        /\ excused' = [excused EXCEPT ![p] = @ \/ tookEffect]
        /\ calls' = [calls EXCEPT ![c].status = IF calls[c].next = 1 THEN "rejected" ELSE "partial"]
        /\ UNCHANGED <<records, home, lock>>

ResultOf(call) == [status |-> call.status, count |-> call.next - 1]
Unlock(c) == lock' = [lock EXCEPT ![home[c]] = Free]

\* The write of the record that was read, with its attempt, whatever the
\* attempt holds; a record that is gone is not found.
RecordAttempt(c) ==
    LET call == calls[c]
        p == call.proposal
    IN  /\ calls[c] # Idle
        /\ ~Applying(c)
        /\ records' = IF records[p] = Absent THEN records
                      ELSE [records EXCEPT ![p] =
                               NormalizeRecord(WithResult(call.record, ResultOf(call), call.confirmed))]
        /\ calls' = [d \in Callers |->
               CASE d = c -> Idle
                 [] d # c /\ d \in InFlight(p) /\ home[d] # home[c] -> [calls[d] EXCEPT !.overtaken = TRUE]
                 [] OTHER -> calls[d]]
        /\ Unlock(c)
        /\ UNCHANGED <<targets, home, effects, excused>>

\* ... or the write fails and the attempt is not recorded.  (MemoryStore, which
\* validates what it stores, fails like this when the attempt names no proposal.)
LoseAttempt(c) ==
    /\ calls[c] # Idle
    /\ ~Applying(c)
    /\ excused' = [excused EXCEPT ![calls[c].proposal] = @ \/ calls[c].next > 1]
    /\ calls' = [calls EXCEPT ![c] = Idle]
    /\ Unlock(c)
    /\ UNCHANGED <<records, targets, home, effects>>

\* A process dies with all of its calls.
Crash(s) ==
    LET dying == {c \in Callers : calls[c] # Idle /\ home[c] = s}
    IN  /\ dying # {}
        /\ calls' = [c \in Callers |-> IF c \in dying THEN Idle ELSE calls[c]]
        /\ lock' = [lock EXCEPT ![s] = Free]
        /\ excused' = [p \in Proposals |-> excused[p] \/ \E c \in dying : calls[c].proposal = p /\ calls[c].next > 1]
        /\ UNCHANGED <<records, targets, home, effects>>

Next ==
    \/ \E p \in Proposals, body \in Bodies : CreateAssistantProposal(p, body)
    \/ \E p \in Proposals, record \in Imports : ImportAssistantProposalRecord(p, record)
    \/ DeleteProject
    \/ \E t \in Targets : CreateTarget(t) \/ DeleteTarget(t)
    \/ \E c \in Callers, p \in Proposals, confirmed \in BOOLEAN : ApplyAssistantProposalRecord(c, p, confirmed)
    \/ \E c \in Callers : ApplyAction(c) \/ RecordAttempt(c) \/ LoseAttempt(c)
    \/ \E c \in Callers, tookEffect \in BOOLEAN : FailAction(c, tookEffect)
    \/ \E s \in Servers : Crash(s)

Spec == Init /\ [][Next]_vars

(***************************************************************************)
(* Properties.                                                             *)
(***************************************************************************)
\* Every variable has its type; a process has at most one application in
\* flight, the holder of its mutex; a record's status is the one its latest
\* result stands for, imported records included, where a result without a
\* status, that of a refused list, stands for "proposed".
TypeOK ==
    /\ records \in [Proposals -> Record \cup {Absent}]
    /\ \A p \in Proposals :
           records[p] # Absent /\ records[p].latest # NoResult
           => records[p].status = StatusFor(records[p].latest)
    /\ targets \subseteq Targets
    /\ calls \in [Callers -> Call \cup {Idle}]
    /\ \A c \in Callers : (calls[c] # Idle) <=> (lock[home[c]] = c)
    /\ effects \in [Proposals -> 0 .. MaxEffects]
    /\ excused \in [Proposals -> BOOLEAN]

TakesEffect(c) == calls[c] # Idle /\ ApplyAction(c)

\* Repeat-apply protection: once the record of a proposal says applied, none of
\* its actions is performed again - however calls of one process race - unless
\* the record was replaced, by an import or by another process, while the
\* application was running.
RepeatApplyProtection ==
    [][\A c \in Callers : TakesEffect(c) /\ records[calls[c].proposal] # Absent
          /\ IsApplied(records[calls[c].proposal]) => calls[c].overtaken]_vars

\* The actions that the attempts tell of, by the attempt and their number in it.
Told(attempts) == UNION {{i} \X (1 .. attempts[i].count) : i \in DOMAIN attempts}

\* The ledger tells what was done: the actions that took effect are those its
\* attempts count and those of the application in flight.  Excused are a crash,
\* a record write or an answer that was lost, an import, and two processes at
\* one record.
LedgerTellsAttempts ==
    \A p \in Proposals : records[p] # Absent /\ ~excused[p] =>
        effects[p] = Cardinality(Told(records[p].attempts))
                     + (IF InFlight(p) = {} THEN 0 ELSE calls[CHOOSE c \in InFlight(p) : TRUE].next - 1)

\* The record would pass validateAssistantProposalRecord.  The exception is a list
\* with an action that lacks its token and that somebody has tried to apply:
\* that attempt names no proposal.
Importable(record) ==
    /\ ValidProposal(record.body, FALSE)
    /\ ValidProposal(record.body, TRUE) => ValidRecord(record)

\* What is stored can be imported elsewhere, with every attempt that was made on
\* it, by whomever, however it ended.  docs/agent-host-integration.md promises it
\* of historical ledgers as well: of those only the actions stay importable.
LedgersImportable == \A p \in Proposals : records[p] # Absent => Importable(records[p])
=============================================================================
