---------------------------- MODULE ProposalProofs ----------------------------
(***************************************************************************)
(* Theorems about what waits for a human's word, for every value of the    *)
(* constants: assistant proposals (AssistantLedger) and memory candidates  *)
(* (MemoryPromotion).  The two systems share nothing, and neither proof    *)
(* uses the other.                                                         *)
(*                                                                         *)
(* Proposals: assistantMu keeps a second application of its process out,   *)
(* so the record that an application has read stays the stored one until   *)
(* it writes, unless an import or another process comes between, which     *)
(* "overtaken" and "excused" tell.                                         *)
(*                                                                         *)
(* Candidates: a pending candidate is undecided, and a link is what was    *)
(* decided, so neither branch of a promotion can contradict the first      *)
(* resolution, whatever happened since its candidate was read.             *)
(***************************************************************************)
EXTENDS AssistantLedger, MemoryPromotion, FiniteSetTheorems, SequenceTheorems, TLAPS

-----------------------------------------------------------------------------
(* Assistant proposals: the inductive invariant.                           *)

\* Every stored list of actions passes the checks of an import.
ValidBody(body) == ValidProposal(body, FALSE)

\* An application is at an action of the list it has read.
Underway(call) ==
    /\ call.next \in Nat \ {0} /\ ValidBody(call.record.body)
    /\ call.status = "applying" => call.next \in DOMAIN call.record.body

\* Until it is overtaken, its record does not say applied.
NotApplied(c) ==
    /\ calls[c] # Idle /\ ~calls[c].overtaken
    /\ records[calls[c].proposal] # Absent
    => ~IsApplied(records[calls[c].proposal])

\* While the ledger keeps track of a record, at most one application of it is
\* in flight, on the attempts that are stored, and what took effect is what
\* they tell of and what that application has done.
Accounted(p) ==
    records[p] # Absent /\ ~excused[p]
    => LET told == Told(records[p].attempts)
       IN /\ IsFiniteSet(told)
          /\ InFlight(p) = {} => effects[p] = Cardinality(told)
          /\ \A c \in InFlight(p) :
                /\ InFlight(p) = {c}
                /\ calls[c].record.attempts = records[p].attempts
                /\ effects[p] = Cardinality(told) + (calls[c].next - 1)

Types ==
    /\ TypeOK
    /\ home \in [Callers -> Servers]
    /\ lock \in [Servers -> Callers \cup {Free}]
    /\ \A p \in Proposals : records[p] # Absent => ValidBody(records[p].body)
    /\ \A c \in Callers : calls[c] # Idle => Underway(calls[c])

IInv ==
    /\ Types
    /\ \A c \in Callers : NotApplied(c)
    /\ \A p \in Proposals : Accounted(p)

-----------------------------------------------------------------------------
(* Records.                                                                *)

\* An attempt more tells of as many actions more as it counts.
LEMMA ToldMore ==
    ASSUME NEW attempts \in Seq(Attempt), NEW attempt \in Attempt,
           IsFiniteSet(Told(attempts))
    PROVE  /\ IsFiniteSet(Told(Append(attempts, attempt)))
           /\ Cardinality(Told(Append(attempts, attempt)))
              = Cardinality(Told(attempts)) + attempt.count
  <1> DEFINE n == Len(attempts) + 1
             more == {n} \X (1 .. attempt.count)
  <1>1. /\ Len(attempts) \in Nat /\ DOMAIN attempts = 1..Len(attempts)
        /\ DOMAIN Append(attempts, attempt) = 1..n
        /\ Append(attempts, attempt)[n] = attempt
        /\ \A i \in 1..Len(attempts) : Append(attempts, attempt)[i] = attempts[i]
    BY AppendProperties
  <1>2. 1..n = 1..Len(attempts) \cup {n}
    BY <1>1
  <1>3. Told(Append(attempts, attempt)) = Told(attempts) \cup more
    <2>1. \A list, t : t \in Told(list)
              <=> \E i \in DOMAIN list : t \in {i} \X (1 .. list[i].count)
      BY DEF Told
    <2>2. ASSUME NEW t
          PROVE  t \in Told(Append(attempts, attempt)) <=> t \in Told(attempts) \/ t \in more
      <3> PICK list : list = Append(attempts, attempt)
        OBVIOUS
      <3>1. t \in Told(list) <=> \E i \in 1..n : t \in {i} \X (1 .. list[i].count)
        BY <1>1, <2>1
      <3>2. t \in Told(list)
            <=> \/ \E i \in 1..Len(attempts) : t \in {i} \X (1 .. list[i].count)
                \/ t \in {n} \X (1 .. list[n].count)
        BY <1>2, <3>1
      <3>3. (\E i \in 1..Len(attempts) : t \in {i} \X (1 .. list[i].count))
            <=> t \in Told(attempts)
        BY <1>1, <2>1
      <3> QED
        BY <1>1, <3>2, <3>3
    <2> QED
      BY <2>2
  <1>4. Told(attempts) \cap more = {}
    <2>1. \A t \in Told(attempts) : t[1] \in 1..Len(attempts)
      BY <1>1 DEF Told
    <2>2. n \notin 1..Len(attempts)
      BY <1>1
    <2> QED
      BY <2>1, <2>2
  <1>5. IsFiniteSet(more) /\ Cardinality(more) = attempt.count
    <2>1. attempt.count \in Nat
      BY DEF Attempt
    <2>2. /\ IsFiniteSet(1 .. attempt.count) /\ Cardinality(1 .. attempt.count) = attempt.count
          /\ IsFiniteSet({n}) /\ Cardinality({n}) = 1
      <3>1. 1 \in Int /\ attempt.count \in Int
        BY <2>1
      <3>2. /\ IsFiniteSet(1 .. attempt.count)
            /\ Cardinality(1 .. attempt.count)
               = IF 1 > attempt.count THEN 0 ELSE attempt.count - 1 + 1
        BY <3>1, FS_Interval
      <3>3. IsFiniteSet({n}) /\ Cardinality({n}) = 1
        BY FS_Singleton
      <3> QED
        BY <2>1, <3>2, <3>3
    <2>3. IsFiniteSet(more) /\ Cardinality(more) = 1 * Cardinality(1 .. attempt.count)
      BY <2>2, FS_Product
    <2> QED
      BY <2>1, <2>2, <2>3
  <1> HIDE DEF more
  <1>6. Cardinality({}) = 0 /\ Cardinality(Told(attempts)) \in Nat
    BY FS_EmptySet, FS_CardinalityType
  <1>7. attempt.count \in Nat
    BY DEF Attempt
  <1> QED
    <2>1. /\ IsFiniteSet(Told(attempts) \cup more)
          /\ Cardinality(Told(attempts) \cup more)
             = Cardinality(Told(attempts)) + Cardinality(more)
               - Cardinality(Told(attempts) \cap more)
      BY <1>5, FS_Union
    <2>2. Cardinality(Told(attempts) \cap more) = 0
      BY <1>4, <1>6
    <2>3. Cardinality(Told(attempts) \cup more) = Cardinality(Told(attempts)) + attempt.count
      BY <1>5, <1>6, <1>7, <2>1, <2>2
    <2> QED
      BY <1>3, <2>1, <2>3

LEMMA ToldNone == Told(<<>>) = {}
  BY DEF Told

\* A record with a result more.
LEMMA WithResultOK ==
    ASSUME NEW record \in Record, NEW result \in Result, NEW confirmed \in BOOLEAN
    PROVE  LET new == NormalizeRecord(WithResult(record, result, confirmed))
           IN /\ new \in Record
              /\ new.body = record.body /\ new.status = StatusFor(result)
              /\ new.latest = result
              /\ new.attempts = Append(record.attempts, AttemptFor(result, confirmed))
              /\ AttemptFor(result, confirmed) \in Attempt
  <1>1. AttemptFor(result, confirmed) \in Attempt
    <2> DEFINE status == IF result.status = NoStatus THEN "rejected" ELSE result.status
               named == result.status # NoStatus
    <2>1. status \in ResultStatuses /\ result.count \in Nat
      BY DEF Result, ResultStatuses
    <2>2. named \in BOOLEAN
      OBVIOUS
    <2>3. AttemptFor(result, confirmed)
          = [status |-> status, count |-> result.count, confirmed |-> confirmed, named |-> named]
      BY DEF AttemptFor
    <2> HIDE DEF status, named
    <2> QED
      BY <2>1, <2>2, <2>3 DEF Attempt
  <1>2. Append(record.attempts, AttemptFor(result, confirmed)) \in Seq(Attempt)
    BY <1>1, AppendProperties DEF Record
  <1>3. StatusFor(result) \in RecordStatuses
    BY DEF Result, RecordStatuses, StatusFor
  <1> DEFINE with == WithResult(record, result, confirmed)
  <1>4. /\ with \in Record /\ with.body = record.body /\ with.status = StatusFor(result)
        /\ with.latest = result
        /\ with.attempts = Append(record.attempts, AttemptFor(result, confirmed))
    BY <1>2, <1>3 DEF WithResult, Record
  <1> HIDE DEF with
  <1>5. NormalizeRecord(with) = with
    <2>1. [with EXCEPT !.status = StatusFor(with.latest)] = with
      BY <1>4 DEF Record
    <2> QED
      BY <2>1 DEF NormalizeRecord
  <1> QED
    BY <1>1, <1>4, <1>5 DEF with

\* A record as it is stored.
LEMMA NormalizeRecordOK ==
    ASSUME NEW record \in Record
    PROVE  LET new == NormalizeRecord(record)
           IN /\ new \in Record /\ new.body = record.body /\ new.attempts = record.attempts
              /\ new.latest = record.latest
              /\ new.latest # NoResult => new.status = StatusFor(new.latest)
              /\ record.latest = NoResult => new = record
  <1>1. record.latest # NoResult => StatusFor(record.latest) \in RecordStatuses
    BY DEF Record, Result, RecordStatuses, StatusFor
  <1> QED
    BY <1>1 DEF NormalizeRecord, Record

-----------------------------------------------------------------------------
(* Steps.                                                                  *)

\* An application in flight holds the mutex of its process.
LEMMA OfCall ==
    ASSUME IInv, NEW c \in Callers, calls[c] # Idle
    PROVE  /\ calls[c] \in Call /\ calls[c].proposal \in Proposals
           /\ calls[c].record \in Record /\ calls[c].confirmed \in BOOLEAN
           /\ calls[c].next \in Nat \ {0} /\ calls[c].overtaken \in BOOLEAN
           /\ home[c] \in Servers /\ lock[home[c]] = c
           /\ \A d \in Callers : calls[d] # Idle /\ home[d] = home[c] => d = c
  BY DEF IInv, Types, TypeOK, Call, Underway

LEMMA InitHolds ==
    ASSUME Init
    PROVE  IInv
  <1>1. TypeOK
    BY LedgerAssumption DEF Init, TypeOK
  <1> QED
    BY <1>1 DEF Init, IInv, Types, NotApplied, Accounted

LEMMA CreateStep ==
    ASSUME IInv, NEW p \in Proposals, NEW body \in Bodies, CreateAssistantProposal(p, body)
    PROVE  IInv'
  <1> DEFINE new == [body |-> body, status |-> "proposed", latest |-> NoResult,
                     attempts |-> <<>>]
  <1>1. /\ ValidBody(body) /\ UNCHANGED <<targets, home, lock, calls>>
        /\ records' = [records EXCEPT ![p] = NormalizeRecord(new)]
        /\ effects' = [effects EXCEPT ![p] = 0]
        /\ excused' = [excused EXCEPT ![p] = InFlight(p) # {}]
    BY DEF CreateAssistantProposal, ValidProposal, ValidBody
  <1>2. new \in Record
    <2>1. body \in Seq(Action) /\ <<>> \in Seq(Attempt)
      BY LedgerAssumption
    <2> QED
      BY <2>1 DEF Record, RecordStatuses
  <1>3. /\ NormalizeRecord(new) = new /\ new.body = body /\ new.attempts = <<>>
        /\ new.latest = NoResult /\ ~IsApplied(new)
    BY DEF NormalizeRecord, IsApplied
  <1> HIDE DEF new
  <1>4. /\ records \in [Proposals -> Record \cup {Absent}]
        /\ effects \in [Proposals -> 0 .. MaxEffects] /\ excused \in [Proposals -> BOOLEAN]
    BY DEF IInv, Types, TypeOK
  <1>5. /\ records'[p] = new /\ \A q \in Proposals \ {p} : records'[q] = records[q]
        /\ effects'[p] = 0 /\ \A q \in Proposals \ {p} : effects'[q] = effects[q]
        /\ excused'[p] = (InFlight(p) # {})
        /\ \A q \in Proposals \ {p} : excused'[q] = excused[q]
    BY <1>1, <1>3, <1>4
  <1>6. Types'
    <2>1. /\ records' \in [Proposals -> Record \cup {Absent}]
          /\ effects' \in [Proposals -> 0 .. MaxEffects] /\ excused' \in [Proposals -> BOOLEAN]
      BY <1>1, <1>2, <1>3, <1>4, LedgerAssumption
    <2> QED
      BY <1>1, <1>3, <1>5, <2>1 DEF IInv, Types, TypeOK
  <1>7. ASSUME NEW c \in Callers PROVE NotApplied(c)'
    BY <1>1, <1>3, <1>5, OfCall DEF IInv, NotApplied
  <1>8. ASSUME NEW q \in Proposals PROVE Accounted(q)'
    <2>1. InFlight(q)' = InFlight(q)
      BY <1>1 DEF InFlight
    <2>2. CASE q = p
      BY <1>3, <1>5, <2>1, <2>2, ToldNone, FS_EmptySet DEF Accounted
    <2>3. CASE q # p
      <3>1. \A c \in InFlight(q) : calls'[c] = calls[c]
        BY <1>1
      <3> QED
        BY <1>5, <2>1, <2>3, <3>1 DEF IInv, Accounted
    <2> QED
      BY <2>2, <2>3
  <1> QED
    BY <1>6, <1>7, <1>8 DEF IInv

LEMMA ImportStep ==
    ASSUME IInv, NEW p \in Proposals, NEW record \in Imports,
           ImportAssistantProposalRecord(p, record)
    PROVE  IInv'
  <1>1. /\ ValidBody(record.body) /\ UNCHANGED <<targets, home, lock, effects>>
        /\ records' = [records EXCEPT ![p] = NormalizeRecord(record)]
        /\ calls' = [c \in Callers |-> IF c \in InFlight(p)
                                       THEN [calls[c] EXCEPT !.overtaken = TRUE] ELSE calls[c]]
        /\ excused' = [excused EXCEPT ![p] = TRUE]
    BY DEF ImportAssistantProposalRecord, ValidRecord, ValidBody
  <1>2. record \in Record
    BY LedgerAssumption
  <1>3. /\ records \in [Proposals -> Record \cup {Absent}] /\ excused \in [Proposals -> BOOLEAN]
        /\ calls \in [Callers -> Call \cup {Idle}]
    BY DEF IInv, Types, TypeOK
  <1>4. /\ records'[p] = NormalizeRecord(record)
        /\ \A q \in Proposals \ {p} : records'[q] = records[q]
        /\ excused'[p] = TRUE /\ \A q \in Proposals \ {p} : excused'[q] = excused[q]
    BY <1>1, <1>3
  <1>5. /\ NormalizeRecord(record) \in Record
        /\ NormalizeRecord(record).body = record.body
        /\ NormalizeRecord(record).latest # NoResult
           => NormalizeRecord(record).status = StatusFor(NormalizeRecord(record).latest)
    BY <1>2, NormalizeRecordOK
  <1>6. ASSUME NEW c \in Callers
        PROVE  /\ calls'[c] \in Call \cup {Idle} /\ (calls'[c] = Idle <=> calls[c] = Idle)
               /\ calls[c] # Idle =>
                     /\ calls'[c].proposal = calls[c].proposal
                     /\ calls'[c].record = calls[c].record
                     /\ calls'[c].next = calls[c].next /\ calls'[c].status = calls[c].status
                     /\ calls'[c].overtaken = (calls[c].overtaken \/ calls[c].proposal = p)
    <2>1. CASE c \in InFlight(p)
      <3>1. calls[c] \in Call /\ calls'[c] = [calls[c] EXCEPT !.overtaken = TRUE]
            /\ calls[c].proposal = p /\ calls[c] # Idle
        BY <1>1, <1>3, <2>1 DEF InFlight
      <3>2. calls'[c] \in Call
        BY <3>1 DEF Call
      <3> QED
        BY <3>1, <3>2, LedgerAssumption DEF Call
    <2>2. CASE c \notin InFlight(p)
      <3>1. calls[c] # Idle => calls[c].proposal # p /\ calls[c].overtaken \in BOOLEAN
        BY <2>2, OfCall DEF InFlight
      <3> QED
        BY <1>1, <1>3, <2>2, <3>1
    <2> QED
      BY <2>1, <2>2
  <1>7. Types'
    <2>1. /\ records' \in [Proposals -> Record \cup {Absent}]
          /\ excused' \in [Proposals -> BOOLEAN]
      BY <1>1, <1>3, <1>5
    <2>2. calls' \in [Callers -> Call \cup {Idle}]
      BY <1>1, <1>6
    <2>3. TypeOK'
      BY <1>1, <1>4, <1>5, <1>6, <2>1, <2>2 DEF IInv, Types, TypeOK
    <2>4. \A c \in Callers : calls'[c] # Idle => Underway(calls'[c])
      BY <1>6 DEF IInv, Types, Underway
    <2> QED
      BY <1>1, <1>4, <1>5, <2>3, <2>4 DEF IInv, Types
  <1>8. ASSUME NEW c \in Callers PROVE NotApplied(c)'
    <2>1. SUFFICES ASSUME calls'[c] # Idle, ~calls'[c].overtaken,
                          records'[calls'[c].proposal] # Absent
                   PROVE  ~IsApplied(records'[calls'[c].proposal])
      BY DEF NotApplied
    <2>2. /\ calls[c] # Idle /\ calls'[c].proposal = calls[c].proposal
          /\ ~calls[c].overtaken /\ calls[c].proposal # p
      BY <1>6, <2>1
    <2>3. records'[calls[c].proposal] = records[calls[c].proposal]
      BY <1>4, <2>2, OfCall
    <2> QED
      BY <2>1, <2>2, <2>3 DEF IInv, NotApplied
  <1>9. ASSUME NEW q \in Proposals PROVE Accounted(q)'
    <2>1. CASE q = p
      BY <1>4, <2>1 DEF Accounted
    <2>2. CASE q # p
      <3>1. InFlight(q)' = InFlight(q)
        BY <1>6 DEF InFlight
      <3>2. \A c \in InFlight(q) : /\ calls'[c].record = calls[c].record
                                   /\ calls'[c].next = calls[c].next
        BY <1>6 DEF InFlight
      <3> QED
        BY <1>1, <1>4, <2>2, <3>1, <3>2 DEF IInv, Accounted
    <2> QED
      BY <2>1, <2>2
  <1> QED
    BY <1>7, <1>8, <1>9 DEF IInv

LEMMA DeleteProjectStep ==
    ASSUME IInv, DeleteProject
    PROVE  IInv'
  <1>1. /\ UNCHANGED <<home, lock, calls, effects, excused>> /\ targets' = {}
        /\ \A p \in Proposals : records'[p] \in {records[p], Absent}
        /\ records' = [p \in Proposals |-> records'[p]]
    BY DEF DeleteProject
  <1>2. Types'
    BY <1>1 DEF IInv, Types, TypeOK
  <1>3. ASSUME NEW c \in Callers PROVE NotApplied(c)'
    BY <1>1, OfCall DEF IInv, NotApplied
  <1>4. ASSUME NEW q \in Proposals PROVE Accounted(q)'
    <2>1. InFlight(q)' = InFlight(q)
      BY <1>1 DEF InFlight
    <2> QED
      BY <1>1, <2>1 DEF IInv, Accounted
  <1> QED
    BY <1>2, <1>3, <1>4 DEF IInv

LEMMA TargetStep ==
    ASSUME IInv, NEW t \in Targets, CreateTarget(t) \/ DeleteTarget(t)
    PROVE  IInv'
  <1>1. /\ UNCHANGED <<records, home, lock, calls, effects, excused>>
        /\ targets' \in {targets \cup {t}, targets \ {t}}
    BY DEF CreateTarget, DeleteTarget
  <1>2. Types'
    BY <1>1 DEF IInv, Types, TypeOK
  <1>3. \A q \in Proposals : InFlight(q)' = InFlight(q)
    BY <1>1 DEF InFlight
  <1> QED
    BY <1>1, <1>2, <1>3 DEF IInv, NotApplied, Accounted

LEMMA ApplyStep ==
    ASSUME IInv, NEW c \in Callers, NEW p \in Proposals, NEW confirmed \in BOOLEAN,
           ApplyAssistantProposalRecord(c, p, confirmed)
    PROVE  IInv'
  <1> DEFINE new == NewCall(p, records[p], confirmed)
  <1>1. /\ calls[c] = Idle /\ lock[home[c]] = Free /\ records[p] # Absent
        /\ ~IsApplied(records[p])
        /\ lock' = [lock EXCEPT ![home[c]] = c] /\ calls' = [calls EXCEPT ![c] = new]
        /\ excused' = [excused EXCEPT ![p] = @ \/ \E d \in InFlight(p) : home[d] # home[c]]
        /\ UNCHANGED <<records, targets, home, effects>>
    BY DEF ApplyAssistantProposalRecord, Lock
  <1>2. /\ records \in [Proposals -> Record \cup {Absent}] /\ excused \in [Proposals -> BOOLEAN]
        /\ calls \in [Callers -> Call \cup {Idle}] /\ home \in [Callers -> Servers]
        /\ lock \in [Servers -> Callers \cup {Free}]
        /\ \A d \in Callers : calls[d] # Idle <=> lock[home[d]] = d
    BY DEF IInv, Types, TypeOK
  <1>3. records[p] \in Record /\ ValidBody(records[p].body)
    BY <1>1, <1>2 DEF IInv, Types
  <1>4. /\ new \in Call /\ new # Idle /\ new.proposal = p /\ new.next = 1
        /\ new.record = records[p] /\ ~new.overtaken
    <2>1. (IF ~ValidProposal(records[p].body, TRUE) THEN NoStatus
           ELSE IF confirmed THEN "applying" ELSE "needs_confirmation")
          \in ResultStatuses \cup {NoStatus, "applying"}
      BY DEF ResultStatuses
    <2>2. PICK status \in ResultStatuses \cup {NoStatus, "applying"} :
              status = IF ~ValidProposal(records[p].body, TRUE) THEN NoStatus
                       ELSE IF confirmed THEN "applying" ELSE "needs_confirmation"
      BY <2>1
    <2>3. new = [proposal |-> p, record |-> records[p], confirmed |-> confirmed, next |-> 1,
                 status |-> status, overtaken |-> FALSE]
      BY <2>2 DEF NewCall
    <2> HIDE DEF new
    <2>4. new \in Call
      BY <1>3, <2>2, <2>3 DEF Call
    <2> QED
      BY <2>3, <2>4, LedgerAssumption
  <1>5. Underway(new)
    <2>1. records[p].body \in Seq(Action) /\ records[p].body # <<>>
      BY <1>3 DEF Record, ValidProposal, ValidBody
    <2>2. 1 \in DOMAIN records[p].body
      BY <2>1
    <2> QED
      BY <1>3, <1>4, <2>2 DEF Underway
  <1> HIDE DEF new
  <1>6. /\ calls'[c] = new /\ \A d \in Callers \ {c} : calls'[d] = calls[d]
        /\ \A d \in Callers : calls[d] # Idle => home[d] # home[c]
        /\ excused'[p] = (excused[p] \/ \E d \in InFlight(p) : home[d] # home[c])
        /\ \A q \in Proposals \ {p} : excused'[q] = excused[q]
    BY <1>1, <1>2, LedgerAssumption
  <1>7. Types'
    <2>1. /\ calls' \in [Callers -> Call \cup {Idle}] /\ excused' \in [Proposals -> BOOLEAN]
          /\ lock' \in [Servers -> Callers \cup {Free}]
      BY <1>1, <1>2, <1>4
    <2>2. \A d \in Callers : calls'[d] # Idle <=> lock'[home[d]] = d
      BY <1>1, <1>2, <1>4, <1>6, LedgerAssumption
    <2>3. \A d \in Callers : calls'[d] # Idle => Underway(calls'[d])
      BY <1>5, <1>6 DEF IInv, Types
    <2> QED
      BY <1>1, <2>1, <2>2, <2>3 DEF IInv, Types, TypeOK
  <1>8. ASSUME NEW d \in Callers PROVE NotApplied(d)'
    BY <1>1, <1>4, <1>6 DEF IInv, NotApplied
  <1>9. ASSUME NEW q \in Proposals PROVE Accounted(q)'
    <2>1. CASE q # p
      <3>1. InFlight(q)' = InFlight(q)
        BY <1>1, <1>4, <1>6, <2>1 DEF InFlight
      <3>2. \A d \in InFlight(q) : calls'[d] = calls[d]
        BY <1>1, <1>6 DEF InFlight
      <3> QED
        BY <1>1, <1>6, <2>1, <3>1, <3>2 DEF IInv, Accounted
    <2>2. CASE q = p
      <3>1. SUFFICES ASSUME ~excused'[p] PROVE Accounted(p)'
        BY <2>2 DEF Accounted
      <3>2. ~excused[p] /\ InFlight(p) = {}
        BY <1>6, <3>1 DEF InFlight
      <3>3. InFlight(p)' = {c}
        BY <1>1, <1>4, <1>6, <3>2 DEF InFlight
      <3>4. /\ IsFiniteSet(Told(records[p].attempts))
            /\ effects[p] = Cardinality(Told(records[p].attempts))
        BY <1>1, <3>2 DEF IInv, Accounted
      <3>5. Cardinality(Told(records[p].attempts)) + (1 - 1)
            = Cardinality(Told(records[p].attempts))
        BY <3>4, FS_CardinalityType
      <3> QED
        BY <1>1, <1>4, <1>6, <3>3, <3>4, <3>5 DEF Accounted
    <2> QED
      BY <2>1, <2>2
  <1> QED
    BY <1>7, <1>8, <1>9 DEF IInv

\* A step at the actions of an application, which goes on to status and next.
LEMMA AtActions ==
    ASSUME IInv, NEW c \in Callers, Applying(c),
           NEW next \in Nat \ {0}, NEW status \in ResultStatuses \cup {"applying"},
           status = "applying" => next \in DOMAIN calls[c].record.body,
           NEW new, new = [calls[c] EXCEPT !.next = next, !.status = status],
           calls' = [calls EXCEPT ![c] = new],
           UNCHANGED <<records, home, lock>>,
           targets' \subseteq Targets,
           effects' \in [Proposals -> 0 .. MaxEffects], excused' \in [Proposals -> BOOLEAN],
           \A q \in Proposals : ~excused'[q] => ~excused[q],
           \A q \in Proposals \ {calls[c].proposal} : effects'[q] = effects[q],
           ~excused'[calls[c].proposal] =>
               effects'[calls[c].proposal]
               = effects[calls[c].proposal] + (next - calls[c].next)
    PROVE  IInv'
  <1> DEFINE p == calls[c].proposal
  <1>1. calls[c] # Idle /\ calls \in [Callers -> Call \cup {Idle}]
    BY DEF Applying, IInv, Types, TypeOK
  <1>2. /\ calls[c] \in Call /\ p \in Proposals /\ calls[c].next \in Nat
    BY <1>1, OfCall
  <1>3. /\ new \in Call /\ new.proposal = p /\ new.record = calls[c].record
        /\ new.next = next /\ new.status = status /\ new.overtaken = calls[c].overtaken
    BY <1>2 DEF Call
  <1>4. new # Idle /\ Underway(new)
    BY <1>1, <1>3, LedgerAssumption DEF IInv, Types, Underway
  <1>5. /\ calls'[c] = new /\ \A d \in Callers \ {c} : calls'[d] = calls[d]
        /\ calls' \in [Callers -> Call \cup {Idle}]
    BY <1>1, <1>3
  <1>6. Types'
    BY <1>1, <1>4, <1>5 DEF IInv, Types, TypeOK
  <1>7. ASSUME NEW d \in Callers PROVE NotApplied(d)'
    BY <1>1, <1>3, <1>5 DEF IInv, NotApplied
  <1>8. ASSUME NEW q \in Proposals PROVE Accounted(q)'
    <2>1. InFlight(q)' = InFlight(q)
      BY <1>1, <1>3, <1>4, <1>5 DEF InFlight
    <2>2. CASE q # p
      <3>1. \A d \in InFlight(q) : calls'[d] = calls[d]
        BY <1>5, <2>2 DEF InFlight
      <3>2. effects'[q] = effects[q] /\ (~excused'[q] => ~excused[q])
        BY <2>2
      <3>3. Accounted(q)
        BY DEF IInv
      <3> QED
        BY <2>1, <3>1, <3>2, <3>3 DEF Accounted
    <2>3. CASE q = p
      <3>1. SUFFICES ASSUME records[p] # Absent, ~excused'[p] PROVE Accounted(p)'
        BY <2>3 DEF Accounted
      <3>2. c \in InFlight(p) /\ ~excused[p]
        BY <1>1, <1>2, <3>1 DEF InFlight
      <3>3. /\ IsFiniteSet(Told(records[p].attempts)) /\ InFlight(p) = {c}
            /\ calls[c].record.attempts = records[p].attempts
            /\ effects[p] = Cardinality(Told(records[p].attempts)) + (calls[c].next - 1)
        BY <1>2, <3>1, <3>2 DEF IInv, Accounted
      <3>4. Cardinality(Told(records[p].attempts)) \in Nat
        BY <3>3, FS_CardinalityType
      <3>5. effects'[p] = Cardinality(Told(records[p].attempts)) + (next - 1)
        BY <1>2, <3>1, <3>3, <3>4
      <3> QED
        BY <1>3, <1>5, <2>1, <2>3, <3>3, <3>5 DEF Accounted
    <2> QED
      BY <2>2, <2>3
  <1> QED
    BY <1>6, <1>7, <1>8 DEF IInv

\* What an action leaves behind are targets.
LEMMA TargetsAfterOK ==
    ASSUME IInv, NEW c \in Callers, Applying(c)
    PROVE  /\ TargetsAfter(Current(c)) \subseteq Targets /\ targets \subseteq Targets
           /\ calls[c].next \in 1..Len(calls[c].record.body)
           /\ Len(calls[c].record.body) \in Nat
           /\ DOMAIN calls[c].record.body = 1..Len(calls[c].record.body)
  <1>1. calls[c] # Idle /\ calls[c].status = "applying"
    BY DEF Applying
  <1>2. calls[c].record.body \in Seq(Action) /\ calls[c].next \in DOMAIN calls[c].record.body
    BY <1>1, OfCall DEF IInv, Types, Underway, Record
  <1>3. Current(c) \in Action
    BY <1>2, ElementOfSeq DEF Current
  <1> QED
    BY <1>2, <1>3, LenProperties DEF TargetsAfter, Action, IInv, Types, TypeOK

LEMMA ApplyActionStep ==
    ASSUME IInv, NEW c \in Callers, ApplyAction(c)
    PROVE  IInv'
  <1> DEFINE old == calls[c]
             p == calls[c].proposal
             status == IF old.next = Len(old.record.body) THEN "applied" ELSE old.status
             new == [old EXCEPT !.next = old.next + 1, !.status = status]
  <1>1. /\ Applying(c) /\ effects[p] < MaxEffects
        /\ targets' = TargetsAfter(Current(c)) /\ effects' = [effects EXCEPT ![p] = @ + 1]
        /\ UNCHANGED <<records, home, lock, excused>>
    BY DEF ApplyAction
  <1>2. /\ calls \in [Callers -> Call \cup {Idle}] /\ old \in Call /\ p \in Proposals
        /\ old.next \in Nat \ {0} /\ old.status = "applying"
    BY <1>1, OfCall DEF Applying, IInv, Types, TypeOK
  <1>3. calls' = [calls EXCEPT ![c] = new]
    <2>1. calls' = [calls EXCEPT ![c].next = @ + 1, ![c].status = status]
      BY <1>2 DEF ApplyAction
    <2>2. calls = [d \in Callers |-> calls[d]]
      BY <1>2
    <2> HIDE DEF status
    <2>3. calls' = [d \in Callers |-> IF d = c THEN new ELSE calls[d]]
      BY <2>1, <2>2, Zenon
    <2> QED
      BY <2>2, <2>3
  <1>4. /\ old.next + 1 \in Nat \ {0} /\ status \in ResultStatuses \cup {"applying"}
        /\ status = "applying" => old.next + 1 \in DOMAIN old.record.body
    <2>1. status \in ResultStatuses \cup {"applying"}
      BY <1>2 DEF ResultStatuses
    <2>2. \A n \in Nat : \A k \in 1..n : k # n => k + 1 \in 1..n
      OBVIOUS
    <2>3. status = "applying" => old.next # Len(old.record.body)
      BY <1>2
    <2> HIDE DEF old, status
    <2> QED
      BY <1>1, <1>2, <2>1, <2>2, <2>3, TargetsAfterOK DEF old
  <1>5. /\ effects' \in [Proposals -> 0 .. MaxEffects] /\ excused' \in [Proposals -> BOOLEAN]
        /\ effects'[p] = effects[p] + ((old.next + 1) - old.next)
        /\ \A q \in Proposals \ {p} : effects'[q] = effects[q]
    BY <1>1, <1>2, LedgerAssumption DEF IInv, Types, TypeOK
  <1>6. targets' \subseteq Targets
    BY <1>1, TargetsAfterOK
  <1>7. PICK next : next = old.next + 1
    OBVIOUS
  <1>8. PICK to : to = status
    OBVIOUS
  <1> HIDE DEF status
  <1>9. PICK call : call = new
    OBVIOUS
  <1>10. /\ call = [calls[c] EXCEPT !.next = next, !.status = to]
         /\ calls' = [calls EXCEPT ![c] = call]
    BY <1>3, <1>7, <1>8, <1>9
  <1>11. \A q \in Proposals : ~excused'[q] => ~excused[q]
    BY <1>1
  <1> QED
    BY <1>1, <1>4, <1>5, <1>6, <1>7, <1>8, <1>10, <1>11, AtActions

LEMMA FailActionStep ==
    ASSUME IInv, NEW c \in Callers, NEW tookEffect \in BOOLEAN, FailAction(c, tookEffect)
    PROVE  IInv'
  <1> DEFINE old == calls[c]
             p == calls[c].proposal
             status == IF old.next = 1 THEN "rejected" ELSE "partial"
             new == [old EXCEPT !.status = status]
  <1>1. /\ Applying(c) /\ (tookEffect => effects[p] < MaxEffects)
        /\ targets' = IF tookEffect THEN TargetsAfter(Current(c)) ELSE targets
        /\ effects' = IF tookEffect THEN [effects EXCEPT ![p] = @ + 1] ELSE effects
        /\ excused' = [excused EXCEPT ![p] = @ \/ tookEffect]
        /\ UNCHANGED <<records, home, lock>>
    BY DEF FailAction
  <1>2. /\ calls \in [Callers -> Call \cup {Idle}] /\ old \in Call /\ p \in Proposals
        /\ old.next \in Nat \ {0} /\ calls = [d \in Callers |-> calls[d]]
        /\ excused \in [Proposals -> BOOLEAN] /\ effects \in [Proposals -> 0 .. MaxEffects]
    BY <1>1, OfCall DEF Applying, IInv, Types, TypeOK
  <1>3. calls' = [calls EXCEPT ![c] = new]
    <2>1. calls' = [calls EXCEPT ![c].status = status]
      BY DEF FailAction
    <2> HIDE DEF status
    <2>2. calls' = [d \in Callers |-> IF d = c THEN new ELSE calls[d]]
      BY <1>2, <2>1, Zenon
    <2> QED
      BY <1>2, <2>2
  <1>4. status \in ResultStatuses /\ status # "applying"
    BY DEF ResultStatuses
  <1>5. /\ effects' \in [Proposals -> 0 .. MaxEffects]
        /\ \A q \in Proposals \ {p} : effects'[q] = effects[q]
        /\ ~tookEffect => effects'[p] = effects[p]
    BY <1>1, <1>2, LedgerAssumption
  <1>6. targets' \subseteq Targets
    BY <1>1, TargetsAfterOK
  <1>7. /\ excused' \in [Proposals -> BOOLEAN]
        /\ \A q \in Proposals : ~excused'[q] => ~excused[q]
        /\ ~excused'[p] => ~tookEffect
    BY <1>1, <1>2
  <1>8. ~excused'[p] => effects'[p] = effects[p] + (old.next - old.next)
    BY <1>2, <1>5, <1>7
  <1>9. PICK to : to = status
    OBVIOUS
  <1> HIDE DEF status
  <1>10. PICK next : next = old.next
    OBVIOUS
  <1>11. PICK call : call = new
    OBVIOUS
  <1>12. /\ call = [calls[c] EXCEPT !.next = next, !.status = to]
         /\ calls' = [calls EXCEPT ![c] = call]
    <2>1. call = [old EXCEPT !.status = to]
      BY <1>9, <1>11
    <2>2. [old EXCEPT !.status = to] = [old EXCEPT !.next = next, !.status = to]
      BY <1>2, <1>10 DEF Call
    <2> QED
      BY <1>3, <1>11, <2>1, <2>2
  <1> QED
    BY <1>1, <1>2, <1>4, <1>5, <1>6, <1>7, <1>8, <1>9, <1>10, <1>12, AtActions

\* The application of c ends; others at the same record may be overtaken.
LEMMA Ended ==
    ASSUME IInv, NEW c \in Callers, calls[c] # Idle, Unlock(c), UNCHANGED home,
           calls' = [d \in Callers |-> calls'[d]], calls'[c] = Idle,
           \A d \in Callers \ {c} :
              \/ calls'[d] = calls[d]
              \/ calls[d] # Idle /\ calls'[d] = [calls[d] EXCEPT !.overtaken = TRUE]
    PROVE  /\ calls' \in [Callers -> Call \cup {Idle}]
           /\ lock' \in [Servers -> Callers \cup {Free}]
           /\ \A d \in Callers : calls'[d] # Idle <=> lock'[home'[d]] = d
           /\ \A d \in Callers : calls'[d] # Idle => Underway(calls'[d])
           /\ \A d \in Callers \ {c} :
                 /\ calls'[d] = Idle <=> calls[d] = Idle
                 /\ calls[d] # Idle => /\ calls'[d].proposal = calls[d].proposal
                                       /\ calls'[d].record = calls[d].record
                                       /\ calls'[d].next = calls[d].next
                                       /\ calls'[d].overtaken \in {calls[d].overtaken, TRUE}
           /\ \A q \in Proposals : InFlight(q)' = InFlight(q) \ {c}
  <1>1. /\ calls \in [Callers -> Call \cup {Idle}] /\ home \in [Callers -> Servers]
        /\ lock \in [Servers -> Callers \cup {Free}]
        /\ \A d \in Callers : calls[d] # Idle <=> lock[home[d]] = d
        /\ \A d \in Callers : calls[d] # Idle => Underway(calls[d])
    BY DEF IInv, Types, TypeOK
  <1>2. ASSUME NEW d \in Callers \ {c}
        PROVE  /\ calls'[d] \in Call \cup {Idle} /\ (calls'[d] = Idle <=> calls[d] = Idle)
               /\ calls[d] # Idle => /\ calls'[d].proposal = calls[d].proposal
                                     /\ calls'[d].record = calls[d].record
                                     /\ calls'[d].next = calls[d].next
                                     /\ calls'[d].status = calls[d].status
                                     /\ calls'[d].overtaken \in {calls[d].overtaken, TRUE}
    <2>1. CASE calls'[d] = calls[d]
      BY <1>1, <2>1
    <2>2. CASE calls[d] # Idle /\ calls'[d] = [calls[d] EXCEPT !.overtaken = TRUE]
      <3>1. calls[d] \in Call
        BY <1>1, <2>2
      <3>2. calls'[d] \in Call
        BY <2>2, <3>1 DEF Call
      <3> QED
        BY <2>2, <3>1, <3>2, LedgerAssumption DEF Call
    <2> QED
      BY <2>1, <2>2
  <1>3. lock' = [lock EXCEPT ![home[c]] = Free]
    BY DEF Unlock
  <1>4. lock' \in [Servers -> Callers \cup {Free}]
    BY <1>1, <1>3
  <1>5. \A d \in Callers : calls'[d] # Idle <=> lock'[home[d]] = d
    <2> TAKE d \in Callers
    <2>1. d # Free /\ home[d] \in Servers /\ home[c] \in Servers /\ lock[home[c]] = c
      BY <1>1, LedgerAssumption
    <2>2. lock'[home[d]] = IF home[d] = home[c] THEN Free ELSE lock[home[d]]
      BY <1>1, <1>3, <2>1
    <2>3. CASE d = c
      BY <2>1, <2>2, <2>3
    <2>4. CASE d # c
      <3>1. calls'[d] = Idle <=> calls[d] = Idle
        BY <1>2, <2>4
      <3>2. calls[d] # Idle <=> lock[home[d]] = d
        BY <1>1
      <3> QED
        BY <2>1, <2>2, <2>4, <3>1, <3>2
    <2> QED
      BY <2>3, <2>4
  <1>6. calls' \in [Callers -> Call \cup {Idle}]
    BY <1>2
  <1>7. \A d \in Callers : calls'[d] # Idle => Underway(calls'[d])
    BY <1>1, <1>2 DEF Underway
  <1>8. \A q \in Proposals : InFlight(q)' = InFlight(q) \ {c}
    BY <1>2 DEF InFlight
  <1> QED
    BY <1>2, <1>4, <1>5, <1>6, <1>7, <1>8

LEMMA RecordAttemptStep ==
    ASSUME IInv, NEW c \in Callers, RecordAttempt(c)
    PROVE  IInv'
  <1> DEFINE old == calls[c]
             p == calls[c].proposal
             new == NormalizeRecord(WithResult(old.record, ResultOf(old), old.confirmed))
  <1>1. /\ old # Idle /\ ~Applying(c) /\ Unlock(c)
        /\ records' = IF records[p] = Absent THEN records ELSE [records EXCEPT ![p] = new]
        /\ calls' = [d \in Callers |->
               CASE d = c -> Idle
                 [] d # c /\ d \in InFlight(p) /\ home[d] # home[c]
                    -> [calls[d] EXCEPT !.overtaken = TRUE]
                 [] OTHER -> calls[d]]
        /\ UNCHANGED <<targets, home, effects, excused>>
    BY DEF RecordAttempt
  <1>2. /\ old \in Call /\ p \in Proposals /\ old.next \in Nat \ {0} /\ old.record \in Record
        /\ ValidBody(old.record.body)
        /\ records \in [Proposals -> Record \cup {Absent}]
    BY <1>1, OfCall DEF IInv, Types, TypeOK, Underway
  <1>3. ResultOf(old) \in Result /\ ResultOf(old).count = old.next - 1
    BY <1>1, <1>2 DEF Applying, ResultOf, Result, Call
  <1>4. /\ new \in Record /\ new.body = old.record.body
        /\ new.status = StatusFor(new.latest)
        /\ new.attempts = Append(old.record.attempts, AttemptFor(ResultOf(old), old.confirmed))
        /\ AttemptFor(ResultOf(old), old.confirmed) \in Attempt
    BY <1>2, <1>3, WithResultOK DEF Call
  <1>5. AttemptFor(ResultOf(old), old.confirmed).count = old.next - 1
    BY <1>3 DEF AttemptFor
  <1> HIDE DEF new
  <1>6. /\ \A q \in Proposals \ {p} : records'[q] = records[q]
        /\ records[p] = Absent => records'[p] = Absent
        /\ records[p] # Absent => records'[p] = new
        /\ records' \in [Proposals -> Record \cup {Absent}]
    BY <1>1, <1>2, <1>4
  <1>7. /\ calls'[c] = Idle /\ calls' = [d \in Callers |-> calls'[d]]
        /\ \A d \in Callers \ {c} :
              IF d \in InFlight(p) /\ home[d] # home[c]
              THEN calls'[d] = [calls[d] EXCEPT !.overtaken = TRUE]
              ELSE calls'[d] = calls[d]
    BY <1>1
  <1>8. /\ calls' \in [Callers -> Call \cup {Idle}]
        /\ lock' \in [Servers -> Callers \cup {Free}]
        /\ \A d \in Callers : calls'[d] # Idle <=> lock'[home'[d]] = d
        /\ \A d \in Callers : calls'[d] # Idle => Underway(calls'[d])
        /\ \A d \in Callers \ {c} :
              /\ calls'[d] = Idle <=> calls[d] = Idle
              /\ calls[d] # Idle => /\ calls'[d].proposal = calls[d].proposal
                                    /\ calls'[d].record = calls[d].record
                                    /\ calls'[d].next = calls[d].next
                                    /\ calls'[d].overtaken \in {calls[d].overtaken, TRUE}
        /\ \A q \in Proposals : InFlight(q)' = InFlight(q) \ {c}
    <2>1. \A d \in Callers \ {c} :
             \/ calls'[d] = calls[d]
             \/ calls[d] # Idle /\ calls'[d] = [calls[d] EXCEPT !.overtaken = TRUE]
      BY <1>7 DEF InFlight
    <2>2. UNCHANGED home
      BY <1>1
    <2> QED
      BY <1>1, <1>7, <2>1, <2>2, Ended
  <1>9. Types'
    BY <1>1, <1>2, <1>4, <1>6, <1>8 DEF IInv, Types, TypeOK
  <1>10. ASSUME NEW d \in Callers PROVE NotApplied(d)'
    <2>1. SUFFICES ASSUME calls'[d] # Idle, ~calls'[d].overtaken,
                          records'[calls'[d].proposal] # Absent
                   PROVE  ~IsApplied(records'[calls'[d].proposal])
      BY DEF NotApplied
    <2>2. d # c /\ calls[d] # Idle /\ calls'[d].proposal = calls[d].proposal
      BY <1>7, <1>8, <2>1
    <2>3. home[d] # home[c]
      BY <1>1, <2>2, OfCall
    <2>4. calls[d].proposal # p
      <3>1. SUFFICES ASSUME calls[d].proposal = p PROVE FALSE
        OBVIOUS
      <3>2. calls'[d] = [calls[d] EXCEPT !.overtaken = TRUE]
        BY <1>7, <2>2, <2>3, <3>1 DEF InFlight
      <3>3. calls[d] \in Call
        BY <2>2, OfCall
      <3> QED
        BY <2>1, <3>2, <3>3 DEF Call
    <2>5. ~calls[d].overtaken
      BY <1>8, <2>1, <2>2, OfCall
    <2>6. records'[calls[d].proposal] = records[calls[d].proposal]
      BY <1>6, <2>2, <2>4, OfCall
    <2> QED
      BY <2>1, <2>2, <2>5, <2>6 DEF IInv, NotApplied
  <1>11. ASSUME NEW q \in Proposals PROVE Accounted(q)'
    <2>1. CASE q # p
      <3>1. c \notin InFlight(q)
        BY <2>1 DEF InFlight
      <3>2. InFlight(q)' = InFlight(q)
        BY <1>8, <3>1
      <3>3. \A d \in InFlight(q) : /\ calls'[d].record = calls[d].record
                                   /\ calls'[d].next = calls[d].next
        BY <1>8, <3>1 DEF InFlight
      <3> QED
        BY <1>1, <1>6, <2>1, <3>2, <3>3 DEF IInv, Accounted
    <2>2. CASE q = p
      <3>1. SUFFICES ASSUME records'[p] # Absent, ~excused[p] PROVE Accounted(q)'
        BY <1>1, <2>2 DEF Accounted
      <3>2. records[p] # Absent /\ records'[p] = new
        BY <1>6, <3>1
      <3>3. c \in InFlight(p)
        BY <1>1, <1>2 DEF InFlight
      <3>4. /\ IsFiniteSet(Told(records[p].attempts)) /\ InFlight(p) = {c}
            /\ old.record.attempts = records[p].attempts
            /\ effects[p] = Cardinality(Told(records[p].attempts)) + (old.next - 1)
        BY <1>2, <3>1, <3>2, <3>3 DEF IInv, Accounted
      <3>5. old.record.attempts \in Seq(Attempt)
        BY <1>2 DEF Record
      <3>6. /\ IsFiniteSet(Told(new.attempts))
            /\ Cardinality(Told(new.attempts))
               = Cardinality(Told(records[p].attempts)) + (old.next - 1)
        BY <1>4, <1>5, <3>4, <3>5, ToldMore
      <3>7. InFlight(q)' = {}
        BY <1>2, <1>8, <2>2, <3>4
      <3> QED
        BY <1>1, <2>2, <3>2, <3>4, <3>6, <3>7 DEF Accounted
    <2> QED
      BY <2>1, <2>2
  <1> QED
    BY <1>9, <1>10, <1>11 DEF IInv

LEMMA LoseAttemptStep ==
    ASSUME IInv, NEW c \in Callers, LoseAttempt(c)
    PROVE  IInv'
  <1> DEFINE p == calls[c].proposal
  <1>1. /\ calls[c] # Idle /\ Unlock(c) /\ calls' = [calls EXCEPT ![c] = Idle]
        /\ excused' = [excused EXCEPT ![p] = @ \/ calls[c].next > 1]
        /\ UNCHANGED <<records, targets, home, effects>>
    BY DEF LoseAttempt
  <1>2. /\ p \in Proposals /\ calls[c].next \in Nat \ {0}
        /\ calls \in [Callers -> Call \cup {Idle}] /\ excused \in [Proposals -> BOOLEAN]
    BY <1>1, OfCall DEF IInv, Types, TypeOK
  <1>3. /\ calls'[c] = Idle /\ calls' = [d \in Callers |-> calls'[d]]
        /\ \A d \in Callers \ {c} : calls'[d] = calls[d]
        /\ excused' \in [Proposals -> BOOLEAN]
        /\ \A q \in Proposals \ {p} : excused'[q] = excused[q]
        /\ excused'[p] = (excused[p] \/ calls[c].next > 1)
    BY <1>1, <1>2
  <1>4. /\ calls' \in [Callers -> Call \cup {Idle}]
        /\ lock' \in [Servers -> Callers \cup {Free}]
        /\ \A d \in Callers : calls'[d] # Idle <=> lock'[home'[d]] = d
        /\ \A d \in Callers : calls'[d] # Idle => Underway(calls'[d])
        /\ \A q \in Proposals : InFlight(q)' = InFlight(q) \ {c}
    BY <1>1, <1>3, Ended
  <1>5. Types'
    BY <1>1, <1>3, <1>4 DEF IInv, Types, TypeOK
  <1>6. ASSUME NEW d \in Callers PROVE NotApplied(d)'
    BY <1>1, <1>3 DEF IInv, NotApplied
  <1>7. ASSUME NEW q \in Proposals PROVE Accounted(q)'
    <2>1. CASE q # p
      <3>1. c \notin InFlight(q)
        BY <2>1 DEF InFlight
      <3>2. InFlight(q)' = InFlight(q)
        BY <1>4, <3>1
      <3>3. \A d \in InFlight(q) : calls'[d] = calls[d]
        BY <1>3, <3>1 DEF InFlight
      <3> QED
        BY <1>1, <1>3, <2>1, <3>2, <3>3 DEF IInv, Accounted
    <2>2. CASE q = p
      <3>1. SUFFICES ASSUME records[p] # Absent, ~excused'[p] PROVE Accounted(q)'
        BY <1>1, <2>2 DEF Accounted
      <3>2. ~excused[p] /\ calls[c].next = 1 /\ c \in InFlight(p)
        <4>1. ~excused[p] /\ ~(calls[c].next > 1)
          BY <1>3, <3>1
        <4>2. c \in InFlight(p)
          BY <1>1 DEF InFlight
        <4>3. \A n \in Nat \ {0} : ~(n > 1) => n = 1
          OBVIOUS
        <4> QED
          BY <1>2, <4>1, <4>2, <4>3
      <3>3. /\ IsFiniteSet(Told(records[p].attempts)) /\ InFlight(p) = {c}
            /\ effects[p] = Cardinality(Told(records[p].attempts)) + (1 - 1)
        BY <1>2, <3>1, <3>2 DEF IInv, Accounted
      <3>4. effects[p] = Cardinality(Told(records[p].attempts))
        BY <3>3, FS_CardinalityType
      <3>5. InFlight(q)' = {}
        BY <1>2, <1>4, <2>2, <3>3
      <3> QED
        BY <1>1, <2>2, <3>3, <3>4, <3>5 DEF Accounted
    <2> QED
      BY <2>1, <2>2
  <1> QED
    BY <1>5, <1>6, <1>7 DEF IInv

LEMMA CrashStep ==
    ASSUME IInv, NEW s \in Servers, Crash(s)
    PROVE  IInv'
  <1> DEFINE dying == {c \in Callers : calls[c] # Idle /\ home[c] = s}
  <1>1. /\ calls' = [c \in Callers |-> IF c \in dying THEN Idle ELSE calls[c]]
        /\ lock' = [lock EXCEPT ![s] = Free]
        /\ excused' = [p \in Proposals |->
               excused[p] \/ \E c \in dying : calls[c].proposal = p /\ calls[c].next > 1]
        /\ UNCHANGED <<records, targets, home, effects>>
    BY DEF Crash
  <1>2. /\ calls \in [Callers -> Call \cup {Idle}] /\ excused \in [Proposals -> BOOLEAN]
        /\ home \in [Callers -> Servers] /\ lock \in [Servers -> Callers \cup {Free}]
        /\ \A c \in Callers : calls[c] # Idle <=> lock[home[c]] = c
    BY DEF IInv, Types, TypeOK
  <1>3. \A c \in Callers : calls'[c] = IF c \in dying THEN Idle ELSE calls[c]
    BY <1>1
  <1>4. \A c \in Callers : calls'[c] # Idle <=> lock'[home[c]] = c
    <2> TAKE c \in Callers
    <2>1. c # Free /\ home[c] \in Servers
      BY <1>2, LedgerAssumption
    <2>2. lock'[home[c]] = IF home[c] = s THEN Free ELSE lock[home[c]]
      BY <1>1, <1>2, <2>1
    <2> QED
      BY <1>2, <1>3, <2>1, <2>2
  <1>5. /\ calls' \in [Callers -> Call \cup {Idle}] /\ lock' \in [Servers -> Callers \cup {Free}]
        /\ excused' \in [Proposals -> BOOLEAN]
    BY <1>1, <1>2
  <1>6. Types'
    BY <1>1, <1>3, <1>4, <1>5 DEF IInv, Types, TypeOK
  <1>7. ASSUME NEW c \in Callers PROVE NotApplied(c)'
    BY <1>1, <1>3 DEF IInv, NotApplied
  <1>8. ASSUME NEW q \in Proposals PROVE Accounted(q)'
    <2>1. SUFFICES ASSUME records[q] # Absent, ~excused'[q] PROVE Accounted(q)'
      BY <1>1 DEF Accounted
    <2>2. ~excused[q] /\ \A c \in dying : calls[c].proposal = q => ~(calls[c].next > 1)
      BY <1>1, <2>1
    <2>3. InFlight(q)' = InFlight(q) \ dying
      BY <1>3 DEF InFlight
    <2>4. Accounted(q)
      BY DEF IInv
    <2>5. CASE InFlight(q) \cap dying = {}
      <3>1. InFlight(q)' = InFlight(q) /\ \A c \in InFlight(q) : calls'[c] = calls[c]
        BY <1>3, <2>3, <2>5 DEF InFlight
      <3> QED
        BY <1>1, <2>2, <2>4, <3>1 DEF Accounted
    <2>6. CASE InFlight(q) \cap dying # {}
      <3>1. PICK c \in InFlight(q) : c \in dying
        BY <2>6
      <3>2. InFlight(q) = {c} /\ InFlight(q)' = {}
        BY <2>1, <2>2, <2>3, <2>4, <3>1 DEF Accounted
      <3>3. calls[c].next = 1
        <4>1. c \in Callers /\ calls[c] # Idle /\ ~(calls[c].next > 1)
          BY <2>2, <3>1 DEF InFlight
        <4>2. calls[c].next \in Nat \ {0}
          BY <4>1, OfCall
        <4> QED
          BY <4>1, <4>2
      <3>4. /\ IsFiniteSet(Told(records[q].attempts))
            /\ effects[q] = Cardinality(Told(records[q].attempts)) + (1 - 1)
        BY <2>1, <2>2, <2>4, <3>1, <3>3 DEF Accounted
      <3>5. effects[q] = Cardinality(Told(records[q].attempts))
        BY <3>4, FS_CardinalityType
      <3> QED
        BY <1>1, <3>2, <3>4, <3>5 DEF Accounted
    <2> QED
      BY <2>5, <2>6
  <1> QED
    BY <1>6, <1>7, <1>8 DEF IInv

LEMMA StepKeepsIInv ==
    ASSUME IInv, [Next]_vars
    PROVE  IInv'
  <1>1. ASSUME NEW p \in Proposals, NEW body \in Bodies, CreateAssistantProposal(p, body)
        PROVE  IInv'
    BY <1>1, CreateStep
  <1>2. ASSUME NEW p \in Proposals, NEW record \in Imports,
               ImportAssistantProposalRecord(p, record)
        PROVE  IInv'
    BY <1>2, ImportStep
  <1>3. CASE DeleteProject
    BY <1>3, DeleteProjectStep
  <1>4. ASSUME NEW t \in Targets, CreateTarget(t) \/ DeleteTarget(t)
        PROVE  IInv'
    BY <1>4, TargetStep
  <1>5. ASSUME NEW c \in Callers, NEW p \in Proposals, NEW confirmed \in BOOLEAN,
               ApplyAssistantProposalRecord(c, p, confirmed)
        PROVE  IInv'
    BY <1>5, ApplyStep
  <1>6. ASSUME NEW c \in Callers, ApplyAction(c) \/ RecordAttempt(c) \/ LoseAttempt(c)
        PROVE  IInv'
    BY <1>6, ApplyActionStep, RecordAttemptStep, LoseAttemptStep
  <1>7. ASSUME NEW c \in Callers, NEW tookEffect \in BOOLEAN, FailAction(c, tookEffect)
        PROVE  IInv'
    BY <1>7, FailActionStep
  <1>8. ASSUME NEW s \in Servers, Crash(s)
        PROVE  IInv'
    BY <1>8, CrashStep
  <1>9. CASE UNCHANGED vars
    <2>1. \A p \in Proposals : InFlight(p)' = InFlight(p)
      BY <1>9 DEF vars, InFlight
    <2> QED
      BY <1>9, <2>1 DEF vars, IInv, Types, TypeOK, NotApplied, Accounted
  <1> QED
    BY <1>1, <1>2, <1>3, <1>4, <1>5, <1>6, <1>7, <1>8, <1>9 DEF Next

-----------------------------------------------------------------------------
(* The theorems.                                                           *)

\* The mutex, what an application has read, and the count of what it did
\* agree in every state.
THEOREM InvariantHolds == Spec => []IInv
  <1>1. Init => IInv
    BY InitHolds
  <1>2. IInv /\ [Next]_vars => IInv'
    BY StepKeepsIInv
  <1> QED
    BY <1>1, <1>2, PTL DEF Spec

\* Every variable has its type; a process has at most one application in
\* flight, the holder of its mutex; a record's status is the one that its latest
\* result stands for.
THEOREM TypesHold == Spec => []TypeOK
  <1>1. IInv => TypeOK
    BY DEF IInv, Types
  <1> QED
    BY <1>1, InvariantHolds, PTL

\* Whatever the actions, their failures and the applications are, the ledger
\* of a record tells of every action that took effect, except those of the
\* application in flight.
THEOREM LedgerTells == Spec => []LedgerTellsAttempts
  <1>1. ASSUME IInv PROVE LedgerTellsAttempts
    <2>1. SUFFICES ASSUME NEW p \in Proposals, records[p] # Absent, ~excused[p]
                   PROVE  effects[p] = Cardinality(Told(records[p].attempts))
                          + (IF InFlight(p) = {} THEN 0
                             ELSE calls[CHOOSE c \in InFlight(p) : TRUE].next - 1)
      BY DEF LedgerTellsAttempts
    <2>2. /\ IsFiniteSet(Told(records[p].attempts))
          /\ InFlight(p) = {} => effects[p] = Cardinality(Told(records[p].attempts))
          /\ \A c \in InFlight(p) :
                effects[p] = Cardinality(Told(records[p].attempts)) + (calls[c].next - 1)
      BY <1>1, <2>1 DEF IInv, Accounted
    <2>3. CASE InFlight(p) = {}
      BY <2>2, <2>3, FS_CardinalityType
    <2>4. CASE InFlight(p) # {}
      <3>1. (CHOOSE c \in InFlight(p) : TRUE) \in InFlight(p)
        BY <2>4
      <3> QED
        BY <2>2, <2>4, <3>1
    <2> QED
      BY <2>3, <2>4
  <1> QED
    BY <1>1, InvariantHolds, PTL

\* No action of a proposal that its record says applied takes effect again,
\* unless the record was replaced while the application was running.
THEOREM AppliedOnce == Spec => RepeatApplyProtection
  <1>1. ASSUME IInv, [Next]_vars
        PROVE  [\A c \in Callers :
                   TakesEffect(c) /\ records[calls[c].proposal] # Absent
                   /\ IsApplied(records[calls[c].proposal]) => calls[c].overtaken]_vars
    <2>1. ASSUME NEW c \in Callers, TakesEffect(c), records[calls[c].proposal] # Absent,
                 IsApplied(records[calls[c].proposal])
          PROVE  calls[c].overtaken
      <3>1. calls[c] # Idle
        BY <2>1 DEF TakesEffect
      <3> QED
        BY <1>1, <2>1, <3>1 DEF IInv, NotApplied
    <2> QED
      BY <2>1
  <1> QED
    BY <1>1, InvariantHolds, PTL DEF Spec, RepeatApplyProtection

-----------------------------------------------------------------------------
(* Importable ledgers.                                                     *)

\* What is stored and what applications have read can be imported; only a list
\* that lacks a token is without a status.
AllImportable ==
    /\ LedgersImportable
    /\ \A c \in Callers : calls[c] # Idle =>
          /\ Importable(calls[c].record)
          /\ calls[c].status = NoStatus => ~ValidProposal(calls[c].record.body, TRUE)

\* Importability is a matter of the actions and the attempts.
LEMMA ImportableByParts ==
    ASSUME NEW old, NEW new, Importable(old), new.body = old.body, new.attempts = old.attempts
    PROVE  Importable(new)
  BY DEF Importable, ValidRecord

\* One more attempt: only the result without a status does not name its proposal.
LEMMA OneMoreAttempt ==
    ASSUME NEW record \in Record, NEW result \in Result, NEW confirmed \in BOOLEAN,
           Importable(record),
           result.status = NoStatus => ~ValidProposal(record.body, TRUE)
    PROVE  Importable(NormalizeRecord(WithResult(record, result, confirmed)))
  <1> DEFINE new == NormalizeRecord(WithResult(record, result, confirmed))
             more == AttemptFor(result, confirmed)
  <1>1. /\ new.body = record.body /\ new.attempts = Append(record.attempts, more)
        /\ more \in Attempt /\ record.attempts \in Seq(Attempt)
    BY WithResultOK DEF Record
  <1>2. result.status # NoStatus => more.named
    BY DEF AttemptFor
  <1> HIDE DEF new, more
  <1>3. ASSUME ValidProposal(record.body, TRUE), NEW i \in DOMAIN new.attempts
        PROVE  new.attempts[i].named
    <2>1. \A k \in DOMAIN record.attempts : record.attempts[k].named
      BY <1>3 DEF Importable, ValidRecord
    <2>2. \/ i \in DOMAIN record.attempts /\ new.attempts[i] = record.attempts[i]
          \/ new.attempts[i] = more
      BY <1>1, <1>3
    <2> QED
      BY <1>2, <1>3, <2>1, <2>2
  <1>4. Importable(new)
    BY <1>1, <1>3 DEF Importable, ValidRecord
  <1> QED
    BY <1>4 DEF new

LEMMA StepKeepsImportable ==
    ASSUME IInv, AllImportable, [Next]_vars
    PROVE  AllImportable'
  <1> DEFINE CallOK(call) == /\ Importable(call.record)
                             /\ call.status = NoStatus => ~ValidProposal(call.record.body, TRUE)
  <1> USE DEF LedgersImportable
  <1>0. /\ records \in [Proposals -> Record \cup {Absent}] /\ calls \in [Callers -> Call \cup {Idle}]
        /\ \A p \in Proposals : records[p] # Absent => Importable(records[p])
        /\ \A c \in Callers : calls[c] # Idle => CallOK(calls[c])
    BY DEF IInv, Types, TypeOK, AllImportable
  <1>1. ASSUME NEW p \in Proposals, NEW body \in Bodies, CreateAssistantProposal(p, body)
        PROVE  AllImportable'
    <2> DEFINE new == [body |-> body, status |-> "proposed", latest |-> NoResult, attempts |-> <<>>]
    <2>1. /\ ValidProposal(body, TRUE) /\ UNCHANGED calls
          /\ records' = [records EXCEPT ![p] = NormalizeRecord(new)]
      BY <1>1 DEF CreateAssistantProposal
    <2>2. NormalizeRecord(new) = new
      BY DEF NormalizeRecord
    <2>3. Importable(new)
      BY <2>1 DEF Importable, ValidRecord, ValidProposal
    <2> HIDE DEF new
    <2> QED
      BY <1>0, <2>1, <2>2, <2>3 DEF AllImportable
  <1>2. ASSUME NEW p \in Proposals, NEW record \in Imports,
               ImportAssistantProposalRecord(p, record)
        PROVE  AllImportable'
    <2>1. /\ ValidRecord(record) /\ record \in Record
          /\ records' = [records EXCEPT ![p] = NormalizeRecord(record)]
          /\ calls' = [c \in Callers |-> IF c \in InFlight(p)
                                         THEN [calls[c] EXCEPT !.overtaken = TRUE] ELSE calls[c]]
      BY <1>2, LedgerAssumption DEF ImportAssistantProposalRecord
    <2>2. Importable(record)
      BY <2>1 DEF Importable, ValidRecord
    <2>3. Importable(NormalizeRecord(record))
      BY <2>1, <2>2, NormalizeRecordOK, ImportableByParts
    <2>4. ASSUME NEW c \in Callers, calls'[c] # Idle
          PROVE  CallOK(calls'[c])
      <3>1. calls[c] # Idle
        BY <2>1, <2>4 DEF InFlight
      <3>2. calls'[c].record = calls[c].record /\ calls'[c].status = calls[c].status
        BY <1>0, <2>1, <3>1 DEF Call
      <3> QED
        BY <1>0, <3>1, <3>2
    <2> QED
      BY <1>0, <2>1, <2>3, <2>4 DEF AllImportable
  <1>3. CASE DeleteProject
    BY <1>0, <1>3 DEF DeleteProject, AllImportable
  <1>4. ASSUME NEW t \in Targets, CreateTarget(t) \/ DeleteTarget(t)
        PROVE  AllImportable'
    BY <1>4 DEF CreateTarget, DeleteTarget, AllImportable
  <1>5. ASSUME NEW c \in Callers, NEW p \in Proposals, NEW confirmed \in BOOLEAN,
               ApplyAssistantProposalRecord(c, p, confirmed)
        PROVE  AllImportable'
    <2>1. /\ records[p] # Absent /\ UNCHANGED records
          /\ calls' = [calls EXCEPT ![c] = NewCall(p, records[p], confirmed)]
      BY <1>5 DEF ApplyAssistantProposalRecord
    <2>2. CallOK(NewCall(p, records[p], confirmed))
      BY <1>0, <2>1 DEF NewCall, NoStatus
    <2> QED
      BY <1>0, <2>1, <2>2 DEF AllImportable
  <1>6. ASSUME NEW c \in Callers, ApplyAction(c)
        PROVE  AllImportable'
    <2>1. /\ calls[c] # Idle /\ calls[c] \in Call /\ UNCHANGED records
          /\ calls' = [calls EXCEPT ![c].next = @ + 1,
                           ![c].status = IF calls[c].next = Len(calls[c].record.body)
                                         THEN "applied" ELSE @]
          /\ calls[c].status = "applying"
      BY <1>0, <1>6 DEF ApplyAction, Applying
    <2>2. calls'[c].record = calls[c].record /\ calls'[c].status # NoStatus
      BY <1>0, <2>1 DEF Call, NoStatus
    <2>3. \A d \in Callers \ {c} : calls'[d] = calls[d]
      BY <1>0, <2>1
    <2> QED
      BY <1>0, <2>1, <2>2, <2>3 DEF AllImportable
  <1>7. ASSUME NEW c \in Callers, NEW tookEffect \in BOOLEAN, FailAction(c, tookEffect)
        PROVE  AllImportable'
    <2>1. /\ calls[c] # Idle /\ calls[c] \in Call /\ UNCHANGED records
          /\ calls' = [calls EXCEPT ![c].status = IF calls[c].next = 1 THEN "rejected" ELSE "partial"]
      BY <1>0, <1>7 DEF FailAction, Applying
    <2>2. calls'[c].record = calls[c].record /\ calls'[c].status # NoStatus
      BY <1>0, <2>1 DEF Call, NoStatus
    <2>3. \A d \in Callers \ {c} : calls'[d] = calls[d]
      BY <1>0, <2>1
    <2> QED
      BY <1>0, <2>1, <2>2, <2>3 DEF AllImportable
  <1>8. ASSUME NEW c \in Callers, RecordAttempt(c)
        PROVE  AllImportable'
    <2> DEFINE call == calls[c]
               p == call.proposal
               new == NormalizeRecord(WithResult(call.record, ResultOf(call), call.confirmed))
    <2>1. /\ calls[c] # Idle /\ call.status # "applying"
          /\ records' = IF records[p] = Absent THEN records ELSE [records EXCEPT ![p] = new]
          /\ calls' = [d \in Callers |->
                 CASE d = c -> Idle
                   [] d # c /\ d \in InFlight(p) /\ home[d] # home[c] -> [calls[d] EXCEPT !.overtaken = TRUE]
                   [] OTHER -> calls[d]]
      BY <1>8 DEF RecordAttempt, Applying
    <2>2. Importable(new)
      <3>1. /\ call \in Call /\ call.record \in Record /\ call.confirmed \in BOOLEAN
            /\ call.next \in Nat \ {0}
        BY <2>1, OfCall
      <3>2. call.status \in ResultStatuses \cup {NoStatus}
        BY <2>1, <3>1 DEF Call
      <3>3. call.next - 1 \in Nat
        BY <3>1
      <3>4. ResultOf(call) \in Result /\ ResultOf(call).status = call.status
        BY <3>2, <3>3 DEF ResultOf, Result
      <3>5. CallOK(call)
        BY <1>0, <2>1
      <3> HIDE DEF call
      <3> QED
        BY <3>1, <3>4, <3>5, OneMoreAttempt
    <2>3. ASSUME NEW d \in Callers, calls'[d] # Idle
          PROVE  CallOK(calls'[d])
      <3>1. d # c
        BY <2>1, <2>3
      <3>2. calls[d] # Idle
        BY <2>1, <2>3, <3>1 DEF InFlight
      <3>3. calls'[d].record = calls[d].record /\ calls'[d].status = calls[d].status
        BY <1>0, <2>1, <3>1, <3>2 DEF Call
      <3> QED
        BY <1>0, <3>2, <3>3
    <2> HIDE DEF new, p
    <2>4. \A q \in Proposals : records'[q] # Absent => Importable(records'[q])
      BY <1>0, <2>1, <2>2
    <2> QED
      BY <2>3, <2>4 DEF AllImportable
  <1>9. ASSUME NEW c \in Callers, LoseAttempt(c)
        PROVE  AllImportable'
    BY <1>0, <1>9 DEF LoseAttempt, AllImportable
  <1>10. ASSUME NEW s \in Servers, Crash(s)
         PROVE  AllImportable'
    BY <1>0, <1>10 DEF Crash, AllImportable
  <1>11. CASE UNCHANGED vars
    BY <1>11 DEF vars, AllImportable
  <1> QED
    BY <1>1, <1>2, <1>3, <1>4, <1>5, <1>6, <1>7, <1>8, <1>9, <1>10, <1>11 DEF Next

\* A stored proposal passes the checks of an import, with all of its attempts,
\* unless its list lacks a token; then its actions do.
THEOREM ImportableLedgers == Spec => []LedgersImportable
  <1>1. Init => AllImportable
    BY DEF Init, AllImportable, LedgersImportable
  <1>2. IInv /\ AllImportable /\ [Next]_vars => AllImportable'
    BY StepKeepsImportable
  <1>3. AllImportable => LedgersImportable
    BY DEF AllImportable
  <1> QED
    BY <1>1, <1>2, <1>3, InvariantHolds, PTL DEF Spec

-----------------------------------------------------------------------------
(* Memory candidates: the inductive invariant.                             *)

\* What the record of a candidate tells about its first resolution.
RecordTells(c) ==
    Present(c) =>
        /\ candidates[c].status = "pending" => decision[c] = None
        /\ candidates[c].entry # None => decision[c] \in {None, candidates[c].entry}

\* The inductive invariant.
MemoryInv ==
    /\ MemoryTypeOK
    /\ \A c \in Candidates : RecordTells(c)
    /\ PromotionsAgree
    /\ PromotionHolds

\* A step that answers no promotion and writes at most the candidate c.
SilentStep(c) ==
    /\ Silent
    /\ \A d \in Candidates \ {c} : candidates'[d] = candidates[d] /\ decision'[d] = decision[d]
    /\ RecordTells(c)'

LEMMA MemoryBegins == MemoryInit => MemoryInv
  BY DEF MemoryInit, MemoryInv, MemoryTypeOK, RecordTells, Present, PromotionsAgree, PromotionHolds

\* A silent step keeps everything that is not about types.
LEMMA SilentPreserves ==
    ASSUME MemoryInv, MemoryTypeOK', NEW c \in Candidates, SilentStep(c)
    PROVE  MemoryInv'
  <1>1. \A d \in Candidates : RecordTells(d)'
    BY DEF SilentStep, MemoryInv, RecordTells, Present
  <1>2. PromotionsAgree' /\ PromotionHolds'
    BY DEF SilentStep, Silent, PromotionsAgree, PromotionHolds
  <1> QED
    BY <1>1, <1>2 DEF MemoryInv

\* So does a step that leaves candidates and decisions alone.
LEMMA QuietPreserves ==
    ASSUME MemoryInv, MemoryTypeOK', Silent, UNCHANGED <<candidates, decision>>
    PROVE  MemoryInv'
  BY DEF Silent, MemoryInv, RecordTells, Present, PromotionsAgree, PromotionHolds

LEMMA CandidateStepPreserves ==
    ASSUME MemoryInv, NEW c \in Candidates, CandidateStep(c)
    PROVE  MemoryInv'
  <1> MemoryTypeOK
    BY DEF MemoryInv
  <1>1. ASSUME NEW content \in Contents, CreateMemoryCandidate(c, content) PROVE MemoryInv'
    <2> DEFINE new == [content |-> content, status |-> "pending", entry |-> None]
    <2>1. /\ candidates' = [candidates EXCEPT ![c] = new]
          /\ decision' = [decision EXCEPT ![c] = None]
          /\ Silent /\ UNCHANGED <<entries, resolving, drawn>>
      BY <1>1 DEF CreateMemoryCandidate
    <2>2. new \in Candidate
      BY DEF Candidate, Statuses
    <2>3. MemoryTypeOK'
      BY <2>1, <2>2 DEF MemoryTypeOK, Silent
    <2>4. SilentStep(c)
      BY <2>1 DEF SilentStep, RecordTells, Present, MemoryTypeOK
    <2> QED
      BY <2>3, <2>4, SilentPreserves
  <1>2. ASSUME NEW content \in Contents, NEW status \in Statuses, NEW e \in Entries \cup {None},
               UpdateMemoryCandidate(c, content, status, e)
        PROVE  MemoryInv'
    <2> DEFINE new == [content |-> content, status |-> status,
                       entry |-> IF status = "promoted" THEN e ELSE None]
    <2>1. /\ candidates' = [candidates EXCEPT ![c] = new]
          /\ decision' = [decision EXCEPT ![c] = None]
          /\ Silent /\ UNCHANGED <<entries, resolving, drawn>>
      BY <1>2 DEF UpdateMemoryCandidate
    <2>2. new \in Candidate
      BY DEF Candidate
    <2>3. MemoryTypeOK'
      BY <2>1, <2>2 DEF MemoryTypeOK, Silent
    <2>4. SilentStep(c)
      BY <2>1 DEF SilentStep, RecordTells, Present, MemoryTypeOK
    <2> QED
      BY <2>3, <2>4, SilentPreserves
  <1>3. ASSUME DeleteMemoryCandidate(c) PROVE MemoryInv'
    <2>1. /\ candidates' = [candidates EXCEPT ![c] = Missing]
          /\ Silent /\ UNCHANGED <<entries, resolving, drawn, decision>>
      BY <1>3 DEF DeleteMemoryCandidate
    <2>2. MemoryTypeOK'
      BY <2>1 DEF MemoryTypeOK, Silent
    <2>3. SilentStep(c)
      BY <2>1 DEF SilentStep, RecordTells, Present, MemoryTypeOK
    <2> QED
      BY <2>2, <2>3, SilentPreserves
  <1> QED
    BY <1>1, <1>2, <1>3 DEF CandidateStep

LEMMA EntryStepPreserves ==
    ASSUME MemoryInv, NEW e \in Entries, EntryStep(e)
    PROVE  MemoryInv'
  <1>1. Silent /\ UNCHANGED <<candidates, resolving, decision>>
    BY DEF EntryStep, CreateMemoryEntry, UpdateMemoryEntry, DeleteMemoryEntry
  <1>2. entries' \in [Entries -> Contents \cup {Missing}] /\ drawn' \subseteq Entries
    BY DEF EntryStep, CreateMemoryEntry, UpdateMemoryEntry, DeleteMemoryEntry, MemoryInv, MemoryTypeOK
  <1>3. MemoryTypeOK'
    BY <1>1, <1>2 DEF MemoryInv, MemoryTypeOK, Silent
  <1> QED
    BY <1>1, <1>3, QuietPreserves

\* A promotion, whichever way it is answered.
LEMMA PromotePreserves ==
    ASSUME MemoryInv, NEW p \in Reviewers, PromoteMemoryCandidate(p)
    PROVE  MemoryInv'
  <1> DEFINE c == resolving[p].candidate
  <1> MemoryTypeOK
    BY DEF MemoryInv
  <1>1. c \in Candidates /\ resolving[p].content \in Contents
    BY DEF PromoteMemoryCandidate, MemoryTypeOK, Resolution
  <1>2. resolving' \in [Reviewers -> Resolution \cup {NoResolution}]
    BY DEF PromoteMemoryCandidate, Return, MemoryTypeOK
  <1>3. CASE AnswerLinked(c)
    <2> DEFINE e == candidates[c].entry
    <2>1. /\ Present(c) /\ candidates[c].status = "promoted"
          /\ candidates[c] \in Candidate /\ e \in Entries /\ entries[e] # Missing
      BY <1>1, <1>3 DEF AnswerLinked, MemoryTypeOK, Present, Candidate
    <2>2. /\ answered' = [candidate |-> c, entry |-> e]
          /\ decision' = Decided(c, e)
          /\ UNCHANGED <<candidates, entries, drawn>>
      BY <1>3 DEF AnswerLinked, Respond
    <2>3. decision[c] \in {None, e}
      BY <1>1, <2>1, MemoryAssumption DEF MemoryInv, RecordTells
    <2>4. decision' = [decision EXCEPT ![c] = e]
      BY <1>1, <2>2, <2>3 DEF Decided, MemoryTypeOK
    <2>5. MemoryTypeOK'
      BY <1>1, <1>2, <2>1, <2>2, <2>4 DEF MemoryTypeOK, Answer
    <2>6. \A d \in Candidates : RecordTells(d)'
      BY <1>1, <2>1, <2>2, <2>4 DEF MemoryInv, RecordTells, Present, MemoryTypeOK
    <2>7. PromotionsAgree' /\ PromotionHolds'
      BY <1>1, <2>1, <2>2, <2>4 DEF PromotionsAgree, PromotionHolds, Present, MemoryTypeOK
    <2> QED
      BY <2>5, <2>6, <2>7 DEF MemoryInv
  <1>4. CASE CreateEntry(c, resolving[p].content)
    <2>1. PICK e \in Entries :
            /\ entries' = [entries EXCEPT ![e] = resolving[p].content]
            /\ candidates' = [candidates EXCEPT ![c].status = "promoted", ![c].entry = e]
            /\ drawn' = drawn \cup {e}
            /\ answered' = [candidate |-> c, entry |-> e]
            /\ decision' = Decided(c, e)
      BY <1>4 DEF CreateEntry, Respond
    <2> DEFINE new == [candidates[c] EXCEPT !.status = "promoted", !.entry = e]
    <2>2. Present(c) /\ candidates[c] \in Candidate /\ candidates[c].status = "pending"
      BY <1>1, <1>4 DEF CreateEntry, MemoryTypeOK, Present
    <2>3. new \in Candidate /\ new.status = "promoted" /\ new.entry = e
      BY <2>2 DEF Candidate, Statuses
    <2>4. candidates' = [candidates EXCEPT ![c] = new]
      BY <1>1, <2>1 DEF MemoryTypeOK
    <2>5. decision' = [decision EXCEPT ![c] = e]
      BY <1>1, <2>1, <2>2 DEF MemoryInv, RecordTells, Decided, MemoryTypeOK
    <2> HIDE DEF new
    <2>6. MemoryTypeOK'
      BY <1>1, <1>2, <2>1, <2>3, <2>4, <2>5 DEF MemoryTypeOK, Answer
    <2>7. new # Missing /\ resolving[p].content # Missing
      BY <1>1, <2>3, MemoryAssumption
    <2>8. \A d \in Candidates : RecordTells(d)'
      BY <1>1, <2>3, <2>4, <2>5 DEF MemoryInv, RecordTells, Present, MemoryTypeOK
    <2>9. PromotionsAgree' /\ PromotionHolds'
      BY <1>1, <2>1, <2>3, <2>4, <2>5, <2>7 DEF PromotionsAgree, PromotionHolds, Present, MemoryTypeOK
    <2> QED
      BY <2>6, <2>8, <2>9 DEF MemoryInv
  <1> QED
    BY <1>3, <1>4 DEF PromoteMemoryCandidate

LEMMA ReviewStepPreserves ==
    ASSUME MemoryInv, NEW p \in Reviewers, ReviewStep(p)
    PROVE  MemoryInv'
  <1> MemoryTypeOK
    BY DEF MemoryInv
  <1>1. ASSUME NEW c \in Candidates, ReadForPromotion(p, c) \/ ReadForRejection(p, c)
        PROVE  MemoryInv'
    <2>1. Silent /\ UNCHANGED <<candidates, entries, drawn, decision>>
      BY <1>1 DEF ReadForPromotion, ReadForRejection
    <2>2. Present(c) /\ candidates[c].content \in Contents
      BY <1>1 DEF ReadForPromotion, ReadForRejection, Present, MemoryTypeOK, Candidate
    <2>3. resolving' \in [Reviewers -> Resolution \cup {NoResolution}]
      BY <1>1, <2>2 DEF ReadForPromotion, ReadForRejection, MemoryTypeOK, Resolution
    <2> QED
      BY <2>1, <2>3, QuietPreserves DEF MemoryTypeOK, Silent
  <1>2. ASSUME RejectMemoryCandidate(p) PROVE MemoryInv'
    <2>1. PICK c \in Candidates : c = resolving[p].candidate /\ resolving[p].content \in Contents
      BY <1>2 DEF RejectMemoryCandidate, MemoryTypeOK, Resolution
    <2> DEFINE new == [content |-> resolving[p].content, status |-> "rejected", entry |-> None]
    <2>2. /\ candidates' = [candidates EXCEPT ![c] = new]
          /\ decision' = Decided(c, "rejected")
          /\ resolving' = [resolving EXCEPT ![p] = NoResolution]
          /\ Silent /\ UNCHANGED <<entries, drawn>>
      BY <1>2, <2>1 DEF RejectMemoryCandidate, Return
    <2>3. new \in Candidate
      BY <2>1 DEF Candidate, Statuses
    <2>4. MemoryTypeOK'
      BY <2>1, <2>2, <2>3 DEF MemoryTypeOK, Silent, Decided
    <2>5. SilentStep(c)
      BY <2>1, <2>2 DEF SilentStep, RecordTells, Present, Decided, MemoryTypeOK
    <2> QED
      BY <2>1, <2>4, <2>5, SilentPreserves
  <1>3. ASSUME Abandon(p) PROVE MemoryInv'
    <2>1. Silent /\ UNCHANGED <<candidates, entries, drawn, decision>>
      BY <1>3 DEF Abandon
    <2>2. resolving' \in [Reviewers -> Resolution \cup {NoResolution}]
      BY <1>3 DEF Abandon, Return, MemoryTypeOK
    <2> QED
      BY <2>1, <2>2, QuietPreserves DEF MemoryTypeOK, Silent
  <1> QED
    BY <1>1, <1>2, <1>3, PromotePreserves DEF ReviewStep

LEMMA MemoryStep == MemoryInv /\ [MemoryNext]_memoryVars => MemoryInv'
  <1> SUFFICES ASSUME MemoryInv, [MemoryNext]_memoryVars PROVE MemoryInv'
    OBVIOUS
  <1>1. CASE UNCHANGED memoryVars
    BY <1>1 DEF memoryVars, MemoryInv, MemoryTypeOK, RecordTells, Present, PromotionsAgree, PromotionHolds
  <1> QED
    BY <1>1, ReviewStepPreserves, CandidateStepPreserves, EntryStepPreserves DEF MemoryNext

\* The inductive invariant holds throughout every behaviour.
THEOREM MemoryInvHolds == MemorySpec => []MemoryInv
  BY MemoryBegins, MemoryStep, PTL DEF MemorySpec

\* Every variable holds a value of its kind: no promotion, rejection or host
\* edit leaves a link to an entry on a candidate that is not promoted.
THEOREM MemoryTypesHold == MemorySpec => []MemoryTypeOK
  <1>1. MemoryInv => MemoryTypeOK
    BY DEF MemoryInv
  <1> QED
    BY <1>1, MemoryInvHolds, PTL

\* All promotions of a proposal that PromoteMemoryCandidate answers agree with
\* its first resolution, however many reviewers read it while it was pending.
THEOREM PromotionsAlwaysAgree == MemorySpec => []PromotionsAgree
  <1>1. MemoryInv => PromotionsAgree
    BY DEF MemoryInv
  <1> QED
    BY <1>1, MemoryInvHolds, PTL

\* Every promotion that PromoteMemoryCandidate answers, retries included, leaves
\* the candidate promoted and linked to an entry that exists.
THEOREM PromotionsHold == MemorySpec => []PromotionHolds
  <1>1. MemoryInv => PromotionHolds
    BY DEF MemoryInv
  <1> QED
    BY <1>1, MemoryInvHolds, PTL
=============================================================================
