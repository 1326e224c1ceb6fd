-------------------------- MODULE MemoryPromotion --------------------------
(***************************************************************************)
(* Proposed and accepted memory of one project: candidates that reviewers  *)
(* promote into entries or reject, and the hosts that edit both.           *)
(*                                                                         *)
(* Promotion and rejection are calls of two steps: each reads the          *)
(* candidate in one store operation and writes in another, and anything    *)
(* may happen in between.  All other operations are one step, as they look *)
(* at stored state in their write only.  A refused call changes nothing    *)
(* but that its caller is idle again.                                      *)
(***************************************************************************)
CONSTANTS
    Candidates,  \* candidate ids; a host may reuse the id of a deleted one
    Entries,     \* entry ids; the server draws each at most once
    Contents,    \* title, body, trust label and source, as one value
    Reviewers,   \* callers who promote or reject
    None, Missing, NoResolution, NoAnswer

Statuses == {"pending", "promoted", "rejected"}

\* Only a promoted candidate links an entry, and a host may set one without.
Candidate ==
    {item \in [content : Contents, status : Statuses, entry : Entries \cup {None}] :
         item.entry # None => item.status = "promoted"}

\* A call between its read and its write: what it will write.
Resolution == [op : {"promote", "reject"}, candidate : Candidates, content : Contents]
Answer == [candidate : Candidates, entry : Entries]

ASSUME MemoryAssumption ==
    /\ None \notin Entries \cup {"rejected"}
    /\ "rejected" \notin Entries
    /\ Missing \notin Candidate \cup Contents
    /\ NoResolution \notin Resolution
    /\ NoAnswer \notin Answer

VARIABLES
    candidates, entries,
    resolving, \* what each reviewer has read and not yet written
    drawn,     \* entry ids used so far
    decision,  \* history: the first resolution of each candidate since a host last set it
    answered   \* history: what the last step answered, if it answered a promotion

memoryVars == <<candidates, entries, resolving, drawn, decision, answered>>

Silent == answered' = NoAnswer
Present(c) == candidates[c] # Missing
Decided(c, d) == [decision EXCEPT ![c] = IF @ = None THEN d ELSE @]

MemoryInit ==
    /\ candidates = [c \in Candidates |-> Missing]
    /\ entries = [e \in Entries |-> Missing]
    /\ resolving = [p \in Reviewers |-> NoResolution]
    /\ drawn = {}
    /\ decision = [c \in Candidates |-> None]
    /\ answered = NoAnswer

(***************************************************************************)
(* Candidates, as agents and hosts propose and edit them.                  *)
(***************************************************************************)
CreateMemoryCandidate(c, content) ==
    /\ ~Present(c)
    /\ candidates' = [candidates EXCEPT ![c] =
           [content |-> content, status |-> "pending", entry |-> None]]
    /\ decision' = [decision EXCEPT ![c] = None]
    /\ Silent
    /\ UNCHANGED <<entries, resolving, drawn>>

\* Defect: a link to an entry survives in a status other than promoted.
UpdateMemoryCandidate_KeepsLink(c, content, status, e) ==
    /\ Present(c)
    /\ candidates' = [candidates EXCEPT ![c] =
           [content |-> content, status |-> status, entry |-> e]]
    /\ decision' = [decision EXCEPT ![c] = None]
    /\ Silent
    /\ UNCHANGED <<entries, resolving, drawn>>

\* A host's edit sets any status and, with promoted, any link.
UpdateMemoryCandidate(c, content, status, e) ==
    /\ Present(c)
    /\ candidates' = [candidates EXCEPT ![c] =
           [content |-> content, status |-> status,
            entry |-> IF status = "promoted" THEN e ELSE None]]
    /\ decision' = [decision EXCEPT ![c] = None]
    /\ Silent
    /\ UNCHANGED <<entries, resolving, drawn>>

DeleteMemoryCandidate(c) ==
    /\ Present(c)
    /\ candidates' = [candidates EXCEPT ![c] = Missing]
    /\ Silent
    /\ UNCHANGED <<entries, resolving, drawn, decision>>

(***************************************************************************)
(* Entries, as hosts and operators create and edit them.                   *)
(***************************************************************************)
CreateMemoryEntry(e, content) ==
    /\ entries[e] = Missing
    /\ entries' = [entries EXCEPT ![e] = content]
    /\ drawn' = drawn \cup {e}
    /\ Silent
    /\ UNCHANGED <<candidates, resolving, decision>>

UpdateMemoryEntry(e, content) ==
    /\ entries[e] # Missing
    /\ entries' = [entries EXCEPT ![e] = content]
    /\ Silent
    /\ UNCHANGED <<candidates, resolving, drawn, decision>>

\* Candidates keep their links to it.
DeleteMemoryEntry(e) ==
    /\ entries[e] # Missing
    /\ entries' = [entries EXCEPT ![e] = Missing]
    /\ Silent
    /\ UNCHANGED <<candidates, resolving, drawn, decision>>

(***************************************************************************)
(* Promotion.                                                              *)
(***************************************************************************)
\* The reviewer may override any part of the content that was read.
ReadForPromotion(p, c) ==
    /\ resolving[p] = NoResolution
    /\ Present(c)
    /\ \E content \in Contents :
           resolving' = [resolving EXCEPT ![p] =
               [op |-> "promote", candidate |-> c, content |-> content]]
    /\ Silent
    /\ UNCHANGED <<candidates, entries, drawn, decision>>

\* The promotion of c is answered with e.
Respond(c, e) ==
    /\ answered' = [candidate |-> c, entry |-> e]
    /\ decision' = Decided(c, e)

\* Defect: the link is answered without looking for the entry.
AnswerLinked_Blind(c) ==
    /\ Present(c)
    /\ candidates[c].status = "promoted"
    /\ candidates[c].entry # None
    /\ Respond(c, candidates[c].entry)
    /\ UNCHANGED <<candidates, entries, drawn>>

\* A promoted candidate whose entry is still there: a retry.
AnswerLinked(c) ==
    /\ Present(c)
    /\ candidates[c].status = "promoted"
    /\ candidates[c].entry # None
    /\ entries[candidates[c].entry] # Missing
    /\ Respond(c, candidates[c].entry)
    /\ UNCHANGED <<candidates, entries, drawn>>

\* Defect: any candidate without a link is promoted, a rejected one included.
CreateEntry_AnyUnlinked(c, content) ==
    /\ Present(c)
    /\ candidates[c].entry = None
    /\ \E e \in Entries \ drawn :
           /\ entries' = [entries EXCEPT ![e] = content]
           /\ candidates' = [candidates EXCEPT ![c].status = "promoted", ![c].entry = e]
           /\ drawn' = drawn \cup {e}
           /\ Respond(c, e)

\* The status is checked again at the write.
CreateEntry(c, content) ==
    /\ Present(c)
    /\ candidates[c].status = "pending"
    /\ \E e \in Entries \ drawn :
           /\ entries' = [entries EXCEPT ![e] = content]
           /\ candidates' = [candidates EXCEPT ![c].status = "promoted", ![c].entry = e]
           /\ drawn' = drawn \cup {e}
           /\ Respond(c, e)

\* The call p is over.
Return(p) == resolving' = [resolving EXCEPT ![p] = NoResolution]

PromoteMemoryCandidate(p) ==
    /\ resolving[p] # NoResolution
    /\ resolving[p].op = "promote"
    /\ LET c == resolving[p].candidate IN
       \/ AnswerLinked(c)
       \/ CreateEntry(c, resolving[p].content)
    /\ Return(p)

(***************************************************************************)
(* Rejection.                                                              *)
(***************************************************************************)
ReadForRejection(p, c) ==
    /\ resolving[p] = NoResolution
    /\ Present(c)
    /\ candidates[c].status = "pending"
    /\ resolving' = [resolving EXCEPT ![p] =
           [op |-> "reject", candidate |-> c, content |-> candidates[c].content]]
    /\ Silent
    /\ UNCHANGED <<candidates, entries, drawn, decision>>

\* The whole record that was read is written back, whatever it is by now.
RejectMemoryCandidate(p) ==
    /\ resolving[p] # NoResolution
    /\ resolving[p].op = "reject"
    /\ LET c == resolving[p].candidate IN
       /\ Present(c)
       /\ candidates' = [candidates EXCEPT ![c] =
              [content |-> resolving[p].content, status |-> "rejected", entry |-> None]]
       /\ decision' = Decided(c, "rejected")
    /\ Return(p)
    /\ Silent
    /\ UNCHANGED <<entries, drawn>>

\* The write is refused, or the process dies before it.
Abandon(p) ==
    /\ resolving[p] # NoResolution
    /\ Return(p)
    /\ Silent
    /\ UNCHANGED <<candidates, entries, drawn, decision>>

ReviewStep(p) ==
    \/ \E c \in Candidates : ReadForPromotion(p, c) \/ ReadForRejection(p, c)
    \/ PromoteMemoryCandidate(p)
    \/ RejectMemoryCandidate(p)
    \/ Abandon(p)

CandidateStep(c) ==
    \/ \E content \in Contents :
           \/ CreateMemoryCandidate(c, content)
           \/ \E status \in Statuses, e \in Entries \cup {None} :
                  UpdateMemoryCandidate(c, content, status, e)
    \/ DeleteMemoryCandidate(c)

EntryStep(e) ==
    \/ \E content \in Contents : CreateMemoryEntry(e, content) \/ UpdateMemoryEntry(e, content)
    \/ DeleteMemoryEntry(e)

MemoryNext ==
    \/ \E p \in Reviewers : ReviewStep(p)
    \/ \E c \in Candidates : CandidateStep(c)
    \/ \E e \in Entries : EntryStep(e)

MemorySpec == MemoryInit /\ [][MemoryNext]_memoryVars

(***************************************************************************)
(* Properties.                                                             *)
(***************************************************************************)
\* Every variable holds a value of its kind; a link to an entry is never left on
\* a candidate that is not promoted.
MemoryTypeOK ==
    /\ candidates \in [Candidates -> Candidate \cup {Missing}]
    /\ entries \in [Entries -> Contents \cup {Missing}]
    /\ resolving \in [Reviewers -> Resolution \cup {NoResolution}]
    /\ drawn \subseteq Entries
    /\ decision \in [Candidates -> Entries \cup {None, "rejected"}]
    /\ answered \in Answer \cup {NoAnswer}

\* The first resolution of a candidate decides every later promotion: however
\* many reviewers read it while it was pending, all promotions answered until a
\* host sets the candidate again name one entry, none is answered after a
\* rejection that came first, and so at most one entry is made of a proposal.
PromotionsAgree ==
    answered # NoAnswer => decision[answered.candidate] = answered.entry

\* An answered promotion leaves what it says: the candidate is promoted and
\* linked to the entry, which exists, also when the answer is to a retry after
\* entries were deleted or edited.
PromotionHolds ==
    answered # NoAnswer =>
        LET c == answered.candidate IN
        /\ Present(c)
        /\ candidates[c].status = "promoted"
        /\ candidates[c].entry = answered.entry
        /\ entries[answered.entry] # Missing

\* tools.go:1389 describes memory_candidates.reject: "Reject a pending memory
\* candidate without creating accepted memory."  A candidate that is rejected,
\* and that no host has set since it was proposed, has made no entry.
RejectedWithoutMemory ==
    \A c \in Candidates :
        (Present(c) /\ candidates[c].status = "rejected") => decision[c] \in {None, "rejected"}
=============================================================================
