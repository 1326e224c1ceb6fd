---------------------------- MODULE StoreContract ----------------------------
(***************************************************************************)
(* What the callers of a core.Store rely on: an operation takes effect at  *)
(* one moment between its call and its answer, or not at all.  An answer   *)
(* without error says that it did; a typed error says that it did not, and *)
(* was true of the rows when it was given (a conflict may also mean that   *)
(* another writer was in the way); only an untyped error leaves it open.   *)
(* The look-ups of an operation that are not part of its transaction may   *)
(* refuse it, but are not part of its effect.                              *)
(***************************************************************************)
CONSTANTS
    Calls, Requests, InitialRows, NoRequest,
    Operation(_, _),    \* request, rows -> what the operation asks of the rows
    RunAll(_, _),       \* its statements, rows -> the rows after them
    ListMisses(_, _),   \* its statements, rows -> the errors they meet
    Refusals(_, _),     \* request, rows -> every typed error that is true of it
    Typed, Answers

VARIABLES
    rows,  \* the committed rows
    calls  \* call -> its phase, request, effect so far and answer

vars == <<rows, calls>>

Call == [phase : {"idle", "open", "closed", "lost"}, req : Requests \cup {NoRequest},
         done : {"no", "yes", "same"}, answer : Answers]

Init ==
    /\ rows \in InitialRows
    /\ calls = [c \in Calls |-> [phase |-> "idle", req |-> NoRequest, done |-> "no",
                                 answer |-> "none"]]

Open(c) ==
    /\ calls[c].phase = "idle"
    /\ \E q \in Requests : calls' = [calls EXCEPT ![c].phase = "open", ![c].req = q]
    /\ UNCHANGED rows

\* The whole of the operation at once; effect is "same" if it writes nothing.
TakesEffect(c, effect) ==
    LET o == Operation(calls[c].req, rows)
    IN /\ calls[c].phase = "open" /\ calls[c].done = "no"
       /\ o.no = {} /\ ListMisses(o.do, rows) = {}
       /\ effect = (IF o.do = <<>> THEN "same" ELSE "yes")
       /\ rows' = RunAll(o.do, rows)

TakeEffect(c) ==
    \E effect \in {"yes", "same"} :
        TakesEffect(c, effect) /\ calls' = [calls EXCEPT ![c].done = effect]

Honest(c, done, answer) ==
    /\ answer # "none"
    /\ answer = "ok" => done # "no"
    /\ answer \in Typed => done = "no"
    /\ answer \in Typed \ {"conflict"} => answer \in Refusals(calls[c].req, rows)

Answer(c) ==
    /\ calls[c].phase = "open"
    /\ \E a \in Answers : /\ Honest(c, calls[c].done, a)
                          /\ calls' = [calls EXCEPT ![c].phase = "closed", ![c].answer = a]
    /\ UNCHANGED rows

TakeEffectAndAnswer(c) ==
    \E effect \in {"yes", "same"}, a \in {"ok", "failed"} :
        /\ TakesEffect(c, effect)
        /\ calls' = [calls EXCEPT ![c].phase = "closed", ![c].done = effect, ![c].answer = a]

\* A process ends: its open calls are never answered, whatever they did.
Crash ==
    /\ \E S \in SUBSET {c \in Calls : calls[c].phase = "open"} :
           calls' = [c \in Calls |-> [calls[c] EXCEPT !.phase = IF c \in S THEN "lost" ELSE @]]
    /\ UNCHANGED rows

Next == Crash \/ \E c \in Calls : Open(c) \/ TakeEffect(c) \/ Answer(c) \/ TakeEffectAndAnswer(c)

Spec == Init /\ [][Next]_vars
=============================================================================
