------------------------ MODULE SqliteTransitionProofs ------------------------
(***************************************************************************)
(* The statement-by-statement store of SqliteTransition implements the     *)
(* one-step operations of StoreContract, whatever the requests, the rows,  *)
(* the calls and the processes are.                                        *)
(*                                                                         *)
(* The inductive invariant follows each call: what it still has to look up *)
(* or to run, and, once its transaction has read, that the rows it sees    *)
(* are the committed ones after the statements it has run.                 *)
(***************************************************************************)
EXTENDS SqliteTransition, StoreStatementsProofs

-----------------------------------------------------------------------------
(* The invariant.                                                          *)

\* A call keeps its process's connection, and may hold a lock.
Kept == {"read", "write", "commit", "undo", "close"}
MayHold == {"read", "write", "commit", "undo"}

IsCall(r) ==
    /\ r = [pc |-> r.pc, req |-> r.req, todo |-> r.todo, answer |-> r.answer, done |-> r.done]
    /\ r.pc \in Steps /\ r.answer \in Answers /\ r.done \in {"no", "yes", "same"}
    /\ r.req \in Requests \cup {NoRequest}
    /\ r.pc # "new" => r.req \in Requests

\* The rows i are those the first k statements of the request make of the
\* rows s, none of them missed, and the others are still to do.
Progress(r, i, s, k) ==
    LET o == Operation(r.req, s)
    IN /\ o.no = {}
       /\ r.todo = SubSeq(o.do, k + 1, Len(o.do))
       /\ i = RunTo(o.do, s)[k]
       /\ \A j \in 1..k : Misses(o.do[j], RunTo(o.do, s)[j - 1]) = {}

\* The lock a call's transaction has: to write, to have read, or none.
Hold(c) == IF lock = c THEN "write" ELSE IF c \in shared THEN "read" ELSE "none"

\* A transaction that has read or written, or one that has done neither.
Writing(r, i, s, hold) ==
    LET o == Operation(r.req, s)
    IN IF hold # "none" THEN \E k \in 0..(Len(o.do) - 1) : Progress(r, i, s, k)
       ELSE /\ o.mode = "deferred" /\ r.req.op # "PromoteMemoryCandidate"
            /\ r.todo = o.do

Committing(r, i, s) ==
    LET o == Operation(r.req, s)
    IN /\ o.no = {} /\ o.do # <<>>
       /\ ListMisses(o.do, s) = {}
       /\ i = RunAll(o.do, s)

Undoing(r, s, hold) ==
    /\ r.answer # "none"
    /\ r.done = IF r.answer = "ok" THEN "same" ELSE "no"
    /\ r.answer \in Typed \ {"conflict"} => hold # "none" /\ r.answer \in Refusals(r.req, s)

\* A call r that sees the rows i, on the committed rows s.
Fits(r, i, s, hold) ==
    /\ Keyed(i) /\ (i # {} => hold # "none")
    /\ hold # "none" => r.pc \in MayHold
    /\ r.pc \in {"new", "look", "exec", "begin", "read", "write", "commit"} => r.done = "no"
    /\ r.pc = "look" =>
          /\ IsList(r.todo) /\ r.todo # <<>>
          /\ Elements(r.todo) \subseteq Elements(Operation(r.req, s).looks)
    /\ r.pc = "exec" => r.todo = <<>> /\ Operation(r.req, s).mode = "auto"
    /\ r.pc = "begin" => Operation(r.req, s).mode # "auto"
    /\ r.pc = "read" => hold # "none" /\ i = s
    /\ r.pc = "write" => Writing(r, i, s, hold)
    /\ r.pc = "commit" => hold = "write" /\ Committing(r, i, s)
    /\ r.pc = "undo" => Undoing(r, s, hold)
    /\ r.pc = "close" => r.done = "yes" /\ r.answer \in {"none", "failed"}

IInv ==
    /\ call = [c \in Calls |-> call[c]]
    /\ img = [c \in Calls |-> img[c]]
    /\ conn = [p \in Processes |-> conn[p]]
    /\ Keyed(store)
    /\ lock \in Calls \cup {Free}
    /\ shared \in SUBSET Calls
    /\ \A p \in Processes :
           conn[p] # Free => /\ conn[p] \in Calls /\ ProcessOf[conn[p]] = p
                             /\ call[conn[p]].pc \in Kept
    /\ \A c \in Calls : call[c].pc \in Kept => conn[ProcessOf[c]] = c
    /\ \A c \in Calls : IsCall(call[c]) /\ Fits(call[c], img[c], store, Hold(c))

-----------------------------------------------------------------------------
(* What requests ask for.                                                  *)

\* The mode and the look-ups do not depend on the rows, nor do the statements
\* of a transaction that reads nothing first.
LEMMA Forms ==
    ASSUME NEW q \in Requests, NEW i, NEW j
    PROVE  /\ Operation(q, i).mode = Operation(q, j).mode
           /\ Operation(q, i).looks = Operation(q, j).looks
           /\ IsList(Operation(q, i).looks)
           /\ AreStatements(Operation(q, i).do)
           /\ Operation(q, i).no \subseteq Typed
           /\ Operation(q, i).mode \in {"auto", "immediate", "deferred"}
           /\ Operation(q, i).mode = "auto" =>
                 /\ Operation(q, i).no = {}
                 /\ \E s : Operation(q, i).do = <<s>> /\ IsStatement(s)
           /\ Operation(q, i).mode = "deferred" /\ q.op # "PromoteMemoryCandidate" =>
                 /\ Operation(q, i).no = {}
                 /\ Operation(q, i).do # <<>>
                 /\ Operation(q, i).do = Operation(q, j).do
  <1>1. q.op \in Ops
    BY CallsAssumption
  <1>2. CASE PlansOne(q)
    BY <1>2, StatementLists DEF PlansOne, Autocommit, Plan
  <1>3. CASE PlansList(q)
    BY <1>3, NoneIsList DEF PlansList, Plan
  <1>4. CASE PlansImmediate(q)
    BY <1>4 DEF PlansImmediate, Decides, Plan
  <1>5. CASE q.op = "PromoteMemoryCandidate" /\ Decides(q, "deferred", <<>>)
    BY <1>5, NoneIsList DEF Decides, Plan
  <1> QED
    BY <1>1, <1>2, <1>3, <1>4, <1>5, EveryOperationPlans

LEMMA StatementsAre ==
    ASSUME NEW list, AreStatements(list)
    PROVE  /\ Len(list) \in Nat /\ DOMAIN list = 1..Len(list)
           /\ \A k \in 1..Len(list) : IsStatement(list[k])
           /\ list # <<>> => Len(list) > 0
  <1>1. list \in Seq(Elements(list))
    BY DEF AreStatements, IsList
  <1>2. Len(list) \in Nat /\ DOMAIN list = 1..Len(list)
    BY <1>1, LenProperties
  <1>3. \A k \in 1..Len(list) : IsStatement(list[k])
    BY <1>2 DEF AreStatements, Elements
  <1>4. list # <<>> => Len(list) > 0
    BY <1>1, <1>2, EmptySeq
  <1> QED
    BY <1>2, <1>3, <1>4

\* The head and the tail of a list that is not empty.
LEMMA ListHeadTail ==
    ASSUME NEW list, IsList(list), list # <<>>
    PROVE  /\ IsList(Tail(list)) /\ Elements(Tail(list)) \subseteq Elements(list)
           /\ Head(list) \in Elements(list)
  <1>1. list \in Seq(Elements(list))
    BY DEF IsList
  <1>2. Tail(list) \in Seq(Elements(list)) /\ Head(list) \in Elements(list)
    BY <1>1, HeadTailProperties
  <1> QED
    BY <1>2, ListOver

\* Statements from k + 1 on.
LEMMA StillToDo ==
    ASSUME NEW list, IsList(list), NEW k \in 0..(Len(list) - 1), Len(list) \in Nat,
           NEW todo, todo = SubSeq(list, k + 1, Len(list))
    PROVE  /\ Head(todo) = list[k + 1]
           /\ Tail(todo) = SubSeq(list, k + 2, Len(list))
           /\ Tail(todo) = <<>> <=> k + 1 = Len(list)
  <1>1. list \in Seq(Elements(list))
    BY DEF IsList
  <1>2. /\ todo \in Seq(Elements(list)) /\ Len(todo) = Len(list) - k
        /\ todo[1] = list[k + 1]
    BY <1>1, SubSeqProperties
  <1>3. k + 1 \in 1..Len(list) /\ Len(list) \in (k + 1)..Len(list) /\ (k + 1) + 1 = k + 2
    OBVIOUS
  <1>4. /\ Head(todo) = list[k + 1]
        /\ Tail(todo) = SubSeq(list, (k + 1) + 1, Len(list))
    BY <1>1, <1>3, HeadTailOfSubSeq
  <1>5. Len(todo) > 0 /\ Len(<<>>) = 0
    BY <1>2
  <1>6. Tail(todo) \in Seq(Elements(list)) /\ Len(Tail(todo)) = Len(todo) - 1
    <2>1. ASSUME todo = <<>> PROVE FALSE
      BY <1>5, <2>1
    <2> QED
      BY <1>2, <2>1, HeadTailProperties
  <1>7. Tail(todo) = <<>> <=> Len(Tail(todo)) = 0
    BY <1>6, EmptySeq
  <1>8. Tail(todo) = <<>> <=> k + 1 = Len(list)
    <2>1. (Len(list) - k) - 1 = 0 <=> k + 1 = Len(list)
      OBVIOUS
    <2> QED
      BY <1>2, <1>6, <1>7, <2>1
  <1> QED
    BY <1>3, <1>4, <1>8

\* A transaction that writes has come to some statement of its list.
LEMMA ComeTo ==
    ASSUME NEW r, r.req \in Requests, NEW i, NEW s, NEW hold, Writing(r, i, s, hold)
    PROVE  \E k \in 0..(Len(Operation(r.req, s).do) - 1) :
               Progress(r, IF hold = "none" THEN s ELSE i, s, k)
  <1> DEFINE do == Operation(r.req, s).do
  <1>1. CASE hold # "none"
    BY <1>1 DEF Writing
  <1>2. CASE hold = "none"
    <2>1. /\ Operation(r.req, s).mode = "deferred" /\ r.req.op # "PromoteMemoryCandidate"
          /\ r.todo = do
      BY <1>2 DEF Writing
    <2>2. Operation(r.req, s).no = {} /\ do # <<>> /\ AreStatements(do)
      BY <2>1, Forms
    <2>3. Len(do) \in Nat /\ Len(do) > 0 /\ do \in Seq(Elements(do))
      BY <2>2, StatementsAre DEF AreStatements, IsList
    <2> HIDE DEF do
    <2>4. RunTo(do, s)[0] = s
      BY <2>3, RunToSteps
    <2>5. do = SubSeq(do, 0 + 1, Len(do))
      <3>1. 1..Len(do) = DOMAIN do /\ SubSeq(do, 1, Len(do)) = [j \in 1..Len(do) |-> do[j]]
        BY <2>3, LenProperties
      <3> QED
        BY <2>3, <3>1
    <2>6. Progress(r, s, s, 0) /\ 0 \in 0..(Len(do) - 1)
      BY <2>1, <2>2, <2>3, <2>4, <2>5 DEF Progress, do
    <2> QED
      BY <1>2, <2>6 DEF do
  <1> QED
    BY <1>1, <1>2

\* Its next statement misses only what the request can be refused for, and
\* else brings it to the one after or to the end of the list.
LEMMA Advance ==
    ASSUME NEW r, r.req \in Requests, NEW i, NEW s,
           NEW k \in 0..(Len(Operation(r.req, s).do) - 1), Progress(r, i, s, k)
    PROVE  LET do == Operation(r.req, s).do
               x == Head(r.todo)
           IN /\ IsStatement(x)
              /\ Misses(x, i) \subseteq Typed \cap Refusals(r.req, s)
              /\ Misses(x, i) = {} /\ Tail(r.todo) = <<>>
                 => Committing(r, Run(x, i), s)
              /\ Misses(x, i) = {} /\ Tail(r.todo) # <<>>
                 => \E l \in 0..(Len(do) - 1) :
                       /\ Tail(r.todo) = SubSeq(do, l + 1, Len(do))
                       /\ Run(x, i) = RunTo(do, s)[l]
                       /\ \A j \in 1..l : Misses(do[j], RunTo(do, s)[j - 1]) = {}
  <1> DEFINE do == Operation(r.req, s).do
             x == Head(r.todo)
  <1>1. AreStatements(do) /\ Operation(r.req, s).no = {}
    BY Forms DEF Progress
  <1>2. /\ Len(do) \in Nat /\ DOMAIN do = 1..Len(do) /\ IsList(do)
        /\ \A j \in 1..Len(do) : IsStatement(do[j])
    BY <1>1, StatementsAre DEF AreStatements
  <1>3. /\ r.todo = SubSeq(do, k + 1, Len(do)) /\ i = RunTo(do, s)[k]
        /\ \A j \in 1..k : Misses(do[j], RunTo(do, s)[j - 1]) = {}
        /\ k \in 0..(Len(do) - 1)
    BY DEF Progress
  <1> HIDE DEF do
  <1>4. x = do[k + 1] /\ Tail(r.todo) = SubSeq(do, k + 2, Len(do))
        /\ (Tail(r.todo) = <<>> <=> k + 1 = Len(do))
    BY <1>2, <1>3, StillToDo
  <1>5. k + 1 \in 1..Len(do) /\ (k + 1) - 1 = k /\ (k + 1) + 1 = k + 2
    BY <1>2, <1>3
  <1>6. Run(x, i) = RunTo(do, s)[k + 1]
    <2>1. RunTo(do, s)[k + 1] = Run(do[k + 1], RunTo(do, s)[(k + 1) - 1])
      BY <1>2, <1>5, RunToSteps
    <2> QED
      BY <1>3, <1>4, <1>5, <2>1
  <1>7. Misses(x, i) \subseteq ListMisses(do, s)
    <2>1. Misses(x, i) = Misses(do[k + 1], RunTo(do, s)[(k + 1) - 1])
      BY <1>3, <1>4, <1>5
    <2> QED
      BY <1>2, <1>5, <2>1 DEF ListMisses
  <1>8. IsStatement(x) /\ Misses(x, i) \subseteq Typed \cap Refusals(r.req, s)
    BY <1>2, <1>4, <1>5, <1>7, MissesTyped DEF Refusals, do
  <1>9. ASSUME Misses(x, i) = {}
        PROVE  \A j \in 1..(k + 1) : Misses(do[j], RunTo(do, s)[j - 1]) = {}
    <2> TAKE j \in 1..(k + 1)
    <2>1. CASE j = k + 1
      BY <1>3, <1>4, <1>5, <1>9, <2>1
    <2>2. CASE j # k + 1
      <3>1. j \in 1..k
        BY <1>3, <2>2
      <3> QED
        BY <1>3, <3>1
    <2> QED
      BY <2>1, <2>2
  <1>10. ASSUME Misses(x, i) = {}, Tail(r.todo) = <<>>
         PROVE  Committing(r, Run(x, i), s)
    <2>1. k + 1 = Len(do)
      BY <1>4, <1>10
    <2>2. ListMisses(do, s) = {}
      BY <1>2, <1>9, <1>10, <2>1 DEF ListMisses
    <2>3. Run(x, i) = RunAll(do, s)
      BY <1>6, <2>1 DEF RunAll
    <2>4. do # <<>>
      BY <1>5, <2>1
    <2> QED
      BY <1>1, <2>2, <2>3, <2>4 DEF Committing, do
  <1>11. ASSUME Misses(x, i) = {}, Tail(r.todo) # <<>>
         PROVE  k + 1 \in 0..(Len(do) - 1)
    <2>1. k + 1 # Len(do)
      BY <1>4, <1>11
    <2>2. \A n \in Nat : \A m \in 0..(n - 1) : m + 1 # n => m + 1 \in 0..(n - 1)
      OBVIOUS
    <2> QED
      BY <1>2, <1>3, <2>1, <2>2
  <1> QED
    BY <1>4, <1>5, <1>6, <1>8, <1>9, <1>10, <1>11 DEF do

-----------------------------------------------------------------------------
(* A step of one call.                                                     *)

Made(pc, req, todo, answer, done) ==
    [pc |-> pc, req |-> req, todo |-> todo, answer |-> answer, done |-> done]
With(c, r) == [d \in Calls |-> IF d = c THEN r ELSE call[d]]

\* The calls as the actions assign to them.
ReturnWith(c, answer, done) == [Return(c, answer) EXCEPT ![c].done = done]
UndoWith(c, answer, done) == [Undo(c, answer) EXCEPT ![c].done = done]
ToAsk(c, req, todo, pc) == [call EXCEPT ![c].req = req, ![c].todo = todo, ![c].pc = pc]
ToDo(c, todo, pc) == [call EXCEPT ![c].todo = todo, ![c].pc = pc]
ToRun(c, pc, todo) == [call EXCEPT ![c].pc = pc, ![c].todo = todo]
ToGo(c, pc) == [call EXCEPT ![c].pc = pc]
ToEnd(c, pc, done, answer) == [call EXCEPT ![c].pc = pc, ![c].done = done, ![c].answer = answer]

\* What the assignments of the actions make of the calls.
LEMMA Returning ==
    ASSUME call = [d \in Calls |-> call[d]], NEW c \in Calls, IsCall(call[c]), NEW f,
           NEW answer, f = Return(c, answer)
    PROVE  f = With(c, Made("done", call[c].req, <<>>, answer, call[c].done))
  <1> PICK r : r = call[c]
    OBVIOUS
  <1> PICK g : g = f[c]
    OBVIOUS
  <1>f. r = [pc |-> r.pc, req |-> r.req, todo |-> r.todo, answer |-> r.answer, done |-> r.done]
    BY DEF IsCall
  <1>1. f = [d \in Calls |-> IF d = c THEN [r EXCEPT !.pc = "done", !.answer = answer, !.todo = <<>>]
                            ELSE call[d]]
    BY Zenon DEF Return
  <1>2. g = [r EXCEPT !.pc = "done", !.answer = answer, !.todo = <<>>]
    BY <1>1, Zenon
  <1>3. g = Made("done", r.req, <<>>, answer, r.done)
    BY <1>2, <1>f, Zenon DEF Made
  <1> QED
    BY <1>1, <1>2, <1>3 DEF With

LEMMA ReturningWith ==
    ASSUME call = [d \in Calls |-> call[d]], NEW c \in Calls, IsCall(call[c]), NEW f,
           NEW answer, NEW done, f = ReturnWith(c, answer, done)
    PROVE  f = With(c, Made("done", call[c].req, <<>>, answer, done))
  <1> PICK r : r = call[c]
    OBVIOUS
  <1> PICK g : g = f[c]
    OBVIOUS
  <1>f. r = [pc |-> r.pc, req |-> r.req, todo |-> r.todo, answer |-> r.answer, done |-> r.done]
    BY DEF IsCall
  <1>1. f = [d \in Calls |-> IF d = c THEN [r EXCEPT !.pc = "done", !.answer = answer, !.todo = <<>>, !.done = done]
                            ELSE call[d]]
    BY Zenon DEF ReturnWith, Return
  <1>2. g = [r EXCEPT !.pc = "done", !.answer = answer, !.todo = <<>>, !.done = done]
    BY <1>1, Zenon
  <1>3. g = Made("done", r.req, <<>>, answer, done)
    BY <1>2, <1>f, Zenon DEF Made
  <1> QED
    BY <1>1, <1>2, <1>3 DEF With

LEMMA GivingUp ==
    ASSUME call = [d \in Calls |-> call[d]], NEW c \in Calls, IsCall(call[c]), NEW f,
           NEW answer, f = Undo(c, answer)
    PROVE  f = With(c, Made("undo", call[c].req, <<>>, answer, call[c].done))
  <1> PICK r : r = call[c]
    OBVIOUS
  <1> PICK g : g = f[c]
    OBVIOUS
  <1>f. r = [pc |-> r.pc, req |-> r.req, todo |-> r.todo, answer |-> r.answer, done |-> r.done]
    BY DEF IsCall
  <1>1. f = [d \in Calls |-> IF d = c THEN [r EXCEPT !.pc = "undo", !.answer = answer, !.todo = <<>>]
                            ELSE call[d]]
    BY Zenon DEF Undo
  <1>2. g = [r EXCEPT !.pc = "undo", !.answer = answer, !.todo = <<>>]
    BY <1>1, Zenon
  <1>3. g = Made("undo", r.req, <<>>, answer, r.done)
    BY <1>2, <1>f, Zenon DEF Made
  <1> QED
    BY <1>1, <1>2, <1>3 DEF With

LEMMA GivingUpWith ==
    ASSUME call = [d \in Calls |-> call[d]], NEW c \in Calls, IsCall(call[c]), NEW f,
           NEW answer, NEW done, f = UndoWith(c, answer, done)
    PROVE  f = With(c, Made("undo", call[c].req, <<>>, answer, done))
  <1> PICK r : r = call[c]
    OBVIOUS
  <1> PICK g : g = f[c]
    OBVIOUS
  <1>f. r = [pc |-> r.pc, req |-> r.req, todo |-> r.todo, answer |-> r.answer, done |-> r.done]
    BY DEF IsCall
  <1>1. f = [d \in Calls |-> IF d = c THEN [r EXCEPT !.pc = "undo", !.answer = answer, !.todo = <<>>, !.done = done]
                            ELSE call[d]]
    BY Zenon DEF UndoWith, Undo
  <1>2. g = [r EXCEPT !.pc = "undo", !.answer = answer, !.todo = <<>>, !.done = done]
    BY <1>1, Zenon
  <1>3. g = Made("undo", r.req, <<>>, answer, done)
    BY <1>2, <1>f, Zenon DEF Made
  <1> QED
    BY <1>1, <1>2, <1>3 DEF With

LEMMA Asking ==
    ASSUME call = [d \in Calls |-> call[d]], NEW c \in Calls, IsCall(call[c]), NEW f,
           NEW pc, NEW req, NEW todo, f = ToAsk(c, req, todo, pc)
    PROVE  f = With(c, Made(pc, req, todo, call[c].answer, call[c].done))
  <1> PICK r : r = call[c]
    OBVIOUS
  <1> PICK g : g = f[c]
    OBVIOUS
  <1>f. r = [pc |-> r.pc, req |-> r.req, todo |-> r.todo, answer |-> r.answer, done |-> r.done]
    BY DEF IsCall
  <1>1. f = [d \in Calls |-> IF d = c THEN [r EXCEPT !.req = req, !.todo = todo, !.pc = pc]
                            ELSE call[d]]
    BY Zenon DEF ToAsk
  <1>2. g = [r EXCEPT !.req = req, !.todo = todo, !.pc = pc]
    BY <1>1, Zenon
  <1>3. g = Made(pc, req, todo, r.answer, r.done)
    BY <1>2, <1>f, Zenon DEF Made
  <1> QED
    BY <1>1, <1>2, <1>3 DEF With

LEMMA Doing ==
    ASSUME call = [d \in Calls |-> call[d]], NEW c \in Calls, IsCall(call[c]), NEW f,
           NEW pc, NEW todo, f = ToDo(c, todo, pc)
    PROVE  f = With(c, Made(pc, call[c].req, todo, call[c].answer, call[c].done))
  <1> PICK r : r = call[c]
    OBVIOUS
  <1> PICK g : g = f[c]
    OBVIOUS
  <1>f. r = [pc |-> r.pc, req |-> r.req, todo |-> r.todo, answer |-> r.answer, done |-> r.done]
    BY DEF IsCall
  <1>1. f = [d \in Calls |-> IF d = c THEN [r EXCEPT !.todo = todo, !.pc = pc]
                            ELSE call[d]]
    BY Zenon DEF ToDo
  <1>2. g = [r EXCEPT !.todo = todo, !.pc = pc]
    BY <1>1, Zenon
  <1>3. g = Made(pc, r.req, todo, r.answer, r.done)
    BY <1>2, <1>f, Zenon DEF Made
  <1> QED
    BY <1>1, <1>2, <1>3 DEF With

LEMMA Running ==
    ASSUME call = [d \in Calls |-> call[d]], NEW c \in Calls, IsCall(call[c]), NEW f,
           NEW pc, NEW todo, f = ToRun(c, pc, todo)
    PROVE  f = With(c, Made(pc, call[c].req, todo, call[c].answer, call[c].done))
  <1> PICK r : r = call[c]
    OBVIOUS
  <1> PICK g : g = f[c]
    OBVIOUS
  <1>f. r = [pc |-> r.pc, req |-> r.req, todo |-> r.todo, answer |-> r.answer, done |-> r.done]
    BY DEF IsCall
  <1>1. f = [d \in Calls |-> IF d = c THEN [r EXCEPT !.pc = pc, !.todo = todo]
                            ELSE call[d]]
    BY Zenon DEF ToRun
  <1>2. g = [r EXCEPT !.pc = pc, !.todo = todo]
    BY <1>1, Zenon
  <1>3. g = Made(pc, r.req, todo, r.answer, r.done)
    BY <1>2, <1>f, Zenon DEF Made
  <1> QED
    BY <1>1, <1>2, <1>3 DEF With

LEMMA Going ==
    ASSUME call = [d \in Calls |-> call[d]], NEW c \in Calls, IsCall(call[c]), NEW f,
           NEW pc, f = ToGo(c, pc)
    PROVE  f = With(c, Made(pc, call[c].req, call[c].todo, call[c].answer, call[c].done))
  <1> PICK r : r = call[c]
    OBVIOUS
  <1> PICK g : g = f[c]
    OBVIOUS
  <1>f. r = [pc |-> r.pc, req |-> r.req, todo |-> r.todo, answer |-> r.answer, done |-> r.done]
    BY DEF IsCall
  <1>1. f = [d \in Calls |-> IF d = c THEN [r EXCEPT !.pc = pc]
                            ELSE call[d]]
    BY Zenon DEF ToGo
  <1>2. g = [r EXCEPT !.pc = pc]
    BY <1>1, Zenon
  <1>3. g = Made(pc, r.req, r.todo, r.answer, r.done)
    BY <1>2, <1>f, Zenon DEF Made
  <1> QED
    BY <1>1, <1>2, <1>3 DEF With

LEMMA Ending ==
    ASSUME call = [d \in Calls |-> call[d]], NEW c \in Calls, IsCall(call[c]), NEW f,
           NEW pc, NEW answer, NEW done, f = ToEnd(c, pc, done, answer)
    PROVE  f = With(c, Made(pc, call[c].req, call[c].todo, answer, done))
  <1> PICK r : r = call[c]
    OBVIOUS
  <1> PICK g : g = f[c]
    OBVIOUS
  <1>f. r = [pc |-> r.pc, req |-> r.req, todo |-> r.todo, answer |-> r.answer, done |-> r.done]
    BY DEF IsCall
  <1>1. f = [d \in Calls |-> IF d = c THEN [r EXCEPT !.pc = pc, !.done = done, !.answer = answer]
                            ELSE call[d]]
    BY Zenon DEF ToEnd
  <1>2. g = [r EXCEPT !.pc = pc, !.done = done, !.answer = answer]
    BY <1>1, Zenon
  <1>3. g = Made(pc, r.req, r.todo, answer, done)
    BY <1>2, <1>f, Zenon DEF Made
  <1> QED
    BY <1>1, <1>2, <1>3 DEF With

\* A call that holds nothing fits any committed rows.
LEMMA FitsElsewhere ==
    ASSUME NEW r, IsCall(r), NEW i, NEW s, NEW other, Fits(r, i, s, "none")
    PROVE  Fits(r, i, other, "none")
  <1>1. CASE r.pc = "new"
    BY <1>1 DEF Fits
  <1>2. CASE r.pc # "new"
    <2>1. r.req \in Requests
      BY <1>2 DEF IsCall
    <2>2. r.pc = "write" => Writing(r, i, other, "none")
      BY <2>1, Forms DEF Fits, Writing
    <2>3. r.pc = "undo" => Undoing(r, other, "none")
      BY DEF Fits, Undoing
    <2> QED
      BY <2>1, <2>2, <2>3, Forms DEF Fits
  <1> QED
    BY <1>1, <1>2

\* A step of call c that makes it r, sees the rows i, and leaves the others
\* their locks and, while they hold one, the committed rows.
LEMMA StepKeepsIInv ==
    ASSUME IInv, NEW c \in Calls, NEW r, IsCall(r), call' = With(c, r),
           NEW i, img' = [d \in Calls |-> IF d = c THEN i ELSE img[d]],
           lock' \in Calls \cup {Free}, shared' \in SUBSET Calls,
           \A d \in Calls \ {c} : Hold(d)' = Hold(d),
           \/ store' = store
           \/ Keyed(store') /\ \A d \in Calls \ {c} : Hold(d) = "none",
           conn' = [p \in Processes |->
                       IF p = ProcessOf[c] /\ (r.pc \in Kept \/ call[c].pc \in Kept)
                       THEN IF r.pc \in Kept THEN c ELSE Free ELSE conn[p]],
           r.pc \in Kept /\ call[c].pc \notin Kept => conn[ProcessOf[c]] = Free,
           Fits(r, i, store', Hold(c)')
    PROVE  IInv'
  <1>1. /\ call'[c] = r /\ \A d \in Calls \ {c} : call'[d] = call[d]
        /\ img'[c] = i /\ \A d \in Calls \ {c} : img'[d] = img[d]
        /\ call' = [d \in Calls |-> call'[d]]
        /\ img' = [d \in Calls |-> img'[d]]
        /\ conn' = [p \in Processes |-> conn'[p]]
    BY DEF With
  <1>2. Keyed(store')
    BY DEF IInv
  <1>3. ASSUME NEW d \in Calls, d # c
        PROVE  IsCall(call[d]) /\ Fits(call[d], img[d], store', Hold(d)')
    <2>1. IsCall(call[d]) /\ Fits(call[d], img[d], store, Hold(d))
      BY DEF IInv
    <2>2. CASE store' = store
      BY <1>3, <2>1, <2>2
    <2>3. CASE Hold(d) = "none"
      <3>1. Fits(call[d], img[d], store', "none")
        BY <2>1, <2>3, FitsElsewhere
      <3> QED
        BY <1>3, <2>1, <2>3, <3>1
    <2> QED
      BY <1>3, <2>2, <2>3
  <1>4. \A d \in Calls : /\ IsCall(call'[d])
                         /\ Fits(call'[d], img'[d], store', Hold(d)')
    BY <1>1, <1>3
  <1>5. ASSUME NEW p \in Processes, conn'[p] # Free
        PROVE  /\ conn'[p] \in Calls /\ ProcessOf[conn'[p]] = p
               /\ call'[conn'[p]].pc \in Kept
    BY <1>1, <1>5 DEF IInv
  <1>6. ASSUME NEW d \in Calls, call'[d].pc \in Kept
        PROVE  conn'[ProcessOf[d]] = d
    <2>1. ProcessOf[d] \in Processes /\ ProcessOf[c] \in Processes
      BY CallsAssumption
    <2>2. d # Free
      BY CallsAssumption
    <2>3. CASE d = c
      BY <1>1, <1>6, <2>1, <2>3
    <2>4. CASE d # c
      <3>1. call[d].pc \in Kept /\ conn[ProcessOf[d]] = d
        BY <1>1, <1>6, <2>4 DEF IInv
      <3>2. ProcessOf[d] = ProcessOf[c] => call[c].pc \notin Kept /\ r.pc \notin Kept
        BY <2>2, <2>4, <3>1 DEF IInv
      <3> QED
        BY <1>1, <2>1, <3>1, <3>2
    <2> QED
      BY <2>3, <2>4
  <1> QED
    BY <1>1, <1>2, <1>4, <1>5, <1>6 DEF IInv

-----------------------------------------------------------------------------
(* The step as the callers see it.                                         *)

Phase(pc) == CASE pc = "new" -> "idle" [] pc = "done" -> "closed" [] pc = "lost" -> "lost"
               [] OTHER -> "open"
View(r) == [phase |-> Phase(r.pc), req |-> r.req, done |-> r.done,
            answer |-> IF r.pc = "done" THEN r.answer ELSE "none"]

LEMMA SeenMoves ==
    ASSUME NEW c \in Calls, NEW r, call' = With(c, r)
    PROVE  /\ Seen = [d \in Calls |-> Seen[d]]
           /\ Seen[c] = View(call[c])
           /\ Seen' = [d \in Calls |-> IF d = c THEN View(r) ELSE Seen[d]]
  BY DEF Seen, View, Phase, With

\* What is seen of a call as assignments to its fields.
LEMMA SeenAssignments ==
    ASSUME NEW c \in Calls, NEW r, call' = With(c, r), NEW g
    PROVE  /\ /\ View(r).done = call[c].done
              /\ View(r).answer = View(call[c]).answer
              /\ g = [Seen EXCEPT ![c].phase = Phase(r.pc), ![c].req = r.req]
              => g = Seen'
           /\ /\ r.req = call[c].req
              /\ Phase(r.pc) = Phase(call[c].pc)
              /\ View(r).answer = View(call[c]).answer
              /\ g = [Seen EXCEPT ![c].done = r.done]
              => g = Seen'
           /\ /\ r.req = call[c].req
              /\ r.done = call[c].done
              /\ g = [Seen EXCEPT ![c].phase = Phase(r.pc), ![c].answer = View(r).answer]
              => g = Seen'
           /\ /\ r.req = call[c].req
              /\ g = [Seen EXCEPT ![c].phase = Phase(r.pc), ![c].done = r.done,
                                ![c].answer = View(r).answer]
              => g = Seen'
  <1> PICK old : old = Seen[c]
    OBVIOUS
  <1> PICK new : new = g[c]
    OBVIOUS
  <1>1. old = View(call[c])
    BY SeenMoves
  <1>2. old = [phase |-> old.phase, req |-> old.req, done |-> old.done, answer |-> old.answer]
    BY <1>1, Zenon DEF View
  <1>3. /\ old.phase = Phase(call[c].pc) /\ old.req = call[c].req /\ old.done = call[c].done
        /\ old.answer = View(call[c]).answer
    BY <1>1 DEF View
  <1>4. /\ Seen = [d \in Calls |-> Seen[d]]
        /\ Seen' = [d \in Calls |-> IF d = c THEN View(r) ELSE Seen[d]]
    BY SeenMoves
  <1>5. ASSUME View(r).done = call[c].done,
               View(r).answer = View(call[c]).answer,
               g = [Seen EXCEPT ![c].phase = Phase(r.pc), ![c].req = r.req]
        PROVE  g = Seen'
    <2>1. g = [d \in Calls |->
                IF d = c THEN [old EXCEPT !.phase = Phase(r.pc), !.req = r.req] ELSE Seen[d]]
      BY <1>4, <1>5, Zenon
    <2>2. new = [old EXCEPT !.phase = Phase(r.pc), !.req = r.req]
      BY <2>1, Zenon
    <2>3. new = View(r)
      BY <1>2, <1>3, <1>5, <2>2, Zenon DEF View
    <2> QED
      BY <1>4, <2>1, <2>2, <2>3
  <1>6. ASSUME r.req = call[c].req,
               Phase(r.pc) = Phase(call[c].pc),
               View(r).answer = View(call[c]).answer,
               g = [Seen EXCEPT ![c].done = r.done]
        PROVE  g = Seen'
    <2>1. g = [d \in Calls |-> IF d = c THEN [old EXCEPT !.done = r.done] ELSE Seen[d]]
      BY <1>4, <1>6, Zenon
    <2>2. new = [old EXCEPT !.done = r.done]
      BY <2>1, Zenon
    <2>3. new = View(r)
      BY <1>2, <1>3, <1>6, <2>2, Zenon DEF View
    <2> QED
      BY <1>4, <2>1, <2>2, <2>3
  <1>7. ASSUME r.req = call[c].req,
               r.done = call[c].done,
               g = [Seen EXCEPT ![c].phase = Phase(r.pc), ![c].answer = View(r).answer]
        PROVE  g = Seen'
    <2>1. g = [d \in Calls |->
                IF d = c THEN [old EXCEPT !.phase = Phase(r.pc), !.answer = View(r).answer]
                ELSE Seen[d]]
      BY <1>4, <1>7, Zenon
    <2>2. new = [old EXCEPT !.phase = Phase(r.pc), !.answer = View(r).answer]
      BY <2>1, Zenon
    <2>3. new = View(r)
      BY <1>2, <1>3, <1>7, <2>2, Zenon DEF View
    <2> QED
      BY <1>4, <2>1, <2>2, <2>3
  <1>8. ASSUME r.req = call[c].req,
               g = [Seen EXCEPT ![c].phase = Phase(r.pc), ![c].done = r.done,
                                ![c].answer = View(r).answer]
        PROVE  g = Seen'
    <2>1. g = [d \in Calls |->
                IF d = c THEN [old EXCEPT !.phase = Phase(r.pc), !.done = r.done,
                                          !.answer = View(r).answer]
                ELSE Seen[d]]
      BY <1>4, <1>8, Zenon
    <2>2. new = [old EXCEPT !.phase = Phase(r.pc), !.done = r.done, !.answer = View(r).answer]
      BY <2>1, Zenon
    <2>3. new = View(r)
      BY <1>2, <1>3, <1>8, <2>2, Zenon DEF View
    <2> QED
      BY <1>4, <2>1, <2>2, <2>3
  <1> QED
    BY <1>5, <1>6, <1>7, <1>8, Zenon

LEMMA PhasesOf ==
    /\ Phase("new") = "idle" /\ Phase("done") = "closed" /\ Phase("lost") = "lost"
    /\ \A pc \in Steps \ {"new", "done", "lost"} : Phase(pc) = "open"
  BY DEF Phase, Steps

LEMMA Views == \A r : View(r).phase = Phase(r.pc) /\ View(r).req = r.req /\ View(r).done = r.done
  BY DEF View

Underway(r) == r.pc \in Steps \ {"new", "done", "lost"}

\* A call is asked.
LEMMA ContractOpens ==
    ASSUME NEW c \in Calls, NEW r, call' = With(c, r), store' = store,
           call[c].pc = "new", Underway(r), r.req \in Requests, r.done = call[c].done
    PROVE  Contract!Open(c)
  <1>1. /\ Phase(call[c].pc) = "idle" /\ Phase(r.pc) = "open"
        /\ View(r).answer = "none" /\ View(call[c]).answer = "none"
    BY PhasesOf DEF View, Underway
  <1>2. Seen[c].phase = "idle"
    BY SeenMoves, Views, <1>1
  <1>3. View(r).done = call[c].done
    BY DEF View
  <1>4. Seen' = [Seen EXCEPT ![c].phase = Phase(r.pc), ![c].req = r.req]
    BY SeenAssignments, <1>1, <1>3
  <1> QED
    BY <1>1, <1>2, <1>4 DEF Contract!Open

\* Nothing is seen of a step inside a call.
LEMMA ContractStays ==
    ASSUME NEW c \in Calls, NEW r, call' = With(c, r), store' = store,
           Underway(call[c]), Underway(r), r.req = call[c].req, r.done = call[c].done
    PROVE  UNCHANGED Contract!vars
  <1>1. View(r) = View(call[c])
    BY PhasesOf DEF View, Underway
  <1>2. Seen' = Seen
    BY SeenMoves, <1>1
  <1> QED
    BY <1>2 DEF Contract!vars

LEMMA SeenAnswered ==
    ASSUME NEW c \in Calls, NEW r, call' = With(c, r), r.req = call[c].req,
           r.done = call[c].done
    PROVE  Seen' = [Seen EXCEPT ![c].phase = Phase(r.pc), ![c].answer = View(r).answer]
  BY SeenAssignments, Zenon

\* A call is answered.
LEMMA ContractAnswers ==
    ASSUME NEW c \in Calls, NEW r, call' = With(c, r), store' = store,
           Underway(call[c]), r.pc = "done", r.req = call[c].req, r.done = call[c].done,
           r.answer \in Answers \ {"none"},
           r.answer = "ok" => r.done # "no",
           r.answer \in Typed => r.done = "no",
           r.answer \in Typed \ {"conflict"} => r.answer \in Refusals(r.req, store)
    PROVE  Contract!Answer(c)
  <1>1. Phase(call[c].pc) = "open" /\ Phase(r.pc) = "closed" /\ View(r).answer = r.answer
    BY PhasesOf DEF View, Underway
  <1>2. /\ Seen[c].phase = "open" /\ Seen[c].done = call[c].done
        /\ Seen[c].req = call[c].req
    BY SeenMoves, Views, <1>1
  <1>3. Seen' = [Seen EXCEPT ![c].phase = "closed", ![c].answer = r.answer]
    <2>1. Seen' = [Seen EXCEPT ![c].phase = Phase(r.pc), ![c].answer = View(r).answer]
      BY SeenAnswered
    <2> QED
      BY <1>1, <2>1
  <1>4. Contract!Honest(c, Seen[c].done, r.answer)
    BY <1>2 DEF Contract!Honest
  <1> QED
    BY <1>2, <1>3, <1>4 DEF Contract!Answer

\* The operation that the request asks of the rows, done at once.
Done(q, effect) ==
    LET o == Operation(q, store)
    IN /\ o.no = {} /\ ListMisses(o.do, store) = {}
       /\ effect = (IF o.do = <<>> THEN "same" ELSE "yes")
       /\ store' = RunAll(o.do, store)

LEMMA ContractTakesEffect ==
    ASSUME NEW c \in Calls, NEW r, call' = With(c, r), Underway(call[c]),
           r.req = call[c].req, call[c].done = "no", Done(r.req, r.done)
    PROVE  /\ Underway(r) => Contract!TakeEffect(c)
           /\ r.pc = "done" /\ r.answer \in {"ok", "failed"} => Contract!TakeEffectAndAnswer(c)
  <1>1. Phase(call[c].pc) = "open" /\ View(call[c]).answer = "none"
    BY PhasesOf DEF View, Underway
  <1>2. /\ Seen[c].phase = "open" /\ Seen[c].done = "no" /\ Seen[c].req = r.req
    BY SeenMoves, Views, <1>1
  <1>3. Contract!TakesEffect(c, r.done) /\ r.done \in {"yes", "same"}
    BY <1>2 DEF Contract!TakesEffect, Done
  <1>4. ASSUME Underway(r) PROVE Contract!TakeEffect(c)
    <2>1. Phase(r.pc) = "open" /\ View(r).answer = "none"
      BY <1>4, PhasesOf DEF View, Underway
    <2>2. Seen' = [Seen EXCEPT ![c].done = r.done]
      BY SeenAssignments, <1>1, <2>1
    <2> QED
      BY <1>3, <2>2 DEF Contract!TakeEffect
  <1>5. ASSUME r.pc = "done", r.answer \in {"ok", "failed"}
        PROVE  Contract!TakeEffectAndAnswer(c)
    <2>1. Phase(r.pc) = "closed" /\ View(r).answer = r.answer
      BY <1>5, PhasesOf DEF View
    <2>2. Seen' = [Seen EXCEPT ![c].phase = Phase(r.pc), ![c].done = r.done,
                               ![c].answer = View(r).answer]
      BY SeenAssignments, Zenon
    <2>3. Seen' = [Seen EXCEPT ![c].phase = "closed", ![c].done = r.done,
                               ![c].answer = r.answer]
      BY <2>1, <2>2
    <2> QED
      BY <1>3, <1>5, <2>3 DEF Contract!TakeEffectAndAnswer
  <1> QED
    BY <1>4, <1>5

-----------------------------------------------------------------------------
(* The steps.                                                              *)

ContractStep == [Contract!Next]_(Contract!vars)

LEMMA MadeIsCall ==
    ASSUME NEW pc \in Steps, NEW req \in Requests, NEW todo, NEW answer \in Answers,
           NEW done \in {"no", "yes", "same"}
    PROVE  LET r == Made(pc, req, todo, answer, done)
           IN /\ IsCall(r)
              /\ r.pc = pc /\ r.req = req /\ r.todo = todo /\ r.answer = answer /\ r.done = done
  BY DEF Made, IsCall

\* What the invariant says of one call.
LEMMA OfCall ==
    ASSUME IInv, NEW c \in Calls
    PROVE  /\ IsCall(call[c])
           /\ Fits(call[c], img[c], store, Hold(c))
           /\ call[c].pc # "new" => call[c].req \in Requests
           /\ call[c].pc \notin MayHold => Hold(c) = "none" /\ img[c] = {}
           /\ Hold(c) \in {"write", "read", "none"}
           /\ c # Free
  BY CallsAssumption DEF IInv, IsCall, Fits, Hold

\* A step that keeps the locks, the connections and the rows transactions see.
LEMMA StepInside ==
    ASSUME IInv, NEW c \in Calls, NEW r, IsCall(r), call' = With(c, r),
           UNCHANGED <<img, conn, lock, shared>>,
           \/ store' = store
           \/ Keyed(store') /\ \A d \in Calls \ {c} : Hold(d) = "none",
           r.pc \in Kept <=> call[c].pc \in Kept,
           Fits(r, img[c], store', Hold(c))
    PROVE  IInv'
  <1>1. \A d \in Calls : Hold(d)' = Hold(d)
    BY DEF Hold
  <1>2. conn' = [p \in Processes |->
                    IF p = ProcessOf[c] /\ (r.pc \in Kept \/ call[c].pc \in Kept)
                    THEN IF r.pc \in Kept THEN c ELSE Free ELSE conn[p]]
    BY DEF IInv
  <1>3. img' = [d \in Calls |-> IF d = c THEN img[c] ELSE img[d]]
    BY DEF IInv
  <1>4. lock' \in Calls \cup {Free} /\ shared' \in SUBSET Calls
    BY DEF IInv
  <1>5. Fits(r, img[c], store', Hold(c)')
    BY <1>1
  <1> QED
    BY <1>1, <1>2, <1>3, <1>4, <1>5, StepKeepsIInv

LEMMA StartStep ==
    ASSUME IInv, NEW c \in Calls, Start(c)
    PROVE  IInv' /\ ContractStep
  <1> DEFINE old == call[c]
  <1>1. PICK q \in MayAsk[c] :
            call' = [call EXCEPT ![c].req = q, ![c].todo = Operation(q, store).looks,
                                 ![c].pc = After(Operation(q, store).looks, q)]
    BY DEF Start
  <1>2. q \in Requests
    BY CallsAssumption
  <1> DEFINE looks == Operation(q, store).looks
             r == Made(After(looks, q), q, looks, old.answer, old.done)
  <1>3. IsCall(old) /\ call = [d \in Calls |-> call[d]]
    BY DEF IInv
  <1>4. call' = With(c, r)
    <2>1. call' = ToAsk(c, q, looks, After(looks, q))
      BY <1>1 DEF ToAsk
    <2> QED
      BY <2>1, <1>3, Asking
  <1>5. After(looks, q) \in {"look", "exec", "begin"}
    BY DEF After
  <1>6. /\ IsCall(r) /\ r.pc = After(looks, q) /\ r.req = q /\ r.todo = looks
        /\ r.done = old.done
    <2>1. /\ After(looks, q) \in Steps /\ old.answer \in Answers
          /\ old.done \in {"no", "yes", "same"}
      BY <1>3, <1>5 DEF IsCall, Steps
    <2> HIDE DEF old, looks
    <2> QED
      BY <1>2, <2>1, MadeIsCall
  <1>7. old.pc = "new" /\ UNCHANGED <<store, img, conn, lock, shared>>
    BY DEF Start
  <1>8. Fits(r, img[c], store, Hold(c))
    <2>1. old.done = "no" /\ Hold(c) = "none" /\ img[c] = {} /\ Keyed(img[c])
      BY <1>7, OfCall DEF Fits, MayHold
    <2>2. IsList(looks)
      BY <1>2, Forms
    <2>3. /\ r.pc = "look" => looks # <<>>
          /\ r.pc = "exec" => looks = <<>> /\ Operation(q, store).mode = "auto"
          /\ r.pc = "begin" => Operation(q, store).mode # "auto"
      BY <1>6 DEF After, Mode
    <2> HIDE DEF r, looks
    <2> QED
      BY <1>5, <1>6, <2>1, <2>2, <2>3 DEF Fits, looks
  <1> HIDE DEF r
  <1>9. IInv'
    BY <1>4, <1>5, <1>6, <1>7, <1>8, StepInside DEF Kept
  <1>10. Contract!Open(c)
    BY <1>2, <1>4, <1>5, <1>6, <1>7, ContractOpens DEF Underway, Steps
  <1> QED
    BY <1>9, <1>10 DEF ContractStep, Contract!Next

\* A call is answered outside a transaction.
LEMMA Returned ==
    ASSUME IInv, NEW c \in Calls, call[c].pc \in {"look", "exec", "begin"},
           NEW a \in Typed \cup {"failed"},
           a \in Typed \ {"conflict"} => a \in Refusals(call[c].req, store),
           call' = Return(c, a), UNCHANGED <<store, img, conn, lock, shared>>
    PROVE  IInv' /\ ContractStep
  <1> DEFINE old == call[c]
             r == Made("done", old.req, <<>>, a, old.done)
  <1>1. IsCall(old) /\ call = [d \in Calls |-> call[d]] /\ old.req \in Requests
    BY OfCall DEF IInv
  <1>2. call' = With(c, r)
    BY <1>1, Returning
  <1>3. old.done = "no" /\ Hold(c) = "none" /\ img[c] = {} /\ Keyed(img[c])
    BY OfCall DEF Fits, MayHold
  <1>4. /\ IsCall(r) /\ r.pc = "done" /\ r.req = old.req /\ r.answer = a /\ r.done = old.done
    <2>1. "done" \in Steps /\ a \in Answers /\ old.done \in {"no", "yes", "same"}
      BY <1>1 DEF IsCall, Steps, Answers
    <2> HIDE DEF old
    <2> QED
      BY <1>1, <2>1, MadeIsCall
  <1> HIDE DEF r
  <1>5. Fits(r, img[c], store, Hold(c))
    BY <1>3, <1>4 DEF Fits
  <1>6. IInv'
    BY <1>2, <1>4, <1>5, StepInside DEF Kept
  <1>7. Contract!Answer(c)
    <2>1. a \in Answers \ {"none"} /\ a # "ok"
      BY DEF Answers, Typed
    <2>2. Underway(old)
      BY DEF Underway, Steps
    <2> QED
      BY <1>2, <1>3, <1>4, <2>1, <2>2, ContractAnswers
  <1> QED
    BY <1>6, <1>7 DEF ContractStep, Contract!Next

LEMMA LookUpStep ==
    ASSUME IInv, NEW c \in Calls, LookUp(c)
    PROVE  IInv' /\ ContractStep
  <1> DEFINE old == call[c]
             looks == Operation(old.req, store).looks
  <1>1. old.pc = "look" /\ UNCHANGED <<store, img, conn, lock, shared>>
    BY DEF LookUp
  <1>2. IsCall(old) /\ call = [d \in Calls |-> call[d]] /\ old.req \in Requests
    BY <1>1, OfCall DEF IInv
  <1>3. /\ IsList(old.todo) /\ old.todo # <<>> /\ Elements(old.todo) \subseteq Elements(looks)
        /\ old.done = "no" /\ Hold(c) = "none" /\ img[c] = {} /\ Keyed(img[c])
    BY <1>1, OfCall DEF Fits, MayHold
  <1>4. /\ IsList(Tail(old.todo)) /\ Elements(Tail(old.todo)) \subseteq Elements(looks)
        /\ Head(old.todo) \in Elements(looks)
    BY <1>3, ListHeadTail
  <1>5. CASE Found(Head(old.todo), store)
    <2> DEFINE next == After(Tail(old.todo), old.req)
               r == Made(next, old.req, Tail(old.todo), old.answer, old.done)
    <2>1. call' = ToDo(c, Tail(old.todo), next)
      BY <1>5 DEF LookUp, ToDo
    <2>2. call' = With(c, r)
      BY <1>2, <2>1, Doing
    <2>3. next \in {"look", "exec", "begin"}
      BY DEF After
    <2>4. /\ IsCall(r) /\ r.pc = next /\ r.req = old.req /\ r.todo = Tail(old.todo)
          /\ r.done = old.done
      <3>1. old.answer \in Answers /\ old.done \in {"no", "yes", "same"} /\ next \in Steps
        BY <1>2, <2>3 DEF IsCall, Steps
      <3> HIDE DEF next, old
      <3> QED
        BY <1>2, <3>1, MadeIsCall
    <2>5. /\ r.pc = "look" => r.todo # <<>>
          /\ r.pc = "exec" => r.todo = <<>> /\ Operation(r.req, store).mode = "auto"
          /\ r.pc = "begin" => Operation(r.req, store).mode # "auto"
      BY <2>4 DEF After, Mode
    <2> HIDE DEF r
    <2>6. Fits(r, img[c], store, Hold(c))
      BY <1>3, <1>4, <2>3, <2>4, <2>5 DEF Fits
    <2>7. IInv'
      BY <1>1, <2>2, <2>3, <2>4, <2>6, StepInside DEF Kept
    <2>8. UNCHANGED Contract!vars
      BY <1>1, <2>2, <2>3, <2>4, ContractStays DEF Underway, Steps
    <2> QED
      BY <2>7, <2>8 DEF ContractStep
  <1>6. CASE ~Found(Head(old.todo), store)
    <2>1. call' = Return(c, "notfound")
      BY <1>6 DEF LookUp
    <2>2. "notfound" \in Refusals(old.req, store)
      BY <1>4, <1>6 DEF Refusals, Elements
    <2> QED
      BY <1>1, <2>1, <2>2, Returned DEF Typed
  <1> QED
    BY <1>5, <1>6

LEMMA FailAloneStep ==
    ASSUME IInv, NEW c \in Calls, FailAlone(c) \/ BusyAlone(c)
    PROVE  IInv' /\ ContractStep
  <1>1. /\ call[c].pc \in {"look", "exec", "begin"}
        /\ UNCHANGED <<store, img, conn, lock, shared>>
        /\ \E a \in {"conflict", "failed"} : call' = Return(c, a)
    BY DEF FailAlone, BusyAlone
  <1>2. PICK a \in {"conflict", "failed"} : call' = Return(c, a)
    BY <1>1
  <1> QED
    BY <1>1, <1>2, Returned DEF Typed

LEMMA ExecContextStep ==
    ASSUME IInv, NEW c \in Calls, ExecContext(c)
    PROVE  IInv' /\ ContractStep
  <1> DEFINE old == call[c]
             o == Operation(old.req, store)
  <1>1. old.pc = "exec" /\ Alone(c) /\ UNCHANGED <<img, conn, lock, shared>>
    BY DEF ExecContext
  <1>2. IsCall(old) /\ call = [d \in Calls |-> call[d]] /\ old.req \in Requests
    BY <1>1, OfCall DEF IInv
  <1>3. /\ old.todo = <<>> /\ o.mode = "auto"
        /\ old.done = "no" /\ Hold(c) = "none" /\ img[c] = {} /\ Keyed(img[c])
    BY <1>1, OfCall DEF Fits, MayHold
  <1>4. PICK s : o.do = <<s>> /\ IsStatement(s)
    BY <1>2, <1>3, Forms
  <1>5. o.no = {}
    BY <1>2, <1>3, Forms
  <1>6. RunAll(o.do, store) = Run(s, store) /\ ListMisses(o.do, store) = Misses(s, store)
    BY <1>4, OneToRun
  <1>7. Head(o.do) = s /\ Tail(o.do) = <<>>
    BY <1>4
  <1>8. \/ /\ Misses(s, store) # {}
           /\ \E a \in Misses(s, store) : call' = Return(c, a)
           /\ UNCHANGED store
        \/ /\ Misses(s, store) = {}
           /\ store' = Run(s, store)
           /\ \E a \in {"ok", "failed"} : call' = [Return(c, a) EXCEPT ![c].done = "yes"]
    BY <1>3, <1>7 DEF ExecContext, Asked
  <1>9. CASE /\ \E a \in Misses(s, store) : call' = Return(c, a)
             /\ UNCHANGED store
    <2>1. PICK a \in Misses(s, store) : call' = Return(c, a)
      BY <1>9
    <2>2. a \in Typed
      BY <1>4, MissesTyped
    <2>3. a \in Refusals(old.req, store)
      BY <1>6 DEF Refusals
    <2> QED
      BY <1>1, <1>9, <2>1, <2>2, <2>3, Returned
  <1>10. CASE /\ Misses(s, store) = {}
              /\ store' = Run(s, store)
              /\ \E a \in {"ok", "failed"} : call' = [Return(c, a) EXCEPT ![c].done = "yes"]
    <2>1. PICK a \in {"ok", "failed"} : call' = [Return(c, a) EXCEPT ![c].done = "yes"]
      BY <1>10
    <2> DEFINE r == Made("done", old.req, <<>>, a, "yes")
    <2>2. call' = ReturnWith(c, a, "yes")
      BY <2>1 DEF ReturnWith
    <2>3. call' = With(c, r)
      BY <1>2, <2>2, ReturningWith
    <2>4. IsCall(r) /\ r.pc = "done" /\ r.req = old.req /\ r.answer = a /\ r.done = "yes"
      BY <1>2, MadeIsCall DEF Steps, Answers
    <2> HIDE DEF r
    <2>5. Fits(r, img[c], store', Hold(c))
      BY <1>3, <2>4 DEF Fits
    <2>6. \A d \in Calls \ {c} : Hold(d) = "none"
      BY <1>1, OfCall DEF Alone, Hold
    <2>7. Keyed(store')
      BY <1>4, <1>10, RunKeepsKeys DEF IInv
    <2>8. IInv'
      BY <1>1, <2>3, <2>4, <2>5, <2>6, <2>7, StepInside DEF Kept
    <2>9. Done(old.req, "yes")
      <3>1. o.do # <<>>
        BY <1>4
      <3> QED
        BY <1>5, <1>6, <1>10, <3>1 DEF Done
    <2>10. Contract!TakeEffectAndAnswer(c)
      BY <1>1, <1>3, <2>1, <2>3, <2>4, <2>9, ContractTakesEffect DEF Underway, Steps
    <2> QED
      BY <2>8, <2>10 DEF ContractStep, Contract!Next
  <1> QED
    BY <1>8, <1>9, <1>10

\* A call takes or leaves its own locks; the others keep theirs.
LEMMA OthersHold ==
    ASSUME NEW c \in Calls, shared' \ {c} = shared \ {c},
           lock' = lock \/ (lock \in {c, Free} /\ lock' \in {c, Free})
    PROVE  \A d \in Calls \ {c} : Hold(d)' = Hold(d)
  <1> TAKE d \in Calls \ {c}
  <1>1. d # Free
    BY CallsAssumption
  <1>2. (lock' = d <=> lock = d) /\ (d \in shared' <=> d \in shared)
    BY <1>1
  <1> QED
    BY <1>2 DEF Hold

LEMMA BeginImmediateStep ==
    ASSUME IInv, NEW c \in Calls, BeginImmediate(c)
    PROVE  IInv' /\ ContractStep
  <1> DEFINE old == call[c]
             r == Made("read", old.req, old.todo, old.answer, old.done)
  <1>1. /\ old.pc = "begin" /\ conn[ProcessOf[c]] = Free /\ lock = Free /\ lock' = c
        /\ conn' = [conn EXCEPT ![ProcessOf[c]] = c] /\ img' = [img EXCEPT ![c] = store]
        /\ store' = store /\ shared' = shared
    BY DEF BeginImmediate, Idle
  <1>2. IsCall(old) /\ call = [d \in Calls |-> call[d]] /\ old.req \in Requests
    BY <1>1, OfCall DEF IInv
  <1>3. old.done = "no"
    BY <1>1, OfCall DEF Fits
  <1>4. call' = With(c, r)
    <2>1. call' = ToGo(c, "read")
      BY DEF BeginImmediate, ToGo
    <2> QED
      BY <1>2, <2>1, Going
  <1>5. /\ IsCall(r) /\ r.pc = "read" /\ r.req = old.req /\ r.done = old.done
    <2>1. old.answer \in Answers /\ old.done \in {"no", "yes", "same"} /\ "read" \in Steps
      BY <1>2 DEF IsCall, Steps
    <2> HIDE DEF old
    <2> QED
      BY <1>2, <2>1, MadeIsCall
  <1> HIDE DEF r
  <1>6. Hold(c)' = "write" /\ Keyed(store)
    BY <1>1 DEF Hold, IInv
  <1>7. Fits(r, store, store', Hold(c)')
    BY <1>1, <1>3, <1>5, <1>6 DEF Fits, MayHold
  <1>8. conn' = [p \in Processes |->
                    IF p = ProcessOf[c] /\ (r.pc \in Kept \/ old.pc \in Kept)
                    THEN IF r.pc \in Kept THEN c ELSE Free ELSE conn[p]]
    BY <1>1, <1>5 DEF IInv, Kept
  <1>9. img' = [d \in Calls |-> IF d = c THEN store ELSE img[d]]
    BY <1>1 DEF IInv
  <1>10. /\ lock' \in Calls \cup {Free} /\ shared' \in SUBSET Calls
         /\ \A d \in Calls \ {c} : Hold(d)' = Hold(d)
    BY <1>1, OthersHold DEF IInv
  <1>11. IInv'
    <2>1. store' = store /\ conn[ProcessOf[c]] = Free
      BY <1>1
    <2> QED
      BY <1>4, <1>5, <1>7, <1>8, <1>9, <1>10, <2>1, StepKeepsIInv
  <1>12. UNCHANGED Contract!vars
    BY <1>1, <1>4, <1>5, ContractStays DEF Underway, Steps
  <1> QED
    BY <1>11, <1>12 DEF ContractStep

LEMMA BeginTxStep ==
    ASSUME IInv, NEW c \in Calls, BeginTx(c)
    PROVE  IInv' /\ ContractStep
  <1> DEFINE old == call[c]
  <1>1. /\ old.pc = "begin" /\ conn[ProcessOf[c]] = Free /\ Deferred(c)
        /\ conn' = [conn EXCEPT ![ProcessOf[c]] = c]
        /\ store' = store /\ lock' = lock
    BY DEF BeginTx, Idle
  <1>2. IsCall(old) /\ call = [d \in Calls |-> call[d]] /\ old.req \in Requests
    BY <1>1, OfCall DEF IInv
  <1>3. old.done = "no" /\ Hold(c) = "none" /\ img[c] = {}
    BY <1>1, OfCall DEF Fits, MayHold
  <1>4. ASSUME NEW r, IsCall(r), call' = With(c, r), r.pc \in {"read", "write"},
               r.req = old.req, r.done = old.done, shared' \in {shared, shared \cup {c}},
               NEW i, img' = [d \in Calls |-> IF d = c THEN i ELSE img[d]],
               Fits(r, i, store', Hold(c)')
        PROVE  IInv' /\ ContractStep
    <2>1. conn' = [p \in Processes |->
                      IF p = ProcessOf[c] /\ (r.pc \in Kept \/ old.pc \in Kept)
                      THEN IF r.pc \in Kept THEN c ELSE Free ELSE conn[p]]
      BY <1>1, <1>4 DEF IInv, Kept
    <2>2. /\ lock' \in Calls \cup {Free} /\ shared' \in SUBSET Calls
          /\ \A d \in Calls \ {c} : Hold(d)' = Hold(d)
      BY <1>1, <1>4, OthersHold DEF IInv
    <2>3. IInv'
      <3>1. store' = store /\ conn[ProcessOf[c]] = Free
        BY <1>1
      <3> QED
        BY <1>4, <2>1, <2>2, <3>1, StepKeepsIInv
    <2>4. UNCHANGED Contract!vars
      BY <1>1, <1>4, ContractStays DEF Underway, Steps
    <2> QED
      BY <2>3, <2>4 DEF ContractStep
  <1>5. CASE old.req.op = "PromoteMemoryCandidate"
    <2> DEFINE r == Made("read", old.req, old.todo, old.answer, old.done)
    <2>1. call' = ToGo(c, "read") /\ shared' = shared \cup {c} /\ img' = [img EXCEPT ![c] = store]
      BY <1>5 DEF BeginTx, ToGo
    <2>2. call' = With(c, r)
      BY <1>2, <2>1, Going
    <2>3. /\ IsCall(r) /\ r.pc = "read" /\ r.req = old.req /\ r.done = old.done
      <3>1. old.answer \in Answers /\ old.done \in {"no", "yes", "same"} /\ "read" \in Steps
        BY <1>2 DEF IsCall, Steps
      <3> HIDE DEF old
      <3> QED
        BY <1>2, <3>1, MadeIsCall
    <2> HIDE DEF r
    <2>4. Hold(c)' # "none" /\ Keyed(store)
      BY <2>1 DEF Hold, IInv
    <2>5. Fits(r, store, store', Hold(c)')
      BY <1>1, <1>3, <2>3, <2>4 DEF Fits, MayHold
    <2>6. img' = [d \in Calls |-> IF d = c THEN store ELSE img[d]]
      BY <2>1 DEF IInv
    <2> QED
      BY <1>4, <2>1, <2>2, <2>3, <2>5, <2>6
  <1>6. CASE old.req.op # "PromoteMemoryCandidate"
    <2> DEFINE do == Operation(old.req, store).do
               r == Made("write", old.req, do, old.answer, old.done)
    <2>1. call' = ToRun(c, "write", do) /\ shared' = shared /\ img' = img
      BY <1>6 DEF BeginTx, ToRun, Asked
    <2>2. call' = With(c, r)
      BY <1>2, <2>1, Running
    <2>3. /\ IsCall(r) /\ r.pc = "write" /\ r.req = old.req /\ r.done = old.done /\ r.todo = do
      <3>1. old.answer \in Answers /\ old.done \in {"no", "yes", "same"} /\ "write" \in Steps
        BY <1>2 DEF IsCall, Steps
      <3> HIDE DEF old, do
      <3> QED
        BY <1>2, <3>1, MadeIsCall
    <2> HIDE DEF r
    <2>4. Hold(c)' = "none" /\ Keyed({})
      BY <1>1, <1>3, <2>1 DEF Hold, Keyed
    <2>5. Writing(r, {}, store, "none")
      BY <1>1, <1>6, <2>3 DEF Writing, Deferred, Mode
    <2>6. Fits(r, {}, store', Hold(c)')
      BY <1>1, <1>3, <2>3, <2>4, <2>5 DEF Fits
    <2>7. img' = [d \in Calls |-> IF d = c THEN {} ELSE img[d]]
      BY <1>3, <2>1 DEF IInv
    <2> QED
      BY <1>4, <2>1, <2>2, <2>3, <2>6, <2>7
  <1> QED
    BY <1>5, <1>6

\* A transaction gives up, with the error it will answer.
LEMMA Undone ==
    ASSUME IInv, NEW c \in Calls, call[c].pc \in {"read", "write", "commit"},
           NEW a \in Typed \cup {"failed"},
           a \in Typed \ {"conflict"}
           => Hold(c)' # "none" /\ a \in Refusals(call[c].req, store),
           call' = Undo(c, a), UNCHANGED <<store, img, conn, shared>>,
           lock' = lock \/ (lock \in {c, Free} /\ lock' = c)
    PROVE  IInv' /\ ContractStep
  <1> DEFINE old == call[c]
             r == Made("undo", old.req, <<>>, a, old.done)
  <1>1. IsCall(old) /\ call = [d \in Calls |-> call[d]] /\ old.req \in Requests
    BY OfCall DEF IInv
  <1>2. call' = With(c, r)
    BY <1>1, GivingUp
  <1>3. old.done = "no" /\ Keyed(img[c]) /\ (img[c] # {} => Hold(c) # "none")
    BY OfCall DEF Fits
  <1>4. /\ IsCall(r) /\ r.pc = "undo" /\ r.req = old.req /\ r.answer = a /\ r.done = old.done
    <2>1. "undo" \in Steps /\ a \in Answers /\ old.done \in {"no", "yes", "same"}
      BY <1>1 DEF IsCall, Steps, Answers
    <2> HIDE DEF old
    <2> QED
      BY <1>1, <2>1, MadeIsCall
  <1> HIDE DEF r
  <1>5. Hold(c) # "none" => Hold(c)' # "none"
    BY DEF Hold
  <1>6. Undoing(r, store, Hold(c)')
    <2>1. a # "ok" /\ a # "none"
      BY DEF Typed
    <2> QED
      BY <1>3, <1>4, <2>1 DEF Undoing
  <1>7. Fits(r, img[c], store', Hold(c)')
    BY <1>3, <1>4, <1>5, <1>6 DEF Fits, MayHold
  <1>8. conn' = [p \in Processes |->
                    IF p = ProcessOf[c] /\ (r.pc \in Kept \/ old.pc \in Kept)
                    THEN IF r.pc \in Kept THEN c ELSE Free ELSE conn[p]]
    <2>1. conn[ProcessOf[c]] = c /\ conn = [p \in Processes |-> conn[p]]
      BY DEF IInv, Kept
    <2> QED
      BY <1>4, <2>1 DEF Kept
  <1>9. img' = [d \in Calls |-> IF d = c THEN img[c] ELSE img[d]]
    BY DEF IInv
  <1>10. /\ lock' \in Calls \cup {Free} /\ shared' \in SUBSET Calls
         /\ \A d \in Calls \ {c} : Hold(d)' = Hold(d)
    BY OthersHold DEF IInv
  <1>11. IInv'
    BY <1>2, <1>4, <1>7, <1>8, <1>9, <1>10, StepKeepsIInv DEF Kept
  <1>12. UNCHANGED Contract!vars
    BY <1>2, <1>4, ContractStays DEF Underway, Steps
  <1> QED
    BY <1>11, <1>12 DEF ContractStep

LEMMA FailStatementStep ==
    ASSUME IInv, NEW c \in Calls, FailStatement(c) \/ BusyStatement(c)
    PROVE  IInv' /\ ContractStep
  <1>1. /\ call[c].pc \in {"read", "write", "commit"}
        /\ UNCHANGED <<store, img, conn, lock, shared>>
        /\ \E a \in {"conflict", "failed"} : call' = Undo(c, a)
    BY DEF FailStatement, BusyStatement
  <1>2. PICK a \in {"conflict", "failed"} : call' = Undo(c, a)
    BY <1>1
  <1> QED
    BY <1>1, <1>2, Undone DEF Typed

LEMMA DecideStep ==
    ASSUME IInv, NEW c \in Calls, Decide(c)
    PROVE  IInv' /\ ContractStep
  <1> DEFINE old == call[c]
             o == Operation(old.req, store)
  <1>1. old.pc = "read" /\ UNCHANGED <<store, img, conn, lock, shared>>
    BY DEF Decide
  <1>2. IsCall(old) /\ call = [d \in Calls |-> call[d]] /\ old.req \in Requests
    BY <1>1, OfCall DEF IInv
  <1>3. old.done = "no" /\ Hold(c) # "none" /\ img[c] = store /\ Keyed(store)
    BY <1>1, OfCall DEF Fits
  <1>4. old.answer \in Answers /\ old.done \in {"no", "yes", "same"}
    BY <1>2 DEF IsCall
  <1>5. Hold(c)' = Hold(c)
    BY <1>1 DEF Hold
  <1>6. \/ o.no # {} /\ \E a \in o.no : call' = Undo(c, a)
        \/ o.no = {} /\ o.do = <<>> /\ call' = UndoWith(c, "ok", "same")
        \/ o.no = {} /\ o.do # <<>> /\ call' = ToRun(c, "write", o.do)
    BY <1>3 DEF Decide, UndoWith, ToRun
  <1>7. CASE o.no # {} /\ \E a \in o.no : call' = Undo(c, a)
    <2>1. PICK a \in o.no : call' = Undo(c, a)
      BY <1>7
    <2>2. a \in Typed /\ a \in Refusals(old.req, store)
      BY <1>2, Forms DEF Refusals
    <2> QED
      BY <1>1, <1>3, <1>5, <2>1, <2>2, Undone
  <1>8. CASE o.no = {} /\ o.do = <<>> /\ call' = UndoWith(c, "ok", "same")
    <2> DEFINE r == Made("undo", old.req, <<>>, "ok", "same")
    <2>1. call' = With(c, r)
      BY <1>2, <1>8, GivingUpWith
    <2>2. /\ IsCall(r) /\ r.pc = "undo" /\ r.req = old.req /\ r.answer = "ok"
          /\ r.done = "same"
      BY <1>2, MadeIsCall DEF Steps, Answers
    <2> HIDE DEF r
    <2>3. Fits(r, img[c], store', Hold(c))
      BY <1>3, <2>2 DEF Fits, MayHold, Undoing, Typed
    <2>4. IInv'
      BY <1>1, <2>1, <2>2, <2>3, StepInside DEF Kept
    <2>5. Done(old.req, "same")
      BY <1>1, <1>8, NothingToRun DEF Done
    <2>6. Contract!TakeEffect(c)
      BY <1>1, <1>3, <2>1, <2>2, <2>5, ContractTakesEffect DEF Underway, Steps
    <2> QED
      BY <2>4, <2>6 DEF ContractStep, Contract!Next
  <1>9. CASE o.no = {} /\ o.do # <<>> /\ call' = ToRun(c, "write", o.do)
    <2> DEFINE r == Made("write", old.req, o.do, old.answer, old.done)
    <2>1. call' = With(c, r)
      BY <1>2, <1>9, Running
    <2> HIDE DEF old, o
    <2>2. /\ IsCall(r) /\ r.pc = "write" /\ r.req = old.req /\ r.todo = o.do
          /\ r.done = old.done
      BY <1>2, <1>4, MadeIsCall DEF Steps, Answers
    <2> HIDE DEF r
    <2>3. AreStatements(o.do)
      BY <1>2, Forms DEF o
    <2>4. /\ Len(o.do) \in Nat /\ Len(o.do) > 0 /\ o.do \in Seq(Elements(o.do))
          /\ DOMAIN o.do = 1..Len(o.do)
      BY <1>9, <2>3, StatementsAre DEF AreStatements, IsList
    <2>5. RunTo(o.do, store)[0] = store
      BY <2>4, RunToSteps
    <2>6. o.do = SubSeq(o.do, 0 + 1, Len(o.do))
      <3>1. SubSeq(o.do, 1, Len(o.do)) = [j \in 1..Len(o.do) |-> o.do[j]]
        BY <2>4, LenProperties
      <3> QED
        BY <2>4, <3>1
    <2>7. Progress(r, store, store, 0) /\ 0 \in 0..(Len(o.do) - 1)
      BY <1>9, <2>2, <2>4, <2>5, <2>6 DEF Progress, o
    <2>8. Writing(r, store, store, Hold(c))
      BY <1>3, <2>2, <2>7 DEF Writing, o
    <2>9. Fits(r, img[c], store', Hold(c))
      BY <1>1, <1>3, <2>2, <2>8 DEF Fits, MayHold
    <2>10. IInv'
      BY <1>1, <2>1, <2>2, <2>9, StepInside DEF Kept, old
    <2>11. UNCHANGED Contract!vars
      BY <1>1, <2>1, <2>2, ContractStays DEF Underway, Steps, old
    <2> QED
      BY <2>10, <2>11 DEF ContractStep
  <1> QED
    BY <1>6, <1>7, <1>8, <1>9

LEMMA WriteStep ==
    ASSUME IInv, NEW c \in Calls, Write(c)
    PROVE  IInv' /\ ContractStep
  <1> DEFINE old == call[c]
             do == Operation(old.req, store).do
             seen == IF Hold(c) = "none" THEN store ELSE img[c]
             s == Head(old.todo)
  <1>1. /\ old.pc = "write" /\ lock \in {c, Free} /\ lock' = c
        /\ store' = store /\ conn' = conn /\ shared' = shared
    BY DEF Write
  <1>2. /\ IsCall(old) /\ call = [d \in Calls |-> call[d]] /\ old.req \in Requests
        /\ img = [d \in Calls |-> img[d]]
    BY <1>1, OfCall DEF IInv
  <1>3. /\ old.done = "no" /\ Keyed(seen) /\ Writing(old, img[c], store, Hold(c))
        /\ old.answer \in Answers
    BY <1>1, OfCall DEF Fits, IsCall, IInv
  <1>4. PICK k \in 0..(Len(do) - 1) : Progress(old, seen, store, k)
    BY <1>2, <1>3, ComeTo
  <1>5. seen = IF lock = c \/ c \in shared THEN img[c] ELSE store
    BY DEF Hold
  <1>6. Hold(c)' = "write"
    BY <1>1 DEF Hold
  <1>7. CASE Misses(s, seen) # {}
    <2>1. PICK a \in Misses(s, seen) : call' = Undo(c, a)
      BY <1>5, <1>7 DEF Write
    <2>2. img' = img
      BY <1>5, <1>7 DEF Write
    <2>3. a \in Typed \cap Refusals(old.req, store)
      BY <1>2, <1>4, <2>1, Advance
    <2> QED
      BY <1>1, <1>6, <2>1, <2>2, <2>3, Undone
  <1>8. CASE Misses(s, seen) = {}
    <2> DEFINE i == Run(s, seen)
               pc == IF Tail(old.todo) = <<>> THEN "commit" ELSE "write"
               r == Made(pc, old.req, Tail(old.todo), old.answer, old.done)
    <2>1. img' = [img EXCEPT ![c] = i] /\ call' = ToDo(c, Tail(old.todo), pc)
      BY <1>5, <1>8 DEF Write, ToDo
    <2>2. call' = With(c, r)
      <3> HIDE DEF pc
      <3>1. call' = ToDo(c, Tail(call[c].todo), pc)
        BY <2>1
      <3> QED
        BY <1>2, <3>1, Doing
    <2>3. img' = [d \in Calls |-> IF d = c THEN i ELSE img[d]]
      BY <1>2, <2>1
    <2>4. Keyed(i)
      BY <1>2, <1>3, <1>4, <1>8, Advance, RunKeepsKeys
    <2>5. pc = "commit" => Committing(old, i, store)
      BY <1>2, <1>4, <1>8, Advance
    <2>6. pc = "write" => \E l \in 0..(Len(do) - 1) :
                             /\ Tail(old.todo) = SubSeq(do, l + 1, Len(do))
                             /\ i = RunTo(do, store)[l]
                             /\ \A j \in 1..l : Misses(do[j], RunTo(do, store)[j - 1]) = {}
      BY <1>2, <1>4, <1>8, Advance
    <2>7. pc \in {"commit", "write"}
      OBVIOUS
    <2> HIDE DEF old, pc, i
    <2>8. /\ IsCall(r) /\ r.pc = pc /\ r.req = old.req /\ r.todo = Tail(old.todo)
          /\ r.done = old.done
      BY <1>2, <1>3, <2>7, MadeIsCall DEF Steps
    <2> HIDE DEF r
    <2>9. pc = "commit" => Committing(r, i, store)
      BY <2>5, <2>8 DEF Committing
    <2>10. pc = "write" => Writing(r, i, store, "write")
      <3>1. Operation(old.req, store).no = {}
        BY <1>4 DEF Progress
      <3> QED
        BY <2>6, <2>8, <3>1 DEF Writing, Progress
    <2>11. Fits(r, i, store', Hold(c)')
      BY <1>1, <1>3, <1>6, <2>4, <2>7, <2>8, <2>9, <2>10 DEF Fits, MayHold
    <2>12. conn' = [p \in Processes |->
                       IF p = ProcessOf[c] /\ (r.pc \in Kept \/ old.pc \in Kept)
                       THEN IF r.pc \in Kept THEN c ELSE Free ELSE conn[p]]
      <3>1. conn[ProcessOf[c]] = c /\ conn = [p \in Processes |-> conn[p]]
        BY <1>1 DEF IInv, Kept, old
      <3> QED
        BY <1>1, <2>7, <2>8, <3>1 DEF Kept
    <2>13. /\ lock' \in Calls \cup {Free} /\ shared' \in SUBSET Calls
           /\ \A d \in Calls \ {c} : Hold(d)' = Hold(d)
      BY <1>1, OthersHold DEF IInv
    <2>14. IInv'
      BY <1>1, <2>2, <2>3, <2>7, <2>8, <2>11, <2>12, <2>13, StepKeepsIInv DEF Kept, old
    <2>15. UNCHANGED Contract!vars
      BY <1>1, <2>2, <2>7, <2>8, ContractStays DEF Underway, Steps, old
    <2> QED
      BY <2>14, <2>15 DEF ContractStep
  <1> QED
    BY <1>7, <1>8

\* What a transaction had is given back.
LEMMA Released ==
    ASSUME IInv, NEW c \in Calls, Release(c)
    PROVE  /\ Hold(c)' = "none" /\ \A d \in Calls \ {c} : Hold(d)' = Hold(d)
           /\ lock' \in Calls \cup {Free} /\ shared' \in SUBSET Calls
           /\ img' = [d \in Calls |-> IF d = c THEN {} ELSE img[d]]
  <1>1. c # Free
    BY CallsAssumption
  <1>2. shared' = shared \ {c} /\ lock' = IF lock = c THEN Free ELSE lock
    BY DEF Release
  <1>3. Hold(c)' = "none"
    BY <1>1, <1>2 DEF Hold
  <1>4. \A d \in Calls \ {c} : Hold(d)' = Hold(d)
    BY <1>2, OthersHold
  <1>5. img' = [d \in Calls |-> IF d = c THEN {} ELSE img[d]]
    BY DEF Release, IInv
  <1> QED
    BY <1>2, <1>3, <1>4, <1>5 DEF IInv

LEMMA RollbackStep ==
    ASSUME IInv, NEW c \in Calls, Rollback(c)
    PROVE  IInv' /\ ContractStep
  <1> DEFINE old == call[c]
             r == Made("done", old.req, <<>>, old.answer, old.done)
  <1>1. /\ old.pc = "undo" /\ call' = Return(c, old.answer) /\ store' = store
        /\ conn' = [conn EXCEPT ![ProcessOf[c]] = Free] /\ Release(c)
    BY DEF Rollback
  <1>2. IsCall(old) /\ call = [d \in Calls |-> call[d]] /\ old.req \in Requests
    BY <1>1, OfCall DEF IInv
  <1>3. Undoing(old, store, Hold(c))
    BY <1>1, OfCall DEF Fits
  <1>4. call' = With(c, r)
    BY <1>1, <1>2, Returning
  <1>5. old.answer \in Answers /\ old.done \in {"no", "yes", "same"}
    BY <1>2 DEF IsCall
  <1> HIDE DEF old
  <1>6. /\ IsCall(r) /\ r.pc = "done" /\ r.req = old.req /\ r.answer = old.answer
        /\ r.done = old.done
    BY <1>2, <1>5, MadeIsCall DEF Steps
  <1> HIDE DEF r
  <1>7. Keyed({})
    BY DEF Keyed
  <1>8. Fits(r, {}, store', Hold(c)')
    BY <1>1, <1>6, <1>7, Released DEF Fits
  <1>9. conn' = [p \in Processes |->
                    IF p = ProcessOf[c] /\ (r.pc \in Kept \/ call[c].pc \in Kept)
                    THEN IF r.pc \in Kept THEN c ELSE Free ELSE conn[p]]
    BY <1>1, <1>6 DEF IInv, Kept, old
  <1>10. IInv'
    <2>1. store' = store /\ r.pc \notin Kept
      BY <1>1, <1>6 DEF Kept
    <2>2. Release(c)
      BY <1>1
    <2> QED
      BY <1>4, <1>6, <1>8, <1>9, <2>1, <2>2, Released, StepKeepsIInv
  <1>11. Contract!Answer(c)
    <2>1. /\ old.answer \in Answers \ {"none"}
          /\ old.answer = "ok" => old.done # "no"
          /\ old.answer \in Typed => old.done = "no"
          /\ old.answer \in Typed \ {"conflict"} => old.answer \in Refusals(old.req, store)
      BY <1>3, <1>5 DEF Undoing, Typed
    <2> QED
      BY <1>1, <1>4, <1>6, <2>1, ContractAnswers DEF Underway, Steps, old
  <1> QED
    BY <1>10, <1>11 DEF ContractStep, Contract!Next

LEMMA CommitStep ==
    ASSUME IInv, NEW c \in Calls, Commit(c)
    PROVE  IInv' /\ ContractStep
  <1> DEFINE old == call[c]
             o == Operation(old.req, store)
  <1>1. /\ old.pc = "commit" /\ shared \subseteq {c} /\ store' = img[c] /\ conn' = conn
        /\ Release(c)
    BY DEF Commit
  <1>2. PICK a \in {"none", "failed"} : call' = ToEnd(c, "close", "yes", a)
    BY DEF Commit, ToEnd
  <1> DEFINE r == Made("close", old.req, old.todo, a, "yes")
  <1>3. IsCall(old) /\ call = [d \in Calls |-> call[d]] /\ old.req \in Requests
    BY <1>1, OfCall DEF IInv
  <1>4. call' = With(c, r)
    BY <1>2, <1>3, Ending
  <1>5. old.done = "no" /\ Keyed(img[c]) /\ Hold(c) = "write" /\ Committing(old, img[c], store)
    BY <1>1, OfCall DEF Fits
  <1>6. /\ IsCall(r) /\ r.pc = "close" /\ r.req = old.req /\ r.answer = a /\ r.done = "yes"
    <2> HIDE DEF old
    <2> QED
      BY <1>3, MadeIsCall DEF Steps, Answers
  <1> HIDE DEF r
  <1>7. \A d \in Calls \ {c} : Hold(d) = "none"
    <2>1. lock = c
      BY <1>5 DEF Hold
    <2> QED
      BY <1>1, <2>1 DEF Hold
  <1>8. Fits(r, {}, store', Hold(c)')
    <2>1. Keyed({})
      BY DEF Keyed
    <2> QED
      BY <1>1, <1>6, <2>1, Released DEF Fits
  <1>9. conn' = [p \in Processes |->
                    IF p = ProcessOf[c] /\ (r.pc \in Kept \/ call[c].pc \in Kept)
                    THEN IF r.pc \in Kept THEN c ELSE Free ELSE conn[p]]
    <2>1. conn[ProcessOf[c]] = c /\ conn = [p \in Processes |-> conn[p]]
      BY <1>1 DEF IInv, Kept
    <2> QED
      BY <1>1, <1>6, <2>1 DEF Kept
  <1>10. IInv'
    <2>1. Keyed(store') /\ r.pc \in Kept /\ call[c].pc \in Kept
      BY <1>1, <1>5, <1>6 DEF Kept
    <2> QED
      BY <1>1, <1>4, <1>6, <1>7, <1>8, <1>9, <2>1, Released, StepKeepsIInv
  <1>11. Done(old.req, "yes")
    BY <1>1, <1>5 DEF Done, Committing
  <1>12. Contract!TakeEffect(c)
    BY <1>1, <1>4, <1>5, <1>6, <1>11, ContractTakesEffect DEF Underway, Steps
  <1> QED
    BY <1>10, <1>12 DEF ContractStep, Contract!Next

LEMMA CloseStep ==
    ASSUME IInv, NEW c \in Calls, Close(c)
    PROVE  IInv' /\ ContractStep
  <1> DEFINE old == call[c]
  <1>1. /\ old.pc = "close" /\ UNCHANGED <<store, img, lock, shared>>
        /\ conn' = [conn EXCEPT ![ProcessOf[c]] = Free]
    BY DEF Close
  <1>2. IsCall(old) /\ call = [d \in Calls |-> call[d]] /\ old.req \in Requests
    BY <1>1, OfCall DEF IInv
  <1>3. /\ old.done = "yes" /\ old.answer \in {"none", "failed"} /\ Hold(c) = "none"
        /\ img[c] = {} /\ Keyed({})
    BY <1>1, OfCall DEF Fits, MayHold, Keyed
  <1>4. PICK a \in {"ok", "failed"} : call' = Return(c, a)
    BY <1>3 DEF Close
  <1> DEFINE r == Made("done", old.req, <<>>, a, old.done)
  <1>5. call' = With(c, r)
    BY <1>2, <1>4, Returning
  <1>6. /\ IsCall(r) /\ r.pc = "done" /\ r.req = old.req /\ r.answer = a /\ r.done = "yes"
    <2> HIDE DEF old
    <2> QED
      BY <1>2, <1>3, MadeIsCall DEF Steps, Answers
  <1> HIDE DEF r
  <1>7. \A d \in Calls : Hold(d)' = Hold(d)
    BY <1>1 DEF Hold
  <1>8. Fits(r, {}, store', Hold(c)')
    BY <1>1, <1>3, <1>6, <1>7 DEF Fits
  <1>9. conn' = [p \in Processes |->
                    IF p = ProcessOf[c] /\ (r.pc \in Kept \/ call[c].pc \in Kept)
                    THEN IF r.pc \in Kept THEN c ELSE Free ELSE conn[p]]
    BY <1>1, <1>6 DEF IInv, Kept
  <1>10. /\ img' = [d \in Calls |-> IF d = c THEN {} ELSE img[d]]
         /\ lock' \in Calls \cup {Free} /\ shared' \in SUBSET Calls
    BY <1>1, <1>3 DEF IInv
  <1>11. IInv'
    <2>1. store' = store /\ r.pc \notin Kept
      BY <1>1, <1>6 DEF Kept
    <2> QED
      BY <1>5, <1>6, <1>7, <1>8, <1>9, <1>10, <2>1, StepKeepsIInv
  <1>12. Contract!Answer(c)
    BY <1>1, <1>3, <1>5, <1>6, ContractAnswers DEF Underway, Steps, Answers, Typed
  <1> QED
    BY <1>11, <1>12 DEF ContractStep, Contract!Next

\* A process ends: its calls in flight are lost, with what they had.
LEMMA CrashStep ==
    ASSUME IInv, NEW p \in Processes, Crash(p)
    PROVE  IInv' /\ ContractStep
  <1> DEFINE gone == {c \in Calls : ProcessOf[c] = p /\ call[c].pc \notin {"new", "done", "lost"}}
  <1>1. /\ call' = [c \in Calls |-> IF c \in gone
                                    THEN [call[c] EXCEPT !.pc = "lost", !.todo = <<>>,
                                                         !.answer = "none"]
                                    ELSE call[c]]
        /\ img' = [c \in Calls |-> IF c \in gone THEN {} ELSE img[c]]
        /\ conn' = [conn EXCEPT ![p] = Free]
        /\ lock' = IF lock \in gone THEN Free ELSE lock
        /\ shared' = shared \ gone
        /\ store' = store
    BY DEF Crash
  <1>2. \A c \in gone : /\ c \in Calls /\ ProcessOf[c] = p /\ Underway(call[c])
                        /\ call[c].pc # "new" /\ IsCall(call[c]) /\ call[c].req \in Requests
    BY OfCall DEF IsCall, Underway
  <1>3. \A c \in Calls \ gone : call[c].pc \in Kept => ProcessOf[c] # p
    BY DEF Kept
  <1> HIDE DEF gone
  <1>4. ASSUME NEW c \in gone
        PROVE  call'[c] = Made("lost", call[c].req, <<>>, "none", call[c].done)
    <2> PICK r : r = call[c]
      OBVIOUS
    <2> PICK g : g = call'[c]
      OBVIOUS
    <2>1. g = [r EXCEPT !.pc = "lost", !.todo = <<>>, !.answer = "none"]
      BY <1>1, <1>2, Zenon
    <2>2. r = [pc |-> r.pc, req |-> r.req, todo |-> r.todo, answer |-> r.answer,
               done |-> r.done]
      BY <1>2 DEF IsCall
    <2>3. g = Made("lost", r.req, <<>>, "none", r.done)
      BY <2>1, <2>2, Zenon DEF Made
    <2> QED
      BY <2>3
  <1>5. ASSUME NEW c \in gone
        PROVE  /\ IsCall(call'[c]) /\ call'[c].pc = "lost" /\ call'[c].req = call[c].req
               /\ call'[c].done = call[c].done
    <2>1. call[c].done \in {"no", "yes", "same"} /\ "lost" \in Steps /\ "none" \in Answers
      BY <1>2 DEF IsCall, Steps, Answers
    <2> QED
      BY <1>2, <1>4, <2>1, MadeIsCall
  <1>6. \A c \in Calls \ gone : call'[c] = call[c] /\ img'[c] = img[c]
    BY <1>1
  <1>7. \A c \in gone : img'[c] = {}
    BY <1>1, <1>2
  <1>8. ASSUME NEW c \in Calls PROVE Hold(c)' = IF c \in gone THEN "none" ELSE Hold(c)
    <2>1. c # Free
      BY CallsAssumption
    <2>2. c \in shared' <=> c \in shared /\ c \notin gone
      BY <1>1
    <2>3. lock' = c <=> lock = c /\ c \notin gone
      BY <1>1, <2>1
    <2> QED
      BY <2>2, <2>3 DEF Hold
  <1>9. ASSUME NEW c \in Calls
        PROVE  IsCall(call'[c]) /\ Fits(call'[c], img'[c], store', Hold(c)')
    <2>1. CASE c \in gone
      <3>1. Keyed({})
        BY DEF Keyed
      <3>2. Fits(call'[c], {}, store', "none")
        BY <1>5, <2>1, <3>1 DEF Fits
      <3> QED
        BY <1>5, <1>7, <1>8, <2>1, <3>2
    <2>2. CASE c \notin gone
      <3>1. IsCall(call[c]) /\ Fits(call[c], img[c], store', Hold(c)')
        BY <1>1, <1>8, <2>2, OfCall
      <3> QED
        BY <1>6, <2>2, <3>1
    <2> QED
      BY <2>1, <2>2
  <1>10. conn = [q \in Processes |-> conn[q]] /\ conn' = [q \in Processes |-> conn'[q]]
         /\ \A q \in Processes : conn'[q] = IF q = p THEN Free ELSE conn[q]
    BY <1>1 DEF IInv
  <1>11. ASSUME NEW q \in Processes, conn'[q] # Free
         PROVE  /\ conn'[q] \in Calls /\ ProcessOf[conn'[q]] = q
                /\ call'[conn'[q]].pc \in Kept
    <2>1. q # p /\ conn'[q] = conn[q]
      BY <1>10, <1>11
    <2>2. conn[q] \in Calls /\ ProcessOf[conn[q]] = q /\ call[conn[q]].pc \in Kept
      BY <1>11, <2>1 DEF IInv
    <2>3. conn[q] \notin gone
      BY <1>2, <2>1, <2>2
    <2> QED
      BY <1>6, <2>1, <2>2, <2>3
  <1>12. ASSUME NEW c \in Calls, call'[c].pc \in Kept
         PROVE  conn'[ProcessOf[c]] = c
    <2>1. c \notin gone
      BY <1>5, <1>12 DEF Kept
    <2>2. call[c].pc \in Kept /\ ProcessOf[c] # p /\ conn[ProcessOf[c]] = c
      BY <1>3, <1>6, <1>12, <2>1 DEF IInv
    <2>3. ProcessOf[c] \in Processes
      BY CallsAssumption
    <2> QED
      BY <1>10, <2>2, <2>3
  <1>13. /\ lock' \in Calls \cup {Free} /\ shared' \in SUBSET Calls /\ Keyed(store')
         /\ call' = [c \in Calls |-> call'[c]] /\ img' = [c \in Calls |-> img'[c]]
    BY <1>1 DEF IInv
  <1>14. IInv'
    BY <1>9, <1>10, <1>11, <1>12, <1>13 DEF IInv
  <1>15. Contract!Crash
    <2>1. \A c \in gone : View(call[c]).phase = "open" /\ View(call[c]).answer = "none"
      BY <1>2, PhasesOf DEF View, Underway
    <2>2. \A c \in gone : /\ View(call'[c]).phase = "lost" /\ View(call'[c]).answer = "none"
                          /\ View(call'[c]).req = call[c].req
                          /\ View(call'[c]).done = call[c].done
      BY <1>5, PhasesOf DEF View
    <2>3. /\ Seen = [c \in Calls |-> View(call[c])]
          /\ Seen' = [c \in Calls |-> View(call'[c])]
      BY DEF Seen, View, Phase
    <2>4. gone \in SUBSET {c \in Calls : Seen[c].phase = "open"}
      BY <1>2, <2>1, <2>3
    <2>5. ASSUME NEW c \in Calls
          PROVE  Seen'[c] = [Seen[c] EXCEPT !.phase = IF c \in gone THEN "lost" ELSE @]
      <3> PICK old : old = Seen[c]
        OBVIOUS
      <3> PICK new : new = [old EXCEPT !.phase = IF c \in gone THEN "lost" ELSE @]
        OBVIOUS
      <3>1. old = View(call[c]) /\ Seen'[c] = View(call'[c])
        BY <2>3
      <3>2. old = [phase |-> old.phase, req |-> old.req, done |-> old.done,
                   answer |-> old.answer]
        BY <3>1, Zenon DEF View
      <3>3. CASE c \in gone
        <4>1. new = [old EXCEPT !.phase = "lost"]
          BY <3>3
        <4>2. new = [phase |-> "lost", req |-> old.req, done |-> old.done,
                     answer |-> old.answer]
          BY <3>2, <4>1, Zenon
        <4>3. old.req = call[c].req /\ old.done = call[c].done /\ old.answer = "none"
          BY <2>1, <3>1, <3>3, Views
        <4>4. View(call'[c]) = [phase |-> "lost", req |-> call[c].req, done |-> call[c].done,
                                answer |-> "none"]
          BY <1>5, <3>3, PhasesOf DEF View
        <4> QED
          BY <3>1, <4>2, <4>3, <4>4
      <3>4. CASE c \notin gone
        <4>1. new = [old EXCEPT !.phase = @]
          BY <3>4
        <4>2. new = old
          BY <3>2, <4>1, Zenon
        <4> QED
          BY <1>6, <3>1, <3>4, <4>2
      <3> QED
        BY <3>3, <3>4
    <2>6. Seen' = [c \in Calls |-> [Seen[c] EXCEPT !.phase = IF c \in gone THEN "lost" ELSE @]]
      BY <2>3, <2>5
    <2> QED
      BY <1>1, <2>4, <2>6 DEF Contract!Crash
  <1> QED
    BY <1>14, <1>15 DEF ContractStep, Contract!Next

LEMMA StepKeeps ==
    ASSUME IInv, [Next]_vars
    PROVE  IInv' /\ ContractStep
  <1>1. ASSUME NEW c \in Calls, Start(c) \/ Proceed(c) \/ FailAlone(c) \/ FailStatement(c)
        PROVE  IInv' /\ ContractStep
    BY <1>1, StartStep, LookUpStep, ExecContextStep, FailAloneStep, BeginImmediateStep,
       BeginTxStep, DecideStep, WriteStep, FailStatementStep, RollbackStep, CommitStep,
       CloseStep
       DEF Proceed
  <1>2. ASSUME NEW p \in Processes, Crash(p)
        PROVE  IInv' /\ ContractStep
    BY <1>2, CrashStep
  <1>3. CASE UNCHANGED vars
    <2>1. \A c \in Calls : Hold(c)' = Hold(c)
      BY <1>3 DEF vars, Hold
    <2>2. IInv'
      BY <1>3, <2>1 DEF vars, IInv
    <2>3. Seen' = Seen
      BY <1>3 DEF vars, Seen
    <2> QED
      BY <1>3, <2>2, <2>3 DEF vars, ContractStep, Contract!vars
  <1> QED
    BY <1>1, <1>2, <1>3 DEF Next

LEMMA InitHolds ==
    ASSUME Init
    PROVE  IInv /\ Contract!Init
  <1> DEFINE new == Made("new", NoRequest, <<>>, "none", "no")
  <1>1. /\ store \in InitialRows /\ call = [c \in Calls |-> new]
        /\ img = [c \in Calls |-> {}] /\ conn = [p \in Processes |-> Free]
        /\ lock = Free /\ shared = {}
    BY DEF Init, Made
  <1>2. /\ IsCall(new) /\ new.pc = "new" /\ new.req = NoRequest /\ new.done = "no"
    BY DEF Made, IsCall, Steps, Answers
  <1>3. \A c \in Calls : Hold(c) = "none"
    BY <1>1, CallsAssumption DEF Hold
  <1> HIDE DEF new
  <1>4. Keyed(store) /\ Keyed({})
    BY <1>1, CallsAssumption DEF Keyed
  <1>5. Fits(new, {}, store, "none")
    BY <1>2, <1>4 DEF Fits
  <1>6. \A c \in Calls : IsCall(call[c]) /\ Fits(call[c], img[c], store, Hold(c))
    BY <1>1, <1>2, <1>3, <1>5
  <1>7. IInv
    BY <1>1, <1>2, <1>4, <1>6 DEF IInv, Kept
  <1>8. View(new) = [phase |-> "idle", req |-> NoRequest, done |-> "no", answer |-> "none"]
    BY <1>2, PhasesOf DEF View
  <1>9. Seen = [c \in Calls |-> View(new)]
    BY <1>1 DEF Seen, View, Phase
  <1> QED
    BY <1>1, <1>7, <1>8, <1>9 DEF Contract!Init

LEMMA IInvTypes ==
    ASSUME IInv
    PROVE  TypeOK
  <1>1. \A c \in Calls : /\ call[c].pc \in Steps
                         /\ call[c].req \in Requests \cup {NoRequest}
                         /\ call[c].answer \in Answers
                         /\ call[c].done \in {"no", "yes", "same"}
    BY OfCall DEF IsCall
  <1>2. lock # Free => call[lock].pc \in {"read", "write", "commit", "undo"}
    <2>1. lock # Free => lock \in Calls /\ Hold(lock) = "write"
      BY DEF IInv, Hold
    <2> QED
      BY <2>1, OfCall DEF MayHold
  <1>3. \A c \in Calls : img[c] # {} => lock = c \/ c \in shared
    BY OfCall DEF Fits, Hold
  <1> QED
    BY <1>1, <1>2, <1>3 DEF IInv, TypeOK, Kept

-----------------------------------------------------------------------------
(* The handoffs.                                                           *)

\* A change of the committed rows is the effect of one request on them.
LEMMA ChangesAreEffects ==
    ASSUME IInv, ContractStep, store' # store
    PROVE  \E q \in Requests : LET o == Operation(q, store)
                               IN /\ o.no = {} /\ ListMisses(o.do, store) = {}
                                  /\ store' = RunAll(o.do, store)
  <1>1. PICK c \in Calls : \E effect \in {"yes", "same"} : Contract!TakesEffect(c, effect)
    BY DEF ContractStep, Contract!Next, Contract!vars, Contract!Crash, Contract!Open,
           Contract!TakeEffect, Contract!Answer, Contract!TakeEffectAndAnswer
  <1> DEFINE q == Seen[c].req
             o == Operation(q, store)
  <1>2. /\ Seen[c].phase = "open" /\ o.no = {} /\ ListMisses(o.do, store) = {}
        /\ store' = RunAll(o.do, store)
    BY <1>1 DEF Contract!TakesEffect
  <1>3. Seen[c] = View(call[c])
    BY DEF Seen, View, Phase
  <1>4. call[c].pc # "new"
    BY <1>2, <1>3, Views, PhasesOf DEF Phase
  <1>5. q \in Requests
    BY <1>3, <1>4, Views, OfCall DEF IsCall
  <1> HIDE DEF q
  <1> QED
    BY <1>2, <1>5

\* A step leaves the rows with all their columns, and the handoffs it changed
\* with references that resolve.
LEMMA StepResolves ==
    ASSUME IInv, ContractStep, AreRows(store)
    PROVE  /\ AreRows(store')
           /\ \A h \in store' \ store :
                  (h.tab = "handoffs" /\ Has(store, "handoffs", h.id))
                  => ValidHandoff([h EXCEPT !.src = None], store')
  <1>1. CASE store' = store
    BY <1>1
  <1>2. CASE store' # store
    <2>1. PICK q \in Requests : LET o == Operation(q, store)
                                IN /\ o.no = {} /\ ListMisses(o.do, store) = {}
                                   /\ store' = RunAll(o.do, store)
      BY <1>2, ChangesAreEffects
    <2>2. q.op \in Ops
      BY CallsAssumption
    <2>3. AreRows(store')
      BY <2>1, <2>2, EffectWrites
    <2>4. ChangesResolve(q, store)
      BY <2>2, HandoffChangesResolve
    <2> QED
      BY <2>1, <2>3, <2>4 DEF ChangesResolve
  <1> QED
    BY <1>1, <1>2

-----------------------------------------------------------------------------
(* The theorems.                                                           *)

\* What a call still has to do, and the rows its transaction sees, agree with
\* its request and the committed rows in every state.
THEOREM InvariantHolds == Spec => []IInv
  <1>1. Init => IInv
    BY InitHolds
  <1>2. IInv /\ [Next]_vars => IInv'
    BY StepKeeps
  <1> QED
    BY <1>1, <1>2, PTL DEF Spec

\* Rows are keyed, a connection or the lock is held only by a call in its
\* transaction, and only those have uncommitted rows.
THEOREM TypesHold == Spec => []TypeOK
  <1>1. IInv => TypeOK
    BY IInvTypes
  <1> QED
    BY <1>1, InvariantHolds, PTL

\* internal/sqlitestore keeps the contract of a core.Store: whatever the
\* statements of the calls interleave to, and wherever one of them or a
\* process fails, each operation takes effect at once or not at all, and its
\* answer says which as far as it can.
THEOREM StoreImplementsContract == Spec => ImplementsContract
  <1>1. Init => IInv /\ Contract!Init
    BY InitHolds
  <1>2. IInv /\ [Next]_vars => IInv' /\ [Contract!Next]_(Contract!vars)
    BY StepKeeps DEF ContractStep
  <1> QED
    BY <1>1, <1>2, PTL DEF Spec, ImplementsContract, Contract!Spec

\* Whatever is deleted between a request and its transaction, and whatever
\* rolls back, a transaction that changes a handoff leaves it naming a role, a
\* target assignment and a target work item that exist at its commit.
THEOREM HandoffsResolve == Spec => ChangedHandoffsResolve
  <1>1. Init => AreRows(store)
    BY CallsAssumption DEF Init
  <1>2. IInv /\ [Next]_vars => ContractStep
    BY StepKeeps
  <1>3. IInv /\ AreRows(store) /\ ContractStep
        => /\ AreRows(store')
           /\ [\A h \in store' \ store :
                  (h.tab = "handoffs" /\ Has(store, "handoffs", h.id))
                  => ValidHandoff([h EXCEPT !.src = None], store')]_vars
    BY StepResolves
  <1>4. AreRows(store)' <=> AreRows(store')
    BY DEF AreRows
  <1> QED
    BY <1>1, <1>2, <1>3, <1>4, InvariantHolds, PTL DEF Spec, ChangedHandoffsResolve
=============================================================================
