-------------------------- MODULE SqliteTransition --------------------------
(***************************************************************************)
(* internal/sqlitestore under several callers and several processes on one *)
(* database file, statement by statement.  A process has one connection,   *)
(* which a transaction keeps from its BEGIN to its end and every other     *)
(* statement borrows; SQLite lets one connection write at a time and       *)
(* commits only when no other transaction has read.  Any statement may     *)
(* fail, COMMIT may report an error although it took, and a process may    *)
(* end between two statements.                                             *)
(***************************************************************************)
EXTENDS StoreStatements, FiniteSets

CONSTANTS Calls, Processes, ProcessOf, Requests, MayAsk, InitialRows, NoRequest, Free,
          MaxCalls  \* bound: how many calls a behaviour starts

ASSUME CallsAssumption == /\ \A q \in Requests : q.op \in Ops
                          /\ \A rows \in InitialRows : Keyed(rows) /\ AreRows(rows)
                          /\ ProcessOf \in [Calls -> Processes]
                          /\ MayAsk \in [Calls -> SUBSET Requests]
                          /\ Free \notin Calls

VARIABLES
    store,   \* the committed rows
    call,    \* call -> how far it is
    img,     \* call -> the rows as its transaction sees them
    conn,    \* process -> the call that holds its connection, or Free
    lock,    \* the call whose transaction may write, or Free
    shared   \* calls whose transaction has read without writing

vars == <<store, call, img, conn, lock, shared>>

Steps == {"new", "look", "exec", "begin", "read", "write", "commit", "undo", "close",
          "done", "lost"}

Init ==
    /\ store \in InitialRows
    /\ call = [c \in Calls |-> [pc |-> "new", req |-> NoRequest, todo |-> <<>>,
                                answer |-> "none", done |-> "no"]]
    /\ img = [c \in Calls |-> {}]
    /\ conn = [p \in Processes |-> Free]
    /\ lock = Free
    /\ shared = {}

Idle(c) == conn[ProcessOf[c]] = Free
Asked(c) == Operation(call[c].req, store)
Return(c, answer) == [call EXCEPT ![c].pc = "done", ![c].answer = answer, ![c].todo = <<>>]
Undo(c, answer) == [call EXCEPT ![c].pc = "undo", ![c].answer = answer, ![c].todo = <<>>]
\* Nobody else is in the way of a write that commits by itself.
Alone(c) == lock = Free /\ shared \subseteq {c}
Mode(q) == Operation(q, store).mode
Deferred(c) == Mode(call[c].req) = "deferred"

\* Where a call goes once its look-ups are done.
After(looks, q) ==
    IF looks # <<>> THEN "look"
    ELSE IF Mode(q) = "auto" THEN "exec" ELSE "begin"

Start(c) ==
    /\ call[c].pc = "new" /\ Cardinality({d \in Calls : call[d].pc # "new"}) < MaxCalls
    /\ \E q \in MayAsk[c] :
           LET looks == Operation(q, store).looks
           IN call' = [call EXCEPT ![c].req = q, ![c].todo = looks, ![c].pc = After(looks, q)]
    /\ UNCHANGED <<store, img, conn, lock, shared>>

\* requireWorkItem, requireRole, GetAssignment, GetRole: a statement each.
LookUp(c) ==
    /\ call[c].pc = "look" /\ Idle(c)
    /\ call' = IF Found(Head(call[c].todo), store)
               THEN [call EXCEPT ![c].todo = Tail(@),
                                 ![c].pc = After(Tail(call[c].todo), call[c].req)]
               ELSE Return(c, "notfound")
    /\ UNCHANGED <<store, img, conn, lock, shared>>

\* One INSERT, UPDATE or DELETE that commits by itself; the answer can be an
\* error although it took.
ExecContext(c) ==
    /\ call[c].pc = "exec" /\ Idle(c) /\ Alone(c)
    /\ LET todo == IF call[c].todo = <<>> THEN Asked(c).do ELSE call[c].todo
           s == Head(todo)
       IN IF Misses(s, store) # {}
          THEN /\ \E a \in Misses(s, store) : call' = Return(c, a)
               /\ UNCHANGED store
          ELSE /\ store' = Run(s, store)
               /\ IF Tail(todo) # <<>>
                  THEN call' = [call EXCEPT ![c].todo = Tail(todo)]
                  ELSE \E a \in {"ok", "failed"} :
                           call' = [Return(c, a) EXCEPT ![c].done = "yes"]
    /\ UNCHANGED <<img, conn, lock, shared>>

\* A statement outside a transaction, or the BEGIN, fails: the context ended
\* or the file could not be read.
FailAlone(c) ==
    /\ call[c].pc \in {"look", "exec", "begin"} /\ Idle(c)
    /\ call' = Return(c, "failed")
    /\ UNCHANGED <<store, img, conn, lock, shared>>

\* Another connection was in the way for the five seconds of busy_timeout.
BusyAlone(c) ==
    /\ call[c].pc \in {"exec", "begin"} /\ Idle(c) /\ ~Alone(c)
    /\ \E a \in {"conflict", "failed"} : call' = Return(c, a)
    /\ UNCHANGED <<store, img, conn, lock, shared>>

\* beginImmediateTransition keeps the connection and takes the write lock.
BeginImmediate(c) ==
    /\ call[c].pc = "begin" /\ Idle(c) /\ ~Deferred(c) /\ lock = Free
    /\ call' = [call EXCEPT ![c].pc = "read"]
    /\ conn' = [conn EXCEPT ![ProcessOf[c]] = c]
    /\ lock' = c
    /\ img' = [img EXCEPT ![c] = store]
    /\ UNCHANGED <<store, shared>>

\* db.BeginTx: no lock until the first statement, a read for a promotion.
BeginTx(c) ==
    /\ call[c].pc = "begin" /\ Idle(c) /\ Deferred(c)
    /\ conn' = [conn EXCEPT ![ProcessOf[c]] = c]
    /\ IF call[c].req.op = "PromoteMemoryCandidate"
       THEN /\ call' = [call EXCEPT ![c].pc = "read"]
            /\ shared' = shared \cup {c}
            /\ img' = [img EXCEPT ![c] = store]
       ELSE /\ call' = [call EXCEPT ![c].pc = "write", ![c].todo = Asked(c).do]
            /\ UNCHANGED <<img, shared>>
    /\ UNCHANGED <<store, lock>>

\* The SELECTs of a transaction and what it decides on them.
Decide(c) ==
    /\ call[c].pc = "read"
    /\ LET o == Operation(call[c].req, img[c])
       IN IF o.no # {}
          THEN \E a \in o.no : call' = Undo(c, a)
          ELSE IF o.do = <<>>
          THEN call' = [Undo(c, "ok") EXCEPT ![c].done = "same"]
          ELSE call' = [call EXCEPT ![c].pc = "write", ![c].todo = o.do]
    /\ UNCHANGED <<store, img, conn, lock, shared>>

\* A statement of the transaction; the first write of a deferred one takes
\* the lock, on the rows of that moment unless it has read before.
Write(c) ==
    /\ call[c].pc = "write" /\ lock \in {c, Free}
    /\ lock' = c
    /\ LET seen == IF lock = c \/ c \in shared THEN img[c] ELSE store
           s == Head(call[c].todo)
       IN IF Misses(s, seen) # {}
          THEN /\ \E a \in Misses(s, seen) : call' = Undo(c, a)
               /\ UNCHANGED img
          ELSE /\ img' = [img EXCEPT ![c] = Run(s, seen)]
               /\ call' = [call EXCEPT ![c].todo = Tail(@),
                                       ![c].pc = IF Tail(call[c].todo) = <<>>
                                                 THEN "commit" ELSE "write"]
    /\ UNCHANGED <<store, conn, shared>>

\* A statement of the transaction, or its COMMIT, fails and does not take; a
\* failed COMMIT is rolled back, or its connection discarded.
FailStatement(c) ==
    /\ call[c].pc \in {"read", "write", "commit"}
    /\ call' = Undo(c, "failed")
    /\ UNCHANGED <<store, img, conn, lock, shared>>

\* The write lock, or a reader at COMMIT, was in the way for five seconds;
\* COMMIT of a deferred transaction passes its error on unmapped.
BusyStatement(c) ==
    /\ \/ call[c].pc = "write" /\ lock \notin {c, Free} /\ call' = Undo(c, "conflict")
       \/ /\ call[c].pc = "commit" /\ ~(shared \subseteq {c})
          /\ call' = Undo(c, IF Deferred(c) THEN "failed" ELSE "conflict")
    /\ UNCHANGED <<store, img, conn, lock, shared>>

\* Mutant: the write lock outlives the transaction.
Release_KeepsLock(c) ==
    /\ img' = [img EXCEPT ![c] = {}]
    /\ lock' = lock
    /\ shared' = shared \ {c}

Release(c) ==
    /\ img' = [img EXCEPT ![c] = {}]
    /\ lock' = IF lock = c THEN Free ELSE lock
    /\ shared' = shared \ {c}

\* Mutant: an error path returns without giving the connection back.
Rollback_KeepsConnection(c) ==
    /\ call[c].pc = "undo"
    /\ call' = Return(c, call[c].answer)
    /\ Release(c)
    /\ UNCHANGED <<store, conn>>

\* Rollback, on a context of its own; a connection that cannot roll back is
\* discarded, which ends its transaction as well.
Rollback(c) ==
    /\ call[c].pc = "undo"
    /\ call' = Return(c, call[c].answer)
    /\ conn' = [conn EXCEPT ![ProcessOf[c]] = Free]
    /\ Release(c)
    /\ UNCHANGED store

\* COMMIT takes; the error it may report all the same is not a typed one.
Commit(c) ==
    /\ call[c].pc = "commit" /\ shared \subseteq {c}
    /\ store' = img[c]
    /\ \E a \in {"none", "failed"} :
           call' = [call EXCEPT ![c].pc = "close", ![c].done = "yes", ![c].answer = a]
    /\ Release(c)
    /\ UNCHANGED conn

\* The connection goes back to the pool, with its own error if it has one.
Close(c) ==
    /\ call[c].pc = "close"
    /\ \E a \in {IF call[c].answer = "none" THEN "ok" ELSE call[c].answer, "failed"} :
           call' = Return(c, a)
    /\ conn' = [conn EXCEPT ![ProcessOf[c]] = Free]
    /\ UNCHANGED <<store, img, lock, shared>>

\* A process ends; SQLite rolls back what it had not committed.
Crash(p) ==
    LET gone == {c \in Calls : ProcessOf[c] = p /\ call[c].pc \notin {"new", "done", "lost"}}
    IN /\ gone # {}
       /\ call' = [c \in Calls |-> IF c \in gone
                                   THEN [call[c] EXCEPT !.pc = "lost", !.todo = <<>>,
                                                        !.answer = "none"]
                                   ELSE call[c]]
       /\ img' = [c \in Calls |-> IF c \in gone THEN {} ELSE img[c]]
       /\ conn' = [conn EXCEPT ![p] = Free]
       /\ lock' = IF lock \in gone THEN Free ELSE lock
       /\ shared' = shared \ gone
       /\ UNCHANGED store

Proceed(c) ==
    \/ LookUp(c) \/ ExecContext(c) \/ BusyAlone(c) \/ BeginImmediate(c) \/ BeginTx(c)
    \/ Decide(c) \/ Write(c) \/ BusyStatement(c) \/ Rollback(c) \/ Commit(c) \/ Close(c)

Next ==
    \/ \E c \in Calls : Start(c) \/ Proceed(c) \/ FailAlone(c) \/ FailStatement(c)
    \/ \E p \in Processes : Crash(p)

\* Started calls go on: Go schedules them, and SQLite waits for a lock no
\* longer than busy_timeout.  Nothing makes a context end or a statement fail,
\* and nothing bounds the wait for the pool's connection.
Spec == Init /\ [][Next]_vars /\ \A c \in Calls : WF_vars(Proceed(c))

-----------------------------------------------------------------------------
(* Properties.                                                             *)

\* Rows are keyed, a connection or the lock is held only by a call in its
\* transaction, and only those have uncommitted rows.
TypeOK ==
    /\ Keyed(store)
    /\ \A c \in Calls : /\ call[c].pc \in Steps
                        /\ call[c].req \in Requests \cup {NoRequest}
                        /\ call[c].answer \in Answers
                        /\ call[c].done \in {"no", "yes", "same"}
    /\ \A p \in Processes :
           conn[p] # Free => /\ ProcessOf[conn[p]] = p
                             /\ call[conn[p]].pc \in {"read", "write", "commit", "undo", "close"}
    /\ lock # Free => call[lock].pc \in {"read", "write", "commit", "undo"}
    /\ \A c \in Calls : img[c] # {} => lock = c \/ c \in shared

\* What the callers know of the calls.
Seen == [c \in Calls |->
    [phase |-> CASE call[c].pc = "new" -> "idle" [] call[c].pc = "done" -> "closed"
                 [] call[c].pc = "lost" -> "lost" [] OTHER -> "open",
     req |-> call[c].req, done |-> call[c].done,
     answer |-> IF call[c].pc = "done" THEN call[c].answer ELSE "none"]]

Contract == INSTANCE StoreContract WITH rows <- store, calls <- Seen

\* Statement by statement, with failures and crashes at every point, the
\* store behaves as if each operation took effect in one step or not at all,
\* and a typed error is never the answer of a write that happened.
ImplementsContract == Contract!Spec

\* A transaction that changes a handoff leaves it naming a role, a target
\* assignment of the target work item and a target that exist at its commit,
\* although rows can be deleted between the request and the transaction.  (Its
\* source assignment is not looked at again when it is accepted.)
ChangedHandoffsResolve ==
    [][\A h \in store' \ store :
           (h.tab = "handoffs" /\ Has(store, "handoffs", h.id))
           => ValidHandoff([h EXCEPT !.src = None], store')]_vars

\* Every started call is answered or ends with its process: no error path
\* keeps the only connection or the write lock.
CallsEnd == \A c \in Calls : (call[c].pc # "new") ~> (call[c].pc \in {"done", "lost"})
=============================================================================
