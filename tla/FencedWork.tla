----------------------------- MODULE FencedWork -----------------------------
(***************************************************************************)
(* What the assignment store promises to workers and hosts, without        *)
(* clocks, leases, callers or payloads: an item is opened, reserved under  *)
(* at most one fence at a time, possibly requeued while merely reserved,   *)
(* started, closed, and in the end removed.  A fence is drawn once.        *)
(***************************************************************************)
CONSTANTS Items, Fences, NoFence

VARIABLES
    phase,  \* where each item is in its life
    fence,  \* the fence each item carries, or NoFence
    drawn   \* fences handed out so far

vars == <<phase, fence, drawn>>

Phases == {"absent", "open", "reserved", "started", "closed"}

Init ==
    /\ phase = [i \in Items |-> "absent"]
    /\ fence = [i \in Items |-> NoFence]
    /\ drawn = {}

Open(i) ==
    /\ phase[i] = "absent"
    /\ phase' = [phase EXCEPT ![i] = "open"]
    /\ UNCHANGED <<fence, drawn>>

\* A worker's reservation draws a fresh fence.
Reserve(i, f) ==
    /\ phase[i] = "open"
    /\ f \notin drawn
    /\ phase' = [phase EXCEPT ![i] = "reserved"]
    /\ fence' = [fence EXCEPT ![i] = f]
    /\ drawn' = drawn \cup {f}

\* The host reserves without one.
ReserveUnfenced(i) ==
    /\ phase[i] = "open"
    /\ phase' = [phase EXCEPT ![i] = "reserved"]
    /\ UNCHANGED <<fence, drawn>>

\* Release or recovery: only a reservation can be undone, and its fence dies.
Requeue(i) ==
    /\ phase[i] = "reserved"
    /\ phase' = [phase EXCEPT ![i] = "open"]
    /\ fence' = [fence EXCEPT ![i] = NoFence]
    /\ UNCHANGED drawn

\* Started work keeps the fence it was reserved under.  The host may put
\* queued work straight into review.
Start(i) ==
    /\ phase[i] \in {"open", "reserved"}
    /\ phase' = [phase EXCEPT ![i] = "started"]
    /\ UNCHANGED <<fence, drawn>>

Close(i) ==
    /\ phase[i] \in {"open", "reserved", "started"}
    /\ phase' = [phase EXCEPT ![i] = "closed"]
    /\ UNCHANGED <<fence, drawn>>

Remove(i) ==
    /\ phase[i] # "absent"
    /\ phase' = [phase EXCEPT ![i] = "absent"]
    /\ fence' = [fence EXCEPT ![i] = NoFence]
    /\ UNCHANGED drawn

Next ==
    \E i \in Items :
        \/ Open(i)
        \/ \E f \in Fences : Reserve(i, f)
        \/ ReserveUnfenced(i)
        \/ Requeue(i)
        \/ Start(i)
        \/ Close(i)
        \/ Remove(i)

Spec == Init /\ [][Next]_vars
=============================================================================
