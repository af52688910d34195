--------------------------- MODULE LuaCoroutines ----------------------------
(***************************************************************************)
(* What the coroutines of Lua promise: one of them runs, those that resumed*)
(* it wait in order, and only a suspended one can be resumed.  An error    *)
(* kills the coroutines it passes through, one by one, down to one that    *)
(* catches it.                                                             *)
(***************************************************************************)
EXTENDS Integers

CONSTANTS Main, Coroutines

Threads == {Main} \cup Coroutines

VARIABLES
    status,     \* "none", "suspended", "running", "normal" or "dead"
    resumer     \* who waits for a thread to yield or end: itself if no one does

vars == <<status, resumer>>

Init ==
    /\ status = [x \in Threads |-> IF x = Main THEN "running" ELSE "none"]
    /\ resumer = [x \in Threads |-> x]

Create(co) ==
    status[co] = "none" /\ status' = [status EXCEPT ![co] = "suspended"] /\ UNCHANGED resumer

Resume(x, co) ==
    /\ status[x] = "running"
    /\ status[co] = "suspended"
    /\ status' = [status EXCEPT ![co] = "running", ![x] = "normal"]
    /\ resumer' = [resumer EXCEPT ![co] = x]

\* A coroutine that could not be started for lack of C stack is lost.
Refused(x, co) ==
    /\ status[x] = "running"
    /\ status[co] = "suspended"
    /\ status' = [status EXCEPT ![co] = "dead"]
    /\ UNCHANGED resumer

\* The running thread yields, or ends by a return or an error.
Yield(x) ==
    /\ status[x] = "running"
    /\ resumer[x] # x
    /\ status' = [status EXCEPT ![x] = "suspended", ![resumer[x]] = "running"]
    /\ resumer' = [resumer EXCEPT ![x] = x]
End(x) ==
    /\ status[x] = "running"
    /\ status' = [[status EXCEPT ![resumer[x]] = "running"] EXCEPT ![x] = "dead"]
    /\ resumer' = [resumer EXCEPT ![x] = x]

Next ==
    \/ \E co \in Coroutines : Create(co)
    \/ \E x \in Threads, co \in Coroutines : Resume(x, co) \/ Refused(x, co)
    \/ \E x \in Threads : Yield(x) \/ End(x)

Spec == Init /\ [][Next]_vars
=============================================================================
