----------------------------- MODULE Semaphores -----------------------------
(***************************************************************************)
(* What the semaphores of the kernel promise to tasks, without ready       *)
(* lists, ticks, suspension or context switches: a post is a permit, which *)
(* goes to the most urgent task that waits or is kept, and no permit is    *)
(* lost, doubled or given to a task that has given up.                     *)
(***************************************************************************)
EXTENDS Integers, FiniteSets

CONSTANTS Task, Event, MaxCount, None

VARIABLES
    count,  \* permits that nobody has taken
    st,     \* "out", "waits", "granted" or "aborted"
    on      \* what a task waits for

svars == <<count, st, on>>

SInit ==
    /\ count = [e \in Event |-> 0]
    /\ st = [t \in Task |-> "out"]
    /\ on = [t \in Task |-> None]

Waiters(e) == {t \in Task : st[t] = "waits" /\ on[t] = e}

Waits(t, e) ==
    /\ st[t] = "out" /\ count[e] = 0
    /\ st' = [st EXCEPT ![t] = "waits"]
    /\ on' = [on EXCEPT ![t] = e]
    /\ UNCHANGED count

Takes(e) ==
    /\ count[e] > 0
    /\ count' = [count EXCEPT ![e] = @ - 1]
    /\ UNCHANGED <<st, on>>

Grants(e, t) ==
    /\ t \in Waiters(e) /\ \A u \in Waiters(e) : t <= u
    /\ st' = [st EXCEPT ![t] = "granted"]
    /\ on' = [on EXCEPT ![t] = None]
    /\ UNCHANGED count

Keeps(e) ==
    /\ Waiters(e) = {} /\ count[e] < MaxCount
    /\ count' = [count EXCEPT ![e] = @ + 1]
    /\ UNCHANGED <<st, on>>

\* Only a task that was not granted a permit may go away without one.
GivesUp(t) ==
    /\ st[t] = "waits"
    /\ st' = [st EXCEPT ![t] = "out"]
    /\ on' = [on EXCEPT ![t] = None]
    /\ UNCHANGED count

Returns(t) ==
    /\ st[t] \in {"granted", "aborted"}
    /\ st' = [st EXCEPT ![t] = "out"]
    /\ UNCHANGED <<count, on>>

Closes(e) ==
    /\ count' = [count EXCEPT ![e] = 0]
    /\ st' = [t \in Task |-> IF t \in Waiters(e) THEN "aborted" ELSE st[t]]
    /\ on' = [t \in Task |-> IF t \in Waiters(e) THEN None ELSE on[t]]

SNext ==
    \/ \E e \in Event : \/ Takes(e) \/ Keeps(e) \/ Closes(e)
                        \/ \E t \in Task : Waits(t, e) \/ Grants(e, t)
    \/ \E t \in Task : GivesUp(t) \/ Returns(t)

SSpec == SInit /\ [][SNext]_svars
=============================================================================
