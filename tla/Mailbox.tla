------------------------------ MODULE Mailbox -------------------------------
(***************************************************************************)
(* One lwIP mailbox of sys_arch.c on one uC/OS-II queue.                   *)
(*                                                                         *)
(* A task is named by its priority, and the lowest number runs first.  The *)
(* same module is the mailbox of tcpip_thread (its fetcher outranks the    *)
(* tasks that post and spin, the Ethernet interrupt posts too) and the     *)
(* receive or accept mailbox of a connection (tcpip_thread outranks the    *)
(* tasks that fetch, tries once, and frees the mailbox).                   *)
(*                                                                         *)
(* A step is what the code does with interrupts off; the clock and the     *)
(* interrupt may come between any two.  Messages are numbered in the order *)
(* the queue accepts them, 0 is no message.                                *)
(***************************************************************************)
EXTENDS Integers, FiniteSets

CONSTANTS
    Tasks,       \* priorities of the tasks that use the mailbox
    Fetchers,    \* call sys_arch_mbox_fetch
    Posters,     \* call sys_mbox_post, which does not give up
    TryPosters,  \* call sys_mbox_trypost and sys_mbox_free
    Isr,         \* TRUE: an interrupt handler calls sys_mbox_trypost
    CanFree,     \* TRUE: the mailbox may be freed
    Size,        \* OSQSize, at most MAX_QUEUE_ENTRIES (20)
    Timeouts,    \* timeouts given to a fetch, in ticks of one ms, 0: for ever
    Word,        \* 2^32: OSTime and the products computed from it wrap here
    Scale,       \* 1000: ms per second, and OS_TICKS_PER_SEC
    MaxWait,     \* bound: the history counts no more ticks of one fetch
    MaxPosts     \* bound: messages accepted in a behaviour

ASSUME MailboxAssumption ==
    /\ Tasks \subseteq Nat /\ Fetchers \subseteq Tasks
    /\ Posters \subseteq Tasks /\ TryPosters \subseteq Tasks
    /\ Isr \in BOOLEAN /\ CanFree \in BOOLEAN
    /\ Size \in Nat \ {0} /\ MaxPosts \in Nat
    /\ Scale \in Nat \ {0} /\ Word \in Nat \ {0}
    /\ MaxWait \in Nat /\ Timeouts \subseteq 0..MaxWait

VARIABLES
    ring, in, out, entries,  \* the OS_Q: storage, OSQIn, OSQOut, OSQEntries
    alive,       \* the event is of type OS_EVENT_TYPE_Q
    waiting,     \* tasks in OSEventTbl
    blocked,     \* tasks with OS_STAT_Q set: not ready
    status,      \* OSTCBStatPend, then ucErr: "ok", "timeout", "abort"
    msg,         \* OSTCBMsg, then the message fetched
    dly,         \* OSTCBDly
    time,        \* OSTime
    pc,          \* control point of each task
    limit,       \* ticks the running fetch asked for
    since,       \* OSTime when it began
    posted,      \* history: messages accepted so far
    handed,      \* history: messages taken from the queue or handed to a task
    returned,    \* history: messages returned by a fetch
    waited       \* history: real ticks since the running fetch began

qVars    == <<ring, in, out, entries>>
tcbVars  == <<waiting, blocked, status, msg, dly>>
callVars == <<limit, since>>
history  == <<posted, handed, returned, waited>>
vars == <<qVars, alive, tcbVars, time, pc, callVars, history>>

Init ==
    /\ ring = [i \in 0..(Size - 1) |-> 0]
    /\ in = 0 /\ out = 0 /\ entries = 0 /\ alive = TRUE
    /\ waiting = {} /\ blocked = {}
    /\ status = [t \in Tasks |-> "ok"] /\ msg = [t \in Tasks |-> 0]
    /\ dly = [t \in Tasks |-> 0] /\ time = 0
    /\ pc = [t \in Tasks |-> "idle"] /\ limit = [t \in Tasks |-> 0]
    /\ since = [t \in Tasks |-> 0]
    /\ posted = 0 /\ handed = 0 /\ returned = {}
    /\ waited = [t \in Tasks |-> 0]

\* Mutant: the ready list searched from the wrong end.
MayRunLast(t) == \A u \in Tasks : u > t => pc[u] = "idle" \/ u \in blocked
\* A task at "idle" is busy with other mailboxes or asleep elsewhere.
MayRun(t) == \A u \in Tasks : u < t => pc[u] = "idle" \/ u \in blocked

-----------------------------------------------------------------------------
(* Posting                                                                 *)

\* Bound: messages accepted and messages a task will not give up are MaxPosts.
MorePosts == posted + Cardinality({t \in Tasks : pc[t] = "post"}) < MaxPosts

\* Mutant: OSQEnd taken for the last slot.
NextSlotShort(p) == IF p + 1 >= Size - 1 THEN 0 ELSE p + 1
NextSlot(p) == IF p + 1 = Size THEN 0 ELSE p + 1

\* The event's wait list.
EventTaskRemove(t) == waiting' = waiting \ {t}
EventTaskWait(t) == waiting' = waiting \cup {t} /\ blocked' = blocked \cup {t}

\* Mutant: a timeout the tick has already noted stays noted.
EventTaskRdyLate(t, m, s) ==
    /\ dly' = [dly EXCEPT ![t] = 0]
    /\ msg' = [msg EXCEPT ![t] = m]
    /\ UNCHANGED status
    /\ blocked' = blocked \ {t}
    /\ EventTaskRemove(t)
EventTaskRdy(t, m, s) ==
    /\ dly' = [dly EXCEPT ![t] = 0]
    /\ msg' = [msg EXCEPT ![t] = m]
    /\ status' = [status EXCEPT ![t] = s]
    /\ blocked' = blocked \ {t}
    /\ EventTaskRemove(t)

\* OSQPost of the next message: to the first task that waits, else the ring.
HandOver ==
    /\ \E t \in waiting : /\ \A u \in waiting : t <= u
                          /\ EventTaskRdy(t, posted + 1, "ok")
    /\ handed' = handed + 1
    /\ UNCHANGED qVars

Enqueue ==
    /\ waiting = {}
    /\ entries < Size
    /\ ring' = [ring EXCEPT ![in] = posted + 1]
    /\ in' = NextSlot(in)
    /\ entries' = entries + 1
    /\ UNCHANGED <<out, tcbVars, handed>>

\* Mutant: a message is queued although a task waits for one.
OSQPostQueues ==
    /\ alive /\ posted' = posted + 1
    /\ entries < Size
    /\ ring' = [ring EXCEPT ![in] = posted + 1]
    /\ in' = NextSlot(in) /\ entries' = entries + 1
    /\ UNCHANGED <<out, tcbVars, handed>>
OSQPost ==
    /\ alive
    /\ HandOver \/ Enqueue
    /\ posted' = posted + 1

\* sys_mbox_post: a refused attempt changes nothing and is made again at once,
\* so the task stays runnable at "post".
PostStart(t) ==
    /\ t \in Posters /\ pc[t] = "idle" /\ MayRun(t)
    /\ MorePosts
    /\ pc' = [pc EXCEPT ![t] = "post"]
    /\ UNCHANGED <<qVars, alive, tcbVars, time, callVars, history>>

Post(t) ==
    /\ pc[t] = "post" /\ MayRun(t)
    /\ OSQPost
    /\ pc' = [pc EXCEPT ![t] = "idle"]
    /\ UNCHANGED <<alive, time, callVars, returned, waited>>

\* sys_mbox_trypost: a refused attempt returns ERR_MEM and changes nothing.
TryPost ==
    /\ Isr \/ \E t \in TryPosters : pc[t] = "idle" /\ MayRun(t)
    /\ MorePosts
    /\ OSQPost
    /\ UNCHANGED <<alive, time, pc, callVars, returned, waited>>

-----------------------------------------------------------------------------
(* Fetching                                                                *)

FetchStart(t) ==
    /\ t \in Fetchers /\ pc[t] = "idle" /\ MayRun(t)
    /\ \E l \in Timeouts : limit' = [limit EXCEPT ![t] = l]
    /\ since' = [since EXCEPT ![t] = time]
    /\ pc' = [pc EXCEPT ![t] = "pend"]
    /\ UNCHANGED <<qVars, alive, tcbVars, time, history>>

\* OSQPend when there is a message, when there is none, and on a freed queue
\* (OS_ERR_EVENT_TYPE, no message).
Take(t) ==
    /\ alive /\ entries > 0
    /\ msg' = [msg EXCEPT ![t] = ring[out]]
    /\ out' = NextSlot(out)
    /\ entries' = entries - 1
    /\ handed' = handed + 1
    /\ pc' = [pc EXCEPT ![t] = "back"]
    /\ UNCHANGED <<ring, in, waiting, blocked, status, dly>>

Block(t) ==
    /\ alive /\ entries = 0
    /\ status' = [status EXCEPT ![t] = "ok"]
    /\ dly' = [dly EXCEPT ![t] = limit[t]]
    /\ EventTaskWait(t)
    /\ pc' = [pc EXCEPT ![t] = "wait"]
    /\ UNCHANGED <<qVars, msg, handed>>

NoQueue(t) ==
    /\ ~alive
    /\ status' = [status EXCEPT ![t] = "abort"]
    /\ pc' = [pc EXCEPT ![t] = "back"]
    /\ UNCHANGED <<qVars, waiting, blocked, msg, dly, handed>>

Pend(t) ==
    /\ pc[t] = "pend" /\ MayRun(t)
    /\ Take(t) \/ Block(t) \/ NoQueue(t)
    /\ UNCHANGED <<alive, time, callVars, posted, returned, waited>>

\* OSQPend after OS_Sched: a task whose time ran out is still in the wait list.
Wake(t) ==
    /\ pc[t] = "wait" /\ t \notin blocked /\ MayRun(t)
    /\ IF status[t] = "timeout"
       THEN EventTaskRemove(t) /\ msg' = [msg EXCEPT ![t] = 0]
       ELSE UNCHANGED <<waiting, msg>>
    /\ pc' = [pc EXCEPT ![t] = "back"]
    /\ UNCHANGED <<qVars, alive, blocked, status, dly, time, callVars, history>>

\* The time sys_arch_mbox_fetch returns with a message, in ms.  When not even a
\* tick went by it is the wrapped difference.
Elapsed(t) == IF time > since[t] THEN time - since[t]
                                 ELSE Word - 1 - since[t] + time
FetchTime(t) == ((Elapsed(t) * Scale) % Word) \div Scale + 1

\* Back in the caller.  The locals of the call are dead and are reset.
Return(t) ==
    /\ pc[t] = "back" /\ MayRun(t)
    /\ returned' = returned \cup ({msg[t]} \ {0})
    /\ msg' = [msg EXCEPT ![t] = 0]
    /\ status' = [status EXCEPT ![t] = "ok"]
    /\ limit' = [limit EXCEPT ![t] = 0]
    /\ since' = [since EXCEPT ![t] = 0]
    /\ waited' = [waited EXCEPT ![t] = 0]
    /\ pc' = [pc EXCEPT ![t] = "idle"]
    /\ UNCHANGED <<qVars, alive, waiting, blocked, dly, time, posted, handed>>

-----------------------------------------------------------------------------
(* The clock, and deletion                                                 *)

Expiring == {t \in Tasks : dly[t] = 1}

\* Mutant: the tick readies the task but leaves its pend status alone.
TickStatusOk(t) == "ok"
TickStatus(t) == IF t \in blocked THEN "timeout" ELSE "ok"

Tick ==
    /\ time' = (time + 1) % Word
    /\ dly' = [t \in Tasks |-> IF dly[t] > 0 THEN dly[t] - 1 ELSE 0]
    /\ status' = [t \in Tasks |-> IF t \in Expiring THEN TickStatus(t)
                                                    ELSE status[t]]
    /\ blocked' = blocked \ Expiring
    /\ waited' = [t \in Tasks |-> IF pc[t] \in {"pend", "wait", "back"}
                                     /\ waited[t] < MaxWait
                                  THEN waited[t] + 1 ELSE waited[t]]
    /\ UNCHANGED <<qVars, alive, waiting, msg, pc, callVars, posted, handed,
                   returned>>

\* Mutant: OSQDel wakes the first task in the wait list only.
AbortedFirst == {t \in waiting : \A u \in waiting : t <= u}
Aborted == waiting

\* OSQDel with OS_DEL_ALWAYS: every task in the wait list, one that has timed
\* out but not run yet included, is readied with no message.
Free(t) ==
    /\ CanFree /\ alive
    /\ t \in TryPosters /\ pc[t] = "idle" /\ MayRun(t)
    /\ alive' = FALSE
    /\ dly' = [u \in Tasks |-> IF u \in Aborted THEN 0 ELSE dly[u]]
    /\ msg' = [u \in Tasks |-> IF u \in Aborted THEN 0 ELSE msg[u]]
    /\ status' = [u \in Tasks |-> IF u \in Aborted THEN "abort" ELSE status[u]]
    /\ blocked' = blocked \ Aborted
    /\ waiting' = waiting \ Aborted
    /\ UNCHANGED <<qVars, time, pc, callVars, history>>

TaskStep(t) == FetchStart(t) \/ Pend(t) \/ Wake(t) \/ Return(t) \/ Post(t)

Next ==
    \/ \E t \in Tasks : TaskStep(t) \/ PostStart(t) \/ Free(t)
    \/ TryPost
    \/ Tick

Spec == Init /\ [][Next]_vars

\* The tick interrupt keeps coming.  A task that is first among the ready ones
\* again and again gets on: a step takes microseconds, a tick and any sleep of a
\* task above it a millisecond at least.  Nothing says that a task starts
\* another post, or frees.
Fairness == WF_vars(Tick) /\ \A t \in Fetchers \cup Posters : SF_vars(TaskStep(t))
LiveSpec == Spec /\ Fairness

-----------------------------------------------------------------------------
(* Properties                                                              *)

\* Every variable holds what the code can store in it.
TypeOK ==
    /\ ring \in [0..(Size - 1) -> Nat]
    /\ in \in 0..(Size - 1) /\ out \in 0..(Size - 1) /\ entries \in 0..Size
    /\ alive \in BOOLEAN
    /\ waiting \subseteq Tasks /\ blocked \subseteq Tasks
    /\ status \in [Tasks -> {"ok", "timeout", "abort"}]
    /\ msg \in [Tasks -> Nat]
    /\ dly \in [Tasks -> 0..MaxWait]
    /\ time \in 0..(Word - 1)
    /\ pc \in [Tasks -> {"idle", "post", "pend", "wait", "back"}]
    /\ limit \in [Tasks -> 0..MaxWait]
    /\ since \in [Tasks -> 0..(Word - 1)]
    /\ posted \in Nat /\ handed \in Nat
    /\ returned \subseteq Nat
    /\ waited \in [Tasks -> 0..MaxWait]

\* The slot of the i-th queued message.
Slot(i) == IF out + i < Size THEN out + i ELSE out + i - Size

\* OSQPost and OSQPend with their wrapping pointers keep the ring a FIFO: it
\* holds exactly the messages accepted and not handed out, in order, and a
\* message handed directly to a waiting task never overtakes a queued one.
FifoExact ==
    /\ entries = posted - handed
    /\ in = IF out + entries < Size THEN out + entries ELSE out + entries - Size
    /\ \A i \in 0..(entries - 1) : ring[Slot(i)] = handed + i + 1

\* A message that left the queue is on its way in one fetch or was returned by
\* one, once: none is lost when it is handed to a task whose timeout or
\* mailbox deletion falls into the same moment, and none is returned twice.
ExactlyOnce ==
    /\ 1..handed = returned \cup ({msg[t] : t \in Tasks} \ {0})
    /\ \A t \in Tasks : msg[t] # 0 =>
          /\ msg[t] \notin returned
          /\ \A u \in Tasks \ {t} : msg[u] # msg[t]

\* No task sleeps in OSQPend beside a message, or on a mailbox that is gone.
NobodyForgotten ==
    /\ blocked \subseteq waiting
    /\ waiting # {} => alive /\ entries = 0

\* sys_arch_mbox_fetch returns SYS_ARCH_TIMEOUT only when it was given a timeout
\* and the ticks of that timeout have passed, and no message only when the
\* mailbox was freed under it.
HonestReply ==
    \A t \in Tasks : pc[t] = "back" =>
        /\ status[t] = "timeout" => limit[t] > 0 /\ waited[t] >= limit[t]
        /\ status[t] # "timeout" /\ msg[t] = 0 => ~alive

\* The value returned with a message is the time the fetch waited, in ms.  False:
\* a message that comes in the tick of the call has waited 2^32 - 1 ticks.
ElapsedIsTime ==
    \A t \in Tasks :
        pc[t] = "back" /\ msg[t] # 0 => FetchTime(t) <= waited[t] + 1

\* sys_mbox_post does not spin for ever on a mailbox that is not freed, because
\* the task that fetches outranks the one that spins.
PostReturns == \A t \in Posters : alive /\ pc[t] = "post" ~> ~alive \/ pc[t] = "idle"

\* A fetch with a timeout returns, and so does any fetch once the mailbox is
\* freed.
FetchReturns ==
    \A t \in Fetchers :
        pc[t] \in {"pend", "wait", "back"} /\ (limit[t] > 0 \/ ~alive) ~>
        pc[t] \notin {"pend", "wait", "back"}

\* Every post and every timed fetch returns, whoever else posts, fetches or frees:
\* the spinning post, the wait list and the tick leave nobody behind.
NobodyStuck == PostReturns /\ FetchReturns

=============================================================================
