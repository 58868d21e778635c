------------------------------- MODULE Kernel -------------------------------
(***************************************************************************)
(* uC/OS-II as this firmware uses it: ready list, semaphores, delays, the  *)
(* tick, suspension, tasks that come and go, and the context switch in     *)
(* PendSV.                                                                 *)
(*                                                                         *)
(* A task is named by its priority; the lowest number is the most urgent.  *)
(* A call into the kernel is a critical section and, after it, OS_Sched:   *)
(* two steps, since interrupts are open between them.  SysTick and the     *)
(* Ethernet interrupt have the highest priority and do not nest.  The      *)
(* console runs in the interrupt of timer 4, at the priority of PendSV and *)
(* after it, and does not tell the kernel that it is an interrupt.         *)
(***************************************************************************)
EXTENDS Integers, FiniteSets

CONSTANTS
    N,            \* priorities of tasks: 1..N; the idle task is N + 1
    Event,        \* event control blocks
    MaxCount,     \* 65535
    MaxDly,       \* bound: ticks of a delay or a timeout
    WaitsOn,      \* the semaphores a task pends on, creates and deletes
    IsrEvents,    \* semaphores the Ethernet interrupt posts to, never deleted
    Timed,        \* tasks that delay themselves or pend with a timeout
    Suspendable,  \* tasks that the console suspends and resumes
    Mortal,       \* tasks that are created and that end
    None,         \* no event
    Uses          \* what happens: the alternatives to check

Task == 1..N
Idle == N + 1
Features == {"pause",    \* the console suspends and resumes
             "create",   \* the console creates tasks
             "preempt"}  \* other interrupts come while timer 4 reads a command

\* The task that is suspended waits without timeouts and for tasks only.
ASSUME KernelAssumption ==
    /\ N \in Nat \ {0} /\ MaxCount \in Nat \ {0} /\ MaxDly \in Nat \ {0}
    /\ WaitsOn \in [Task -> SUBSET Event]
    /\ IsrEvents \subseteq Event /\ None \notin Event
    /\ Timed \subseteq Task /\ Suspendable \subseteq Task /\ Mortal \subseteq Task
    /\ Suspendable \cap Timed = {}
    /\ \A t \in Suspendable : WaitsOn[t] \cap IsrEvents = {}
    /\ Uses \subseteq SUBSET Features

VARIABLES
    live,      \* priorities whose OSTCBPrioTbl entry is set
    stat,      \* OSTCBStat, as a set of "sem" and "suspend"
    statPend,  \* OSTCBStatPend: "ok", "to" or "abort"
    dly,       \* OSTCBDly
    event,     \* OSTCBEventPtr
    rdy,       \* OSRdyTbl
    wait,      \* OSEventTbl
    cnt,       \* OSEventCnt
    used,      \* OSEventType is OS_EVENT_TYPE_SEM
    pc,        \* "off"; "run"; "pend": inside OSSemPend; "del": in OSTaskDel
               \* with the scheduler locked; "gone": behind it
    cur, high, \* OSPrioCur, OSPrioHighRdy
    pendsv,    \* PendSV is pending
    due,       \* the running task has yet to call OS_Sched
    tim4,      \* "off"; "scan": the command is not executed; "done"; "rest"
    heir,      \* task that was given the OS_TCB of the running, deleted one
    use

tcb   == <<live, stat, statPend, dly, event>>
ecb   == <<wait, cnt, used>>
sched == <<high, pendsv>>
vars  == <<tcb, rdy, ecb, pc, cur, sched, due, tim4, heir, use>>

NoTask == 0

Highest(S) == CHOOSE t \in S : \A u \in S : t <= u

Init ==
    /\ live = Task \ Mortal
    /\ stat = [t \in Task |-> {}]
    /\ statPend = [t \in Task |-> "ok"]
    /\ dly = [t \in Task |-> 0]
    /\ event = [t \in Task |-> None]
    /\ rdy = live \cup {Idle}
    /\ wait = [e \in Event |-> {}]
    /\ cnt = [e \in Event |-> 0]
    /\ used = [e \in Event |-> TRUE]
    /\ pc = [t \in Task |-> IF t \in live THEN "run" ELSE "off"]
    /\ cur = Highest(rdy) /\ high = cur
    /\ pendsv = FALSE /\ due = FALSE
    /\ tim4 = "off" /\ heir = NoTask
    /\ use \in Uses

-----------------------------------------------------------------------------
(* Scheduling                                                              *)

InTim4 == tim4 \in {"scan", "done"}

\* OSLockNesting > 0
Locked == cur \in Task /\ pc[cur] = "del"

\* The processor executes the code of task t, at l.
Code(t, l) == cur = t /\ pc[t] = l /\ ~pendsv /\ ~due /\ ~InTim4

\* OS_Sched, or OSIntExit, when the ready list is r.
Sched(r) ==
    IF Locked
    THEN UNCHANGED sched
    ELSE /\ high' = Highest(r)
         /\ pendsv' = (pendsv \/ Highest(r) # cur)

\* The critical section of a call ends, and OS_Sched follows when d holds.
Leaves(d) ==
    /\ due' = d
    /\ tim4' = "off"
    /\ UNCHANGED <<cur, sched, heir, use>>

Reschedules ==
    /\ due /\ ~pendsv /\ ~InTim4
    /\ due' = FALSE
    /\ Sched(rdy)
    /\ tim4' = "off"
    /\ UNCHANGED <<tcb, rdy, ecb, pc, cur, heir, use>>

\* PendSV_Handler.  It saves the context of a task that was deleted in the
\* OS_TCB that the task had, whosever that is now.
PendSV_Handler ==
    /\ pendsv /\ ~InTim4
    /\ cur' = high
    /\ pc' = [t \in Task |-> IF t = heir THEN "gone"
                             ELSE IF t = cur /\ t \notin live THEN "off" ELSE pc[t]]
    /\ heir' = NoTask
    /\ pendsv' = FALSE /\ due' = FALSE
    /\ tim4' = "off"
    /\ UNCHANGED <<tcb, rdy, ecb, high, use>>

-----------------------------------------------------------------------------
(* Semaphores and delays                                                   *)

\* Mutant: a post does not take a timeout back that the tick has noted.
WakesLate(e, W, how) ==
    /\ dly' = [t \in Task |-> IF t \in W THEN 0 ELSE dly[t]]
    /\ stat' = [t \in Task |-> IF t \in W THEN stat[t] \ {"sem"} ELSE stat[t]]
    /\ statPend' = [t \in Task |-> IF t \in W /\ statPend[t] # "to" THEN how
                                   ELSE statPend[t]]
    /\ event' = [t \in Task |-> IF t \in W THEN None ELSE event[t]]
    /\ wait' = [wait EXCEPT ![e] = @ \ W]
    /\ rdy' = rdy \cup {t \in W : "suspend" \notin stat[t]}

\* OS_EventTaskRdy for the tasks of set W, which wait on event e.
Wakes(e, W, how) ==
    /\ dly' = [t \in Task |-> IF t \in W THEN 0 ELSE dly[t]]
    /\ stat' = [t \in Task |-> IF t \in W THEN stat[t] \ {"sem"} ELSE stat[t]]
    /\ statPend' = [t \in Task |-> IF t \in W THEN how ELSE statPend[t]]
    /\ event' = [t \in Task |-> IF t \in W THEN None ELSE event[t]]
    /\ wait' = [wait EXCEPT ![e] = @ \ W]
    /\ rdy' = rdy \cup {t \in W : "suspend" \notin stat[t]}

OSSemPend(t, e, n) ==
    /\ Code(t, "run") /\ e \in WaitsOn[t] /\ used[e]
    /\ n = 0 \/ t \in Timed
    /\ IF cnt[e] > 0
       THEN /\ cnt' = [cnt EXCEPT ![e] = @ - 1]
            /\ Leaves(FALSE)
            /\ UNCHANGED <<stat, statPend, dly, event, rdy, wait, pc>>
       ELSE /\ stat' = [stat EXCEPT ![t] = @ \cup {"sem"}]
            /\ statPend' = [statPend EXCEPT ![t] = "ok"]
            /\ dly' = [dly EXCEPT ![t] = n]
            /\ event' = [event EXCEPT ![t] = e]
            /\ wait' = [wait EXCEPT ![e] = @ \cup {t}]
            /\ rdy' = rdy \ {t}
            /\ pc' = [pc EXCEPT ![t] = "pend"]
            /\ Leaves(TRUE)
            /\ UNCHANGED cnt
    /\ UNCHANGED <<live, used>>

\* Mutant: a wait that timed out stays in the wait list.
PendReturnsListed(t) ==
    /\ Code(t, "pend")
    /\ stat' = [stat EXCEPT ![t] = {}]
    /\ statPend' = [statPend EXCEPT ![t] = "ok"]
    /\ event' = [event EXCEPT ![t] = None]
    /\ pc' = [pc EXCEPT ![t] = "run"]
    /\ Leaves(FALSE)
    /\ UNCHANGED <<live, dly, rdy, wait, cnt, used>>

\* The second half of OSSemPend, when the task runs again.
PendReturns(t) ==
    /\ Code(t, "pend")
    /\ wait' = [e \in Event |-> IF e = event[t] /\ statPend[t] = "to"
                                THEN wait[e] \ {t} ELSE wait[e]]
    /\ stat' = [stat EXCEPT ![t] = {}]
    /\ statPend' = [statPend EXCEPT ![t] = "ok"]
    /\ event' = [event EXCEPT ![t] = None]
    /\ pc' = [pc EXCEPT ![t] = "run"]
    /\ Leaves(FALSE)
    /\ UNCHANGED <<live, dly, rdy, cnt, used>>

\* OSSemPost, up to OS_Sched.
Posts(e) ==
    /\ used[e]
    /\ IF wait[e] # {}
       THEN Wakes(e, {Highest(wait[e])}, "ok") /\ UNCHANGED cnt
       ELSE /\ cnt' = [cnt EXCEPT ![e] = IF @ < MaxCount THEN @ + 1 ELSE @]
            /\ UNCHANGED <<dly, stat, statPend, event, wait, rdy>>
    /\ UNCHANGED <<live, used, pc>>

OSSemPost(t, e) ==
    /\ Code(t, "run")
    /\ Posts(e)
    /\ Leaves(wait[e] # {})

\* OS_DEL_ALWAYS
OSSemDel(t, e) ==
    /\ Code(t, "run") /\ e \in WaitsOn[t] \ IsrEvents /\ used[e]
    /\ Wakes(e, wait[e], "abort")
    /\ used' = [used EXCEPT ![e] = FALSE]
    /\ cnt' = [cnt EXCEPT ![e] = 0]
    /\ Leaves(wait[e] # {})
    /\ UNCHANGED <<live, pc>>

OSSemCreate(t, e) ==
    /\ Code(t, "run") /\ e \in WaitsOn[t] /\ ~used[e]
    /\ used' = [used EXCEPT ![e] = TRUE]
    /\ cnt' = [cnt EXCEPT ![e] = 0]
    /\ wait' = [wait EXCEPT ![e] = {}]
    /\ Leaves(FALSE)
    /\ UNCHANGED <<tcb, rdy, pc>>

OSTimeDly(t, n) ==
    /\ Code(t, "run") /\ t \in Timed /\ n > 0
    /\ rdy' = rdy \ {t}
    /\ dly' = [dly EXCEPT ![t] = n]
    /\ Leaves(TRUE)
    /\ UNCHANGED <<live, stat, statPend, event, ecb, pc>>

-----------------------------------------------------------------------------
(* Tasks that come and go                                                  *)

\* OSTaskCreate, up to OS_Sched.  OSTCBFreeList is a stack: the OS_TCB of a
\* task that has just been deleted is the next to be given out, and a new task
\* of the same priority is not told from the one that still runs.
Creates(u) ==
    /\ u \in Mortal \ live
    /\ live' = live \cup {u}
    /\ stat' = [stat EXCEPT ![u] = {}]
    /\ statPend' = [statPend EXCEPT ![u] = "ok"]
    /\ dly' = [dly EXCEPT ![u] = 0]
    /\ event' = [event EXCEPT ![u] = None]
    /\ rdy' = rdy \cup {u}
    /\ IF u = cur
       THEN UNCHANGED <<pc, heir>>
       ELSE /\ pc' = [pc EXCEPT ![u] = "run"]
            /\ heir' = IF cur \in Task \ live THEN u ELSE heir
    /\ UNCHANGED ecb

OSTaskCreate(t, u) ==
    /\ Code(t, "run")
    /\ Creates(u)
    /\ due' = TRUE
    /\ tim4' = "off"
    /\ UNCHANGED <<cur, sched, use>>

\* OSTaskDel(OS_PRIO_SELF), called at the end of a task, or by OS_TaskReturn
\* when OSTaskDel returned and the task function with it.
OSTaskDel(t) ==
    /\ t \in Mortal \cap live /\ (Code(t, "run") \/ Code(t, "gone"))
    /\ rdy' = rdy \ {t}
    /\ wait' = [e \in Event |-> IF e = event[t] THEN wait[e] \ {t} ELSE wait[e]]
    /\ event' = [event EXCEPT ![t] = None]
    /\ dly' = [dly EXCEPT ![t] = 0]
    /\ stat' = [stat EXCEPT ![t] = {}]
    /\ statPend' = [statPend EXCEPT ![t] = "ok"]
    /\ pc' = [pc EXCEPT ![t] = "del"]
    /\ Leaves(FALSE)
    /\ UNCHANGED <<live, cnt, used>>

\* Behind OS_Dummy: the OS_TCB goes to the free list and the lock is opened.
DelFrees(t) ==
    /\ Code(t, "del")
    /\ live' = live \ {t}
    /\ pc' = [pc EXCEPT ![t] = "gone"]
    /\ Leaves(TRUE)
    /\ UNCHANGED <<stat, statPend, dly, event, rdy, ecb>>

-----------------------------------------------------------------------------
(* Interrupts                                                              *)

Interrupted == tim4 # "scan" \/ "preempt" \in use

\* Mutant: a timeout is noted and its task is not made ready.
TicksSilently ==
    /\ Interrupted
    /\ LET expired == {t \in live : dly[t] = 1}
       IN /\ dly' = [t \in Task |-> IF t \in live /\ dly[t] > 0 THEN dly[t] - 1
                                    ELSE dly[t]]
          /\ stat' = [t \in Task |-> IF t \in expired THEN stat[t] \ {"sem"} ELSE stat[t]]
          /\ statPend' = [t \in Task |-> IF t \in expired
                                         THEN IF "sem" \in stat[t] THEN "to" ELSE "ok"
                                         ELSE statPend[t]]
    /\ Sched(rdy)
    /\ tim4' = IF tim4 = "rest" /\ ~due /\ ~Locked THEN "off" ELSE tim4
    /\ UNCHANGED <<live, event, rdy, ecb, pc, cur, due, heir, use>>

\* SysTick_Handler: OSTimeTick and OSIntExit.
OSTimeTick ==
    /\ Interrupted
    /\ LET expired == {t \in live : dly[t] = 1}
       IN /\ dly' = [t \in Task |-> IF t \in live /\ dly[t] > 0 THEN dly[t] - 1
                                    ELSE dly[t]]
          /\ stat' = [t \in Task |-> IF t \in expired THEN stat[t] \ {"sem"} ELSE stat[t]]
          /\ statPend' = [t \in Task |-> IF t \in expired
                                         THEN IF "sem" \in stat[t] THEN "to" ELSE "ok"
                                         ELSE statPend[t]]
          /\ rdy' = rdy \cup {t \in expired : "suspend" \notin stat[t]}
    /\ Sched(rdy')
    /\ tim4' = IF tim4 = "rest" /\ ~due /\ ~Locked THEN "off" ELSE tim4
    /\ UNCHANGED <<live, event, ecb, pc, cur, due, heir, use>>

\* ETH_IRQHandler: the mailbox of tcpip_thread is given a frame.
ETH_IRQHandler(e) ==
    /\ Interrupted /\ e \in IsrEvents
    /\ Posts(e)
    /\ Sched(rdy')
    /\ UNCHANGED <<cur, due, tim4, heir, use>>

\* Mutant: timer 4 outranks PendSV.
Tim4Outranks ==
    /\ tim4 = "off"
    /\ tim4' = "scan"
    /\ UNCHANGED <<tcb, rdy, ecb, pc, cur, sched, due, heir, use>>

\* PendSV goes first.  Timer 4 has a period of 10 ms, so that it does not come
\* twice between two steps of a task.
Tim4Enters ==
    /\ tim4 = "off" /\ ~pendsv
    /\ tim4' = "scan"
    /\ UNCHANGED <<tcb, rdy, ecb, pc, cur, sched, due, heir, use>>

Tim4Leaves ==
    /\ InTim4
    /\ tim4' = "rest"
    /\ UNCHANGED <<tcb, rdy, ecb, pc, cur, sched, due, heir, use>>

Command(feature) ==
    /\ tim4 = "scan" /\ feature \in use
    /\ tim4' = "done"
    /\ UNCHANGED <<cur, due, use>>

\* Pause_Download
OSTaskSuspend(t) ==
    /\ Command("pause") /\ t \in Suspendable \cap live
    /\ rdy' = rdy \ {t}
    /\ stat' = [stat EXCEPT ![t] = @ \cup {"suspend"}]
    /\ IF t = cur THEN Sched(rdy') ELSE UNCHANGED sched
    /\ UNCHANGED <<live, statPend, dly, event, ecb, pc, heir>>

\* Continue_Download
OSTaskResume(t) ==
    /\ Command("pause") /\ t \in Suspendable \cap live /\ "suspend" \in stat[t]
    /\ stat' = [stat EXCEPT ![t] = @ \ {"suspend"}]
    /\ IF "sem" \notin stat[t] /\ dly[t] = 0
       THEN rdy' = rdy \cup {t} /\ Sched(rdy')
       ELSE UNCHANGED <<rdy, sched>>
    /\ UNCHANGED <<live, statPend, dly, event, ecb, pc, heir>>

\* Init_Client, Socket_init, Send_File_Name, Stop_Download
ConsoleCreates(u) ==
    /\ Command("create")
    /\ Creates(u)
    /\ Sched(rdy')

-----------------------------------------------------------------------------

TaskStep ==
    \/ Reschedules
    \/ \E t \in Task :
        \/ PendReturns(t) \/ OSTaskDel(t) \/ DelFrees(t)
        \/ \E e \in Event : \/ OSSemPost(t, e) \/ OSSemDel(t, e) \/ OSSemCreate(t, e)
                            \/ \E n \in 0..MaxDly : OSSemPend(t, e, n)
        \/ \E n \in 1..MaxDly : OSTimeDly(t, n)
        \/ \E u \in Mortal : OSTaskCreate(t, u)

Console == \E t \in Task : OSTaskSuspend(t) \/ OSTaskResume(t) \/ ConsoleCreates(t)

Next == \/ TaskStep \/ PendSV_Handler \/ OSTimeTick
        \/ \E e \in Event : ETH_IRQHandler(e)
        \/ Tim4Enters \/ Console \/ Tim4Leaves

Spec == Init /\ [][Next]_vars

\* Handlers end, tasks get on between them, and what is pending is served.
FairSpec ==
    /\ Spec
    /\ WF_vars(Tim4Leaves)
    /\ SF_vars(TaskStep) /\ SF_vars(PendSV_Handler) /\ SF_vars(OSTimeTick)

-----------------------------------------------------------------------------
(* Properties                                                              *)

\* Every variable has its type.
TypeOK ==
    /\ live \subseteq Task
    /\ stat \in [Task -> SUBSET {"sem", "suspend"}]
    /\ statPend \in [Task -> {"ok", "to", "abort"}]
    /\ dly \in [Task -> 0..MaxDly]
    /\ event \in [Task -> Event \cup {None}]
    /\ rdy \subseteq Task \cup {Idle} /\ Idle \in rdy
    /\ wait \in [Event -> SUBSET Task]
    /\ cnt \in [Event -> 0..MaxCount]
    /\ used \in [Event -> BOOLEAN]
    /\ pc \in [Task -> {"off", "run", "pend", "del", "gone"}]
    /\ cur \in Task \cup {Idle} /\ high \in Task \cup {Idle}
    /\ pendsv \in BOOLEAN /\ due \in BOOLEAN
    /\ tim4 \in {"off", "scan", "done", "rest"}
    /\ heir \in Task \cup {NoTask}
    /\ use \in Uses

\* OSRdyTbl holds the tasks that wait for nothing, and no other.
ReadyIsStatus ==
    \A t \in Task : t \in rdy <=> t \in live /\ stat[t] = {} /\ dly[t] = 0 /\ pc[t] # "del"

\* A task is in one wait list at most, the one its OS_TCB names, and in none
\* when it has its permit; a deleted semaphore and one with permits left have
\* nobody waiting.
ListsExact ==
    /\ \A e \in Event : wait[e] = {t \in Task : event[t] = e}
    /\ \A t \in Task : /\ "sem" \in stat[t] => event[t] # None /\ statPend[t] = "ok"
                       /\ event[t] # None => t \in live /\ pc[t] = "pend"
    /\ \A e \in Event : (cnt[e] > 0 \/ ~used[e]) => wait[e] = {}

\* The tables of the kernel tell the same of every task, whatever a post, a
\* tick, a deletion and the console do to it in between.
TablesAgree == ReadyIsStatus /\ ListsExact

\* The processor executes the most urgent ready task as soon as OS_Sched has
\* been called, and PendSV switches to no other.
RunsHighest ==
    ~due /\ ~Locked => IF pendsv THEN high = Highest(rdy) ELSE cur = Highest(rdy)

\* OSTaskSuspend keeps a task from running until it is resumed.
SuspendedRests ==
    \A t \in Suspendable : Code(t, "pend") \/ Code(t, "run") => "suspend" \notin stat[t]

\* Where a task stands with the semaphores, as it will find out itself.
Seen == [t \in Task |-> IF event[t] # None THEN "waits"
                        ELSE IF pc[t] # "pend" THEN "out"
                        ELSE IF statPend[t] = "ok" THEN "granted"
                        ELSE IF statPend[t] = "abort" THEN "aborted" ELSE "lost"]

\* The semaphores as tasks see them.
Permits == INSTANCE Semaphores WITH count <- cnt, on <- event, st <- Seen

\* OSSemPend, OSSemPost and OSSemDel keep the promise of Semaphores: a tick, a
\* suspension or a deletion that meets a post loses and doubles no permit.
ImplementsSemaphores == Permits!SSpec

\* A wait of the most urgent task that has a timeout comes to an end, whatever
\* the other tasks, the console and the interrupts do.
HighestReturns == pc[1] = "pend" /\ dly[1] > 0 ~> pc[1] = "run"
=============================================================================
