---------------------------- MODULE KernelProofs ----------------------------
(***************************************************************************)
(* Theorems about Kernel, for every number of tasks and semaphores, and    *)
(* about UartLine, from which the interrupt of timer 4 gets its commands.  *)
(***************************************************************************)
EXTENDS Kernel, UartLine, WellFoundedInduction, TLAPS

\* OS_SchedNew finds the most urgent task of a list that is not empty.
LEMMA HighestIs ==
    ASSUME NEW S \in SUBSET (Task \cup {Idle}), S # {}
    PROVE  /\ Highest(S) \in S
           /\ \A u \in S : Highest(S) <= u
<1>1. S \subseteq Nat
    BY KernelAssumption DEF Task, Idle
<1>2. PICK x \in S : \A y \in S : <<y, x>> \notin OpToRel(<, Nat)
    BY <1>1, NatLessThanWellFounded, WFMin
<1>3. \A y \in S : x <= y
    <2> TAKE y \in S
    <2>1. ~(y < x)
        BY <1>1, <1>2 DEF OpToRel
    <2> QED
        BY <1>1, <2>1
<1> QED
    BY <1>3 DEF Highest

-----------------------------------------------------------------------------
(* The inductive invariant                                                 *)

\* Only a task that exists has a program to run.
PcLive == \A t \in Task : pc[t] \in {"run", "pend", "del"} => t \in live

\* The OS_TCB of a dead task has a new owner only from the command that created
\* it to the switch that follows.
HeirWaits ==
    heir # NoTask =>
        /\ pendsv /\ tim4 # "scan"
        /\ heir \in live /\ pc[heir] = "run" /\ heir # cur
        /\ cur \notin live

\* Between the halves of OSTaskDel nothing is decided, and one command at most
\* has been executed.
DelHolds ==
    \A t \in Task : pc[t] = "del" =>
        /\ cur = t /\ ~pendsv /\ ~due /\ dly[t] = 0
        /\ "suspend" \in stat[t] => tim4 \in {"done", "rest"}

\* Who is in a wait list and does not wait has used up its timeout.
TimedOut ==
    \A t \in Task : event[t] # None /\ "sem" \notin stat[t] =>
                    dly[t] = 0 /\ statPend[t] = "to"

\* A decision to switch is up to date, and so is the lack of one.
Decided ==
    ~Locked => /\ pendsv => high = Highest(rdy)
               /\ ~due /\ ~pendsv => cur = Highest(rdy)

\* No switch is pending when a command that can suspend is executed.
ScanAlone == tim4 = "scan" /\ "preempt" \notin use => ~pendsv

IInv == /\ TypeOK /\ ReadyIsStatus /\ ListsExact
        /\ PcLive /\ HeirWaits /\ DelHolds /\ TimedOut
        /\ Decided /\ ScanAlone

\* The console does not suspend while other interrupts come in between.
NoPreemptedPause == \A u \in Uses : ~ ({"pause", "preempt"} \subseteq u)

-----------------------------------------------------------------------------
(* Types                                                                   *)

TcbOK == /\ live \subseteq Task
         /\ stat \in [Task -> SUBSET {"sem", "suspend"}]
         /\ statPend \in [Task -> {"ok", "to", "abort"}]
         /\ dly \in [Task -> 0..MaxDly]
         /\ event \in [Task -> Event \cup {None}]
         /\ rdy \subseteq Task \cup {Idle} /\ Idle \in rdy
         /\ pc \in [Task -> {"off", "run", "pend", "del", "gone"}]
EcbOK == /\ wait \in [Event -> SUBSET Task]
         /\ cnt \in [Event -> 0..MaxCount]
         /\ used \in [Event -> BOOLEAN]
CpuOK == /\ cur \in Task \cup {Idle} /\ high \in Task \cup {Idle}
         /\ tim4 \in {"off", "scan", "done", "rest"}
         /\ heir \in Task \cup {NoTask}
         /\ use \in Uses
FlagsOK == pendsv \in BOOLEAN /\ due \in BOOLEAN

LEMMA TypeParts == TypeOK <=> TcbOK /\ EcbOK /\ CpuOK /\ FlagsOK
BY DEF TypeOK, TcbOK, EcbOK, CpuOK, FlagsOK

LEMMA TypePartsNext == TypeOK' <=> TcbOK' /\ EcbOK' /\ CpuOK' /\ FlagsOK'
BY DEF TypeOK, TcbOK, EcbOK, CpuOK, FlagsOK

LEMMA Numbers == Task \subseteq Nat /\ Idle \in Nat /\ Idle \notin Task /\ NoTask \notin Task
BY KernelAssumption DEF Task, Idle, NoTask

LEMMA TypeInit == Init => TypeOK
<1> SUFFICES ASSUME Init PROVE TypeOK
    OBVIOUS
<1>1. TcbOK
    BY KernelAssumption DEF Init, TcbOK
<1>2. EcbOK
    BY KernelAssumption DEF Init, EcbOK
<1>3. cur \in Task \cup {Idle}
    <2>1. Highest(rdy) \in rdy
        BY <1>1, HighestIs DEF TcbOK
    <2> QED
        BY <1>1, <2>1 DEF Init, TcbOK
<1>4. CpuOK
    BY <1>3 DEF Init, CpuOK
<1>5. FlagsOK
    BY DEF Init, FlagsOK
<1> QED
    BY <1>1, <1>2, <1>4, <1>5, TypeParts

\* The decision of OS_Sched is a task or the idle task.
LEMMA SchedType ==
    ASSUME NEW r \in SUBSET (Task \cup {Idle}), Idle \in r, TypeOK, Sched(r)
    PROVE  high' \in Task \cup {Idle} /\ pendsv' \in BOOLEAN
<1>1. Highest(r) \in Task \cup {Idle}
    BY HighestIs
<1>2. CASE Locked
    BY <1>2 DEF Sched, sched, TypeOK
<1>3. CASE ~Locked
    BY <1>1, <1>3 DEF Sched, TypeOK
<1> QED
    BY <1>2, <1>3

LEMMA WakesType ==
    ASSUME TcbOK, EcbOK, NEW e \in Event, NEW W \in SUBSET Task,
           NEW how \in {"ok", "abort"}, Wakes(e, W, how), UNCHANGED <<live, pc>>
    PROVE  TcbOK' /\ wait' \in [Event -> SUBSET Task]
<1>1. dly' \in [Task -> 0..MaxDly]
    BY KernelAssumption DEF Wakes, TcbOK
<1>2. stat' \in [Task -> SUBSET {"sem", "suspend"}]
    BY DEF Wakes, TcbOK
<1>3. statPend' \in [Task -> {"ok", "to", "abort"}] /\ event' \in [Task -> Event \cup {None}]
    BY DEF Wakes, TcbOK
<1>4. rdy' \subseteq Task \cup {Idle} /\ Idle \in rdy'
    BY DEF Wakes, TcbOK
<1>5. wait' \in [Event -> SUBSET Task]
    BY DEF Wakes, EcbOK
<1> QED
    BY <1>1, <1>2, <1>3, <1>4, <1>5 DEF TcbOK

LEMMA PostsType ==
    ASSUME TcbOK, EcbOK, NEW e \in Event, Posts(e)
    PROVE  TcbOK' /\ EcbOK'
<1>1. CASE wait[e] # {}
    <2>1. Highest(wait[e]) \in wait[e]
        BY <1>1, HighestIs DEF EcbOK
    <2>2. {Highest(wait[e])} \in SUBSET Task
        BY <2>1 DEF EcbOK
    <2>3. Wakes(e, {Highest(wait[e])}, "ok") /\ UNCHANGED <<live, pc, cnt, used>>
        BY <1>1 DEF Posts
    <2>4. TcbOK' /\ wait' \in [Event -> SUBSET Task]
        BY <2>2, <2>3, WakesType
    <2> QED
        BY <2>3, <2>4 DEF EcbOK
<1>2. CASE wait[e] = {}
    <2>1. UNCHANGED <<dly, stat, statPend, event, wait, rdy, live, used, pc>>
        BY <1>2 DEF Posts
    <2>2. cnt' \in [Event -> 0..MaxCount]
        BY <1>2, KernelAssumption DEF Posts, EcbOK
    <2> QED
        BY <2>1, <2>2 DEF TcbOK, EcbOK
<1> QED
    BY <1>1, <1>2

\* What a call of a running task leaves alone.
LEMMA LeavesType ==
    ASSUME TypeOK, NEW d \in BOOLEAN, Leaves(d)
    PROVE  CpuOK' /\ FlagsOK'
BY TypeParts DEF Leaves, sched, CpuOK, FlagsOK

LEMMA CreatesType ==
    ASSUME TypeOK, NEW u \in Task, Creates(u)
    PROVE  TcbOK' /\ EcbOK' /\ heir' \in Task \cup {NoTask}
<1>1. TcbOK /\ EcbOK /\ CpuOK
    BY TypeParts
<1>2. pc' \in [Task -> {"off", "run", "pend", "del", "gone"}] /\ heir' \in Task \cup {NoTask}
    BY <1>1 DEF Creates, TcbOK, CpuOK
<1>3. dly' \in [Task -> 0..MaxDly]
    BY <1>1, KernelAssumption DEF Creates, TcbOK
<1>4. /\ live' \subseteq Task /\ rdy' \subseteq Task \cup {Idle} /\ Idle \in rdy'
      /\ stat' \in [Task -> SUBSET {"sem", "suspend"}]
      /\ statPend' \in [Task -> {"ok", "to", "abort"}]
      /\ event' \in [Task -> Event \cup {None}]
    BY <1>1 DEF Creates, TcbOK
<1>5. EcbOK'
    BY <1>1 DEF Creates, ecb, EcbOK
<1> QED
    BY <1>2, <1>3, <1>4, <1>5 DEF TcbOK

LEMMA OSTimeTickType ==
    ASSUME TypeOK, OSTimeTick
    PROVE  TypeOK'
<1> DEFINE expired == {t \in live : dly[t] = 1}
<1>1. TcbOK /\ EcbOK /\ CpuOK /\ FlagsOK
    BY TypeParts
<1>2. dly' = [t \in Task |-> IF t \in live /\ dly[t] > 0 THEN dly[t] - 1 ELSE dly[t]]
    BY DEF OSTimeTick
<1>3. dly' \in [Task -> 0..MaxDly]
    BY <1>1, <1>2, KernelAssumption DEF TcbOK
<1>4. /\ stat' = [t \in Task |-> IF t \in expired THEN stat[t] \ {"sem"} ELSE stat[t]]
      /\ statPend' = [t \in Task |-> IF t \in expired
                                     THEN IF "sem" \in stat[t] THEN "to" ELSE "ok"
                                     ELSE statPend[t]]
      /\ rdy' = rdy \cup {t \in expired : "suspend" \notin stat[t]}
    BY DEF OSTimeTick
<1>5. stat' \in [Task -> SUBSET {"sem", "suspend"}] /\ statPend' \in [Task -> {"ok", "to", "abort"}]
    BY <1>1, <1>4 DEF TcbOK
<1>6. rdy' \subseteq Task \cup {Idle} /\ Idle \in rdy'
    BY <1>1, <1>4 DEF TcbOK
<1>7. TcbOK' /\ EcbOK'
    BY <1>1, <1>3, <1>5, <1>6 DEF TcbOK, EcbOK, OSTimeTick, ecb
<1>8. high' \in Task \cup {Idle} /\ pendsv' \in BOOLEAN
    BY <1>6, SchedType DEF OSTimeTick
<1>9. CpuOK'
    BY <1>1, <1>8 DEF CpuOK, OSTimeTick
<1>10. FlagsOK'
    BY <1>1, <1>8 DEF FlagsOK, OSTimeTick
<1> QED
    BY <1>7, <1>9, <1>10, TypePartsNext

LEMMA PostsSchedType ==
    ASSUME TypeOK, TcbOK', Sched(rdy')
    PROVE  high' \in Task \cup {Idle} /\ pendsv' \in BOOLEAN
BY SchedType DEF TcbOK

LEMMA TypePendReturns ==
    ASSUME TypeOK, NEW t \in Task, PendReturns(t)
    PROVE  TypeOK'
<1>1. TcbOK /\ EcbOK
    BY TypeParts
<1>2. TcbOK'
    BY <1>1 DEF PendReturns, TcbOK
<1>3. EcbOK'
    BY <1>1 DEF PendReturns, EcbOK
<1>4. CpuOK' /\ FlagsOK'
    BY LeavesType DEF PendReturns
<1> QED
    BY <1>2, <1>3, <1>4, TypePartsNext

LEMMA TypeSems ==
    ASSUME TypeOK, NEW t \in Task, NEW e \in Event
    PROVE  /\ OSSemPost(t, e) => TypeOK'
           /\ OSSemDel(t, e) => TypeOK'
           /\ OSSemCreate(t, e) => TypeOK'
<1>1. TcbOK /\ EcbOK /\ CpuOK /\ FlagsOK
    BY TypeParts
<1>2. ASSUME OSSemPost(t, e) PROVE TypeOK'
    <2>1. TcbOK' /\ EcbOK'
        BY <1>1, <1>2, PostsType DEF OSSemPost
    <2>2. CpuOK' /\ FlagsOK'
        BY <1>2, LeavesType DEF OSSemPost
    <2> QED
        BY <2>1, <2>2, TypePartsNext
<1>3. ASSUME OSSemDel(t, e) PROVE TypeOK'
    <2>1. TcbOK' /\ wait' \in [Event -> SUBSET Task]
        BY <1>1, <1>3, WakesType DEF OSSemDel, EcbOK
    <2>2. used' \in [Event -> BOOLEAN]
        BY <1>1, <1>3 DEF OSSemDel, EcbOK
    <2>3. cnt' \in [Event -> 0..MaxCount]
        <3>1. cnt' = [cnt EXCEPT ![e] = 0] /\ cnt \in [Event -> 0..MaxCount]
            BY <1>1, <1>3 DEF OSSemDel, EcbOK
        <3> QED
            BY <3>1, KernelAssumption
    <2>4. EcbOK'
        BY <2>1, <2>2, <2>3 DEF EcbOK
    <2>5. CpuOK' /\ FlagsOK'
        BY <1>3, LeavesType DEF OSSemDel
    <2> QED
        BY <2>1, <2>4, <2>5, TypePartsNext
<1>4. ASSUME OSSemCreate(t, e) PROVE TypeOK'
    <2>1. TcbOK' /\ EcbOK'
        BY <1>1, <1>4, KernelAssumption DEF OSSemCreate, TcbOK, EcbOK, tcb
    <2>2. CpuOK' /\ FlagsOK'
        BY <1>4, LeavesType DEF OSSemCreate
    <2> QED
        BY <2>1, <2>2, TypePartsNext
<1> QED
    BY <1>2, <1>3, <1>4

LEMMA TypePends ==
    ASSUME TypeOK, NEW t \in Task, NEW e \in Event, NEW n \in 0..MaxDly, OSSemPend(t, e, n)
    PROVE  TypeOK'
<1>1. TcbOK /\ EcbOK /\ CpuOK /\ FlagsOK
    BY TypeParts
<1>2. CASE cnt[e] > 0
    <2>1. cnt' = [cnt EXCEPT ![e] = @ - 1] /\ Leaves(FALSE)
          /\ UNCHANGED <<stat, statPend, dly, event, rdy, wait, pc, live, used>>
        BY <1>2 DEF OSSemPend
    <2>2. cnt' \in [Event -> 0..MaxCount]
        BY <1>1, <1>2, <2>1, KernelAssumption DEF EcbOK
    <2>3. TcbOK' /\ EcbOK'
        BY <1>1, <2>1, <2>2 DEF TcbOK, EcbOK
    <2>4. CpuOK' /\ FlagsOK'
        BY <2>1, LeavesType
    <2> QED
        BY <2>3, <2>4, TypePartsNext
<1>3. CASE ~(cnt[e] > 0)
    <2>1. /\ stat' = [stat EXCEPT ![t] = @ \cup {"sem"}]
          /\ statPend' = [statPend EXCEPT ![t] = "ok"]
          /\ dly' = [dly EXCEPT ![t] = n]
          /\ event' = [event EXCEPT ![t] = e]
          /\ wait' = [wait EXCEPT ![e] = @ \cup {t}]
          /\ rdy' = rdy \ {t}
          /\ pc' = [pc EXCEPT ![t] = "pend"]
          /\ Leaves(TRUE)
          /\ UNCHANGED <<cnt, live, used>>
        BY <1>3 DEF OSSemPend
    <2>2. stat' \in [Task -> SUBSET {"sem", "suspend"}]
        BY <1>1, <2>1 DEF TcbOK
    <2>3. TcbOK'
        BY <1>1, <2>1, <2>2, Numbers DEF TcbOK
    <2>4. EcbOK'
        BY <1>1, <2>1 DEF EcbOK
    <2>5. CpuOK' /\ FlagsOK'
        BY <2>1, LeavesType
    <2> QED
        BY <2>3, <2>4, <2>5, TypePartsNext
<1> QED
    BY <1>2, <1>3

LEMMA TypeDelays ==
    ASSUME TypeOK, NEW t \in Task, NEW n \in 0..MaxDly, OSTimeDly(t, n)
    PROVE  TypeOK'
<1>1. TcbOK /\ EcbOK
    BY TypeParts
<1>2. TcbOK' /\ EcbOK'
    BY <1>1, Numbers DEF OSTimeDly, TcbOK, EcbOK, ecb
<1>3. CpuOK' /\ FlagsOK'
    BY LeavesType DEF OSTimeDly
<1> QED
    BY <1>2, <1>3, TypePartsNext

LEMMA TypeLives ==
    ASSUME TypeOK, NEW t \in Task
    PROVE  /\ OSTaskDel(t) => TypeOK'
           /\ DelFrees(t) => TypeOK'
           /\ (\E u \in Mortal : OSTaskCreate(t, u)) => TypeOK'
           /\ ConsoleCreates(t) => TypeOK'
<1>1. TcbOK /\ EcbOK /\ CpuOK /\ FlagsOK
    BY TypeParts
<1>2. ASSUME OSTaskDel(t) PROVE TypeOK'
    <2>1. dly' \in [Task -> 0..MaxDly]
        <3>1. dly' = [dly EXCEPT ![t] = 0] /\ dly \in [Task -> 0..MaxDly]
            BY <1>1, <1>2 DEF OSTaskDel, TcbOK
        <3> QED
            BY <3>1, KernelAssumption
    <2>2. TcbOK'
        BY <1>1, <1>2, <2>1, Numbers DEF OSTaskDel, TcbOK
    <2>3. EcbOK'
        BY <1>1, <1>2 DEF OSTaskDel, EcbOK
    <2>4. CpuOK' /\ FlagsOK'
        BY <1>2, LeavesType DEF OSTaskDel
    <2> QED
        BY <2>2, <2>3, <2>4, TypePartsNext
<1>3. ASSUME DelFrees(t) PROVE TypeOK'
    <2>1. TcbOK' /\ EcbOK'
        BY <1>1, <1>3 DEF DelFrees, TcbOK, EcbOK, ecb
    <2>2. CpuOK' /\ FlagsOK'
        BY <1>3, LeavesType DEF DelFrees
    <2> QED
        BY <2>1, <2>2, TypePartsNext
<1>4. ASSUME NEW u \in Mortal, OSTaskCreate(t, u) PROVE TypeOK'
    <2>1. TcbOK' /\ EcbOK' /\ heir' \in Task \cup {NoTask}
        BY <1>4, CreatesType, KernelAssumption DEF OSTaskCreate
    <2>2. CpuOK'
        BY <1>1, <1>4, <2>1 DEF OSTaskCreate, CpuOK, sched
    <2>3. FlagsOK'
        BY <1>1, <1>4 DEF OSTaskCreate, FlagsOK, sched
    <2> QED
        BY <2>1, <2>2, <2>3, TypePartsNext
<1>5. ASSUME ConsoleCreates(t) PROVE TypeOK'
    <2>1. TcbOK' /\ EcbOK' /\ heir' \in Task \cup {NoTask}
        BY <1>5, CreatesType DEF ConsoleCreates
    <2>2. high' \in Task \cup {Idle} /\ pendsv' \in BOOLEAN
        BY <1>5, <2>1, PostsSchedType DEF ConsoleCreates
    <2>3. CpuOK'
        BY <1>1, <1>5, <2>1, <2>2 DEF ConsoleCreates, Command, CpuOK
    <2>4. FlagsOK'
        BY <1>1, <1>5, <2>2 DEF ConsoleCreates, Command, FlagsOK
    <2> QED
        BY <2>1, <2>3, <2>4, TypePartsNext
<1> QED
    BY <1>2, <1>3, <1>4, <1>5

LEMMA TypeSwitches ==
    ASSUME TypeOK
    PROVE  /\ Reschedules => TypeOK'
           /\ PendSV_Handler => TypeOK'
           /\ Tim4Enters => TypeOK'
           /\ Tim4Leaves => TypeOK'
<1>1. TcbOK /\ EcbOK /\ CpuOK /\ FlagsOK
    BY TypeParts
<1>2. ASSUME Reschedules PROVE TypeOK'
    <2>1. TcbOK' /\ EcbOK'
        BY <1>1, <1>2 DEF Reschedules, tcb, ecb, TcbOK, EcbOK
    <2>2. high' \in Task \cup {Idle} /\ pendsv' \in BOOLEAN
        BY <1>1, <1>2, SchedType DEF Reschedules, TcbOK
    <2>3. CpuOK'
        BY <1>1, <1>2, <2>2 DEF Reschedules, CpuOK
    <2>4. FlagsOK'
        BY <1>2, <2>2 DEF Reschedules, FlagsOK
    <2> QED
        BY <2>1, <2>3, <2>4, TypePartsNext
<1>3. ASSUME PendSV_Handler PROVE TypeOK'
    <2>1. TcbOK' /\ EcbOK'
        BY <1>1, <1>3 DEF PendSV_Handler, tcb, ecb, TcbOK, EcbOK
    <2>2. CpuOK' /\ FlagsOK'
        BY <1>1, <1>3 DEF PendSV_Handler, CpuOK, FlagsOK
    <2> QED
        BY <2>1, <2>2, TypePartsNext
<1>4. ASSUME Tim4Enters \/ Tim4Leaves PROVE TypeOK'
    <2>1. /\ UNCHANGED <<tcb, rdy, ecb, pc, cur, sched, due, heir, use>>
          /\ tim4' \in {"scan", "rest"}
        BY <1>4 DEF Tim4Enters, Tim4Leaves
    <2>2. TcbOK' /\ EcbOK' /\ CpuOK' /\ FlagsOK'
        BY <1>1, <2>1 DEF tcb, ecb, sched, TcbOK, EcbOK, CpuOK, FlagsOK
    <2> QED
        BY <2>2, TypePartsNext
<1> QED
    BY <1>2, <1>3, <1>4

LEMMA TypeConsole ==
    ASSUME TypeOK, NEW t \in Task
    PROVE  /\ OSTaskSuspend(t) => TypeOK'
           /\ OSTaskResume(t) => TypeOK'
<1>1. TcbOK /\ EcbOK /\ CpuOK /\ FlagsOK
    BY TypeParts
<1>2. ASSUME OSTaskSuspend(t) \/ OSTaskResume(t) PROVE TypeOK'
    <2>1. ASSUME OSTaskSuspend(t) PROVE TcbOK' /\ EcbOK'
        BY <1>1, <2>1, Numbers DEF OSTaskSuspend, ecb, TcbOK, EcbOK
    <2>2. ASSUME OSTaskResume(t) PROVE TcbOK' /\ EcbOK'
        <3>1. stat' \in [Task -> SUBSET {"sem", "suspend"}]
            BY <1>1, <2>2 DEF OSTaskResume, TcbOK
        <3>2. rdy' = rdy \cup {t} \/ rdy' = rdy
            BY <2>2 DEF OSTaskResume
        <3> QED
            BY <1>1, <2>2, <3>1, <3>2 DEF OSTaskResume, ecb, TcbOK, EcbOK
    <2>3. TcbOK' /\ EcbOK'
        BY <1>2, <2>1, <2>2
    <2>4. Sched(rdy') \/ UNCHANGED sched
        BY <1>2 DEF OSTaskSuspend, OSTaskResume
    <2>5. high' \in Task \cup {Idle} /\ pendsv' \in BOOLEAN
        BY <1>1, <2>3, <2>4, PostsSchedType DEF sched, CpuOK, FlagsOK
    <2>6. CpuOK'
        BY <1>1, <1>2, <2>5 DEF OSTaskSuspend, OSTaskResume, Command, CpuOK
    <2>7. FlagsOK'
        BY <1>1, <1>2, <2>5 DEF OSTaskSuspend, OSTaskResume, Command, FlagsOK
    <2> QED
        BY <2>3, <2>6, <2>7, TypePartsNext
<1> QED
    BY <1>2

LEMMA TypeETH ==
    ASSUME TypeOK, NEW e \in Event, ETH_IRQHandler(e)
    PROVE  TypeOK'
<1>1. TcbOK /\ EcbOK /\ CpuOK /\ FlagsOK
    BY TypeParts
<1>2. TcbOK' /\ EcbOK'
    BY <1>1, PostsType DEF ETH_IRQHandler
<1>3. high' \in Task \cup {Idle} /\ pendsv' \in BOOLEAN
    BY <1>2, PostsSchedType DEF ETH_IRQHandler
<1>4. CpuOK'
    BY <1>1, <1>3 DEF ETH_IRQHandler, CpuOK
<1>5. FlagsOK'
    BY <1>1, <1>3 DEF ETH_IRQHandler, FlagsOK
<1> QED
    BY <1>2, <1>4, <1>5, TypePartsNext

\* Every step keeps the types.
LEMMA TypeNext ==
    ASSUME TypeOK, [Next]_vars
    PROVE  TypeOK'
<1>1. CASE TaskStep
    <2>1. CASE Reschedules
        BY <2>1, TypeSwitches
    <2>2. ASSUME NEW t \in Task,
                 \/ PendReturns(t) \/ OSTaskDel(t) \/ DelFrees(t)
                 \/ \E e \in Event : \/ OSSemPost(t, e) \/ OSSemDel(t, e) \/ OSSemCreate(t, e)
                                     \/ \E n \in 0..MaxDly : OSSemPend(t, e, n)
                 \/ \E n \in 1..MaxDly : OSTimeDly(t, n)
                 \/ \E u \in Mortal : OSTaskCreate(t, u)
          PROVE  TypeOK'
        <3>1. CASE PendReturns(t)
            BY <3>1, TypePendReturns
        <3>2. CASE OSTaskDel(t) \/ DelFrees(t) \/ \E u \in Mortal : OSTaskCreate(t, u)
            BY <3>2, TypeLives
        <3>3. CASE \E e \in Event : \/ OSSemPost(t, e) \/ OSSemDel(t, e) \/ OSSemCreate(t, e)
                                    \/ \E n \in 0..MaxDly : OSSemPend(t, e, n)
            BY <3>3, TypeSems, TypePends
        <3>4. CASE \E n \in 1..MaxDly : OSTimeDly(t, n)
            <4>1. PICK n \in 1..MaxDly : OSTimeDly(t, n)
                BY <3>4
            <4>2. n \in 0..MaxDly
                BY KernelAssumption
            <4> QED
                BY <4>1, <4>2, TypeDelays
        <3> QED
            BY <2>2, <3>1, <3>2, <3>3, <3>4
    <2> QED
        BY <1>1, <2>1, <2>2 DEF TaskStep
<1>2. CASE PendSV_Handler \/ Tim4Enters \/ Tim4Leaves
    BY <1>2, TypeSwitches
<1>3. CASE OSTimeTick
    BY <1>3, OSTimeTickType
<1>4. CASE \E e \in Event : ETH_IRQHandler(e)
    BY <1>4, TypeETH
<1>5. CASE Console
    BY <1>5, TypeConsole, TypeLives DEF Console
<1>6. CASE UNCHANGED vars
    BY <1>6 DEF vars, tcb, ecb, sched, TypeOK
<1> QED
    BY <1>1, <1>2, <1>3, <1>4, <1>5, <1>6 DEF Next

\* Every variable keeps its type, whatever the console and the interrupts do.
THEOREM TypeCorrect == Spec => []TypeOK
BY TypeInit, TypeNext, PTL DEF Spec

-----------------------------------------------------------------------------
(* Tables                                                                  *)

Tables == ReadyIsStatus /\ ListsExact /\ PcLive /\ TimedOut

LEMMA TablesInit == Init => Tables
<1> SUFFICES ASSUME Init PROVE Tables
    OBVIOUS
<1>1. ReadyIsStatus
    BY Numbers DEF Init, ReadyIsStatus
<1>2. ListsExact
    BY KernelAssumption DEF Init, ListsExact
<1>3. PcLive /\ TimedOut
    BY DEF Init, PcLive, TimedOut
<1> QED
    BY <1>1, <1>2, <1>3 DEF Tables

\* Whose code is executed is ready: it waits for nothing, and is not suspended.
LEMMA WhoRunsIsReady ==
    ASSUME TypeOK, Tables, Decided, NEW t \in Task, NEW l \in {"run", "pend", "gone"},
           Code(t, l)
    PROVE  t \in rdy /\ t \in live /\ stat[t] = {} /\ dly[t] = 0
<1>1. ~Locked
    BY DEF Code, Locked
<1>2. t = Highest(rdy)
    BY <1>1 DEF Decided, Code
<1>3. t \in rdy
    BY <1>2, HighestIs DEF TypeOK
<1> QED
    BY <1>3 DEF Tables, ReadyIsStatus

\* The tasks of a wait list that are made ready, all or one of them, leave every
\* table in order.
LEMMA WakesTables ==
    ASSUME TypeOK, Tables, NEW e \in Event, NEW W \in SUBSET Task, W \subseteq wait[e],
           NEW how \in {"ok", "abort"}, Wakes(e, W, how), UNCHANGED <<live, pc>>,
           \A f \in Event : (cnt'[f] > 0 \/ ~used'[f]) => wait'[f] = {}
    PROVE  Tables'
<1>1. \A t \in W : event[t] = e /\ e # None /\ pc[t] = "pend" /\ t \in live
    BY KernelAssumption DEF Tables, ListsExact
<1>2. \A t \in Task : /\ stat'[t] = IF t \in W THEN stat[t] \ {"sem"} ELSE stat[t]
                      /\ statPend'[t] = IF t \in W THEN how ELSE statPend[t]
                      /\ event'[t] = IF t \in W THEN None ELSE event[t]
                      /\ dly'[t] = IF t \in W THEN 0 ELSE dly[t]
                      /\ t \in rdy' <=> t \in rdy \/ (t \in W /\ "suspend" \notin stat[t])
    BY DEF Wakes
<1>3. \A t \in Task : stat[t] \subseteq {"sem", "suspend"}
    BY DEF TypeOK
<1>4. ReadyIsStatus'
    <2> SUFFICES ASSUME NEW t \in Task
                 PROVE  t \in rdy' <=> t \in live' /\ stat'[t] = {} /\ dly'[t] = 0 /\ pc'[t] # "del"
        BY DEF ReadyIsStatus
    <2>1. t \in rdy <=> t \in live /\ stat[t] = {} /\ dly[t] = 0 /\ pc[t] # "del"
        BY DEF Tables, ReadyIsStatus
    <2>2. CASE t \in W
        <3>1. stat'[t] = stat[t] \ {"sem"} /\ stat[t] \subseteq {"sem", "suspend"}
            BY <1>2, <1>3, <2>2
        <3>2. stat'[t] = {} <=> "suspend" \notin stat[t]
            BY <3>1
        <3> QED
            BY <1>1, <1>2, <2>1, <2>2, <3>2
    <2>3. CASE t \notin W
        BY <1>2, <2>1, <2>3
    <2> QED
        BY <2>2, <2>3
<1>5. ListsExact'
    <2>1. ASSUME NEW f \in Event PROVE wait'[f] = {t \in Task : event'[t] = f}
        <3>1. wait[f] = {t \in Task : event[t] = f}
            BY DEF Tables, ListsExact
        <3>2. wait'[f] = IF f = e THEN wait[f] \ W ELSE wait[f]
            BY DEF Wakes, TypeOK
        <3>3. ASSUME NEW t \in Task PROVE t \in wait'[f] <=> event'[t] = f
            <4>1. f # None
                BY KernelAssumption
            <4>2. CASE t \in W
                <5>1. event'[t] # f
                    BY <1>2, <4>1, <4>2
                <5>2. event[t] = e
                    BY <1>1, <4>2
                <5>3. t \notin wait'[f]
                    BY <3>1, <3>2, <4>2, <5>2
                <5> QED
                    BY <5>1, <5>3
            <4>3. CASE t \notin W
                BY <1>2, <3>1, <3>2, <4>3
            <4> QED
                BY <4>2, <4>3
        <3>4. wait'[f] \subseteq Task
            BY <3>1, <3>2
        <3> QED
            BY <3>3, <3>4
    <2>2. ASSUME NEW t \in Task
          PROVE  /\ "sem" \in stat'[t] => event'[t] # None /\ statPend'[t] = "ok"
                 /\ event'[t] # None => t \in live' /\ pc'[t] = "pend"
        BY <1>2 DEF Tables, ListsExact
    <2> QED
        BY <2>1, <2>2 DEF ListsExact
<1>6. PcLive'
    BY DEF Tables, PcLive
<1>7. TimedOut'
    BY <1>2 DEF Tables, TimedOut
<1> QED
    BY <1>4, <1>5, <1>6, <1>7 DEF Tables

LEMMA PostsTables ==
    ASSUME TypeOK, Tables, NEW e \in Event, Posts(e)
    PROVE  Tables'
<1>1. CASE wait[e] # {}
    <2> DEFINE W == {Highest(wait[e])}
    <2>1. Highest(wait[e]) \in wait[e]
        BY <1>1, HighestIs DEF TypeOK
    <2>2. W \in SUBSET Task /\ W \subseteq wait[e]
        BY <2>1 DEF TypeOK
    <2>3. Wakes(e, W, "ok") /\ UNCHANGED <<live, pc, cnt, used>>
        BY <1>1 DEF Posts
    <2>4. \A f \in Event : (cnt'[f] > 0 \/ ~used'[f]) => wait'[f] = {}
        BY <2>3 DEF Wakes, Tables, ListsExact, TypeOK
    <2> HIDE DEF W
    <2> QED
        BY <2>2, <2>3, <2>4, WakesTables
<1>2. CASE wait[e] = {}
    <2>1. UNCHANGED <<dly, stat, statPend, event, wait, rdy, live, used, pc>>
        BY <1>2 DEF Posts
    <2>2. \A f \in Event : (cnt'[f] > 0 \/ ~used'[f]) => wait'[f] = {}
        <3>1. \A f \in Event \ {e} : cnt'[f] = cnt[f]
            BY <1>2 DEF Posts, TypeOK
        <3> QED
            BY <1>2, <2>1, <3>1 DEF Tables, ListsExact
    <2>3. ListsExact'
        BY <2>1, <2>2 DEF Tables, ListsExact
    <2> QED
        BY <2>1, <2>3 DEF Tables, ReadyIsStatus, PcLive, TimedOut
<1> QED
    BY <1>1, <1>2

\* Between the halves of a call the tables stay in order.
LEMMA PendsTables ==
    ASSUME TypeOK, Tables, Decided, NEW t \in Task, NEW e \in Event, NEW n \in 0..MaxDly,
           OSSemPend(t, e, n)
    PROVE  Tables'
<1>1. t \in rdy /\ t \in live /\ stat[t] = {} /\ dly[t] = 0 /\ pc[t] = "run"
    BY WhoRunsIsReady DEF OSSemPend, Code
<1>2. event[t] = None
    BY <1>1 DEF Tables, ListsExact
<1>3. CASE cnt[e] > 0
    <2>1. UNCHANGED <<stat, statPend, dly, event, rdy, wait, pc, live, used>>
        BY <1>3 DEF OSSemPend
    <2>2. \A f \in Event : (cnt'[f] > 0 \/ ~used'[f]) => wait'[f] = {}
        <3>1. \A f \in Event : cnt'[f] > 0 => cnt[f] > 0
            BY <1>3 DEF OSSemPend, TypeOK
        <3> QED
            BY <2>1, <3>1 DEF Tables, ListsExact
    <2>3. ListsExact'
        BY <2>1, <2>2 DEF Tables, ListsExact
    <2> QED
        BY <2>1, <2>3 DEF Tables, ReadyIsStatus, PcLive, TimedOut
<1>4. CASE ~(cnt[e] > 0)
    <2>1. /\ stat' = [stat EXCEPT ![t] = {"sem"}]
          /\ statPend' = [statPend EXCEPT ![t] = "ok"]
          /\ dly' = [dly EXCEPT ![t] = n]
          /\ event' = [event EXCEPT ![t] = e]
          /\ wait' = [wait EXCEPT ![e] = @ \cup {t}]
          /\ rdy' = rdy \ {t}
          /\ pc' = [pc EXCEPT ![t] = "pend"]
          /\ UNCHANGED <<cnt, live, used>>
        BY <1>1, <1>4 DEF OSSemPend, TypeOK
    <2>2. /\ stat'[t] = {"sem"} /\ statPend'[t] = "ok" /\ event'[t] = e /\ pc'[t] = "pend"
          /\ e # None /\ used[e]
        BY <2>1, KernelAssumption DEF TypeOK, OSSemPend
    <2>3. \A u \in Task \ {t} : /\ stat'[u] = stat[u] /\ statPend'[u] = statPend[u]
                                /\ dly'[u] = dly[u] /\ event'[u] = event[u] /\ pc'[u] = pc[u]
                                /\ u \in rdy' <=> u \in rdy
        BY <2>1 DEF TypeOK
    <2>4. ReadyIsStatus'
        <3>1. t \notin rdy' /\ stat'[t] # {}
            BY <2>1, <2>2
        <3> QED
            BY <2>1, <2>3, <3>1 DEF Tables, ReadyIsStatus
    <2>5. ListsExact'
        <3>1. ASSUME NEW f \in Event PROVE wait'[f] = {u \in Task : event'[u] = f}
            <4>1. wait[f] = {u \in Task : event[u] = f}
                BY DEF Tables, ListsExact
            <4>2. wait'[f] = IF f = e THEN wait[f] \cup {t} ELSE wait[f]
                BY <2>1 DEF TypeOK
            <4>3. f # None
                BY KernelAssumption
            <4>4. ASSUME NEW u \in Task PROVE u \in wait'[f] <=> event'[u] = f
                <5>1. CASE u = t
                    BY <1>2, <2>2, <4>1, <4>2, <4>3, <5>1
                <5>2. CASE u # t
                    BY <2>3, <4>1, <4>2, <5>2
                <5> QED
                    BY <5>1, <5>2
            <4>5. wait'[f] \subseteq Task
                BY <4>1, <4>2
            <4> QED
                BY <4>4, <4>5
        <3>2. ASSUME NEW u \in Task
              PROVE  /\ "sem" \in stat'[u] => event'[u] # None /\ statPend'[u] = "ok"
                     /\ event'[u] # None => u \in live' /\ pc'[u] = "pend"
            <4>1. CASE u = t
                BY <1>1, <2>1, <2>2, <4>1
            <4>2. CASE u # t
                BY <2>1, <2>3, <4>2 DEF Tables, ListsExact
            <4> QED
                BY <4>1, <4>2
        <3>3. ASSUME NEW f \in Event, cnt'[f] > 0 \/ ~used'[f] PROVE wait'[f] = {}
            <4>1. f # e
                BY <1>4, <2>1, <2>2, <3>3
            <4> QED
                BY <2>1, <3>3, <4>1 DEF Tables, ListsExact, TypeOK
        <3> QED
            BY <3>1, <3>2, <3>3 DEF ListsExact
    <2>6. PcLive'
        BY <1>1, <2>1, <2>3 DEF Tables, PcLive
    <2>7. TimedOut'
        BY <2>2, <2>3 DEF Tables, TimedOut
    <2> QED
        BY <2>4, <2>5, <2>6, <2>7 DEF Tables
<1> QED
    BY <1>3, <1>4

\* A task that stops to wait, granted or not, is in no list any more.
LEMMA PendReturnsTables ==
    ASSUME TypeOK, Tables, Decided, NEW t \in Task, PendReturns(t)
    PROVE  Tables'
<1>1. t \in rdy /\ t \in live /\ stat[t] = {} /\ dly[t] = 0
    BY WhoRunsIsReady DEF PendReturns
<1>2. event[t] # None => statPend[t] = "to"
    BY <1>1 DEF Tables, TimedOut
<1>3. /\ stat'[t] = {} /\ statPend'[t] = "ok" /\ event'[t] = None /\ pc'[t] = "run"
      /\ dly' = dly /\ rdy' = rdy /\ live' = live /\ cnt' = cnt /\ used' = used
    BY DEF PendReturns, TypeOK
<1>4. \A u \in Task \ {t} : /\ stat'[u] = stat[u] /\ statPend'[u] = statPend[u]
                            /\ event'[u] = event[u] /\ pc'[u] = pc[u]
    BY DEF PendReturns, TypeOK
<1>5. ReadyIsStatus'
    BY <1>1, <1>3, <1>4 DEF Tables, ReadyIsStatus
<1>6. \A f \in Event : wait'[f] = IF f = event[t] /\ statPend[t] = "to"
                                  THEN wait[f] \ {t} ELSE wait[f]
    BY DEF PendReturns
<1>7. ListsExact'
    <2>1. ASSUME NEW f \in Event PROVE wait'[f] = {u \in Task : event'[u] = f}
        <3>1. wait[f] = {u \in Task : event[u] = f}
            BY DEF Tables, ListsExact
        <3>2. f # None
            BY KernelAssumption
        <3>3. ASSUME NEW u \in Task PROVE u \in wait'[f] <=> event'[u] = f
            <4>1. CASE u = t
                BY <1>2, <1>3, <1>6, <3>1, <3>2, <4>1
            <4>2. CASE u # t
                BY <1>4, <1>6, <3>1, <4>2, ZenonT(30)
            <4> QED
                BY <4>1, <4>2
        <3>4. wait'[f] \subseteq Task
            BY <1>6, <3>1
        <3> QED
            BY <3>3, <3>4
    <2>2. ASSUME NEW u \in Task
          PROVE  /\ "sem" \in stat'[u] => event'[u] # None /\ statPend'[u] = "ok"
                 /\ event'[u] # None => u \in live' /\ pc'[u] = "pend"
        <3>1. CASE u = t
            BY <1>3, <3>1
        <3>2. CASE u # t
            BY <1>3, <1>4, <3>2 DEF Tables, ListsExact
        <3> QED
            BY <3>1, <3>2
    <2>3. \A f \in Event : (cnt'[f] > 0 \/ ~used'[f]) => wait'[f] = {}
        BY <1>3, <1>6 DEF Tables, ListsExact
    <2> QED
        BY <2>1, <2>2, <2>3 DEF ListsExact
<1>8. PcLive'
    BY <1>1, <1>3, <1>4 DEF Tables, PcLive
<1>9. TimedOut'
    BY <1>3, <1>4 DEF Tables, TimedOut
<1> QED
    BY <1>5, <1>7, <1>8, <1>9 DEF Tables

LEMMA SemsTables ==
    ASSUME TypeOK, Tables, NEW t \in Task, NEW e \in Event
    PROVE  /\ OSSemPost(t, e) => Tables'
           /\ OSSemDel(t, e) => Tables'
           /\ OSSemCreate(t, e) => Tables'
<1>1. ASSUME OSSemPost(t, e) PROVE Tables'
    BY <1>1, PostsTables DEF OSSemPost
<1>2. ASSUME OSSemDel(t, e) PROVE Tables'
    <2>1. Wakes(e, wait[e], "abort") /\ UNCHANGED <<live, pc>>
        BY <1>2 DEF OSSemDel
    <2>2. wait[e] \in SUBSET Task
        BY DEF TypeOK
    <2>3. wait'[e] = {}
        BY <2>1 DEF Wakes, TypeOK
    <2>4. \A f \in Event \ {e} : wait'[f] = wait[f] /\ cnt'[f] = cnt[f] /\ used'[f] = used[f]
        BY <1>2, <2>1 DEF OSSemDel, Wakes, TypeOK
    <2>5. \A f \in Event : (cnt'[f] > 0 \/ ~used'[f]) => wait'[f] = {}
        BY <2>3, <2>4 DEF Tables, ListsExact
    <2> QED
        BY <2>1, <2>2, <2>5, WakesTables
<1>3. ASSUME OSSemCreate(t, e) PROVE Tables'
    <2>1. wait[e] = {}
        BY <1>3 DEF OSSemCreate, Tables, ListsExact
    <2>2. wait' = wait /\ UNCHANGED <<live, stat, statPend, dly, event, rdy, pc>>
        BY <1>3, <2>1 DEF OSSemCreate, tcb, TypeOK
    <2>3. \A f \in Event \ {e} : cnt'[f] = cnt[f] /\ used'[f] = used[f]
        BY <1>3 DEF OSSemCreate, TypeOK
    <2>4. \A f \in Event : (cnt'[f] > 0 \/ ~used'[f]) => wait'[f] = {}
        BY <2>1, <2>2, <2>3 DEF Tables, ListsExact
    <2>5. ListsExact'
        BY <2>2, <2>4 DEF Tables, ListsExact
    <2> QED
        BY <2>2, <2>5 DEF Tables, ReadyIsStatus, PcLive, TimedOut
<1> QED
    BY <1>1, <1>2, <1>3

LEMMA DelaysTables ==
    ASSUME TypeOK, Tables, Decided, NEW t \in Task, NEW n \in 1..MaxDly, OSTimeDly(t, n)
    PROVE  Tables'
<1>1. event[t] = None
    BY DEF OSTimeDly, Code, Tables, ListsExact
<1>2. /\ dly'[t] = n /\ n > 0 /\ t \notin rdy'
      /\ \A u \in Task \ {t} : dly'[u] = dly[u] /\ (u \in rdy' <=> u \in rdy)
      /\ UNCHANGED <<live, stat, statPend, event, wait, cnt, used, pc>>
    BY DEF OSTimeDly, ecb, TypeOK
<1>3. ReadyIsStatus'
    BY <1>2 DEF Tables, ReadyIsStatus
<1>4. ListsExact' /\ PcLive'
    BY <1>2 DEF Tables, ListsExact, PcLive
<1>5. TimedOut'
    BY <1>1, <1>2 DEF Tables, TimedOut
<1> QED
    BY <1>3, <1>4, <1>5 DEF Tables

LEMMA CreatesTables ==
    ASSUME TypeOK, Tables, NEW u \in Task, Creates(u)
    PROVE  Tables'
<1>1. u \notin live /\ event[u] = None /\ pc[u] \notin {"pend", "del"}
    BY DEF Creates, Tables, ListsExact, PcLive
<1>2. /\ stat'[u] = {} /\ event'[u] = None /\ dly'[u] = 0 /\ u \in rdy' /\ u \in live'
      /\ pc'[u] \notin {"pend", "del"}
      /\ UNCHANGED <<wait, cnt, used>>
    BY <1>1 DEF Creates, ecb, TypeOK
<1>3. \A t \in Task \ {u} : /\ stat'[t] = stat[t] /\ statPend'[t] = statPend[t]
                            /\ event'[t] = event[t] /\ dly'[t] = dly[t] /\ pc'[t] = pc[t]
                            /\ (t \in rdy' <=> t \in rdy) /\ (t \in live' <=> t \in live)
    BY DEF Creates, TypeOK
<1>4. ReadyIsStatus'
    BY <1>2, <1>3 DEF Tables, ReadyIsStatus
<1>5. ListsExact'
    <2>1. event' = event
        <3>1. event' = [event EXCEPT ![u] = None] /\ event \in [Task -> Event \cup {None}]
            BY DEF Creates, TypeOK
        <3> QED
            BY <1>1, <3>1
    <2>2. \A t \in Task : /\ "sem" \in stat'[t] => event'[t] # None /\ statPend'[t] = "ok"
                          /\ event'[t] # None => t \in live' /\ pc'[t] = "pend"
        BY <1>2, <1>3 DEF Tables, ListsExact
    <2> QED
        BY <1>2, <2>1, <2>2 DEF Tables, ListsExact
<1>6. PcLive' /\ TimedOut'
    BY <1>2, <1>3 DEF Tables, PcLive, TimedOut
<1> QED
    BY <1>4, <1>5, <1>6 DEF Tables

LEMMA DelTables ==
    ASSUME TypeOK, Tables, Decided, NEW t \in Task, OSTaskDel(t)
    PROVE  Tables'
<1>1. t \in rdy /\ t \in live /\ stat[t] = {} /\ dly[t] = 0 /\ pc[t] \in {"run", "gone"}
    BY WhoRunsIsReady DEF OSTaskDel, Code
<1>2. event[t] = None
    BY <1>1 DEF Tables, ListsExact
<1>3. UNCHANGED <<live, stat, dly, event, cnt, used>>
    <2>1. /\ stat' = [stat EXCEPT ![t] = {}] /\ dly' = [dly EXCEPT ![t] = 0]
          /\ event' = [event EXCEPT ![t] = None]
        BY DEF OSTaskDel
    <2> QED
        BY <1>1, <1>2, <2>1 DEF OSTaskDel, TypeOK
<1>4. wait' = wait
    <2>1. \A e \in Event : wait'[e] = wait[e]
        BY <1>2, KernelAssumption DEF OSTaskDel
    <2> QED
        BY <2>1 DEF OSTaskDel, TypeOK
<1>5. /\ pc'[t] = "del" /\ t \notin rdy'
      /\ \A u \in Task \ {t} : /\ pc'[u] = pc[u] /\ statPend'[u] = statPend[u]
                               /\ u \in rdy' <=> u \in rdy
    BY DEF OSTaskDel, TypeOK
<1>6. ReadyIsStatus'
    BY <1>3, <1>5 DEF Tables, ReadyIsStatus
<1>7. ListsExact'
    <2>1. \A u \in Task : /\ "sem" \in stat'[u] => event'[u] # None /\ statPend'[u] = "ok"
                          /\ event'[u] # None => u \in live' /\ pc'[u] = "pend"
        BY <1>1, <1>2, <1>3, <1>5 DEF Tables, ListsExact
    <2> QED
        BY <1>3, <1>4, <2>1 DEF Tables, ListsExact
<1>8. PcLive' /\ TimedOut'
    BY <1>1, <1>2, <1>3, <1>5 DEF Tables, PcLive, TimedOut
<1> QED
    BY <1>6, <1>7, <1>8 DEF Tables

LEMMA FreesTables ==
    ASSUME TypeOK, Tables, NEW t \in Task, DelFrees(t)
    PROVE  Tables'
<1>1. pc[t] = "del" /\ event[t] = None /\ t \notin rdy
    BY DEF DelFrees, Code, Tables, ListsExact, ReadyIsStatus
<1>2. /\ pc'[t] = "gone" /\ t \notin live'
      /\ \A u \in Task \ {t} : pc'[u] = pc[u] /\ (u \in live' <=> u \in live)
      /\ UNCHANGED <<stat, statPend, dly, event, rdy, wait, cnt, used>>
    BY DEF DelFrees, ecb, TypeOK
<1>3. ReadyIsStatus'
    BY <1>1, <1>2 DEF Tables, ReadyIsStatus
<1>4. ListsExact'
    <2>1. \A u \in Task : /\ "sem" \in stat'[u] => event'[u] # None /\ statPend'[u] = "ok"
                          /\ event'[u] # None => u \in live' /\ pc'[u] = "pend"
        BY <1>1, <1>2 DEF Tables, ListsExact
    <2> QED
        BY <1>2, <2>1 DEF Tables, ListsExact
<1>5. PcLive' /\ TimedOut'
    BY <1>2 DEF Tables, PcLive, TimedOut
<1> QED
    BY <1>3, <1>4, <1>5 DEF Tables

\* A tick that ends a wait leaves the task in its wait list, which its own code
\* removes it from, and no longer marked as waiting.
LEMMA TickTables ==
    ASSUME TypeOK, Tables, DelHolds, OSTimeTick
    PROVE  Tables'
<1> DEFINE expired == {t \in live : dly[t] = 1}
<1>1. \A t \in Task : dly'[t] = IF t \in live /\ dly[t] > 0 THEN dly[t] - 1 ELSE dly[t]
    BY DEF OSTimeTick
<1>2. \A t \in Task : /\ stat'[t] = IF t \in expired THEN stat[t] \ {"sem"} ELSE stat[t]
                      /\ statPend'[t] = IF t \in expired
                                        THEN IF "sem" \in stat[t] THEN "to" ELSE "ok"
                                        ELSE statPend[t]
                      /\ t \in rdy' <=> t \in rdy \/ (t \in expired /\ "suspend" \notin stat[t])
    BY DEF OSTimeTick
<1>3. UNCHANGED <<live, event, wait, cnt, used, pc>>
    BY DEF OSTimeTick, ecb
<1>4. \A t \in Task : dly[t] \in Nat /\ stat[t] \subseteq {"sem", "suspend"}
    BY KernelAssumption DEF TypeOK
<1>5. \A t \in Task : /\ t \in expired => dly'[t] = 0 /\ dly[t] # 0 /\ t \in live
                      /\ t \in live /\ t \notin expired => (dly'[t] = 0 <=> dly[t] = 0)
    BY <1>1, <1>4
<1> HIDE DEF expired
<1>6. ReadyIsStatus'
    <2> SUFFICES ASSUME NEW t \in Task
                 PROVE  t \in rdy' <=> t \in live' /\ stat'[t] = {} /\ dly'[t] = 0 /\ pc'[t] # "del"
        BY DEF ReadyIsStatus
    <2>1. t \in rdy <=> t \in live /\ stat[t] = {} /\ dly[t] = 0 /\ pc[t] # "del"
        BY DEF Tables, ReadyIsStatus
    <2>2. CASE t \in expired
        <3>1. dly'[t] = 0 /\ t \notin rdy /\ t \in live /\ pc[t] # "del"
            BY <1>5, <2>1, <2>2 DEF DelHolds
        <3>2. stat'[t] = stat[t] \ {"sem"} /\ stat[t] \subseteq {"sem", "suspend"}
            BY <1>2, <1>4, <2>2
        <3>3. stat'[t] = {} <=> "suspend" \notin stat[t]
            BY <3>2
        <3> QED
            BY <1>2, <1>3, <2>2, <3>1, <3>3
    <2>3. CASE t \notin expired
        BY <1>2, <1>3, <1>5, <2>1, <2>3
    <2> QED
        BY <2>2, <2>3
<1>7. ListsExact'
    <2>1. \A t \in Task : /\ "sem" \in stat'[t] => event'[t] # None /\ statPend'[t] = "ok"
                          /\ event'[t] # None => t \in live' /\ pc'[t] = "pend"
        BY <1>2, <1>3 DEF Tables, ListsExact
    <2> QED
        BY <1>3, <2>1 DEF Tables, ListsExact
<1>8. PcLive'
    BY <1>3 DEF Tables, PcLive
<1>9. TimedOut'
    <2> SUFFICES ASSUME NEW t \in Task, event'[t] # None, "sem" \notin stat'[t]
                 PROVE  dly'[t] = 0 /\ statPend'[t] = "to"
        BY DEF TimedOut
    <2>1. CASE t \in expired
        <3>1. "sem" \in stat[t]
            BY <1>3, <1>5, <2>1 DEF Tables, TimedOut
        <3> QED
            BY <1>2, <1>5, <2>1, <3>1
    <2>2. CASE t \notin expired
        <3>1. dly[t] = 0 /\ statPend[t] = "to" /\ t \in live
            BY <1>2, <1>3, <2>2 DEF Tables, TimedOut, ListsExact
        <3> QED
            BY <1>2, <1>5, <2>2, <3>1
    <2> QED
        BY <2>1, <2>2
<1> QED
    BY <1>6, <1>7, <1>8, <1>9 DEF Tables

LEMMA ConsoleTables ==
    ASSUME TypeOK, Tables, DelHolds, NEW t \in Task
    PROVE  /\ OSTaskSuspend(t) => Tables'
           /\ OSTaskResume(t) => Tables'
<1>1. stat[t] \subseteq {"sem", "suspend"}
    BY DEF TypeOK
<1>2. ASSUME OSTaskSuspend(t) PROVE Tables'
    <2>1. /\ stat'[t] = stat[t] \cup {"suspend"} /\ t \notin rdy'
          /\ \A u \in Task \ {t} : stat'[u] = stat[u] /\ (u \in rdy' <=> u \in rdy)
          /\ UNCHANGED <<live, statPend, dly, event, wait, cnt, used, pc>>
        BY <1>2 DEF OSTaskSuspend, ecb, TypeOK
    <2>2. ReadyIsStatus'
        BY <2>1 DEF Tables, ReadyIsStatus
    <2>3. \A u \in Task : "sem" \in stat'[u] <=> "sem" \in stat[u]
        BY <2>1
    <2>4. ListsExact' /\ PcLive' /\ TimedOut'
        BY <2>1, <2>3 DEF Tables, ListsExact, PcLive, TimedOut
    <2> QED
        BY <2>2, <2>4 DEF Tables
<1>3. ASSUME OSTaskResume(t) PROVE Tables'
    <2>1. pc[t] # "del"
        BY <1>3 DEF OSTaskResume, Command, DelHolds
    <2>2. /\ stat'[t] = stat[t] \ {"suspend"}
          /\ \A u \in Task \ {t} : stat'[u] = stat[u] /\ (u \in rdy' <=> u \in rdy)
          /\ t \in rdy' <=> t \in rdy \/ ("sem" \notin stat[t] /\ dly[t] = 0)
          /\ t \in live /\ "suspend" \in stat[t]
          /\ UNCHANGED <<live, statPend, dly, event, wait, cnt, used, pc>>
        BY <1>3 DEF OSTaskResume, ecb, TypeOK
    <2>3. stat'[t] = {} <=> "sem" \notin stat[t]
        BY <1>1, <2>2
    <2>4. t \notin rdy
        BY <2>2 DEF Tables, ReadyIsStatus
    <2>5. ReadyIsStatus'
        BY <2>1, <2>2, <2>3, <2>4 DEF Tables, ReadyIsStatus
    <2>6. \A u \in Task : "sem" \in stat'[u] <=> "sem" \in stat[u]
        BY <2>2
    <2>7. ListsExact' /\ PcLive' /\ TimedOut'
        BY <2>2, <2>6 DEF Tables, ListsExact, PcLive, TimedOut
    <2> QED
        BY <2>5, <2>7 DEF Tables
<1> QED
    BY <1>2, <1>3

LEMMA SwitchTables ==
    ASSUME TypeOK, Tables, HeirWaits, PendSV_Handler
    PROVE  Tables'
<1>1. UNCHANGED <<live, stat, statPend, dly, event, rdy, wait, cnt, used>>
    BY DEF PendSV_Handler, tcb, ecb
<1>2. \A t \in Task : pc'[t] = IF t = heir THEN "gone"
                               ELSE IF t = cur /\ t \notin live THEN "off" ELSE pc[t]
    BY DEF PendSV_Handler
<1>3. heir \in Task => heir \in live /\ pc[heir] = "run"
    BY Numbers DEF HeirWaits
<1>4. \A t \in Task : /\ pc'[t] = pc[t] \/ pc'[t] \in {"gone", "off"}
                      /\ event[t] # None => pc'[t] = pc[t]
                      /\ t \in live => (pc'[t] = "del" <=> pc[t] = "del")
    BY <1>2, <1>3 DEF Tables, ListsExact
<1>5. ReadyIsStatus'
    BY <1>1, <1>4 DEF Tables, ReadyIsStatus
<1>6. ListsExact' /\ PcLive' /\ TimedOut'
    BY <1>1, <1>4 DEF Tables, ListsExact, PcLive, TimedOut
<1> QED
    BY <1>5, <1>6 DEF Tables

\* Every step leaves the tables in order.
LEMMA TablesNext ==
    ASSUME TypeOK, Tables, HeirWaits, DelHolds, Decided, [Next]_vars
    PROVE  Tables'
<1>1. CASE TaskStep
    <2>1. CASE Reschedules
        BY <2>1 DEF Reschedules, tcb, ecb, Tables, ReadyIsStatus, ListsExact, PcLive, TimedOut
    <2>2. ASSUME NEW t \in Task,
                 \/ PendReturns(t) \/ OSTaskDel(t) \/ DelFrees(t)
                 \/ \E e \in Event : \/ OSSemPost(t, e) \/ OSSemDel(t, e) \/ OSSemCreate(t, e)
                                     \/ \E n \in 0..MaxDly : OSSemPend(t, e, n)
                 \/ \E n \in 1..MaxDly : OSTimeDly(t, n)
                 \/ \E u \in Mortal : OSTaskCreate(t, u)
          PROVE  Tables'
        <3>1. CASE PendReturns(t)
            BY <3>1, PendReturnsTables
        <3>2. CASE OSTaskDel(t)
            BY <3>2, DelTables
        <3>3. CASE DelFrees(t)
            BY <3>3, FreesTables
        <3>4. CASE \E e \in Event : OSSemPost(t, e) \/ OSSemDel(t, e) \/ OSSemCreate(t, e)
            BY <3>4, SemsTables
        <3>5. CASE \E e \in Event : \E n \in 0..MaxDly : OSSemPend(t, e, n)
            BY <3>5, PendsTables
        <3>6. CASE \E n \in 1..MaxDly : OSTimeDly(t, n)
            BY <3>6, DelaysTables
        <3>7. CASE \E u \in Mortal : OSTaskCreate(t, u)
            BY <3>7, CreatesTables, KernelAssumption DEF OSTaskCreate
        <3> QED
            BY <2>2, <3>1, <3>2, <3>3, <3>4, <3>5, <3>6, <3>7
    <2> QED
        BY <1>1, <2>1, <2>2 DEF TaskStep
<1>2. CASE PendSV_Handler
    BY <1>2, SwitchTables
<1>3. CASE OSTimeTick
    BY <1>3, TickTables
<1>4. CASE \E e \in Event : ETH_IRQHandler(e)
    BY <1>4, PostsTables DEF ETH_IRQHandler
<1>5. CASE Console
    BY <1>5, ConsoleTables, CreatesTables DEF Console, ConsoleCreates
<1>6. CASE Tim4Enters \/ Tim4Leaves \/ UNCHANGED vars
    BY <1>6 DEF Tim4Enters, Tim4Leaves, vars, tcb, ecb, Tables, ReadyIsStatus, ListsExact,
                PcLive, TimedOut
<1> QED
    BY <1>1, <1>2, <1>3, <1>4, <1>5, <1>6 DEF Next

-----------------------------------------------------------------------------
(* Decisions                                                               *)

Choices == HeirWaits /\ DelHolds /\ Decided /\ ScanAlone

LEMMA HighestOnly ==
    ASSUME NEW S \in SUBSET (Task \cup {Idle}), NEW x \in S, \A u \in S : x <= u
    PROVE  Highest(S) = x
<1>1. Highest(S) \in S /\ Highest(S) <= x
    BY HighestIs
<1>2. x <= Highest(S)
    BY <1>1
<1>3. x \in Nat /\ Highest(S) \in Nat
    BY <1>1, Numbers
<1> QED
    BY <1>1, <1>2, <1>3

LEMMA ChoicesInit == Init => Choices
<1> SUFFICES ASSUME Init PROVE Choices
    OBVIOUS
<1>1. HeirWaits
    BY DEF Init, HeirWaits, NoTask
<1>2. DelHolds
    BY DEF Init, DelHolds
<1>3. Decided /\ ScanAlone
    BY DEF Init, Decided, ScanAlone
<1> QED
    BY <1>1, <1>2, <1>3 DEF Choices

\* A task that executes its own code is not inside OSTaskDel.
LEMMA WhoRunsIsAlone ==
    ASSUME Choices, NEW t \in Task, NEW l \in {"run", "pend", "gone"}, Code(t, l)
    PROVE  /\ heir = NoTask /\ ~Locked /\ cur = Highest(rdy)
           /\ \A u \in Task : pc[u] # "del"
BY DEF Code, Locked, Choices, HeirWaits, DelHolds, Decided

\* The call of a task that leaves the ready list alone, or is to call OS_Sched.
LEMMA LeavesChoices ==
    ASSUME Choices, NEW t \in Task, NEW l \in {"run", "pend", "gone"}, Code(t, l),
           NEW d \in BOOLEAN, Leaves(d), d \/ rdy' = rdy,
           \A u \in Task : pc'[u] # "del"
    PROVE  Choices'
<1>1. heir' = NoTask /\ cur' = cur /\ ~pendsv' /\ due' = d /\ tim4' = "off"
    BY WhoRunsIsAlone DEF Leaves, Code, sched
<1>2. HeirWaits' /\ DelHolds' /\ ScanAlone'
    BY <1>1 DEF HeirWaits, DelHolds, ScanAlone
<1>3. Decided'
    BY <1>1, WhoRunsIsAlone DEF Decided
<1> QED
    BY <1>2, <1>3 DEF Choices

\* The wait lists do not tell of the locked scheduler.
LEMMA PostsKeep ==
    ASSUME TypeOK, NEW e \in Event, Posts(e)
    PROVE  /\ UNCHANGED <<live, pc>>
           /\ wait[e] = {} => rdy' = rdy
           /\ \A u \in Task : /\ dly[u] = 0 => dly'[u] = 0
                              /\ "suspend" \in stat'[u] => "suspend" \in stat[u]
<1>1. CASE wait[e] = {}
    BY <1>1 DEF Posts
<1>2. CASE wait[e] # {}
    BY <1>2 DEF Posts, Wakes
<1> QED
    BY <1>1, <1>2

LEMMA CallsChoices ==
    ASSUME TypeOK, Tables, Choices, NEW t \in Task
    PROVE  /\ PendReturns(t) => Choices'
           /\ \A e \in Event : /\ OSSemPost(t, e) => Choices'
                               /\ OSSemDel(t, e) => Choices'
                               /\ OSSemCreate(t, e) => Choices'
                               /\ \A n \in 0..MaxDly : OSSemPend(t, e, n) => Choices'
           /\ \A n \in 1..MaxDly : OSTimeDly(t, n) => Choices'
<1>1. ASSUME PendReturns(t) PROVE Choices'
    <2>1. \A u \in Task : pc'[u] # "del"
        BY <1>1, WhoRunsIsAlone DEF PendReturns, TypeOK
    <2> QED
        BY <1>1, <2>1, LeavesChoices DEF PendReturns
<1>2. ASSUME NEW e \in Event, OSSemPost(t, e) PROVE Choices'
    <2>1. \A u \in Task : pc'[u] # "del"
        BY <1>2, WhoRunsIsAlone, PostsKeep DEF OSSemPost
    <2>2. (wait[e] # {}) \/ rdy' = rdy
        BY <1>2, PostsKeep DEF OSSemPost
    <2> QED
        BY <1>2, <2>1, <2>2, LeavesChoices DEF OSSemPost
<1>3. ASSUME NEW e \in Event, OSSemDel(t, e) PROVE Choices'
    <2>1. \A u \in Task : pc'[u] # "del"
        BY <1>3, WhoRunsIsAlone DEF OSSemDel
    <2>2. (wait[e] # {}) \/ rdy' = rdy
        BY <1>3 DEF OSSemDel, Wakes
    <2> QED
        BY <1>3, <2>1, <2>2, LeavesChoices DEF OSSemDel
<1>4. ASSUME NEW e \in Event, OSSemCreate(t, e) PROVE Choices'
    <2>1. \A u \in Task : pc'[u] # "del"
        BY <1>4, WhoRunsIsAlone DEF OSSemCreate
    <2> QED
        BY <1>4, <2>1, LeavesChoices DEF OSSemCreate
<1>5. ASSUME NEW e \in Event, NEW n \in 0..MaxDly, OSSemPend(t, e, n) PROVE Choices'
    <2>1. \A u \in Task : pc'[u] # "del"
        BY <1>5, WhoRunsIsAlone DEF OSSemPend, TypeOK
    <2>2. PICK d \in BOOLEAN : Leaves(d) /\ (d \/ rdy' = rdy)
        BY <1>5 DEF OSSemPend
    <2> QED
        BY <1>5, <2>1, <2>2, LeavesChoices DEF OSSemPend
<1>6. ASSUME NEW n \in 1..MaxDly, OSTimeDly(t, n) PROVE Choices'
    <2>1. \A u \in Task : pc'[u] # "del"
        BY <1>6, WhoRunsIsAlone DEF OSTimeDly
    <2> QED
        BY <1>6, <2>1, LeavesChoices DEF OSTimeDly
<1> QED
    BY <1>1, <1>2, <1>3, <1>4, <1>5, <1>6

LEMMA EndsChoices ==
    ASSUME TypeOK, Tables, Choices, NEW t \in Task
    PROVE  /\ OSTaskDel(t) => Choices'
           /\ DelFrees(t) => Choices'
           /\ \A u \in Mortal : OSTaskCreate(t, u) => Choices'
<1>1. ASSUME OSTaskDel(t) PROVE Choices'
    <2>1. PICK l \in {"run", "gone"} : Code(t, l)
        BY <1>1 DEF OSTaskDel
    <2>2. heir' = NoTask /\ cur' = t /\ ~pendsv' /\ ~due' /\ tim4' = "off"
        BY <1>1, <2>1, WhoRunsIsAlone DEF OSTaskDel, Leaves, Code, sched
    <2>3. /\ pc'[t] = "del" /\ stat'[t] = {} /\ dly'[t] = 0
          /\ \A u \in Task \ {t} : pc'[u] # "del"
        BY <1>1, <2>1, WhoRunsIsAlone DEF OSTaskDel, TypeOK
    <2>4. HeirWaits' /\ DelHolds' /\ ScanAlone'
        BY <2>2, <2>3 DEF HeirWaits, DelHolds, ScanAlone
    <2>5. Decided'
        BY <2>2, <2>3 DEF Decided, Locked
    <2> QED
        BY <2>4, <2>5 DEF Choices
<1>2. ASSUME DelFrees(t) PROVE Choices'
    <2>1. heir = NoTask /\ cur = t /\ \A u \in Task : pc[u] = "del" => u = t
        BY <1>2 DEF DelFrees, Code, Choices, HeirWaits, DelHolds
    <2>2. heir' = NoTask /\ cur' = t /\ ~pendsv' /\ due' /\ tim4' = "off"
        BY <1>2, <2>1 DEF DelFrees, Leaves, Code, sched
    <2>3. \A u \in Task : pc'[u] # "del"
        BY <1>2, <2>1 DEF DelFrees, TypeOK
    <2> QED
        BY <2>2, <2>3 DEF Choices, HeirWaits, DelHolds, Decided, ScanAlone
<1>3. ASSUME NEW u \in Mortal, OSTaskCreate(t, u) PROVE Choices'
    <2>1. heir = NoTask /\ (\A w \in Task : pc[w] # "del")
        BY <1>3, WhoRunsIsAlone DEF OSTaskCreate
    <2>2. cur = t /\ t \in live /\ ~pendsv
        BY <1>3 DEF OSTaskCreate, Code, Tables, PcLive
    <2>3. heir' = NoTask /\ cur' = t /\ ~pendsv' /\ due' /\ tim4' = "off"
        BY <1>3, <2>1, <2>2 DEF OSTaskCreate, Creates, sched
    <2>4. \A w \in Task : pc'[w] # "del"
        BY <1>3, <2>1 DEF OSTaskCreate, Creates, TypeOK
    <2> QED
        BY <2>3, <2>4 DEF Choices, HeirWaits, DelHolds, Decided, ScanAlone
<1> QED
    BY <1>1, <1>2, <1>3

\* Where OS_Sched is called the decision is up to date afterwards.
LEMMA SchedDecides ==
    ASSUME Choices, Sched(rdy'), Locked' <=> Locked, UNCHANGED cur
    PROVE  /\ Decided' /\ (pendsv => pendsv')
           /\ Locked => pendsv' = pendsv
<1>1. CASE Locked
    BY <1>1 DEF Sched, sched, Decided
<1>2. CASE ~Locked
    BY <1>2 DEF Sched, Decided
<1> QED
    BY <1>1, <1>2

\* A tick, or a frame.
LEMMA InterruptChoices ==
    ASSUME TypeOK, Choices, Interrupted, Sched(rdy'), UNCHANGED <<live, pc, cur, due, heir, use>>,
           tim4' = tim4 \/ (tim4' = "off" /\ ~Locked),
           \A u \in Task : /\ dly[u] = 0 => dly'[u] = 0
                           /\ "suspend" \in stat'[u] => "suspend" \in stat[u]
    PROVE  Choices'
<1>1. Locked' <=> Locked
    BY DEF Locked
<1>2. Decided' /\ (pendsv => pendsv') /\ (Locked => pendsv' = pendsv)
    BY <1>1, SchedDecides
<1>3. HeirWaits'
    BY <1>2 DEF Choices, HeirWaits
<1>4. DelHolds'
    <2> SUFFICES ASSUME NEW t \in Task, pc'[t] = "del"
                 PROVE  /\ cur' = t /\ ~pendsv' /\ ~due' /\ dly'[t] = 0
                        /\ "suspend" \in stat'[t] => tim4' \in {"done", "rest"}
        BY DEF DelHolds
    <2>1. /\ cur = t /\ ~pendsv /\ ~due /\ dly[t] = 0
          /\ "suspend" \in stat[t] => tim4 \in {"done", "rest"}
        BY DEF Choices, DelHolds
    <2>2. Locked
        BY <2>1 DEF Locked
    <2> QED
        BY <1>2, <2>1, <2>2
<1>5. ScanAlone'
    BY DEF Interrupted, ScanAlone
<1> QED
    BY <1>2, <1>3, <1>4, <1>5 DEF Choices

LEMMA TickChoices ==
    ASSUME TypeOK, Choices, OSTimeTick
    PROVE  Choices'
<1>1. \A u \in Task : dly[u] = 0 => dly'[u] = 0
    BY DEF OSTimeTick
<1>2. \A u \in Task : "suspend" \in stat'[u] => "suspend" \in stat[u]
    BY DEF OSTimeTick
<1>3. /\ Interrupted /\ Sched(rdy') /\ UNCHANGED <<live, pc, cur, due, heir, use>>
      /\ tim4' = tim4 \/ (tim4' = "off" /\ ~Locked)
    BY DEF OSTimeTick
<1> QED
    BY <1>1, <1>2, <1>3, InterruptChoices

LEMMA EthChoices ==
    ASSUME TypeOK, Choices, NEW e \in Event, ETH_IRQHandler(e)
    PROVE  Choices'
BY PostsKeep, InterruptChoices DEF ETH_IRQHandler

LEMMA SwitchChoices ==
    ASSUME TypeOK, Choices
    PROVE  /\ Reschedules => Choices'
           /\ PendSV_Handler => Choices'
           /\ Tim4Enters => Choices'
           /\ Tim4Leaves => Choices'
<1>1. ASSUME Reschedules PROVE Choices'
    <2>1. heir = NoTask /\ \A u \in Task : pc[u] # "del"
        BY <1>1 DEF Reschedules, Choices, HeirWaits, DelHolds
    <2>2. heir' = NoTask /\ tim4' = "off" /\ cur' = cur /\ pc' = pc /\ rdy' = rdy
        BY <1>1, <2>1 DEF Reschedules
    <2>3. Decided'
        BY <1>1, <2>2, SchedDecides DEF Reschedules, Locked
    <2> QED
        BY <2>1, <2>2, <2>3 DEF Choices, HeirWaits, DelHolds, ScanAlone
<1>2. ASSUME PendSV_Handler PROVE Choices'
    <2>1. \A u \in Task : pc[u] # "del"
        BY <1>2 DEF PendSV_Handler, Choices, DelHolds
    <2>2. high = Highest(rdy)
        BY <1>2, <2>1 DEF PendSV_Handler, Choices, Decided, Locked
    <2>3. heir' = NoTask /\ tim4' = "off" /\ cur' = high /\ ~pendsv' /\ ~due' /\ rdy' = rdy
        BY <1>2 DEF PendSV_Handler
    <2>4. \A u \in Task : pc'[u] # "del"
        BY <1>2, <2>1 DEF PendSV_Handler
    <2> QED
        BY <2>2, <2>3, <2>4 DEF Choices, HeirWaits, DelHolds, Decided, ScanAlone
<1>3. ASSUME Tim4Enters PROVE Choices'
    <2>1. /\ UNCHANGED <<live, stat, dly, rdy, pc, cur, high, pendsv, due, heir, use>>
          /\ ~pendsv /\ tim4 = "off"
        BY <1>3 DEF Tim4Enters, tcb, sched
    <2>2. HeirWaits' /\ ScanAlone'
        BY <2>1 DEF Choices, HeirWaits, ScanAlone
    <2>3. DelHolds'
        BY <2>1 DEF Choices, DelHolds
    <2>4. Decided'
        BY <2>1 DEF Choices, Decided, Locked
    <2> QED
        BY <2>2, <2>3, <2>4 DEF Choices
<1>4. ASSUME Tim4Leaves PROVE Choices'
    <2>1. /\ UNCHANGED <<live, stat, dly, rdy, pc, cur, high, pendsv, due, heir, use>>
          /\ tim4' = "rest"
        BY <1>4 DEF Tim4Leaves, tcb, sched
    <2>2. HeirWaits' /\ DelHolds' /\ ScanAlone'
        BY <2>1 DEF Choices, HeirWaits, DelHolds, ScanAlone
    <2>3. Decided'
        BY <2>1 DEF Choices, Decided, Locked
    <2> QED
        BY <2>2, <2>3 DEF Choices
<1> QED
    BY <1>1, <1>2, <1>3, <1>4

\* A suspension finds no switch pending, unless other interrupts come while the
\* command is read: the task that runs stays the most urgent one, or is told.
LEMMA ConsoleChoices ==
    ASSUME NoPreemptedPause, TypeOK, Tables, Choices, NEW t \in Task
    PROVE  /\ OSTaskSuspend(t) => Choices'
           /\ OSTaskResume(t) => Choices'
           /\ ConsoleCreates(t) => Choices'
<1>1. ASSUME OSTaskSuspend(t) \/ OSTaskResume(t) PROVE Choices'
    <2>1. /\ Command("pause") /\ UNCHANGED <<live, dly, pc, heir>>
          /\ tim4' = "done" /\ cur' = cur /\ due' = due /\ use' = use
        BY <1>1 DEF OSTaskSuspend, OSTaskResume, Command
    <2>2. ~pendsv /\ heir = NoTask
        <3>1. "preempt" \notin use
            BY <2>1 DEF Command, NoPreemptedPause, TypeOK
        <3> QED
            BY <2>1, <3>1 DEF Command, Choices, ScanAlone, HeirWaits
    <2>3. Locked' <=> Locked
        BY <2>1 DEF Locked
    <2>4. Decided' /\ (Locked => ~pendsv')
        <3>1. CASE Sched(rdy')
            BY <2>1, <2>2, <2>3, <3>1, SchedDecides
        <3>2. CASE UNCHANGED <<rdy, sched>>
            BY <2>1, <2>2, <2>3, <3>2 DEF sched, Choices, Decided
        <3>3. CASE OSTaskSuspend(t) /\ t # cur
            <4>1. rdy' = rdy \ {t} /\ high' = high /\ pendsv' = pendsv
                BY <3>3 DEF OSTaskSuspend, sched
            <4>2. ASSUME ~Locked, ~due PROVE cur = Highest(rdy')
                <5>1. cur = Highest(rdy)
                    BY <2>2, <4>2 DEF Choices, Decided
                <5>2. cur \in rdy /\ \A u \in rdy : cur <= u
                    BY <5>1, HighestIs DEF TypeOK
                <5>3. cur \in rdy' /\ \A u \in rdy' : cur <= u
                    BY <3>3, <4>1, <5>2
                <5> QED
                    BY <4>1, <5>3, HighestOnly DEF TypeOK
            <4> QED
                BY <2>1, <2>2, <2>3, <4>1, <4>2 DEF Decided
        <3> QED
            BY <1>1, <3>1, <3>2, <3>3 DEF OSTaskSuspend, OSTaskResume
    <2>5. DelHolds'
        BY <2>1, <2>4 DEF Choices, DelHolds, Locked
    <2>6. HeirWaits' /\ ScanAlone'
        BY <2>1, <2>2 DEF HeirWaits, ScanAlone
    <2> QED
        BY <2>4, <2>5, <2>6 DEF Choices
<1>2. ASSUME ConsoleCreates(t) PROVE Choices'
    <2>1. /\ Creates(t) /\ Sched(rdy') /\ heir = NoTask
          /\ tim4' = "done" /\ cur' = cur /\ due' = due /\ use' = use
        BY <1>2 DEF ConsoleCreates, Command, Choices, HeirWaits
    <2>2. t \notin live /\ pc[t] # "del"
        BY <2>1 DEF Creates, Tables, PcLive
    <2>3. /\ pc'[t] # "del" /\ (t # cur => pc'[t] = "run")
          /\ \A u \in Task \ {t} : pc'[u] = pc[u] /\ dly'[u] = dly[u] /\ stat'[u] = stat[u]
          /\ t = cur => pc' = pc
          /\ rdy' = rdy \cup {t} /\ live' = live \cup {t}
        BY <2>1, <2>2 DEF Creates, TypeOK
    <2>4. Locked' <=> Locked
        BY <2>1, <2>3 DEF Locked
    <2>5. Decided' /\ (Locked => pendsv' = pendsv)
        BY <2>1, <2>4, SchedDecides
    <2>6. DelHolds'
        BY <2>1, <2>3, <2>5 DEF Choices, DelHolds, Locked
    <2>7. HeirWaits'
        <3>1. CASE t # cur /\ cur \in Task \ live
            <4>1. cur \notin rdy' /\ ~Locked
                BY <2>3, <3>1 DEF Tables, ReadyIsStatus, PcLive, Locked
            <4>2. Highest(rdy') \in rdy'
                <5>1. rdy' \subseteq Task \cup {Idle} /\ rdy' # {}
                    BY <2>3 DEF TypeOK
                <5> QED
                    BY <5>1, HighestIs
            <4>3. pendsv'
                BY <2>1, <4>1, <4>2 DEF Sched
            <4>4. heir' = t /\ cur \notin live'
                BY <2>1, <2>3, <3>1 DEF Creates
            <4> QED
                BY <2>1, <2>3, <3>1, <4>3, <4>4 DEF HeirWaits
        <3>2. CASE ~(t # cur /\ cur \in Task \ live)
            <4>1. heir' = NoTask
                BY <2>1, <3>2 DEF Creates
            <4> QED
                BY <4>1 DEF HeirWaits
        <3> QED
            BY <3>1, <3>2
    <2>8. ScanAlone'
        BY <2>1 DEF ScanAlone
    <2> QED
        BY <2>5, <2>6, <2>7, <2>8 DEF Choices
<1> QED
    BY <1>1, <1>2

\* Every step keeps the whole invariant.
LEMMA InvNext ==
    ASSUME NoPreemptedPause, IInv, [Next]_vars
    PROVE  IInv'
<1> USE DEF IInv
<1>1. TypeOK /\ Tables /\ Choices
    BY DEF Tables, Choices
<1>2. TypeOK'
    BY TypeNext
<1>3. Tables'
    BY <1>1, TablesNext
<1>4. Choices'
    <2>1. CASE TaskStep
        <3>1. CASE Reschedules
            BY <1>1, <3>1, SwitchChoices
        <3>2. ASSUME NEW t \in Task,
                     \/ PendReturns(t) \/ OSTaskDel(t) \/ DelFrees(t)
                     \/ \E e \in Event : \/ OSSemPost(t, e) \/ OSSemDel(t, e) \/ OSSemCreate(t, e)
                                         \/ \E n \in 0..MaxDly : OSSemPend(t, e, n)
                     \/ \E n \in 1..MaxDly : OSTimeDly(t, n)
                     \/ \E u \in Mortal : OSTaskCreate(t, u)
              PROVE  Choices'
            BY <1>1, <3>2, CallsChoices, EndsChoices
        <3> QED
            BY <2>1, <3>1, <3>2 DEF TaskStep
    <2>2. CASE PendSV_Handler \/ Tim4Enters \/ Tim4Leaves
        BY <1>1, <2>2, SwitchChoices
    <2>3. CASE OSTimeTick
        BY <1>1, <2>3, TickChoices
    <2>4. CASE \E e \in Event : ETH_IRQHandler(e)
        BY <1>1, <2>4, EthChoices
    <2>5. CASE Console
        BY <1>1, <2>5, ConsoleChoices DEF Console
    <2>6. CASE UNCHANGED vars
        BY <1>1, <2>6 DEF vars, tcb, sched, Choices, HeirWaits, DelHolds, Decided, ScanAlone,
                          Locked
    <2> QED
        BY <2>1, <2>2, <2>3, <2>4, <2>5, <2>6 DEF Next
<1> QED
    BY <1>2, <1>3, <1>4 DEF Tables, Choices

\* The invariant holds unless the console suspends a task while interrupts come
\* in between.
THEOREM Invariant == NoPreemptedPause => (Spec => []IInv)
<1> SUFFICES ASSUME NoPreemptedPause PROVE Spec => []IInv
    OBVIOUS
<1>1. Init => IInv
    BY TypeInit, TablesInit, ChoicesInit DEF IInv, Tables, Choices
<1>2. IInv /\ [Next]_vars => IInv'
    BY InvNext
<1> QED
    BY <1>1, <1>2, PTL DEF Spec

\* The ready list, the status of every task and the wait lists tell the same,
\* whatever a post, a tick, a deletion and the console do in between.
THEOREM TablesInOrder == NoPreemptedPause => (Spec => []TablesAgree)
<1>1. IInv => TablesAgree
    BY DEF IInv, TablesAgree
<1> QED
    BY <1>1, Invariant, PTL

\* Once OS_Sched has been called the processor executes the most urgent ready
\* task, or PendSV is about to switch to it.
THEOREM MostUrgentRuns == NoPreemptedPause => (Spec => []RunsHighest)
<1>1. IInv => RunsHighest
    BY DEF IInv, RunsHighest, Decided, TypeOK
<1> QED
    BY <1>1, Invariant, PTL

\* A suspended task does not run until it is resumed.
THEOREM PausedRests == NoPreemptedPause => (Spec => []SuspendedRests)
<1>1. IInv => SuspendedRests
    <2> SUFFICES ASSUME IInv, NEW t \in Suspendable, Code(t, "pend") \/ Code(t, "run")
                 PROVE  "suspend" \notin stat[t]
        BY DEF SuspendedRests
    <2>1. t \in Task
        BY KernelAssumption
    <2>2. t \in rdy
        BY <2>1, WhoRunsIsReady DEF IInv, Tables
    <2> QED
        BY <2>1, <2>2 DEF IInv, ReadyIsStatus
<1> QED
    BY <1>1, Invariant, PTL

-----------------------------------------------------------------------------
(* Semaphores                                                              *)

\* Who has left the wait list and has not returned yet was granted a permit or
\* turned away, and no tick can change that.
Answered ==
    \A t \in Task : pc[t] = "pend" /\ event[t] = None => dly[t] = 0 /\ statPend[t] # "to"

LEMMA SeenIs ==
    ASSUME NEW t \in Task
    PROVE  Seen[t] = IF event[t] # None THEN "waits"
                     ELSE IF pc[t] # "pend" THEN "out"
                     ELSE IF statPend[t] = "ok" THEN "granted"
                     ELSE IF statPend[t] = "abort" THEN "aborted" ELSE "lost"
BY DEF Seen

LEMMA SeenIsNext ==
    ASSUME NEW t \in Task
    PROVE  Seen'[t] = IF event'[t] # None THEN "waits"
                      ELSE IF pc'[t] # "pend" THEN "out"
                      ELSE IF statPend'[t] = "ok" THEN "granted"
                      ELSE IF statPend'[t] = "abort" THEN "aborted" ELSE "lost"
BY DEF Seen

LEMMA SeenFun == Seen = [t \in Task |-> Seen[t]] /\ Seen' = [t \in Task |-> Seen'[t]]
BY DEF Seen

LEMMA WaitersAre ==
    ASSUME IInv, NEW e \in Event
    PROVE  Permits!Waiters(e) = wait[e]
<1>1. wait[e] = {t \in Task : event[t] = e}
    BY DEF IInv, ListsExact
<1>2. \A t \in Task : event[t] = e => Seen[t] = "waits"
    BY SeenIs, KernelAssumption
<1> QED
    BY <1>1, <1>2 DEF Permits!Waiters

\* What tasks see does not change, nor do the counts.
LEMMA Stutters ==
    ASSUME cnt' = cnt, event' = event, \A t \in Task : Seen'[t] = Seen[t]
    PROVE  UNCHANGED Permits!svars
BY SeenFun DEF Permits!svars

LEMMA PostsPermits ==
    ASSUME IInv, Answered, NEW e \in Event, Posts(e)
    PROVE  (Permits!SNext \/ UNCHANGED Permits!svars) /\ Answered'
<1>1. CASE wait[e] # {}
    <2> DEFINE w == Highest(wait[e])
    <2>1. w \in wait[e] /\ w \in Task /\ \A u \in wait[e] : w <= u
        BY <1>1, HighestIs DEF IInv, TypeOK
    <2>2. event[w] = e /\ pc[w] = "pend"
        BY <2>1, KernelAssumption DEF IInv, ListsExact
    <2> HIDE DEF w
    <2>3. Wakes(e, {w}, "ok") /\ UNCHANGED <<live, pc, cnt, used>>
        BY <1>1 DEF Posts, w
    <2>4. /\ event'[w] = None /\ statPend'[w] = "ok" /\ dly'[w] = 0
          /\ \A u \in Task \ {w} : event'[u] = event[u] /\ statPend'[u] = statPend[u]
                                   /\ dly'[u] = dly[u]
        BY <2>1, <2>3 DEF Wakes
    <2>5. Answered'
        BY <2>3, <2>4 DEF Answered
    <2>6. event' = [event EXCEPT ![w] = None]
        BY <2>1, <2>3, <2>4 DEF Wakes, IInv, TypeOK
    <2>7. Seen' = [Seen EXCEPT ![w] = "granted"]
        <3>1. Seen'[w] = "granted"
            BY <2>1, <2>2, <2>3, <2>4, SeenIsNext
        <3>2. \A u \in Task \ {w} : Seen'[u] = Seen[u]
            BY <2>3, <2>4, SeenIs, SeenIsNext
        <3> QED
            BY <2>1, <3>1, <3>2, SeenFun
    <2>8. Permits!Grants(e, w)
        BY <2>1, <2>3, <2>6, <2>7, WaitersAre DEF Permits!Grants
    <2> QED
        BY <2>1, <2>5, <2>8 DEF Permits!SNext
<1>2. CASE wait[e] = {}
    <2>1. UNCHANGED <<dly, stat, statPend, event, wait, rdy, live, used, pc>>
        BY <1>2 DEF Posts
    <2>2. Answered' /\ \A t \in Task : Seen'[t] = Seen[t]
        BY <2>1, SeenIs, SeenIsNext DEF Answered
    <2>3. Seen' = Seen
        BY <2>2, SeenFun
    <2>4. CASE cnt[e] < MaxCount
        <3>1. cnt' = [cnt EXCEPT ![e] = @ + 1]
            BY <1>2, <2>4 DEF Posts, IInv, TypeOK
        <3>2. Permits!Keeps(e)
            BY <1>2, <2>1, <2>3, <2>4, <3>1, WaitersAre DEF Permits!Keeps
        <3> QED
            BY <2>2, <3>2 DEF Permits!SNext
    <2>5. CASE ~(cnt[e] < MaxCount)
        <3>1. cnt' = cnt
            BY <1>2, <2>5 DEF Posts, IInv, TypeOK
        <3> QED
            BY <2>1, <2>2, <3>1, Stutters
    <2> QED
        BY <2>4, <2>5
<1> QED
    BY <1>1, <1>2

\* Whoever waits on the deleted semaphore is turned away.
LEMMA DelPermits ==
    ASSUME IInv, Answered, NEW t \in Task, NEW e \in Event, OSSemDel(t, e)
    PROVE  Permits!Closes(e) /\ Answered'
<1>1. Wakes(e, wait[e], "abort") /\ UNCHANGED <<live, pc>> /\ cnt' = [cnt EXCEPT ![e] = 0]
    BY DEF OSSemDel
<1>2. \A u \in wait[e] : u \in Task /\ event[u] = e /\ pc[u] = "pend" /\ e # None
    BY KernelAssumption DEF IInv, ListsExact, TypeOK
<1>3. \A u \in Task : /\ event'[u] = IF u \in wait[e] THEN None ELSE event[u]
                      /\ statPend'[u] = IF u \in wait[e] THEN "abort" ELSE statPend[u]
                      /\ dly'[u] = IF u \in wait[e] THEN 0 ELSE dly[u]
    BY <1>1 DEF Wakes
<1>4. Answered'
    BY <1>1, <1>3 DEF Answered
<1>5. event' = [u \in Task |-> IF u \in wait[e] THEN None ELSE event[u]]
    BY <1>1 DEF Wakes
<1>6. \A u \in Task : Seen'[u] = IF u \in wait[e] THEN "aborted" ELSE Seen[u]
    <2> TAKE u \in Task
    <2>1. CASE u \in wait[e]
        BY <1>1, <1>2, <1>3, <2>1, SeenIsNext
    <2>2. CASE u \notin wait[e]
        BY <1>1, <1>3, <2>2, SeenIs, SeenIsNext
    <2> QED
        BY <2>1, <2>2
<1>7. Seen' = [u \in Task |-> IF u \in wait[e] THEN "aborted" ELSE Seen[u]]
    BY <1>6, SeenFun
<1> QED
    BY <1>1, <1>4, <1>5, <1>7, WaitersAre DEF Permits!Closes

LEMMA CreatePermits ==
    ASSUME IInv, Answered, NEW t \in Task, NEW e \in Event, OSSemCreate(t, e)
    PROVE  Permits!Closes(e) /\ Answered'
<1>1. wait[e] = {}
    BY DEF IInv, ListsExact, OSSemCreate
<1>2. UNCHANGED <<live, stat, statPend, dly, event, pc>> /\ cnt' = [cnt EXCEPT ![e] = 0]
    BY DEF OSSemCreate, tcb
<1>3. Answered' /\ \A u \in Task : Seen'[u] = Seen[u]
    BY <1>2, SeenIs, SeenIsNext DEF Answered
<1>4. Seen' = [u \in Task |-> IF u \in wait[e] THEN "aborted" ELSE Seen[u]]
    BY <1>1, <1>3, SeenFun
<1>5. event' = [u \in Task |-> IF u \in wait[e] THEN None ELSE event[u]]
    BY <1>1, <1>2 DEF IInv, TypeOK
<1> QED
    BY <1>2, <1>3, <1>4, <1>5, WaitersAre DEF Permits!Closes

\* A wait begins where there is no permit; where there is one it is taken.
LEMMA PendPermits ==
    ASSUME IInv, Answered, NEW t \in Task, NEW e \in Event, NEW n \in 0..MaxDly,
           OSSemPend(t, e, n)
    PROVE  Permits!SNext /\ Answered'
<1>1. pc[t] = "run" /\ event[t] = None /\ e # None
    BY KernelAssumption DEF OSSemPend, Code, IInv, ListsExact
<1>2. CASE cnt[e] > 0
    <2>1. UNCHANGED <<stat, statPend, dly, event, wait, pc>> /\ cnt' = [cnt EXCEPT ![e] = @ - 1]
        BY <1>2 DEF OSSemPend
    <2>2. Answered' /\ \A u \in Task : Seen'[u] = Seen[u]
        BY <2>1, SeenIs, SeenIsNext DEF Answered
    <2>3. Seen' = Seen
        BY <2>2, SeenFun
    <2>4. Permits!Takes(e)
        BY <1>2, <2>1, <2>3 DEF Permits!Takes
    <2> QED
        BY <2>2, <2>4 DEF Permits!SNext
<1>3. CASE ~(cnt[e] > 0)
    <2>1. /\ statPend' = [statPend EXCEPT ![t] = "ok"]
          /\ dly' = [dly EXCEPT ![t] = n]
          /\ event' = [event EXCEPT ![t] = e]
          /\ pc' = [pc EXCEPT ![t] = "pend"]
          /\ cnt' = cnt /\ cnt[e] = 0
        BY <1>3, KernelAssumption DEF OSSemPend, IInv, TypeOK
    <2>2. /\ event'[t] = e /\ pc'[t] = "pend"
          /\ \A u \in Task \ {t} : /\ event'[u] = event[u] /\ statPend'[u] = statPend[u]
                                   /\ dly'[u] = dly[u] /\ pc'[u] = pc[u]
        BY <2>1 DEF IInv, TypeOK
    <2>3. Answered'
        BY <1>1, <2>2 DEF Answered
    <2>4. Seen[t] = "out" /\ Seen'[t] = "waits"
        BY <1>1, <2>2, SeenIs, SeenIsNext
    <2>5. \A u \in Task \ {t} : Seen'[u] = Seen[u]
        BY <2>2, SeenIs, SeenIsNext
    <2>6. Seen' = [Seen EXCEPT ![t] = "waits"]
        BY <2>4, <2>5, SeenFun
    <2>7. Permits!Waits(t, e)
        BY <2>1, <2>4, <2>6 DEF Permits!Waits
    <2> QED
        BY <2>3, <2>7 DEF Permits!SNext
<1> QED
    BY <1>2, <1>3

\* A task that returns was answered, or gives up.
LEMMA PendReturnsPermits ==
    ASSUME IInv, Answered, NEW t \in Task, PendReturns(t)
    PROVE  Permits!SNext /\ Answered'
<1>1. /\ event'[t] = None /\ pc'[t] = "run" /\ cnt' = cnt /\ dly' = dly
      /\ event' = [event EXCEPT ![t] = None]
      /\ \A u \in Task \ {t} : /\ event'[u] = event[u] /\ statPend'[u] = statPend[u]
                               /\ pc'[u] = pc[u]
    BY DEF PendReturns, IInv, TypeOK
<1>2. Answered'
    BY <1>1 DEF Answered
<1>3. Seen'[t] = "out" /\ \A u \in Task \ {t} : Seen'[u] = Seen[u]
    BY <1>1, SeenIs, SeenIsNext
<1>4. Seen' = [Seen EXCEPT ![t] = "out"]
    BY <1>3, SeenFun
<1>5. CASE event[t] # None
    <2>1. Seen[t] = "waits"
        BY <1>5, SeenIs
    <2>2. Permits!GivesUp(t)
        BY <1>1, <1>4, <2>1 DEF Permits!GivesUp
    <2> QED
        BY <1>2, <2>2 DEF Permits!SNext
<1>6. CASE event[t] = None
    <2>1. pc[t] = "pend" /\ statPend[t] \in {"ok", "abort"}
        BY <1>6 DEF PendReturns, Code, Answered, IInv, TypeOK
    <2>2. Seen[t] \in {"granted", "aborted"}
        BY <1>6, <2>1, SeenIs
    <2>3. event' = event
        BY <1>1, <1>6 DEF IInv, TypeOK
    <2>4. Permits!Returns(t)
        BY <1>1, <1>4, <2>2, <2>3 DEF Permits!Returns
    <2> QED
        BY <1>2, <2>4 DEF Permits!SNext
<1> QED
    BY <1>5, <1>6

\* Delays, ends, ticks, switches and the console: tasks see nothing of them.
LEMMA UnseenDelays ==
    ASSUME IInv, Answered, NEW t \in Task, NEW n \in 1..MaxDly, OSTimeDly(t, n)
    PROVE  UNCHANGED Permits!svars /\ Answered'
<1>1. UNCHANGED <<statPend, event, cnt, pc>> /\ pc[t] = "run"
    BY DEF OSTimeDly, ecb, Code
<1>2. \A u \in Task \ {t} : dly'[u] = dly[u]
    BY DEF OSTimeDly, IInv, TypeOK
<1>3. Answered'
    BY <1>1, <1>2 DEF Answered
<1>4. \A u \in Task : Seen'[u] = Seen[u]
    BY <1>1, SeenIs, SeenIsNext
<1> QED
    BY <1>1, <1>3, <1>4, Stutters

LEMMA UnseenLives ==
    ASSUME IInv, Answered, NEW t \in Task
    PROVE  /\ OSTaskDel(t) => UNCHANGED Permits!svars /\ Answered'
           /\ DelFrees(t) => UNCHANGED Permits!svars /\ Answered'
           /\ Creates(t) => UNCHANGED Permits!svars /\ Answered'
<1>1. ASSUME NEW q \in {"del", "gone", "run", "off"}, pc'[t] = q, pc[t] # "pend",
             event[t] = None, event'[t] = None, cnt' = cnt,
             event' \in [Task -> Event \cup {None}],
             \A u \in Task \ {t} : /\ statPend'[u] = statPend[u] /\ event'[u] = event[u]
                                   /\ dly'[u] = dly[u] /\ pc'[u] = pc[u]
      PROVE  UNCHANGED Permits!svars /\ Answered'
    <2>1. Answered'
        BY <1>1 DEF Answered
    <2>2. Seen'[t] = Seen[t]
        BY <1>1, SeenIs, SeenIsNext
    <2>3. \A u \in Task \ {t} : Seen'[u] = Seen[u]
        BY <1>1, SeenIs, SeenIsNext
    <2>4. event' = event
        BY <1>1 DEF IInv, TypeOK
    <2> QED
        BY <1>1, <2>1, <2>2, <2>3, <2>4, Stutters
<1>2. ASSUME OSTaskDel(t) PROVE UNCHANGED Permits!svars /\ Answered'
    <2>1. pc'[t] = "del" /\ pc[t] # "pend" /\ event[t] = None /\ event'[t] = None
        BY <1>2 DEF OSTaskDel, Code, IInv, TypeOK, ListsExact
    <2>2. event' \in [Task -> Event \cup {None}] /\ cnt' = cnt
        BY <1>2 DEF OSTaskDel, IInv, TypeOK
    <2>3. \A u \in Task \ {t} : /\ statPend'[u] = statPend[u] /\ event'[u] = event[u]
                                /\ dly'[u] = dly[u] /\ pc'[u] = pc[u]
        BY <1>2 DEF OSTaskDel, IInv, TypeOK
    <2> QED
        BY <1>1, <2>1, <2>2, <2>3
<1>3. ASSUME DelFrees(t) PROVE UNCHANGED Permits!svars /\ Answered'
    <2>1. pc'[t] = "gone" /\ pc[t] # "pend" /\ event[t] = None /\ event' = event
        BY <1>3 DEF DelFrees, Code, IInv, TypeOK, ListsExact
    <2>2. \A u \in Task \ {t} : statPend'[u] = statPend[u] /\ dly'[u] = dly[u] /\ pc'[u] = pc[u]
        BY <1>3 DEF DelFrees, IInv, TypeOK
    <2> QED
        BY <1>1, <1>3, <2>1, <2>2 DEF DelFrees, ecb, IInv, TypeOK
<1>4. ASSUME Creates(t) PROVE UNCHANGED Permits!svars /\ Answered'
    <2>1. t \notin live /\ event[t] = None /\ pc[t] \notin {"pend", "del"} /\ pc[t] # "run"
        BY <1>4 DEF Creates, IInv, ListsExact, PcLive
    <2>2. pc'[t] \in {"run", "off", "gone"} /\ event'[t] = None
        BY <1>4, <2>1 DEF Creates, IInv, TypeOK
    <2>3. \A u \in Task \ {t} : /\ statPend'[u] = statPend[u] /\ event'[u] = event[u]
                                /\ dly'[u] = dly[u] /\ pc'[u] = pc[u]
        BY <1>4 DEF Creates, IInv, TypeOK
    <2>4. cnt' = cnt /\ event' \in [Task -> Event \cup {None}]
        BY <1>4 DEF Creates, ecb, IInv, TypeOK
    <2> QED
        BY <1>1, <2>1, <2>2, <2>3, <2>4
<1> QED
    BY <1>2, <1>3, <1>4

LEMMA UnseenTicks ==
    ASSUME IInv, Answered, OSTimeTick
    PROVE  UNCHANGED Permits!svars /\ Answered'
<1>1. UNCHANGED <<live, event, cnt, pc>>
    BY DEF OSTimeTick, ecb
<1>2. \A t \in Task : pc[t] = "pend" /\ event[t] = None
                      => dly'[t] = 0 /\ statPend'[t] = statPend[t]
    BY DEF OSTimeTick, Answered
<1>3. Answered'
    BY <1>1, <1>2 DEF Answered
<1>4. \A t \in Task : Seen'[t] = Seen[t]
    BY <1>1, <1>2, SeenIs, SeenIsNext
<1> QED
    BY <1>1, <1>3, <1>4, Stutters

LEMMA UnseenSwitches ==
    ASSUME IInv, Answered, PendSV_Handler
    PROVE  UNCHANGED Permits!svars /\ Answered'
<1>1. UNCHANGED <<live, statPend, dly, event, cnt>>
    BY DEF PendSV_Handler, tcb, ecb
<1>2. heir \in Task => pc[heir] = "run"
    BY Numbers DEF IInv, HeirWaits
<1>3. \A t \in Task : pc'[t] = "pend" <=> pc[t] = "pend"
    BY <1>2 DEF PendSV_Handler, IInv, PcLive
<1>4. \A t \in Task : Seen'[t] = Seen[t]
    BY <1>1, <1>3, SeenIs, SeenIsNext
<1>5. Answered'
    BY <1>1, <1>3 DEF Answered
<1> QED
    BY <1>1, <1>4, <1>5, Stutters

LEMMA UnseenRest ==
    ASSUME IInv, Answered, NEW t \in Task,
           OSTaskSuspend(t) \/ OSTaskResume(t) \/ Reschedules \/ Tim4Enters \/ Tim4Leaves
           \/ UNCHANGED vars
    PROVE  UNCHANGED Permits!svars /\ Answered'
<1>1. UNCHANGED <<statPend, dly, event, cnt, pc>>
    BY DEF OSTaskSuspend, OSTaskResume, Reschedules, Tim4Enters, Tim4Leaves, vars, tcb, ecb
<1>2. \A u \in Task : Seen'[u] = Seen[u]
    BY <1>1, SeenIs, SeenIsNext
<1> QED
    BY <1>1, <1>2, Stutters DEF Answered

\* Every step is a step of Semaphores, or tasks see nothing of it.
LEMMA PermitsNext ==
    ASSUME IInv, Answered, [Next]_vars
    PROVE  [Permits!SNext]_Permits!svars /\ Answered'
<1> DEFINE Goal == (Permits!SNext \/ UNCHANGED Permits!svars) /\ Answered'
<1> SUFFICES Goal
    OBVIOUS
<1>0. 1 \in Task
    BY KernelAssumption DEF Task
<1>1. CASE TaskStep
    <2>1. CASE Reschedules
        BY <1>0, <2>1, UnseenRest
    <2>2. ASSUME NEW t \in Task,
                 \/ PendReturns(t) \/ OSTaskDel(t) \/ DelFrees(t)
                 \/ \E e \in Event : \/ OSSemPost(t, e) \/ OSSemDel(t, e) \/ OSSemCreate(t, e)
                                     \/ \E n \in 0..MaxDly : OSSemPend(t, e, n)
                 \/ \E n \in 1..MaxDly : OSTimeDly(t, n)
                 \/ \E u \in Mortal : OSTaskCreate(t, u)
          PROVE  Goal
        <3>1. CASE PendReturns(t)
            BY <3>1, PendReturnsPermits
        <3>2. CASE OSTaskDel(t) \/ DelFrees(t)
            BY <3>2, UnseenLives
        <3>3. CASE \E e \in Event : OSSemPost(t, e)
            BY <3>3, PostsPermits DEF OSSemPost
        <3>4. CASE \E e \in Event : OSSemDel(t, e) \/ OSSemCreate(t, e)
            BY <3>4, DelPermits, CreatePermits DEF Permits!SNext
        <3>5. CASE \E e \in Event : \E n \in 0..MaxDly : OSSemPend(t, e, n)
            BY <3>5, PendPermits
        <3>6. CASE \E n \in 1..MaxDly : OSTimeDly(t, n)
            BY <3>6, UnseenDelays
        <3>7. CASE \E u \in Mortal : OSTaskCreate(t, u)
            BY <3>7, UnseenLives, KernelAssumption DEF OSTaskCreate
        <3> HIDE DEF Goal
        <3> QED
            BY <2>2, <3>1, <3>2, <3>3, <3>4, <3>5, <3>6, <3>7
    <2> HIDE DEF Goal
    <2> QED
        BY <1>1, <2>1, <2>2 DEF TaskStep
<1>2. CASE PendSV_Handler
    BY <1>2, UnseenSwitches
<1>3. CASE OSTimeTick
    BY <1>3, UnseenTicks
<1>4. CASE \E e \in Event : ETH_IRQHandler(e)
    BY <1>4, PostsPermits DEF ETH_IRQHandler
<1>5. CASE Console
    BY <1>5, UnseenRest, UnseenLives DEF Console, ConsoleCreates
<1>6. CASE Tim4Enters \/ Tim4Leaves \/ UNCHANGED vars
    BY <1>0, <1>6, UnseenRest
<1> HIDE DEF Goal
<1> QED
    BY <1>1, <1>2, <1>3, <1>4, <1>5, <1>6 DEF Next

\* OSSemPend, OSSemPost and OSSemDel implement Semaphores: no permit is lost,
\* doubled or given to a task that has given up.
THEOREM PermitsKept == NoPreemptedPause => (Spec => ImplementsSemaphores)
<1> SUFFICES ASSUME NoPreemptedPause PROVE Spec => ImplementsSemaphores
    OBVIOUS
<1>1. Init => Permits!SInit /\ Answered
    <2> SUFFICES ASSUME Init PROVE Permits!SInit /\ Answered
        OBVIOUS
    <2>1. \A t \in Task : Seen[t] = "out"
        BY SeenIs DEF Init
    <2>2. Seen = [t \in Task |-> "out"]
        BY <2>1, SeenFun
    <2> QED
        BY <2>2 DEF Init, Permits!SInit, Answered
<1>2. IInv /\ Answered /\ [Next]_vars => [Permits!SNext]_Permits!svars /\ Answered'
    BY PermitsNext
<1>3. Spec => []IInv
    BY Invariant
<1> QED
    BY <1>1, <1>2, <1>3, PTL DEF Spec, ImplementsSemaphores, Permits!SSpec

-----------------------------------------------------------------------------
(* The line editor                                                         *)

\* A byte is in the editor or waits in the receiver, so the editor holds what was
\* typed, or what had been typed a byte ago.

\* USART_RX_STA is an index, the two marks of which the upper comes last.
Word == Index < RecLen /\ (IsDone => HasCR)

\* The editor is where the user is who has typed the text t and is at k.
Synced(t, k) == ~IsDone /\ (HasCR <=> k = "cr") /\ Holds(t)

\* Where the user is when he has typed b, too.
LineAfter(t, k, b) == IF k = "cr" THEN <<>>
                      ELSE IF b = CR THEN t
                      ELSE IF Len(t) + 1 = RecLen THEN <<>> ELSE Append(t, b)
KeyAfter(k, b) == IF k = "cr" THEN (IF b = LF THEN "start" ELSE "text")
                  ELSE IF b = CR THEN "cr" ELSE "text"

\* A clean line that goes on is in the editor but for the byte that waits.
Follows ==
    clean /\ key # "start" =>
      /\ owed = <<>>
      /\ rdr = NoByte => Synced(line, key)
      /\ rdr # NoByte => \E t \in Seq(Byte), k \in {"start", "text", "cr"} :
                           /\ Synced(t, k)
                           /\ line = LineAfter(t, k, rdr) /\ key = KeyAfter(k, rdr)

\* A clean line that has ended waits for its LF or for usmart_scan.
Awaits ==
    owed # <<>> => /\ Holds(owed[1])
                   /\ IsDone \/ (HasCR /\ rdr = LF)

LineHandlers ==
    /\ irq = "take" \/ (irq = "error" /\ rxne) => rdr # NoByte
    /\ scan = "exec" => IsDone

\* A line is done, or about to be, because of an LF.
Entered == IsDone \/ (HasCR /\ rdr = LF) => ended

Begins == key = "start" => line = <<>>

LineInv == LineTypeOK /\ Begins /\ Word /\ LineHandlers /\ Entered /\ Follows /\ Awaits

\* The values of a 16-bit word, and what a small index makes of one.
Words16 == 0..(2 * DoneMark - 1)

LEMMA Bits ==
    ASSUME NEW n \in 0..255
    PROVE  /\ n \in Words16 /\ n % CrMark = n
           /\ ~(n % DoneMark >= CrMark) /\ ~(n >= DoneMark)
           /\ n + CrMark \in Words16 /\ (n + CrMark) % CrMark = n
           /\ (n + CrMark) % DoneMark >= CrMark /\ ~(n + CrMark >= DoneMark)
           /\ n + CrMark + DoneMark \in Words16 /\ (n + CrMark + DoneMark) % CrMark = n
           /\ (n + CrMark + DoneMark) % DoneMark >= CrMark
           /\ n + CrMark + DoneMark >= DoneMark
<1> DEFINE c == n + CrMark
           d == n + CrMark + DoneMark
<1>1. c = n + 16384 /\ d = n + 49152
    BY DEF CrMark, DoneMark
<1> HIDE DEF c, d
<1>2. n \in Words16 /\ c \in Words16 /\ d \in Words16
    <2> DEFINE top == 2 * DoneMark - 1
    <2>1. top = 65535
        BY DEF DoneMark
    <2> HIDE DEF top
    <2>2. n \in Nat /\ n <= top
        BY <2>1
    <2>3. c \in Nat /\ c <= top
        BY <1>1, <2>1
    <2>4. d \in Nat /\ d <= top
        BY <1>1, <2>1
    <2>5. top \in Nat /\ Words16 = 0..top
        BY <2>1 DEF Words16, top
    <2> QED
        BY <2>2, <2>3, <2>4, <2>5
<1>3. n % CrMark = n
    BY DEF CrMark
<1>4. n % DoneMark = n /\ ~(n >= CrMark)
    BY DEF CrMark, DoneMark
<1>5. ~(n >= DoneMark)
    BY DEF DoneMark
<1>6. (n + 16384) % 16384 = n
    OBVIOUS
<1>7. (n + 16384) % 32768 >= 16384
    OBVIOUS
<1>8. (n + 49152) % 16384 = n
    OBVIOUS
<1>9. (n + 49152) % 32768 >= 16384
    OBVIOUS
<1>10. c % CrMark = n /\ d % CrMark = n
    BY <1>1, <1>6, <1>8 DEF CrMark
<1>11. c % DoneMark >= CrMark /\ d % DoneMark >= CrMark
    BY <1>1, <1>7, <1>9 DEF CrMark, DoneMark
<1>12. ~(c >= DoneMark)
    BY <1>1 DEF DoneMark
<1>13. d >= DoneMark
    BY <1>1 DEF DoneMark
<1>14. ~(n % DoneMark >= CrMark)
    BY <1>4
<1> QED
    BY <1>2, <1>3, <1>5, <1>10, <1>11, <1>12, <1>13, <1>14, Zenon DEF c, d

\* The three shapes of the word.
LEMMA WordRead ==
    ASSUME sta \in Words16, Word
    PROVE  /\ Index \in 0..(RecLen - 1) /\ Index \in 0..255
           /\ ~IsDone /\ ~HasCR => sta = Index
           /\ ~IsDone /\ HasCR => sta = Index + CrMark
           /\ IsDone => sta = Index + CrMark + DoneMark
<1>1. RecLen \in 1..256
    BY UartLineAssumption
<1>0. sta \in Nat /\ sta <= 65535
    <2> DEFINE m == 2 * DoneMark - 1
    <2>1. m = 65535
        BY DEF DoneMark
    <2>2. sta \in 0..m
        BY DEF Words16
    <2>3. m \in Int
        BY <2>1
    <2> HIDE DEF m
    <2>4. sta \in Nat /\ sta <= m
        BY <2>2, <2>3
    <2> QED
        BY <2>1, <2>4
<1>2. Index \in 0..16383
    BY <1>0 DEF Index, CrMark
<1>3. Index \in 0..(RecLen - 1) /\ Index \in 0..255
    BY <1>1, <1>2 DEF Word
<1>4. /\ ~IsDone /\ ~HasCR => sta = Index
      /\ ~IsDone /\ HasCR => sta = Index + CrMark
      /\ IsDone /\ HasCR => sta = Index + CrMark + DoneMark
    <2>2. ASSUME ~IsDone, ~HasCR PROVE sta = Index
        BY <1>0, <2>2 DEF Index, HasCR, IsDone, CrMark, DoneMark
    <2>3. ASSUME ~IsDone, HasCR PROVE sta = Index + CrMark
        BY <1>0, <2>3 DEF Index, HasCR, IsDone, CrMark, DoneMark
    <2>4. ASSUME IsDone, HasCR PROVE sta = Index + CrMark + DoneMark
        BY <1>0, <2>4 DEF Index, HasCR, IsDone, CrMark, DoneMark
    <2> QED
        BY <2>2, <2>3, <2>4
<1> QED
    BY <1>3, <1>4 DEF Word

\* What a word that is written is.
LEMMA WordWritten ==
    ASSUME NEW n \in 0..(RecLen - 1)
    PROVE  /\ sta' = n => /\ sta' \in Words16 /\ Word' /\ Index' = n
                          /\ ~HasCR' /\ ~IsDone'
           /\ sta' = n + CrMark => /\ sta' \in Words16 /\ Word' /\ Index' = n
                                   /\ HasCR' /\ ~IsDone'
           /\ sta' = n + CrMark + DoneMark => /\ sta' \in Words16 /\ Word'
                                              /\ Index' = n /\ HasCR' /\ IsDone'
<1>1. RecLen \in 1..256 /\ n \in 0..255 /\ n < RecLen
    BY UartLineAssumption
<1>2. /\ Index' = sta' % CrMark
      /\ HasCR' <=> sta' % DoneMark >= CrMark
      /\ IsDone' <=> sta' >= DoneMark
    BY DEF Index, HasCR, IsDone
<1>3. Index' = n /\ (IsDone' => HasCR') => Word'
    BY <1>1 DEF Word
<1>4. /\ n \in Words16 /\ n % CrMark = n
      /\ ~(n % DoneMark >= CrMark) /\ ~(n >= DoneMark)
      /\ n + CrMark \in Words16 /\ (n + CrMark) % CrMark = n
      /\ (n + CrMark) % DoneMark >= CrMark /\ ~(n + CrMark >= DoneMark)
      /\ n + CrMark + DoneMark \in Words16 /\ (n + CrMark + DoneMark) % CrMark = n
      /\ (n + CrMark + DoneMark) % DoneMark >= CrMark
      /\ n + CrMark + DoneMark >= DoneMark
    BY <1>1, Bits, Zenon
<1> QED
    BY <1>2, <1>3, <1>4, Zenon

LEMMA LineStarts == LineInit => LineInv
<1> SUFFICES ASSUME LineInit PROVE LineInv
    OBVIOUS
<1>1. 0 % CrMark = 0 /\ ~(0 % DoneMark >= CrMark) /\ ~(0 >= DoneMark)
    BY DEF CrMark, DoneMark
<1>2. RecLen \in 1..256
    BY UartLineAssumption
<1>3. Index = 0 /\ ~HasCR /\ ~IsDone
    BY <1>1 DEF LineInit, Index, HasCR, IsDone
<1>4. LineTypeOK
    <2>1. sta \in Words16 /\ buf \in [0..(RecLen - 1) -> Byte \cup {Nul}]
        BY DEF LineInit, Words16, DoneMark
    <2>2. line \in Seq(Byte) /\ owed \in Seq(Seq(Byte)) /\ Len(owed) <= 1
        BY DEF LineInit
    <2>3. /\ rdr \in Byte \cup {NoByte} /\ ore \in BOOLEAN /\ armed \in BOOLEAN
          /\ irq \in {"idle", "error", "take", "rearm"} /\ rxne \in BOOLEAN
          /\ scan \in {"idle", "exec"} /\ key \in {"start", "text", "cr"}
          /\ clean \in BOOLEAN /\ ended \in BOOLEAN
        BY DEF LineInit
    <2> QED
        BY <2>1, <2>2, <2>3, Zenon DEF LineTypeOK, Words16
<1>5. Begins /\ Word /\ LineHandlers /\ Entered
    BY <1>2, <1>3 DEF LineInit, Begins, Word, LineHandlers, Entered
<1>6. Follows /\ Awaits
    BY DEF LineInit, Follows, Awaits
<1> QED
    BY <1>4, <1>5, <1>6 DEF LineInv

LEMMA PressKeeps == ASSUME LineInv, NEW b \in Byte, Press(b) PROVE LineInv'
<1> USE DEF editor, handlers
<1>1. /\ sta' = sta /\ buf' = buf /\ irq' = irq /\ rxne' = rxne /\ scan' = scan
      /\ armed' = armed
    BY DEF Press
<1>2. /\ Index' = Index /\ HasCR' = HasCR /\ IsDone' = IsDone
      /\ \A t : Holds(t)' = Holds(t)
      /\ \A t, k : Synced(t, k)' = Synced(t, k)
    BY <1>1 DEF Index, HasCR, IsDone, Holds, Synced
<1>3. /\ rdr = NoByte => rdr' = b /\ ore' = ore
      /\ rdr # NoByte => rdr' = rdr /\ ore' = TRUE
    BY DEF Press
<1>4. rdr' # NoByte
    BY <1>3, UartLineAssumption DEF Byte, CR, LF, NoByte
<1> DEFINE ok == IF key = "start" THEN AtRest ELSE clean /\ rdr = NoByte
<1>5. /\ clean' = ok /\ ended' = (ended \/ b = LF)
      /\ key' = KeyAfter(key, b) /\ line' = LineAfter(line, key, b)
      /\ owed' = IF key = "cr" /\ b = LF /\ ok THEN <<line>> ELSE owed
    BY DEF Press, Typed, KeyAfter, LineAfter
<1> HIDE DEF ok
<1>6. LineTypeOK'
    <2>1. line \in Seq(Byte) /\ owed \in Seq(Seq(Byte)) /\ Len(owed) <= 1
          /\ key \in {"start", "text", "cr"} /\ clean \in BOOLEAN /\ ended \in BOOLEAN
        BY DEF LineInv, LineTypeOK
    <2>2. line' \in Seq(Byte)
        BY <1>5, <2>1 DEF LineAfter
    <2>3. owed' \in Seq(Seq(Byte)) /\ Len(owed') <= 1
        BY <1>5, <2>1
    <2>4. key' \in {"start", "text", "cr"}
        BY <1>5 DEF KeyAfter
    <2>5. clean' \in BOOLEAN /\ ended' \in BOOLEAN
        BY <1>5, <2>1 DEF ok, AtRest
    <2>6. rdr' \in Byte \cup {NoByte} /\ ore' \in BOOLEAN
        <3>1. rdr \in Byte \cup {NoByte} /\ ore \in BOOLEAN
            BY DEF LineInv, LineTypeOK
        <3> QED
            BY <1>3, <3>1
    <2>7. /\ sta' \in Words16 /\ buf' \in [0..(RecLen - 1) -> Byte \cup {Nul}]
          /\ armed' \in BOOLEAN /\ irq' \in {"idle", "error", "take", "rearm"}
          /\ rxne' \in BOOLEAN /\ scan' \in {"idle", "exec"}
        BY <1>1, Zenon DEF LineInv, LineTypeOK, Words16
    <2> QED
        BY <2>2, <2>3, <2>4, <2>5, <2>6, <2>7, Zenon DEF LineTypeOK, Words16
<1>7. Word' /\ LineHandlers' /\ Begins'
    <2>1. Word' /\ LineHandlers'
        BY <1>1, <1>2, <1>4 DEF LineInv, Word, LineHandlers
    <2>2. Begins'
        BY <1>5 DEF Begins, KeyAfter, LineAfter
    <2> QED
        BY <2>1, <2>2
<1>8. Entered'
    BY <1>2, <1>3, <1>5 DEF LineInv, Entered
<1>9. CASE key = "start" /\ ~AtRest
    <2>1. ~clean' /\ owed' = owed
        BY <1>5, <1>9 DEF ok
    <2>2. Follows'
        BY <2>1 DEF Follows
    <2>3. Awaits'
        <3>1. owed # <<>> => rdr = LF \/ IsDone
            BY DEF LineInv, Awaits
        <3>2. rdr = LF => rdr' = LF
            BY <1>3, UartLineAssumption DEF LF, NoByte
        <3> QED
            BY <1>2, <2>1, <3>1, <3>2 DEF LineInv, Awaits
    <2> QED
        BY <1>6, <1>7, <1>8, <2>2, <2>3 DEF LineInv
<1>10. CASE key # "start" /\ ~(clean /\ rdr = NoByte)
    <2>1. ~clean' /\ owed' = owed
        BY <1>5, <1>10 DEF ok
    <2>2. Follows'
        BY <2>1 DEF Follows
    <2>3. Awaits'
        <3>1. rdr = LF => rdr' = LF
            BY <1>3 DEF LF, NoByte
        <3> QED
            BY <1>2, <2>1, <3>1 DEF LineInv, Awaits
    <2> QED
        BY <1>6, <1>7, <1>8, <2>2, <2>3 DEF LineInv
<1>11. CASE \/ key = "start" /\ AtRest
            \/ key # "start" /\ clean /\ rdr = NoByte
    <2>1. ok /\ rdr = NoByte /\ rdr' = b
        BY <1>3, <1>11 DEF ok, AtRest
    <2>2. \E t \in Seq(Byte) : /\ Synced(t, key) /\ owed = <<>>
                               /\ line' = LineAfter(t, key, b) /\ (key = "cr" => t = line)
        <3>1. CASE key = "start" /\ AtRest
            <4>1. sta = 0 /\ Index = 0 /\ ~HasCR /\ ~IsDone
                BY <3>1 DEF AtRest, Index, HasCR, IsDone, CrMark, DoneMark
            <4>2. Synced(<<>>, key)
                BY <3>1, <4>1 DEF Synced, Holds
            <4>3. owed = <<>>
                BY <4>1 DEF LineInv, Awaits
            <4>4. line = <<>>
                BY <3>1 DEF LineInv, Begins
            <4>5. <<>> \in Seq(Byte)
                OBVIOUS
            <4> QED
                BY <1>5, <3>1, <4>2, <4>3, <4>4, <4>5
        <3>2. CASE key # "start" /\ clean /\ rdr = NoByte
            <4>1. line \in Seq(Byte) /\ Synced(line, key) /\ owed = <<>>
                BY <3>2 DEF LineInv, Follows, LineTypeOK
            <4> QED
                BY <1>5, <4>1
        <3> QED
            BY <1>11, <3>1, <3>2
    <2>3. PICK t \in Seq(Byte) : /\ Synced(t, key) /\ owed = <<>>
                                 /\ line' = LineAfter(t, key, b) /\ (key = "cr" => t = line)
        BY <2>2
    <2>4. Follows'
        <3> SUFFICES ASSUME key' # "start" PROVE /\ owed' = <<>>
                       /\ \E u \in Seq(Byte), k \in {"start", "text", "cr"} :
                            /\ Synced(u, k)'
                            /\ line' = LineAfter(u, k, rdr') /\ key' = KeyAfter(k, rdr')
            BY <1>4 DEF Follows
        <3>1. owed' = <<>>
            BY <1>5, <2>3 DEF KeyAfter
        <3>2. PICK k : k = key
            OBVIOUS
        <3>3. k \in {"start", "text", "cr"} /\ Synced(t, k)'
            BY <1>2, <2>3, <3>2 DEF LineInv, LineTypeOK
        <3>4. line' = LineAfter(t, k, rdr') /\ key' = KeyAfter(k, rdr')
            BY <1>5, <2>1, <2>3, <3>2
        <3> QED
            BY <3>1, <3>3, <3>4
    <2>5. Awaits'
        <3> SUFFICES ASSUME owed' # <<>> PROVE Holds(owed[1])' /\ (HasCR /\ rdr = LF)'
            BY DEF Awaits
        <3>1. key = "cr" /\ b = LF /\ owed' = <<line>> /\ t = line
            BY <1>5, <2>3
        <3>2. HasCR /\ Holds(line)
            BY <2>3, <3>1 DEF Synced
        <3>3. owed'[1] = line
            BY <3>1
        <3> QED
            BY <1>2, <2>1, <3>1, <3>2, <3>3 DEF Holds
    <2> QED
        BY <1>6, <1>7, <1>8, <2>4, <2>5 DEF LineInv
<1> QED
    BY <1>9, <1>10, <1>11

\* The text of the line that has ended stays while it waits.
LEMMA AwaitsKept ==
    ASSUME Awaits, buf' = buf, Index' = Index, owed' = owed,
           IsDone \/ (HasCR /\ rdr = LF) => IsDone' \/ (HasCR' /\ rdr' = LF)
    PROVE  Awaits'
<1> SUFFICES ASSUME owed # <<>> PROVE Holds(owed[1])' /\ (IsDone \/ (HasCR /\ rdr = LF))'
    BY Zenon DEF Awaits
<1>1. Holds(owed[1]) /\ (IsDone \/ (HasCR /\ rdr = LF))
    BY DEF Awaits
<1>2. Holds(owed[1])'
    BY <1>1 DEF Holds
<1> QED
    BY <1>1, <1>2

\* What leaves the editor, the waiting byte and the user alone.
LEMMA QuietKeeps ==
    ASSUME LineInv, UNCHANGED <<sta, buf, rdr, user>>, LineTypeOK', LineHandlers'
    PROVE  LineInv'
<1>1. /\ Word' /\ Begins' /\ Entered'
    BY DEF LineInv, Word, Begins, Entered, Index, HasCR, IsDone, user
<1>2. Follows'
    BY DEF LineInv, Follows, Synced, Holds, Index, HasCR, IsDone, user
<1>3. Awaits'
    BY AwaitsKept DEF LineInv, Index, HasCR, IsDone, user
<1> QED
    BY <1>1, <1>2, <1>3 DEF LineInv

LEMMA InterruptKeeps == ASSUME LineInv, Interrupt PROVE LineInv'
<1>1. /\ UNCHANGED <<sta, buf, rdr, user>> /\ ore' = ore /\ armed' = armed /\ scan' = scan
      /\ rxne' = (rdr # NoByte) /\ irq' = IF ore THEN "error" ELSE "take"
      /\ irq = "idle" /\ scan = "idle" /\ (rdr # NoByte \/ ore)
    BY DEF Interrupt, editor, receiver
<1>2. LineTypeOK'
    <2>1. irq' \in {"idle", "error", "take", "rearm"} /\ rxne' \in BOOLEAN
        BY <1>1
    <2> QED
        BY <1>1, <2>1, Zenon DEF LineInv, LineTypeOK, user
<1>3. LineHandlers'
    BY <1>1 DEF LineHandlers
<1> QED
    BY <1>1, <1>2, <1>3, QuietKeeps

LEMMA ClearOverrunKeeps == ASSUME LineInv, ClearOverrun PROVE LineInv'
<1>1. /\ UNCHANGED <<sta, buf, rdr, user>> /\ rxne' = rxne /\ scan' = scan
      /\ ore' = FALSE /\ irq = "error"
      /\ IF rxne THEN irq' = "take" /\ armed' = armed
         ELSE irq' = "rearm" /\ armed' = FALSE
    BY DEF ClearOverrun, editor
<1>2. LineTypeOK'
    <2>1. irq' \in {"idle", "error", "take", "rearm"} /\ ore' \in BOOLEAN
        BY <1>1
    <2>2. armed' \in BOOLEAN
        BY <1>1, Zenon DEF LineInv, LineTypeOK
    <2> QED
        BY <1>1, <2>1, <2>2, Zenon DEF LineInv, LineTypeOK, user
<1>3. LineHandlers'
    BY <1>1 DEF LineHandlers, LineInv, IsDone
<1> QED
    BY <1>1, <1>2, <1>3, QuietKeeps

LEMMA RearmKeeps == ASSUME LineInv, Rearm PROVE LineInv'
<1>1. /\ UNCHANGED <<sta, buf, rdr, user>> /\ rxne' = rxne /\ scan' = scan
      /\ ore' = ore /\ armed' = TRUE /\ irq' = "idle"
    BY DEF Rearm, editor
<1>2. LineTypeOK'
    BY <1>1, Zenon DEF LineInv, LineTypeOK, user
<1>3. LineHandlers'
    BY <1>1 DEF LineHandlers, LineInv, IsDone
<1> QED
    BY <1>1, <1>2, <1>3, QuietKeeps

\* The '\0' goes behind the line.
LEMMA ScanBeginsKeeps == ASSUME LineInv, ScanBegins PROVE LineInv'
<1>1. /\ sta' = sta /\ buf' = [buf EXCEPT ![Index % 256] = Nul]
      /\ UNCHANGED <<rdr, ore, armed, irq, rxne>> /\ UNCHANGED user
      /\ scan' = "exec" /\ IsDone
    BY DEF ScanBegins, receiver
<1>2. Index \in 0..255 /\ Index \in 0..(RecLen - 1)
    BY WordRead DEF LineInv, LineTypeOK, Words16
<1>3. Index % 256 = Index
    BY <1>2
<1>4. /\ Index' = Index /\ HasCR' = HasCR /\ IsDone'
    BY <1>1 DEF Index, HasCR, IsDone
<1>5. buf \in [0..(RecLen - 1) -> Byte \cup {Nul}]
    BY DEF LineInv, LineTypeOK
<1>6. LineTypeOK'
    <2>1. buf' \in [0..(RecLen - 1) -> Byte \cup {Nul}]
        BY <1>1, <1>5
    <2> QED
        BY <1>1, <2>1, Zenon DEF LineInv, LineTypeOK, user
<1>7. Word' /\ LineHandlers' /\ Begins' /\ Entered'
    BY <1>1, <1>4 DEF LineInv, Word, LineHandlers, Begins, Entered, user
<1>8. Follows'
    <2>1. ~(clean /\ key # "start")
        <3>1. ~\E t, k : Synced(t, k)
            BY <1>1 DEF Synced
        <3> QED
            BY <3>1 DEF LineInv, Follows
    <2> QED
        BY <1>1, <2>1 DEF Follows, user
<1>9. Awaits'
    <2> SUFFICES ASSUME owed # <<>> PROVE Holds(owed[1])'
        BY <1>1, <1>4 DEF Awaits, user
    <2> DEFINE t == owed[1]
    <2>1. owed' = owed
        BY <1>1 DEF user
    <2>2. t \in Seq(Byte)
        <3>1. owed \in Seq(Seq(Byte))
            BY DEF LineInv, LineTypeOK
        <3> QED
            BY <3>1
    <2>3. Len(t) = Index /\ \A i \in 1..Len(t) : buf[i - 1] = t[i]
        <3>1. Holds(t)
            BY Zenon DEF LineInv, Awaits
        <3> QED
            BY <3>1 DEF Holds
    <2> HIDE DEF t
    <2>4. ASSUME NEW i \in 1..Len(t) PROVE buf'[i - 1] = buf[i - 1]
        <3>1. i - 1 \in 0..(RecLen - 1) /\ i - 1 # Index
            BY <1>2, <2>2, <2>3, UartLineAssumption
        <3> QED
            BY <1>1, <1>3, <1>5, <3>1
    <2> QED
        BY <1>4, <2>1, <2>3, <2>4 DEF Holds, t
<1> QED
    BY <1>6, <1>7, <1>8, <1>9 DEF LineInv

LEMMA ScanEndsKeeps == ASSUME LineInv, ScanEnds PROVE LineInv'
<1>1. /\ sta' = 0 /\ buf' = buf /\ UNCHANGED <<rdr, ore, armed, irq, rxne>>
      /\ UNCHANGED <<key, line, clean>>
      /\ scan' = "idle" /\ owed' = <<>> /\ ended' = FALSE /\ IsDone
    BY DEF ScanEnds, receiver, LineInv, LineHandlers
<1>2. 0 \in 0..(RecLen - 1)
    BY UartLineAssumption
<1>3. sta' \in Words16 /\ Word' /\ ~HasCR' /\ ~IsDone'
    BY <1>1, <1>2, WordWritten
<1>4. LineTypeOK'
    <2>1. owed' \in Seq(Seq(Byte)) /\ Len(owed') <= 1
        BY <1>1
    <2> QED
        BY <1>1, <1>3, <2>1, Zenon DEF LineInv, LineTypeOK, Words16
<1>5. LineHandlers' /\ Begins' /\ Entered' /\ Awaits'
    BY <1>1, <1>3 DEF LineInv, LineHandlers, Begins, Entered, Awaits
<1>6. Follows'
    <2>1. ~(clean /\ key # "start")
        <3>1. ~\E t, k : Synced(t, k)
            BY <1>1 DEF Synced
        <3> QED
            BY <3>1 DEF LineInv, Follows
    <2> QED
        BY <1>1, <2>1 DEF Follows
<1> QED
    BY <1>3, <1>4, <1>5, <1>6 DEF LineInv

\* A byte goes from the receiver into the editor.
LEMMA TakeKeeps == ASSUME LineInv, Take PROVE LineInv'
<1> DEFINE b == rdr
           n == Index
<1>1. /\ irq = "take" /\ rdr' = NoByte /\ armed' = FALSE /\ irq' = "rearm"
      /\ UNCHANGED <<ore, rxne, scan>> /\ UNCHANGED user /\ Received(b)
    BY DEF Take
<1>2. b \in Byte
    BY <1>1 DEF LineInv, LineTypeOK, LineHandlers
<1>3. /\ n \in 0..(RecLen - 1) /\ n \in 0..255
      /\ ~IsDone /\ ~HasCR => sta = n
      /\ ~IsDone /\ HasCR => sta = n + CrMark
      /\ IsDone => sta = n + CrMark + DoneMark
    BY WordRead DEF LineInv, LineTypeOK, Words16
<1>4. /\ sta \in Words16 /\ buf \in [0..(RecLen - 1) -> Byte \cup {Nul}]
      /\ RecLen \in 1..256
    BY UartLineAssumption DEF LineInv, LineTypeOK, Words16
<1> HIDE DEF b, n
<1>5. \* all that does not depend on the case
      ASSUME sta' \in Words16, Word', buf' \in [0..(RecLen - 1) -> Byte \cup {Nul}],
             IsDone => IsDone', Entered', Follows', Awaits'
      PROVE  LineInv'
    <2>1. rdr' \in Byte \cup {NoByte} /\ armed' \in BOOLEAN
          /\ irq' \in {"idle", "error", "take", "rearm"}
        BY <1>1
    <2>2. LineTypeOK'
        BY <1>1, <1>5, <2>1, Zenon DEF LineInv, LineTypeOK, Words16, user
    <2>3. LineHandlers' /\ Begins'
        BY <1>1, <1>5 DEF LineInv, LineHandlers, Begins, user
    <2> QED
        BY <1>5, <2>2, <2>3 DEF LineInv
<1>6. CASE IsDone
    <2>1. sta' = sta /\ buf' = buf
        BY <1>1, <1>6 DEF Received, editor
    <2>2. Index' = Index /\ HasCR' = HasCR /\ IsDone' /\ Word' /\ \A t : Holds(t)' = Holds(t)
        BY <1>6, <2>1 DEF LineInv, Word, Index, HasCR, IsDone, Holds
    <2>3. ~(clean /\ key # "start")
        <3>1. ~\E t, k : Synced(t, k)
            BY <1>6 DEF Synced
        <3> QED
            BY <3>1 DEF LineInv, Follows
    <2>4. Follows' /\ Entered'
        BY <1>1, <1>6, <2>3 DEF LineInv, Follows, Entered, user
    <2>5. Awaits'
        BY <1>1, <2>1, <2>2, AwaitsKept DEF LineInv, user
    <2> QED
        BY <1>4, <1>5, <2>1, <2>2, <2>4, <2>5
\* Otherwise a clean line that goes on held what was typed before b.
<1>7. ASSUME ~IsDone, clean, key # "start"
      PROVE  \E t \in Seq(Byte), k \in {"start", "text", "cr"} :
               /\ Synced(t, k) /\ owed = <<>>
               /\ line = LineAfter(t, k, b) /\ key = KeyAfter(k, b)
    BY <1>1, <1>7 DEF LineInv, Follows, LineHandlers, b
<1>8. CASE ~IsDone /\ HasCR /\ b = LF
    <2>1. sta' = n + CrMark + DoneMark /\ buf' = buf
        BY <1>1, <1>3, <1>8 DEF Received, CR, LF
    <2>2. sta' \in Words16 /\ Word' /\ Index' = n /\ HasCR' /\ IsDone'
        BY <1>3, <2>1, WordWritten
    <2>3. ~(clean /\ key # "start")
        BY <1>7, <1>8 DEF Synced, KeyAfter
    <2>4. Follows' /\ Entered'
        BY <1>1, <1>8, <2>3 DEF LineInv, Follows, Entered, user, b
    <2>5. Awaits'
        BY <1>1, <2>1, <2>2, AwaitsKept DEF LineInv, user, n
    <2> QED
        BY <1>4, <1>5, <2>1, <2>2, <2>4, <2>5
<1>9. CASE ~IsDone /\ ~(HasCR /\ b = LF)
    <2>1. owed = <<>> /\ owed' = <<>>
        BY <1>1, <1>9 DEF LineInv, Awaits, user, b
    <2>2. Awaits'
        BY <2>1 DEF Awaits
    <2>3. CASE HasCR
        <3>1. sta' = 0 /\ buf' = buf
            BY <1>1, <1>9, <2>3 DEF Received
        <3>2. 0 \in 0..(RecLen - 1)
            BY <1>4
        <3>3. sta' \in Words16 /\ Word' /\ Index' = 0 /\ ~HasCR' /\ ~IsDone'
            BY <3>1, <3>2, WordWritten
        <3>4. Follows'
            <4> SUFFICES ASSUME clean, key # "start" PROVE Synced(line, key)'
                BY <1>1, <2>1 DEF Follows, user
            <4>1. line' = <<>> /\ key' = "text"
                BY <1>1, <1>7, <1>9, <2>3 DEF Synced, LineAfter, KeyAfter, user
            <4> QED
                BY <3>3, <4>1 DEF Synced, Holds
        <3>5. Entered'
            BY <3>3 DEF Entered
        <3> QED
            BY <1>4, <1>5, <1>9, <2>2, <3>1, <3>3, <3>4, <3>5
    <2>4. CASE ~HasCR /\ b = CR
        <3>1. sta' = n + CrMark /\ buf' = buf
            BY <1>1, <1>3, <1>9, <2>4 DEF Received
        <3>2. sta' \in Words16 /\ Word' /\ Index' = n /\ HasCR' /\ ~IsDone'
            BY <1>3, <3>1, WordWritten
        <3>3. Follows'
            <4> SUFFICES ASSUME clean, key # "start" PROVE Synced(line, key)'
                BY <1>1, <2>1 DEF Follows, user
            <4>1. key' = "cr" /\ Holds(line) /\ line' = line
                BY <1>1, <1>7, <1>9, <2>4 DEF Synced, LineAfter, KeyAfter, user
            <4> QED
                BY <3>1, <3>2, <4>1 DEF Synced, Holds, n
        <3>4. Entered'
            BY <1>1, <3>2 DEF Entered, NoByte, LF
        <3> QED
            BY <1>4, <1>5, <1>9, <2>2, <3>1, <3>2, <3>3, <3>4
    <2>5. CASE ~HasCR /\ b # CR
        <3>1. /\ buf' = [buf EXCEPT ![n] = b]
              /\ sta' = IF n + 1 > RecLen - 1 THEN 0 ELSE n + 1
            BY <1>1, <1>3, <1>9, <2>5 DEF Received, n
        <3>2. buf' \in [0..(RecLen - 1) -> Byte \cup {Nul}]
            BY <1>2, <1>4, <3>1
        <3> DEFINE m == IF n + 1 = RecLen THEN 0 ELSE n + 1
        <3>3. m \in 0..(RecLen - 1) /\ sta' = m
            BY <1>3, <1>4, <3>1
        <3> HIDE DEF m
        <3>4. sta' \in Words16 /\ Word' /\ Index' = m /\ ~HasCR' /\ ~IsDone'
            BY <3>3, WordWritten
        <3>5. Follows'
            <4> SUFFICES ASSUME clean, key # "start" PROVE Synced(line, key)'
                BY <1>1, <2>1 DEF Follows, user
            <4>1. PICK t \in Seq(Byte), k \in {"start", "text", "cr"} :
                    /\ Synced(t, k) /\ line = LineAfter(t, k, b) /\ key = KeyAfter(k, b)
                BY <1>7, <1>9
            <4>2. /\ Holds(t) /\ key' = "text"
                  /\ line' = IF Len(t) + 1 = RecLen THEN <<>> ELSE Append(t, b)
                BY <1>1, <2>5, <4>1 DEF Synced, LineAfter, KeyAfter, user
            <4>3. Len(t) = n /\ \A i \in 1..n : buf[i - 1] = t[i]
                BY <4>2 DEF Holds, n
            <4>4. Holds(line)'
                <5>1. CASE n + 1 = RecLen
                    BY <3>4, <4>2, <4>3, <5>1 DEF Holds, m
                <5>2. CASE n + 1 # RecLen
                    <6>1. line' = Append(t, b) /\ m = n + 1 /\ Len(line') = n + 1
                        BY <4>2, <4>3, <5>2 DEF m
                    <6>2. ASSUME NEW i \in 1..(n + 1) PROVE buf'[i - 1] = line'[i]
                        <7>1. CASE i = n + 1
                            BY <1>3, <1>4, <3>1, <4>3, <6>1, <7>1
                        <7>2. CASE i # n + 1
                            <8>1. i \in 1..n /\ i - 1 \in 0..(RecLen - 1) /\ i - 1 # n
                                BY <1>3, <1>4, <7>2
                            <8>2. line'[i] = t[i]
                                BY <4>3, <6>1, <8>1
                            <8> QED
                                BY <1>4, <3>1, <4>3, <8>1, <8>2
                        <7> QED
                            BY <7>1, <7>2
                    <6> QED
                        BY <3>4, <6>1, <6>2 DEF Holds
                <5> QED
                    BY <5>1, <5>2
            <4> QED
                BY <3>4, <4>2, <4>4 DEF Synced
        <3>6. Entered'
            BY <3>4 DEF Entered
        <3> QED
            BY <1>5, <1>9, <2>2, <3>2, <3>4, <3>5, <3>6
    <2> QED
        BY <2>3, <2>4, <2>5
<1> QED
    BY <1>6, <1>8, <1>9

LEMMA LineInvariance == LineSpec => []LineInv
<1>1. LineInv /\ [LineNext]_lineVars => LineInv'
    <2> SUFFICES ASSUME LineInv, [LineNext]_lineVars PROVE LineInv'
        OBVIOUS
    <2>1. CASE \E b \in Byte : Press(b)
        BY <2>1, PressKeeps
    <2>2. CASE Usart1
        BY <2>2, ClearOverrunKeeps, TakeKeeps, RearmKeeps DEF Usart1
    <2>3. CASE UNCHANGED lineVars
        <3>1. LineTypeOK'
            BY <2>3, Zenon DEF LineInv, LineTypeOK,
               lineVars, editor, receiver, handlers, user
        <3>2. LineHandlers'
            BY <2>3, Zenon DEF LineInv, LineHandlers, IsDone,
               lineVars, editor, receiver, handlers
        <3> QED
            BY <2>3, <3>1, <3>2, QuietKeeps DEF lineVars, editor, receiver
    <2> QED
        BY <2>1, <2>2, <2>3, InterruptKeeps, ScanBeginsKeeps, ScanEndsKeeps DEF LineNext
<1> QED
    BY LineStarts, <1>1, PTL DEF LineSpec

\* Every variable of the console keeps its type.
THEOREM LineTypes == LineSpec => []LineTypeOK
<1>1. LineInv => LineTypeOK
    BY DEF LineInv
<1> QED
    BY <1>1, LineInvariance, PTL

\* For every length of the buffer up to 256, the 8 bits of usmart_scan(), no byte
\* is stored outside it and the marks never meet the index.
THEOREM LineStaysInside == LineSpec => []StaysInside
<1>1. ASSUME LineInv PROVE StaysInside
    <2>1. Index \in 0..255
        BY <1>1, WordRead DEF LineInv, LineTypeOK, Words16
    <2>2. Index % 256 = Index
        BY <2>1
    <2> QED
        BY <1>1, <2>2 DEF StaysInside, LineInv, Word
<1> QED
    BY <1>1, LineInvariance, PTL

\* Whatever comes before, in between and behind it, a line that was typed at a
\* console at rest and lost nothing is in the buffer until it has been executed.
THEOREM LinesRunAsTyped == LineSpec => []RunsAsTyped
<1>1. ASSUME LineInv, IsDone PROVE ended
    BY <1>1, Zenon DEF LineInv, Entered
<1>2. ASSUME LineInv, IsDone, owed # <<>> PROVE Holds(owed[1])
    BY <1>2, Zenon DEF LineInv, Awaits
<1>3. LineInv => RunsAsTyped
    BY <1>1, <1>2, Zenon DEF RunsAsTyped
<1> QED
    BY <1>3, LineInvariance, PTL
=============================================================================
