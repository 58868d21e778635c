--------------------------- MODULE MailboxProofs ----------------------------
(***************************************************************************)
(* Theorems about Mailbox, for every queue size, every set of tasks with   *)
(* their priorities and roles, and every set of timeouts.                  *)
(***************************************************************************)
EXTENDS Mailbox, TLAPS

\* The types of the variables a step of one task or of the queue touches.
QueueOK ==
    /\ ring \in [0..(Size - 1) -> Nat]
    /\ in \in 0..(Size - 1) /\ out \in 0..(Size - 1) /\ entries \in 0..Size
    /\ posted \in Nat /\ handed \in Nat
TasksOK ==
    /\ waiting \subseteq Tasks /\ blocked \subseteq Tasks
    /\ status \in [Tasks -> {"ok", "timeout", "abort"}]
    /\ msg \in [Tasks -> Nat]
    /\ dly \in [Tasks -> 0..MaxWait]
    /\ pc \in [Tasks -> {"idle", "post", "pend", "wait", "back"}]
    /\ limit \in [Tasks -> 0..MaxWait]
    /\ waited \in [Tasks -> 0..MaxWait]
    /\ returned \subseteq Nat
TimesOK ==
    /\ time \in 0..(Word - 1)
    /\ since \in [Tasks -> 0..(Word - 1)]
AliveOK == alive \in BOOLEAN

LEMMA TypeParts == TypeOK <=> QueueOK /\ TasksOK /\ TimesOK /\ AliveOK
BY DEF TypeOK, QueueOK, TasksOK, TimesOK, AliveOK

LEMMA TypePartsNext == QueueOK' /\ TasksOK' /\ TimesOK' /\ AliveOK' => TypeOK'
BY DEF TypeOK, QueueOK, TasksOK, TimesOK, AliveOK

-----------------------------------------------------------------------------
(* Type correctness                                                        *)

LEMMA TypeInit == Init => TypeOK
<1> SUFFICES ASSUME Init PROVE TypeOK
    OBVIOUS
<1>1. QueueOK
    BY MailboxAssumption DEF Init, QueueOK
<1>2. TasksOK
    BY MailboxAssumption DEF Init, TasksOK
<1>3. TimesOK
    BY MailboxAssumption DEF Init, TimesOK
<1>4. AliveOK
    BY DEF Init, AliveOK
<1> QED
    BY <1>1, <1>2, <1>3, <1>4, TypeParts

LEMMA NextSlotType ==
    ASSUME NEW p \in 0..(Size - 1)
    PROVE  NextSlot(p) \in 0..(Size - 1)
BY MailboxAssumption DEF NextSlot

LEMMA OSQPostType ==
    ASSUME QueueOK, TasksOK, OSQPost, UNCHANGED <<limit, waited, returned>>,
           pc' \in [Tasks -> {"idle", "post", "pend", "wait", "back"}]
    PROVE  QueueOK' /\ TasksOK'
<1>1. CASE HandOver
    <2>1. QueueOK'
        BY <1>1 DEF OSQPost, HandOver, QueueOK, qVars
    <2>2. PICK u \in waiting : EventTaskRdy(u, posted + 1, "ok")
        BY <1>1 DEF HandOver
    <2>3. u \in Tasks /\ posted + 1 \in Nat
        BY DEF QueueOK, TasksOK
    <2>4. dly' \in [Tasks -> 0..MaxWait]
        BY <2>2, MailboxAssumption DEF EventTaskRdy, TasksOK
    <2>5. msg' \in [Tasks -> Nat]
        BY <2>2, <2>3 DEF EventTaskRdy, TasksOK
    <2>6. status' \in [Tasks -> {"ok", "timeout", "abort"}]
        BY <2>2 DEF EventTaskRdy, TasksOK
    <2>7. waiting' \subseteq Tasks /\ blocked' \subseteq Tasks
        BY <2>2 DEF EventTaskRdy, EventTaskRemove, TasksOK
    <2> QED
        BY <2>1, <2>4, <2>5, <2>6, <2>7 DEF TasksOK
<1>2. CASE Enqueue
    <2>1. NextSlot(in) \in 0..(Size - 1)
        BY NextSlotType DEF QueueOK
    <2>2. QueueOK'
        BY <1>2, <2>1, MailboxAssumption DEF OSQPost, Enqueue, QueueOK
    <2>3. TasksOK'
        BY <1>2 DEF Enqueue, TasksOK, tcbVars
    <2> QED
        BY <2>2, <2>3
<1> QED
    BY <1>1, <1>2 DEF OSQPost

LEMMA TypeNext == TypeOK /\ [Next]_vars => TypeOK'
<1> SUFFICES ASSUME TypeOK, [Next]_vars PROVE TypeOK'
    OBVIOUS
<1>0. QueueOK /\ TasksOK /\ TimesOK /\ AliveOK
    BY TypeParts
<1>1. ASSUME NEW t \in Tasks, FetchStart(t) PROVE TypeOK'
    <2>1. QueueOK' /\ AliveOK'
        BY <1>0, <1>1 DEF FetchStart, QueueOK, AliveOK, qVars, history
    <2>2. TasksOK' /\ TimesOK'
        BY <1>0, <1>1, MailboxAssumption
        DEF FetchStart, TasksOK, TimesOK, tcbVars, history
    <2> QED
        BY <2>1, <2>2, TypePartsNext
<1>2. ASSUME NEW t \in Tasks, Pend(t) PROVE TypeOK'
    <2>1. TimesOK' /\ AliveOK'
        BY <1>0, <1>2 DEF Pend, TimesOK, AliveOK, callVars
    <2>2. CASE Take(t)
        <3>1. NextSlot(out) \in 0..(Size - 1)
            BY <1>0, NextSlotType DEF QueueOK
        <3>2. QueueOK'
            BY <1>0, <1>2, <2>2, <3>1, MailboxAssumption
            DEF Pend, Take, QueueOK
        <3>3. ring[out] \in Nat
            BY <1>0 DEF QueueOK
        <3>4. TasksOK'
            BY <1>0, <1>2, <2>2, <3>3 DEF Pend, Take, TasksOK, callVars
        <3> QED
            BY <2>1, <3>2, <3>4, TypePartsNext
    <2>3. CASE Block(t)
        BY <1>0, <1>2, <2>1, <2>3, TypePartsNext
        DEF Pend, Block, EventTaskWait, QueueOK, TasksOK, callVars, qVars
    <2>4. CASE NoQueue(t)
        BY <1>0, <1>2, <2>1, <2>4, TypePartsNext
        DEF Pend, NoQueue, QueueOK, TasksOK, callVars, qVars
    <2> QED
        BY <1>2, <2>2, <2>3, <2>4 DEF Pend
<1>3. ASSUME NEW t \in Tasks, Wake(t) PROVE TypeOK'
    <2>1. QueueOK' /\ TimesOK' /\ AliveOK'
        BY <1>0, <1>3
        DEF Wake, EventTaskRemove, QueueOK, TimesOK, AliveOK, qVars,
            callVars, history
    <2>2. TasksOK'
        BY <1>0, <1>3 DEF Wake, EventTaskRemove, TasksOK, callVars, history
    <2> QED
        BY <2>1, <2>2, TypePartsNext
<1>4. ASSUME NEW t \in Tasks, Return(t) PROVE TypeOK'
    <2>1. QueueOK' /\ AliveOK'
        BY <1>0, <1>4 DEF Return, QueueOK, AliveOK, qVars
    <2>2. TimesOK'
        BY <1>0, <1>4, MailboxAssumption DEF Return, TimesOK
    <2>3. (returned \subseteq Nat)'
        BY <1>0, <1>4 DEF Return, TasksOK
    <2>4. TasksOK'
        BY <1>0, <1>4, <2>3, MailboxAssumption DEF Return, TasksOK
    <2> QED
        BY <2>1, <2>2, <2>4, TypePartsNext
<1>5. ASSUME NEW t \in Tasks, Post(t) PROVE TypeOK'
    <2>1. TimesOK' /\ AliveOK'
        BY <1>0, <1>5 DEF Post, TimesOK, AliveOK, callVars
    <2>2. OSQPost /\ UNCHANGED <<limit, waited, returned>>
        BY <1>5 DEF Post, callVars
    <2>3. pc' \in [Tasks -> {"idle", "post", "pend", "wait", "back"}]
        BY <1>0, <1>5 DEF Post, TasksOK
    <2> QED
        BY <1>0, <2>1, <2>2, <2>3, OSQPostType, TypePartsNext
<1>6. CASE TryPost
    <2>1. TimesOK' /\ AliveOK'
        BY <1>0, <1>6 DEF TryPost, TimesOK, AliveOK, callVars
    <2>3. pc' \in [Tasks -> {"idle", "post", "pend", "wait", "back"}]
        BY <1>0, <1>6 DEF TryPost, TasksOK
    <2>2. QueueOK' /\ TasksOK'
        BY <1>0, <1>6, <2>3, OSQPostType DEF TryPost, callVars
    <2> QED
        BY <2>1, <2>2, TypePartsNext
<1>7. ASSUME NEW t \in Tasks, PostStart(t) PROVE TypeOK'
    <2>1. QueueOK' /\ TimesOK' /\ AliveOK'
        BY <1>0, <1>7
        DEF PostStart, QueueOK, TimesOK, AliveOK, qVars, callVars, history
    <2>2. TasksOK'
        BY <1>0, <1>7 DEF PostStart, TasksOK, tcbVars, callVars, history
    <2> QED
        BY <2>1, <2>2, TypePartsNext
<1>8. ASSUME NEW t \in Tasks, Free(t) PROVE TypeOK'
    <2>1. QueueOK' /\ TimesOK'
        BY <1>0, <1>8 DEF Free, QueueOK, TimesOK, qVars, callVars, history
    <2>2. AliveOK'
        BY <1>8 DEF Free, AliveOK
    <2>3. TasksOK'
        <3>1. dly' \in [Tasks -> 0..MaxWait]
            BY <1>0, <1>8, MailboxAssumption DEF Free, TasksOK
        <3>5. msg' \in [Tasks -> Nat]
            BY <1>0, <1>8 DEF Free, TasksOK
        <3>2. status' \in [Tasks -> {"ok", "timeout", "abort"}]
            BY <1>0, <1>8 DEF Free, TasksOK
        <3>3. waiting' \subseteq Tasks /\ blocked' \subseteq Tasks
            BY <1>0, <1>8 DEF Free, TasksOK
        <3>4. UNCHANGED <<pc, limit, waited, returned>>
            BY <1>8 DEF Free, callVars, history
        <3> QED
            BY <1>0, <3>1, <3>2, <3>3, <3>4, <3>5 DEF TasksOK
    <2> QED
        BY <2>1, <2>2, <2>3, TypePartsNext
<1>9. CASE Tick
    <2>1. QueueOK' /\ AliveOK'
        BY <1>0, <1>9 DEF Tick, QueueOK, AliveOK, qVars
    <2>2. TasksOK'
        <3>1. dly' \in [Tasks -> 0..MaxWait]
            BY <1>0, <1>9, MailboxAssumption DEF Tick, TasksOK
        <3>2. status' \in [Tasks -> {"ok", "timeout", "abort"}]
            BY <1>0, <1>9 DEF Tick, TickStatus, TasksOK
        <3>3. waited' \in [Tasks -> 0..MaxWait]
            BY <1>0, <1>9, MailboxAssumption DEF Tick, TasksOK
        <3>4. UNCHANGED <<waiting, msg, pc, limit, returned>>
            BY <1>9 DEF Tick, callVars
        <3>5. blocked' \subseteq Tasks
            BY <1>0, <1>9 DEF Tick, TasksOK
        <3> QED
            BY <1>0, <3>1, <3>2, <3>3, <3>4, <3>5 DEF TasksOK
    <2>3. TimesOK'
        BY <1>0, <1>9, MailboxAssumption DEF Tick, TimesOK, callVars
    <2> QED
        BY <2>1, <2>2, <2>3, TypePartsNext
<1>10. CASE UNCHANGED vars
    BY <1>10 DEF TypeOK, vars, qVars, tcbVars, callVars, history
<1> QED
    BY <1>1, <1>2, <1>3, <1>4, <1>5, <1>6, <1>7, <1>8, <1>9, <1>10
    DEF Next, TaskStep

\* Every variable of the mailbox, the queue and the task control blocks keeps
\* its type through posts, fetches, ticks and deletion.
THEOREM TypeCorrect == Spec => []TypeOK
<1>1. Init => TypeOK
    BY TypeInit
<1>2. TypeOK /\ [Next]_vars => TypeOK'
    BY TypeNext
<1> QED
    BY <1>1, <1>2, PTL DEF Spec

-----------------------------------------------------------------------------
(* Order: the ring and the wait list                                       *)

LEMMA OSQPostOrder ==
    ASSUME QueueOK, TasksOK, FifoExact, NobodyForgotten, OSQPost,
           UNCHANGED alive
    PROVE  FifoExact' /\ NobodyForgotten'
<1>1. CASE HandOver
    <2>1. entries = 0 /\ entries' = 0
        BY <1>1 DEF HandOver, NobodyForgotten, qVars
    <2>2. FifoExact'
        BY <1>1, <2>1 DEF OSQPost, HandOver, FifoExact, QueueOK, qVars
    <2>3. PICK t \in waiting : EventTaskRdy(t, posted + 1, "ok")
        BY <1>1 DEF HandOver
    <2>4. NobodyForgotten'
        BY <2>1, <2>3 DEF EventTaskRdy, EventTaskRemove, NobodyForgotten
    <2> QED
        BY <2>2, <2>4
<1>2. CASE Enqueue
    <2>1. UNCHANGED <<out, handed, waiting, blocked>>
        BY <1>2 DEF Enqueue, tcbVars
    <2>2. /\ entries' = entries + 1 /\ entries < Size
          /\ posted' = posted + 1
          /\ ring' = [ring EXCEPT ![in] = posted + 1]
          /\ in' = NextSlot(in)
        BY <1>2 DEF OSQPost, Enqueue
    <2>3. /\ entries' = posted' - handed'
          /\ in' = IF out' + entries' < Size THEN out' + entries'
                                            ELSE out' + entries' - Size
        BY <2>1, <2>2, MailboxAssumption DEF FifoExact, QueueOK, NextSlot
    <2>4. ASSUME NEW i \in 0..(entries' - 1)
          PROVE  ring'[Slot(i)'] = handed' + i + 1
        <3>1. Slot(i)' = Slot(i) /\ Slot(i) \in 0..(Size - 1)
            BY <2>1, <2>2, MailboxAssumption DEF Slot, QueueOK
        <3>2. CASE i = entries
            BY <2>1, <2>2, <3>1, <3>2 DEF FifoExact, QueueOK, Slot
        <3>3. CASE i < entries
            <4>1. Slot(i) # in
                BY <2>2, <3>3, MailboxAssumption DEF FifoExact, QueueOK, Slot
            <4>2. ring[Slot(i)] = handed + i + 1
                BY <2>2, <3>3 DEF FifoExact, QueueOK
            <4> QED
                BY <2>1, <2>2, <3>1, <4>1, <4>2 DEF QueueOK
        <3> QED
            BY <2>2, <3>2, <3>3 DEF QueueOK
    <2>5. FifoExact'
        BY <2>3, <2>4 DEF FifoExact
    <2>6. NobodyForgotten'
        BY <1>2, <2>1 DEF Enqueue, NobodyForgotten
    <2> QED
        BY <2>5, <2>6
<1> QED
    BY <1>1, <1>2 DEF OSQPost

LEMMA TakeOrder ==
    ASSUME QueueOK, FifoExact, NobodyForgotten, NEW t, Take(t),
           UNCHANGED <<alive, posted>>
    PROVE  FifoExact' /\ NobodyForgotten' /\ ring[out] = handed + 1
<1>1. /\ out' = NextSlot(out) /\ entries' = entries - 1 /\ entries > 0
      /\ handed' = handed + 1 /\ UNCHANGED <<ring, in, waiting, blocked>>
    BY DEF Take
<1>2. /\ entries' = posted' - handed'
      /\ in' = IF out' + entries' < Size THEN out' + entries'
                                        ELSE out' + entries' - Size
    BY <1>1, MailboxAssumption DEF FifoExact, QueueOK, NextSlot
<1>3. ASSUME NEW i \in 0..(entries' - 1)
      PROVE  ring'[Slot(i)'] = handed' + i + 1
    <2>1. i + 1 \in 0..(entries - 1) /\ Slot(i)' = Slot(i + 1)
        BY <1>1, MailboxAssumption DEF QueueOK, Slot, NextSlot
    <2>2. ring[Slot(i + 1)] = handed + (i + 1) + 1
        BY <2>1 DEF FifoExact
    <2> QED
        BY <1>1, <2>1, <2>2 DEF QueueOK
<1>4. FifoExact'
    BY <1>2, <1>3 DEF FifoExact
<1>5. NobodyForgotten'
    BY <1>1 DEF NobodyForgotten
<1>6. ring[out] = handed + 1
    <2>1. 0 \in 0..(entries - 1) /\ Slot(0) = out
        BY <1>1, MailboxAssumption DEF QueueOK, Slot
    <2> QED
        BY <2>1 DEF FifoExact, QueueOK
<1> QED
    BY <1>4, <1>5, <1>6

\* A step that leaves the ring, the counts and the wait list alone.
LEMMA OrderKept ==
    ASSUME FifoExact, NobodyForgotten,
           UNCHANGED <<qVars, posted, handed, waiting, blocked, alive>>
    PROVE  FifoExact' /\ NobodyForgotten'
<1>1. UNCHANGED <<ring, in, out, entries>>
    BY DEF qVars
<1>2. FifoExact'
    BY <1>1 DEF FifoExact, Slot
<1>3. NobodyForgotten'
    BY <1>1 DEF NobodyForgotten
<1> QED
    BY <1>2, <1>3

LEMMA OrderNext ==
    TypeOK /\ FifoExact /\ NobodyForgotten /\ [Next]_vars
        => FifoExact' /\ NobodyForgotten'
<1> SUFFICES ASSUME TypeOK, FifoExact, NobodyForgotten, [Next]_vars
             PROVE  FifoExact' /\ NobodyForgotten'
    OBVIOUS
<1>0. QueueOK /\ TasksOK
    BY TypeParts
<1>1. ASSUME NEW t \in Tasks, FetchStart(t) PROVE FifoExact' /\ NobodyForgotten'
    BY <1>1, OrderKept DEF FetchStart, tcbVars, history
<1>2. ASSUME NEW t \in Tasks, Pend(t) PROVE FifoExact' /\ NobodyForgotten'
    <2>1. UNCHANGED <<alive, posted>>
        BY <1>2 DEF Pend
    <2>2. CASE Take(t)
        BY <1>0, <2>1, <2>2, TakeOrder
    <2>3. CASE Block(t)
        <3>1. FifoExact'
            BY <2>1, <2>3 DEF Block, EventTaskWait, FifoExact, Slot, qVars
        <3>2. NobodyForgotten'
            BY <2>1, <2>3 DEF Block, EventTaskWait, NobodyForgotten, qVars
        <3> QED
            BY <3>1, <3>2
    <2>4. CASE NoQueue(t)
        BY <2>1, <2>4, OrderKept DEF NoQueue
    <2> QED
        BY <1>2, <2>2, <2>3, <2>4 DEF Pend
<1>3. ASSUME NEW t \in Tasks, Wake(t) PROVE FifoExact' /\ NobodyForgotten'
    <2>1. FifoExact'
        BY <1>3 DEF Wake, EventTaskRemove, FifoExact, Slot, qVars, history
    <2>2. NobodyForgotten'
        BY <1>3 DEF Wake, EventTaskRemove, NobodyForgotten, qVars
    <2> QED
        BY <2>1, <2>2
<1>4. ASSUME NEW t \in Tasks, Return(t) PROVE FifoExact' /\ NobodyForgotten'
    BY <1>4, OrderKept DEF Return
<1>5. ASSUME NEW t \in Tasks, Post(t) PROVE FifoExact' /\ NobodyForgotten'
    BY <1>0, <1>5, OSQPostOrder DEF Post
<1>6. CASE TryPost
    BY <1>0, <1>6, OSQPostOrder DEF TryPost
<1>7. ASSUME NEW t \in Tasks, PostStart(t) PROVE FifoExact' /\ NobodyForgotten'
    BY <1>7, OrderKept DEF PostStart, tcbVars, history
<1>8. ASSUME NEW t \in Tasks, Free(t) PROVE FifoExact' /\ NobodyForgotten'
    <2>1. FifoExact'
        BY <1>8 DEF Free, FifoExact, Slot, qVars, history
    <2>2. NobodyForgotten'
        BY <1>8 DEF Free, Aborted, NobodyForgotten
    <2> QED
        BY <2>1, <2>2
<1>9. CASE Tick
    <2>1. FifoExact'
        BY <1>9 DEF Tick, FifoExact, Slot, qVars
    <2>2. NobodyForgotten'
        BY <1>9 DEF Tick, NobodyForgotten, qVars
    <2> QED
        BY <2>1, <2>2
<1>10. CASE UNCHANGED vars
    BY <1>10, OrderKept DEF vars, tcbVars, history
<1> QED
    BY <1>1, <1>2, <1>3, <1>4, <1>5, <1>6, <1>7, <1>8, <1>9, <1>10
    DEF Next, TaskStep

LEMMA OrderInit == Init => FifoExact /\ NobodyForgotten
BY MailboxAssumption DEF Init, FifoExact, NobodyForgotten

\* OSQPost, OSQPend and OSQDel keep every mailbox a FIFO, whatever its size and
\* whoever posts from a task or an interrupt.
THEOREM MailboxIsFifo == Spec => []FifoExact
<1>1. Init => TypeOK /\ FifoExact /\ NobodyForgotten
    BY TypeInit, OrderInit
<1>2. TypeOK /\ FifoExact /\ NobodyForgotten /\ [Next]_vars
        => (TypeOK /\ FifoExact /\ NobodyForgotten)'
    BY TypeNext, OrderNext
<1> QED
    BY <1>1, <1>2, PTL DEF Spec

\* No task is left asleep in OSQPend while a message is queued, nor on a queue
\* that OSQDel has returned to the free list.
THEOREM NoSleeperForgotten == Spec => []NobodyForgotten
<1>1. Init => TypeOK /\ FifoExact /\ NobodyForgotten
    BY TypeInit, OrderInit
<1>2. TypeOK /\ FifoExact /\ NobodyForgotten /\ [Next]_vars
        => (TypeOK /\ FifoExact /\ NobodyForgotten)'
    BY TypeNext, OrderNext
<1> QED
    BY <1>1, <1>2, PTL DEF Spec

-----------------------------------------------------------------------------
(* Fetches: what a task holds while it is inside sys_arch_mbox_fetch       *)

\* A task has a message only from the moment it is handed one to its return; a
\* task in the wait list has none; and a task that is ready but still in the
\* wait list has timed out.  Only a blocked task has a delay that runs.
FetchOK ==
    \A t \in Tasks :
        /\ pc[t] \notin {"wait", "back"} => msg[t] = 0 /\ status[t] = "ok"
        /\ t \in waiting => pc[t] = "wait" /\ msg[t] = 0
        /\ t \in waiting \ blocked => status[t] = "timeout"
        /\ status[t] = "timeout" => msg[t] = 0
        /\ dly[t] > 0 => t \in blocked

\* A delay runs only while the task is blocked and covers what is left of the
\* timeout; a task that is awake with no message timed out or was aborted.
ReplyOK ==
    \A t \in Tasks :
        /\ dly[t] > 0 => /\ t \in blocked /\ limit[t] > 0
                         /\ waited[t] + dly[t] >= limit[t]
        /\ status[t] = "timeout" => limit[t] > 0 /\ waited[t] >= limit[t]
        /\ status[t] = "abort" => ~alive
        /\ pc[t] \in {"wait", "back"} /\ t \notin waiting /\ status[t] = "ok"
             => msg[t] # 0

FetchInv == TypeOK /\ FifoExact /\ NobodyForgotten /\ FetchOK /\ ExactlyOnce

\* The next message given to a task that holds none.
LEMMA GivenOnce ==
    ASSUME TasksOK, QueueOK, ExactlyOnce, NEW t \in Tasks, msg[t] = 0,
           msg' = [msg EXCEPT ![t] = handed + 1], handed' = handed + 1,
           UNCHANGED returned
    PROVE  ExactlyOnce'
<1>1. /\ msg'[t] = handed + 1
      /\ \A u \in Tasks \ {t} : msg'[u] = msg[u]
    BY DEF TasksOK
<1>2. /\ \A u \in Tasks : msg[u] \in 0..handed
      /\ returned \subseteq 1..handed
    <2>1. 1..handed = returned \cup ({msg[u] : u \in Tasks} \ {0})
        BY DEF ExactlyOnce
    <2>2. ASSUME NEW u \in Tasks PROVE msg[u] \in 0..handed
        <3>1. CASE msg[u] = 0
            BY <3>1 DEF QueueOK
        <3>2. CASE msg[u] # 0
            <4>1. msg[u] \in 1..handed
                BY <2>1, <3>2
            <4> QED
                BY <4>1 DEF QueueOK
        <3> QED
            BY <3>1, <3>2
    <2> QED
        BY <2>1, <2>2
<1>3. 1..handed' = returned' \cup ({msg'[u] : u \in Tasks} \ {0})
    <2>1. 1..handed = returned \cup ({msg[u] : u \in Tasks} \ {0})
        BY DEF ExactlyOnce
    <2>2. 1..(handed + 1) = (1..handed) \cup {handed + 1}
        BY DEF QueueOK
    <2>3. {msg'[u] : u \in Tasks} \ {0}
            = ({msg[u] : u \in Tasks} \ {0}) \cup {handed + 1}
        <3>1. ASSUME NEW m \in {msg'[u] : u \in Tasks}, m # 0
              PROVE  m \in ({msg[u] : u \in Tasks} \ {0}) \cup {handed + 1}
            BY <1>1, <3>1
        <3>2. ASSUME NEW m \in {msg[u] : u \in Tasks}, m # 0
              PROVE  m \in {msg'[u] : u \in Tasks}
            BY <1>1, <3>2
        <3>3. handed + 1 \in {msg'[u] : u \in Tasks} /\ handed + 1 # 0
            BY <1>1 DEF QueueOK
        <3> QED
            BY <3>1, <3>2, <3>3
    <2> QED
        BY <2>1, <2>2, <2>3
<1>4. ASSUME NEW u \in Tasks, msg'[u] # 0
      PROVE  /\ msg'[u] \notin returned'
             /\ \A v \in Tasks \ {u} : msg'[v] # msg'[u]
    <2>1. CASE u = t
        BY <1>1, <1>2, <2>1 DEF QueueOK
    <2>2. CASE u # t
        <3>1. msg[u] \notin returned /\ \A v \in Tasks \ {u} : msg[v] # msg[u]
            BY <1>1, <1>4, <2>2 DEF ExactlyOnce
        <3> QED
            BY <1>1, <1>2, <2>2, <3>1 DEF QueueOK
    <2> QED
        BY <2>1, <2>2
<1> QED
    BY <1>3, <1>4 DEF ExactlyOnce

LEMMA ReturnedOnce ==
    ASSUME TasksOK, ExactlyOnce, NEW t \in Tasks, Return(t)
    PROVE  ExactlyOnce'
<1>1. /\ msg'[t] = 0 /\ handed' = handed
      /\ \A u \in Tasks \ {t} : msg'[u] = msg[u]
      /\ returned' = returned \cup ({msg[t]} \ {0})
    BY DEF Return, TasksOK
<1>2. returned' \cup ({msg'[u] : u \in Tasks} \ {0})
        = returned \cup ({msg[u] : u \in Tasks} \ {0})
    <2>1. ASSUME NEW m \in {msg'[u] : u \in Tasks}, m # 0
          PROVE  m \in {msg[u] : u \in Tasks}
        BY <1>1, <2>1
    <2>2. ASSUME NEW m \in {msg[u] : u \in Tasks}, m # 0
          PROVE  m \in returned' \cup {msg'[u] : u \in Tasks}
        BY <1>1, <2>2
    <2> QED
        BY <1>1, <2>1, <2>2
<1>3. ASSUME NEW u \in Tasks, msg'[u] # 0
      PROVE  /\ msg'[u] \notin returned'
             /\ \A v \in Tasks \ {u} : msg'[v] # msg'[u]
    <2>1. u # t /\ msg[u] # 0
        BY <1>1, <1>3
    <2>2. msg[u] \notin returned /\ \A v \in Tasks \ {u} : msg[v] # msg[u]
        BY <2>1 DEF ExactlyOnce
    <2> QED
        BY <1>1, <2>1, <2>2
<1> QED
    BY <1>1, <1>2, <1>3 DEF ExactlyOnce

LEMMA OnceKept ==
    ASSUME ExactlyOnce, UNCHANGED <<msg, handed, returned>>
    PROVE  ExactlyOnce'
BY DEF ExactlyOnce

\* A successful OSQPost, by a task or an interrupt that changes no other pc.
LEMMA OSQPostFetch ==
    ASSUME FetchInv, OSQPost, UNCHANGED returned,
           \A t \in Tasks : pc'[t] = pc[t]
                            \/ (pc[t] = "post" /\ pc'[t] = "idle")
    PROVE  FetchOK' /\ ExactlyOnce'
<1>0. QueueOK /\ TasksOK
    BY TypeParts DEF FetchInv
<1>1. CASE HandOver
    <2>1. PICK u \in waiting : EventTaskRdy(u, posted + 1, "ok")
        BY <1>1 DEF HandOver
    <2>2. u \in Tasks /\ msg[u] = 0 /\ pc[u] = "wait"
        BY <1>0, <2>1 DEF FetchInv, FetchOK, TasksOK
    <2>3. posted = handed
        BY <1>0, <2>1 DEF FetchInv, FifoExact, NobodyForgotten, QueueOK
    <2>4. ExactlyOnce'
        BY <1>0, <1>1, <2>1, <2>2, <2>3, GivenOnce
        DEF FetchInv, HandOver, EventTaskRdy, EventTaskRemove
    <2>5. FetchOK'
        BY <1>0, <2>1, <2>2
        DEF FetchInv, FetchOK, EventTaskRdy, EventTaskRemove, TasksOK
    <2> QED
        BY <2>4, <2>5
<1>2. CASE Enqueue
    <2>1. UNCHANGED <<msg, status, waiting, blocked, dly, handed>>
        BY <1>2 DEF Enqueue, tcbVars
    <2>2. ExactlyOnce'
        BY <2>1, OnceKept DEF FetchInv
    <2>3. FetchOK'
        BY <2>1 DEF FetchInv, FetchOK
    <2> QED
        BY <2>2, <2>3
<1> QED
    BY <1>1, <1>2 DEF OSQPost

LEMMA FetchNext == FetchInv /\ [Next]_vars => FetchOK' /\ ExactlyOnce'
<1> SUFFICES ASSUME FetchInv, [Next]_vars PROVE FetchOK' /\ ExactlyOnce'
    OBVIOUS
<1>0. QueueOK /\ TasksOK /\ FetchOK /\ ExactlyOnce
    BY TypeParts DEF FetchInv
<1>1. ASSUME NEW t \in Tasks, FetchStart(t) PROVE FetchOK' /\ ExactlyOnce'
    <2>1. ExactlyOnce'
        BY <1>0, <1>1, OnceKept DEF FetchStart, tcbVars, history
    <2>2. FetchOK'
        BY <1>0, <1>1 DEF FetchStart, FetchOK, TasksOK, tcbVars
    <2> QED
        BY <2>1, <2>2
<1>2. ASSUME NEW t \in Tasks, Pend(t) PROVE FetchOK' /\ ExactlyOnce'
    <2>1. pc[t] = "pend" /\ msg[t] = 0 /\ status[t] = "ok" /\ t \notin waiting
        BY <1>0, <1>2 DEF Pend, FetchOK
    <2>2. UNCHANGED <<alive, posted, returned>>
        BY <1>2 DEF Pend
    <2>3. CASE Take(t)
        <3>1. ring[out] = handed + 1
            BY <1>0, <2>2, <2>3, TakeOrder DEF FetchInv
        <3>2. ExactlyOnce'
            BY <1>0, <2>1, <2>2, <2>3, <3>1, GivenOnce DEF Take
        <3>3. FetchOK'
            BY <1>0, <2>1, <2>3 DEF Take, FetchOK, TasksOK
        <3> QED
            BY <3>2, <3>3
    <2>4. CASE Block(t)
        <3>1. ExactlyOnce'
            BY <1>0, <2>2, <2>4, OnceKept DEF Block, EventTaskWait
        <3>2. FetchOK'
            BY <1>0, <2>1, <2>4 DEF Block, EventTaskWait, FetchOK, TasksOK
        <3> QED
            BY <3>1, <3>2
    <2>5. CASE NoQueue(t)
        <3>1. ExactlyOnce'
            BY <1>0, <2>2, <2>5, OnceKept DEF NoQueue
        <3>2. FetchOK'
            BY <1>0, <2>1, <2>5 DEF NoQueue, FetchOK, TasksOK
        <3> QED
            BY <3>1, <3>2
    <2> QED
        BY <1>2, <2>3, <2>4, <2>5 DEF Pend
<1>3. ASSUME NEW t \in Tasks, Wake(t) PROVE FetchOK' /\ ExactlyOnce'
    <2>1. UNCHANGED <<msg, handed, returned, status, blocked, dly>>
        BY <1>0, <1>3
        DEF Wake, EventTaskRemove, FetchOK, TasksOK, qVars, history
    <2>2. ExactlyOnce'
        BY <1>0, <2>1, OnceKept
    <2>3. t \notin waiting' /\ waiting' \subseteq waiting
        BY <1>0, <1>3 DEF Wake, EventTaskRemove, FetchOK
    <2>4. FetchOK'
        BY <1>0, <1>3, <2>1, <2>3 DEF Wake, EventTaskRemove, FetchOK, TasksOK
    <2> QED
        BY <2>2, <2>4
<1>4. ASSUME NEW t \in Tasks, Return(t) PROVE FetchOK' /\ ExactlyOnce'
    <2>1. ExactlyOnce'
        BY <1>0, <1>4, ReturnedOnce
    <2>2. FetchOK'
        BY <1>0, <1>4 DEF Return, FetchOK, TasksOK
    <2> QED
        BY <2>1, <2>2
<1>5. ASSUME NEW t \in Tasks, Post(t) PROVE FetchOK' /\ ExactlyOnce'
    <2>1. ASSUME NEW u \in Tasks
          PROVE  pc'[u] = pc[u] \/ (pc[u] = "post" /\ pc'[u] = "idle")
        <3>1. pc[t] = "post" /\ pc' = [pc EXCEPT ![t] = "idle"]
            BY <1>5 DEF Post
        <3> QED
            BY <1>0, <3>1 DEF TasksOK
    <2>2. OSQPost /\ UNCHANGED returned
        BY <1>5 DEF Post
    <2> QED
        BY <2>1, <2>2, OSQPostFetch
<1>6. CASE TryPost
    BY <1>6, OSQPostFetch DEF TryPost
<1>7. ASSUME NEW t \in Tasks, PostStart(t) PROVE FetchOK' /\ ExactlyOnce'
    <2>1. ExactlyOnce'
        BY <1>0, <1>7, OnceKept DEF PostStart, tcbVars, history
    <2>2. FetchOK'
        BY <1>0, <1>7 DEF PostStart, FetchOK, TasksOK, tcbVars
    <2> QED
        BY <2>1, <2>2
<1>8. ASSUME NEW t \in Tasks, Free(t) PROVE FetchOK' /\ ExactlyOnce'
    <2>1. \A u \in Tasks : msg'[u] = msg[u]
        BY <1>0, <1>8 DEF Free, Aborted, FetchOK
    <2>2. msg' = msg
        BY <1>0, <1>8, <2>1 DEF Free, TasksOK
    <2>3. ExactlyOnce'
        BY <1>0, <1>8, <2>2, OnceKept DEF Free, history
    <2>4. FetchOK'
        BY <1>0, <1>8, <2>2 DEF Free, Aborted, FetchOK, TasksOK
    <2> QED
        BY <2>3, <2>4
<1>9. CASE Tick
    <2>1. ExactlyOnce'
        BY <1>0, <1>9, OnceKept DEF Tick
    <2>2. \A u \in Tasks : u \in blocked => u \in waiting
        BY DEF FetchInv, NobodyForgotten
    <2>3. FetchOK'
        <3> SUFFICES ASSUME NEW u \in Tasks
                     PROVE  /\ pc'[u] \notin {"wait", "back"}
                                 => msg'[u] = 0 /\ status'[u] = "ok"
                            /\ u \in waiting' => pc'[u] = "wait" /\ msg'[u] = 0
                            /\ u \in waiting' \ blocked'
                                 => status'[u] = "timeout"
                            /\ status'[u] = "timeout" => msg'[u] = 0
                            /\ dly'[u] > 0 => u \in blocked'
            BY DEF FetchOK
        <3>1. UNCHANGED <<waiting, msg, pc>>
            BY <1>9 DEF Tick
        <3>2. CASE u \in Expiring
            <4>1. /\ u \notin blocked'
                  /\ status'[u] = IF u \in blocked THEN "timeout" ELSE "ok"
                BY <1>9, <3>2 DEF Tick, TickStatus
            <4>2. u \in waiting => u \in blocked
                BY <1>0, <3>2 DEF Expiring, FetchOK
            <4>3. dly'[u] = 0
                BY <1>9, <3>2 DEF Tick, Expiring
            <4> QED
                BY <1>0, <2>2, <3>1, <4>1, <4>2, <4>3 DEF FetchOK
        <3>3. CASE u \notin Expiring
            <4>1. status'[u] = status[u] /\ (u \in blocked' <=> u \in blocked)
                BY <1>9, <3>3 DEF Tick
            <4>2. dly'[u] > 0 => dly[u] > 0
                BY <1>0, <1>9 DEF Tick, TasksOK
            <4> QED
                BY <1>0, <3>1, <4>1, <4>2 DEF FetchOK
        <3> QED
            BY <3>2, <3>3
    <2> QED
        BY <2>1, <2>3
<1>10. CASE UNCHANGED vars
    <2>1. ExactlyOnce'
        BY <1>0, <1>10, OnceKept DEF vars, tcbVars, history
    <2>2. FetchOK'
        BY <1>0, <1>10 DEF FetchOK, vars, tcbVars
    <2> QED
        BY <2>1, <2>2
<1> QED
    BY <1>1, <1>2, <1>3, <1>4, <1>5, <1>6, <1>7, <1>8, <1>9, <1>10
    DEF Next, TaskStep

LEMMA FetchInit == Init => FetchInv
<1> SUFFICES ASSUME Init PROVE FetchOK /\ ExactlyOnce
    BY TypeInit, OrderInit DEF FetchInv
<1>1. FetchOK
    BY DEF Init, FetchOK
<1>2. ExactlyOnce
    <2>1. 1..handed = {} /\ returned = {} /\ \A t \in Tasks : msg[t] = 0
        BY DEF Init
    <2> QED
        BY <2>1 DEF ExactlyOnce
<1> QED
    BY <1>1, <1>2

\* The inductive invariant behind the theorems on fetches.
LEMMA FetchInductive == FetchInv /\ [Next]_vars => FetchInv'
BY TypeNext, OrderNext, FetchNext DEF FetchInv

\* No message that OSQPost accepted and OSQPend or OSQPost handed to a task is
\* lost to a timeout or a deletion of the same moment, and none is returned by
\* two fetches.
THEOREM MessagesReturnedOnce == Spec => []ExactlyOnce
<1>1. FetchInv => ExactlyOnce
    BY DEF FetchInv
<1> QED
    BY <1>1, FetchInit, FetchInductive, PTL DEF Spec

-----------------------------------------------------------------------------
(* Timeouts                                                                *)

ReplyInv == FetchInv /\ ReplyOK

\* ReplyOK of one task, for the steps that leave a task's own fields alone.
ReplyOf(t) ==
    /\ dly[t] > 0 => /\ t \in blocked /\ limit[t] > 0
                     /\ waited[t] + dly[t] >= limit[t]
    /\ status[t] = "timeout" => limit[t] > 0 /\ waited[t] >= limit[t]
    /\ status[t] = "abort" => ~alive
    /\ pc[t] \in {"wait", "back"} /\ t \notin waiting /\ status[t] = "ok"
         => msg[t] # 0

LEMMA ReplyParts == ReplyOK <=> \A t \in Tasks : ReplyOf(t)
BY DEF ReplyOK, ReplyOf

LEMMA ReplyPartsNext == (\A t \in Tasks : ReplyOf(t)') => ReplyOK'
BY DEF ReplyOK, ReplyOf

LEMMA ReplyKept ==
    ASSUME NEW t \in Tasks, ReplyOf(t), ~alive => ~alive',
           dly'[t] = dly[t], limit'[t] = limit[t], waited'[t] = waited[t],
           status'[t] = status[t], msg'[t] = msg[t],
           pc'[t] = pc[t] \/ (pc[t] = "wait" /\ pc'[t] = "back")
                          \/ pc'[t] \in {"post", "pend", "idle"},
           t \in blocked <=> t \in blocked', t \in waiting <=> t \in waiting'
    PROVE  ReplyOf(t)'
BY DEF ReplyOf

LEMMA OSQPostReply ==
    ASSUME ReplyInv, OSQPost, UNCHANGED <<alive, limit, waited>>,
           \A t \in Tasks : pc'[t] = pc[t]
                            \/ (pc[t] = "post" /\ pc'[t] = "idle")
    PROVE  ReplyOK'
<1>0. QueueOK /\ TasksOK /\ \A t \in Tasks : ReplyOf(t)
    BY TypeParts, ReplyParts DEF ReplyInv, FetchInv
<1>1. CASE HandOver
    <2>1. PICK u \in waiting : EventTaskRdy(u, posted + 1, "ok")
        BY <1>1 DEF HandOver
    <2>2. ReplyOf(u)'
        BY <1>0, <2>1
        DEF EventTaskRdy, EventTaskRemove, ReplyOf, TasksOK, QueueOK
    <2>3. ASSUME NEW t \in Tasks \ {u} PROVE ReplyOf(t)'
        <3>1. /\ dly'[t] = dly[t] /\ status'[t] = status[t] /\ msg'[t] = msg[t]
              /\ t \in blocked <=> t \in blocked'
              /\ t \in waiting <=> t \in waiting'
            BY <1>0, <2>1 DEF EventTaskRdy, EventTaskRemove, TasksOK
        <3> QED
            BY <1>0, <3>1, ReplyKept
    <2> QED
        BY <2>2, <2>3, ReplyPartsNext
<1>2. CASE Enqueue
    <2>1. UNCHANGED <<msg, status, waiting, blocked, dly>>
        BY <1>2 DEF Enqueue, tcbVars
    <2>2. ASSUME NEW t \in Tasks PROVE ReplyOf(t)'
        BY <1>0, <2>1, ReplyKept
    <2> QED
        BY <2>2, ReplyPartsNext
<1> QED
    BY <1>1, <1>2 DEF OSQPost

LEMMA ReplyNext == ReplyInv /\ [Next]_vars => ReplyOK'
<1> SUFFICES ASSUME ReplyInv, [Next]_vars PROVE ReplyOK'
    OBVIOUS
<1>0. /\ QueueOK /\ TasksOK /\ FetchOK /\ ReplyOK
      /\ \A t \in Tasks : ReplyOf(t)
    BY TypeParts, ReplyParts DEF ReplyInv, FetchInv
<1>1. ASSUME NEW t \in Tasks, FetchStart(t) PROVE ReplyOK'
    <2>1. msg[t] = 0 /\ status[t] = "ok" /\ t \notin waiting /\ t \notin blocked
        BY <1>0, <1>1
        DEF FetchStart, FetchOK, ReplyInv, FetchInv, NobodyForgotten
    <2>2. dly[t] = 0
        BY <1>0, <2>1 DEF FetchOK, TasksOK
    <2>3. ReplyOf(t)'
        BY <1>0, <1>1, <2>1, <2>2
        DEF FetchStart, ReplyOf, TasksOK, tcbVars, history
    <2>4. ASSUME NEW u \in Tasks \ {t} PROVE ReplyOf(u)'
        <3>1. pc'[u] = pc[u] /\ limit'[u] = limit[u]
            BY <1>0, <1>1 DEF FetchStart, TasksOK
        <3>2. UNCHANGED <<alive, tcbVars, waited>>
            BY <1>1 DEF FetchStart, history
        <3> QED
            BY <1>0, <3>1, <3>2, ReplyKept DEF tcbVars
    <2> QED
        BY <2>3, <2>4, ReplyPartsNext
<1>2. ASSUME NEW t \in Tasks, Pend(t) PROVE ReplyOK'
    <2>1. /\ pc[t] = "pend" /\ msg[t] = 0 /\ status[t] = "ok"
          /\ t \notin waiting /\ t \notin blocked
        BY <1>0, <1>2
        DEF Pend, FetchOK, ReplyInv, FetchInv, NobodyForgotten
    <2>2. UNCHANGED <<alive, posted, limit, waited>> /\ dly[t] = 0
        BY <1>0, <1>2, <2>1 DEF Pend, callVars, FetchOK, TasksOK
    <2>3. CASE Take(t)
        <3>1. ring[out] = handed + 1
            BY <1>0, <2>2, <2>3, TakeOrder DEF ReplyInv, FetchInv
        <3>2. ReplyOf(t)'
            BY <1>0, <2>1, <2>2, <2>3, <3>1
            DEF Take, ReplyOf, TasksOK, QueueOK
        <3>3. ASSUME NEW u \in Tasks \ {t} PROVE ReplyOf(u)'
            BY <1>0, <2>2, <2>3, ReplyKept DEF Take, TasksOK
        <3> QED
            BY <3>2, <3>3, ReplyPartsNext
    <2>4. CASE Block(t)
        <3>1. ReplyOf(t)'
            BY <1>0, <2>1, <2>2, <2>4, MailboxAssumption
            DEF Block, EventTaskWait, ReplyOf, TasksOK
        <3>2. ASSUME NEW u \in Tasks \ {t} PROVE ReplyOf(u)'
            BY <1>0, <2>2, <2>4, ReplyKept DEF Block, EventTaskWait, TasksOK
        <3> QED
            BY <3>1, <3>2, ReplyPartsNext
    <2>5. CASE NoQueue(t)
        <3>1. ReplyOf(t)'
            BY <1>0, <2>1, <2>2, <2>5 DEF NoQueue, ReplyOf, TasksOK
        <3>2. ASSUME NEW u \in Tasks \ {t} PROVE ReplyOf(u)'
            BY <1>0, <2>2, <2>5, ReplyKept DEF NoQueue, TasksOK
        <3> QED
            BY <3>1, <3>2, ReplyPartsNext
    <2> QED
        BY <1>2, <2>3, <2>4, <2>5 DEF Pend
<1>3. ASSUME NEW t \in Tasks, Wake(t) PROVE ReplyOK'
    <2>1. /\ UNCHANGED <<alive, blocked, status, dly, limit, waited>>
          /\ \A u \in Tasks : msg'[u] = msg[u]
        BY <1>0, <1>3
        DEF Wake, EventTaskRemove, FetchOK, TasksOK, callVars, history
    <2>2. ReplyOf(t)'
        BY <1>0, <1>3, <2>1 DEF Wake, EventTaskRemove, FetchOK, ReplyOf, TasksOK
    <2>3. ASSUME NEW u \in Tasks \ {t} PROVE ReplyOf(u)'
        <3>1. pc'[u] = pc[u] /\ (u \in waiting <=> u \in waiting')
            BY <1>0, <1>3 DEF Wake, EventTaskRemove, TasksOK
        <3> QED
            BY <1>0, <2>1, <3>1, ReplyKept
    <2> QED
        BY <2>2, <2>3, ReplyPartsNext
<1>4. ASSUME NEW t \in Tasks, Return(t) PROVE ReplyOK'
    <2>1. dly[t] = 0
        BY <1>0, <1>4
        DEF Return, FetchOK, TasksOK, ReplyInv, FetchInv, NobodyForgotten
    <2>2. ReplyOf(t)'
        BY <1>0, <1>4, <2>1 DEF Return, ReplyOf, TasksOK
    <2>3. ASSUME NEW u \in Tasks \ {t} PROVE ReplyOf(u)'
        <3>1. /\ pc'[u] = pc[u] /\ msg'[u] = msg[u] /\ status'[u] = status[u]
              /\ limit'[u] = limit[u] /\ waited'[u] = waited[u]
            BY <1>0, <1>4 DEF Return, TasksOK
        <3>2. UNCHANGED <<alive, waiting, blocked, dly>>
            BY <1>4 DEF Return
        <3> QED
            BY <1>0, <3>1, <3>2, ReplyKept
    <2> QED
        BY <2>2, <2>3, ReplyPartsNext
<1>5. ASSUME NEW t \in Tasks, Post(t) PROVE ReplyOK'
    <2>1. ASSUME NEW u \in Tasks
          PROVE  pc'[u] = pc[u] \/ (pc[u] = "post" /\ pc'[u] = "idle")
        <3>1. pc[t] = "post" /\ pc' = [pc EXCEPT ![t] = "idle"]
            BY <1>5 DEF Post
        <3> QED
            BY <1>0, <3>1 DEF TasksOK
    <2>2. OSQPost /\ UNCHANGED <<alive, limit, waited>>
        BY <1>5 DEF Post, callVars
    <2> QED
        BY <2>1, <2>2, OSQPostReply
<1>6. CASE TryPost
    BY <1>6, OSQPostReply DEF TryPost, callVars
<1>7. ASSUME NEW t \in Tasks, PostStart(t) PROVE ReplyOK'
    <2>1. /\ UNCHANGED <<alive, tcbVars, limit, waited>>
          /\ pc' = [pc EXCEPT ![t] = "post"]
        BY <1>7 DEF PostStart, callVars, history
    <2>2. ASSUME NEW u \in Tasks PROVE ReplyOf(u)'
        <3>1. pc'[u] = pc[u] \/ pc'[u] \in {"post", "pend", "idle"}
            BY <1>0, <2>1 DEF TasksOK
        <3> QED
            BY <1>0, <2>1, <3>1, ReplyKept DEF tcbVars
    <2> QED
        BY <2>2, ReplyPartsNext
<1>8. ASSUME NEW t \in Tasks, Free(t) PROVE ReplyOK'
    <2>1. /\ UNCHANGED <<pc, limit, waited>> /\ ~alive'
          /\ \A u \in Tasks : msg'[u] = msg[u]
        BY <1>0, <1>8 DEF Free, Aborted, FetchOK, callVars, history
    <2>2. ASSUME NEW u \in Tasks PROVE ReplyOf(u)'
        <3>1. CASE u \in waiting
            BY <1>8, <2>1, <3>1 DEF Free, Aborted, ReplyOf
        <3>2. CASE u \notin waiting
            <4>1. /\ dly'[u] = dly[u] /\ status'[u] = status[u]
                  /\ u \in blocked <=> u \in blocked'
                  /\ u \notin waiting'
                BY <1>8, <3>2 DEF Free, Aborted
            <4> QED
                BY <1>0, <2>1, <3>2, <4>1, ReplyKept
        <3> QED
            BY <3>1, <3>2
    <2> QED
        BY <2>2, ReplyPartsNext
<1>9. CASE Tick
    <2>1. UNCHANGED <<alive, waiting, msg, pc, limit>>
        BY <1>9 DEF Tick, callVars
    <2>2. ASSUME NEW u \in Tasks PROVE ReplyOf(u)'
        <3>0. /\ limit[u] \in 0..MaxWait /\ waited[u] \in 0..MaxWait
              /\ dly[u] \in 0..MaxWait /\ MaxWait \in Nat
              /\ dly[u] > 0 => limit[u] > 0 /\ waited[u] + dly[u] >= limit[u]
            BY <1>0, MailboxAssumption DEF TasksOK, ReplyOf
        <3>1. /\ waited'[u] \in 0..MaxWait /\ waited'[u] >= waited[u]
              /\ pc[u] = "wait" /\ waited[u] < MaxWait
                   => waited'[u] = waited[u] + 1
              /\ dly'[u] = IF dly[u] > 0 THEN dly[u] - 1 ELSE 0
            BY <1>0, <1>9, MailboxAssumption DEF Tick, TasksOK
        <3>2. dly[u] > 0 => pc[u] = "wait" /\ u \in blocked
            BY <1>0 DEF FetchOK, ReplyInv, FetchInv, NobodyForgotten
        <3>3. CASE u \in Expiring
            <4>1. dly[u] = 1 /\ status'[u] = "timeout" /\ dly'[u] = 0
                BY <1>9, <3>1, <3>2, <3>3 DEF Tick, Expiring, TickStatus
            <4>2. limit[u] > 0 /\ waited'[u] >= limit[u]
                BY <3>0, <3>1, <3>2, <4>1
            <4> QED
                BY <2>1, <4>1, <4>2 DEF ReplyOf
        <3>4. CASE u \notin Expiring
            <4>1. status'[u] = status[u] /\ (u \in blocked' <=> u \in blocked)
                BY <1>9, <3>4 DEF Tick
            <4>2. dly'[u] > 0 => /\ u \in blocked' /\ limit'[u] > 0
                                 /\ waited'[u] + dly'[u] >= limit'[u]
                BY <2>1, <3>0, <3>1, <3>2, <4>1
            <4>3. status'[u] = "timeout"
                    => limit'[u] > 0 /\ waited'[u] >= limit'[u]
                BY <1>0, <2>1, <3>1, <4>1, <1>9, MailboxAssumption
                DEF ReplyOf, TasksOK, Tick
            <4> QED
                BY <1>0, <2>1, <4>1, <4>2, <4>3 DEF ReplyOf
        <3> QED
            BY <3>3, <3>4
    <2> QED
        BY <2>2, ReplyPartsNext
<1>10. CASE UNCHANGED vars
    BY <1>0, <1>10 DEF ReplyOK, vars, tcbVars, callVars, history
<1> QED
    BY <1>1, <1>2, <1>3, <1>4, <1>5, <1>6, <1>7, <1>8, <1>9, <1>10
    DEF Next, TaskStep

LEMMA ReplyInit == Init => ReplyInv
BY FetchInit DEF Init, ReplyInv, ReplyOK

LEMMA ReplyInductive == ReplyInv /\ [Next]_vars => ReplyInv'
BY FetchInductive, ReplyNext DEF ReplyInv

\* sys_arch_mbox_fetch reports a timeout only after the ticks of the timeout it
\* was given, and comes back without a message only from a mailbox that was
\* freed, for every schedule, queue size and timeout.
THEOREM RepliesAreHonest == Spec => []HonestReply
<1>1. ReplyInv => HonestReply
    <2> SUFFICES ASSUME ReplyInv, NEW t \in Tasks, pc[t] = "back"
                 PROVE  /\ status[t] = "timeout"
                             => limit[t] > 0 /\ waited[t] >= limit[t]
                        /\ status[t] # "timeout" /\ msg[t] = 0 => ~alive
        BY DEF HonestReply
    <2>1. TasksOK /\ FetchOK /\ ReplyOf(t)
        BY TypeParts, ReplyParts DEF ReplyInv, FetchInv
    <2>2. t \notin waiting /\ status[t] \in {"ok", "timeout", "abort"}
        BY <2>1 DEF FetchOK, TasksOK
    <2> QED
        BY <2>1, <2>2 DEF ReplyOf
<1> QED
    BY <1>1, ReplyInit, ReplyInductive, PTL DEF Spec
=============================================================================
