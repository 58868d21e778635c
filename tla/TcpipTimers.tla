---------------------------- MODULE TcpipTimers -----------------------------
(***************************************************************************)
(* The timers of lwIP (timers.c).  tcpip_thread waits for messages in      *)
(* sys_timeouts_mbox_fetch() and runs the timers there, from a list in     *)
(* which each entry holds the time after the entry before it.  Time exists *)
(* only as what sys_arch_mbox_fetch() answers: a timeout, after the time   *)
(* of the first entry, or the milliseconds a message took - one too many,  *)
(* and 4294967 for a message fetched in the tick in which it was asked     *)
(* for, which is more than any timer.  A tick is a millisecond             *)
(* (OS_TICKS_PER_SEC); what happens while tcpip_thread works is not timed. *)
(* The TCP timer runs only while there are connections.                    *)
(***************************************************************************)
EXTENDS Integers, Sequences, SequencesExt

CONSTANTS
    Interval,    \* [Handler -> milliseconds]: IP_TMR_INTERVAL,
                 \* ARP_TMR_INTERVAL, TCP_TMR_INTERVAL
    SameTick,    \* 4294967
    MaxPcbs      \* TCP PCBs (MEMP_NUM_TCP_PCB)

\* The timers that reschedule themselves, and the TCP timer, which may not.
\* There are more structures (MEMP_NUM_SYS_TIMEOUT is 8) than timers.
Handler == {"ip_reass", "arp", "tcp"}

ASSUME TcpipTimersAssumption ==
    /\ Interval \in [Handler -> Nat \ {0}]
    /\ SameTick \in Nat /\ \A h \in Handler : Interval[h] <= SameTick
    /\ MaxPcbs \in Nat

VARIABLES
    list,      \* next_timeout: handlers and times
    active,    \* tcpip_tcp_timer_active
    pcbs,      \* PCBs in tcp_active_pcbs and tcp_tw_pcbs
    pc,        \* tcpip_thread: "again" at the label, "wait" in
               \* sys_arch_mbox_fetch, "message" in a handler of a message
    waited,    \* ticks since sys_arch_mbox_fetch was called
    \* history
    patience,  \* [handler -> ticks waited for messages since its timer was set]
    quiet,     \* handlers whose timer has seen no message since it was set
    last       \* the timer that ran last

vars == <<list, active, pcbs, pc, waited, patience, quiet, last>>

Entry(h, t) == [h |-> h, t |-> t]
Pending == {list[i].h : i \in DOMAIN list}

\* Mutant: the entry behind the new one keeps its time.
InsertedLoose(s, h, msecs) ==
    LET rest[i \in 0..Len(s)] == IF i = 0 THEN msecs ELSE rest[i - 1] - s[i].t
        Stop(i) == i = Len(s) \/ s[i + 1].t > rest[i]
        at == CHOOSE i \in 0..Len(s) : Stop(i) /\ \A j \in 0..(i - 1) : ~Stop(j)
    IN InsertAt(s, at + 1, Entry(h, rest[at]))
\* sys_timeout: the new entry goes in front of the first one whose time is more
\* than what is left of msecs, and takes its own time off that one's.
Inserted(s, h, msecs) ==
    LET rest[i \in 0..Len(s)] == IF i = 0 THEN msecs ELSE rest[i - 1] - s[i].t
        Stop(i) == i = Len(s) \/ s[i + 1].t > rest[i]
        at == CHOOSE i \in 0..Len(s) : Stop(i) /\ \A j \in 0..(i - 1) : ~Stop(j)
        next == [i \in DOMAIN s |-> IF i = at + 1
                                    THEN Entry(s[i].h, s[i].t - rest[at]) ELSE s[i]]
    IN InsertAt(next, at + 1, Entry(h, rest[at]))

\* sys_timeouts_init, from lwip_init, before tcpip_thread starts.
Init ==
    /\ list = Inserted(<<Entry("ip_reass", Interval["ip_reass"])>>,
                       "arp", Interval["arp"])
    /\ active = FALSE /\ pcbs = 0
    /\ pc = "again" /\ waited = 0
    /\ patience = [h \in Handler |-> 0]
    /\ quiet = {"ip_reass", "arp"}
    /\ last = "ip_reass"

\* sys_timeout(Interval[h], h) on list s.
Timeout(s, h) ==
    /\ list' = Inserted(s, h, Interval[h])
    /\ patience' = [patience EXCEPT ![h] = 0]
    /\ quiet' = quiet \cup {h}

Fetch ==
    /\ pc = "again" /\ Head(list).t > 0
    /\ pc' = "wait" /\ waited' = 0
    /\ UNCHANGED <<list, active, pcbs, patience, quiet, last>>

Tick ==
    /\ pc = "wait" /\ waited < Head(list).t
    /\ waited' = waited + 1
    /\ patience' = [h \in Handler |-> patience[h] + (IF h \in Pending THEN 1 ELSE 0)]
    /\ UNCHANGED <<list, active, pcbs, pc, quiet, last>>

\* Mutant: the time is measured and nothing added.
ElapsedPlain(k) == k
\* What sys_arch_mbox_fetch answers when the message came after k ticks.
Elapsed(k) == IF k = 0 THEN SameTick ELSE k + 1

\* Mutant: the time of the message is not taken off.
MessageFree ==
    /\ pc = "wait" /\ waited < Head(list).t
    /\ pc' = "message"
    /\ quiet' = {}
    /\ UNCHANGED <<list, active, pcbs, waited, patience, last>>
\* A message came before the timeout.
Message ==
    /\ pc = "wait" /\ waited < Head(list).t
    /\ LET t == Head(list).t
           e == Elapsed(waited)
       IN list' = [list EXCEPT ![1].t = IF e < t THEN t - e ELSE 0]
    /\ pc' = "message"
    /\ quiet' = {}
    /\ UNCHANGED <<active, pcbs, waited, patience, last>>

\* Mutant: the timer stops and stays marked as active.
TcpipTcpTimerMarked(n) ==
    /\ pcbs' = n
    /\ IF n > 0 THEN Timeout(Tail(list), "tcp")
       ELSE list' = Tail(list) /\ quiet' = quiet \ {"tcp"} /\ UNCHANGED patience
    /\ UNCHANGED active
\* tcpip_tcp_timer: tcp_tmr leaves n PCBs, and the timer goes on if there are any.
TcpipTcpTimer(n) ==
    /\ pcbs' = n
    /\ IF n > 0 THEN Timeout(Tail(list), "tcp") /\ UNCHANGED active
       ELSE /\ active' = FALSE
            /\ list' = Tail(list)
            /\ quiet' = quiet \ {"tcp"} /\ UNCHANGED patience

\* The first timer runs: its time is 0, or the fetch ended with a timeout.
Expire ==
    /\ \/ pc = "again" /\ Head(list).t = 0
       \/ pc = "wait" /\ waited = Head(list).t
    /\ last' = Head(list).h
    /\ pc' = "again"
    /\ IF Head(list).h = "tcp"
       THEN \E n \in 0..pcbs : TcpipTcpTimer(n)
       ELSE Timeout(Tail(list), Head(list).h) /\ UNCHANGED <<active, pcbs>>
    /\ UNCHANGED waited

\* TCP_REG of a new connection, which calls tcp_timer_needed.
Register ==
    /\ pc = "message" /\ pcbs < MaxPcbs
    /\ pcbs' = pcbs + 1
    /\ IF active THEN UNCHANGED <<list, active, patience, quiet>>
       ELSE active' = TRUE /\ Timeout(list, "tcp")
    /\ pc' = "again"
    /\ UNCHANGED <<waited, last>>

\* A connection goes (TCP_RMV); the timer is left to find that out.
Unregister ==
    /\ pc = "message" /\ pcbs > 0
    /\ pcbs' = pcbs - 1
    /\ pc' = "again"
    /\ UNCHANGED <<list, active, waited, patience, quiet, last>>

\* Any other message.
Handled ==
    /\ pc = "message"
    /\ pc' = "again"
    /\ UNCHANGED <<list, active, pcbs, waited, patience, quiet, last>>

Thread == Fetch \/ Expire \/ Register \/ Unregister \/ Handled

Next == Thread \/ Tick \/ Message

Spec == Init /\ [][Next]_vars

\* tcpip_thread has the highest priority of all tasks, and ticks come; messages
\* come, or do not.
FairSpec == Spec /\ WF_vars(Thread) /\ WF_vars(Tick)

-----------------------------------------------------------------------------
(* Properties                                                              *)

\* Every variable has its type.
TypeOK ==
    /\ list \in Seq([h : Handler, t : Nat])
    /\ active \in BOOLEAN /\ pcbs \in 0..MaxPcbs
    /\ pc \in {"again", "wait", "message"} /\ waited \in Nat
    /\ patience \in [Handler -> Nat] /\ quiet \subseteq Handler
    /\ last \in Handler

\* While there are connections the TCP timer is in the list, and no timer is in
\* it twice: connections that come and go around the run that stops the timer
\* neither lose it nor start a second one, and the flag always tells.
TcpTimerRuns ==
    /\ active <=> "tcp" \in Pending
    /\ pcbs > 0 => active
    /\ \A i, j \in DOMAIN list : list[i].h = list[j].h => i = j

\* A timer never runs later than it was set for, however the times in front of
\* it were cut by messages and other timers, and to the tick when no message
\* came; it is early only by what sys_arch_mbox_fetch overstates.
NeverLate ==
    /\ TypeOK
    /\ \A h \in Pending : patience[h] <= Interval[h]
    /\ \A h \in quiet : pc = "wait" /\ Head(list).h = h /\ waited = Head(list).t
                          => patience[h] = Interval[h]

\* However many messages come, every timer gets its turn: a flood does not stop
\* retransmission, the ARP cache or reassembly from ageing.
TimersFire ==
    /\ []<>(last = "ip_reass") /\ []<>(last = "arp")
    /\ pcbs > 0 ~> (last = "tcp" \/ pcbs = 0)

\* The time left of each timer, from the differences in the list.
Left ==
    LET sum[i \in 0..Len(list)] == IF i = 0 THEN 0 ELSE sum[i - 1] + list[i].t
    IN [h \in Pending |-> sum[CHOOSE i \in DOMAIN list : list[i].h = h]]

A == INSTANCE AlarmClock WITH Alarm <- Handler, left <- Left

\* The list of differences keeps the promise of AlarmClock: no insertion and no
\* message moves a timer against the others.
ImplementsAlarmClock == A!Spec
=============================================================================
