---------------------------- MODULE SocketTasks -----------------------------
(***************************************************************************)
(* The tasks of the download server and client, the descriptors they share *)
(* and the calls they make on netconns.                                    *)
(*                                                                         *)
(* A task is named by its priority; the lowest number that is ready runs.  *)
(* Console commands are served in the interrupt of timer 4, so they come   *)
(* between any two steps of any task.  A call is a message to tcpip_thread,*)
(* which outranks every task: its handler has run before the caller waits  *)
(* on op_completed, the one semaphore of the netconn.  The handler signals *)
(* it at once, or leaves the message in current_msg and a callback does.   *)
(***************************************************************************)
EXTENDS Integers, Sequences, FiniteSets, FiniteSetsExt

CONSTANTS
    NConn,     \* MEMP_NUM_NETCONN, which is NUM_SOCKETS
    MaxCmds,   \* bound: console commands in a behaviour
    MaxPeers,  \* bound: connections that peers of the server make
    Uses       \* what the board is used for: the alternatives to check

Features == {"server",  \* Socket_init is typed
             "client",  \* Init_Client is typed
             "talk",    \* Send_File_Name, Stop, Pause and Continue are typed
             "short"}   \* memory for TCP segments runs out

ASSUME SocketTasksAssumption ==
    /\ NConn \in Nat \ {0} /\ MaxCmds \in Nat /\ MaxPeers \in Nat
    /\ Uses \subseteq SUBSET Features

RevFile == 8
ConnectClient == 9
SocketTask == 10
StopTask == 11
SendName == 12
RevServer == 13
ConnectServer == 14
InitTask == 15

Task == 8..15
Receivers == {RevFile, RevServer}
Conn == 1..NConn
Fd == 0..(NConn - 1)
None == 0      \* no netconn, no task
Data == 0      \* in recvmbox; in acceptmbox a netconn is its number
Eof == -1      \* the NULL that recv_tcp and err_tcp post

VARIABLES
    pc,       \* what each task does; "off": no task of that priority
    at,       \* "run"; in a call: "fetch" on a mailbox, "posted" before
              \* OSSemPend, "asleep" in it, "back" from it
    on,       \* netconn of the running call
    fd,       \* descriptor of the running call; Rev_file_task: its sock_conn
    res,      \* what the running call returns
    paused,   \* OS_STAT_SUSPEND of Rev_Server_File_task
    socks,    \* sockets[i].conn
    sock_fd, sock_conn, sock_connect,
    state,    \* conn->state as NETCONN_*, or "free"
    pcb,      \* "null", "closed", "listen", "syn", "open", "fin"
    fatal,    \* ERR_IS_FATAL(conn->last_err)
    box,      \* recvmbox, or acceptmbox of the listener
    cur,      \* the task whose message is conn->current_msg
    sem,      \* count of op_completed
    use, cmds, peers

taskVars == <<pc, at, on, fd, res, paused>>
globals  == <<sock_fd, sock_conn, sock_connect>>
connVars == <<state, pcb, fatal, box, cur>>
budget   == <<use, cmds, peers>>
vars == <<taskVars, socks, globals, connVars, sem, budget>>

Init ==
    /\ pc = [t \in Task |-> "off"]
    /\ at = [t \in Task |-> "run"]
    /\ on = [t \in Task |-> None]
    /\ fd = [t \in Task |-> 0]
    /\ res = [t \in Task |-> "ok"]
    /\ paused = FALSE
    /\ socks = [s \in Fd |-> None]
    /\ sock_fd = 0 /\ sock_conn = 0 /\ sock_connect = 0
    /\ state = [c \in Conn |-> "free"]
    /\ pcb = [c \in Conn |-> "null"]
    /\ fatal = [c \in Conn |-> FALSE]
    /\ box = [c \in Conn |-> <<>>]
    /\ cur = [c \in Conn |-> None]
    /\ sem = [c \in Conn |-> 0]
    /\ use \in Uses /\ cmds = 0 /\ peers = 0

-----------------------------------------------------------------------------
(* Tasks and their scheduling                                              *)

\* netconn_drain deletes the mailbox of a netconn that is closed.
HasBox(c) == /\ state[c] \notin {"free", "close"}
             /\ pcb[c] # "null" \/ fatal[c]

Blocked(t) ==
    \/ at[t] = "asleep"
    \/ at[t] = "fetch" /\ HasBox(on[t]) /\ box[on[t]] = <<>>
    \/ t = RevServer /\ paused
Ready(t) == pc[t] # "off" /\ ~Blocked(t)
MayRun(t) == Ready(t) /\ \A u \in Task : u < t => ~Ready(u)

\* The first call of each task.
Starts == [t \in Task |->
    CASE t = RevFile -> "begin"
      [] t = ConnectClient -> "accept"
      [] t = SocketTask -> "socket"
      [] t \in {StopTask, SendName} -> "send"
      [] t = RevServer -> "recv"
      [] t = ConnectServer -> "connect"
      [] t = InitTask -> "close"]

\* OSTaskCreate refuses a priority that has a task: p after it.
Created(p, t) == IF p[t] = "off" THEN [p EXCEPT ![t] = Starts[t]] ELSE p

Goto(t, l) == [pc EXCEPT ![t] = l]

\* OSTaskDel(OS_PRIO_SELF)
Ends(t) ==
    /\ MayRun(t) /\ pc[t] = "end"
    /\ pc' = Goto(t, "off")
    /\ fd' = [fd EXCEPT ![t] = 0]
    /\ UNCHANGED <<at, on, res, paused, socks, globals, connVars, sem, budget>>

-----------------------------------------------------------------------------
(* Calls: tcpip_apimsg, and the semaphore of the netconn                   *)

\* The netconn that get_socket finds.
ConnAt(s) == IF s \in Fd THEN socks[s] ELSE None

Waiting(c) == {t \in Task : at[t] = "asleep" /\ on[t] = c}

\* sys_sem_signal: OSSemPost readies the waiter of the highest priority, or
\* counts.  w is at with what else the step does to it.
Signal(c, w) ==
    IF Waiting(c) = {}
    THEN at' = w /\ sem' = [sem EXCEPT ![c] = @ + 1]
    ELSE at' = [w EXCEPT ![Min(Waiting(c))] = "back"] /\ UNCHANGED sem

Posted(t, c) ==
    /\ on' = [on EXCEPT ![t] = c]
    /\ Signal(c, [at EXCEPT ![t] = "posted"])

PostedUnanswered(t, c) ==
    /\ on' = [on EXCEPT ![t] = c]
    /\ at' = [at EXCEPT ![t] = "posted"]
    /\ cur' = [cur EXCEPT ![c] = t]
    /\ UNCHANGED sem

\* sys_arch_sem_wait; a deleted semaphore is refused, which it ignores.
Pends(t) ==
    /\ MayRun(t) /\ at[t] = "posted"
    /\ IF sem[on[t]] > 0 \/ state[on[t]] = "free"
       THEN /\ at' = [at EXCEPT ![t] = "back"]
            /\ sem' = [sem EXCEPT ![on[t]] = IF @ > 0 THEN @ - 1 ELSE @]
       ELSE at' = [at EXCEPT ![t] = "asleep"] /\ UNCHANGED sem
    /\ UNCHANGED <<pc, on, fd, res, paused, socks, globals, connVars, budget>>

Back(t, l) == MayRun(t) /\ at[t] = "back" /\ pc[t] = l
Calls(t, l) == MayRun(t) /\ at[t] = "run" /\ pc[t] = l
Running(t) == [at EXCEPT ![t] = "run"]
Result(t, r) == [res EXCEPT ![t] = r]

-----------------------------------------------------------------------------
(* recv, send and the loops of the receiving tasks                         *)

\* Rev_file_task has its copy of sock_conn, the others read sock_connect.
SocketOf(t) == IF t = RevFile THEN fd[t] ELSE sock_connect

\* Rev_file_task reads *psock_conn.
Begins(t) ==
    /\ t = RevFile /\ Calls(t, "begin")
    /\ fd' = [fd EXCEPT ![t] = sock_conn]
    /\ pc' = Goto(t, "recv")
    /\ UNCHANGED <<at, on, res, paused, socks, globals, connVars, sem, budget>>

\* Netconns that netconn_recv_data waits on.
Receivable == {c \in Conn : HasBox(c) /\ ~fatal[c]}

Receiving(t) == t \in Receivers /\ pc[t] \in {"recv", "more"}

\* recv gives data: the header or the frame is complete, or not.
AfterData == {"more", "answer"}
\* recv gives -1: at the start of a frame the loop ends.  Inside a frame the
\* -1 is added to the length, which then fits the frame or leaves the range.
AfterError(l) == IF l = "recv" THEN {"close"} ELSE {"answer", "close"}

RecvRefused(t) ==
    /\ MayRun(t) /\ at[t] = "run" /\ Receiving(t)
    /\ ConnAt(SocketOf(t)) \notin Receivable
    /\ \E l \in AfterError(pc[t]) : pc' = Goto(t, l)
    /\ UNCHANGED <<at, on, fd, res, paused, socks, globals, connVars, sem, budget>>

RecvWaits(t) ==
    /\ MayRun(t) /\ at[t] = "run" /\ Receiving(t)
    /\ ConnAt(SocketOf(t)) \in Receivable
    /\ on' = [on EXCEPT ![t] = ConnAt(SocketOf(t))]
    /\ at' = [at EXCEPT ![t] = "fetch"]
    /\ UNCHANGED <<pc, fd, res, paused, socks, globals, connVars, sem, budget>>

\* The fetch returns, with NULL when the mailbox was deleted; then do_recv.
Fetches(t) ==
    /\ MayRun(t) /\ at[t] = "fetch" /\ Receiving(t)
    /\ LET c == on[t]
           got == HasBox(c) /\ Head(box[c]) # Eof
       IN /\ res' = Result(t, IF got THEN "ok" ELSE "eof")
          /\ box' = IF HasBox(c) THEN [box EXCEPT ![c] = Tail(@)] ELSE box
          /\ Posted(t, c)
    /\ UNCHANGED <<pc, fd, paused, socks, globals, state, pcb, fatal, cur, budget>>

RecvReturns(t) ==
    /\ Receiving(t) /\ Back(t, pc[t])
    /\ IF res[t] = "ok"
       THEN /\ \E l \in AfterData : pc' = Goto(t, l)
            /\ UNCHANGED fatal
       ELSE /\ pc' = Goto(t, "close")
            /\ fatal' = [fatal EXCEPT ![on[t]] = state[on[t]] # "free"]
    /\ at' = Running(t)
    /\ on' = [on EXCEPT ![t] = None]
    /\ res' = Result(t, "ok")
    /\ UNCHANGED <<fd, paused, socks, globals, state, pcb, box, cur, sem, budget>>

\* Rev_Server_File_task leaves its loop when it has refused a frame.
AfterSend(t) == CASE t = RevFile -> {"recv"}
                  [] t = RevServer -> {"recv", "close"}
                  [] OTHER -> {"end"}

Sends(t) == pc[t] \in {"answer", "send"}

\* do_write: what is written at once, or refused, is answered at once.
Written(t, c) ==
    LET able == ~fatal[c] /\ state[c] = "none" /\ pcb[c] # "null"
    IN \/ /\ res' = Result(t, IF able THEN "ok" ELSE "err")
          /\ Posted(t, c)
          /\ UNCHANGED <<state, cur>>
       \/ /\ able /\ "short" \in use
          /\ state' = [state EXCEPT ![c] = "write"]
          /\ PostedUnanswered(t, c)
          /\ UNCHANGED res

Writes(t) ==
    /\ MayRun(t) /\ at[t] = "run" /\ Sends(t)
    /\ IF ConnAt(SocketOf(t)) = None
       THEN /\ \E l \in AfterSend(t) : pc' = Goto(t, l)
            /\ UNCHANGED <<at, on, res, state, cur, sem>>
       ELSE Written(t, ConnAt(SocketOf(t))) /\ UNCHANGED pc
    /\ UNCHANGED <<fd, paused, socks, globals, pcb, fatal, box, budget>>

SendReturns(t) ==
    /\ Sends(t) /\ Back(t, pc[t])
    /\ \E l \in AfterSend(t) : pc' = Goto(t, l)
    /\ at' = Running(t)
    /\ on' = [on EXCEPT ![t] = None]
    /\ res' = Result(t, "ok")
    /\ UNCHANGED <<fd, paused, socks, globals, connVars, sem, budget>>

-----------------------------------------------------------------------------
(* close                                                                   *)

\* Where a task goes on when close has returned.
Closed(t) == CASE t = RevFile -> Created(Goto(t, "end"), ConnectClient)
               [] t = InitTask -> Goto(t, "socket")
               [] OTHER -> Goto(t, "end")

\* do_delconn and do_close_internal on netconn c, for the message of t.  A
\* netconn in a call of another task is refused; pending connections of a
\* listener go with it.
Deletes(t, c) ==
    IF state[c] \notin {"none", "listen", "connect"}
    THEN Posted(t, c) /\ UNCHANGED connVars
    ELSE LET pending == {box[c][i] : i \in DOMAIN box[c]} \ {Data, Eof}
         IN /\ box' = [n \in Conn |-> IF n = c \/ n \in pending THEN <<>> ELSE box[n]]
            /\ fatal' = [n \in Conn |-> fatal[n] /\ n \notin pending]
            /\ \/ /\ Posted(t, c)
                  /\ pcb' = [n \in Conn |-> IF n = c \/ n \in pending THEN "null" ELSE pcb[n]]
                  /\ state' = [n \in Conn |-> IF n \in pending THEN "free"
                                              ELSE IF n = c THEN "none" ELSE state[n]]
                  /\ cur' = [cur EXCEPT ![c] = None]
               \/ /\ "short" \in use /\ pcb[c] \in {"open", "fin"}
                  /\ state' = [state EXCEPT ![c] = "close"]
                  /\ PostedUnanswered(t, c)
                  /\ UNCHANGED pcb

\* netconn_free, and OSSemDel in it: it looks at nothing else.
Freed(c) ==
    /\ state' = [state EXCEPT ![c] = "free"]
    /\ fatal' = [fatal EXCEPT ![c] = FALSE]
    /\ sem' = [sem EXCEPT ![c] = 0]
    /\ UNCHANGED <<pcb, box, cur>>

CloseRefused(t) ==
    /\ Calls(t, "close") /\ ConnAt(SocketOf(t)) = None
    /\ pc' = Closed(t)
    /\ UNCHANGED <<at, on, fd, res, paused, socks, globals, connVars, sem, budget>>

Closes(t) ==
    /\ Calls(t, "close") /\ ConnAt(SocketOf(t)) # None
    /\ fd' = [fd EXCEPT ![t] = SocketOf(t)]
    /\ Deletes(t, ConnAt(SocketOf(t)))
    /\ UNCHANGED <<pc, res, paused, socks, globals, budget>>

\* netconn_delete goes on whatever do_delconn answered.
CloseFrees(t) ==
    /\ Back(t, "close")
    /\ Freed(on[t])
    /\ pc' = Goto(t, "closed")
    /\ at' = [u \in Task |-> IF u = t THEN "run"
                         ELSE IF u \in Waiting(on[t]) THEN "back" ELSE at[u]]
    /\ on' = [on EXCEPT ![t] = None]
    /\ UNCHANGED <<fd, res, paused, socks, globals, budget>>

\* free_socket, and the task goes on.
CloseReturns(t) ==
    /\ Calls(t, "closed")
    /\ socks' = [socks EXCEPT ![fd[t]] = None]
    /\ fd' = [fd EXCEPT ![t] = 0]
    /\ pc' = Closed(t)
    /\ UNCHANGED <<at, on, res, paused, globals, connVars, sem, budget>>

-----------------------------------------------------------------------------
(* Socket_task and Connect_client_task                                     *)

FreeConn == {c \in Conn : state[c] = "free"}
FreeFd == {s \in Fd : socks[s] = None}
Listening == {c \in Conn : pcb[c] = "listen"}

\* socket() of task t: lwip_socket takes the first free netconn and
\* descriptor.  The netconn is not known to any other task.
Opened(how, p) ==
    /\ state' = [state EXCEPT ![Min(FreeConn)] = how]
    /\ pcb' = [pcb EXCEPT ![Min(FreeConn)] = p]
    /\ socks' = [socks EXCEPT ![Min(FreeFd)] = Min(FreeConn)]

NoSocket == FreeConn = {} \/ FreeFd = {}

\* socket, bind and listen; bind is refused while another listener has the port.
OpensListener(t) ==
    /\ t = SocketTask /\ Calls(t, "socket")
    /\ IF NoSocket
       THEN /\ sock_fd' = -1 /\ pc' = Goto(t, "end")
            /\ UNCHANGED <<state, pcb, socks>>
       ELSE /\ sock_fd' = Min(FreeFd)
            /\ IF Listening = {}
               THEN Opened("listen", "listen") /\ pc' = Goto(t, "spawn")
               ELSE Opened("none", "closed") /\ pc' = Goto(t, "end")
    /\ UNCHANGED <<at, on, fd, res, paused, sock_conn, sock_connect, fatal, box, cur,
                   sem, budget>>

\* The next task of a chain.
Successor == [t \in {SocketTask, ConnectClient, InitTask, ConnectServer} |->
    CASE t = SocketTask -> ConnectClient
      [] t = ConnectClient -> RevFile
      [] t = InitTask -> ConnectServer
      [] t = ConnectServer -> RevServer]

Spawns(t) ==
    /\ t \in DOMAIN Successor /\ Calls(t, "spawn")
    /\ pc' = Created(Goto(t, "end"), Successor[t])
    /\ UNCHANGED <<at, on, fd, res, paused, socks, globals, connVars, sem, budget>>

\* accept waits on a listener and fails on any other socket.
EntersAccept(t) ==
    /\ t = ConnectClient /\ Calls(t, "accept")
    /\ IF ConnAt(sock_fd) \in Listening
       THEN /\ on' = [on EXCEPT ![t] = ConnAt(sock_fd)]
            /\ at' = [at EXCEPT ![t] = "fetch"]
            /\ UNCHANGED <<pc, sock_conn>>
       ELSE /\ sock_conn' = -1
            /\ pc' = Goto(t, "opts")
            /\ UNCHANGED <<on, at>>
    /\ UNCHANGED <<fd, res, paused, socks, sock_fd, sock_connect, connVars, sem, budget>>

\* A pending netconn is taken and netconn_peer asks for its address, which it
\* has lost when its peer has reset it.  A listener that was closed gives NULL.
Accepts(t) ==
    /\ t = ConnectClient /\ MayRun(t) /\ at[t] = "fetch"
    /\ IF HasBox(on[t])
       THEN LET n == Head(box[on[t]])
            IN /\ box' = [box EXCEPT ![on[t]] = Tail(@)]
               /\ res' = Result(t, IF pcb[n] = "null" THEN "err" ELSE "ok")
               /\ Posted(t, n)
               /\ UNCHANGED <<pc, sock_conn>>
       ELSE /\ at' = Running(t)
            /\ on' = [on EXCEPT ![t] = None]
            /\ sock_conn' = -1
            /\ pc' = Goto(t, "opts")
            /\ UNCHANGED <<box, res, sem>>
    /\ UNCHANGED <<fd, paused, socks, sock_fd, sock_connect, state, pcb, fatal, cur,
                   budget>>

\* alloc_socket, or netconn_delete.
AcceptReturns(t) ==
    /\ t = ConnectClient /\ Back(t, "accept")
    /\ IF res[t] = "ok" /\ FreeFd # {}
       THEN /\ socks' = [socks EXCEPT ![Min(FreeFd)] = on[t]]
            /\ sock_conn' = Min(FreeFd)
            /\ pc' = Goto(t, "opts")
            /\ at' = Running(t)
            /\ on' = [on EXCEPT ![t] = None]
            /\ UNCHANGED <<connVars, sem>>
       ELSE /\ Deletes(t, on[t])
            /\ pc' = Goto(t, "drop")
            /\ UNCHANGED <<socks, sock_conn>>
    /\ res' = Result(t, "ok")
    /\ UNCHANGED <<fd, paused, sock_fd, sock_connect, budget>>

Drops(t) ==
    /\ t = ConnectClient /\ Back(t, "drop")
    /\ Freed(on[t])
    /\ at' = Running(t)
    /\ on' = [on EXCEPT ![t] = None]
    /\ sock_conn' = -1
    /\ pc' = Goto(t, "opts")
    /\ UNCHANGED <<fd, res, paused, socks, sock_fd, sock_connect, budget>>

\* The descriptor whose options a connecting task sets.
Chosen(t) == IF t = ConnectClient THEN sock_conn ELSE sock_connect

\* setsockopt, four times.
SetsOptions(t) ==
    /\ t \in {ConnectClient, ConnectServer} /\ Calls(t, "opts")
    /\ IF ConnAt(Chosen(t)) = None
       THEN pc' = Goto(t, "spawn") /\ UNCHANGED <<at, on, sem>>
       ELSE Posted(t, ConnAt(Chosen(t))) /\ UNCHANGED pc
    /\ UNCHANGED <<fd, res, paused, socks, globals, connVars, budget>>

OptionsSet(t) ==
    /\ t \in {ConnectClient, ConnectServer} /\ Back(t, "opts")
    /\ pc' = Goto(t, "spawn")
    /\ at' = Running(t)
    /\ on' = [on EXCEPT ![t] = None]
    /\ UNCHANGED <<fd, res, paused, socks, globals, connVars, sem, budget>>

-----------------------------------------------------------------------------
(* Init_Client_task and Connect_Server_task                                *)

OpensClient(t) ==
    /\ t = InitTask /\ Calls(t, "socket")
    /\ IF NoSocket
       THEN /\ sock_connect' = -1 /\ pc' = Goto(t, "end")
            /\ UNCHANGED <<state, pcb, socks>>
       ELSE /\ sock_connect' = Min(FreeFd)
            /\ Opened("none", "closed") /\ pc' = Goto(t, "spawn")
    /\ UNCHANGED <<at, on, fd, res, paused, sock_fd, sock_conn, fatal, box, cur, sem,
                   budget>>

\* Mutant: do_connect answers as soon as the SYN is sent.
ConnectsAtOnce(t) ==
    /\ t = ConnectServer /\ Calls(t, "connect")
    /\ LET c == ConnAt(sock_connect)
       IN /\ c # None
          /\ Posted(t, c)
          /\ state' = [state EXCEPT ![c] = "connect"]
          /\ pcb' = [pcb EXCEPT ![c] = "syn"]
    /\ UNCHANGED <<pc, fd, res, paused, socks, globals, fatal, box, cur, budget>>

\* A descriptor that is closed fails at once.  do_connect: refused, failed by
\* tcp_connect, or the SYN is sent; err keeps the ERR_OK of tcp_connect.
Connects(t) ==
    /\ t = ConnectServer /\ Calls(t, "connect")
    /\ LET c == ConnAt(sock_connect)
       IN \/ /\ c = None
             /\ pc' = Goto(t, "close")
             /\ UNCHANGED <<at, on, res, state, pcb, cur, sem>>
          \/ /\ c # None
             /\ Posted(t, c)
             /\ res' = Result(t, "err")
             /\ UNCHANGED <<pc, state, pcb, cur>>
          \/ /\ c # None /\ state[c] = "none" /\ pcb[c] = "closed"
             /\ state' = [state EXCEPT ![c] = "connect"]
             /\ pcb' = [pcb EXCEPT ![c] = "syn"]
             /\ PostedUnanswered(t, c)
             /\ UNCHANGED <<pc, res>>
    /\ UNCHANGED <<fd, paused, socks, globals, fatal, box, budget>>

\* Mutant: a failed connect leaves its socket open.
ConnectGivesUp(t) ==
    /\ t = ConnectServer /\ Back(t, "connect")
    /\ pc' = Goto(t, IF res[t] = "ok" THEN "opts" ELSE "end")
    /\ at' = Running(t)
    /\ on' = [on EXCEPT ![t] = None]
    /\ res' = Result(t, "ok")
    /\ UNCHANGED <<fd, paused, socks, globals, connVars, sem, budget>>

ConnectReturns(t) ==
    /\ t = ConnectServer /\ Back(t, "connect")
    /\ pc' = Goto(t, IF res[t] = "ok" THEN "opts" ELSE "close")
    /\ at' = Running(t)
    /\ on' = [on EXCEPT ![t] = None]
    /\ res' = Result(t, "ok")
    /\ UNCHANGED <<fd, paused, socks, globals, connVars, sem, budget>>

TaskStep(t) ==
    \/ Begins(t) \/ RecvRefused(t) \/ RecvWaits(t) \/ Fetches(t) \/ RecvReturns(t)
    \/ Writes(t) \/ SendReturns(t)
    \/ CloseRefused(t) \/ Closes(t) \/ CloseFrees(t) \/ CloseReturns(t)
    \/ OpensListener(t) \/ EntersAccept(t) \/ Accepts(t)
    \/ AcceptReturns(t) \/ Drops(t)
    \/ SetsOptions(t) \/ OptionsSet(t) \/ Spawns(t)
    \/ OpensClient(t) \/ Connects(t) \/ ConnectReturns(t)
    \/ Pends(t) \/ Ends(t)

-----------------------------------------------------------------------------
(* Console commands, in the interrupt of timer 4                           *)

Command(feature) ==
    /\ feature \in use /\ cmds < MaxCmds
    /\ cmds' = cmds + 1
    /\ UNCHANGED <<at, on, fd, res, socks, globals, connVars, sem, use, peers>>

\* A task of that name that has not ended makes the command do nothing.
Socket_init ==
    /\ Command("server")
    /\ pc' = Created(pc, SocketTask)
    /\ UNCHANGED paused

Init_Client ==
    /\ Command("client")
    /\ pc' = Created(pc, InitTask)
    /\ UNCHANGED paused

Send_File_Name ==
    /\ Command("talk")
    /\ pc' = Created(pc, SendName)
    /\ UNCHANGED paused

Stop_Download ==
    /\ Command("talk")
    /\ paused' = FALSE
    /\ pc' = Created(pc, StopTask)

\* OSTaskSuspend refuses a priority that has no task.
Pause_Download ==
    /\ Command("talk")
    /\ paused' = (pc[RevServer] # "off")
    /\ UNCHANGED pc

Continue_Download ==
    /\ Command("talk")
    /\ paused' = FALSE
    /\ UNCHANGED pc

Commands == \/ Socket_init \/ Init_Client \/ Send_File_Name
            \/ Stop_Download \/ Pause_Download \/ Continue_Download

-----------------------------------------------------------------------------
(* Callbacks of TCP, in tcpip_thread                                       *)

\* accept_function; a listener without a netconn to give aborts the peer.
PeerConnects ==
    /\ peers < MaxPeers
    /\ \E c \in Listening :
        /\ FreeConn # {}
        /\ state' = [state EXCEPT ![Min(FreeConn)] = "none"]
        /\ pcb' = [pcb EXCEPT ![Min(FreeConn)] = "open"]
        /\ box' = [box EXCEPT ![c] = Append(@, Min(FreeConn))]
    /\ peers' = peers + 1
    /\ UNCHANGED <<taskVars, socks, globals, fatal, cur, sem, use, cmds>>

\* recv_tcp, with one message at a time in the mailbox; none after tcp_recv
\* was reset.
DataArrives(c) ==
    /\ pcb[c] = "open" /\ HasBox(c) /\ box[c] = <<>>
    /\ box' = [box EXCEPT ![c] = Append(@, Data)]
    /\ UNCHANGED <<taskVars, socks, globals, state, pcb, fatal, cur, sem, budget>>

FinArrives(c) ==
    /\ pcb[c] = "open" /\ HasBox(c)
    /\ pcb' = [pcb EXCEPT ![c] = "fin"]
    /\ box' = [box EXCEPT ![c] = Append(@, Eof)]
    /\ UNCHANGED <<taskVars, socks, globals, state, fatal, cur, sem, budget>>

\* Mutant: err_tcp answers whether or not a call waits.
AbortsAndAnswers(c) ==
    /\ pcb[c] \in {"syn", "open", "fin"}
    /\ pcb' = [pcb EXCEPT ![c] = "null"]
    /\ fatal' = [fatal EXCEPT ![c] = TRUE]
    /\ state' = [state EXCEPT ![c] = "none"]
    /\ box' = IF HasBox(c) THEN [box EXCEPT ![c] = Append(@, Eof)] ELSE box
    /\ cur' = [cur EXCEPT ![c] = None]
    /\ Signal(c, at)
    /\ UNCHANGED <<pc, on, fd, res, paused, socks, globals, budget>>

\* Mutant: err_tcp leaves a call that waits for the connection waiting.
AbortsInSilence(c) ==
    /\ pcb[c] \in {"syn", "open", "fin"}
    /\ pcb' = [pcb EXCEPT ![c] = "null"]
    /\ fatal' = [fatal EXCEPT ![c] = TRUE]
    /\ state' = [state EXCEPT ![c] = "none"]
    /\ box' = IF HasBox(c) THEN [box EXCEPT ![c] = Append(@, Eof)] ELSE box
    /\ UNCHANGED <<pc, at, on, fd, res, paused, socks, globals, cur, sem, budget>>

\* Mutant: err_tcp gives the netconn back.
AbortsAndFrees(c) ==
    /\ pcb[c] \in {"syn", "open", "fin"}
    /\ pcb' = [pcb EXCEPT ![c] = "null"]
    /\ state' = [state EXCEPT ![c] = "free"]
    /\ box' = [box EXCEPT ![c] = <<>>]
    /\ UNCHANGED <<taskVars, socks, globals, fatal, cur, sem, budget>>

\* Mailboxes that may have been made from the one that do_delconn deleted.  (A
\* netconn that was reset has its NULL already.)
Strays == {d \in Conn : HasBox(d) /\ pcb[d] \in {"closed", "syn", "open", "fin"}}

\* err_tcp: a reset, or a peer that the retries or the probes gave up.  The
\* NULL for a netconn whose close waits goes through the handle of its deleted
\* mailbox, to nobody or to who has it now.
Aborts(c) ==
    /\ pcb[c] \in {"syn", "open", "fin"}
    /\ pcb' = [pcb EXCEPT ![c] = "null"]
    /\ fatal' = [fatal EXCEPT ![c] = TRUE]
    /\ state' = [state EXCEPT ![c] = "none"]
    /\ \/ HasBox(c) /\ box' = [box EXCEPT ![c] = Append(@, Eof)]
       \/ ~HasBox(c) /\ UNCHANGED box
       \/ ~HasBox(c) /\ \E d \in Strays : box' = [box EXCEPT ![d] = Append(@, Eof)]
    /\ IF state[c] \in {"write", "close", "connect"}
       THEN /\ cur' = [cur EXCEPT ![c] = None]
            /\ res' = Result(cur[c], "err")
            /\ Signal(c, at)
       ELSE UNCHANGED <<cur, res, at, sem>>
    /\ UNCHANGED <<pc, on, fd, paused, socks, globals, budget>>

\* The end of a call that was left open: do_connected, do_writemore and
\* do_close_internal when sent_tcp or poll_tcp comes again.
Completed(c) ==
    /\ state' = [state EXCEPT ![c] = "none"]
    /\ cur' = [cur EXCEPT ![c] = None]
    /\ Signal(c, at)
    /\ UNCHANGED <<pc, on, fd, res, paused, socks, globals, fatal, box, budget>>

Established(c) ==
    /\ state[c] = "connect"
    /\ pcb' = [pcb EXCEPT ![c] = "open"]
    /\ Completed(c)

WriteDone(c) ==
    /\ state[c] = "write"
    /\ UNCHANGED pcb
    /\ Completed(c)

CloseDone(c) ==
    /\ state[c] = "close"
    /\ pcb' = [pcb EXCEPT ![c] = "null"]
    /\ Completed(c)

Peer == \/ PeerConnects
        \/ \E c \in Conn : DataArrives(c) \/ FinArrives(c) \/ Aborts(c)
Timers == \E c \in Conn : Established(c) \/ WriteDone(c) \/ CloseDone(c)

Next == (\E t \in Task : TaskStep(t)) \/ Commands \/ Peer \/ Timers

Spec == Init /\ [][Next]_vars

\* When the commands may be typed, which no code tests: what creates the first
\* task of a chain, when the chain is not under way, and what writes to the
\* server, neither while the SYN is out nor between netconn_delete and
\* free_socket.  A command whose task has not ended does nothing at any time.
Starting == pc[InitTask] = "off" => pc[ConnectServer] = "off" /\ pc[RevServer] = "off"
Writing == /\ \A c \in Conn : state[c] # "connect"
           /\ \A t \in Task : pc[t] # "closed"

OrderlyCommands ==
    \/ Socket_init /\ (pc[SocketTask] = "off" => Listening = {})
    \/ Init_Client /\ Starting
    \/ (Send_File_Name \/ Stop_Download) /\ Writing
    \/ Pause_Download \/ Continue_Download

OrderlyNext == (\E t \in Task : TaskStep(t)) \/ OrderlyCommands \/ Peer \/ Timers

OrderlySpec == Init /\ [][OrderlyNext]_vars

\* The kernel runs what is ready.  TCP retries, so that a SYN is answered or
\* given up and a write or a close that wants memory gets it in the end.
FairSpec ==
    /\ OrderlySpec
    /\ WF_vars(\E t \in Task : TaskStep(t))
    /\ \A c \in Conn : WF_vars(\/ Established(c) \/ WriteDone(c) \/ CloseDone(c)
                               \/ state[c] = "connect" /\ Aborts(c))

-----------------------------------------------------------------------------
(* Properties                                                              *)

\* Every variable has its type.
TypeOK ==
    /\ pc \in [Task -> {"off", "begin", "recv", "more", "answer", "send", "close",
                        "closed", "socket", "accept", "drop", "opts", "connect",
                        "spawn", "end"}]
    /\ at \in [Task -> {"run", "fetch", "posted", "asleep", "back"}]
    /\ on \in [Task -> Conn \cup {None}]
    /\ fd \in [Task -> Fd \cup {-1}]
    /\ res \in [Task -> {"ok", "eof", "err"}]
    /\ paused \in BOOLEAN
    /\ socks \in [Fd -> Conn \cup {None}]
    /\ {sock_fd, sock_conn, sock_connect} \subseteq Fd \cup {-1}
    /\ state \in [Conn -> {"free", "none", "listen", "connect", "write", "close"}]
    /\ pcb \in [Conn -> {"null", "closed", "listen", "syn", "open", "fin"}]
    /\ fatal \in [Conn -> BOOLEAN]
    /\ box \in [Conn -> Seq(Conn \cup {Data, Eof})]
    /\ cur \in [Conn -> Task \cup {None}]
    /\ sem \in [Conn -> Nat]
    /\ use \in Uses /\ cmds \in 0..MaxCmds /\ peers \in 0..MaxPeers

\* The one semaphore of a netconn never tells a task of another task's call:
\* who sleeps on it is the task of current_msg, and its count is the number of
\* tasks whose handler is done and who have yet to wait.
SignalsMatch ==
    /\ TypeOK
    /\ \A t \in Task : at[t] = "asleep" => state[on[t]] # "free" /\ cur[on[t]] = t
    /\ \A c \in Conn : sem[c] = Cardinality({t \in Task : /\ at[t] = "posted"
                                                          /\ on[t] = c /\ cur[c] # t})

\* No task is inside a call on a netconn that netconn_delete has freed.
CallsOnLive ==
    \A t \in Task : at[t] # "run" => on[t] # None /\ state[on[t]] # "free"

\* netconn_delete frees nothing that TCP still holds: a netconn is given back
\* without a pcb, with no message of its own and with its semaphore at zero.
FreedIsClean ==
    \A c \in Conn : state[c] = "free" =>
        pcb[c] = "null" /\ cur[c] = None /\ sem[c] = 0 /\ box[c] = <<>>

\* Nothing is used after it is freed, by the application's calls or by TCP.
NoUseAfterFree == CallsOnLive /\ FreedIsClean

\* Sockets do not leak over connections that come, fail and go: each netconn
\* has a descriptor, is pending, or is in the hands of a task, and each
\* descriptor is the value of a variable some task will close.
NoSocketLost ==
    /\ \A c \in Conn : state[c] # "free" =>
        \/ \E s \in Fd : socks[s] = c
        \/ \E l \in Listening : \E i \in DOMAIN box[l] : box[l][i] = c
        \/ \E t \in Task : on[t] = c
    /\ \A s \in Fd : socks[s] # None =>
        \/ s = sock_fd /\ socks[s] \in Listening
        \/ s = sock_connect /\ \E t \in {InitTask, ConnectServer, RevServer} : pc[t] # "off"
        \/ s = sock_conn /\ pc[ConnectClient] # "off"
        \/ s = fd[RevFile] /\ pc[RevFile] # "off"

\* connect() tells success only of a connection that was established: the
\* caller is not released while the SYN is out.
ConnectIsHonest ==
    pc[ConnectServer] \in {"opts", "spawn"} => state[ConnAt(sock_connect)] # "connect"

\* The server goes on serving: once it listens, a task waits for a connection
\* or receives on one.
ServerAlive ==
    Listening # {} => \/ pc[SocketTask] # "off"
                      \/ pc[ConnectClient] # "off"
                      \/ pc[RevFile] # "off"

InCall(t) == pc[t] \in {"answer", "send", "connect", "opts", "close", "drop"}

\* No call waits for ever when memory runs short, the peer resets or the server
\* does not answer: send, connect, close and setsockopt return.  (A receiving
\* task of the client that is paused returns when it is resumed.)
CallsReturn ==
    \A t \in {RevFile, ConnectClient, StopTask, SendName, ConnectServer, InitTask} :
        InCall(t) ~> ~InCall(t)
=============================================================================
