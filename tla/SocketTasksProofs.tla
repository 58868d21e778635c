------------------------- MODULE SocketTasksProofs --------------------------
(***************************************************************************)
(* For every number of netconns, commands and peers: the semaphore of a    *)
(* netconn answers the call it was taken for, no call is on a netconn that *)
(* was freed, nothing is freed that TCP holds and no socket is lost, as    *)
(* long as a board is a server or a client and its commands are typed when *)
(* OrderlyCommands allows them.                                            *)
(***************************************************************************)
EXTENDS SocketTasks, FiniteSetTheorems, WellFoundedInduction, TLAPS

-----------------------------------------------------------------------------
(* The invariant                                                           *)

\* What the theorems ask of the uses: a board is the server or the client, and
\* the words for the server are typed on a client that has memory.
\* NoSocketLost and SignalsMatch are false of other uses.
UsesApart == \A U \in Uses : /\ "client" \in U => "server" \notin U
                             /\ "talk" \in U => "client" \in U /\ "short" \notin U

Talkers == {StopTask, SendName}
ClientTask == {RevServer, ConnectServer, InitTask} \cup Talkers
Elems(s) == {s[i] : i \in DOMAIN s}
Distinct(s) == \A i, j \in DOMAIN s : s[i] = s[j] => i = j

\* Which task is where in its program.
MayBe(t, l) ==
    /\ l = "begin" => t = RevFile
    /\ l \in {"recv", "more", "answer"} => t \in Receivers
    /\ l = "send" => t \in Talkers
    /\ l = "socket" => t \in {SocketTask, InitTask}
    /\ l \in {"accept", "drop"} => t = ConnectClient
    /\ l = "opts" => t \in {ConnectClient, ConnectServer}
    /\ l = "connect" => t = ConnectServer
    /\ l = "spawn" => t \in {SocketTask, ConnectClient, InitTask, ConnectServer}
    /\ l = "close" => t \in {RevFile, RevServer, ConnectServer, InitTask}
    /\ l = "closed" => t \in {RevFile, RevServer, ConnectServer}
Places == \A t \in Task : MayBe(t, pc[t])

\* Where a task can be inside a call.
CallAt(t, l, a, c) ==
    /\ a = "run" <=> c = None
    /\ l \in {"off", "begin", "closed", "socket", "spawn", "end"} => a = "run"
    /\ a = "fetch" => l \in {"recv", "more", "accept"}
    /\ l = "drop" => a \in {"posted", "asleep", "back"}
    /\ a # "run" => t # InitTask
InCalls == \A t \in Task : CallAt(t, pc[t], at[t], on[t])

\* The call that leaves a netconn in this state.
Fits(s, l) == \/ s = "write" /\ l \in {"answer", "send"}
              \/ s = "connect" /\ l = "connect"
              \/ s = "close" /\ l \in {"close", "drop"}

\* Who has been answered and has yet to wait.
Owed(c) == {t \in Task : at[t] = "posted" /\ on[t] = c /\ cur[c] # t}
Counts == \A c \in Conn : sem[c] = Cardinality(Owed(c))

\* A message stays in current_msg while its call is open, and only its task
\* sleeps.
Open ==
    /\ \A c \in Conn : cur[c] = None <=> state[c] \in {"free", "none", "listen"}
    /\ \A c \in Conn : cur[c] # None =>
          /\ on[cur[c]] = c /\ at[cur[c]] \in {"posted", "asleep"}
          /\ Fits(state[c], pc[cur[c]])
          /\ sem[c] = 0
    /\ \A t \in Task : at[t] = "asleep" => cur[on[t]] = t
    /\ \A c \in Conn : state[c] \in {"write", "close"} => "short" \in use

Live == \A t \in Task : on[t] # None => state[on[t]] # "free"

\* What do_delconn leaves of a netconn.
Gone == \A t \in Task : pc[t] \in {"close", "drop"} /\ at[t] # "run" =>
    box[on[t]] = <<>> /\ (state[on[t]] = "close" \/ pcb[on[t]] = "null")

\* Only a listener has netconns in its mailbox.
Plain == \A c \in Conn : pcb[c] # "listen" => Elems(box[c]) \subseteq {Data, Eof}

Rests(t) == pc[t] \in {"off", "end"}

\* The server: its listener, the netconns that wait in it, and the one whose
\* descriptor is sock_conn.
Serving == {"begin", "recv", "more", "answer", "close", "closed"}
Active == pc[ConnectClient] \in {"opts", "spawn"} \/ pc[RevFile] \in Serving
Held == IF Active /\ pc[RevFile] # "closed" THEN ConnAt(sock_conn) ELSE None
IsPending(c) == \E l \in Listening : c \in Elems(box[l])
Accepted == IF pc[ConnectClient] \in {"accept", "drop"} /\ at[ConnectClient] # "fetch"
            THEN on[ConnectClient] ELSE None

ServerChain ==
    /\ \A t \in ClientTask : pc[t] = "off"
    /\ Listening # {} => pc[SocketTask] \in {"off", "spawn", "end"}
    /\ pc[SocketTask] = "spawn" => pc[RevFile] = "off" /\ pc[ConnectClient] = "off"
    /\ ~Rests(RevFile) => Rests(ConnectClient)
    /\ pc[RevFile] = "end" =>
         Rests(ConnectClient) \/ (pc[ConnectClient] = "accept" /\ at[ConnectClient] = "run")
    /\ pc[RevFile] = "begin" => pc[ConnectClient] = "end"
    /\ pc[RevFile] \in Serving \ {"begin"} => fd[RevFile] = sock_conn

ServerFresh == Listening = {} =>
    /\ \A c \in Conn : state[c] = "free"
    /\ \A s \in Fd : socks[s] = None
    /\ pc[RevFile] = "off" /\ pc[ConnectClient] = "off" /\ pc[SocketTask] \in {"off", "socket"}

ServerListens ==
    /\ \A c \in Listening : sock_fd \in Fd /\ socks[sock_fd] = c /\ state[c] = "listen"
    /\ \A c \in Conn : state[c] = "listen" => c \in Listening
    /\ \A l \in Listening : Distinct(box[l]) /\ Elems(box[l]) \subseteq Conn
    /\ \A c \in Conn : IsPending(c) => /\ state[c] = "none"
                                       /\ \A t \in Task : on[t] # c

ServerSockets ==
    /\ \A s \in Fd : socks[s] # None => s = sock_fd \/ (s = sock_conn /\ Active)
    /\ Active => sock_conn # sock_fd
    /\ Held # None => state[Held] \in {"none", "write", "close"} /\ ~IsPending(Held)
    /\ \A c \in Conn : state[c] # "free" =>
         c \in Listening \/ IsPending(c) \/ c = Held \/ c = Accepted
    /\ at[RevFile] # "run" => on[RevFile] = Held
    /\ pc[ConnectClient] = "opts" /\ at[ConnectClient] # "run" => on[ConnectClient] = Held
    /\ at[ConnectClient] = "fetch" => on[ConnectClient] \in Listening
    /\ Accepted # None => state[Accepted] \in {"none", "close"}

ServerShape == ServerChain /\ ServerFresh /\ ServerListens /\ ServerSockets

\* The client: one netconn, whose descriptor is sock_connect, goes from
\* Init_Client_task to Connect_Server_task to Rev_Server_File_task.
HasConn == \/ pc[InitTask] = "spawn"
           \/ pc[ConnectServer] \in {"connect", "opts", "spawn", "close", "closed"}
           \/ pc[RevServer] \in {"recv", "more", "answer", "close", "closed"}
Closing == pc[ConnectServer] = "closed" \/ pc[RevServer] = "closed"
NoSyn == \A c \in Conn : state[c] # "connect"
NoTalk == pc[StopTask] = "off" /\ pc[SendName] = "off"

ClientChain ==
    /\ \A t \in Task \ ClientTask : pc[t] = "off"
    /\ ~Rests(InitTask) => pc[ConnectServer] = "off" /\ pc[RevServer] = "off"
    /\ ~Rests(ConnectServer) => Rests(InitTask) /\ pc[RevServer] = "off"
    /\ ~Rests(RevServer) => Rests(InitTask) /\ Rests(ConnectServer)
    /\ \A t \in Talkers : pc[t] # "off" => "talk" \in use /\ ~Closing /\ NoSyn

ClientSockets ==
    /\ HasConn => sock_connect \in Fd /\ socks[sock_connect] # None
    /\ \A s \in Fd : socks[s] # None => s = sock_connect /\ HasConn
    /\ \A c \in Conn : pcb[c] # "listen" /\ state[c] # "listen"
    /\ \A c \in Conn : state[c] # "free" <=> HasConn /\ ~Closing /\ c = socks[sock_connect]
    /\ \A t \in Task :
         pc[t] = "closed" \/ (pc[t] = "close" /\ at[t] # "run") => fd[t] = sock_connect

ClientShape == ClientChain /\ ClientSockets

Shape == IF "client" \in use THEN ClientShape ELSE ServerShape

CallInv == InCalls /\ Counts /\ Open /\ Live /\ FreedIsClean /\ Gone /\ Plain
IInv == TypeOK /\ Places /\ CallInv /\ Shape

-----------------------------------------------------------------------------
(* Tasks                                                                   *)

USE DEF Task, RevFile, ConnectClient, SocketTask, StopTask, SendName, RevServer,
        ConnectServer, InitTask, Receivers, ClientTask, Talkers, None

\* Two tasks are at work at once only when words for the server are typed.
LEMMA Solo ==
    ASSUME IInv, NEW t \in Task, NEW u \in Task, t # u, ~Rests(t), ~Rests(u)
    PROVE  /\ "client" \in use /\ "talk" \in use
           /\ t \in ClientTask /\ u \in ClientTask /\ (t \in Talkers \/ u \in Talkers)
<1>1. CASE "client" \in use
  <2>1. ClientChain
    BY <1>1 DEF IInv, Shape, ClientShape
  <2> QED BY <1>1, <2>1 DEF ClientChain, Rests
<1>2. CASE "client" \notin use
  <2>1. ServerChain /\ ServerFresh
    BY <1>2 DEF IInv, Shape, ServerShape
  <2> QED BY <2>1 DEF ServerChain, ServerFresh, Rests
<1> QED BY <1>1, <1>2

\* Who is in a call does not rest.
LEMMA CallersWork ==
    ASSUME IInv, NEW t \in Task, on[t] # None \/ at[t] # "run"
    PROVE  ~Rests(t) /\ on[t] # None /\ on[t] \in Conn /\ at[t] # "run"
<1>1. on[t] \in Conn \cup {None}
  BY DEF IInv, TypeOK
<1>2. at[t] = "run" <=> on[t] = None
  BY DEF IInv, CallInv, InCalls, CallAt
<1>3. pc[t] \in {"off", "end"} => at[t] = "run"
  BY DEF IInv, CallInv, InCalls, CallAt
<1> QED BY <1>1, <1>2, <1>3 DEF Rests

\* While a word is sent every call is answered at once.
LEMMA TalkIsQuiet ==
    ASSUME IInv, UsesApart, NEW t \in Talkers, pc[t] # "off", NEW c \in Conn
    PROVE  cur[c] = None
<1>1. use \in Uses /\ cur[c] \in Task \cup {None}
  BY DEF IInv, TypeOK
<1>2. "client" \in use
  BY DEF IInv, Shape, ServerShape, ServerChain
<1>3. ClientChain /\ Open
  BY <1>2 DEF IInv, Shape, ClientShape, CallInv
<1>4. "short" \notin use /\ state[c] # "connect"
  BY <1>1, <1>3 DEF UsesApart, ClientChain, NoSyn
<1> SUFFICES ASSUME cur[c] # None PROVE FALSE
  OBVIOUS
<1>5. Fits(state[c], pc[cur[c]]) /\ state[c] \notin {"write", "close"}
  BY <1>3, <1>4 DEF Open
<1> QED BY <1>4, <1>5 DEF Fits

\* Nobody sleeps on a netconn that another task calls on.
LEMMA NobodySleeps ==
    ASSUME IInv, UsesApart, NEW t \in Task, ~Rests(t), at[t] # "asleep", NEW c \in Conn
    PROVE  Waiting(c) = {}
<1> SUFFICES ASSUME NEW u \in Task, at[u] = "asleep", on[u] = c PROVE FALSE
  BY DEF Waiting
<1>1. ~Rests(u) /\ cur[c] = u
  BY CallersWork DEF IInv, CallInv, Open
<1>2. t \in Talkers \/ u \in Talkers
  BY <1>1, Solo
<1> QED BY <1>1, <1>2, TalkIsQuiet DEF Rests

\* An open call is the only one.
LEMMA OpenIsSolo ==
    ASSUME IInv, UsesApart, NEW c \in Conn, cur[c] # None
    PROVE  /\ cur[c] \in Task /\ ~Rests(cur[c]) /\ on[cur[c]] = c
           /\ \A u \in Task : u # cur[c] => Rests(u) /\ on[u] = None /\ at[u] = "run"
<1>1. cur[c] \in Task /\ on[cur[c]] = c /\ at[cur[c]] \in {"posted", "asleep"}
  <2>1. cur[c] \in Task \cup {None}
    BY DEF IInv, TypeOK
  <2> QED BY <2>1 DEF IInv, CallInv, Open
<1>2. ~Rests(cur[c])
  BY <1>1, CallersWork
<1>3. ASSUME NEW u \in Task, u # cur[c] PROVE Rests(u) /\ on[u] = None /\ at[u] = "run"
  <2>1. Rests(u)
    BY <1>1, <1>2, <1>3, Solo, TalkIsQuiet DEF Rests
  <2> QED BY <2>1, CallersWork
<1> QED BY <1>1, <1>2, <1>3

\* Who can run keeps others from running.
LEMMA Turns ==
    ASSUME IInv, UsesApart, NEW t \in Task, MayRun(t)
    PROVE  /\ t \in ClientTask \ Talkers => pc[StopTask] = "off" /\ pc[SendName] = "off"
           /\ t = ConnectClient => pc[RevFile] \notin {"begin", "end"}
           /\ at[t] # "asleep"
<1>1. ASSUME t \in ClientTask \ Talkers, NEW u \in Talkers, pc[u] # "off" PROVE FALSE
  <2>1. at[u] # "asleep"
    <3> SUFFICES ASSUME at[u] = "asleep" PROVE FALSE
      OBVIOUS
    <3>1. on[u] \in Conn /\ cur[on[u]] = u
      BY <1>1, CallersWork DEF IInv, CallInv, Open
    <3> QED BY <1>1, <3>1, TalkIsQuiet
  <2>2. at[u] # "fetch"
    BY DEF IInv, Places, MayBe, CallInv, InCalls, CallAt
  <2> QED BY <1>1, <2>1, <2>2 DEF MayRun, Ready, Blocked
<1>2. ASSUME t = ConnectClient PROVE pc[RevFile] \notin {"begin", "end"}
  <2>1. pc[RevFile] \in {"begin", "end"} => at[RevFile] = "run"
    BY DEF IInv, CallInv, InCalls, CallAt
  <2> QED BY <1>2, <2>1 DEF MayRun, Ready, Blocked
<1>3. at[t] # "asleep"
  BY DEF MayRun, Ready, Blocked
<1> QED BY <1>1, <1>2, <1>3

-----------------------------------------------------------------------------
(* Sets and sequences                                                      *)

\* A set of numbers has a smallest one.
LEMMA MinIn == ASSUME NEW T, T \subseteq Nat, T # {} PROVE Min(T) \in T
<1>1. \E x \in T : \A y \in T : ~(<<y, x>> \in OpToRel(<, Nat))
  BY NatLessThanWellFounded, WFMin
<1>2. \A x, y \in Nat : y < x => <<y, x>> \in OpToRel(<, Nat)
  BY DEF OpToRel
<1>3. PICK x \in T : \A y \in T : ~(y < x)
  BY <1>1, <1>2
<1>4. \A y \in T : x <= y
  BY <1>3
<1> QED BY <1>4 DEF Min

\* What alloc_socket and memp_malloc take: the smallest that is free.
LEMMA FirstFree ==
    ASSUME SocketTasksAssumption
    PROVE  /\ FreeConn # {} => Min(FreeConn) \in Conn /\ state[Min(FreeConn)] = "free"
           /\ FreeFd # {} => Min(FreeFd) \in Fd /\ socks[Min(FreeFd)] = None
<1>1. FreeConn \subseteq Nat /\ FreeFd \subseteq Nat
  BY SocketTasksAssumption DEF FreeConn, FreeFd, Conn, Fd
<1>2. FreeConn # {} => Min(FreeConn) \in FreeConn
  BY <1>1, MinIn
<1>3. FreeFd # {} => Min(FreeFd) \in FreeFd
  BY <1>1, MinIn
<1> QED BY <1>2, <1>3 DEF FreeConn, FreeFd

\* There are finitely many tasks.
LEMMA FiniteTasks == IsFiniteSet(Task)
<1>1. 8 \in Int /\ 15 \in Int
  OBVIOUS
<1> QED BY <1>1, FS_Interval, Zenon

\* Who has been answered can be counted.
LEMMA OwedIsFinite ==
    ASSUME NEW c \in Conn PROVE IsFiniteSet(Owed(c)) /\ IsFiniteSet(Owed(c))'
<1>1. Owed(c) \subseteq Task /\ Owed(c)' \subseteq Task
  BY DEF Owed
<1> QED BY <1>1, FiniteTasks, FS_Subset

\* The smallest of one.
LEMMA OneSmallest == ASSUME NEW x \in Nat PROVE Min({x}) = x
BY MinIn

\* What taking the first entry and appending one do to what a mailbox holds.
LEMMA TailElems ==
    ASSUME NEW S, NEW s \in Seq(S), s # <<>>
    PROVE  /\ Tail(s) \in Seq(S) /\ Head(s) \in S /\ Head(s) \in Elems(s)
           /\ Elems(Tail(s)) \subseteq Elems(s)
           /\ Distinct(s) => Distinct(Tail(s)) /\ Elems(Tail(s)) = Elems(s) \ {Head(s)}
<1> DEFINE r == Tail(s)
<1>1. /\ Len(s) \in Nat /\ Len(s) >= 1 /\ DOMAIN s = 1..Len(s)
      /\ \A i \in 1..Len(s) : s[i] \in S
  OBVIOUS
<1>2. /\ r \in Seq(S) /\ DOMAIN r = 1..(Len(s) - 1)
      /\ \A i \in 1..(Len(s) - 1) : r[i] = s[i + 1]
      /\ Head(s) = s[1] /\ 1 \in 1..Len(s)
  BY <1>1
<1> HIDE DEF r
<1>3. Elems(s) = {s[i] : i \in 1..Len(s)} /\ Elems(r) = {r[i] : i \in 1..(Len(s) - 1)}
  BY <1>1, <1>2 DEF Elems
<1>4. ASSUME NEW i \in 1..(Len(s) - 1)
      PROVE  i + 1 \in 1..Len(s) /\ i + 1 # 1 /\ r[i] = s[i + 1]
  BY <1>1, <1>2
<1>5. Elems(r) \subseteq Elems(s)
  BY <1>3, <1>4
<1>6. ASSUME Distinct(s) PROVE Distinct(r) /\ Elems(r) = Elems(s) \ {Head(s)}
  <2>1. \A i, j \in 1..Len(s) : s[i] = s[j] => i = j
    BY <1>1, <1>6 DEF Distinct
  <2>2. ASSUME NEW i \in 1..(Len(s) - 1), NEW j \in 1..(Len(s) - 1), r[i] = r[j]
        PROVE  i = j
    <3>1. i + 1 = j + 1
      BY <1>4, <2>1, <2>2
    <3> QED BY <3>1
  <2>3. Distinct(r)
    BY <1>2, <2>2 DEF Distinct
  <2>4. ASSUME NEW x \in Elems(s), x # Head(s) PROVE x \in Elems(r)
    <3>1. PICK i \in 1..Len(s) : x = s[i]
      BY <1>3
    <3>2. i # 1
      BY <1>2, <2>4, <3>1
    <3>3. i - 1 \in 1..(Len(s) - 1) /\ (i - 1) + 1 = i
      BY <1>1, <3>2
    <3> QED BY <1>3, <1>4, <3>1, <3>3
  <2>5. Head(s) \notin Elems(r)
    <3> SUFFICES ASSUME NEW i \in 1..(Len(s) - 1), Head(s) = r[i] PROVE FALSE
      BY <1>3
    <3> QED BY <1>2, <1>4, <2>1
  <2> QED BY <1>5, <2>3, <2>4, <2>5
<1>7. Head(s) \in S /\ Head(s) \in Elems(s)
  BY <1>1, <1>2, <1>3
<1> QED BY <1>2, <1>5, <1>6, <1>7 DEF r

\* What appending an entry does to what a mailbox holds.
LEMMA AppendElems ==
    ASSUME NEW S, NEW s \in Seq(S), NEW e \in S
    PROVE  /\ Append(s, e) \in Seq(S)
           /\ Elems(Append(s, e)) = Elems(s) \cup {e}
           /\ Distinct(s) /\ e \notin Elems(s) => Distinct(Append(s, e))
<1> DEFINE r == Append(s, e)
<1>1. /\ r \in Seq(S) /\ Len(s) \in Nat /\ DOMAIN s = 1..Len(s)
      /\ DOMAIN r = 1..(Len(s) + 1) /\ r[Len(s) + 1] = e
      /\ \A i \in 1..Len(s) : r[i] = s[i]
  OBVIOUS
<1> HIDE DEF r
<1>2. Elems(s) = {s[i] : i \in 1..Len(s)} /\ Elems(r) = {r[i] : i \in 1..(Len(s) + 1)}
  BY <1>1 DEF Elems
<1>3. ASSUME NEW i \in 1..(Len(s) + 1)
      PROVE  (i = Len(s) + 1 /\ r[i] = e) \/ (i \in 1..Len(s) /\ r[i] = s[i])
  BY <1>1
<1>4. Elems(r) \subseteq Elems(s) \cup {e}
  BY <1>2, <1>3
<1>5. Elems(s) \cup {e} \subseteq Elems(r)
  <2>1. Len(s) + 1 \in 1..(Len(s) + 1) /\ \A i \in 1..Len(s) : i \in 1..(Len(s) + 1)
    BY <1>1
  <2> QED BY <1>1, <1>2, <2>1
<1>6. ASSUME Distinct(s), e \notin Elems(s) PROVE Distinct(r)
  <2>1. ASSUME NEW i \in 1..(Len(s) + 1), NEW j \in 1..(Len(s) + 1), r[i] = r[j]
        PROVE  i = j
    <3>1. \A k, l \in 1..Len(s) : s[k] = s[l] => k = l
      BY <1>1, <1>6 DEF Distinct
    <3>2. \A k \in 1..Len(s) : s[k] # e
      BY <1>2, <1>6
    <3> QED BY <1>3, <2>1, <3>1, <3>2
  <2> QED BY <1>1, <2>1 DEF Distinct
<1> QED BY <1>1, <1>4, <1>5, <1>6 DEF r

-----------------------------------------------------------------------------
(* The semaphore of a netconn                                              *)

\* A step of tasks that neither are told anything nor wait.
LEMMA SameCounts ==
    ASSUME Counts, sem' = sem,
           \A u \in Task : at'[u] = "posted" <=> at[u] = "posted",
           \A u \in Task : at[u] = "posted" => on'[u] = on[u],
           \A u \in Task, c \in Conn : at[u] = "posted" => (cur'[c] = u <=> cur[c] = u)
    PROVE  Counts'
<1> SUFFICES ASSUME NEW c \in Conn PROVE sem'[c] = Cardinality(Owed(c)')
  BY DEF Counts
<1>1. Owed(c)' = Owed(c)
  BY DEF Owed
<1> QED BY <1>1 DEF Counts

\* sys_sem_signal of a handler that answers at once.
LEMMA PostedCounts ==
    ASSUME IInv, UsesApart, NEW t \in Task, ~Rests(t), at[t] \in {"run", "fetch", "back"},
           NEW c \in Conn, Posted(t, c), cur' = cur
    PROVE  /\ Counts'
           /\ at' = [at EXCEPT ![t] = "posted"]
           /\ on' = [on EXCEPT ![t] = c]
           /\ sem' = [sem EXCEPT ![c] = @ + 1]
<1>1. Waiting(c) = {}
  BY NobodySleeps
<1>2. /\ on' = [on EXCEPT ![t] = c]
      /\ at' = [at EXCEPT ![t] = "posted"]
      /\ sem' = [sem EXCEPT ![c] = @ + 1]
  BY <1>1 DEF Posted, Signal
<1>3. at \in [Task -> {"run", "fetch", "posted", "asleep", "back"}]
      /\ on \in [Task -> Conn \cup {None}] /\ sem \in [Conn -> Nat]
  BY DEF IInv, TypeOK
<1>4. cur[c] # t /\ Counts
  BY DEF IInv, CallInv, Open
<1>5. ASSUME NEW d \in Conn PROVE sem'[d] = Cardinality(Owed(d)')
  <2>1. IsFiniteSet(Owed(d)) /\ t \notin Owed(d)
    BY OwedIsFinite DEF Owed
  <2>2. ASSUME d = c PROVE Owed(d)' = Owed(d) \cup {t}
    BY <1>2, <1>3, <1>4, <2>2 DEF Owed
  <2>3. ASSUME d # c PROVE Owed(d)' = Owed(d)
    BY <1>2, <1>3, <2>3 DEF Owed
  <2>4. sem[d] = Cardinality(Owed(d))
    BY <1>4 DEF Counts
  <2>5. Cardinality(Owed(d) \cup {t}) = Cardinality(Owed(d)) + 1
    BY <2>1, FS_AddElement
  <2> QED BY <1>2, <1>3, <2>2, <2>3, <2>4, <2>5
<1> QED BY <1>2, <1>5 DEF Counts

\* A message that is left in current_msg.
LEMMA UnansweredCounts ==
    ASSUME IInv, NEW t \in Task, at[t] = "run" \/ at[t] = "back",
           NEW c \in Conn, PostedUnanswered(t, c), cur[c] = None
    PROVE  Counts'
<1>1. /\ on' = [on EXCEPT ![t] = c] /\ at' = [at EXCEPT ![t] = "posted"]
      /\ cur' = [cur EXCEPT ![c] = t] /\ sem' = sem
  BY DEF PostedUnanswered
<1>2. /\ at \in [Task -> {"run", "fetch", "posted", "asleep", "back"}]
      /\ on \in [Task -> Conn \cup {None}] /\ cur \in [Conn -> Task \cup {None}]
  BY DEF IInv, TypeOK
<1> SUFFICES ASSUME NEW d \in Conn PROVE sem'[d] = Cardinality(Owed(d)')
  BY DEF Counts
<1>3. Owed(d)' = Owed(d)
  BY <1>1, <1>2 DEF Owed
<1> QED BY <1>1, <1>3 DEF IInv, CallInv, Counts

\* The answer to an open call.
LEMMA SignalCounts ==
    ASSUME IInv, UsesApart, NEW c \in Conn, cur[c] # None, Signal(c, at),
           cur' = [cur EXCEPT ![c] = None], on' = on
    PROVE  /\ Counts'
           /\ \/ /\ at[cur[c]] = "asleep" /\ sem' = sem
                 /\ at' = [at EXCEPT ![cur[c]] = "back"]
              \/ /\ at[cur[c]] = "posted" /\ at' = at
                 /\ sem' = [sem EXCEPT ![c] = @ + 1]
<1> DEFINE u == cur[c]
<1>1. /\ u \in Task /\ on[u] = c
      /\ \A x \in Task : x # u => on[x] = None /\ at[x] = "run"
  BY OpenIsSolo
<1>2. at[u] \in {"posted", "asleep"} /\ sem[c] = 0 /\ Counts
  BY DEF IInv, CallInv, Open
<1>3. /\ at \in [Task -> {"run", "fetch", "posted", "asleep", "back"}]
      /\ on \in [Task -> Conn \cup {None}] /\ cur \in [Conn -> Task \cup {None}]
      /\ sem \in [Conn -> Nat] /\ u # None
  BY DEF IInv, TypeOK
<1> HIDE DEF u
<1>4. cur'[c] # u /\ \A d \in Conn : d # c => cur'[d] = cur[d]
  BY <1>3 DEF u
<1>5. ASSUME at[u] = "asleep"
      PROVE  Counts' /\ sem' = sem /\ at' = [at EXCEPT ![u] = "back"]
  <2>1. Waiting(c) = {u}
    BY <1>1, <1>5 DEF Waiting
  <2>2. Min({u}) = u
    BY <1>1, OneSmallest
  <2>3. sem' = sem /\ at' = [at EXCEPT ![u] = "back"]
    BY <2>1, <2>2 DEF Signal
  <2>4. \A x \in Task : (at'[x] = "posted" <=> at[x] = "posted") /\ at[x] # "posted"
    BY <1>1, <1>3, <1>5, <2>3
  <2> QED BY <1>2, <2>3, <2>4, SameCounts
<1>6. ASSUME at[u] = "posted"
      PROVE  Counts' /\ at' = at /\ sem' = [sem EXCEPT ![c] = @ + 1]
  <2>1. Waiting(c) = {}
    BY <1>1, <1>6 DEF Waiting
  <2>2. at' = at /\ sem' = [sem EXCEPT ![c] = @ + 1]
    BY <2>1 DEF Signal
  <2>3. ASSUME NEW d \in Conn PROVE sem'[d] = Cardinality(Owed(d)')
    <3>1. ASSUME d # c PROVE sem'[d] = Cardinality(Owed(d)')
      <4>1. Owed(d)' = Owed(d)
        BY <1>1, <1>4, <2>2, <3>1 DEF Owed
      <4> QED BY <1>2, <1>3, <2>2, <3>1, <4>1 DEF Counts
    <3>2. ASSUME d = c PROVE sem'[d] = Cardinality(Owed(d)')
      <4>1. Owed(d)' = {u}
        BY <1>1, <1>4, <1>6, <2>2, <3>2 DEF Owed
      <4>2. Cardinality({u}) = 1
        BY FS_Singleton
      <4> QED BY <1>2, <1>3, <2>2, <3>2, <4>1, <4>2
    <3> QED BY <3>1, <3>2
  <2> QED BY <2>2, <2>3 DEF Counts
<1> QED BY <1>2, <1>5, <1>6 DEF u

\* sys_arch_sem_wait
LEMMA PendsCounts ==
    ASSUME IInv, UsesApart, NEW t \in Task, Pends(t)
    PROVE  /\ Counts'
           /\ on[t] \in Conn /\ on' = on /\ cur' = cur
           /\ \/ /\ cur[on[t]] # t /\ at' = [at EXCEPT ![t] = "back"]
                 /\ sem[on[t]] > 0 /\ sem' = [sem EXCEPT ![on[t]] = @ - 1]
              \/ /\ cur[on[t]] = t /\ at' = [at EXCEPT ![t] = "asleep"] /\ sem' = sem
<1> DEFINE c == on[t]
<1>1. at[t] = "posted" /\ c \in Conn /\ state[c] # "free" /\ on' = on /\ cur' = cur
  <2>1. at[t] = "posted" /\ on' = on /\ cur' = cur
    BY DEF Pends, connVars
  <2> QED BY <2>1, CallersWork DEF IInv, CallInv, Live
<1>2. /\ at \in [Task -> {"run", "fetch", "posted", "asleep", "back"}]
      /\ on \in [Task -> Conn \cup {None}] /\ cur \in [Conn -> Task \cup {None}]
      /\ sem \in [Conn -> Nat]
  BY DEF IInv, TypeOK
<1>3. Counts /\ (cur[c] # None => sem[c] = 0)
  BY <1>1 DEF IInv, CallInv, Open
<1>4. IF sem[c] > 0 THEN at' = [at EXCEPT ![t] = "back"] /\ sem' = [sem EXCEPT ![c] = @ - 1]
                    ELSE at' = [at EXCEPT ![t] = "asleep"] /\ sem' = sem
  BY <1>1, <1>2 DEF Pends
<1> HIDE DEF c
<1>5. ASSUME cur[c] = t
      PROVE  Counts' /\ at' = [at EXCEPT ![t] = "asleep"] /\ sem' = sem
  <2>1. sem[c] = 0 /\ at' = [at EXCEPT ![t] = "asleep"] /\ sem' = sem
    BY <1>3, <1>4, <1>5
  <2>2. ASSUME NEW d \in Conn PROVE Owed(d)' = Owed(d)
    BY <1>1, <1>2, <1>5, <2>1 DEF Owed, c
  <2> QED BY <1>3, <2>1, <2>2 DEF Counts
<1>6. ASSUME cur[c] # t
      PROVE  /\ Counts' /\ at' = [at EXCEPT ![t] = "back"]
             /\ sem[c] > 0 /\ sem' = [sem EXCEPT ![c] = @ - 1]
  <2>1. t \in Owed(c) /\ IsFiniteSet(Owed(c))
    BY <1>1, <1>6, OwedIsFinite DEF Owed, c
  <2>2. Cardinality(Owed(c) \ {t}) = Cardinality(Owed(c)) - 1
    BY <2>1, FS_RemoveElement
  <2>3. Cardinality(Owed(c)) = sem[c] /\ sem[c] \in Nat /\ sem[c] # 0
    <3>1. Cardinality(Owed(c)) # 0
      BY <2>1, FS_EmptySet
    <3> QED BY <1>1, <1>2, <1>3, <3>1 DEF Counts, c
  <2>4. at' = [at EXCEPT ![t] = "back"] /\ sem' = [sem EXCEPT ![c] = @ - 1]
    BY <1>4, <2>3
  <2>5. ASSUME NEW d \in Conn PROVE sem'[d] = Cardinality(Owed(d)')
    <3>1. ASSUME d = c PROVE Owed(d)' = Owed(d) \ {t}
      BY <1>1, <1>2, <2>4, <3>1 DEF Owed
    <3>2. ASSUME d # c PROVE Owed(d)' = Owed(d)
      BY <1>1, <1>2, <2>4, <3>2 DEF Owed, c
    <3> QED BY <1>2, <1>3, <2>2, <2>3, <2>4, <3>1, <3>2 DEF Counts
  <2> QED BY <2>3, <2>4, <2>5 DEF Counts
<1> QED BY <1>1, <1>5, <1>6 DEF c

-----------------------------------------------------------------------------
(* The netconns that tasks call on                                         *)

\* While a task runs that waits for no answer, no call is open.
LEMMA NoOpenCall ==
    ASSUME IInv, UsesApart, NEW t \in Task, ~Rests(t), at[t] \in {"run", "fetch", "back"},
           NEW c \in Conn
    PROVE  cur[c] = None /\ state[c] \in {"free", "none", "listen"}
<1>1. cur[c] = None
  <2> SUFFICES ASSUME cur[c] # None PROVE FALSE
    OBVIOUS
  <2>1. t = cur[c]
    BY OpenIsSolo
  <2>2. at[cur[c]] \in {"posted", "asleep"}
    BY DEF IInv, CallInv, Open
  <2> QED BY <2>1, <2>2
<1> QED BY <1>1 DEF IInv, CallInv, Open

\* The netconn behind the descriptor of a call.
LEMMA CalledConn ==
    ASSUME IInv, UsesApart, NEW t \in Task, at[t] = "run", NEW s, ConnAt(s) # None,
           \/ pc[t] \in {"recv", "more", "answer", "send", "close"} /\ s = SocketOf(t)
           \/ pc[t] = "opts" /\ s = Chosen(t)
           \/ pc[t] = "connect" /\ s = sock_connect
    PROVE  /\ ConnAt(s) \in Conn /\ s \in Fd
           /\ state[ConnAt(s)] = "none" /\ pcb[ConnAt(s)] # "listen"
           /\ cur[ConnAt(s)] = None
           /\ "client" \notin use => s = sock_conn /\ ConnAt(s) = Held
           /\ "client" \in use => s = sock_connect
           /\ t # InitTask /\ ~Rests(t)
<1> DEFINE c == ConnAt(s)
<1>1. c \in Conn /\ s \in Fd /\ c = socks[s]
  BY DEF IInv, TypeOK, ConnAt
<1>2. ~Rests(t)
  BY DEF Rests
<1>3. cur[c] = None /\ state[c] \in {"free", "none", "listen"}
  BY <1>1, <1>2, NoOpenCall
<1>4. Places
  BY DEF IInv
<1>5. ASSUME "client" \notin use
      PROVE  /\ state[c] = "none" /\ pcb[c] # "listen" /\ t # InitTask
             /\ s = sock_conn /\ c = Held
  <2>1. ServerChain /\ ServerListens /\ ServerSockets
    BY <1>5 DEF IInv, Shape, ServerShape
  <2>2. t \in {RevFile, ConnectClient, SocketTask}
    BY <1>2, <2>1 DEF ServerChain, Rests
  <2>3. s = sock_conn
    BY <1>4, <2>1, <2>2 DEF Places, MayBe, ServerChain, SocketOf, Chosen, Serving
  <2>4. Active /\ pc[RevFile] # "closed"
    BY <1>4, <2>1, <2>2 DEF Places, MayBe, ServerChain, Active, Serving, Rests
  <2>5. c = Held
    BY <2>3, <2>4 DEF Held
  <2>6. state[c] = "none"
    BY <1>3, <2>1, <2>5 DEF ServerSockets
  <2>7. pcb[c] # "listen"
    BY <1>1, <2>1, <2>6 DEF ServerListens, Listening
  <2> QED BY <2>2, <2>3, <2>5, <2>6, <2>7
<1>6. ASSUME "client" \in use
      PROVE  state[c] = "none" /\ pcb[c] # "listen" /\ t # InitTask /\ s = sock_connect
  <2>1. ClientChain /\ ClientSockets
    BY <1>6 DEF IInv, Shape, ClientShape
  <2>2. t \in ClientTask
    BY <1>2, <2>1 DEF ClientChain, Rests
  <2>3. s = sock_connect
    BY <1>4, <2>2 DEF Places, MayBe, SocketOf, Chosen
  <2>4. HasConn
    BY <1>1, <2>1 DEF ClientSockets
  <2>5. ~Closing
    BY <1>4, <2>1, <2>2 DEF Places, MayBe, ClientChain, Closing, Rests
  <2>6. state[c] # "free" /\ state[c] # "listen" /\ pcb[c] # "listen"
    BY <1>1, <2>1, <2>3, <2>4, <2>5 DEF ClientSockets
  <2>7. t # InitTask
    BY <1>4, <2>1, <2>4 DEF Places, MayBe, ClientChain, HasConn, Rests
  <2> QED BY <1>3, <2>3, <2>6, <2>7
<1> QED BY <1>1, <1>2, <1>3, <1>5, <1>6

\* A netconn inside a receive, and one that was accepted.
LEMMA AcceptedConn ==
    ASSUME IInv, UsesApart, at[ConnectClient] \in {"posted", "asleep", "back"},
           pc[ConnectClient] \in {"accept", "drop"}
    PROVE  /\ "client" \notin use
           /\ Accepted = on[ConnectClient] /\ Accepted \in Conn
           /\ pcb[Accepted] # "listen" /\ state[Accepted] \in {"none", "close"}
           /\ at[ConnectClient] = "back" => state[Accepted] = "none" /\ cur[Accepted] = None
<1>1. "client" \notin use
  BY DEF IInv, Shape, ClientShape, ClientChain
<1>2. ServerListens /\ ServerSockets
  BY <1>1 DEF IInv, Shape, ServerShape
<1>3. Accepted = on[ConnectClient] /\ Accepted \in Conn /\ Accepted # None
  BY CallersWork DEF Accepted
<1>4. state[Accepted] \in {"none", "close"}
  BY <1>2, <1>3 DEF ServerSockets
<1>5. pcb[Accepted] # "listen"
  BY <1>2, <1>3, <1>4 DEF ServerListens, Listening
<1>6. at[ConnectClient] = "back" => state[Accepted] = "none" /\ cur[Accepted] = None
  BY <1>3, <1>4, CallersWork, NoOpenCall
<1> QED BY <1>1, <1>3, <1>4, <1>5, <1>6

\* do_delconn on a netconn that is no listener and in no call.
LEMMA DeletesOne ==
    ASSUME IInv, NEW t \in Task, NEW c \in Conn, state[c] = "none", pcb[c] # "listen",
           cur[c] = None, Deletes(t, c)
    PROVE  /\ box' = [box EXCEPT ![c] = <<>>] /\ fatal' = fatal
           /\ \/ /\ Posted(t, c) /\ cur' = cur /\ state' = state
                 /\ pcb' = [pcb EXCEPT ![c] = "null"]
              \/ /\ PostedUnanswered(t, c) /\ "short" \in use /\ pcb' = pcb
                 /\ state' = [state EXCEPT ![c] = "close"]
<1> DEFINE P == {box[c][i] : i \in DOMAIN box[c]} \ {Data, Eof}
<1>1. P = {}
  BY DEF IInv, CallInv, Plain, Elems
<1>2. /\ box \in [Conn -> Seq(Conn \cup {Data, Eof})] /\ fatal \in [Conn -> BOOLEAN]
      /\ state \in [Conn -> {"free", "none", "listen", "connect", "write", "close"}]
      /\ pcb \in [Conn -> {"null", "closed", "listen", "syn", "open", "fin"}]
      /\ cur \in [Conn -> Task \cup {None}]
  BY DEF IInv, TypeOK
<1>3. /\ box' = [n \in Conn |-> IF n = c \/ n \in P THEN <<>> ELSE box[n]]
      /\ fatal' = [n \in Conn |-> fatal[n] /\ n \notin P]
      /\ \/ /\ Posted(t, c) /\ cur' = [cur EXCEPT ![c] = None]
            /\ pcb' = [n \in Conn |-> IF n = c \/ n \in P THEN "null" ELSE pcb[n]]
            /\ state' = [n \in Conn |-> IF n \in P THEN "free"
                                        ELSE IF n = c THEN "none" ELSE state[n]]
         \/ /\ PostedUnanswered(t, c) /\ "short" \in use /\ pcb' = pcb
            /\ state' = [state EXCEPT ![c] = "close"]
  BY DEF Deletes
<1> HIDE DEF P
<1>4. ASSUME NEW n \in Conn PROVE (fatal[n] /\ n \notin P) = fatal[n]
  <2>1. fatal[n] \in BOOLEAN /\ n \notin P
    BY <1>1, <1>2
  <2> QED BY <2>1
<1>5. fatal' = fatal
  <2>1. fatal' = [n \in Conn |-> fatal[n]]
    BY <1>3, <1>4, Zenon
  <2> QED BY <1>2, <2>1, Zenon
<1>6. box' = [box EXCEPT ![c] = <<>>]
  BY <1>1, <1>2, <1>3
<1>7. pcb' = [n \in Conn |-> IF n = c \/ n \in P THEN "null" ELSE pcb[n]]
      => pcb' = [pcb EXCEPT ![c] = "null"]
  BY <1>1, <1>2
<1>8. state' = [n \in Conn |-> IF n \in P THEN "free"
                               ELSE IF n = c THEN "none" ELSE state[n]]
      => state' = state
  BY <1>1, <1>2
<1>9. [cur EXCEPT ![c] = None] = cur
  BY <1>2
<1> QED BY <1>3, <1>5, <1>6, <1>7, <1>8, <1>9

-----------------------------------------------------------------------------
(* Types                                                                   *)

Label == {"off", "begin", "recv", "more", "answer", "send", "close", "closed", "socket",
          "accept", "drop", "opts", "connect", "spawn", "end"}

CallTypes ==
    /\ at \in [Task -> {"run", "fetch", "posted", "asleep", "back"}]
    /\ on \in [Task -> Conn \cup {None}]
    /\ res \in [Task -> {"ok", "eof", "err"}]
TaskTypes == pc \in [Task -> Label] /\ fd \in [Task -> Fd \cup {-1}] /\ paused \in BOOLEAN
SockTypes == /\ socks \in [Fd -> Conn \cup {None}]
             /\ {sock_fd, sock_conn, sock_connect} \subseteq Fd \cup {-1}
ConnTypes ==
    /\ state \in [Conn -> {"free", "none", "listen", "connect", "write", "close"}]
    /\ pcb \in [Conn -> {"null", "closed", "listen", "syn", "open", "fin"}]
    /\ cur \in [Conn -> Task \cup {None}]
    /\ sem \in [Conn -> Nat]
BoxTypes == box \in [Conn -> Seq(Conn \cup {Data, Eof})] /\ fatal \in [Conn -> BOOLEAN]
BudgetTypes == use \in Uses /\ cmds \in 0..MaxCmds /\ peers \in 0..MaxPeers
AllTypes == CallTypes /\ TaskTypes /\ SockTypes /\ ConnTypes /\ BoxTypes /\ BudgetTypes

\* The type invariant in parts that steps touch one at a time.
LEMMA TypeParts == (TypeOK <=> AllTypes) /\ (TypeOK <=> AllTypes)'
<1>1. TypeOK <=> AllTypes
  BY Zenon DEF TypeOK, AllTypes, CallTypes, TaskTypes, SockTypes, ConnTypes, BoxTypes, BudgetTypes,
         Label
<1>2. (TypeOK <=> AllTypes)'
  BY Zenon DEF TypeOK, AllTypes, CallTypes, TaskTypes, SockTypes, ConnTypes, BoxTypes, BudgetTypes,
         Label
<1> QED BY <1>1, <1>2

\* Where a task starts, without the CASE.
LEMMA StartsAt ==
    /\ Starts[RevFile] = "begin" /\ Starts[ConnectClient] = "accept"
    /\ Starts[SocketTask] = "socket" /\ Starts[StopTask] = "send"
    /\ Starts[SendName] = "send" /\ Starts[RevServer] = "recv"
    /\ Starts[ConnectServer] = "connect" /\ Starts[InitTask] = "close"
BY DEF Starts

\* The chains of tasks, without the CASE.
LEMMA SuccessorIs ==
    /\ DOMAIN Successor = {SocketTask, ConnectClient, InitTask, ConnectServer}
    /\ Successor[SocketTask] = ConnectClient /\ Successor[ConnectClient] = RevFile
    /\ Successor[InitTask] = ConnectServer /\ Successor[ConnectServer] = RevServer
BY DEF Successor

\* What a created task is given, at most once.
LEMMA CreatedIs ==
    ASSUME NEW t \in Task, NEW p, p \in [Task -> Label]
    PROVE  /\ Created(p, t) \in [Task -> Label]
           /\ \A u \in Task : u # t => Created(p, t)[u] = p[u]
           /\ p[t] # "off" => Created(p, t)[t] = p[t]
           /\ p[t] = "off" => Created(p, t)[t] = Starts[t]
<1>1. Starts[t] \in Label
  BY StartsAt DEF Label
<1> QED BY <1>1 DEF Created

\* Where a task goes on after close(), without the CASE.
LEMMA ClosedIs ==
    ASSUME NEW t \in Task
    PROVE  /\ t = RevFile => Closed(t) = Created(Goto(t, "end"), ConnectClient)
           /\ t = InitTask => Closed(t) = Goto(t, "socket")
           /\ t # RevFile /\ t # InitTask => Closed(t) = Goto(t, "end")
<1>1. RevFile # InitTask
  OBVIOUS
<1> QED BY <1>1, Zenon DEF Closed

-----------------------------------------------------------------------------
(* What calls do                                                           *)

Answered(t, c) ==
    /\ at' = [at EXCEPT ![t] = "posted"] /\ on' = [on EXCEPT ![t] = c]
    /\ sem' = [sem EXCEPT ![c] = @ + 1] /\ cur' = cur
LeftOpen(t, c) ==
    /\ at' = [at EXCEPT ![t] = "posted"] /\ on' = [on EXCEPT ![t] = c]
    /\ cur' = [cur EXCEPT ![c] = t] /\ sem' = sem
Emptied(t, c) ==
    /\ box' = [box EXCEPT ![c] = <<>>] /\ fatal' = fatal
    /\ \/ Answered(t, c) /\ state' = state /\ pcb' = [pcb EXCEPT ![c] = "null"]
       \/ /\ LeftOpen(t, c) /\ "short" \in use
          /\ state' = [state EXCEPT ![c] = "close"] /\ pcb' = pcb
Ended(t) == at' = [at EXCEPT ![t] = "run"] /\ on' = [on EXCEPT ![t] = None]

\* do_delconn on a netconn without a call of its own.
LEMMA EmptiedIs ==
    ASSUME IInv, UsesApart, NEW t \in Task, ~Rests(t), at[t] \in {"run", "back"},
           NEW c \in Conn, state[c] = "none", pcb[c] # "listen", Deletes(t, c)
    PROVE  Emptied(t, c) /\ Counts'
<1>1. cur[c] = None
  BY NoOpenCall
<1>2. /\ box' = [box EXCEPT ![c] = <<>>] /\ fatal' = fatal
      /\ \/ /\ Posted(t, c) /\ cur' = cur /\ state' = state
            /\ pcb' = [pcb EXCEPT ![c] = "null"]
         \/ /\ PostedUnanswered(t, c) /\ "short" \in use /\ pcb' = pcb
            /\ state' = [state EXCEPT ![c] = "close"]
  BY <1>1, DeletesOne
<1>3. Posted(t, c) /\ cur' = cur => Answered(t, c) /\ Counts'
  BY PostedCounts DEF Answered
<1>4. PostedUnanswered(t, c) => LeftOpen(t, c) /\ Counts'
  BY <1>1, UnansweredCounts DEF LeftOpen, PostedUnanswered
<1> QED BY <1>2, <1>3, <1>4 DEF Emptied

\* sys_mbox_fetch and do_recv.
LEMMA FetchesDoes ==
    ASSUME IInv, UsesApart, NEW t \in Task, Fetches(t)
    PROVE  /\ on[t] \in Conn /\ ~Rests(t) /\ at[t] = "fetch" /\ pc[t] \in {"recv", "more"}
           /\ Answered(t, on[t]) /\ Counts'
           /\ \/ box' = box
              \/ box[on[t]] # <<>> /\ box' = [box EXCEPT ![on[t]] = Tail(@)]
<1>1. on[t] \in Conn /\ ~Rests(t) /\ at[t] = "fetch" /\ pc[t] \in {"recv", "more"}
  BY CallersWork DEF Fetches, Receiving
<1>2. Posted(t, on[t]) /\ cur' = cur
  BY DEF Fetches
<1>3. HasBox(on[t]) => box[on[t]] # <<>>
  BY <1>1 DEF Fetches, MayRun, Ready, Blocked
<1>4. box' = IF HasBox(on[t]) THEN [box EXCEPT ![on[t]] = Tail(@)] ELSE box
  BY DEF Fetches
<1> QED BY <1>1, <1>2, <1>3, <1>4, PostedCounts DEF Answered

\* do_write on the netconn of a descriptor.
LEMMA WritesDoes ==
    ASSUME IInv, UsesApart, NEW t \in Task, Writes(t), ConnAt(SocketOf(t)) # None
    PROVE  \E c \in Conn :
        /\ c = ConnAt(SocketOf(t)) /\ ~Rests(t) /\ at[t] = "run" /\ Sends(t)
        /\ cur[c] = None /\ state[c] = "none" /\ Counts'
        /\ UNCHANGED <<pc, pcb, fatal, box>>
        /\ \/ /\ Answered(t, c) /\ state' = state
              /\ \E r \in {"ok", "err"} : res' = Result(t, r)
           \/ /\ LeftOpen(t, c) /\ "short" \in use /\ res' = res
              /\ state' = [state EXCEPT ![c] = "write"]
<1>1. PICK c \in Conn : /\ c = ConnAt(SocketOf(t)) /\ Written(t, c) /\ ~Rests(t)
                        /\ at[t] = "run" /\ cur[c] = None /\ state[c] = "none"
  BY CalledConn DEF Writes, Sends
<1>2. Posted(t, c) /\ cur' = cur => Answered(t, c) /\ Counts'
  BY <1>1, PostedCounts DEF Answered
<1>3. PostedUnanswered(t, c) => LeftOpen(t, c) /\ Counts'
  BY <1>1, UnansweredCounts DEF LeftOpen, PostedUnanswered
<1>4. \/ /\ Answered(t, c) /\ Counts' /\ state' = state
         /\ \E r \in {"ok", "err"} : res' = Result(t, r)
      \/ /\ LeftOpen(t, c) /\ Counts' /\ "short" \in use /\ res' = res
         /\ state' = [state EXCEPT ![c] = "write"]
  BY <1>1, <1>2, <1>3 DEF Written
<1>5. Sends(t) /\ UNCHANGED <<pc, pcb, fatal, box>>
  BY DEF Writes
<1> QED BY <1>1, <1>4, <1>5

\* netconn_delete on the netconn of a descriptor.
LEMMA ClosesDoes ==
    ASSUME IInv, UsesApart, NEW t \in Task, Closes(t)
    PROVE  \E c \in Conn :
        /\ c = ConnAt(SocketOf(t)) /\ ~Rests(t) /\ at[t] = "run" /\ pc[t] = "close"
        /\ t # InitTask
        /\ cur[c] = None /\ state[c] = "none" /\ pcb[c] # "listen"
        /\ Emptied(t, c) /\ Counts'
<1>1. PICK c \in Conn :
        /\ c = ConnAt(SocketOf(t)) /\ ~Rests(t) /\ at[t] = "run" /\ pc[t] = "close"
        /\ t # InitTask
        /\ cur[c] = None /\ state[c] = "none" /\ pcb[c] # "listen" /\ Deletes(t, c)
  BY CalledConn DEF Closes, Calls
<1> QED BY <1>1, EmptiedIs

\* netconn_delete has what it frees to itself.
LEMMA FreesDoes ==
    ASSUME IInv, UsesApart, NEW t \in Task, CloseFrees(t) \/ Drops(t)
    PROVE  LET c == on[t] IN
        /\ c \in Conn /\ ~Rests(t) /\ at[t] = "back" /\ pc[t] \in {"close", "drop"}
        /\ cur[c] = None /\ state[c] \in {"none", "listen"}
        /\ pcb[c] = "null" /\ box[c] = <<>>
        /\ \A u \in Task : u # t => on[u] # c
        /\ Ended(t) /\ sem[c] = 0 /\ sem' = sem /\ cur' = cur
        /\ state' = [state EXCEPT ![c] = "free"] /\ pcb' = pcb /\ box' = box
        /\ fatal' = [fatal EXCEPT ![c] = FALSE]
        /\ Counts'
<1> DEFINE c == on[t]
<1>1. /\ c \in Conn /\ ~Rests(t) /\ at[t] = "back" /\ pc[t] \in {"close", "drop"}
      /\ c # None
  BY CallersWork DEF CloseFrees, Drops, Back
<1>2. cur[c] = None /\ state[c] \in {"none", "listen"}
  <2>1. state[c] # "free"
    BY <1>1 DEF IInv, CallInv, Live
  <2> QED BY <1>1, <2>1, NoOpenCall
<1>3. pcb[c] = "null" /\ box[c] = <<>>
  <2>1. box[c] = <<>> /\ (state[c] = "close" \/ pcb[c] = "null")
    BY <1>1 DEF IInv, CallInv, Gone
  <2> QED BY <1>2, <2>1
<1>4. ASSUME NEW u \in Task, u # t PROVE on[u] # c
  <2> SUFFICES ASSUME on[u] = c PROVE FALSE
    OBVIOUS
  <2>1. ~Rests(u) /\ MayRun(t)
    BY <1>1, CallersWork DEF CloseFrees, Drops, Back
  <2>2. t \in ClientTask /\ (t \in Talkers \/ u \in Talkers)
    BY <1>1, <1>4, <2>1, Solo
  <2>3. t \notin Talkers
    BY <1>1 DEF IInv, Places, MayBe
  <2> QED BY <2>1, <2>2, <2>3, Turns DEF Rests
<1>5. Waiting(c) = {} /\ Owed(c) = {}
  BY <1>1, <1>4 DEF Waiting, Owed
<1>6. sem[c] = 0
  BY <1>1, <1>5, FS_EmptySet DEF IInv, CallInv, Counts
<1>7. /\ at \in [Task -> {"run", "fetch", "posted", "asleep", "back"}]
      /\ sem \in [Conn -> Nat] /\ on \in [Task -> Conn \cup {None}]
  BY DEF IInv, TypeOK
<1>8. Ended(t)
  <2>1. CloseFrees(t) => at' = [u \in Task |-> IF u = t THEN "run" ELSE at[u]]
    BY <1>5 DEF CloseFrees
  <2>2. CloseFrees(t) => at' = [at EXCEPT ![t] = "run"]
    BY <1>7, <2>1
  <2> QED BY <2>2 DEF CloseFrees, Drops, Running, Ended
<1>9. /\ sem' = [sem EXCEPT ![c] = 0] /\ cur' = cur
      /\ state' = [state EXCEPT ![c] = "free"] /\ pcb' = pcb /\ box' = box
      /\ fatal' = [fatal EXCEPT ![c] = FALSE]
  BY DEF CloseFrees, Drops, Freed
<1>10. sem' = sem
  BY <1>6, <1>7, <1>9
<1>11. Counts'
  <2>1. ASSUME NEW u \in Task
        PROVE  /\ at'[u] = "posted" <=> at[u] = "posted"
               /\ at[u] = "posted" => on'[u] = on[u]
    BY <1>1, <1>7, <1>8 DEF Ended
  <2>2. Counts
    BY DEF IInv, CallInv
  <2> QED BY <1>9, <1>10, <2>1, <2>2, SameCounts
<1> QED BY <1>1, <1>2, <1>3, <1>4, <1>6, <1>8, <1>9, <1>10, <1>11

\* The netconn at the head of the acceptmbox is nobody else's.
LEMMA AcceptsDoes ==
    ASSUME IInv, UsesApart, Accepts(ConnectClient)
    PROVE  LET l == on[ConnectClient]  n == Head(box[l]) IN
        /\ "client" \notin use /\ pc[ConnectClient] = "accept" /\ at[ConnectClient] = "fetch"
        /\ ~Rests(ConnectClient) /\ l \in Listening /\ l \in Conn /\ box[l] # <<>>
        /\ n \in Conn /\ n \in Elems(box[l]) /\ state[n] = "none" /\ cur[n] = None
        /\ \A u \in Task : on[u] # n
        /\ Answered(ConnectClient, n) /\ Counts'
        /\ box' = [box EXCEPT ![l] = Tail(@)]
        /\ UNCHANGED <<pc, sock_conn>> /\ \E r \in {"ok", "err"} : res' = Result(ConnectClient, r)
<1> DEFINE t == ConnectClient
           l == on[t]
           n == Head(box[l])
<1>1. at[t] = "fetch" /\ l \in Conn /\ ~Rests(t)
  BY CallersWork DEF Accepts
<1>2. pc[t] = "accept"
  BY <1>1 DEF IInv, Places, MayBe, CallInv, InCalls, CallAt
<1>3. "client" \notin use
  BY <1>1, <1>2 DEF IInv, Shape, ClientShape, ClientChain
<1>4. ServerListens /\ l \in Listening
  BY <1>1, <1>3 DEF IInv, Shape, ServerShape, ServerSockets
<1>5. HasBox(l)
  BY <1>4 DEF ServerListens, Listening, HasBox
<1>6. box[l] # <<>> /\ box[l] \in Seq(Conn \cup {Data, Eof})
  <2>1. box[l] \in Seq(Conn \cup {Data, Eof})
    BY <1>1 DEF IInv, TypeOK
  <2> QED BY <1>1, <1>5, <2>1 DEF Accepts, MayRun, Ready, Blocked
<1>7. n \in Elems(box[l]) /\ n \in Conn
  BY <1>4, <1>6, TailElems DEF ServerListens
<1>8. state[n] = "none" /\ \A u \in Task : on[u] # n
  BY <1>4, <1>7 DEF ServerListens, IsPending
<1>9. cur[n] = None
  BY <1>1, <1>7, NoOpenCall
<1>10. /\ Posted(t, n) /\ UNCHANGED <<pc, sock_conn, cur>>
       /\ box' = [box EXCEPT ![l] = Tail(@)]
       /\ \E r \in {"ok", "err"} : res' = Result(t, r)
  BY <1>5 DEF Accepts
<1>11. Answered(t, n) /\ Counts'
  BY <1>1, <1>7, <1>10, PostedCounts DEF Answered
<1> QED BY <1>1, <1>2, <1>3, <1>4, <1>6, <1>7, <1>8, <1>9, <1>10, <1>11

\* The netconn that accept got no descriptor for is deleted.
LEMMA AcceptDeletes ==
    ASSUME IInv, UsesApart, AcceptReturns(ConnectClient),
           ~(res[ConnectClient] = "ok" /\ FreeFd # {})
    PROVE  LET c == on[ConnectClient] IN
        /\ c \in Conn /\ c = Accepted /\ ~Rests(ConnectClient)
        /\ state[c] = "none" /\ cur[c] = None /\ pcb[c] # "listen"
        /\ Emptied(ConnectClient, c) /\ Counts'
        /\ pc' = Goto(ConnectClient, "drop") /\ UNCHANGED <<socks, sock_conn>>
<1>1. pc[ConnectClient] = "accept" /\ at[ConnectClient] = "back"
  BY DEF AcceptReturns, Back
<1>2. ~Rests(ConnectClient)
  BY <1>1, CallersWork
<1>3. PICK c \in Conn : /\ c = on[ConnectClient] /\ c = Accepted /\ state[c] = "none"
                        /\ cur[c] = None /\ pcb[c] # "listen"
  BY <1>1, AcceptedConn
<1>4. /\ Deletes(ConnectClient, c)
      /\ pc' = Goto(ConnectClient, "drop") /\ UNCHANGED <<socks, sock_conn>>
  BY <1>3 DEF AcceptReturns
<1> QED BY <1>1, <1>2, <1>3, <1>4, EmptiedIs

\* setsockopt is answered at once.
LEMMA OptionsDoes ==
    ASSUME IInv, UsesApart, NEW t \in Task, SetsOptions(t), ConnAt(Chosen(t)) # None
    PROVE  \E c \in Conn :
        /\ c = ConnAt(Chosen(t)) /\ ~Rests(t) /\ at[t] = "run" /\ pc[t] = "opts"
        /\ state[c] = "none" /\ Answered(t, c) /\ Counts' /\ pc' = pc
<1>1. PICK c \in Conn : /\ c = ConnAt(Chosen(t)) /\ ~Rests(t) /\ at[t] = "run"
                        /\ pc[t] = "opts" /\ state[c] = "none"
  BY CalledConn DEF SetsOptions, Calls
<1>2. Posted(t, c) /\ cur' = cur /\ pc' = pc
  BY <1>1 DEF SetsOptions, connVars
<1> QED BY <1>1, <1>2, PostedCounts DEF Answered

\* do_connect is answered at once, or left open with the SYN out.
LEMMA ConnectsDoes ==
    ASSUME IInv, UsesApart, NEW t \in Task, Connects(t)
    PROVE  \E c \in Conn :
        /\ c = ConnAt(sock_connect) /\ ~Rests(t) /\ at[t] = "run" /\ pc[t] = "connect"
        /\ t = ConnectServer
        /\ state[c] = "none" /\ cur[c] = None /\ Counts' /\ UNCHANGED <<pc, fatal, box>>
        /\ \/ /\ Answered(t, c) /\ UNCHANGED <<state, pcb>>
              /\ res' = Result(t, "err")
           \/ /\ LeftOpen(t, c) /\ res' = res
              /\ state' = [state EXCEPT ![c] = "connect"]
              /\ pcb' = [pcb EXCEPT ![c] = "syn"]
<1>1. t = ConnectServer /\ pc[t] = "connect" /\ at[t] = "run"
  BY DEF Connects, Calls
<1>2. ConnAt(sock_connect) # None
  <2>1. "client" \in use
    BY <1>1 DEF IInv, Shape, ServerShape, ServerChain
  <2> QED BY <1>1, <2>1 DEF IInv, Shape, ClientShape, ClientSockets, HasConn, ConnAt
<1>3. PICK c \in Conn : c = ConnAt(sock_connect) /\ ~Rests(t) /\ state[c] = "none"
                        /\ cur[c] = None
  BY <1>1, <1>2, CalledConn
<1>4. Posted(t, c) /\ cur' = cur => Answered(t, c) /\ Counts'
  BY <1>1, <1>3, PostedCounts DEF Answered
<1>5. PostedUnanswered(t, c) => LeftOpen(t, c) /\ Counts'
  BY <1>1, <1>3, UnansweredCounts DEF LeftOpen, PostedUnanswered
<1>6. UNCHANGED <<pc, fatal, box>>
  BY <1>2 DEF Connects
<1>7. \/ /\ Answered(t, c) /\ Counts' /\ UNCHANGED <<state, pcb>>
         /\ res' = Result(t, "err")
      \/ /\ LeftOpen(t, c) /\ Counts' /\ res' = res
         /\ state' = [state EXCEPT ![c] = "connect"]
         /\ pcb' = [pcb EXCEPT ![c] = "syn"]
  BY <1>2, <1>3, <1>4, <1>5 DEF Connects
<1> QED BY <1>1, <1>3, <1>6, <1>7

\* The end of the call that is open on c.
Told(c) ==
    /\ state' = [state EXCEPT ![c] = "none"] /\ cur' = [cur EXCEPT ![c] = None] /\ on' = on
    /\ \/ /\ at[cur[c]] = "asleep" /\ sem' = sem
          /\ at' = [at EXCEPT ![cur[c]] = "back"]
       \/ /\ at[cur[c]] = "posted" /\ at' = at
          /\ sem' = [sem EXCEPT ![c] = @ + 1]

\* A callback ends the call that waits for it.
LEMMA CompletedDoes ==
    ASSUME IInv, UsesApart, NEW c \in Conn, Established(c) \/ WriteDone(c) \/ CloseDone(c)
    PROVE  /\ Told(c) /\ Counts' /\ cur[c] # None /\ cur[c] \in Task /\ on[cur[c]] = c
           /\ state[c] \in {"connect", "write", "close"}
           /\ UNCHANGED <<pc, fd, res, paused, socks, globals, fatal, box, budget>>
           /\ \/ pcb' = pcb /\ state[c] = "write"
              \/ pcb' = [pcb EXCEPT ![c] = "open"] /\ state[c] = "connect"
              \/ pcb' = [pcb EXCEPT ![c] = "null"] /\ state[c] = "close"
<1>1. Completed(c) /\ state[c] \in {"connect", "write", "close"}
  BY DEF Established, WriteDone, CloseDone
<1>2. cur[c] # None
  BY <1>1 DEF IInv, CallInv, Open
<1>3. Told(c) /\ Counts'
  BY <1>1, <1>2, SignalCounts DEF Completed, Told
<1>4. UNCHANGED <<pc, fd, res, paused, socks, globals, fatal, box, budget>>
  BY <1>1 DEF Completed
<1>5. \/ pcb' = pcb /\ state[c] = "write"
      \/ pcb' = [pcb EXCEPT ![c] = "open"] /\ state[c] = "connect"
      \/ pcb' = [pcb EXCEPT ![c] = "null"] /\ state[c] = "close"
  BY DEF Established, WriteDone, CloseDone
<1> QED BY <1>1, <1>2, <1>3, <1>4, <1>5, OpenIsSolo

\* err_tcp answers the call that is open, if one is.
LEMMA AbortsDoes ==
    ASSUME IInv, UsesApart, NEW c \in Conn, Aborts(c)
    PROVE  /\ pcb[c] \in {"syn", "open", "fin"} /\ pcb' = [pcb EXCEPT ![c] = "null"]
           /\ Counts' /\ on' = on
           /\ state[c] \in {"none", "connect", "write", "close"}
           /\ \/ /\ cur[c] # None /\ cur[c] \in Task /\ on[cur[c]] = c /\ Told(c)
                 /\ res' = Result(cur[c], "err")
              \/ cur[c] = None /\ state[c] = "none" /\ UNCHANGED <<state, cur, res, at, sem>>
           /\ \/ box' = box
              \/ \E d \in Strays : /\ d = c \/ state[c] = "close"
                                  /\ box' = [box EXCEPT ![d] = Append(@, Eof)]
           /\ fatal' = [fatal EXCEPT ![c] = TRUE]
           /\ UNCHANGED <<pc, fd, paused, socks, globals, budget>>
<1>1. pcb[c] \in {"syn", "open", "fin"} /\ pcb' = [pcb EXCEPT ![c] = "null"] /\ on' = on
  BY DEF Aborts
<1>2. state[c] \notin {"free", "listen"}
  <2>1. state[c] # "free"
    BY <1>1 DEF IInv, CallInv, FreedIsClean
  <2>2. CASE "client" \in use
    BY <2>1, <2>2 DEF IInv, Shape, ClientShape, ClientSockets
  <2>3. CASE "client" \notin use
    BY <1>1, <2>1, <2>3 DEF IInv, Shape, ServerShape, ServerListens, Listening
  <2> QED BY <2>2, <2>3
<1>3. /\ cur[c] = None <=> state[c] = "none"
      /\ state[c] \in {"none", "connect", "write", "close"}
  <2>1. state[c] \in {"free", "none", "listen", "connect", "write", "close"}
    BY DEF IInv, TypeOK
  <2> QED BY <1>2, <2>1 DEF IInv, CallInv, Open
<1>4. state' = [state EXCEPT ![c] = "none"]
  BY DEF Aborts
<1>5. ASSUME cur[c] # None
      PROVE  cur[c] \in Task /\ on[cur[c]] = c /\ Told(c) /\ res' = Result(cur[c], "err") /\ Counts'
  <2>1. cur' = [cur EXCEPT ![c] = None] /\ res' = Result(cur[c], "err") /\ Signal(c, at)
    BY <1>3, <1>5 DEF Aborts
  <2> QED BY <1>1, <1>4, <1>5, <2>1, SignalCounts, OpenIsSolo DEF Told
<1>6. ASSUME cur[c] = None
      PROVE  state[c] = "none" /\ UNCHANGED <<state, cur, res, at, sem>> /\ Counts'
  <2>1. state[c] = "none" /\ UNCHANGED <<cur, res, at, sem>>
    BY <1>3, <1>6 DEF Aborts
  <2>2. state' = state
    <3>1. state \in [Conn -> {"free", "none", "listen", "connect", "write", "close"}]
      BY DEF IInv, TypeOK
    <3> QED BY <1>4, <2>1, <3>1
  <2>3. Counts
    BY DEF IInv, CallInv
  <2>4. Counts'
    BY <1>1, <2>1, <2>3, SameCounts
  <2> QED BY <2>1, <2>2, <2>4
<1>7. \/ box' = box
      \/ \E d \in Strays : /\ d = c \/ state[c] = "close"
                          /\ box' = [box EXCEPT ![d] = Append(@, Eof)]
  <2>1. HasBox(c) => c \in Strays
    BY <1>1 DEF Strays
  <2>2. ~HasBox(c) => state[c] = "close"
    BY <1>1, <1>2 DEF HasBox
  <2> QED BY <2>1, <2>2 DEF Aborts
<1>8. fatal' = [fatal EXCEPT ![c] = TRUE] /\ UNCHANGED <<pc, fd, paused, socks, globals, budget>>
  BY DEF Aborts
<1> QED BY <1>1, <1>3, <1>5, <1>6, <1>7, <1>8

\* accept_function gives a free netconn to the peer.
LEMMA PeerConnectsDoes ==
    ASSUME IInv, SocketTasksAssumption, PeerConnects
    PROVE  \E l, n \in Conn :
        /\ l \in Listening /\ state[n] = "free" /\ n # l
        /\ state' = [state EXCEPT ![n] = "none"] /\ pcb' = [pcb EXCEPT ![n] = "open"]
        /\ box' = [box EXCEPT ![l] = Append(@, n)]
        /\ peers < MaxPeers /\ peers' = peers + 1
        /\ UNCHANGED <<taskVars, socks, globals, fatal, cur, sem, use, cmds>>
<1>1. PICK l \in Listening :
        /\ FreeConn # {}
        /\ state' = [state EXCEPT ![Min(FreeConn)] = "none"]
        /\ pcb' = [pcb EXCEPT ![Min(FreeConn)] = "open"]
        /\ box' = [box EXCEPT ![l] = Append(@, Min(FreeConn))]
  BY DEF PeerConnects
<1> DEFINE n == Min(FreeConn)
<1>2. n \in Conn /\ state[n] = "free"
  BY <1>1, FirstFree
<1>3. pcb[n] = "null"
  BY <1>2 DEF IInv, CallInv, FreedIsClean
<1>4. l \in Conn /\ n # l
  BY <1>3 DEF Listening
<1> HIDE DEF n
<1>5. /\ peers < MaxPeers /\ peers' = peers + 1
      /\ UNCHANGED <<taskVars, socks, globals, fatal, cur, sem, use, cmds>>
  BY DEF PeerConnects
<1> QED BY <1>1, <1>2, <1>4, <1>5 DEF n

\* socket(): the first free netconn under the first free descriptor.
LEMMA OpensDoes ==
    ASSUME IInv, SocketTasksAssumption, ~NoSocket, NEW how, NEW p, Opened(how, p)
    PROVE  \E c \in Conn, s \in Fd :
        /\ c = Min(FreeConn) /\ s = Min(FreeFd) /\ state[c] = "free" /\ socks[s] = None
        /\ state' = [state EXCEPT ![c] = how] /\ pcb' = [pcb EXCEPT ![c] = p]
        /\ socks' = [socks EXCEPT ![s] = c]
BY FirstFree DEF Opened, NoSocket

-----------------------------------------------------------------------------
(* Types are kept                                                          *)

\* What a step does not touch keeps its type.
LEMMA SameTypes ==
    /\ CallTypes /\ UNCHANGED <<at, on, res>> => CallTypes'
    /\ TaskTypes /\ UNCHANGED <<pc, fd, paused>> => TaskTypes'
    /\ SockTypes /\ UNCHANGED <<socks, globals>> => SockTypes'
    /\ ConnTypes /\ UNCHANGED <<state, pcb, cur, sem>> => ConnTypes'
    /\ BoxTypes /\ UNCHANGED <<box, fatal>> => BoxTypes'
    /\ BudgetTypes /\ UNCHANGED budget => BudgetTypes'
<1>1. CallTypes /\ UNCHANGED <<at, on, res>> => CallTypes'
  BY Zenon DEF CallTypes
<1>2. TaskTypes /\ UNCHANGED <<pc, fd, paused>> => TaskTypes'
  BY Zenon DEF TaskTypes
<1>3. SockTypes /\ UNCHANGED <<socks, globals>> => SockTypes'
  BY Zenon DEF SockTypes, globals
<1>4. ConnTypes /\ UNCHANGED <<state, pcb, cur, sem>> => ConnTypes'
  BY Zenon DEF ConnTypes
<1>5. BoxTypes /\ UNCHANGED <<box, fatal>> => BoxTypes'
  BY Zenon DEF BoxTypes
<1>6. BudgetTypes /\ UNCHANGED budget => BudgetTypes'
  BY Zenon DEF BudgetTypes, budget
<1> QED BY <1>1, <1>2, <1>3, <1>4, <1>5, <1>6

\* What a message does to the netconn it is about.
LEMMA CalledTypes ==
    ASSUME CallTypes, ConnTypes, NEW t \in Task, NEW c \in Conn,
           Answered(t, c) \/ LeftOpen(t, c),
           res' = res \/ \E r \in {"ok", "eof", "err"} : res' = [res EXCEPT ![t] = r],
           state' = state \/ \E s \in {"write", "close", "connect"} : state' = [state EXCEPT ![c] = s],
           pcb' = pcb \/ \E p \in {"null", "syn"} : pcb' = [pcb EXCEPT ![c] = p]
    PROVE  CallTypes' /\ ConnTypes'
<1>1. CallTypes'
  BY DEF CallTypes, Answered, LeftOpen
<1>2. cur' \in [Conn -> Task \cup {None}] /\ sem' \in [Conn -> Nat]
  BY DEF ConnTypes, Answered, LeftOpen
<1>3. state' \in [Conn -> {"free", "none", "listen", "connect", "write", "close"}]
  BY DEF ConnTypes
<1>4. pcb' \in [Conn -> {"null", "closed", "listen", "syn", "open", "fin"}]
  BY DEF ConnTypes
<1> QED BY <1>1, <1>2, <1>3, <1>4 DEF ConnTypes

\* Every step keeps the types.
LEMMA TypeKept ==
    ASSUME IInv, UsesApart, SocketTasksAssumption, [OrderlyNext]_vars
    PROVE  TypeOK'
<1>0. /\ CallTypes /\ TaskTypes /\ SockTypes /\ ConnTypes /\ BoxTypes /\ BudgetTypes
  BY TypeParts DEF IInv, AllTypes
<1> SUFFICES AllTypes'
  BY TypeParts
<1>1. ASSUME NEW t \in Task, Begins(t) \/ RecvRefused(t) \/ RecvWaits(t) PROVE AllTypes'
  <2>1. SockTypes' /\ ConnTypes' /\ BoxTypes' /\ BudgetTypes'
    BY <1>0, <1>1 DEF SockTypes, ConnTypes, BoxTypes, BudgetTypes, Begins, RecvRefused,
       RecvWaits, globals, connVars, budget
  <2>2. ASSUME Begins(t) PROVE TaskTypes' /\ CallTypes'
    BY <1>0, <2>2 DEF TaskTypes, CallTypes, SockTypes, Label, Begins, Goto
  <2>3. ASSUME RecvRefused(t) PROVE TaskTypes' /\ CallTypes'
    BY <1>0, <2>3 DEF TaskTypes, CallTypes, Label, RecvRefused, AfterError, Goto
  <2>4. ASSUME RecvWaits(t) PROVE TaskTypes' /\ CallTypes'
    BY <1>0, <2>4 DEF TaskTypes, CallTypes, RecvWaits, Receivable
  <2> QED BY <1>1, <2>1, <2>2, <2>3, <2>4 DEF AllTypes
<1>2. ASSUME NEW t \in Task, Fetches(t) PROVE AllTypes'
  <2>1. /\ on[t] \in Conn /\ Answered(t, on[t])
        /\ \/ box' = box
           \/ box[on[t]] # <<>> /\ box' = [box EXCEPT ![on[t]] = Tail(@)]
    BY <1>2, FetchesDoes
  <2>2. BoxTypes'
    <3>1. box[on[t]] # <<>> => Tail(box[on[t]]) \in Seq(Conn \cup {Data, Eof})
      BY <1>0, <2>1, TailElems DEF BoxTypes
    <3>2. box' \in [Conn -> Seq(Conn \cup {Data, Eof})]
      BY <1>0, <2>1, <3>1 DEF BoxTypes
    <3> QED BY <1>0, <1>2, <3>2 DEF BoxTypes, Fetches
  <2>3. CallTypes'
    BY <1>0, <1>2, <2>1 DEF CallTypes, Fetches, Answered, Result
  <2>4. TaskTypes' /\ SockTypes' /\ ConnTypes' /\ BudgetTypes'
    BY SMTT(20), <1>0, <1>2, <2>1 DEF TaskTypes, SockTypes, ConnTypes, BudgetTypes, Fetches, Answered,
       globals, budget
  <2> QED BY <2>2, <2>3, <2>4 DEF AllTypes
<1>3. ASSUME NEW t \in Task, RecvReturns(t) \/ SendReturns(t) \/ OptionsSet(t)
                             \/ ConnectReturns(t)
      PROVE  AllTypes'
  <2>1. SockTypes' /\ ConnTypes' /\ BudgetTypes'
    BY <1>0, <1>3 DEF SockTypes, ConnTypes, BudgetTypes, RecvReturns, SendReturns,
       OptionsSet, ConnectReturns, globals, connVars, budget
  <2>2. BoxTypes'
    <3>1. box' = box /\ \/ fatal' = fatal
                        \/ fatal' = [fatal EXCEPT ![on[t]] = state[on[t]] # "free"]
      BY <1>3 DEF RecvReturns, SendReturns, OptionsSet, ConnectReturns, connVars
    <3>2. fatal' \in [Conn -> BOOLEAN]
      BY <1>0, <3>1, Zenon DEF BoxTypes
    <3> QED BY <1>0, <3>1, <3>2, Zenon DEF BoxTypes
  <2>3. CallTypes'
    BY <1>0, <1>3 DEF CallTypes, RecvReturns, SendReturns, OptionsSet, ConnectReturns,
       Running, Result
  <2>4. TaskTypes'
    <3>1. \E l \in Label : pc' = [pc EXCEPT ![t] = l]
      BY <1>3 DEF RecvReturns, SendReturns, OptionsSet, ConnectReturns, AfterData,
         AfterSend, Goto, Label
    <3>2. UNCHANGED <<fd, paused>>
      BY <1>3 DEF RecvReturns, SendReturns, OptionsSet, ConnectReturns
    <3> QED BY <1>0, <3>1, <3>2 DEF TaskTypes
  <2> QED BY <2>1, <2>2, <2>3, <2>4 DEF AllTypes
<1>4. ASSUME NEW t \in Task, Writes(t) PROVE AllTypes'
  <2>1. SockTypes' /\ BoxTypes' /\ BudgetTypes'
    BY <1>0, <1>4 DEF SockTypes, BoxTypes, BudgetTypes, Writes, globals, budget
  <2>2. ASSUME ConnAt(SocketOf(t)) = None PROVE TaskTypes' /\ CallTypes' /\ ConnTypes'
    <3>1. \E l \in Label : pc' = [pc EXCEPT ![t] = l]
      BY <1>4, <2>2 DEF Writes, AfterSend, Goto, Label
    <3> QED BY <1>0, <1>4, <2>2, <3>1 DEF TaskTypes, CallTypes, ConnTypes, Writes
  <2>3. ASSUME ConnAt(SocketOf(t)) # None PROVE TaskTypes' /\ CallTypes' /\ ConnTypes'
    <3>1. PICK c \in Conn : /\ UNCHANGED <<pc, pcb>>
                            /\ \/ /\ Answered(t, c) /\ state' = state
                                  /\ \E r \in {"ok", "err"} : res' = Result(t, r)
                               \/ /\ LeftOpen(t, c) /\ res' = res
                                  /\ state' = [state EXCEPT ![c] = "write"]
      BY <1>4, <2>3, WritesDoes
    <3>2. UNCHANGED <<fd, paused>>
      BY <1>4 DEF Writes
    <3>3. CallTypes' /\ ConnTypes'
      BY <1>0, <3>1, CalledTypes DEF Result
    <3> QED BY <1>0, <3>1, <3>2, <3>3, SameTypes
  <2> QED BY <2>1, <2>2, <2>3 DEF AllTypes
<1>5. ASSUME NEW t \in Task, CloseRefused(t) \/ CloseReturns(t) PROVE AllTypes'
  <2>1. CallTypes' /\ ConnTypes' /\ BoxTypes' /\ BudgetTypes'
    BY <1>0, <1>5 DEF CallTypes, ConnTypes, BoxTypes, BudgetTypes, CloseRefused, CloseReturns,
       connVars, budget
  <2>2. TaskTypes'
    <3>1. Closed(t) \in [Task -> Label]
      <4>1. Goto(t, "end") \in [Task -> Label] /\ Goto(t, "socket") \in [Task -> Label]
        BY <1>0 DEF TaskTypes, Goto, Label
      <4> QED BY <4>1, CreatedIs, ClosedIs
    <3>2. pc' = Closed(t) /\ paused' = paused /\ (fd' = fd \/ fd' = [fd EXCEPT ![t] = 0])
      BY <1>5 DEF CloseRefused, CloseReturns
    <3>3. 0 \in Fd
      BY SocketTasksAssumption DEF Fd
    <3>4. fd' \in [Task -> Fd \cup {-1}]
      BY <1>0, <3>2, <3>3 DEF TaskTypes
    <3> QED BY <1>0, <3>1, <3>2, <3>4 DEF TaskTypes
  <2>3. SockTypes'
    BY <1>0, <1>5 DEF SockTypes, CloseRefused, CloseReturns, globals
  <2> QED BY <2>1, <2>2, <2>3 DEF AllTypes
<1>6. ASSUME NEW t \in Task, Closes(t) PROVE AllTypes'
  <2>1. PICK c \in Conn : c = ConnAt(SocketOf(t)) /\ Emptied(t, c)
    BY <1>6, ClosesDoes
  <2>2. SocketOf(t) \in Fd
    BY <2>1 DEF ConnAt, Conn
  <2>3. SockTypes' /\ TaskTypes' /\ BudgetTypes'
    <3>1. UNCHANGED <<pc, paused, socks, globals, budget>> /\ fd' = [fd EXCEPT ![t] = SocketOf(t)]
      BY <1>6 DEF Closes
    <3>2. TaskTypes'
      BY <1>0, <2>2, <3>1 DEF TaskTypes
    <3> QED BY <1>0, <3>1, <3>2, SameTypes
  <2>4. CallTypes' /\ ConnTypes'
    <3>1. res' = res
      BY <1>6 DEF Closes
    <3> QED BY <1>0, <2>1, <3>1, CalledTypes DEF Emptied
  <2>5. BoxTypes'
    BY <1>0, <2>1 DEF BoxTypes, Emptied
  <2> QED BY <2>3, <2>4, <2>5 DEF AllTypes
<1>7. ASSUME NEW t \in Task, CloseFrees(t) \/ Drops(t) PROVE AllTypes'
  <2>1. /\ Ended(t) /\ sem' = sem /\ cur' = cur
        /\ state' = [state EXCEPT ![on[t]] = "free"] /\ pcb' = pcb /\ box' = box
        /\ fatal' = [fatal EXCEPT ![on[t]] = FALSE]
    BY <1>7, FreesDoes
  <2>2. CallTypes' /\ ConnTypes'
    BY <1>0, <1>7, <2>1 DEF CallTypes, ConnTypes, Ended, CloseFrees, Drops
  <2>3. BoxTypes'
    <3>1. fatal' \in [Conn -> BOOLEAN]
      BY <1>0, <2>1, Zenon DEF BoxTypes
    <3> QED BY <1>0, <2>1, <3>1, Zenon DEF BoxTypes
  <2>4. SockTypes' /\ TaskTypes' /\ BudgetTypes'
    BY <1>0, <1>7 DEF SockTypes, TaskTypes, BudgetTypes, Label, CloseFrees, Drops, Goto,
       globals, budget
  <2> QED BY <2>2, <2>3, <2>4 DEF AllTypes
<1>8. ASSUME NEW t \in Task, OpensListener(t) \/ OpensClient(t) PROVE AllTypes'
  <2>1. CallTypes' /\ BoxTypes' /\ BudgetTypes'
    BY <1>0, <1>8 DEF CallTypes, BoxTypes, BudgetTypes, OpensListener, OpensClient, budget
  <2>2. TaskTypes'
    BY <1>0, <1>8 DEF TaskTypes, Label, OpensListener, OpensClient, Goto
  <2>3. ASSUME NoSocket PROVE SockTypes' /\ ConnTypes'
    BY <1>0, <1>8, <2>3 DEF SockTypes, ConnTypes, OpensListener, OpensClient
  <2>4. ASSUME ~NoSocket PROVE SockTypes' /\ ConnTypes'
    <3>1. \E how \in {"none", "listen"}, p \in {"closed", "listen"} : Opened(how, p)
      BY <1>8, <2>4 DEF OpensListener, OpensClient
    <3>2. PICK c \in Conn, s \in Fd, how \in {"none", "listen"}, p \in {"closed", "listen"} :
            /\ state' = [state EXCEPT ![c] = how] /\ pcb' = [pcb EXCEPT ![c] = p]
            /\ socks' = [socks EXCEPT ![s] = c] /\ s = Min(FreeFd)
      BY <2>4, <3>1, OpensDoes
    <3>3. {sock_fd', sock_conn', sock_connect'} \subseteq Fd \cup {-1}
      BY <1>0, <1>8, <2>4, <3>2 DEF SockTypes, OpensListener, OpensClient
    <3>4. cur' = cur /\ sem' = sem
      BY <1>8 DEF OpensListener, OpensClient
    <3> QED BY <1>0, <3>2, <3>3, <3>4 DEF SockTypes, ConnTypes
  <2> QED BY <2>1, <2>2, <2>3, <2>4 DEF AllTypes
<1>9. ASSUME NEW t \in Task, EntersAccept(t) \/ Accepts(t) PROVE AllTypes'
  <2>1. SockTypes' /\ TaskTypes' /\ BudgetTypes'
    BY <1>0, <1>9 DEF SockTypes, TaskTypes, BudgetTypes, Label, EntersAccept, Accepts, Goto,
       budget
  <2>2. ASSUME EntersAccept(t) PROVE CallTypes' /\ ConnTypes' /\ BoxTypes'
    <3>1. UNCHANGED <<res, state, pcb, cur, sem, box, fatal>>
      BY <2>2 DEF EntersAccept, connVars
    <3>2. CallTypes'
      BY <1>0, <2>2, <3>1 DEF CallTypes, EntersAccept, Listening
    <3> QED BY <1>0, <3>1, <3>2, SameTypes
  <2>3. ASSUME Accepts(t) PROVE CallTypes' /\ ConnTypes' /\ BoxTypes'
    <3>1. t = ConnectClient
      BY <2>3 DEF Accepts
    <3>2. PICK l, n \in Conn :
            /\ box[l] # <<>> /\ Answered(t, n) /\ box' = [box EXCEPT ![l] = Tail(@)]
            /\ \E r \in {"ok", "err"} : res' = Result(t, r)
      BY <2>3, <3>1, AcceptsDoes
    <3>3. state' = state /\ pcb' = pcb /\ fatal' = fatal
      BY <2>3 DEF Accepts
    <3>4. CallTypes' /\ ConnTypes'
      BY <1>0, <3>2, <3>3, CalledTypes DEF Result
    <3>5. Tail(box[l]) \in Seq(Conn \cup {Data, Eof})
      BY <1>0, <3>2, TailElems DEF BoxTypes
    <3> QED BY <1>0, <3>2, <3>3, <3>4, <3>5 DEF BoxTypes
  <2> QED BY <1>9, <2>1, <2>2, <2>3 DEF AllTypes
<1>10. ASSUME NEW t \in Task, AcceptReturns(t) PROVE AllTypes'
  <2>1. t = ConnectClient /\ at[t] = "back"
    BY <1>10 DEF AcceptReturns, Back
  <2>2. TaskTypes' /\ BudgetTypes'
    BY <1>0, <1>10 DEF TaskTypes, BudgetTypes, Label, AcceptReturns, Goto, budget
  <2>3. ASSUME res[t] = "ok", FreeFd # {}
        PROVE  SockTypes' /\ CallTypes' /\ ConnTypes' /\ BoxTypes'
    <3>1. Min(FreeFd) \in Fd /\ on[t] \in Conn
      BY <2>1, <2>3, FirstFree, CallersWork
    <3>2. /\ socks' = [socks EXCEPT ![Min(FreeFd)] = on[t]] /\ sock_conn' = Min(FreeFd)
          /\ UNCHANGED <<sock_fd, sock_connect>>
      BY <1>10, <2>3 DEF AcceptReturns
    <3>3. SockTypes'
      BY <1>0, <3>1, <3>2 DEF SockTypes
    <3>4. /\ UNCHANGED <<state, pcb, cur, sem, box, fatal>> /\ Ended(t)
          /\ res' = Result(t, "ok")
      BY <1>10, <2>3 DEF AcceptReturns, Running, connVars, Ended
    <3>5. CallTypes'
      BY <1>0, <3>4 DEF CallTypes, Ended, Result
    <3> QED BY <1>0, <3>3, <3>4, <3>5, SameTypes
  <2>4. ASSUME ~(res[t] = "ok" /\ FreeFd # {})
        PROVE  SockTypes' /\ CallTypes' /\ ConnTypes' /\ BoxTypes'
    <3>1. PICK c \in Conn : Emptied(t, c) /\ UNCHANGED <<socks, sock_conn>>
      BY <1>10, <2>1, <2>4, AcceptDeletes
    <3>2. res' = Result(t, "ok") /\ UNCHANGED <<sock_fd, sock_connect>>
      BY <1>10 DEF AcceptReturns
    <3>3. CallTypes' /\ ConnTypes'
      BY <1>0, <3>1, <3>2, CalledTypes DEF Emptied, Result
    <3>4. BoxTypes' /\ SockTypes'
      BY <1>0, <3>1, <3>2 DEF BoxTypes, SockTypes, Emptied
    <3> QED BY <3>3, <3>4
  <2> QED BY <2>2, <2>3, <2>4 DEF AllTypes
<1>11. ASSUME NEW t \in Task, SetsOptions(t) \/ Connects(t) PROVE AllTypes'
  <2>1. SockTypes' /\ TaskTypes' /\ BudgetTypes' /\ BoxTypes'
    <3>1. UNCHANGED <<fd, paused, socks, globals, fatal, box, budget>>
      BY <1>11 DEF SetsOptions, Connects, connVars
    <3>2. pc' = pc \/ \E l \in {"spawn", "close"} : pc' = [pc EXCEPT ![t] = l]
      BY <1>11 DEF SetsOptions, Connects, Goto
    <3>3. TaskTypes'
      BY <1>0, <3>1, <3>2 DEF TaskTypes, Label
    <3> QED BY <1>0, <3>1, <3>3, SameTypes
  <2>2. ASSUME SetsOptions(t) PROVE CallTypes' /\ ConnTypes'
    <3>1. UNCHANGED <<res, connVars>>
      BY <2>2 DEF SetsOptions
    <3>2. ASSUME ConnAt(Chosen(t)) = None PROVE CallTypes' /\ ConnTypes'
      BY <1>0, <2>2, <3>1, <3>2, SameTypes DEF SetsOptions, connVars
    <3>3. ASSUME ConnAt(Chosen(t)) # None PROVE CallTypes' /\ ConnTypes'
      <4>1. PICK c \in Conn : Answered(t, c)
        BY <2>2, <3>3, OptionsDoes
      <4> QED BY <1>0, <3>1, <4>1, CalledTypes DEF connVars
    <3> QED BY <3>2, <3>3
  <2>3. ASSUME Connects(t) PROVE CallTypes' /\ ConnTypes'
    <3>1. PICK c \in Conn :
             \/ /\ Answered(t, c) /\ UNCHANGED <<state, pcb>>
                /\ res' = Result(t, "err")
             \/ /\ LeftOpen(t, c) /\ res' = res
                /\ state' = [state EXCEPT ![c] = "connect"]
                /\ pcb' = [pcb EXCEPT ![c] = "syn"]
      BY <2>3, ConnectsDoes
    <3> QED BY <1>0, <3>1, CalledTypes DEF Result
  <2> QED BY <1>11, <2>1, <2>2, <2>3 DEF AllTypes
<1>12. ASSUME NEW t \in Task, Spawns(t) \/ Ends(t) PROVE AllTypes'
  <2>1. CallTypes' /\ SockTypes' /\ ConnTypes' /\ BoxTypes' /\ BudgetTypes'
    BY <1>0, <1>12, SameTypes DEF Spawns, Ends, connVars
  <2>2. TaskTypes'
    <3>1. ASSUME Spawns(t) PROVE pc' \in [Task -> Label]
      <4>1. Goto(t, "end") \in [Task -> Label] /\ Successor[t] \in Task
        BY <1>0, <3>1, SuccessorIs DEF TaskTypes, Goto, Label, Spawns
      <4> QED BY <3>1, <4>1, CreatedIs DEF Spawns
    <3>2. ASSUME Ends(t) PROVE pc' \in [Task -> Label]
      BY <1>0, <3>2 DEF TaskTypes, Goto, Label, Ends
    <3>3. fd' \in [Task -> Fd \cup {-1}] /\ paused' = paused
      <4>1. 0 \in Fd
        BY SocketTasksAssumption DEF Fd
      <4> QED BY <1>0, <1>12, <4>1 DEF TaskTypes, Spawns, Ends
    <3> QED BY <1>0, <1>12, <3>1, <3>2, <3>3 DEF TaskTypes
  <2> QED BY <2>1, <2>2 DEF AllTypes
<1>13. ASSUME NEW t \in Task, Pends(t) PROVE AllTypes'
  <2>1. SockTypes' /\ TaskTypes' /\ BudgetTypes' /\ BoxTypes'
    BY <1>0, <1>13 DEF SockTypes, TaskTypes, BudgetTypes, BoxTypes, Pends, globals, connVars,
       budget
  <2>2. /\ on[t] \in Conn /\ on' = on /\ cur' = cur
        /\ \/ at' = [at EXCEPT ![t] = "back"] /\ sem[on[t]] > 0
              /\ sem' = [sem EXCEPT ![on[t]] = @ - 1]
           \/ at' = [at EXCEPT ![t] = "asleep"] /\ sem' = sem
    BY <1>13, PendsCounts
  <2>3. UNCHANGED <<res, state, pcb>>
    BY <1>13 DEF Pends, connVars
  <2> QED BY <1>0, <2>1, <2>2, <2>3 DEF AllTypes, CallTypes, ConnTypes
<1>14. ASSUME OrderlyCommands PROVE AllTypes'
  <2>1. CallTypes' /\ SockTypes' /\ ConnTypes' /\ BoxTypes' /\ fd' = fd
    <3>1. UNCHANGED <<at, on, fd, res, socks, globals, connVars, sem>>
      BY <1>14 DEF OrderlyCommands, Command, Socket_init, Init_Client, Send_File_Name, Stop_Download,
         Pause_Download, Continue_Download
    <3> QED BY <1>0, <3>1, SameTypes DEF connVars
  <2>2. BudgetTypes'
    <3>1. cmds < MaxCmds /\ cmds' = cmds + 1 /\ UNCHANGED <<use, peers>>
      BY <1>14 DEF OrderlyCommands, Command, Socket_init, Init_Client, Send_File_Name, Stop_Download,
         Pause_Download, Continue_Download
    <3> QED BY <1>0, <3>1, SocketTasksAssumption DEF BudgetTypes
  <2>3. pc' \in [Task -> Label] /\ paused' \in BOOLEAN
    <3>1. \/ pc' = pc
          \/ \E t \in Task : pc' = Created(pc, t)
      BY <1>14 DEF OrderlyCommands, Socket_init, Init_Client, Send_File_Name, Stop_Download,
         Pause_Download, Continue_Download
    <3>2. pc' \in [Task -> Label]
      BY <1>0, <3>1, CreatedIs DEF TaskTypes
    <3>3. paused' \in BOOLEAN
      BY <1>0, <1>14 DEF TaskTypes, OrderlyCommands, Socket_init, Init_Client, Send_File_Name,
         Stop_Download, Pause_Download, Continue_Download
    <3> QED BY <3>2, <3>3
  <2> QED BY <1>0, <2>1, <2>2, <2>3 DEF AllTypes, TaskTypes
<1>15. ASSUME PeerConnects PROVE AllTypes'
  <2>1. PICK l, n \in Conn :
          /\ state' = [state EXCEPT ![n] = "none"] /\ pcb' = [pcb EXCEPT ![n] = "open"]
          /\ box' = [box EXCEPT ![l] = Append(@, n)]
          /\ peers < MaxPeers /\ peers' = peers + 1
          /\ UNCHANGED <<taskVars, socks, globals, fatal, cur, sem, use, cmds>>
    BY <1>15, PeerConnectsDoes
  <2>2. Append(box[l], n) \in Seq(Conn \cup {Data, Eof})
    BY <1>0, AppendElems DEF BoxTypes
  <2>3. CallTypes' /\ TaskTypes' /\ SockTypes'
    BY <1>0, <2>1 DEF CallTypes, TaskTypes, SockTypes, taskVars, globals
  <2>4. ConnTypes' /\ BoxTypes' /\ BudgetTypes'
    BY <1>0, <2>1, <2>2, SocketTasksAssumption DEF ConnTypes, BoxTypes, BudgetTypes
  <2> QED BY <2>3, <2>4 DEF AllTypes
<1>16. ASSUME NEW c \in Conn, DataArrives(c) \/ FinArrives(c) PROVE AllTypes'
  <2>1. CallTypes' /\ TaskTypes' /\ SockTypes' /\ BudgetTypes' /\ ConnTypes'
    <3>1. /\ UNCHANGED <<taskVars, socks, globals, state, cur, sem, budget>>
          /\ pcb' = pcb \/ pcb' = [pcb EXCEPT ![c] = "fin"]
      BY <1>16 DEF DataArrives, FinArrives
    <3>2. ConnTypes'
      BY <1>0, <3>1 DEF ConnTypes
    <3> QED BY <1>0, <3>1, <3>2, SameTypes DEF taskVars
  <2>2. PICK e \in {Data, Eof} : box' = [box EXCEPT ![c] = Append(@, e)] /\ fatal' = fatal
    BY <1>16 DEF DataArrives, FinArrives
  <2>3. Append(box[c], e) \in Seq(Conn \cup {Data, Eof})
    BY <1>0, AppendElems DEF BoxTypes
  <2> QED BY <1>0, <2>1, <2>2, <2>3 DEF AllTypes, BoxTypes
<1>17. ASSUME NEW c \in Conn, Aborts(c) PROVE AllTypes'
  <2>1. /\ pcb' = [pcb EXCEPT ![c] = "null"] /\ on' = on
        /\ \/ /\ cur[c] \in Task /\ Told(c)
              /\ res' = Result(cur[c], "err")
           \/ UNCHANGED <<state, cur, res, at, sem>>
        /\ \/ box' = box
           \/ \E d \in Conn : box' = [box EXCEPT ![d] = Append(@, Eof)]
        /\ fatal' = [fatal EXCEPT ![c] = TRUE]
        /\ UNCHANGED <<pc, fd, paused, socks, globals, budget>>
    BY <1>17, AbortsDoes DEF Strays
  <2>2. \A d \in Conn : Append(box[d], Eof) \in Seq(Conn \cup {Data, Eof})
    BY <1>0, AppendElems DEF BoxTypes
  <2>3. BoxTypes'
    <3>1. fatal' \in [Conn -> BOOLEAN]
      BY <1>0, <2>1, Zenon DEF BoxTypes
    <3>2. box' \in [Conn -> Seq(Conn \cup {Data, Eof})]
      BY <1>0, <2>1, <2>2 DEF BoxTypes
    <3> QED BY <3>1, <3>2 DEF BoxTypes
  <2>4. TaskTypes' /\ SockTypes' /\ BudgetTypes'
    BY <1>0, <2>1 DEF TaskTypes, SockTypes, BudgetTypes, globals, budget
  <2>5. CallTypes'
    BY <1>0, <2>1 DEF CallTypes, Told, Result
  <2>6. ConnTypes'
    <3>1. state' \in [Conn -> {"free", "none", "listen", "connect", "write", "close"}]
      BY <1>0, <2>1 DEF ConnTypes, Told
    <3>2. pcb' \in [Conn -> {"null", "closed", "listen", "syn", "open", "fin"}]
      BY <1>0, <2>1 DEF ConnTypes
    <3>3. cur' \in [Conn -> Task \cup {None}]
      BY <1>0, <2>1 DEF ConnTypes, Told
    <3>4. sem' = sem \/ sem' = [sem EXCEPT ![c] = @ + 1]
      BY <2>1 DEF Told
    <3>5. sem' \in [Conn -> Nat]
      BY <1>0, <3>4 DEF ConnTypes
    <3> QED BY <3>1, <3>2, <3>3, <3>5 DEF ConnTypes
  <2> QED BY <2>3, <2>4, <2>5, <2>6 DEF AllTypes
<1>18. ASSUME NEW c \in Conn, Established(c) \/ WriteDone(c) \/ CloseDone(c) PROVE AllTypes'
  <2>1. /\ Told(c) /\ cur[c] \in Task
        /\ UNCHANGED <<pc, fd, res, paused, socks, globals, fatal, box, budget>>
        /\ \E p \in {"open", "null"} : pcb' = pcb \/ pcb' = [pcb EXCEPT ![c] = p]
    BY <1>18, CompletedDoes
  <2>2. TaskTypes' /\ SockTypes' /\ BoxTypes' /\ BudgetTypes'
    BY <1>0, <2>1 DEF TaskTypes, SockTypes, BoxTypes, BudgetTypes, globals, budget
  <2>3. CallTypes' /\ ConnTypes'
    BY <1>0, <2>1 DEF CallTypes, ConnTypes, Told
  <2> QED BY <2>2, <2>3 DEF AllTypes
<1>19. ASSUME UNCHANGED vars PROVE AllTypes'
  BY <1>0, <1>19, SameTypes DEF AllTypes, vars, taskVars, connVars
<1> QED BY <1>1, <1>2, <1>3, <1>4, <1>5, <1>6, <1>7, <1>8, <1>9, <1>10, <1>11, <1>12, <1>13,
           <1>14, <1>15, <1>16, <1>17, <1>18, <1>19
        DEF OrderlyNext, TaskStep, Peer, Timers

-----------------------------------------------------------------------------
(* Places are kept                                                         *)

\* A step moves one task, and may create one.
LEMMA PlacesMove ==
    ASSUME IInv, NEW t \in Task, NEW l, MayBe(t, l),
           pc' = [pc EXCEPT ![t] = l] \/ \E u \in Task : pc' = Created(Goto(t, l), u),
           CallAt(t, l, at'[t], on'[t]),
           \A u \in Task : u # t => at'[u] = at[u] /\ on'[u] = on[u],
           l \in Label
    PROVE  Places' /\ InCalls'
<1>1. pc \in [Task -> Label] /\ Places /\ InCalls
  BY TypeParts DEF IInv, AllTypes, TaskTypes, CallInv
<1> SUFFICES ASSUME NEW v \in Task
             PROVE  MayBe(v, pc'[v]) /\ CallAt(v, pc'[v], at'[v], on'[v])
  BY DEF Places, InCalls
<1>2. MayBe(v, pc[v]) /\ CallAt(v, pc[v], at[v], on[v])
  BY <1>1 DEF Places, InCalls
<1> DEFINE p == Goto(t, l)
<1>3. p \in [Task -> Label] /\ p[t] = l /\ \A u \in Task : u # t => p[u] = pc[u]
  BY <1>1 DEF Goto
<1>4. pc' = p \/ \E u \in Task : pc' = Created(p, u)
  BY DEF Goto
<1> HIDE DEF p
<1>5. pc'[v] = p[v] \/ (p[v] = "off" /\ pc'[v] = Starts[v])
  BY <1>3, <1>4, CreatedIs
<1>6. MayBe(v, p[v]) /\ CallAt(v, p[v], at'[v], on'[v])
  BY <1>2, <1>3
<1>7. ASSUME p[v] = "off" PROVE MayBe(v, Starts[v]) /\ CallAt(v, Starts[v], at'[v], on'[v])
  <2>1. MayBe(v, Starts[v]) /\ Starts[v] # "drop"
    BY StartsAt DEF MayBe
  <2>2. at'[v] = "run" /\ on'[v] = None
    BY <1>6, <1>7 DEF CallAt
  <2> QED BY <2>1, <2>2 DEF CallAt
<1> QED BY <1>5, <1>6, <1>7

\* A callback or a command.
LEMMA PlacesStay ==
    ASSUME IInv, on' = on, pc' = pc \/ \E u \in Task : pc' = Created(pc, u),
           \A u \in Task : at'[u] = at[u] \/ (at[u] = "asleep" /\ at'[u] = "back")
    PROVE  Places' /\ InCalls'
<1>1. pc \in [Task -> Label] /\ Places /\ InCalls
  BY TypeParts DEF IInv, AllTypes, TaskTypes, CallInv
<1> SUFFICES ASSUME NEW v \in Task
             PROVE  MayBe(v, pc'[v]) /\ CallAt(v, pc'[v], at'[v], on'[v])
  BY DEF Places, InCalls
<1>2. MayBe(v, pc[v]) /\ CallAt(v, pc[v], at[v], on[v])
  BY <1>1 DEF Places, InCalls
<1>3. pc'[v] = pc[v] \/ (pc[v] = "off" /\ pc'[v] = Starts[v])
  BY <1>1, CreatedIs
<1>4. CallAt(v, pc[v], at'[v], on'[v])
  BY <1>2 DEF CallAt
<1>5. ASSUME pc[v] = "off" PROVE MayBe(v, Starts[v]) /\ CallAt(v, Starts[v], at'[v], on'[v])
  <2>1. MayBe(v, Starts[v]) /\ Starts[v] # "drop"
    BY StartsAt DEF MayBe
  <2>2. at'[v] = "run" /\ on'[v] = None
    BY <1>4, <1>5 DEF CallAt
  <2> QED BY <2>1, <2>2 DEF CallAt
<1> QED BY <1>2, <1>3, <1>4, <1>5

\* Every step leaves each task inside its own program.
LEMMA PlacesKept ==
    ASSUME IInv, UsesApart, SocketTasksAssumption, [OrderlyNext]_vars
    PROVE  Places' /\ InCalls'
<1>0. /\ Places /\ InCalls /\ None \notin Conn
      /\ pc \in [Task -> Label] /\ on \in [Task -> Conn \cup {None}]
      /\ at \in [Task -> {"run", "fetch", "posted", "asleep", "back"}]
  BY TypeParts DEF IInv, AllTypes, TaskTypes, CallTypes, CallInv, Conn
\* A task whose label stays.
<1> DEFINE Stays(t) == /\ pc' = pc /\ CallAt(t, pc[t], at'[t], on'[t])
                       /\ \A u \in Task : u # t => at'[u] = at[u] /\ on'[u] = on[u]
<1>a. ASSUME NEW t \in Task, Stays(t) PROVE Places' /\ InCalls'
  <2>1. \A u \in Task : MayBe(u, pc'[u]) /\ CallAt(u, pc'[u], at'[u], on'[u])
    BY <1>0, <1>a DEF Places, InCalls
  <2> QED BY <2>1 DEF Places, InCalls
\* A task that calls.
<1>b. ASSUME NEW t \in Task, NEW c \in Conn, Answered(t, c) \/ LeftOpen(t, c), pc' = pc,
             ~Rests(t), t # InitTask,
             pc[t] \notin {"begin", "closed", "socket", "spawn"}
      PROVE  Places' /\ InCalls'
  <2>1. /\ at' = [at EXCEPT ![t] = "posted"] /\ on' = [on EXCEPT ![t] = c]
    BY <1>b DEF Answered, LeftOpen
  <2>2. CallAt(t, pc[t], at'[t], on'[t])
    BY <1>0, <1>b, <2>1 DEF CallAt, Rests
  <2>3. \A u \in Task : u # t => at'[u] = at[u] /\ on'[u] = on[u]
    BY <1>0, <2>1
  <2> QED BY <1>a, <1>b, <2>2, <2>3
<1> HIDE DEF Stays
<1>1. ASSUME NEW t \in Task, Begins(t) \/ RecvRefused(t) \/ CloseRefused(t) \/ CloseReturns(t)
                             \/ Spawns(t) \/ Ends(t)
      PROVE  Places' /\ InCalls'
  <2>1. at[t] = "run" /\ at' = at /\ on' = on
    <3>1. Spawns(t) \/ Ends(t) => at[t] = "run"
      BY <1>0 DEF Spawns, Ends, Calls, InCalls, CallAt
    <3> QED BY <1>1, <3>1 DEF Begins, RecvRefused, CloseRefused, CloseReturns, Spawns, Ends, Calls
  <2>2. on[t] = None
    BY <1>0, <2>1 DEF InCalls, CallAt
  <2>3. \A l \in Label : l # "drop" => CallAt(t, l, at'[t], on'[t])
    BY <2>1, <2>2 DEF CallAt
  <2>4. \E l \in Label : /\ MayBe(t, l) /\ l # "drop"
                         /\ \/ pc' = [pc EXCEPT ![t] = l]
                            \/ \E u \in Task : pc' = Created(Goto(t, l), u)
    <3>1. ASSUME Begins(t) \/ RecvRefused(t)
          PROVE  \E l \in {"recv", "close", "answer"} : MayBe(t, l) /\ pc' = [pc EXCEPT ![t] = l]
      BY <1>0, <3>1 DEF Begins, RecvRefused, Receiving, AfterError, Goto, MayBe
    <3>2. ASSUME CloseRefused(t) \/ CloseReturns(t)
          PROVE  \E l \in {"end", "socket"} : /\ MayBe(t, l)
                         /\ \/ pc' = [pc EXCEPT ![t] = l]
                            \/ \E u \in Task : pc' = Created(Goto(t, l), u)
      <4>1. pc' = Closed(t) /\ pc[t] \in {"close", "closed"}
        BY <3>2 DEF CloseRefused, CloseReturns, Calls
      <4>2. ASSUME t = RevFile PROVE \E u \in Task : pc' = Created(Goto(t, "end"), u)
        BY <4>1, <4>2, ClosedIs
      <4>3. ASSUME t = InitTask PROVE pc' = [pc EXCEPT ![t] = "socket"] /\ MayBe(t, "socket")
        BY <4>1, <4>3, ClosedIs DEF Goto, MayBe
      <4>4. ASSUME t # RevFile, t # InitTask PROVE pc' = [pc EXCEPT ![t] = "end"]
        BY <4>1, <4>4, ClosedIs DEF Goto
      <4>5. MayBe(t, "end")
        BY DEF MayBe
      <4> QED BY <4>2, <4>3, <4>4, <4>5
    <3>3. ASSUME Spawns(t)
          PROVE  MayBe(t, "end") /\ \E u \in Task : pc' = Created(Goto(t, "end"), u)
      BY <3>3, SuccessorIs DEF Spawns, MayBe
    <3>4. ASSUME Ends(t) PROVE MayBe(t, "off") /\ pc' = [pc EXCEPT ![t] = "off"]
      BY <3>4 DEF Ends, Goto, MayBe
    <3> QED BY <1>1, <3>1, <3>2, <3>3, <3>4 DEF Label
  <2> QED BY <2>1, <2>3, <2>4, PlacesMove
<1>2. ASSUME NEW t \in Task, RecvWaits(t) \/ EntersAccept(t) PROVE Places' /\ InCalls'
  <2>1. ASSUME NEW c \in Conn, pc' = pc, on' = [on EXCEPT ![t] = c], at' = [at EXCEPT ![t] = "fetch"],
               pc[t] \in {"recv", "more", "accept"}
        PROVE  Places' /\ InCalls'
    <3>1. t # InitTask
      BY <1>0, <2>1 DEF Places, MayBe
    <3>2. CallAt(t, pc[t], at'[t], on'[t])
      BY <1>0, <2>1, <3>1 DEF CallAt
    <3>3. \A u \in Task : u # t => at'[u] = at[u] /\ on'[u] = on[u]
      BY <1>0, <2>1
    <3> QED BY <1>a, <2>1, <3>2, <3>3 DEF Stays
  <2>2. ASSUME RecvWaits(t) PROVE Places' /\ InCalls'
    BY <2>1, <2>2 DEF RecvWaits, Receiving, Receivable
  <2>3. ASSUME EntersAccept(t), ConnAt(sock_fd) \in Listening PROVE Places' /\ InCalls'
    BY <2>1, <2>3 DEF EntersAccept, Calls, Listening
  <2>4. ASSUME EntersAccept(t), ConnAt(sock_fd) \notin Listening PROVE Places' /\ InCalls'
    <3>1. at[t] = "run" /\ at' = at /\ on' = on /\ pc' = [pc EXCEPT ![t] = "opts"]
          /\ t = ConnectClient
      BY <2>4 DEF EntersAccept, Calls, Goto
    <3>2. CallAt(t, "opts", at'[t], on'[t])
      BY <1>0, <3>1 DEF InCalls, CallAt
    <3> QED BY <3>1, <3>2, PlacesMove DEF MayBe, Label
  <2> QED BY <1>2, <2>2, <2>3, <2>4
<1>3. ASSUME NEW t \in Task, RecvReturns(t) \/ SendReturns(t) \/ OptionsSet(t)
                             \/ ConnectReturns(t)
      PROVE  Places' /\ InCalls'
  <2>1. Ended(t)
    BY <1>3 DEF RecvReturns, SendReturns, OptionsSet, ConnectReturns, Ended, Running
  <2>2. PICK l \in Label : l # "drop" /\ MayBe(t, l) /\ pc' = [pc EXCEPT ![t] = l]
    <3>1. ASSUME RecvReturns(t)
          PROVE  \E l \in {"more", "answer", "close"} : MayBe(t, l) /\ pc' = [pc EXCEPT ![t] = l]
      BY <3>1 DEF RecvReturns, Receiving, AfterData, MayBe, Goto
    <3>2. ASSUME SendReturns(t)
          PROVE  \E l \in {"recv", "close", "end"} : MayBe(t, l) /\ pc' = [pc EXCEPT ![t] = l]
      <4>1. PICK l \in AfterSend(t) : pc' = [pc EXCEPT ![t] = l]
        BY <3>2 DEF SendReturns, Goto
      <4>2. /\ t = RevFile => AfterSend(t) = {"recv"}
            /\ t = RevServer => AfterSend(t) = {"recv", "close"}
            /\ t \notin {RevFile, RevServer} => AfterSend(t) = {"end"}
        BY DEF AfterSend
      <4> QED BY <4>1, <4>2 DEF MayBe
    <3>3. ASSUME OptionsSet(t) PROVE MayBe(t, "spawn") /\ pc' = [pc EXCEPT ![t] = "spawn"]
      BY <3>3 DEF OptionsSet, MayBe, Goto
    <3>4. ASSUME ConnectReturns(t)
          PROVE  \E l \in {"opts", "close"} : MayBe(t, l) /\ pc' = [pc EXCEPT ![t] = l]
      BY <3>4 DEF ConnectReturns, MayBe, Goto
    <3> QED BY <1>3, <3>1, <3>2, <3>3, <3>4 DEF Label
  <2>3. at'[t] = "run" /\ on'[t] = None /\ \A u \in Task : u # t => at'[u] = at[u] /\ on'[u] = on[u]
    BY <1>0, <2>1 DEF Ended
  <2> QED BY <2>2, <2>3, PlacesMove DEF CallAt
<1>4. ASSUME NEW t \in Task, Fetches(t) PROVE Places' /\ InCalls'
  <2>1. on[t] \in Conn /\ ~Rests(t) /\ pc[t] \in {"recv", "more"} /\ Answered(t, on[t])
    BY <1>4, FetchesDoes
  <2>2. pc' = pc /\ t # InitTask
    BY <1>4 DEF Fetches, Receiving
  <2> QED BY <1>b, <2>1, <2>2
<1>5. ASSUME NEW t \in Task, Writes(t) PROVE Places' /\ InCalls'
  <2>1. Sends(t) /\ t # InitTask /\ at[t] = "run" /\ ~Rests(t)
    BY <1>0, <1>5 DEF Writes, Sends, Places, MayBe, Rests
  <2>2. ASSUME ConnAt(SocketOf(t)) = None PROVE Places' /\ InCalls'
    <3>1. PICK l \in AfterSend(t) : pc' = [pc EXCEPT ![t] = l] /\ at' = at /\ on' = on
      BY <1>5, <2>2 DEF Writes, Goto
    <3>2. /\ t = RevFile => AfterSend(t) = {"recv"}
          /\ t = RevServer => AfterSend(t) = {"recv", "close"}
          /\ t \notin {RevFile, RevServer} => AfterSend(t) = {"end"}
      BY DEF AfterSend
    <3>3. l \in {"recv", "close", "end"} /\ MayBe(t, l)
      BY <3>1, <3>2 DEF MayBe
    <3>4. CallAt(t, l, at'[t], on'[t])
      BY <1>0, <2>1, <3>1, <3>3 DEF InCalls, CallAt
    <3>5. l \in Label
      BY <3>3 DEF Label
    <3> QED BY <3>1, <3>3, <3>4, <3>5, PlacesMove
  <2>3. ASSUME ConnAt(SocketOf(t)) # None PROVE Places' /\ InCalls'
    <3>1. PICK c \in Conn : pc' = pc /\ (Answered(t, c) \/ LeftOpen(t, c))
      BY <1>5, <2>3, WritesDoes
    <3> QED BY <1>b, <2>1, <3>1 DEF Sends
  <2> QED BY <2>2, <2>3
<1>6. ASSUME NEW t \in Task, Closes(t) PROVE Places' /\ InCalls'
  <2>1. PICK c \in Conn : ~Rests(t) /\ pc[t] = "close" /\ t # InitTask /\ Emptied(t, c)
    BY <1>6, ClosesDoes
  <2>2. pc' = pc
    BY <1>6 DEF Closes
  <2> QED BY <1>b, <2>1, <2>2 DEF Emptied
<1>7. ASSUME NEW t \in Task, CloseFrees(t) \/ Drops(t) PROVE Places' /\ InCalls'
  <2>1. Ended(t)
    BY <1>7, FreesDoes
  <2>2. t # InitTask
    BY <1>0, <1>7 DEF CloseFrees, Drops, Back, InCalls, CallAt
  <2>3. PICK l \in {"closed", "opts"} : MayBe(t, l) /\ pc' = [pc EXCEPT ![t] = l]
    BY <1>0, <1>7, <2>2 DEF CloseFrees, Drops, Back, Goto, Places, MayBe
  <2>4. at'[t] = "run" /\ on'[t] = None /\ \A u \in Task : u # t => at'[u] = at[u] /\ on'[u] = on[u]
    BY <1>0, <2>1 DEF Ended
  <2> QED BY <2>3, <2>4, PlacesMove DEF CallAt, Label
<1>8. ASSUME NEW t \in Task, OpensListener(t) \/ OpensClient(t) PROVE Places' /\ InCalls'
  <2>1. at[t] = "run" /\ at' = at /\ on' = on /\ t \in {SocketTask, InitTask}
    BY <1>8 DEF OpensListener, OpensClient, Calls
  <2>2. PICK l \in {"end", "spawn"} : pc' = [pc EXCEPT ![t] = l]
    BY <1>8 DEF OpensListener, OpensClient, Goto
  <2>3. MayBe(t, l) /\ CallAt(t, l, at'[t], on'[t])
    BY <1>0, <2>1, <2>2 DEF MayBe, InCalls, CallAt
  <2> QED BY <2>1, <2>2, <2>3, PlacesMove DEF Label
<1>9. ASSUME NEW t \in Task, Accepts(t) PROVE Places' /\ InCalls'
  <2>1. t = ConnectClient
    BY <1>9 DEF Accepts
  <2>2. PICK n \in Conn : Answered(t, n) /\ pc[t] = "accept" /\ ~Rests(t) /\ pc' = pc
    BY <1>9, <2>1, AcceptsDoes
  <2> QED BY <1>b, <2>1, <2>2
<1>10. ASSUME NEW t \in Task, AcceptReturns(t) PROVE Places' /\ InCalls'
  <2>1. t = ConnectClient /\ at[t] = "back"
    BY <1>10 DEF AcceptReturns, Back
  <2>2. ASSUME res[t] = "ok", FreeFd # {} PROVE Places' /\ InCalls'
    <3>1. Ended(t) /\ pc' = [pc EXCEPT ![t] = "opts"]
      BY <1>10, <2>2 DEF AcceptReturns, Running, Goto, Ended
    <3>2. /\ at'[t] = "run" /\ on'[t] = None
          /\ \A u \in Task : u # t => at'[u] = at[u] /\ on'[u] = on[u]
      BY <1>0, <3>1 DEF Ended
    <3>3. MayBe(t, "opts") /\ CallAt(t, "opts", at'[t], on'[t])
      BY <2>1, <3>2 DEF MayBe, CallAt
    <3> QED BY <3>1, <3>2, <3>3, PlacesMove DEF Label
  <2>3. ASSUME ~(res[t] = "ok" /\ FreeFd # {}) PROVE Places' /\ InCalls'
    <3>1. PICK c \in Conn : Emptied(t, c) /\ pc' = [pc EXCEPT ![t] = "drop"]
      BY <1>10, <2>1, <2>3, AcceptDeletes DEF Goto
    <3>2. at' = [at EXCEPT ![t] = "posted"] /\ on' = [on EXCEPT ![t] = c]
      BY <3>1 DEF Emptied, Answered, LeftOpen
    <3>3. /\ at'[t] = "posted" /\ on'[t] \in Conn
          /\ \A u \in Task : u # t => at'[u] = at[u] /\ on'[u] = on[u]
      BY <1>0, <3>2
    <3>4. MayBe(t, "drop") /\ CallAt(t, "drop", at'[t], on'[t])
      BY <1>0, <2>1, <3>3 DEF MayBe, CallAt
    <3> QED BY <3>1, <3>3, <3>4, PlacesMove DEF Label
  <2> QED BY <2>2, <2>3
<1>11. ASSUME NEW t \in Task, SetsOptions(t) PROVE Places' /\ InCalls'
  <2>1. t \in {ConnectClient, ConnectServer} /\ at[t] = "run" /\ pc[t] = "opts"
    BY <1>11 DEF SetsOptions, Calls
  <2>2. ASSUME ConnAt(Chosen(t)) = None PROVE Places' /\ InCalls'
    <3>1. at' = at /\ on' = on /\ pc' = [pc EXCEPT ![t] = "spawn"]
      BY <1>11, <2>2 DEF SetsOptions, Goto
    <3>2. MayBe(t, "spawn") /\ CallAt(t, "spawn", at'[t], on'[t])
      BY <1>0, <2>1, <3>1 DEF MayBe, InCalls, CallAt
    <3> QED BY <3>1, <3>2, PlacesMove DEF Label
  <2>3. ASSUME ConnAt(Chosen(t)) # None PROVE Places' /\ InCalls'
    <3>1. PICK c \in Conn : Answered(t, c) /\ pc' = pc
      BY <1>11, <2>3, OptionsDoes
    <3> QED BY <1>b, <2>1, <3>1 DEF Rests
  <2> QED BY <2>2, <2>3
<1>12. ASSUME NEW t \in Task, Connects(t) PROVE Places' /\ InCalls'
  <2>1. PICK c \in Conn : /\ pc[t] = "connect" /\ t = ConnectServer /\ pc' = pc
                          /\ Answered(t, c) \/ LeftOpen(t, c)
    BY <1>12, ConnectsDoes
  <2> QED BY <1>b, <2>1 DEF Rests
<1>13. ASSUME NEW t \in Task, Pends(t) PROVE Places' /\ InCalls'
  <2>1. /\ at[t] = "posted" /\ on' = on /\ pc' = pc
        /\ \E a \in {"back", "asleep"} : at' = [at EXCEPT ![t] = a]
    BY <1>13, PendsCounts DEF Pends
  <2>2. CallAt(t, pc[t], at'[t], on'[t])
    BY <1>0, <2>1 DEF InCalls, CallAt
  <2>3. \A u \in Task : u # t => at'[u] = at[u] /\ on'[u] = on[u]
    BY <1>0, <2>1
  <2> QED BY <1>a, <2>1, <2>2, <2>3 DEF Stays
<1>14. ASSUME OrderlyCommands PROVE Places' /\ InCalls'
  <2>1. at' = at /\ on' = on /\ (pc' = pc \/ \E u \in Task : pc' = Created(pc, u))
    BY <1>14 DEF OrderlyCommands, Command, Socket_init, Init_Client, Send_File_Name, Stop_Download,
       Pause_Download, Continue_Download
  <2> QED BY <2>1, PlacesStay
<1>15. ASSUME PeerConnects \/ \E c \in Conn : DataArrives(c) \/ FinArrives(c)
       PROVE  Places' /\ InCalls'
  <2>1. at' = at /\ on' = on /\ pc' = pc
    BY <1>15 DEF PeerConnects, DataArrives, FinArrives, taskVars
  <2> QED BY <2>1, PlacesStay
<1>16. ASSUME NEW c \in Conn, Aborts(c) \/ Established(c) \/ WriteDone(c) \/ CloseDone(c)
       PROVE  Places' /\ InCalls'
  <2>1. on' = on /\ pc' = pc /\ (at' = at \/ (cur[c] \in Task /\ Told(c)))
    <3>1. ASSUME Aborts(c)
          PROVE  on' = on /\ pc' = pc /\ (at' = at \/ (cur[c] \in Task /\ Told(c)))
      BY <3>1, AbortsDoes
    <3>2. ASSUME Established(c) \/ WriteDone(c) \/ CloseDone(c)
          PROVE  on' = on /\ pc' = pc /\ cur[c] \in Task /\ Told(c)
      BY <3>2, CompletedDoes DEF Told
    <3> QED BY <1>16, <3>1, <3>2
  <2>2. \A u \in Task : at'[u] = at[u] \/ (at[u] = "asleep" /\ at'[u] = "back")
    BY <1>0, <2>1 DEF Told
  <2> QED BY <2>1, <2>2, PlacesStay
<1>17. ASSUME UNCHANGED vars PROVE Places' /\ InCalls'
  <2>1. at' = at /\ on' = on /\ pc' = pc
    BY <1>17 DEF vars, taskVars
  <2> QED BY <2>1, PlacesStay
<1> QED BY <1>1, <1>2, <1>3, <1>4, <1>5, <1>6, <1>7, <1>8, <1>9, <1>10, <1>11, <1>12, <1>13,
           <1>14, <1>15, <1>16, <1>17
        DEF OrderlyNext, TaskStep, Peer, Timers


-----------------------------------------------------------------------------
(* Calls are kept                                                          *)

CallRest == Counts /\ Open /\ Live /\ FreedIsClean /\ Gone /\ Plain

\* A step that no netconn sees: tasks go on, return from calls and begin to
\* wait on mailboxes.
LEMMA QuietKeeps ==
    ASSUME IInv, UNCHANGED <<state, pcb, box, cur, sem, use>>,
           \A u \in Task :
              \/ at'[u] = at[u] /\ on'[u] = on[u] /\ (at[u] = "run" \/ pc'[u] = pc[u])
              \/ /\ at[u] = "run" /\ at'[u] = "fetch" /\ state[on'[u]] # "free"
                 /\ pc'[u] \notin {"close", "drop"}
              \/ at[u] = "back" /\ at'[u] = "run" /\ on'[u] = None
    PROVE  CallRest'
<1>1. Counts /\ Open /\ Live /\ FreedIsClean /\ Gone /\ Plain /\ InCalls
  BY DEF IInv, CallInv
<1>2. Counts'
  BY <1>1, SameCounts
<1>3. \A c \in Conn : cur[c] \in Task \cup {None}
  BY DEF IInv, TypeOK
<1>4. Open'
  <2>1. ASSUME NEW c \in Conn, cur[c] # None
        PROVE  /\ on'[cur[c]] = c /\ at'[cur[c]] \in {"posted", "asleep"}
               /\ Fits(state[c], pc'[cur[c]])
    BY <1>1, <1>3, <2>1 DEF Open
  <2>2. \A t \in Task : at'[t] = "asleep" => cur[on'[t]] = t
    BY <1>1 DEF Open
  <2> QED BY <1>1, <2>1, <2>2 DEF Open
<1>5. Live'
  BY <1>1 DEF Live
<1>6. FreedIsClean'
  BY <1>1 DEF FreedIsClean
<1>7. Gone'
  BY <1>1 DEF Gone
<1>8. Plain'
  BY <1>1 DEF Plain
<1> QED BY <1>2, <1>4, <1>5, <1>6, <1>7, <1>8 DEF CallRest

\* A handler that answers at once.
LEMMA AnswerKeeps ==
    ASSUME IInv, UsesApart, NEW t \in Task, ~Rests(t), at[t] \in {"run", "fetch", "back"},
           NEW c \in Conn, state[c] # "free", Answered(t, c), Counts',
           UNCHANGED <<state, use>>, \A u \in Task : u # t => pc'[u] = pc[u],
           pc'[t] \in {"close", "drop"} => box'[c] = <<>> /\ pcb'[c] = "null",
           \A d \in Conn :
              /\ pcb'[d] = pcb[d] \/ (pcb'[d] = "null" /\ pcb[d] # "listen")
              /\ Elems(box'[d]) \subseteq Elems(box[d])
              /\ box[d] = <<>> => box'[d] = <<>>
    PROVE  CallRest'
<1>1. Open /\ Live /\ FreedIsClean /\ Gone /\ Plain /\ InCalls
  BY DEF IInv, CallInv
<1>2. \A d \in Conn : cur[d] = None /\ state[d] \in {"free", "none", "listen"}
  BY NoOpenCall
<1>3. /\ at'[t] = "posted" /\ on'[t] = c /\ cur' = cur
      /\ \A u \in Task : u # t => at'[u] = at[u] /\ on'[u] = on[u]
      /\ \A d \in Conn : d # c => sem'[d] = sem[d]
  <2>1. CallTypes /\ ConnTypes
    BY TypeParts DEF IInv, AllTypes
  <2> QED BY <2>1 DEF CallTypes, ConnTypes, Answered
<1>4. Open'
  BY <1>1, <1>2, <1>3 DEF Open
<1>5. Live'
  BY <1>1, <1>3 DEF Live
<1>6. FreedIsClean'
  BY <1>1, <1>3 DEF FreedIsClean
<1>7. Gone'
  <2> SUFFICES ASSUME NEW u \in Task, pc'[u] \in {"close", "drop"}, at'[u] # "run"
               PROVE  box'[on'[u]] = <<>> /\ pcb'[on'[u]] = "null"
    BY DEF Gone
  <2>1. ASSUME u # t PROVE box'[on[u]] = <<>> /\ pcb'[on[u]] = "null"
    <3>1. on[u] \in Conn
      BY <1>3, <2>1, CallersWork
    <3> QED BY SMTT(20), <1>1, <1>2, <1>3, <2>1, <3>1 DEF Gone
  <2> QED BY <1>3, <2>1
<1>8. Plain'
  BY <1>1 DEF Plain
<1> QED BY <1>4, <1>5, <1>6, <1>7, <1>8 DEF CallRest

\* A handler that leaves the call open.
LEMMA LeavesKeeps ==
    ASSUME IInv, UsesApart, NEW t \in Task, ~Rests(t), at[t] \in {"run", "back"},
           NEW c \in Conn, state[c] = "none", cur[c] = None, LeftOpen(t, c), Counts',
           NEW s, state' = [state EXCEPT ![c] = s], Fits(s, pc'[t]),
           "short" \in use \/ (t = ConnectServer /\ MayRun(t)), s \in {"write", "close"} => "short" \in use,
           UNCHANGED use, \A u \in Task : u # t => pc'[u] = pc[u],
           pcb' = pcb \/ (pcb' = [pcb EXCEPT ![c] = "syn"] /\ pcb[c] # "listen"),
           box' = box \/ box' = [box EXCEPT ![c] = <<>>],
           s = "close" => box'[c] = <<>>
    PROVE  CallRest'
<1>1. /\ Counts /\ Open /\ Live /\ FreedIsClean /\ Gone /\ Plain /\ InCalls
      /\ CallTypes /\ ConnTypes /\ BoxTypes
  BY TypeParts DEF IInv, CallInv, AllTypes
<1>2. \A d \in Conn : cur[d] = None /\ state[d] \in {"free", "none", "listen"}
  BY NoOpenCall
<1>3. /\ at'[t] = "posted" /\ on'[t] = c /\ cur'[c] = t /\ sem' = sem
      /\ \A u \in Task : u # t => at'[u] = at[u] /\ on'[u] = on[u]
      /\ \A d \in Conn : d # c => cur'[d] = None
  BY SMTT(20), <1>1, <1>2 DEF CallTypes, ConnTypes, LeftOpen
<1>4. \A u \in Task : u # t => on[u] = None /\ at[u] = "run"
  <2>1. ASSUME NEW u \in Task, u # t, ~Rests(u) PROVE FALSE
    <3>1. "talk" \in use
      BY <2>1, Solo
    <3>2. use \in Uses
      BY DEF IInv, TypeOK
    <3>3. t = ConnectServer /\ MayRun(t)
      BY <3>1, <3>2 DEF UsesApart
    <3>4. u \in Talkers
      BY <2>1, <3>3, Solo
    <3> QED BY <2>1, <3>3, <3>4, Turns DEF Rests
  <2> QED BY <2>1, CallersWork
<1>5. sem[c] = 0
  <2>1. Owed(c) = {}
    BY <1>4 DEF Owed
  <2> QED BY <1>1, <2>1, FS_EmptySet DEF Counts
<1>6. /\ state'[c] = s /\ \A d \in Conn : d # c => state'[d] = state[d]
      /\ \A d \in Conn : d # c => pcb'[d] = pcb[d] /\ box'[d] = box[d]
      /\ s \in {"write", "close", "connect"}
  BY <1>1 DEF ConnTypes, BoxTypes, Fits
<1>7. Open'
  <2>1. \A d \in Conn : cur'[d] = None <=> state'[d] \in {"free", "none", "listen"}
    BY <1>2, <1>3, <1>6
  <2>2. \A d \in Conn : cur'[d] # None =>
          /\ on'[cur'[d]] = d /\ at'[cur'[d]] \in {"posted", "asleep"}
          /\ Fits(state'[d], pc'[cur'[d]]) /\ sem'[d] = 0
    BY <1>3, <1>5, <1>6
  <2>3. \A u \in Task : at'[u] = "asleep" => cur'[on'[u]] = u
    BY <1>3, <1>4
  <2>4. \A d \in Conn : state'[d] \in {"write", "close"} => "short" \in use'
    BY <1>2, <1>6
  <2> QED BY <2>1, <2>2, <2>3, <2>4 DEF Open
<1>8. Live'
  BY <1>1, <1>3, <1>4, <1>6 DEF Live
<1>9. FreedIsClean'
  BY <1>1, <1>2, <1>3, <1>6 DEF FreedIsClean
<1>10. Gone'
  BY <1>3, <1>4, <1>6 DEF Gone, Fits
<1>11. Plain'
  <2>1. Elems(<<>>) = {}
    BY DEF Elems
  <2> QED BY <1>1, <1>6, <2>1 DEF Plain, BoxTypes, ConnTypes
<1> QED BY <1>7, <1>8, <1>9, <1>10, <1>11 DEF CallRest

\* The answer to a call that was left open.
LEMMA ToldKeeps ==
    ASSUME IInv, UsesApart, NEW c \in Conn, cur[c] # None, Told(c), Counts',
           UNCHANGED <<pc, use>>, pcb[c] # "listen",
           box' = box \/ \E d \in Strays : box' = [box EXCEPT ![d] = Append(@, Eof)],
           state[c] = "close" => pcb' = [pcb EXCEPT ![c] = "null"],
           \E p : pcb' = [pcb EXCEPT ![c] = p] /\ p # "listen"
    PROVE  CallRest'
<1> DEFINE v == cur[c]
<1>1. /\ Open /\ Live /\ FreedIsClean /\ Gone /\ Plain /\ InCalls
      /\ CallTypes /\ ConnTypes /\ BoxTypes
  BY TypeParts DEF IInv, CallInv, AllTypes
<1>2. v \in Task /\ on[v] = c /\ \A u \in Task : u # v => on[u] = None /\ at[u] = "run"
  BY OpenIsSolo
<1>3. \A d \in Conn : d # c => cur[d] = None /\ state[d] \in {"free", "none", "listen"}
  <2> SUFFICES ASSUME NEW d \in Conn, d # c, cur[d] # None PROVE FALSE
    BY <1>1 DEF Open
  <2> QED BY <1>2, OpenIsSolo
<1>4. state[c] # "free" /\ Fits(state[c], pc[v])
  BY <1>1 DEF Open
<1>5. /\ state'[c] = "none" /\ cur'[c] = None /\ on' = on /\ at'[v] \in {"posted", "back"}
      /\ \A u \in Task : u # v => at'[u] = "run"
      /\ \A d \in Conn : /\ d # c => state'[d] = state[d] /\ cur'[d] = cur[d] /\ sem'[d] = sem[d]
                         /\ d # c => pcb'[d] = pcb[d]
                         /\ \/ box'[d] = box[d]
                            \/ HasBox(d) /\ box'[d] = Append(box[d], Eof)
      /\ pcb'[c] # "listen"
  <2>2. \A d \in Conn : \/ box'[d] = box[d]
                        \/ HasBox(d) /\ box'[d] = Append(box[d], Eof)
    BY <1>1 DEF BoxTypes, Strays
  <2>3. pcb'[c] # "listen" /\ \A d \in Conn : d # c => pcb'[d] = pcb[d]
    BY <1>1 DEF ConnTypes
  <2>4. \A u \in Task : u # v => at'[u] = "run"
    BY <1>1, <1>2 DEF Told, CallTypes
  <2>5. at'[v] \in {"posted", "back"}
    BY <1>1, <1>2 DEF Told, CallTypes
  <2>6. /\ state'[c] = "none" /\ cur'[c] = None /\ on' = on
        /\ \A d \in Conn : d # c => state'[d] = state[d] /\ cur'[d] = cur[d] /\ sem'[d] = sem[d]
    BY <1>1 DEF Told, ConnTypes
  <2> QED BY <2>2, <2>3, <2>4, <2>5, <2>6
<1> HIDE DEF v
<1>6. Open'
  <2>1. \A d \in Conn : cur'[d] = None /\ state'[d] \in {"free", "none", "listen"}
    BY <1>3, <1>5
  <2>2. \A u \in Task : at'[u] # "asleep"
    BY <1>5
  <2> QED BY <2>1, <2>2 DEF Open
<1>7. Live'
  BY <1>1, <1>2, <1>5 DEF Live
<1>8. FreedIsClean'
  BY <1>1, <1>3, <1>5 DEF FreedIsClean, HasBox
<1>9. Gone'
  <2> SUFFICES ASSUME pc[v] \in {"close", "drop"} PROVE box'[c] = <<>> /\ pcb'[c] = "null"
    BY <1>2, <1>5 DEF Gone
  <2>1. state[c] = "close"
    BY <1>4 DEF Fits
  <2>2. at[v] # "run"
    BY <1>1 DEF Open, v
  <2>3. box'[c] = <<>>
    BY <1>1, <1>2, <1>5, <2>1, <2>2 DEF Gone, HasBox
  <2> QED BY <1>1, <2>1, <2>3 DEF ConnTypes
<1>10. Plain'
  <2> SUFFICES ASSUME NEW d \in Conn, pcb'[d] # "listen"
               PROVE  Elems(box'[d]) \subseteq {Data, Eof}
    BY DEF Plain
  <2>1. box[d] \in Seq(Conn \cup {Data, Eof}) /\ Elems(box[d]) \subseteq {Data, Eof}
    BY <1>1, <1>5 DEF BoxTypes, Plain
  <2>2. Elems(Append(box[d], Eof)) = Elems(box[d]) \cup {Eof}
    BY <2>1, AppendElems
  <2> QED BY <1>5, <2>1, <2>2
<1> QED BY <1>6, <1>7, <1>8, <1>9, <1>10 DEF CallRest

\* What TCP does to a netconn on which no call is open: a mailbox grows, a pcb
\* goes, a netconn is taken.
LEMMA ArrivalKeeps ==
    ASSUME IInv, UNCHANGED <<pc, at, on, cur, sem, use>>, NEW c \in Conn, NEW e \in Conn \cup {Data, Eof},
           box' = box \/ box' = [box EXCEPT ![c] = Append(@, e)],
           pcb[c] # "null", state[c] \notin {"free", "close"},
           pcb[c] # "listen" => e \in {Data, Eof},
           \A d \in Conn :
              \/ state'[d] = state[d] /\ pcb'[d] = pcb[d]
              \/ /\ d = c /\ state'[d] = state[d]
                 /\ pcb[d] # "listen" /\ pcb'[d] \in {"fin", "null"}
              \/ state[d] = "free" /\ state'[d] = "none" /\ pcb'[d] = "open"
    PROVE  CallRest'
<1>1. /\ Counts /\ Open /\ Live /\ FreedIsClean /\ Gone /\ Plain /\ InCalls
      /\ CallTypes /\ ConnTypes /\ BoxTypes
  BY TypeParts DEF IInv, CallInv, AllTypes
<1>2. /\ box'[c] = box[c] \/ box'[c] = Append(box[c], e)
      /\ \A d \in Conn : d # c => box'[d] = box[d]
  BY <1>1 DEF BoxTypes
<1>3. \A u \in Task : on[u] = None \/ on[u] \in Conn
  BY <1>1 DEF CallTypes
<1>4. Counts'
  BY <1>1, SameCounts
<1>5. Open'
  <2>1. \A d \in Conn : \/ state'[d] = state[d]
                        \/ state[d] = "free" /\ state'[d] = "none" /\ cur[d] = None
    BY <1>1 DEF FreedIsClean
  <2> QED BY <1>1, <2>1 DEF Open
<1>6. Live'
  BY <1>1, <1>3 DEF Live
<1>7. FreedIsClean'
  BY <1>1, <1>2 DEF FreedIsClean
<1>8. Gone'
  <2> SUFFICES ASSUME NEW u \in Task, pc[u] \in {"close", "drop"}, at[u] # "run"
               PROVE  /\ box'[on[u]] = <<>>
                      /\ state'[on[u]] = "close" \/ pcb'[on[u]] = "null"
    BY DEF Gone
  <2>1. on[u] \in Conn /\ state[on[u]] # "free"
    BY <1>1, CallersWork DEF Live
  <2>2. box[on[u]] = <<>> /\ (state[on[u]] = "close" \/ pcb[on[u]] = "null")
    BY <1>1 DEF Gone
  <2> QED BY <1>2, <2>1, <2>2
<1>9. Plain'
  <2>1. ASSUME pcb[c] # "listen" PROVE Elems(box'[c]) \subseteq {Data, Eof}
    <3>1. box[c] \in Seq(Conn \cup {Data, Eof}) /\ Elems(box[c]) \subseteq {Data, Eof}
      BY <1>1, <2>1 DEF BoxTypes, Plain
    <3>2. Elems(Append(box[c], e)) = Elems(box[c]) \cup {e}
      BY <3>1, AppendElems
    <3> QED BY <1>2, <2>1, <3>1, <3>2
  <2>2. ASSUME NEW d \in Conn, pcb'[d] # "listen" PROVE Elems(box'[d]) \subseteq {Data, Eof}
    <3>1. ASSUME d # c PROVE Elems(box'[d]) \subseteq {Data, Eof}
      <4>1. ASSUME state[d] = "free" PROVE Elems(box[d]) \subseteq {Data, Eof}
        <5>1. box[d] = <<>>
          BY <1>1, <4>1 DEF FreedIsClean
        <5> QED BY <5>1 DEF Elems
      <4>2. ASSUME state[d] # "free" PROVE Elems(box[d]) \subseteq {Data, Eof}
        <5>1. pcb[d] # "listen"
          BY <2>2, <3>1, <4>2
        <5> QED BY <1>1, <5>1 DEF Plain
      <4>3. box'[d] = box[d]
        BY <1>2, <3>1
      <4> QED BY <4>1, <4>2, <4>3
    <3>2. d = c => pcb[c] # "listen"
      BY <2>2
    <3> QED BY <2>1, <3>1, <3>2
  <2> QED BY <2>2 DEF Plain
<1> QED BY <1>4, <1>5, <1>6, <1>7, <1>8, <1>9 DEF CallRest

\* socket() takes a netconn that is clean.
LEMMA OpenKeeps ==
    ASSUME IInv, UNCHANGED <<at, on, cur, sem, box, use>>, NEW c \in Conn, state[c] = "free",
           NEW how \in {"none", "listen"}, NEW p, state' = [state EXCEPT ![c] = how],
           pcb' = [pcb EXCEPT ![c] = p],
           \A u \in Task : at[u] = "run" \/ pc'[u] = pc[u]
    PROVE  CallRest'
<1>1. /\ Counts /\ Open /\ Live /\ FreedIsClean /\ Gone /\ Plain /\ InCalls
      /\ CallTypes /\ ConnTypes /\ BoxTypes
  BY TypeParts DEF IInv, CallInv, AllTypes
<1>2. cur[c] = None /\ box[c] = <<>>
  BY <1>1 DEF FreedIsClean
<1>3. /\ state'[c] = how /\ \A d \in Conn : d # c => state'[d] = state[d] /\ pcb'[d] = pcb[d]
      /\ \A u \in Task : on[u] # c
  <2>1. c # None
    BY DEF Conn
  <2>2. \A u \in Task : on[u] # c
    BY <1>1, <2>1 DEF Live
  <2>3. /\ state'[c] = how
        /\ \A d \in Conn : d # c => state'[d] = state[d] /\ pcb'[d] = pcb[d]
    BY <1>1 DEF ConnTypes
  <2> QED BY <2>2, <2>3
<1>4. Counts'
  BY <1>1, SameCounts
<1>5. Open'
  <2>1. \A d \in Conn : cur[d] # None => cur[d] \in Task /\ at[cur[d]] # "run" /\ d # c
    BY SMTT(20), <1>1, <1>2 DEF Open, ConnTypes
  <2>2. \A d \in Conn : cur[d] # None => Fits(state'[d], pc'[cur[d]])
    BY <1>1, <1>3, <2>1 DEF Open
  <2>3. \A d \in Conn : cur[d] = None <=> state'[d] \in {"free", "none", "listen"}
    BY <1>1, <1>2, <1>3 DEF Open
  <2>4. \A d \in Conn : state'[d] \in {"write", "close"} => state[d] = state'[d]
    BY <1>3
  <2> QED BY <1>1, <2>2, <2>3, <2>4 DEF Open
<1>6. Live'
  BY <1>1, <1>3 DEF Live, CallTypes
<1>7. FreedIsClean'
  BY <1>1, <1>3 DEF FreedIsClean
<1>8. Gone'
  <2> SUFFICES ASSUME NEW u \in Task, pc[u] \in {"close", "drop"}, at[u] # "run"
               PROVE  /\ box[on[u]] = <<>>
                      /\ state'[on[u]] = "close" \/ pcb'[on[u]] = "null"
    BY DEF Gone
  <2>1. on[u] \in Conn
    BY CallersWork
  <2> QED BY <1>1, <1>3, <2>1 DEF Gone
<1>9. Plain'
  <2>1. Elems(box[c]) = {}
    BY <1>2 DEF Elems
  <2> QED BY <1>1, <1>3, <2>1 DEF Plain
<1> QED BY <1>4, <1>5, <1>6, <1>7, <1>8, <1>9 DEF CallRest

\* netconn_free
LEMMA FreeKeeps ==
    ASSUME IInv, UsesApart, NEW t \in Task, CloseFrees(t) \/ Drops(t)
    PROVE  CallRest'
<1> DEFINE c == on[t]
<1>1. /\ Counts /\ Open /\ Live /\ FreedIsClean /\ Gone /\ Plain /\ InCalls
      /\ CallTypes /\ ConnTypes /\ BoxTypes
  BY TypeParts DEF IInv, CallInv, AllTypes
<1>2. /\ c \in Conn /\ ~Rests(t) /\ at[t] = "back" /\ pc[t] \in {"close", "drop"}
      /\ cur[c] = None /\ pcb[c] = "null" /\ box[c] = <<>>
      /\ \A u \in Task : u # t => on[u] # c
      /\ Ended(t) /\ sem[c] = 0 /\ sem' = sem /\ cur' = cur
      /\ state' = [state EXCEPT ![c] = "free"] /\ pcb' = pcb /\ box' = box /\ Counts'
  BY FreesDoes
<1>3. /\ use' = use /\ \A u \in Task : u # t => pc'[u] = pc[u]
      /\ pc'[t] \in {"closed", "opts"}
  <2>1. pc \in [Task -> Label]
    BY TypeParts DEF IInv, AllTypes, TaskTypes
  <2> QED BY <2>1 DEF CloseFrees, Drops, Goto, budget
<1> HIDE DEF c
<1>4. /\ state'[c] = "free" /\ \A d \in Conn : d # c => state'[d] = state[d]
      /\ on'[t] = None /\ at'[t] = "run"
      /\ \A u \in Task : u # t => on'[u] = on[u] /\ at'[u] = at[u]
  BY <1>1, <1>2 DEF ConnTypes, CallTypes, Ended
<1>5. \A d \in Conn : cur[d] = None /\ state[d] \in {"free", "none", "listen"}
  BY <1>2, NoOpenCall
<1>6. Open'
  <2>1. \A d \in Conn : cur'[d] = None /\ state'[d] \in {"free", "none", "listen"}
    BY <1>2, <1>4, <1>5
  <2>2. ASSUME NEW u \in Task, at[u] = "asleep" PROVE FALSE
    BY <1>1, <1>5, <2>2, CallersWork DEF Open
  <2>3. \A u \in Task : at'[u] # "asleep"
    BY <1>4, <2>2
  <2> QED BY <2>1, <2>3 DEF Open
<1>7. Live'
  BY <1>1, <1>2, <1>4 DEF Live, CallTypes
<1>8. FreedIsClean'
  BY <1>1, <1>2, <1>4 DEF FreedIsClean
<1>9. Gone'
  <2> SUFFICES ASSUME NEW u \in Task, pc'[u] \in {"close", "drop"}, at'[u] # "run"
               PROVE  /\ box'[on'[u]] = <<>>
                      /\ state'[on'[u]] = "close" \/ pcb'[on'[u]] = "null"
    BY DEF Gone
  <2>1. /\ u # t /\ pc[u] \in {"close", "drop"} /\ at[u] # "run" /\ on'[u] = on[u]
        /\ on[u] # c
    BY <1>2, <1>3, <1>4
  <2>2. on[u] \in Conn
    BY <2>1, CallersWork
  <2>3. box[on[u]] = <<>> /\ (state[on[u]] = "close" \/ pcb[on[u]] = "null")
    BY <1>1, <2>1 DEF Gone
  <2> QED BY <1>2, <1>4, <2>1, <2>2, <2>3
<1>10. Plain'
  BY <1>1, <1>2 DEF Plain
<1> QED BY <1>2, <1>6, <1>7, <1>8, <1>9, <1>10 DEF CallRest

\* sys_arch_sem_wait
LEMMA PendKeeps ==
    ASSUME IInv, UsesApart, NEW t \in Task, Pends(t)
    PROVE  CallRest'
<1> DEFINE c == on[t]
<1>1. /\ Open /\ Live /\ FreedIsClean /\ Gone /\ Plain /\ InCalls
      /\ CallTypes /\ ConnTypes /\ BoxTypes
  BY TypeParts DEF IInv, CallInv, AllTypes
<1>2. /\ Counts' /\ c \in Conn /\ on' = on /\ cur' = cur
      /\ \/ /\ cur[c] # t /\ at' = [at EXCEPT ![t] = "back"]
            /\ sem[c] > 0 /\ sem' = [sem EXCEPT ![c] = @ - 1]
         \/ /\ cur[c] = t /\ at' = [at EXCEPT ![t] = "asleep"] /\ sem' = sem
  BY PendsCounts
<1>3. UNCHANGED <<pc, state, pcb, box, use>> /\ at[t] = "posted"
  BY DEF Pends, connVars, budget
<1> HIDE DEF c
<1>4. state[c] # "free" /\ (cur[c] # None => sem[c] = 0)
  <2>1. state[c] # "free"
    BY <1>1, <1>3, CallersWork DEF Live, c
  <2>2. cur[c] # None => sem[c] = 0
    BY <1>1, <1>2 DEF Open
  <2> QED BY <2>1, <2>2
<1>5. ASSUME cur[c] = t PROVE Open' /\ FreedIsClean'
  <2>1. sem' = sem /\ at'[t] = "asleep" /\ \A u \in Task : u # t => at'[u] = at[u]
    BY <1>1, <1>2, <1>5 DEF CallTypes
  <2>2. on[t] = c
    BY DEF c
  <2>3. Open'
    <3>1. \A d \in Conn : cur[d] # None => at'[cur[d]] \in {"posted", "asleep"}
      BY <1>1, <2>1 DEF Open, ConnTypes
    <3>2. \A u \in Task : at'[u] = "asleep" => cur[on[u]] = u
      BY <1>1, <1>5, <2>1, <2>2 DEF Open
    <3> QED BY <1>1, <1>2, <1>3, <2>1, <3>1, <3>2 DEF Open
  <2>4. FreedIsClean'
    BY <1>1, <1>2, <1>3, <2>1 DEF FreedIsClean
  <2> QED BY <2>3, <2>4
<1>6. ASSUME cur[c] # t PROVE Open' /\ FreedIsClean'
  <2>1. /\ at'[t] = "back" /\ \A u \in Task : u # t => at'[u] = at[u]
        /\ \A d \in Conn : d # c => sem'[d] = sem[d]
    BY <1>1, <1>2, <1>6 DEF CallTypes, ConnTypes
  <2>2. cur[c] = None
    BY <1>2, <1>4, <1>6
  <2>3. \A d \in Conn : cur[d] # t
    BY <1>1, <1>6, <2>2 DEF Open, c
  <2>4. Open'
    <3>1. \A d \in Conn : cur[d] = None <=> state[d] \in {"free", "none", "listen"}
      BY <1>1 DEF Open
    <3>2. ASSUME NEW d \in Conn, cur[d] # None
          PROVE  /\ on[cur[d]] = d /\ at'[cur[d]] \in {"posted", "asleep"}
                 /\ Fits(state[d], pc[cur[d]]) /\ sem'[d] = 0
      <4>1. cur[d] \in Task /\ cur[d] # t /\ d # c
        BY <1>1, <2>2, <2>3, <3>2 DEF ConnTypes
      <4> QED BY <1>1, <2>1, <3>2, <4>1 DEF Open
    <3>3. \A u \in Task : at'[u] = "asleep" => cur[on[u]] = u
      BY <1>1, <2>1 DEF Open
    <3>4. \A d \in Conn : state[d] \in {"write", "close"} => "short" \in use
      BY <1>1 DEF Open
    <3> QED BY <1>2, <1>3, <3>1, <3>2, <3>3, <3>4 DEF Open
  <2>5. FreedIsClean'
    BY <1>1, <1>2, <1>3, <1>4, <2>1 DEF FreedIsClean
  <2> QED BY <2>4, <2>5
<1>7. Live' /\ Gone' /\ Plain'
  <2>1. Live' /\ Plain'
    BY <1>1, <1>2, <1>3 DEF Live, Plain
  <2>2. \A u \in Task : at'[u] # "run" => at[u] # "run"
    BY <1>1, <1>2, <1>3 DEF CallTypes
  <2>3. Gone'
    BY <1>1, <1>2, <1>3, <2>2 DEF Gone
  <2> QED BY <2>1, <2>3
<1> QED BY <1>2, <1>5, <1>6, <1>7 DEF CallRest

\* The first step that each action takes.
LEMMA CallsKept ==
    ASSUME IInv, UsesApart, SocketTasksAssumption, [OrderlyNext]_vars
    PROVE  CallRest'
<1>0. /\ CallTypes /\ TaskTypes /\ ConnTypes /\ BoxTypes /\ InCalls /\ Live
      /\ pc \in [Task -> Label]
  BY TypeParts DEF IInv, AllTypes, TaskTypes, CallInv
<1>1. ASSUME NEW t \in Task, Begins(t) \/ RecvRefused(t) \/ CloseRefused(t) \/ CloseReturns(t)
                             \/ Spawns(t) \/ Ends(t)
      PROVE  CallRest'
  <2>1. at' = at /\ on' = on /\ UNCHANGED <<state, pcb, box, cur, sem, use>>
    BY <1>1 DEF Begins, RecvRefused, CloseRefused, CloseReturns, Spawns, Ends, connVars, budget
  <2>2. at[t] = "run"
    <3>1. Spawns(t) \/ Ends(t) => at[t] = "run"
      BY <1>0 DEF Spawns, Ends, Calls, InCalls, CallAt
    <3> QED BY <1>1, <3>1 DEF Begins, RecvRefused, CloseRefused, CloseReturns, Calls
  <2>3. \A u \in Task : at[u] # "run" => pc'[u] = pc[u]
    <3> SUFFICES ASSUME NEW u \in Task, at[u] # "run" PROVE pc'[u] = pc[u]
      OBVIOUS
    <3>1. u # t /\ pc[u] # "off"
      BY <1>0, <2>2 DEF InCalls, CallAt
    <3>2. PICK l \in Label : pc' = Goto(t, l) \/ \E v \in Task : pc' = Created(Goto(t, l), v)
      <4>1. CloseRefused(t) \/ CloseReturns(t) =>
              \E l \in {"end", "socket"} : pc' = Goto(t, l) \/ \E v \in Task : pc' = Created(Goto(t, l), v)
        <5>1. CloseRefused(t) \/ CloseReturns(t) => pc' = Closed(t)
          BY DEF CloseRefused, CloseReturns
        <5> QED BY <5>1, ClosedIs
      <4>2. Begins(t) \/ RecvRefused(t) \/ Ends(t) =>
              \E l \in {"recv", "close", "answer", "off"} : pc' = Goto(t, l)
        BY DEF Begins, RecvRefused, Ends, AfterError
      <4>3. Spawns(t) => \E v \in Task : pc' = Created(Goto(t, "end"), v)
        BY SuccessorIs DEF Spawns
      <4> QED BY <1>1, <4>1, <4>2, <4>3 DEF Label
    <3>3. Goto(t, l) \in [Task -> Label] /\ Goto(t, l)[u] = pc[u]
      BY <1>0, <3>1 DEF Goto
    <3> QED BY <3>1, <3>2, <3>3, CreatedIs
  <2> QED BY <2>1, <2>3, QuietKeeps
<1>2. ASSUME NEW t \in Task, NEW c \in Conn, at[t] = "run", pc[t] \notin {"close", "drop"},
             state[c] # "free", pc' = pc,
             on' = [on EXCEPT ![t] = c], at' = [at EXCEPT ![t] = "fetch"],
             UNCHANGED <<state, pcb, box, cur, sem, use>>
      PROVE  CallRest'
  <2>1. \A u \in Task : u # t => at'[u] = at[u] /\ on'[u] = on[u]
    BY <1>0, <1>2 DEF CallTypes
  <2>2. at'[t] = "fetch" /\ on'[t] = c
    BY <1>0, <1>2 DEF CallTypes
  <2> QED BY <1>2, <2>1, <2>2, QuietKeeps
<1>3. ASSUME NEW t \in Task, RecvWaits(t) PROVE CallRest'
  <2>1. ConnAt(SocketOf(t)) \in Conn /\ state[ConnAt(SocketOf(t))] # "free"
    BY <1>3 DEF RecvWaits, Receivable, HasBox
  <2> QED BY <1>2, <1>3, <2>1 DEF RecvWaits, Receiving, connVars, budget
<1>4. ASSUME NEW t \in Task, EntersAccept(t) PROVE CallRest'
  <2>1. at[t] = "run" /\ pc[t] = "accept" /\ UNCHANGED <<state, pcb, box, cur, sem, use>>
    BY <1>4 DEF EntersAccept, Calls, connVars, budget
  <2>2. ASSUME ConnAt(sock_fd) \in Listening PROVE CallRest'
    <3>1. ConnAt(sock_fd) \in Conn /\ state[ConnAt(sock_fd)] # "free"
      BY <2>2 DEF Listening, IInv, CallInv, FreedIsClean
    <3> QED BY <1>2, <1>4, <2>1, <2>2, <3>1 DEF EntersAccept
  <2>3. ASSUME ConnAt(sock_fd) \notin Listening PROVE CallRest'
    <3>1. at' = at /\ on' = on /\ pc' = [pc EXCEPT ![t] = "opts"]
      BY <1>4, <2>3 DEF EntersAccept, Goto
    <3>2. \A u \in Task : u # t => pc'[u] = pc[u]
      BY <1>0, <3>1
    <3> QED BY <2>1, <3>1, <3>2, QuietKeeps
  <2> QED BY <2>2, <2>3
<1>5. ASSUME NEW t \in Task, at[t] = "back", Ended(t), \A u \in Task : u # t => pc'[u] = pc[u],
             UNCHANGED <<state, pcb, box, cur, sem, use>>
      PROVE  CallRest'
  <2>1. /\ at'[t] = "run" /\ on'[t] = None
        /\ \A u \in Task : u # t => at'[u] = at[u] /\ on'[u] = on[u]
    BY <1>0, <1>5 DEF CallTypes, Ended
  <2> QED BY <1>5, <2>1, QuietKeeps
<1>6. ASSUME NEW t \in Task, RecvReturns(t) \/ SendReturns(t) \/ OptionsSet(t)
                             \/ ConnectReturns(t)
      PROVE  CallRest'
  <2>1. Ended(t) /\ at[t] = "back" /\ UNCHANGED <<state, pcb, box, cur, sem, use>>
    BY <1>6 DEF RecvReturns, SendReturns, OptionsSet, ConnectReturns, Ended, Running, Back,
       connVars, budget
  <2>2. \E l : pc' = [pc EXCEPT ![t] = l]
    BY <1>6 DEF RecvReturns, SendReturns, OptionsSet, ConnectReturns, Goto
  <2>3. \A u \in Task : u # t => pc'[u] = pc[u]
    BY <1>0, <2>2
  <2> QED BY <1>5, <2>1, <2>3
<1>7. ASSUME NEW t \in Task, Fetches(t) PROVE CallRest'
  <2>1. /\ on[t] \in Conn /\ ~Rests(t) /\ at[t] = "fetch" /\ pc[t] \in {"recv", "more"}
        /\ Answered(t, on[t]) /\ Counts'
        /\ \/ box' = box
           \/ box[on[t]] # <<>> /\ box' = [box EXCEPT ![on[t]] = Tail(@)]
    BY <1>7, FetchesDoes
  <2>2. UNCHANGED <<pc, state, pcb, use>>
    BY <1>7 DEF Fetches, budget
  <2>3. \A d \in Conn : Elems(box'[d]) \subseteq Elems(box[d]) /\ (box[d] = <<>> => box'[d] = <<>>)
    <3> SUFFICES ASSUME NEW d \in Conn, box'[d] # box[d]
                 PROVE  Elems(box'[d]) \subseteq Elems(box[d]) /\ box[d] # <<>>
      OBVIOUS
    <3>1. box[d] \in Seq(Conn \cup {Data, Eof}) /\ box[d] # <<>> /\ box'[d] = Tail(box[d])
      BY <1>0, <2>1 DEF BoxTypes
    <3> QED BY <3>1, TailElems
  <2>4. state[on[t]] # "free"
    BY <1>0, <2>1, CallersWork DEF Live
  <2> QED BY <2>1, <2>2, <2>3, <2>4, AnswerKeeps
<1>8. ASSUME NEW t \in Task, Writes(t) PROVE CallRest'
  <2>1. at[t] = "run" /\ UNCHANGED <<pcb, box, use>>
    BY <1>8 DEF Writes, budget
  <2>2. ASSUME ConnAt(SocketOf(t)) = None PROVE CallRest'
    <3>1. \E l : pc' = [pc EXCEPT ![t] = l]
      BY <1>8, <2>2 DEF Writes, Goto
    <3>2. at' = at /\ on' = on /\ UNCHANGED <<state, cur, sem>>
      BY <1>8, <2>2 DEF Writes
    <3>3. \A u \in Task : u # t => pc'[u] = pc[u]
      BY <1>0, <3>1
    <3> QED BY <2>1, <3>2, <3>3, QuietKeeps
  <2>3. ASSUME ConnAt(SocketOf(t)) # None PROVE CallRest'
    <3>1. PICK c \in Conn :
            /\ ~Rests(t) /\ Sends(t) /\ cur[c] = None /\ state[c] = "none" /\ Counts'
            /\ pc' = pc
            /\ \/ Answered(t, c) /\ state' = state
               \/ LeftOpen(t, c) /\ "short" \in use /\ state' = [state EXCEPT ![c] = "write"]
      BY <1>8, <2>3, WritesDoes
    <3>2. ASSUME Answered(t, c), state' = state PROVE CallRest'
      BY <2>1, <3>1, <3>2, AnswerKeeps DEF Sends
    <3>3. ASSUME LeftOpen(t, c), "short" \in use, state' = [state EXCEPT ![c] = "write"]
          PROVE  CallRest'
      <4>1. Fits("write", pc'[t])
        BY <3>1 DEF Fits, Sends
      <4> QED BY <2>1, <3>1, <3>3, <4>1, LeavesKeeps
    <3> QED BY <3>1, <3>2, <3>3
  <2> QED BY <2>2, <2>3
<1>9. ASSUME NEW t \in Task, NEW c \in Conn, ~Rests(t), at[t] \in {"run", "back"}, cur[c] = None,
             state[c] = "none", pcb[c] # "listen", Emptied(t, c), Counts', UNCHANGED use,
             pc'[t] \in {"close", "drop"}, \A u \in Task : u # t => pc'[u] = pc[u]
      PROVE  CallRest'
  <2>1. box' = [box EXCEPT ![c] = <<>>] /\ box'[c] = <<>> /\ \A d \in Conn : d # c => box'[d] = box[d]
    BY <1>0, <1>9 DEF Emptied, BoxTypes
  <2>2. ASSUME Answered(t, c), state' = state, pcb' = [pcb EXCEPT ![c] = "null"] PROVE CallRest'
    <3>1. pcb'[c] = "null" /\ \A d \in Conn : d # c => pcb'[d] = pcb[d]
      BY <1>0, <2>2 DEF ConnTypes
    <3>2. \A d \in Conn : Elems(box'[d]) \subseteq Elems(box[d]) /\ (box[d] = <<>> => box'[d] = <<>>)
      <4>1. Elems(<<>>) = {}
        BY DEF Elems
      <4> QED BY <2>1, <4>1
    <3>3. \A d \in Conn : pcb'[d] = pcb[d] \/ (pcb'[d] = "null" /\ pcb[d] # "listen")
      BY <1>9, <3>1
    <3> QED BY <1>9, <2>1, <2>2, <3>1, <3>2, <3>3, AnswerKeeps
  <2>3. ASSUME LeftOpen(t, c), "short" \in use, state' = [state EXCEPT ![c] = "close"], pcb' = pcb
        PROVE  CallRest'
    <3>1. Fits("close", pc'[t])
      BY <1>9 DEF Fits
    <3>2. "short" \in use \/ t = ConnectServer
      BY <2>3
    <3> QED BY <1>9, <2>1, <2>3, <3>1, <3>2, LeavesKeeps
  <2> QED BY <1>9, <2>2, <2>3 DEF Emptied
<1>10. ASSUME NEW t \in Task, Closes(t) PROVE CallRest'
  <2>1. PICK c \in Conn :
          /\ ~Rests(t) /\ at[t] = "run" /\ pc[t] = "close" /\ cur[c] = None
          /\ state[c] = "none" /\ pcb[c] # "listen" /\ Emptied(t, c) /\ Counts'
    BY <1>10, ClosesDoes
  <2>2. UNCHANGED <<pc, use>>
    BY <1>10 DEF Closes, budget
  <2> QED BY <1>9, <2>1, <2>2
<1>11. ASSUME NEW t \in Task, CloseFrees(t) \/ Drops(t) PROVE CallRest'
  BY <1>11, FreeKeeps
<1>12. ASSUME NEW t \in Task, OpensListener(t) \/ OpensClient(t) PROVE CallRest'
  <2>1. at[t] = "run" /\ UNCHANGED <<at, on, cur, sem, box, use>>
    BY <1>12 DEF OpensListener, OpensClient, Calls, budget
  <2>2. \E l : pc' = [pc EXCEPT ![t] = l]
    BY <1>12 DEF OpensListener, OpensClient, Goto
  <2>3. \A u \in Task : at[u] = "run" \/ pc'[u] = pc[u]
    BY <1>0, <2>1, <2>2
  <2>4. ASSUME NoSocket PROVE CallRest'
    <3>1. UNCHANGED <<state, pcb>>
      BY <1>12, <2>4 DEF OpensListener, OpensClient
    <3> QED BY <2>1, <2>3, <3>1, QuietKeeps
  <2>5. ASSUME ~NoSocket PROVE CallRest'
    <3>1. PICK how \in {"none", "listen"} : \E p : Opened(how, p)
      BY <1>12, <2>5 DEF OpensListener, OpensClient
    <3>2. PICK p : Opened(how, p)
      BY <3>1
    <3>3. PICK c \in Conn : /\ state[c] = "free" /\ state' = [state EXCEPT ![c] = how]
                            /\ pcb' = [pcb EXCEPT ![c] = p]
      BY <2>5, <3>2, OpensDoes
    <3> QED BY <2>1, <2>3, <3>3, OpenKeeps
  <2> QED BY <2>4, <2>5
<1>13. ASSUME NEW t \in Task, Accepts(t) PROVE CallRest'
  <2>0. t = ConnectClient
    BY <1>13 DEF Accepts
  <2> DEFINE l == on[ConnectClient]
             n == Head(box[l])
  <2>1. /\ pc[t] = "accept" /\ at[t] = "fetch" /\ ~Rests(t) /\ l \in Conn /\ box[l] # <<>>
        /\ n \in Conn /\ state[n] = "none" /\ Answered(t, n) /\ Counts'
        /\ box' = [box EXCEPT ![l] = Tail(@)] /\ pc' = pc
    BY <1>13, <2>0, AcceptsDoes
  <2>2. UNCHANGED <<state, pcb, use>>
    BY <1>13 DEF Accepts, budget
  <2> HIDE DEF n
  <2>3. \A d \in Conn : Elems(box'[d]) \subseteq Elems(box[d]) /\ (box[d] = <<>> => box'[d] = <<>>)
    <3> SUFFICES ASSUME NEW d \in Conn, box'[d] # box[d]
                 PROVE  Elems(box'[d]) \subseteq Elems(box[d]) /\ box[d] # <<>>
      OBVIOUS
    <3>1. box[d] \in Seq(Conn \cup {Data, Eof}) /\ box[d] # <<>> /\ box'[d] = Tail(box[d])
      BY <1>0, <2>1 DEF BoxTypes
    <3> QED BY <3>1, TailElems
  <2> QED BY <2>1, <2>2, <2>3, AnswerKeeps
<1>14. ASSUME NEW t \in Task, AcceptReturns(t) PROVE CallRest'
  <2>1. t = ConnectClient /\ at[t] = "back" /\ use' = use
    BY <1>14 DEF AcceptReturns, Back, budget
  <2>2. \E l : pc' = [pc EXCEPT ![t] = l]
    BY <1>14 DEF AcceptReturns, Goto
  <2>3. \A u \in Task : u # t => pc'[u] = pc[u]
    BY <1>0, <2>2
  <2>4. ASSUME res[t] = "ok" /\ FreeFd # {} PROVE CallRest'
    <3>1. Ended(t) /\ UNCHANGED <<state, pcb, box, cur, sem>>
      BY <1>14, <2>4 DEF AcceptReturns, Running, Ended, connVars
    <3> QED BY <1>5, <2>1, <2>3, <3>1
  <2>5. ASSUME ~(res[t] = "ok" /\ FreeFd # {}) PROVE CallRest'
    <3>1. PICK c \in Conn : /\ ~Rests(t) /\ state[c] = "none" /\ cur[c] = None /\ pcb[c] # "listen"
                            /\ Emptied(t, c) /\ Counts' /\ pc' = [pc EXCEPT ![t] = "drop"]
      BY <1>14, <2>1, <2>5, AcceptDeletes DEF Goto
    <3>2. pc'[t] = "drop"
      BY <1>0, <3>1
    <3> QED BY <1>9, <2>1, <2>3, <3>1, <3>2
  <2> QED BY <2>4, <2>5
<1>15. ASSUME NEW t \in Task, SetsOptions(t) PROVE CallRest'
  <2>1. at[t] = "run" /\ pc[t] = "opts" /\ UNCHANGED <<state, pcb, box, cur, use>>
    BY <1>15 DEF SetsOptions, Calls, connVars, budget
  <2>2. ASSUME ConnAt(Chosen(t)) = None PROVE CallRest'
    <3>1. at' = at /\ on' = on /\ sem' = sem /\ pc' = [pc EXCEPT ![t] = "spawn"]
      BY <1>15, <2>2 DEF SetsOptions, Goto
    <3>2. \A u \in Task : u # t => pc'[u] = pc[u]
      BY <1>0, <3>1
    <3> QED BY <2>1, <3>1, <3>2, QuietKeeps
  <2>3. ASSUME ConnAt(Chosen(t)) # None PROVE CallRest'
    <3>1. PICK c \in Conn : ~Rests(t) /\ state[c] = "none" /\ Answered(t, c) /\ Counts' /\ pc' = pc
      BY <1>15, <2>3, OptionsDoes
    <3> QED BY <2>1, <3>1, AnswerKeeps
  <2> QED BY <2>2, <2>3
<1>16. ASSUME NEW t \in Task, Connects(t) PROVE CallRest'
  <2>1. PICK c \in Conn :
          /\ ~Rests(t) /\ at[t] = "run" /\ pc[t] = "connect" /\ t = ConnectServer
          /\ state[c] = "none" /\ cur[c] = None /\ Counts' /\ UNCHANGED <<pc, box>>
          /\ c = ConnAt(sock_connect)
          /\ \/ Answered(t, c) /\ UNCHANGED <<state, pcb>>
             \/ /\ LeftOpen(t, c) /\ state' = [state EXCEPT ![c] = "connect"]
                /\ pcb' = [pcb EXCEPT ![c] = "syn"]
    BY <1>16, ConnectsDoes
  <2>2. use' = use /\ MayRun(t)
    BY <1>16 DEF Connects, Calls, budget
  <2>3. Fits("connect", pc'[t])
    BY <2>1 DEF Fits
  <2>4. pcb[c] # "listen"
    <3>1. ConnAt(sock_connect) # None
      BY <2>1 DEF Conn
    <3> QED BY <2>1, <3>1, CalledConn
  <2>5. ASSUME Answered(t, c), UNCHANGED <<state, pcb>> PROVE CallRest'
    BY <2>1, <2>2, <2>5, AnswerKeeps
  <2>6. ASSUME LeftOpen(t, c), state' = [state EXCEPT ![c] = "connect"],
               pcb' = [pcb EXCEPT ![c] = "syn"]
        PROVE  CallRest'
    BY <2>1, <2>2, <2>3, <2>4, <2>6, LeavesKeeps
  <2> QED BY <2>1, <2>5, <2>6
<1>17. ASSUME NEW t \in Task, Pends(t) PROVE CallRest'
  BY <1>17, PendKeeps
<1>18. ASSUME OrderlyCommands PROVE CallRest'
  <2>1. at' = at /\ on' = on /\ UNCHANGED <<state, pcb, box, cur, sem, use>>
        /\ (pc' = pc \/ \E u \in Task : pc' = Created(pc, u))
    BY <1>18 DEF OrderlyCommands, Command, Socket_init, Init_Client, Send_File_Name, Stop_Download,
       Pause_Download, Continue_Download, connVars
  <2>2. \A u \in Task : at[u] # "run" => pc'[u] = pc[u]
    <3>1. \A u \in Task : at[u] # "run" => pc[u] # "off"
      BY <1>0 DEF InCalls, CallAt
    <3> QED BY <1>0, <2>1, <3>1, CreatedIs
  <2> QED BY <2>1, <2>2, QuietKeeps
<1>19. ASSUME PeerConnects PROVE CallRest'
  <2>1. PICK l, n \in Conn :
          /\ l \in Listening /\ state[n] = "free" /\ n # l
          /\ state' = [state EXCEPT ![n] = "none"] /\ pcb' = [pcb EXCEPT ![n] = "open"]
          /\ box' = [box EXCEPT ![l] = Append(@, n)]
          /\ UNCHANGED <<taskVars, cur, sem, use>>
    BY <1>19, PeerConnectsDoes
  <2>2. pcb[l] = "listen" /\ state[l] = "listen"
    <3>1. pcb[l] = "listen"
      BY <2>1 DEF Listening
    <3> QED BY <2>1, <3>1 DEF IInv, Shape, ClientShape, ClientSockets, ServerShape, ServerListens
  <2>3. \A d \in Conn :
              \/ state'[d] = state[d] /\ pcb'[d] = pcb[d]
              \/ state[d] = "free" /\ state'[d] = "none" /\ pcb'[d] = "open"
    BY <1>0, <2>1 DEF ConnTypes
  <2>4. UNCHANGED <<pc, at, on, cur, sem, use>>
    BY <2>1 DEF taskVars
  <2> QED BY <2>1, <2>2, <2>3, <2>4, ArrivalKeeps
<1>20. ASSUME NEW c \in Conn, DataArrives(c) \/ FinArrives(c) PROVE CallRest'
  <2>1. /\ pcb[c] = "open" /\ HasBox(c) /\ UNCHANGED <<pc, at, on, cur, sem, use, state>>
        /\ \E e \in {Data, Eof} : box' = [box EXCEPT ![c] = Append(@, e)]
        /\ pcb' = pcb \/ pcb' = [pcb EXCEPT ![c] = "fin"]
    BY <1>20 DEF DataArrives, FinArrives, taskVars, budget
  <2>2. PICK e \in {Data, Eof} : box' = [box EXCEPT ![c] = Append(@, e)]
    BY <2>1
  <2>3. state[c] \notin {"free", "close"}
    BY <2>1 DEF HasBox
  <2>4. \A d \in Conn :
              \/ state'[d] = state[d] /\ pcb'[d] = pcb[d]
              \/ /\ d = c /\ state'[d] = state[d]
                 /\ pcb[d] # "listen" /\ pcb'[d] \in {"fin", "null"}
    BY <1>0, <2>1 DEF ConnTypes
  <2> QED BY <2>1, <2>2, <2>3, <2>4, ArrivalKeeps
<1>21. ASSUME NEW c \in Conn, Aborts(c) PROVE CallRest'
  <2>1. /\ pcb[c] \in {"syn", "open", "fin"} /\ pcb' = [pcb EXCEPT ![c] = "null"]
        /\ Counts' /\ on' = on /\ state[c] \in {"none", "connect", "write", "close"}
        /\ \/ cur[c] # None /\ Told(c)
           \/ cur[c] = None /\ state[c] = "none" /\ UNCHANGED <<state, cur, at, sem>>
        /\ \/ box' = box
           \/ \E d \in Strays : /\ d = c \/ state[c] = "close"
                               /\ box' = [box EXCEPT ![d] = Append(@, Eof)]
        /\ UNCHANGED <<pc, use>>
    BY <1>21, AbortsDoes DEF budget
  <2>3. ASSUME cur[c] # None, Told(c) PROVE CallRest'
    <3>1. \E p : pcb' = [pcb EXCEPT ![c] = p] /\ p # "listen"
      <4>1. pcb' = [pcb EXCEPT ![c] = "null"] /\ "null" # "listen"
        BY <2>1
      <4> QED BY <4>1
    <3>2. pcb[c] # "listen" /\ UNCHANGED <<pc, use>> /\ Counts'
      BY <2>1
    <3>3. box' = box \/ \E d \in Strays : box' = [box EXCEPT ![d] = Append(@, Eof)]
      BY <2>1
    <3> QED BY <2>1, <2>3, <3>1, <3>2, <3>3, ToldKeeps
  <2>4. ASSUME cur[c] = None, state[c] = "none", UNCHANGED <<state, cur, at, sem>> PROVE CallRest'
    <3>1. \A d \in Conn :
              \/ state'[d] = state[d] /\ pcb'[d] = pcb[d]
              \/ /\ d = c /\ state'[d] = state[d]
                 /\ pcb[d] # "listen" /\ pcb'[d] \in {"fin", "null"}
      BY <1>0, <2>1, <2>4 DEF ConnTypes
    <3>2. PICK e \in {Data, Eof} : box' = box \/ box' = [box EXCEPT ![c] = Append(@, e)]
      BY <2>1, <2>4
    <3>3. pcb[c] # "null" /\ state[c] \notin {"free", "close"} /\ UNCHANGED <<pc, at, on, cur, sem, use>>
      BY <2>1, <2>4
    <3> QED BY <3>1, <3>2, <3>3, ArrivalKeeps
  <2> QED BY <2>1, <2>3, <2>4
<1>22. ASSUME NEW c \in Conn, Established(c) \/ WriteDone(c) \/ CloseDone(c) PROVE CallRest'
  <2>1. /\ Told(c) /\ Counts' /\ cur[c] # None /\ state[c] \in {"connect", "write", "close"}
        /\ UNCHANGED <<pc, box, use>>
        /\ \/ pcb' = pcb /\ state[c] = "write"
           \/ pcb' = [pcb EXCEPT ![c] = "open"] /\ state[c] = "connect"
           \/ pcb' = [pcb EXCEPT ![c] = "null"] /\ state[c] = "close"
    BY <1>22, CompletedDoes DEF budget
  <2>2. pcb[c] # "listen"
    BY <2>1 DEF IInv, Shape, ClientShape, ClientSockets, ServerShape, ServerListens, Listening
  <2>3. \E p : pcb' = [pcb EXCEPT ![c] = p] /\ p # "listen"
    <3>1. pcb = [pcb EXCEPT ![c] = pcb[c]]
      BY <1>0 DEF ConnTypes
    <3> QED BY <2>1, <2>2, <3>1
  <2> QED BY <2>1, <2>2, <2>3, ToldKeeps
<1>23. ASSUME UNCHANGED vars PROVE CallRest'
  <2>1. UNCHANGED <<pc, at, on, state, pcb, box, cur, sem, use>>
    BY <1>23 DEF vars, taskVars, connVars, budget
  <2> QED BY <2>1, QuietKeeps
<1> QED BY <1>1, <1>3, <1>4, <1>6, <1>7, <1>8, <1>10, <1>11, <1>12, <1>13, <1>14, <1>15, <1>16,
           <1>17, <1>18, <1>19, <1>20, <1>21, <1>22, <1>23
        DEF OrderlyNext, TaskStep, Peer, Timers

-----------------------------------------------------------------------------
(* The server                                                              *)

\* What a board that is the server has.
LEMMA HeldIs ==
    ASSUME IInv, "client" \notin use
    PROVE  /\ ServerChain /\ ServerFresh /\ ServerListens /\ ServerSockets
           /\ Held \in Conn \cup {None} /\ Accepted \in Conn \cup {None}
           /\ Listening # {} => sock_fd \in Fd /\ Listening = {socks[sock_fd]}
           /\ \A c \in Listening : ~IsPending(c) /\ c # Held /\ c # Accepted
           /\ Accepted # None => Accepted \in Conn /\ ~IsPending(Accepted)
           /\ pc[RevFile] \in Serving => Rests(ConnectClient)
<1>1. ServerChain /\ ServerFresh /\ ServerListens /\ ServerSockets
  BY DEF IInv, Shape, ServerShape
<1>2. CallTypes /\ SockTypes /\ Live
  BY TypeParts DEF IInv, AllTypes, CallInv
<1>3. Held \in Conn \cup {None} /\ Accepted \in Conn \cup {None}
  BY <1>2 DEF CallTypes, SockTypes, Held, Accepted, ConnAt
<1>4. ASSUME Listening # {} PROVE sock_fd \in Fd /\ Listening = {socks[sock_fd]}
  BY <1>1, <1>4 DEF ServerListens
<1>5. ASSUME NEW c \in Listening PROVE ~IsPending(c) /\ c # Held /\ c # Accepted
  <2>1. c \in Conn /\ state[c] = "listen"
    BY <1>1 DEF ServerListens, Listening
  <2>2. ~IsPending(c)
    BY <1>1, <2>1 DEF ServerListens
  <2>3. c # None
    BY <2>1 DEF Conn
  <2> QED BY <1>1, <2>1, <2>2, <2>3 DEF ServerSockets
<1>6. ASSUME Accepted # None PROVE Accepted \in Conn /\ ~IsPending(Accepted)
  <2>1. Accepted = on[ConnectClient] /\ Accepted \in Conn
    BY <1>3, <1>6 DEF Accepted
  <2> QED BY <1>1, <2>1 DEF ServerListens
<1>7. pc[RevFile] \in Serving => Rests(ConnectClient)
  BY <1>1 DEF ServerChain, Serving, Rests
<1> QED BY <1>1, <1>3, <1>4, <1>5, <1>6, <1>7

Underway == {"posted", "asleep", "back"}

\* A step of the server that opens, closes and hands over nothing.
LEMMA ServerSame ==
    ASSUME IInv, "client" \notin use, Listening # {}, UNCHANGED <<socks, sock_fd, sock_conn>>,
           InCalls, InCalls',
           \A t \in Task :
              \/ pc'[t] = pc[t]
              \/ /\ t = RevFile /\ pc[t] \in Serving \ {"closed"}
                 /\ pc'[t] \in Serving \ {"begin", "closed"}
              \/ t = ConnectClient /\ pc[t] = "opts" /\ pc'[t] = "spawn"
              \/ /\ t = ConnectClient /\ pc[t] = "accept" /\ pc'[t] = "drop"
                 /\ at[t] \in Underway
              \/ /\ pc[t] = "end" /\ pc'[t] = "off"
                 /\ t = ConnectClient => pc[RevFile] # "begin",
           pc'[RevFile] \in Serving \ {"begin"} => fd'[RevFile] = sock_conn,
           \A d \in Conn :
              /\ pcb'[d] = "listen" <=> pcb[d] = "listen"
              /\ pcb[d] = "listen" => box'[d] = box[d]
              /\ \/ state'[d] = state[d]
                 \/ d = Held /\ state'[d] \in {"none", "write", "close"}
                 \/ d = Accepted /\ state'[d] \in {"none", "close"},
           \A t \in Task :
              \/ /\ on'[t] = on[t]
                 /\ at'[t] = at[t] \/ (at[t] \in Underway /\ at'[t] \in Underway)
              \/ /\ t = RevFile \/ (t = ConnectClient /\ pc'[t] \in {"opts", "spawn"})
                 /\ at'[t] = "run"
              \/ t = RevFile /\ on'[t] = Held
              \/ /\ t = ConnectClient /\ pc[t] = "opts" /\ pc'[t] = "opts"
                 /\ on'[t] = Held /\ at'[t] # "fetch"
              \/ /\ t = ConnectClient /\ pc[t] = "accept" /\ pc'[t] = "accept"
                 /\ at[t] = "run" /\ at'[t] = "fetch" /\ on'[t] \in Listening
                 /\ pc[RevFile] # "end"
    PROVE  ServerShape'
<1>1. /\ ServerChain /\ ServerFresh /\ ServerListens /\ ServerSockets
      /\ Held \in Conn \cup {None} /\ Accepted \in Conn \cup {None}
      /\ \A c \in Listening : ~IsPending(c) /\ c # Held /\ c # Accepted
      /\ Accepted # None => Accepted \in Conn /\ ~IsPending(Accepted)
  BY HeldIs
<1>2. Listening' = Listening
  BY DEF Listening
<1>3. ASSUME NEW c PROVE IsPending(c)' <=> IsPending(c)
  <2>1. \A l \in Listening : box'[l] = box[l]
    BY DEF Listening
  <2> QED BY <1>2, <2>1, Zenon DEF IsPending
<1>4. Active' <=> Active
  <2>1. pc'[ConnectClient] \in {"opts", "spawn"} <=> pc[ConnectClient] \in {"opts", "spawn"}
    OBVIOUS
  <2>2. pc'[RevFile] \in Serving <=> pc[RevFile] \in Serving
    BY DEF Serving
  <2> QED BY <2>1, <2>2 DEF Active
<1>5. Held' = Held
  <2>1. pc'[RevFile] = "closed" <=> pc[RevFile] = "closed"
    BY DEF Serving
  <2> QED BY <1>4, <2>1 DEF Held, ConnAt
<1>6. \A t \in Task : /\ at[t] = "run" <=> on[t] = None
                      /\ at'[t] = "run" <=> on'[t] = None
  BY DEF InCalls, CallAt
<1>7. Accepted' = Accepted
  <2> DEFINE t == ConnectClient
  <2>1. pc'[t] \in {"accept", "drop"} <=> pc[t] \in {"accept", "drop"}
    OBVIOUS
  <2>2. ASSUME pc[t] \in {"accept", "drop"}
        PROVE  \/ on'[t] = on[t] /\ (at'[t] = "fetch" <=> at[t] = "fetch")
               \/ at[t] = "run" /\ on[t] = None /\ at'[t] = "fetch"
    BY <1>6, <2>2 DEF Underway
  <2> QED BY <2>1, <2>2 DEF Accepted
<1>8. ServerChain'
  <2>1. \A t \in ClientTask : pc'[t] = "off"
    BY <1>1 DEF ServerChain
  <2>2. pc'[SocketTask] = pc[SocketTask] \/ (pc[SocketTask] = "end" /\ pc'[SocketTask] = "off")
    OBVIOUS
  <2>3. /\ Rests(RevFile)' <=> Rests(RevFile)
        /\ Rests(ConnectClient)' <=> Rests(ConnectClient)
    BY DEF Rests, Serving
  <2>4. /\ Listening' # {} => pc'[SocketTask] \in {"off", "spawn", "end"}
        /\ pc'[SocketTask] = "spawn" => pc'[RevFile] = "off" /\ pc'[ConnectClient] = "off"
    BY <1>1, <1>2, <2>2 DEF ServerChain, Serving
  <2>5. /\ ~Rests(RevFile)' => Rests(ConnectClient)'
        /\ pc'[RevFile] = "begin" => pc'[ConnectClient] = "end"
    BY <1>1, <2>3 DEF ServerChain, Serving
  <2>6. pc'[RevFile] = "end" =>
         Rests(ConnectClient)' \/ (pc'[ConnectClient] = "accept" /\ at'[ConnectClient] = "run")
    <3> SUFFICES ASSUME pc'[RevFile] = "end", ~Rests(ConnectClient)
                 PROVE  pc'[ConnectClient] = "accept" /\ at'[ConnectClient] = "run"
      BY <2>3
    <3>1. pc[RevFile] = "end"
      BY DEF Serving
    <3>2. pc[ConnectClient] = "accept" /\ at[ConnectClient] = "run"
      BY <1>1, <3>1 DEF ServerChain
    <3> QED BY <3>1, <3>2 DEF Underway
  <2> QED BY <2>1, <2>4, <2>5, <2>6 DEF ServerChain
<1>9. ServerFresh'
  BY <1>2 DEF ServerFresh
<1>10. ServerListens'
  <2>1. \A c \in Listening : state'[c] = state[c]
    BY <1>1 DEF Listening
  <2>2. \A c \in Listening : sock_fd' \in Fd /\ socks'[sock_fd'] = c /\ state'[c] = "listen"
    BY <1>1, <2>1 DEF ServerListens
  <2>3. \A c \in Conn : state'[c] = "listen" => c \in Listening
    BY <1>1 DEF ServerListens
  <2>4. \A l \in Listening : Distinct(box'[l]) /\ Elems(box'[l]) \subseteq Conn
    BY <1>1 DEF ServerListens, Listening
  <2>5. ASSUME NEW c \in Conn, IsPending(c)
        PROVE  state'[c] = "none" /\ \A t \in Task : on'[t] # c
    <3>1. state[c] = "none" /\ \A t \in Task : on[t] # c
      BY <1>1, <2>5 DEF ServerListens
    <3>2. c # Held /\ c # None /\ c \notin Listening /\ c # Accepted
      <4>1. c # None
        BY DEF Conn
      <4> QED BY <1>1, <2>5, <4>1 DEF ServerSockets
    <3>3. state'[c] = "none"
      BY <3>1, <3>2
    <3>4. \A t \in Task : on'[t] \in {on[t], None, Held} \cup Listening
      BY <1>6
    <3> QED BY <3>1, <3>2, <3>3, <3>4
  <2> QED BY <1>2, <1>3, <2>2, <2>3, <2>4, <2>5 DEF ServerListens
<1>11. ServerSockets'
  <2>1. /\ \A s \in Fd : socks'[s] # None => s = sock_fd' \/ (s = sock_conn' /\ Active')
        /\ Active' => sock_conn' # sock_fd'
    BY <1>1, <1>4 DEF ServerSockets
  <2>2. Held # None => state'[Held] \in {"none", "write", "close"} /\ ~IsPending(Held)
    BY <1>1 DEF ServerSockets
  <2>3. ASSUME NEW c \in Conn, state'[c] # "free"
        PROVE  c \in Listening \/ IsPending(c) \/ c = Held \/ c = Accepted
    BY <1>1, <2>3 DEF ServerSockets
  <2>4. at'[RevFile] # "run" => on'[RevFile] = Held
    BY <1>1 DEF ServerSockets, Underway
  <2>5. pc'[ConnectClient] = "opts" /\ at'[ConnectClient] # "run" => on'[ConnectClient] = Held
    BY <1>1 DEF ServerSockets, Underway
  <2>6. at'[ConnectClient] = "fetch" => on'[ConnectClient] \in Listening
    BY <1>1 DEF ServerSockets, Underway
  <2>7. Accepted # None => state'[Accepted] \in {"none", "close"}
    <3> SUFFICES ASSUME Accepted # None PROVE state'[Accepted] \in {"none", "close"}
      OBVIOUS
    <3>1. Accepted # Held
      <4>1. pc[ConnectClient] \in {"accept", "drop"} /\ at[ConnectClient] # "fetch"
            /\ on[ConnectClient] # None
        BY DEF Accepted
      <4>2. at[ConnectClient] # "run"
        BY <1>6, <4>1
      <4>3. ~Active
        BY <1>1, <4>1, <4>2 DEF ServerChain, Active, Serving, Rests
      <4> QED BY <4>3 DEF Held
    <3>2. state[Accepted] \in {"none", "close"}
      BY <1>1 DEF ServerSockets
    <3> QED BY <1>1, <3>1, <3>2
  <2> QED BY <1>2, <1>3, <1>4, <1>5, <1>7, <2>1, <2>2, <2>3, <2>4, <2>5, <2>6, <2>7
          DEF ServerSockets
<1> QED BY <1>8, <1>9, <1>10, <1>11 DEF ServerShape

\* The same of a step of one task.
LEMMA ServerStep ==
    ASSUME IInv, "client" \notin use, UNCHANGED <<socks, sock_fd, sock_conn>>,
           InCalls', NEW t \in Task, pc[t] \notin {"off", "socket"}, NEW l, pc' = [pc EXCEPT ![t] = l],
           \/ /\ t = RevFile /\ pc[t] \in Serving \ {"closed"}
              /\ l \in Serving \ {"begin", "closed"}
           \/ l = pc[t]
           \/ t = ConnectClient /\ pc[t] = "opts" /\ l = "spawn"
           \/ t = ConnectClient /\ pc[t] = "accept" /\ l = "drop" /\ at[t] \in Underway
           \/ pc[t] = "end" /\ l = "off" /\ (t = ConnectClient => pc[RevFile] # "begin"),
           pc'[RevFile] \in Serving \ {"begin"} => fd'[RevFile] = sock_conn,
           \A d \in Conn :
              /\ pcb'[d] = "listen" <=> pcb[d] = "listen"
              /\ pcb[d] = "listen" => box'[d] = box[d]
              /\ \/ state'[d] = state[d]
                 \/ d = Held /\ state'[d] \in {"none", "write", "close"}
                 \/ d = Accepted /\ state'[d] \in {"none", "close"},
           NEW a, NEW c, at' = [at EXCEPT ![t] = a], on' = [on EXCEPT ![t] = c],
           \/ c = on[t] /\ (a = at[t] \/ (at[t] \in Underway /\ a \in Underway))
           \/ /\ t = RevFile \/ (t = ConnectClient /\ l \in {"opts", "spawn"})
              /\ a = "run"
           \/ t = RevFile /\ c = Held
           \/ t = ConnectClient /\ pc[t] = "opts" /\ l = "opts" /\ c = Held /\ a # "fetch"
           \/ /\ t = ConnectClient /\ pc[t] = "accept" /\ l = "accept"
              /\ at[t] = "run" /\ a = "fetch" /\ c \in Listening /\ pc[RevFile] # "end"
    PROVE  ServerShape'
<1>1. /\ at \in [Task -> {"run", "fetch", "posted", "asleep", "back"}]
      /\ on \in [Task -> Conn \cup {None}] /\ pc \in [Task -> Label] /\ InCalls
  BY TypeParts DEF IInv, AllTypes, CallTypes, TaskTypes, CallInv
<1>2. Listening # {}
  <2> SUFFICES ASSUME Listening = {} PROVE FALSE
    OBVIOUS
  <2>1. ServerChain /\ ServerFresh
    BY HeldIs
  <2>2. pc[t] = "socket" /\ t = SocketTask
    BY <2>1 DEF ServerChain, ServerFresh
  <2> QED BY <2>2
<1>3. /\ pc'[t] = l /\ at'[t] = a /\ on'[t] = c
      /\ \A u \in Task : u # t => pc'[u] = pc[u] /\ at'[u] = at[u] /\ on'[u] = on[u]
  BY <1>1
<1> QED BY <1>1, <1>2, <1>3, ServerSame

\* Every step of a server keeps what its listener, its pending netconns and its
\* descriptors are to one another.
LEMMA ServerKept ==
    ASSUME IInv, UsesApart, SocketTasksAssumption, [OrderlyNext]_vars, "client" \notin use,
           InCalls', TypeOK'
    PROVE  ServerShape'
<1>0. /\ CallTypes /\ TaskTypes /\ SockTypes /\ ConnTypes /\ BoxTypes /\ InCalls /\ Live
      /\ Places /\ pc \in [Task -> Label] /\ FreedIsClean
      /\ at \in [Task -> {"run", "fetch", "posted", "asleep", "back"}]
      /\ on \in [Task -> Conn \cup {None}]
  BY TypeParts DEF IInv, AllTypes, CallTypes, TaskTypes, CallInv
<1>c. /\ ServerChain /\ ServerFresh /\ ServerListens /\ ServerSockets
      /\ Held \in Conn \cup {None} /\ Accepted \in Conn \cup {None}
      /\ Listening # {} => sock_fd \in Fd /\ Listening = {socks[sock_fd]}
      /\ \A c \in Listening : ~IsPending(c) /\ c # Held /\ c # Accepted
      /\ Accepted # None => Accepted \in Conn /\ ~IsPending(Accepted)
      /\ pc[RevFile] \in Serving => Rests(ConnectClient)
  BY HeldIs
\* The tasks of the server.
<1>d. ASSUME NEW t \in Task, MayRun(t) \/ pc[t] # "off"
      PROVE  t \in {RevFile, ConnectClient, SocketTask} /\ pc[t] # "off"
  BY <1>c, <1>d DEF ServerChain, MayRun, Ready
<1>e. pc[RevFile] \in Serving \ {"begin"} => fd[RevFile] = sock_conn
  BY <1>c DEF ServerChain
<1>f. \A t \in Task : /\ at = [at EXCEPT ![t] = at[t]] /\ on = [on EXCEPT ![t] = on[t]]
                      /\ pc = [pc EXCEPT ![t] = pc[t]]
  BY <1>0
\* Steps of Rev_Server_File_task.
<1>1. ASSUME NEW t \in Task, RecvRefused(t) \/ RecvReturns(t) \/ SendReturns(t) PROVE ServerShape'
  <2>1. /\ t = RevFile /\ pc[t] \in {"recv", "more", "answer"}
        /\ \E l \in {"recv", "more", "answer", "close"} : pc' = [pc EXCEPT ![t] = l]
    <3>1. t = RevFile
      <4>1. t \in Receivers \/ pc[t] \in {"answer", "send"}
        BY <1>1 DEF RecvRefused, RecvReturns, SendReturns, Receiving, Sends
      <4>2. t \in Receivers \cup Talkers
        BY <1>0, <4>1 DEF Places, MayBe
      <4> QED BY <1>1, <1>d, <4>2 DEF RecvRefused, RecvReturns, SendReturns, Back
    <3>2. AfterSend(t) = {"recv"}
      BY <3>1 DEF AfterSend
    <3>3. pc[t] # "send"
      BY <1>0, <3>1 DEF Places, MayBe
    <3> QED BY <1>1, <3>1, <3>2, <3>3
            DEF RecvRefused, RecvReturns, SendReturns, Receiving, Sends, AfterError, AfterData, Goto
  <2>2. PICK l \in {"recv", "more", "answer", "close"} : pc' = [pc EXCEPT ![t] = l]
    BY <2>1
  <2>3. UNCHANGED <<socks, sock_fd, sock_conn, fd, pcb, box, state>>
    BY <1>1 DEF RecvRefused, RecvReturns, SendReturns, globals, connVars
  <2>4. (at' = at /\ on' = on) \/ Ended(t)
    BY <1>1 DEF RecvRefused, RecvReturns, SendReturns, Ended, Running
  <2>5. pc[t] \in Serving \ {"closed"} /\ l \in Serving \ {"begin", "closed"} /\ fd[RevFile] = sock_conn
    BY <1>e, <2>1 DEF Serving
  <2>6. ASSUME at' = at, on' = on PROVE ServerShape'
    <3>1. at' = [at EXCEPT ![t] = at[t]] /\ on' = [on EXCEPT ![t] = on[t]]
      BY <1>f, <2>6
    <3> QED BY <2>1, <2>2, <2>3, <2>5, <3>1, ServerStep
  <2>7. ASSUME Ended(t) PROVE ServerShape'
    BY <2>1, <2>2, <2>3, <2>5, <2>7, ServerStep DEF Ended
  <2> QED BY <2>4, <2>6, <2>7
<1>2. ASSUME NEW t \in Task, RecvWaits(t) PROVE ServerShape'
  <2>1. /\ t = RevFile /\ pc[t] \in {"recv", "more"} /\ at[t] = "run"
        /\ UNCHANGED <<pc, socks, sock_fd, sock_conn, fd, pcb, box, state>>
        /\ on' = [on EXCEPT ![t] = ConnAt(SocketOf(t))] /\ at' = [at EXCEPT ![t] = "fetch"]
        /\ ConnAt(SocketOf(t)) # None
    <3>1. ConnAt(SocketOf(t)) \in Conn
      BY <1>2 DEF RecvWaits, Receivable
    <3>2. ConnAt(SocketOf(t)) # None
      BY <3>1 DEF Conn
    <3> QED BY <1>2, <1>d, <3>2 DEF RecvWaits, Receiving, globals, connVars
  <2>2. ConnAt(SocketOf(t)) = Held
    BY <2>1, CalledConn
  <2>3. fd[RevFile] = sock_conn
    BY <1>e, <2>1 DEF Serving
  <2> QED BY <1>f, <2>1, <2>2, <2>3, ServerStep
<1>3. ASSUME NEW t \in Task, Fetches(t) PROVE ServerShape'
  <2>1. /\ t = RevFile /\ on[t] \in Conn /\ at[t] = "fetch" /\ pc[t] \in {"recv", "more"}
        /\ at' = [at EXCEPT ![t] = "posted"] /\ on' = [on EXCEPT ![t] = on[t]]
        /\ box' = box \/ box' = [box EXCEPT ![on[t]] = Tail(@)]
    <3>1. t = RevFile
      BY <1>3, <1>d DEF Fetches, Receiving
    <3> QED BY <1>3, <3>1, FetchesDoes DEF Answered
  <2>2. UNCHANGED <<pc, socks, sock_fd, sock_conn, fd, pcb, state>>
    BY <1>3 DEF Fetches, globals
  <2>3. on[t] = Held
    BY <1>c, <2>1 DEF ServerSockets
  <2>4. \A d \in Conn : pcb[d] = "listen" => box'[d] = box[d]
    <3>1. \A d \in Conn : pcb[d] = "listen" => d # on[t]
      BY <1>c, <2>3 DEF Listening
    <3> QED BY <1>0, <2>1, <3>1 DEF BoxTypes
  <2>5. fd'[RevFile] = sock_conn
    BY <1>e, <2>1, <2>2 DEF Serving
  <2>6. pc' = [pc EXCEPT ![t] = pc[t]] /\ pc[t] \notin {"off", "socket"}
    BY <1>f, <2>1, <2>2
  <2>7. \A d \in Conn : pcb'[d] = pcb[d] /\ state'[d] = state[d]
    BY <2>2
  <2>8. UNCHANGED <<socks, sock_fd, sock_conn>> /\ t = RevFile
    BY <2>1, <2>2
  <2>9. at' = [at EXCEPT ![t] = "posted"] /\ on' = [on EXCEPT ![t] = Held]
    BY <2>1, <2>3
  <2> QED BY <2>4, <2>5, <2>6, <2>7, <2>8, <2>9, ServerStep
<1>4. ASSUME NEW t \in Task, Writes(t) PROVE ServerShape'
  <2>1. /\ t = RevFile /\ pc[t] = "answer" /\ at[t] = "run"
        /\ UNCHANGED <<socks, sock_fd, sock_conn, fd, pcb, box>>
    <3>1. t = RevFile
      <4>1. t \in Receivers \cup Talkers
        BY <1>0, <1>4 DEF Places, MayBe, Writes, Sends
      <4> QED BY <1>4, <1>d, <4>1 DEF Writes
    <3>2. pc[t] # "send"
      BY <1>0, <3>1 DEF Places, MayBe
    <3> QED BY <1>4, <3>1, <3>2 DEF Writes, Sends, globals
  <2>2. fd[RevFile] = sock_conn
    BY <1>e, <2>1 DEF Serving
  <2>3. ASSUME ConnAt(SocketOf(t)) = None PROVE ServerShape'
    <3>1. AfterSend(t) = {"recv"}
      BY <2>1 DEF AfterSend
    <3>2. pc' = [pc EXCEPT ![t] = "recv"] /\ UNCHANGED <<at, on, state>>
      BY <1>4, <2>3, <3>1 DEF Writes, Goto
    <3>3. at' = [at EXCEPT ![t] = at[t]] /\ on' = [on EXCEPT ![t] = on[t]]
      BY <1>f, <3>2
    <3>4. pc[t] \in Serving \ {"closed"} /\ "recv" \in Serving \ {"begin", "closed"}
      BY <2>1 DEF Serving
    <3>5. fd'[RevFile] = sock_conn /\ \A d \in Conn : /\ pcb'[d] = pcb[d] /\ box'[d] = box[d]
                                                    /\ state'[d] = state[d]
      BY <2>1, <2>2, <3>2
    <3>6. UNCHANGED <<socks, sock_fd, sock_conn>> /\ t = RevFile
      BY <2>1
    <3>7. pc' = [pc EXCEPT ![t] = "recv"] /\ pc[t] \notin {"off", "socket"}
      BY <2>1, <3>2
    <3> QED BY <3>3, <3>4, <3>5, <3>6, <3>7, ServerStep
  <2>4. ASSUME ConnAt(SocketOf(t)) # None PROVE ServerShape'
    <3>1. PICK c \in Conn :
            /\ c = ConnAt(SocketOf(t)) /\ pc' = pc
            /\ \/ Answered(t, c) /\ state' = state
               \/ LeftOpen(t, c) /\ state' = [state EXCEPT ![c] = "write"]
      BY <1>4, <2>4, WritesDoes
    <3>2. c = Held
      BY <2>1, <2>4, <3>1, CalledConn
    <3>3. \A d \in Conn : state'[d] = state[d] \/ (d = Held /\ state'[d] \in {"none", "write", "close"})
      BY <1>0, <3>1, <3>2 DEF ConnTypes
    <3>4. at' = [at EXCEPT ![t] = "posted"] /\ on' = [on EXCEPT ![t] = Held]
      BY <3>1, <3>2 DEF Answered, LeftOpen
    <3> QED BY <1>f, <2>1, <2>2, <3>1, <3>3, <3>4, ServerStep
  <2> QED BY <2>3, <2>4
\* What calls do to the netconn of the server.
<1>5. ASSUME NEW t \in Task, NEW c \in Conn, Emptied(t, c), pcb[c] # "listen", state[c] = "none",
             c = Held \/ c = Accepted
      PROVE  /\ at' = [at EXCEPT ![t] = "posted"] /\ on' = [on EXCEPT ![t] = c]
             /\ \A d \in Conn :
                  /\ pcb'[d] = "listen" <=> pcb[d] = "listen"
                  /\ pcb[d] = "listen" => box'[d] = box[d]
                  /\ \/ state'[d] = state[d]
                     \/ d = Held /\ state'[d] \in {"none", "write", "close"}
                     \/ d = Accepted /\ state'[d] \in {"none", "close"}
  <2>1. at' = [at EXCEPT ![t] = "posted"] /\ on' = [on EXCEPT ![t] = c]
    BY <1>5 DEF Emptied, Answered, LeftOpen
  <2>2. \A d \in Conn : pcb[d] = "listen" => box'[d] = box[d]
    BY <1>0, <1>5 DEF Emptied, BoxTypes
  <2>3. \A d \in Conn : pcb'[d] = "listen" <=> pcb[d] = "listen"
    BY <1>0, <1>5 DEF Emptied, ConnTypes
  <2>4. \A d \in Conn : state'[d] = state[d] \/ (d = c /\ state'[d] = "close")
    BY <1>0, <1>5 DEF Emptied, ConnTypes
  <2> QED BY <1>5, <2>1, <2>2, <2>3, <2>4
<1>6. ASSUME NEW t \in Task, Closes(t) PROVE ServerShape'
  <2>1. PICK c \in Conn :
          /\ c = ConnAt(SocketOf(t)) /\ ~Rests(t) /\ at[t] = "run" /\ pc[t] = "close"
          /\ state[c] = "none" /\ pcb[c] # "listen" /\ Emptied(t, c)
    BY <1>6, ClosesDoes
  <2>2. t = RevFile
    <3>1. pc[t] # "off"
      BY <2>1
    <3> QED BY <1>0, <1>d, <2>1, <3>1 DEF Places, MayBe
  <2>3. c = Held
    <3>1. ConnAt(SocketOf(t)) # None
      BY <1>6 DEF Closes
    <3> QED BY <2>1, <3>1, CalledConn
  <2>4. fd[RevFile] = sock_conn
    BY <1>e, <2>1, <2>2 DEF Serving
  <2>5. fd'[RevFile] = sock_conn
    BY <1>0, <1>6, <2>2, <2>4 DEF Closes, SocketOf, TaskTypes
  <2>6. UNCHANGED <<pc, socks, sock_fd, sock_conn>>
    BY <1>6 DEF Closes, globals
  <2>7. /\ at' = [at EXCEPT ![t] = "posted"] /\ on' = [on EXCEPT ![t] = Held]
        /\ \A d \in Conn :
             /\ pcb'[d] = "listen" <=> pcb[d] = "listen"
             /\ pcb[d] = "listen" => box'[d] = box[d]
             /\ \/ state'[d] = state[d]
                \/ d = Held /\ state'[d] \in {"none", "write", "close"}
                \/ d = Accepted /\ state'[d] \in {"none", "close"}
    BY <1>5, <2>1, <2>3
  <2>8. pc' = [pc EXCEPT ![t] = pc[t]] /\ pc[t] \notin {"off", "socket"}
    BY <1>f, <2>1, <2>6
  <2>9. UNCHANGED <<socks, sock_fd, sock_conn>>
    BY <2>6
  <2> QED BY <2>2, <2>5, <2>7, <2>8, <2>9, ServerStep
\* netconn_free: sock_conn dangles until its descriptor is freed.
<1>7. ASSUME NEW t \in Task, CloseFrees(t) PROVE ServerShape'
  <2>1. t = RevFile /\ pc[t] = "close" /\ at[t] = "back"
    <3>1. pc[t] = "close" /\ at[t] = "back"
      BY <1>7 DEF CloseFrees, Back
    <3>2. pc[t] # "off" /\ t # InitTask
      BY <1>0, <3>1 DEF InCalls, CallAt
    <3> QED BY <1>0, <1>d, <3>1, <3>2 DEF Places, MayBe
  <2>2. Held = on[t] /\ Held \in Conn /\ Held # None
    BY <1>0, <1>c, <2>1 DEF ServerSockets, InCalls, CallAt
  <2>3. Ended(t) /\ state' = [state EXCEPT ![Held] = "free"] /\ pcb' = pcb /\ box' = box
    BY <1>7, <2>2, FreesDoes
  <2>4. pc' = [pc EXCEPT ![t] = "closed"] /\ UNCHANGED <<socks, sock_fd, sock_conn, fd>>
    BY <1>7 DEF CloseFrees, Goto, globals
  <2>5. /\ pc'[RevFile] = "closed" /\ at'[RevFile] = "run" /\ on'[RevFile] = None
        /\ \A u \in Task : u # RevFile => pc'[u] = pc[u] /\ at'[u] = at[u] /\ on'[u] = on[u]
        /\ state'[Held] = "free" /\ \A d \in Conn : d # Held => state'[d] = state[d]
    BY <1>0, <2>1, <2>2, <2>3, <2>4 DEF Ended, ConnTypes
  <2>6. Listening' = Listening /\ \A c : IsPending(c)' <=> IsPending(c)
    <3>1. Listening' = Listening
      BY <2>3 DEF Listening
    <3> QED BY <2>3, <3>1 DEF IsPending
  <2>7. Rests(ConnectClient) /\ Rests(ConnectClient)' /\ ~Rests(RevFile) /\ ~Rests(RevFile)'
    BY <1>c, <2>1, <2>5 DEF Rests, Serving
  <2>8. Active /\ Active' /\ Held' = None /\ Accepted = None /\ Accepted' = None
    BY <2>1, <2>5, <2>7 DEF Active, Serving, Held, Accepted, Rests
  <2>9. ServerChain'
    BY <1>c, <2>1, <2>4, <2>5, <2>6, <2>7 DEF ServerChain, Serving
  <2>10. ServerFresh'
    BY <1>c, <2>1, <2>6 DEF ServerFresh
  <2>11. ServerListens'
    <3>1. \A c \in Listening : state'[c] = state[c] /\ box'[c] = box[c]
      BY <1>c, <2>3, <2>5 DEF Listening
    <3>2. \A c \in Conn : IsPending(c) => state'[c] = "none" /\ \A u \in Task : on'[u] # c
      <4> SUFFICES ASSUME NEW c \in Conn, IsPending(c)
                   PROVE  state'[c] = "none" /\ \A u \in Task : on'[u] # c
        OBVIOUS
      <4>1. state[c] = "none" /\ (\A u \in Task : on[u] # c) /\ c # None
        BY <1>c DEF ServerListens, Conn
      <4>2. c # Held
        BY <2>2, <4>1
      <4> QED BY <2>5, <4>1, <4>2
    <3>3. \A c \in Conn : state'[c] = "listen" => c \in Listening
      BY <1>c, <2>5 DEF ServerListens
    <3> QED BY <1>c, <2>4, <2>6, <3>1, <3>2, <3>3 DEF ServerListens
  <2>12. ServerSockets'
    <3>1. \A c \in Conn : state'[c] # "free" => c \in Listening \/ IsPending(c)
      BY <1>c, <2>5, <2>8 DEF ServerSockets, Conn
    <3>2. \A s \in Fd : socks'[s] # None => s = sock_fd' \/ (s = sock_conn' /\ Active')
      BY <1>c, <2>4, <2>8 DEF ServerSockets
    <3>3. Active' => sock_conn' # sock_fd'
      BY <1>c, <2>4, <2>8 DEF ServerSockets
    <3>4. pc'[ConnectClient] # "opts" /\ at'[ConnectClient] # "fetch"
      BY <1>0, <2>5, <2>7 DEF Rests, InCalls, CallAt
    <3> QED BY <2>5, <2>6, <2>8, <3>1, <3>2, <3>3, <3>4 DEF ServerSockets
  <2> QED BY <2>9, <2>10, <2>11, <2>12 DEF ServerShape
\* The end of Rev_Server_File_task makes a Connect_client_task.
<1>8. ASSUME NEW t \in Task, CloseRefused(t) \/ CloseReturns(t) PROVE ServerShape'
  <2>1. t = RevFile /\ pc[t] \in {"close", "closed"} /\ at[t] = "run"
    <3>1. pc[t] \in {"close", "closed"} /\ at[t] = "run"
      BY <1>8 DEF CloseRefused, CloseReturns, Calls
    <3>2. pc[t] # "off"
      BY <3>1
    <3> QED BY <1>0, <1>d, <3>1, <3>2 DEF Places, MayBe
  <2>2. fd[t] = sock_conn /\ Rests(ConnectClient) /\ Active /\ sock_conn # sock_fd
    <3>1. Active /\ fd[t] = sock_conn
      BY <1>e, <2>1 DEF Active, Serving
    <3> QED BY <1>c, <2>1, <3>1 DEF ServerSockets, Serving
  <2>3. Held = None
    <3>1. CloseReturns(t) => Held = None
      BY <2>1 DEF CloseReturns, Calls, Held
    <3>2. CloseRefused(t) => Held = None
      BY <2>1, <2>2 DEF CloseRefused, Held, SocketOf
    <3> QED BY <1>8, <3>1, <3>2
  <2>4. /\ UNCHANGED <<sock_fd, sock_conn, at, on, state, pcb, box>>
        /\ \A s \in Fd : socks'[s] # None => socks'[s] = socks[s] /\ s # sock_conn
        /\ sock_fd \in Fd => socks'[sock_fd] = socks[sock_fd]
    <3>1. CloseReturns(t) => socks' = [socks EXCEPT ![sock_conn] = None]
      BY <2>2 DEF CloseReturns
    <3>2. CloseRefused(t) => socks' = socks /\ (sock_conn \in Fd => socks[sock_conn] = None)
      BY <2>1, <2>2 DEF CloseRefused, SocketOf, ConnAt
    <3>3. UNCHANGED <<sock_fd, sock_conn, at, on, state, pcb, box>>
      BY <1>8 DEF CloseRefused, CloseReturns, globals, connVars
    <3> QED BY <1>0, <1>8, <2>2, <3>1, <3>2, <3>3 DEF SockTypes
  <2>5. /\ pc'[RevFile] = "end"
        /\ \/ pc[ConnectClient] = "off" /\ pc'[ConnectClient] = "accept"
           \/ pc[ConnectClient] = "end" /\ pc'[ConnectClient] = "end"
        /\ \A u \in Task : u \notin {RevFile, ConnectClient} => pc'[u] = pc[u]
    <3> DEFINE p == Goto(t, "end")
    <3>1. p \in [Task -> Label] /\ p[RevFile] = "end" /\ \A u \in Task : u # RevFile => p[u] = pc[u]
      BY <1>0, <2>1 DEF Goto, Label
    <3>2. pc' = Created(p, ConnectClient)
      BY <1>8, <2>1, ClosedIs DEF CloseRefused, CloseReturns
    <3> HIDE DEF p
    <3>3. \A u \in Task : u # ConnectClient => pc'[u] = p[u]
      BY <3>1, <3>2, CreatedIs
    <3>4. \/ p[ConnectClient] = "off" /\ pc'[ConnectClient] = "accept"
          \/ p[ConnectClient] # "off" /\ pc'[ConnectClient] = p[ConnectClient]
      BY <3>1, <3>2, CreatedIs, StartsAt
    <3> QED BY <2>2, <3>1, <3>3, <3>4 DEF Rests
  <2>6. at[ConnectClient] = "run" /\ on[ConnectClient] = None
    BY <1>0, <2>2 DEF Rests, InCalls, CallAt
  <2>7. Listening' = Listening /\ \A c : IsPending(c)' <=> IsPending(c)
    <3>1. Listening' = Listening
      BY <2>4 DEF Listening
    <3> QED BY <2>4, <3>1 DEF IsPending
  <2>8. ~Active' /\ Held' = None /\ Accepted = None /\ Accepted' = None
    BY <2>2, <2>4, <2>5, <2>6 DEF Active, Serving, Held, Accepted, Rests
  <2>9. ServerChain'
    BY <1>c, <2>1, <2>4, <2>5, <2>6, <2>7 DEF ServerChain, Serving, Rests
  <2>10. ServerFresh'
    BY <1>c, <2>1, <2>7 DEF ServerFresh
  <2>11. ServerListens'
    BY <1>c, <2>4, <2>7 DEF ServerListens
  <2>12. ServerSockets'
    <3>1. \A c \in Conn : state[c] # "free" => c \in Listening \/ IsPending(c)
      BY <1>c, <2>3, <2>8 DEF ServerSockets, Conn
    <3>2. \A s \in Fd : socks'[s] # None => s = sock_fd
      BY <1>c, <2>4 DEF ServerSockets
    <3> QED BY <2>1, <2>4, <2>5, <2>6, <2>7, <2>8, <3>1, <3>2 DEF ServerSockets
  <2> QED BY <2>9, <2>10, <2>11, <2>12 DEF ServerShape
\* Rev_file_task reads sock_conn.
<1>9. ASSUME NEW t \in Task, Begins(t) PROVE ServerShape'
  <2>1. /\ t = RevFile /\ pc[t] = "begin" /\ pc' = [pc EXCEPT ![t] = "recv"]
        /\ fd' = [fd EXCEPT ![t] = sock_conn]
        /\ UNCHANGED <<at, on, socks, sock_fd, sock_conn, state, pcb, box>>
    BY <1>9 DEF Begins, Calls, Goto, globals, connVars
  <2>2. fd'[RevFile] = sock_conn
    BY <1>0, <2>1 DEF TaskTypes
  <2>3. at' = [at EXCEPT ![t] = at[t]] /\ on' = [on EXCEPT ![t] = on[t]]
    BY <1>f, <2>1
  <2>4. pc[t] \in Serving \ {"closed"} /\ "recv" \in Serving \ {"begin", "closed"}
    BY <2>1 DEF Serving
  <2>5. pc' = [pc EXCEPT ![t] = "recv"] /\ t = RevFile /\ pc[t] \notin {"off", "socket"}
    BY <2>1
  <2>6. /\ UNCHANGED <<socks, sock_fd, sock_conn>>
        /\ \A d \in Conn : pcb'[d] = pcb[d] /\ box'[d] = box[d] /\ state'[d] = state[d]
    BY <2>1
  <2> QED BY <2>2, <2>3, <2>4, <2>5, <2>6, ServerStep
\* Socket_task
<1>10. ASSUME NEW t \in Task, OpensListener(t) PROVE ServerShape'
  <2>1. t = SocketTask /\ pc[t] = "socket" /\ Listening = {}
    <3>1. t = SocketTask /\ pc[t] = "socket"
      BY <1>10 DEF OpensListener, Calls
    <3> QED BY <1>c, <3>1 DEF ServerChain
  <2>2. /\ \A c \in Conn : state[c] = "free" /\ pcb[c] = "null" /\ box[c] = <<>>
        /\ \A s \in Fd : socks[s] = None
        /\ pc[RevFile] = "off" /\ pc[ConnectClient] = "off"
    BY <1>0, <1>c, <2>1 DEF ServerFresh, FreedIsClean
  <2>3. ~NoSocket
    <3>1. 1 \in Conn /\ 0 \in Fd
      BY SocketTasksAssumption DEF Conn, Fd
    <3>2. 1 \in FreeConn /\ 0 \in FreeFd
      BY <2>2, <3>1 DEF FreeConn, FreeFd
    <3> QED BY <3>2 DEF NoSocket
  <2>4. /\ Opened("listen", "listen") /\ pc' = [pc EXCEPT ![t] = "spawn"] /\ sock_fd' = Min(FreeFd)
        /\ UNCHANGED <<at, on, fd, sock_conn, box>>
    BY <1>10, <2>1, <2>3 DEF OpensListener, Goto
  <2>5. PICK c \in Conn, s \in Fd :
          /\ sock_fd' = s /\ socks' = [socks EXCEPT ![s] = c]
          /\ state' = [state EXCEPT ![c] = "listen"] /\ pcb' = [pcb EXCEPT ![c] = "listen"]
    BY <2>3, <2>4, OpensDoes DEF Opened
  <2>6. /\ socks'[s] = c /\ \A r \in Fd : r # s => socks'[r] = None
        /\ state'[c] = "listen" /\ \A d \in Conn : d # c => state'[d] = "free"
        /\ \A d \in Conn : pcb'[d] = "listen" <=> d = c
    BY SMTT(20), <1>0, <2>2, <2>5 DEF SockTypes, ConnTypes
  <2>7. /\ pc'[SocketTask] = "spawn" /\ pc'[RevFile] = "off" /\ pc'[ConnectClient] = "off"
        /\ \A u \in ClientTask : pc'[u] = "off"
    BY <1>0, <1>c, <2>1, <2>2, <2>4 DEF ServerChain
  <2>8. Listening' = {c} /\ \A d : ~IsPending(d)'
    <3>1. Listening' = {c}
      BY <2>6 DEF Listening
    <3> QED BY <2>2, <2>4, <3>1 DEF IsPending, Elems
  <2>9. ~Active' /\ Held' = None /\ Accepted' = None
    BY <2>7 DEF Active, Serving, Held, Accepted
  <2>10. at'[RevFile] = "run" /\ at'[ConnectClient] = "run"
    BY <1>0, <2>2, <2>4 DEF InCalls, CallAt
  <2>11. ServerChain' /\ ServerFresh'
    BY <2>7, <2>8 DEF ServerChain, ServerFresh, Rests, Serving
  <2>12. ServerListens'
    <3>1. Distinct(box'[c]) /\ Elems(box'[c]) \subseteq Conn
      BY <2>2, <2>4 DEF Distinct, Elems
    <3> QED BY <2>5, <2>6, <2>8, <3>1 DEF ServerListens
  <2>13. ServerSockets'
    BY <2>5, <2>6, <2>7, <2>8, <2>9, <2>10 DEF ServerSockets
  <2> QED BY <2>11, <2>12, <2>13 DEF ServerShape
\* Connect_client_task
<1>11. ASSUME NEW t \in Task, EntersAccept(t) PROVE ServerShape'
  <2>1. t = ConnectClient /\ pc[t] = "accept" /\ at[t] = "run" /\ MayRun(t)
    BY <1>11 DEF EntersAccept, Calls
  <2>2. ConnAt(sock_fd) \in Listening
    BY <1>c, <2>1 DEF ServerFresh, ConnAt
  <2>3. /\ on' = [on EXCEPT ![t] = ConnAt(sock_fd)] /\ at' = [at EXCEPT ![t] = "fetch"]
        /\ UNCHANGED <<pc, fd, socks, sock_fd, sock_conn, state, pcb, box>>
    BY <1>11, <2>2 DEF EntersAccept, connVars
  <2>4. pc[RevFile] # "end"
    BY <2>1, Turns
  <2>5. pc' = [pc EXCEPT ![t] = "accept"] /\ pc[t] \notin {"off", "socket"}
    BY <1>f, <2>1, <2>3
  <2>6. /\ UNCHANGED <<socks, sock_fd, sock_conn>>
        /\ pc'[RevFile] \in Serving \ {"begin"} => fd'[RevFile] = sock_conn
        /\ \A d \in Conn : pcb'[d] = pcb[d] /\ box'[d] = box[d] /\ state'[d] = state[d]
    BY <1>e, <2>3
  <2> QED BY <2>1, <2>2, <2>3, <2>4, <2>5, <2>6, ServerStep
<1>12. ASSUME NEW t \in Task, Accepts(t) PROVE ServerShape'
  <2>0. t = ConnectClient
    BY <1>12 DEF Accepts
  <2> DEFINE l == on[t]
             n == Head(box[l])
  <2>1. /\ pc[t] = "accept" /\ at[t] = "fetch" /\ l \in Listening /\ l \in Conn
        /\ box[l] # <<>> /\ n \in Conn /\ n \in Elems(box[l]) /\ state[n] = "none"
        /\ \A u \in Task : on[u] # n
        /\ Answered(t, n) /\ box' = [box EXCEPT ![l] = Tail(@)] /\ UNCHANGED <<pc, sock_conn>>
    BY <1>12, <2>0, AcceptsDoes
  <2>2. UNCHANGED <<fd, socks, sock_fd, state, pcb>>
    BY <1>12 DEF Accepts
  <2> HIDE DEF l, n
  <2>3. Listening = {l} /\ Listening' = {l}
    <3>1. Listening = {l}
      BY <1>c, <2>1
    <3> QED BY <2>2, <3>1 DEF Listening
  <2>4. box[l] \in Seq(Conn \cup {Data, Eof}) /\ Distinct(box[l]) /\ Elems(box[l]) \subseteq Conn
    BY <1>0, <1>c, <2>1 DEF BoxTypes, ServerListens
  <2>5. box'[l] = Tail(box[l])
    BY <1>0, <2>1 DEF BoxTypes
  <2>6. Distinct(box'[l]) /\ Elems(box'[l]) = Elems(box[l]) \ {n}
    BY <2>1, <2>4, <2>5, TailElems DEF n
  <2>7. /\ \A c : IsPending(c) <=> c \in Elems(box[l])
        /\ \A c : IsPending(c)' <=> c \in Elems(box[l]) /\ c # n
    BY <2>3, <2>6 DEF IsPending
  <2>8. /\ at'[t] = "posted" /\ on'[t] = n
        /\ \A u \in Task : u # t => at'[u] = at[u] /\ on'[u] = on[u]
    BY <1>0, <2>1 DEF Answered
  <2>9. ~Active /\ ~Active' /\ Held = None /\ Held' = None
    BY <1>c, <2>0, <2>1 DEF ServerChain, Active, Serving, Rests, Held
  <2>10. Accepted = None /\ Accepted' = n
    BY <2>0, <2>1, <2>8 DEF Accepted
  <2>11. ServerChain'
    <3>1. pc[RevFile] # "end"
      BY <1>12, <2>0, Turns DEF Accepts
    <3> QED BY <1>c, <2>0, <2>1, <2>2, <2>3, <3>1 DEF ServerChain, Rests
  <2>12. ServerFresh'
    BY <2>3 DEF ServerFresh
  <2>13. ServerListens'
    <3>1. \A c \in Conn : IsPending(c) /\ c # n => \A u \in Task : on'[u] # c
      BY <1>c, <2>8 DEF ServerListens
    <3>2. \A k \in Listening : box'[k] = box'[l]
      BY <2>3
    <3> QED BY <1>c, <2>1, <2>2, <2>3, <2>4, <2>6, <2>7, <3>1, <3>2 DEF ServerListens
  <2>14. ServerSockets'
    <3>1. \A c \in Conn : state[c] # "free" => c \in Listening \/ IsPending(c)' \/ c = n
      BY <1>c, <2>3, <2>7, <2>9, <2>10 DEF ServerSockets, Conn
    <3>2. at'[RevFile] # "run" => on'[RevFile] = Held'
      BY <1>c, <2>0, <2>8, <2>9 DEF ServerSockets
    <3> QED BY <1>c, <2>0, <2>1, <2>2, <2>3, <2>8, <2>9, <2>10, <3>1, <3>2 DEF ServerSockets
  <2> QED BY <2>11, <2>12, <2>13, <2>14 DEF ServerShape
<1>13. ASSUME NEW t \in Task, AcceptReturns(t), ~(res[t] = "ok" /\ FreeFd # {}) PROVE ServerShape'
  <2>1. t = ConnectClient /\ pc[t] = "accept" /\ at[t] = "back"
    BY <1>13 DEF AcceptReturns, Back
  <2>2. PICK c \in Conn : /\ c = on[t] /\ c = Accepted /\ state[c] = "none" /\ pcb[c] # "listen"
                          /\ Emptied(t, c) /\ pc' = [pc EXCEPT ![t] = "drop"]
                          /\ UNCHANGED <<socks, sock_conn>>
    BY <1>13, <2>1, AcceptDeletes DEF Goto
  <2>3. UNCHANGED <<fd, sock_fd>>
    BY <1>13 DEF AcceptReturns
  <2>4. /\ at' = [at EXCEPT ![t] = "posted"] /\ on' = [on EXCEPT ![t] = on[t]]
        /\ \A d \in Conn :
             /\ pcb'[d] = "listen" <=> pcb[d] = "listen"
             /\ pcb[d] = "listen" => box'[d] = box[d]
             /\ \/ state'[d] = state[d]
                \/ d = Held /\ state'[d] \in {"none", "write", "close"}
                \/ d = Accepted /\ state'[d] \in {"none", "close"}
    BY <1>5, <2>2
  <2>5. pc'[RevFile] \in Serving \ {"begin"} => fd'[RevFile] = sock_conn
    BY <1>0, <1>e, <2>1, <2>2, <2>3
  <2>6. pc[t] \notin {"off", "socket"} /\ at[t] \in Underway /\ "posted" \in Underway
        /\ UNCHANGED <<socks, sock_fd, sock_conn>>
    BY <2>1, <2>2, <2>3 DEF Underway
  <2>7. pc' = [pc EXCEPT ![t] = "drop"]
    BY <2>2
  <2> QED BY <2>1, <2>4, <2>5, <2>6, <2>7, ServerStep
<1>14. ASSUME NEW t \in Task, AcceptReturns(t), res[t] = "ok" /\ FreeFd # {} PROVE ServerShape'
  <2> DEFINE c == on[t]
             s == Min(FreeFd)
  <2>1. t = ConnectClient /\ pc[t] = "accept" /\ at[t] = "back"
    BY <1>14 DEF AcceptReturns, Back
  <2>2. c = Accepted /\ c \in Conn /\ c # None /\ state[c] = "none"
    BY <2>1, AcceptedConn DEF Conn
  <2>3. s \in Fd /\ socks[s] = None
    BY <1>14, FirstFree
  <2>4. /\ socks' = [socks EXCEPT ![s] = c] /\ sock_conn' = s /\ pc' = [pc EXCEPT ![t] = "opts"]
        /\ Ended(t) /\ UNCHANGED <<fd, sock_fd, state, pcb, box>>
    BY <1>14 DEF AcceptReturns, Goto, Running, Ended, connVars
  <2> HIDE DEF c, s
  <2>5. /\ at'[t] = "run" /\ on'[t] = None /\ pc'[t] = "opts"
        /\ \A u \in Task : u # t => pc'[u] = pc[u] /\ at'[u] = at[u] /\ on'[u] = on[u]
        /\ socks'[s] = c /\ \A r \in Fd : r # s => socks'[r] = socks[r]
    BY <1>0, <2>3, <2>4 DEF Ended, SockTypes
  <2>6. Listening # {} /\ sock_fd \in Fd /\ socks[sock_fd] # None
    <3>1. Listening # {}
      BY <1>c, <2>1 DEF ServerFresh
    <3>2. PICK l \in Listening : TRUE
      BY <3>1
    <3>3. socks[sock_fd] = l /\ l # None
      BY <1>c, <3>2 DEF ServerListens, Listening, Conn
    <3> QED BY <1>c, <3>1, <3>3
  <2>7. sock_fd # s
    BY <2>3, <2>6
  <2>8. Listening' = Listening /\ \A d : IsPending(d)' <=> IsPending(d)
    <3>1. Listening' = Listening
      BY <2>4 DEF Listening
    <3> QED BY <2>4, <3>1 DEF IsPending
  <2>9. Rests(RevFile) /\ Rests(RevFile)' /\ pc[RevFile] \notin {"begin", "end"}
    <3>1. Rests(RevFile)
      BY <1>c, <2>1 DEF ServerChain, Rests
    <3>2. pc[RevFile] \notin {"begin", "end"}
      BY <1>c, <2>1 DEF ServerChain, Rests
    <3> QED BY <2>1, <2>5, <3>1, <3>2 DEF Rests
  <2>10. ~Active /\ Active' /\ Held = None /\ Held' = c /\ Accepted' = None
    <3>1. ~Active /\ Active'
      BY <2>1, <2>5, <2>9 DEF Active, Serving, Rests
    <3>2. pc'[RevFile] # "closed"
      BY <2>1, <2>5, <2>9 DEF Rests
    <3>3. Held' = c
      BY <2>3, <2>4, <2>5, <3>1, <3>2 DEF Held, ConnAt
    <3>4. Accepted' = None
      BY <2>1, <2>5 DEF Accepted
    <3> QED BY <3>1, <3>3, <3>4 DEF Held
  <2>11. ServerChain'
    BY <1>c, <2>1, <2>5, <2>8, <2>9 DEF ServerChain, Rests, Serving
  <2>12. ServerFresh'
    BY <2>6, <2>8 DEF ServerFresh
  <2>13. ServerListens'
    <3>1. \A d \in Conn : IsPending(d) => \A u \in Task : on'[u] # d
      BY <1>c, <2>1, <2>5 DEF ServerListens, Conn
    <3>2. socks'[sock_fd'] = socks[sock_fd]
      BY <2>4, <2>5, <2>6, <2>7
    <3> QED BY <1>c, <2>4, <2>8, <3>1, <3>2 DEF ServerListens
  <2>14. ServerSockets'
    <3>1. \A d \in Conn : state'[d] # "free" => d \in Listening \/ IsPending(d) \/ d = c
      BY <1>c, <2>2, <2>4, <2>10 DEF ServerSockets, Conn
    <3>2. \A r \in Fd : socks'[r] # None => r = sock_fd' \/ r = s
      BY <1>c, <2>4, <2>5, <2>10 DEF ServerSockets
    <3>3. at'[RevFile] = "run"
      BY <1>0, <2>1, <2>5, <2>9 DEF InCalls, CallAt, Rests
    <3>4. ~IsPending(c)
      BY <1>c, <2>2
    <3> QED BY <2>1, <2>2, <2>4, <2>5, <2>7, <2>8, <2>10, <3>1, <3>2, <3>3, <3>4 DEF ServerSockets
  <2> QED BY <2>11, <2>12, <2>13, <2>14 DEF ServerShape
<1>15. ASSUME NEW t \in Task, Drops(t) PROVE ServerShape'
  <2> DEFINE c == on[t]
  <2>1. t = ConnectClient /\ pc[t] = "drop" /\ at[t] = "back"
    BY <1>15 DEF Drops, Back
  <2>2. c = Accepted /\ c \in Conn /\ c # None /\ state[c] = "none"
    BY <2>1, AcceptedConn DEF Conn
  <2>3. Ended(t) /\ state' = [state EXCEPT ![c] = "free"] /\ pcb' = pcb /\ box' = box
    BY <1>15, FreesDoes
  <2>4. sock_conn' = -1 /\ pc' = [pc EXCEPT ![t] = "opts"] /\ UNCHANGED <<fd, sock_fd, socks>>
    BY <1>15 DEF Drops, Goto
  <2> HIDE DEF c
  <2>5. /\ at'[t] = "run" /\ on'[t] = None /\ pc'[t] = "opts"
        /\ \A u \in Task : u # t => pc'[u] = pc[u] /\ at'[u] = at[u] /\ on'[u] = on[u]
        /\ state'[c] = "free" /\ \A d \in Conn : d # c => state'[d] = state[d]
    BY <1>0, <2>2, <2>3, <2>4 DEF Ended, ConnTypes
  <2>6. Listening # {} /\ sock_fd \in Fd /\ sock_fd # -1
    <3>1. Listening # {}
      BY <1>c, <2>1 DEF ServerFresh
    <3> QED BY <1>c, <3>1 DEF Fd
  <2>7. Listening' = Listening /\ \A d : IsPending(d)' <=> IsPending(d)
    <3>1. Listening' = Listening
      BY <2>3 DEF Listening
    <3> QED BY <2>3, <3>1 DEF IsPending
  <2>8. Rests(RevFile) /\ Rests(RevFile)' /\ pc[RevFile] \notin {"begin", "end"}
    <3>1. Rests(RevFile)
      BY <1>c, <2>1 DEF ServerChain, Rests
    <3>2. pc[RevFile] \notin {"begin", "end"}
      BY <1>c, <2>1 DEF ServerChain, Rests
    <3> QED BY <2>1, <2>5, <3>1, <3>2 DEF Rests
  <2>9. ~Active /\ Active' /\ Held = None /\ Held' = None /\ Accepted' = None
    <3>1. ~Active /\ Active'
      BY <2>1, <2>5, <2>8 DEF Active, Serving, Rests
    <3>2. Held' = None
      BY <2>4, <3>1 DEF Held, ConnAt, Fd
    <3>3. Accepted' = None
      BY <2>1, <2>5 DEF Accepted
    <3> QED BY <3>1, <3>2, <3>3 DEF Held
  <2>10. ServerChain'
    BY <1>c, <2>1, <2>5, <2>7, <2>8 DEF ServerChain, Rests, Serving
  <2>11. ServerFresh'
    BY <2>6, <2>7 DEF ServerFresh
  <2>12. ServerListens'
    <3>1. \A d \in Conn : IsPending(d) => d # c /\ \A u \in Task : on'[u] # d
      BY <1>c, <2>1, <2>2, <2>5 DEF ServerListens, Conn
    <3>2. \A l \in Listening : state'[l] = state[l] /\ l \in Conn
      BY <1>c, <2>2, <2>5 DEF Listening
    <3>3. \A d \in Conn : state'[d] = "listen" => d \in Listening
      BY <1>c, <2>5 DEF ServerListens
    <3>4. \A d \in Conn : IsPending(d) => state'[d] = "none"
      BY <1>c, <2>5, <3>1 DEF ServerListens
    <3> QED BY <1>c, <2>3, <2>4, <2>7, <3>1, <3>2, <3>3, <3>4 DEF ServerListens
  <2>13. ServerSockets'
    <3>1. \A d \in Conn : state'[d] # "free" => d \in Listening \/ IsPending(d)
      BY <1>c, <2>2, <2>5, <2>9 DEF ServerSockets, Conn
    <3>2. \A r \in Fd : socks'[r] # None => r = sock_fd'
      BY <1>c, <2>4, <2>9 DEF ServerSockets
    <3>3. at'[RevFile] = "run"
      BY <1>0, <2>1, <2>5, <2>8 DEF InCalls, CallAt, Rests
    <3> QED BY <2>1, <2>4, <2>5, <2>6, <2>7, <2>9, <3>1, <3>2, <3>3 DEF ServerSockets
  <2> QED BY <2>10, <2>11, <2>12, <2>13 DEF ServerShape
<1>16. ASSUME NEW t \in Task, SetsOptions(t) \/ OptionsSet(t) PROVE ServerShape'
  <2>1. t = ConnectClient /\ pc[t] = "opts"
    <3>1. t \in {ConnectClient, ConnectServer} /\ MayRun(t) /\ pc[t] = "opts"
      BY <1>16 DEF SetsOptions, OptionsSet, Calls, Back
    <3> QED BY <1>d, <3>1
  <2>2. UNCHANGED <<fd, socks, sock_fd, sock_conn, state, pcb, box>>
    BY <1>16 DEF SetsOptions, OptionsSet, globals, connVars
  <2>3. /\ \A d \in Conn : pcb'[d] = pcb[d] /\ box'[d] = box[d] /\ state'[d] = state[d]
        /\ UNCHANGED <<socks, sock_fd, sock_conn>>
    BY <2>2
  <2>4. ASSUME NEW l, pc' = [pc EXCEPT ![t] = l]
        PROVE  pc'[RevFile] \in Serving \ {"begin"} => fd'[RevFile] = sock_conn
    BY <1>0, <1>e, <2>1, <2>2, <2>4
  <2>5. ASSUME OptionsSet(t) PROVE ServerShape'
    <3>1. pc' = [pc EXCEPT ![t] = "spawn"] /\ Ended(t)
      BY <2>5 DEF OptionsSet, Goto, Running, Ended
    <3>2. pc'[RevFile] \in Serving \ {"begin"} => fd'[RevFile] = sock_conn
      BY <2>4, <3>1
    <3>3. at' = [at EXCEPT ![t] = "run"] /\ on' = [on EXCEPT ![t] = None] /\ pc[t] \notin {"off", "socket"}
      BY <2>1, <3>1 DEF Ended
    <3> QED BY <2>1, <2>3, <3>1, <3>2, <3>3, ServerStep
  <2>6. ASSUME SetsOptions(t), ConnAt(Chosen(t)) = None PROVE ServerShape'
    <3>1. pc' = [pc EXCEPT ![t] = "spawn"] /\ at' = at /\ on' = on /\ at[t] = "run"
      BY <2>6 DEF SetsOptions, Goto, Calls
    <3>2. pc'[RevFile] \in Serving \ {"begin"} => fd'[RevFile] = sock_conn
      BY <2>4, <3>1
    <3>3. on[t] = None
      BY <1>0, <3>1 DEF InCalls, CallAt
    <3>4. /\ at' = [at EXCEPT ![t] = "run"] /\ on' = [on EXCEPT ![t] = None]
          /\ pc[t] \notin {"off", "socket"} /\ pc' = [pc EXCEPT ![t] = "spawn"]
      BY <1>f, <2>1, <3>1, <3>3
    <3> QED BY <2>1, <2>3, <3>2, <3>4, ServerStep
  <2>7. ASSUME SetsOptions(t), ConnAt(Chosen(t)) # None PROVE ServerShape'
    <3>1. PICK c \in Conn : c = ConnAt(Chosen(t)) /\ at[t] = "run" /\ Answered(t, c) /\ pc' = pc
      BY <2>7, OptionsDoes
    <3>2. c = Held
      BY <2>1, <2>7, <3>1, CalledConn
    <3>3. /\ at' = [at EXCEPT ![t] = "posted"] /\ on' = [on EXCEPT ![t] = Held]
          /\ pc' = [pc EXCEPT ![t] = "opts"] /\ pc[t] \notin {"off", "socket"}
      BY <1>f, <2>1, <3>1, <3>2 DEF Answered
    <3>4. pc'[RevFile] \in Serving \ {"begin"} => fd'[RevFile] = sock_conn
      BY <2>4, <3>3
    <3> QED BY <2>1, <2>3, <3>3, <3>4, ServerStep
  <2> QED BY <1>16, <2>5, <2>6, <2>7
\* OSTaskCreate of the next task, and OSTaskDel.
<1>17. ASSUME NEW t \in Task, Spawns(t) PROVE ServerShape'
  <2>1. /\ pc[t] = "spawn" /\ at[t] = "run" /\ t \in {ConnectClient, SocketTask} /\ MayRun(t)
        /\ pc' = Created(Goto(t, "end"), Successor[t])
        /\ UNCHANGED <<at, on, fd, socks, sock_fd, sock_conn, state, pcb, box>>
    BY <1>17, <1>d, SuccessorIs DEF Spawns, Calls, globals, connVars
  <2>2. Goto(t, "end") \in [Task -> Label] /\ Goto(t, "end")[t] = "end"
        /\ \A u \in Task : u # t => Goto(t, "end")[u] = pc[u]
    BY <1>0 DEF Goto, Label
  <2>3. Listening' = Listening /\ Listening # {} /\ \A d : IsPending(d)' <=> IsPending(d)
    <3>1. Listening' = Listening
      BY <2>1 DEF Listening
    <3> QED BY <1>c, <2>1, <3>1 DEF IsPending, ServerFresh
  <2>4. ServerFresh'
    BY <2>3 DEF ServerFresh
  <2>5. ServerListens'
    BY <1>c, <2>1, <2>3 DEF ServerListens
  <2>6. ASSUME t = SocketTask PROVE ServerShape'
    <3>1. pc[RevFile] = "off" /\ pc[ConnectClient] = "off"
      BY <1>c, <2>1, <2>6 DEF ServerChain
    <3>2. /\ pc'[SocketTask] = "end" /\ pc'[ConnectClient] = "accept" /\ pc'[RevFile] = "off"
          /\ \A u \in ClientTask : pc'[u] = "off"
      BY <1>c, <2>1, <2>2, <2>6, <3>1, CreatedIs, SuccessorIs, StartsAt DEF ServerChain
    <3>3. ~Active /\ ~Active' /\ Held = None /\ Held' = None
      BY <3>1, <3>2 DEF Active, Serving, Held
    <3>4. /\ at[ConnectClient] = "run" /\ on[ConnectClient] = None /\ at[RevFile] = "run"
          /\ Accepted = None /\ Accepted' = None
      BY <1>0, <2>1, <3>1, <3>2 DEF InCalls, CallAt, Accepted
    <3>5. ServerChain'
      BY <2>3, <3>2 DEF ServerChain, Rests, Serving
    <3>6. ServerSockets'
      BY <1>c, <2>1, <2>3, <3>2, <3>3, <3>4 DEF ServerSockets
    <3> QED BY <2>4, <2>5, <3>5, <3>6 DEF ServerShape
  <2>7. ASSUME t = ConnectClient PROVE ServerShape'
    <3>1. pc[RevFile] = "off"
      <4>1. pc[RevFile] \in {"off", "end"}
        BY <1>c, <2>1, <2>7 DEF ServerChain, Rests
      <4> QED BY <2>1, <2>7, <4>1, Turns
    <3>2. /\ pc'[RevFile] = "begin" /\ pc'[ConnectClient] = "end" /\ pc'[SocketTask] = pc[SocketTask]
          /\ \A u \in ClientTask : pc'[u] = "off"
      BY <1>c, <2>1, <2>2, <2>7, <3>1, CreatedIs, SuccessorIs, StartsAt DEF ServerChain
    <3>3. Active /\ Active' /\ Held' = Held
      <4>1. Active /\ Active'
        BY <2>1, <2>7, <3>2 DEF Active, Serving
      <4> QED BY <2>1, <3>1, <3>2, <4>1 DEF Held, ConnAt
    <3>4. at[RevFile] = "run" /\ Accepted = None /\ Accepted' = None
      BY <1>0, <2>1, <2>7, <3>1, <3>2 DEF InCalls, CallAt, Accepted
    <3>5. ServerChain'
      BY <1>c, <2>1, <2>3, <2>7, <3>1, <3>2 DEF ServerChain, Rests, Serving
    <3>6. ServerSockets'
      BY <1>c, <2>1, <2>3, <2>7, <3>2, <3>3, <3>4 DEF ServerSockets
    <3> QED BY <2>4, <2>5, <3>5, <3>6 DEF ServerShape
  <2> QED BY <2>1, <2>6, <2>7
<1>18. ASSUME NEW t \in Task, Ends(t) PROVE ServerShape'
  <2>1. /\ pc[t] = "end" /\ pc' = [pc EXCEPT ![t] = "off"] /\ MayRun(t) /\ fd' = [fd EXCEPT ![t] = 0]
        /\ UNCHANGED <<at, on, socks, sock_fd, sock_conn, state, pcb, box>>
    BY <1>18 DEF Ends, Goto, globals, connVars
  <2>2. t = ConnectClient => pc[RevFile] # "begin"
    BY <2>1, Turns
  <2>3. pc'[RevFile] \in Serving \ {"begin"} => fd'[RevFile] = sock_conn
    BY <1>0, <1>e, <2>1 DEF TaskTypes, Serving
  <2>4. /\ at' = [at EXCEPT ![t] = at[t]] /\ on' = [on EXCEPT ![t] = on[t]]
        /\ pc' = [pc EXCEPT ![t] = "off"] /\ pc[t] \notin {"off", "socket"}
    BY <1>f, <2>1
  <2>5. /\ \A d \in Conn : pcb'[d] = pcb[d] /\ box'[d] = box[d] /\ state'[d] = state[d]
        /\ UNCHANGED <<socks, sock_fd, sock_conn>>
    BY <2>1
  <2>6. pc[t] = "end"
    BY <2>1
  <2> QED BY <2>2, <2>3, <2>4, <2>5, <2>6, ServerStep
\* sys_arch_sem_wait
<1>19. ASSUME NEW t \in Task, Pends(t) PROVE ServerShape'
  <2>1. /\ at[t] = "posted" /\ on' = on /\ UNCHANGED <<pc, fd, socks, sock_fd, sock_conn, state, pcb, box>>
        /\ \E a \in {"back", "asleep"} : at' = [at EXCEPT ![t] = a]
    BY <1>19, PendsCounts DEF Pends, globals, connVars
  <2>2. PICK a \in {"back", "asleep"} : at' = [at EXCEPT ![t] = a]
    BY <2>1
  <2>3. pc[t] \notin {"off", "socket"}
    BY <1>0, <2>1 DEF InCalls, CallAt
  <2>4. pc' = [pc EXCEPT ![t] = pc[t]] /\ on' = [on EXCEPT ![t] = on[t]]
    BY <1>f, <2>1
  <2>5. at[t] \in Underway /\ a \in Underway
    BY <2>1 DEF Underway
  <2>6. /\ \A d \in Conn : pcb'[d] = pcb[d] /\ box'[d] = box[d] /\ state'[d] = state[d]
        /\ UNCHANGED <<socks, sock_fd, sock_conn>>
        /\ pc'[RevFile] \in Serving \ {"begin"} => fd'[RevFile] = sock_conn
    BY <1>e, <2>1
  <2> QED BY <2>2, <2>3, <2>4, <2>5, <2>6, ServerStep
\* The tasks of the client do not run.
<1>20. ASSUME NEW t \in Task, OpensClient(t) \/ Connects(t) \/ ConnectReturns(t) PROVE FALSE
  <2>1. MayRun(t) /\ t \in {InitTask, ConnectServer}
    BY <1>20 DEF OpensClient, Connects, ConnectReturns, Calls, Back
  <2> QED BY <1>d, <2>1
\* A step that changes nothing of it.
<1>s. ASSUME UNCHANGED <<pc, at, on, fd, socks, sock_fd, sock_conn, state, pcb, box>>
      PROVE  ServerShape'
  <2>2. Listening' = Listening /\ (Active' <=> Active) /\ Held' = Held /\ Accepted' = Accepted
    <3>1. Listening' = Listening /\ (Active' <=> Active)
      BY <1>s DEF Listening, Active
    <3> QED BY <1>s, <3>1 DEF Held, Accepted, ConnAt
  <2>3. \A c : IsPending(c)' <=> IsPending(c)
    BY <1>s, <2>2 DEF IsPending
  <2>4. ServerChain' /\ ServerFresh'
    BY <1>c, <1>s, <2>2 DEF ServerChain, ServerFresh, Rests
  <2>5. ServerListens' /\ ServerSockets'
    BY <1>c, <1>s, <2>2, <2>3 DEF ServerListens, ServerSockets
  <2> QED BY <2>4, <2>5 DEF ServerShape
\* Commands
<1>21. ASSUME OrderlyCommands PROVE ServerShape'
  <2>1. "client" \notin use /\ "talk" \notin use
    BY DEF UsesApart, IInv, TypeOK
  <2>2. Socket_init /\ (pc[SocketTask] = "off" => Listening = {})
    BY <1>21, <2>1 DEF OrderlyCommands, Command, Init_Client, Send_File_Name, Stop_Download,
       Pause_Download, Continue_Download
  <2>3. /\ pc' = Created(pc, SocketTask)
        /\ UNCHANGED <<at, on, fd, socks, sock_fd, sock_conn, state, pcb, box>>
    BY <2>2 DEF Socket_init, Command, globals, connVars
  <2>4. CASE pc' = pc
    BY <1>s, <2>3, <2>4
  <2>5. CASE pc' # pc
    <3>1. Listening = {}
      BY <2>2, <2>3, <2>5 DEF Created
    <3>2. /\ \A u \in Task : u # SocketTask => pc'[u] = pc[u]
          /\ pc'[SocketTask] = "socket" /\ pc[RevFile] = "off" /\ pc[ConnectClient] = "off"
      <4>1. pc[SocketTask] \in {"off", "socket"} /\ pc[RevFile] = "off" /\ pc[ConnectClient] = "off"
        BY <1>c, <3>1 DEF ServerFresh
      <4> QED BY <1>0, <2>3, <4>1, CreatedIs, StartsAt
    <3>3. Listening' = {} /\ \A d : ~IsPending(d) /\ ~IsPending(d)'
      BY <2>3, <3>1 DEF Listening, IsPending
    <3>4. ~Active /\ ~Active' /\ Held = None /\ Held' = None
      BY <3>2 DEF Active, Serving, Held
    <3>5. at[ConnectClient] = "run" /\ at[RevFile] = "run" /\ Accepted' = None
      BY <1>0, <3>2 DEF InCalls, CallAt, Accepted
    <3>6. ServerChain'
      BY <1>c, <3>2, <3>3 DEF ServerChain, Rests, Serving
    <3>7. ServerFresh' /\ ServerListens'
      BY <1>c, <2>3, <3>1, <3>2, <3>3 DEF ServerFresh, ServerListens
    <3>8. ServerSockets'
      BY <1>c, <2>3, <3>1, <3>2, <3>3, <3>4, <3>5 DEF ServerFresh, ServerSockets
    <3> QED BY <3>6, <3>7, <3>8 DEF ServerShape
  <2> QED BY <2>4, <2>5
\* TCP
<1>22. ASSUME PeerConnects PROVE ServerShape'
  <2>1. PICK l, n \in Conn :
          /\ l \in Listening /\ state[n] = "free" /\ n # l
          /\ state' = [state EXCEPT ![n] = "none"] /\ pcb' = [pcb EXCEPT ![n] = "open"]
          /\ box' = [box EXCEPT ![l] = Append(@, n)]
          /\ UNCHANGED <<taskVars, socks, globals>>
    BY <1>22, PeerConnectsDoes
  <2>2. UNCHANGED <<pc, at, on, fd, socks, sock_fd, sock_conn>>
    BY <2>1 DEF taskVars, globals
  <2>3. Listening = {l} /\ Listening' = {l} /\ pcb[n] # "listen"
    <3>1. Listening = {l}
      BY <1>c, <2>1
    <3>2. pcb[n] # "listen" /\ \A d \in Conn : pcb[d] = "listen" <=> d = l
      BY <2>1, <3>1 DEF Listening
    <3>3. Listening' = {l}
      BY <1>0, <2>1, <3>2 DEF Listening, ConnTypes
    <3> QED BY <3>1, <3>2, <3>3
  <2>4. /\ state'[n] = "none" /\ \A d \in Conn : d # n => state'[d] = state[d]
        /\ box'[l] = Append(box[l], n)
    BY <1>0, <2>1 DEF ConnTypes, BoxTypes
  <2>5. /\ box[l] \in Seq(Conn \cup {Data, Eof}) /\ Distinct(box[l]) /\ Elems(box[l]) \subseteq Conn
        /\ n \notin Elems(box[l])
    <3>1. IsPending(n) <=> n \in Elems(box[l])
      BY <2>3 DEF IsPending
    <3> QED BY <1>0, <1>c, <2>1, <3>1 DEF BoxTypes, ServerListens
  <2>6. Distinct(box'[l]) /\ Elems(box'[l]) = Elems(box[l]) \cup {n}
    <3>1. n \in Conn \cup {Data, Eof}
      OBVIOUS
    <3> QED BY <2>4, <2>5, <3>1, AppendElems
  <2>7. /\ \A c : IsPending(c) <=> c \in Elems(box[l])
        /\ \A c : IsPending(c)' <=> c \in Elems(box[l]) \/ c = n
    BY <2>3, <2>6 DEF IsPending
  <2>8. (Active' <=> Active) /\ Held' = Held /\ Accepted' = Accepted
    <3>1. Active' <=> Active
      BY <2>2 DEF Active
    <3> QED BY <2>2, <3>1 DEF Held, Accepted, ConnAt
  <2>9. \A u \in Task : on[u] # n
    <3>1. n # None
      BY <2>1 DEF Conn
    <3> QED BY <1>0, <2>1, <3>1 DEF Live
  <2>10. n # Held /\ n # Accepted
    <3>1. n # None
      BY <2>1 DEF Conn
    <3> QED BY <1>c, <2>1, <3>1 DEF ServerSockets
  <2>11. ServerChain' /\ ServerFresh'
    BY <1>c, <2>2, <2>3 DEF ServerChain, ServerFresh, Rests
  <2>12. ServerListens'
    <3>1. \A c \in Conn : c \in Elems(box[l]) => state[c] = "none" /\ \A u \in Task : on[u] # c
      BY <1>c, <2>7 DEF ServerListens
    <3>2. \A k \in Listening : state'[k] = state[k] /\ box'[k] = box'[l]
      BY <2>1, <2>3, <2>4
    <3>3. \A c \in Conn : state'[c] = "listen" => c \in Listening
      BY <1>c, <2>4 DEF ServerListens
    <3>4. \A c \in Conn : IsPending(c)' => state'[c] = "none" /\ \A u \in Task : on[u] # c
      BY <2>4, <2>7, <2>9, <3>1
    <3>5. Distinct(box'[l]) /\ Elems(box'[l]) \subseteq Conn
      BY <2>5, <2>6
    <3> QED BY <1>c, <2>2, <2>3, <3>2, <3>3, <3>4, <3>5 DEF ServerListens
  <2>13. ServerSockets'
    <3>1. \A c \in Conn : state'[c] # "free" => c \in Listening \/ IsPending(c)' \/ c = Held \/ c = Accepted
      BY <1>c, <2>4, <2>7 DEF ServerSockets
    <3>2. \A h \in Conn : h = Held => state'[h] \in {"none", "write", "close"} /\ ~IsPending(h)'
      <4>1. \A h \in Conn : h = Held => /\ h # None /\ h # n /\ h \notin Elems(box[l])
                                        /\ state[h] \in {"none", "write", "close"}
        BY <1>c, <2>7, <2>10 DEF ServerSockets, Conn
      <4> QED BY <2>4, <2>7, <4>1
    <3>3. Accepted # None => state'[Accepted] \in {"none", "close"}
      BY <1>c, <2>4, <2>10 DEF ServerSockets
    <3> QED BY <1>c, <2>2, <2>3, <2>8, <3>1, <3>2, <3>3 DEF ServerSockets
  <2> QED BY <2>11, <2>12, <2>13 DEF ServerShape
<1>23. ASSUME NEW c \in Conn, DataArrives(c) \/ FinArrives(c) PROVE ServerShape'
  <2>1. /\ pcb[c] = "open" /\ UNCHANGED <<pc, at, on, fd, socks, sock_fd, sock_conn, state>>
        /\ \E e \in {Data, Eof} : box' = [box EXCEPT ![c] = Append(@, e)]
        /\ pcb' = pcb \/ pcb' = [pcb EXCEPT ![c] = "fin"]
    BY <1>23 DEF DataArrives, FinArrives, taskVars, globals
  <2>2. Listening # {}
    BY <1>0, <1>c, <2>1 DEF ServerFresh, FreedIsClean
  <2>3. \A d \in Conn : /\ pcb'[d] = "listen" <=> pcb[d] = "listen"
                        /\ pcb[d] = "listen" => box'[d] = box[d]
                        /\ state'[d] = state[d]
    BY <1>0, <2>1 DEF ConnTypes, BoxTypes
  <2>4. /\ \A u \in Task : pc'[u] = pc[u] /\ at'[u] = at[u] /\ on'[u] = on[u]
        /\ UNCHANGED <<socks, sock_fd, sock_conn>>
        /\ pc'[RevFile] \in Serving \ {"begin"} => fd'[RevFile] = sock_conn
    BY <1>e, <2>1
  <2> QED BY <1>0, <2>2, <2>3, <2>4, ServerSame
\* Who is in a call of the server is on the netconn that it holds or accepted.
<1>g. ASSUME NEW c \in Conn, pcb[c] # "null" \/ state[c] \in {"connect", "write", "close"}
      PROVE  /\ Listening # {} /\ state[c] # "connect"
             /\ state[c] \in {"write", "close"} => c = Held \/ c = Accepted
  <2>1. state[c] # "free"
    BY <1>0, <1>g DEF FreedIsClean
  <2>2. Listening # {}
    BY <1>c, <2>1 DEF ServerFresh
  <2>3. state[c] \in {"connect", "write", "close"} => c = Held \/ c = Accepted
    BY <1>c, <2>1 DEF ServerSockets, ServerListens
  <2>4. state[c] # "connect"
    <3>1. c # None
      BY DEF Conn
    <3> QED BY <1>c, <2>3, <3>1 DEF ServerSockets
  <2> QED BY <2>2, <2>3, <2>4
<1>24. ASSUME NEW c \in Conn, UNCHANGED <<pc, fd, socks, sock_fd, sock_conn, on>>,
              pcb[c] # "null" \/ state[c] \in {"connect", "write", "close"},
              pcb[c] # "listen", \E p : p # "listen" /\ (pcb' = pcb \/ pcb' = [pcb EXCEPT ![c] = p]),
              \A d \in Conn : pcb[d] = "listen" => box'[d] = box[d],
              \/ Told(c) /\ cur[c] \in Task /\ state[c] \in {"connect", "write", "close"}
              \/ at' = at /\ state' = state
       PROVE  ServerShape'
  <2>1. /\ Listening # {} /\ state[c] # "connect"
        /\ state[c] \in {"write", "close"} => c = Held \/ c = Accepted
    BY <1>24, <1>g
  <2>2. \A d \in Conn : pcb'[d] = "listen" <=> pcb[d] = "listen"
    BY <1>0, <1>24 DEF ConnTypes
  <2>3. \A d \in Conn : \/ state'[d] = state[d]
                        \/ d = Held /\ state'[d] \in {"none", "write", "close"}
                        \/ d = Accepted /\ state'[d] \in {"none", "close"}
    BY <1>0, <1>24, <2>1 DEF Told, ConnTypes
  <2>4. \A u \in Task : at'[u] = at[u] \/ (at[u] \in Underway /\ at'[u] \in Underway)
    BY <1>0, <1>24 DEF Told, Underway
  <2>5. /\ \A u \in Task : pc'[u] = pc[u] /\ on'[u] = on[u]
        /\ UNCHANGED <<socks, sock_fd, sock_conn>>
        /\ pc'[RevFile] \in Serving \ {"begin"} => fd'[RevFile] = sock_conn
        /\ \A d \in Conn : pcb[d] = "listen" => box'[d] = box[d]
    BY <1>e, <1>24
  <2> QED BY <1>0, <2>1, <2>2, <2>3, <2>4, <2>5, ServerSame
<1>25. ASSUME NEW c \in Conn, Aborts(c) PROVE ServerShape'
  <2>1. /\ pcb[c] \in {"syn", "open", "fin"} /\ pcb' = [pcb EXCEPT ![c] = "null"] /\ on' = on
        /\ box' = box \/ \E d \in Strays : box' = [box EXCEPT ![d] = Append(@, Eof)]
        /\ UNCHANGED <<pc, fd, socks, sock_fd, sock_conn>>
        /\ state[c] \in {"none", "connect", "write", "close"}
        /\ \/ Told(c) /\ cur[c] \in Task /\ cur[c] # None
           \/ at' = at /\ state' = state
    BY <1>25, AbortsDoes DEF globals
  <2>2. \A d \in Conn : pcb[d] = "listen" => box'[d] = box[d]
    BY <1>0, <2>1 DEF BoxTypes, Strays
  <2>3. "null" # "listen" /\ (pcb' = pcb \/ pcb' = [pcb EXCEPT ![c] = "null"])
    BY <2>1
  <2>4. cur[c] # None => state[c] \in {"connect", "write", "close"}
    BY <2>1 DEF IInv, CallInv, Open
  <2> QED BY <1>24, <2>1, <2>2, <2>3, <2>4
<1>26. ASSUME NEW c \in Conn, Established(c) \/ WriteDone(c) \/ CloseDone(c) PROVE ServerShape'
  <2>1. /\ Told(c) /\ cur[c] \in Task /\ state[c] \in {"connect", "write", "close"} /\ on' = on
        /\ UNCHANGED <<pc, fd, socks, sock_fd, sock_conn, box>>
        /\ pcb' = pcb \/ pcb' = [pcb EXCEPT ![c] = "open"] \/ pcb' = [pcb EXCEPT ![c] = "null"]
    BY <1>26, CompletedDoes DEF globals, Told
  <2>2. pcb[c] # "listen"
    BY <1>c, <2>1 DEF ServerListens, Listening
  <2>3. PICK p \in {"open", "null"} : pcb' = pcb \/ pcb' = [pcb EXCEPT ![c] = p]
    BY <2>1
  <2>4. p # "listen"
    OBVIOUS
  <2> QED BY <1>24, <2>1, <2>2, <2>3, <2>4
<1>27. ASSUME UNCHANGED vars PROVE ServerShape'
  BY <1>s, <1>27 DEF vars, taskVars, globals, connVars
<1> QED
  <2>1. ASSUME NEW t \in Task, TaskStep(t) PROVE ServerShape'
    BY <2>1, <1>1, <1>2, <1>3, <1>4, <1>6, <1>7, <1>8, <1>9, <1>10, <1>11, <1>12, <1>13, <1>14,
       <1>15, <1>16, <1>17, <1>18, <1>19, <1>20
       DEF TaskStep
  <2> QED BY <1>21, <1>22, <1>23, <1>25, <1>26, <1>27, <2>1 DEF OrderlyNext, Peer, Timers

-----------------------------------------------------------------------------
(* The client                                                              *)

\* What the board is used for does not change.
LEMMA UseKept == ASSUME [OrderlyNext]_vars PROVE use' = use
<1>1. ASSUME NEW t \in Task, TaskStep(t) PROVE use' = use
  <2>1. ASSUME Begins(t) \/ RecvRefused(t) \/ RecvWaits(t) \/ Fetches(t) \/ RecvReturns(t)
               \/ Writes(t) \/ SendReturns(t)
        PROVE  use' = use
    BY <2>1 DEF Begins, RecvRefused, RecvWaits, Fetches, RecvReturns, Writes, SendReturns, budget
  <2>2. ASSUME CloseRefused(t) \/ Closes(t) \/ CloseFrees(t) \/ CloseReturns(t) PROVE use' = use
    BY <2>2 DEF CloseRefused, Closes, CloseFrees, CloseReturns, budget
  <2>3. ASSUME OpensListener(t) \/ EntersAccept(t) \/ Accepts(t) \/ AcceptReturns(t) \/ Drops(t)
        PROVE  use' = use
    BY <2>3 DEF OpensListener, EntersAccept, Accepts, AcceptReturns, Drops, budget
  <2>4. ASSUME SetsOptions(t) \/ OptionsSet(t) \/ Spawns(t) \/ OpensClient(t) \/ Connects(t)
               \/ ConnectReturns(t) \/ Pends(t) \/ Ends(t)
        PROVE  use' = use
    BY <2>4 DEF SetsOptions, OptionsSet, Spawns, OpensClient, Connects, ConnectReturns, Pends,
       Ends, budget
  <2> QED BY <1>1, <2>1, <2>2, <2>3, <2>4 DEF TaskStep
<1>2. ASSUME OrderlyCommands PROVE use' = use
  BY <1>2 DEF OrderlyCommands, Command, Socket_init, Init_Client, Send_File_Name, Stop_Download,
     Pause_Download, Continue_Download
<1>3. ASSUME Peer PROVE use' = use
  BY <1>3 DEF Peer, PeerConnects, DataArrives, FinArrives, Aborts, budget
<1>4. ASSUME Timers PROVE use' = use
  BY <1>4 DEF Timers, Established, WriteDone, CloseDone, Completed, budget
<1>5. ASSUME UNCHANGED vars PROVE use' = use
  BY <1>5 DEF vars, budget
<1> QED BY <1>1, <1>2, <1>3, <1>4, <1>5 DEF OrderlyNext

\* What a board that is the client has.
LEMMA ClientIs ==
    ASSUME IInv, "client" \in use
    PROVE  /\ ClientChain /\ ClientSockets /\ Listening = {}
           /\ HasConn => /\ sock_connect \in Fd /\ socks[sock_connect] \in Conn
                         /\ ~Closing => state[socks[sock_connect]] # "free"
<1>1. ClientChain /\ ClientSockets
  BY DEF IInv, Shape, ClientShape
<1>2. Listening = {}
  BY <1>1 DEF ClientSockets, Listening
<1>3. socks \in [Fd -> Conn \cup {None}]
  BY TypeParts DEF IInv, AllTypes, SockTypes
<1>4. ASSUME HasConn
      PROVE  /\ sock_connect \in Fd /\ socks[sock_connect] \in Conn
             /\ ~Closing => state[socks[sock_connect]] # "free"
  BY <1>1, <1>3, <1>4 DEF ClientSockets
<1> QED BY <1>1, <1>2, <1>4

\* A step of the client that opens and closes nothing: task t goes on to l.
LEMMA ClientSame ==
    ASSUME IInv, "client" \in use, use' = use, UNCHANGED <<socks, sock_connect>>,
           NEW t \in Task, NEW l, pc' = [pc EXCEPT ![t] = l],
           \/ l = pc[t]
           \/ t \in Talkers /\ pc[t] # "off" /\ l = "end"
           \/ t = RevServer /\ {pc[t], l} \subseteq {"recv", "more", "answer", "close"}
           \/ t = ConnectServer /\ {pc[t], l} \subseteq {"connect", "opts", "spawn", "close"}
           \/ t = InitTask /\ pc[t] = "close" /\ l = "socket"
           \/ pc[t] = "end" /\ l = "off",
           \A d \in Conn : /\ pcb'[d] # "listen" /\ state'[d] # "listen"
                           /\ state'[d] = "free" <=> state[d] = "free"
                           /\ state'[d] = "connect" => state[d] = "connect" \/ NoTalk,
           \A u \in Task :
              pc'[u] = "closed" \/ (pc'[u] = "close" /\ at'[u] # "run") =>
                 \/ /\ fd'[u] = fd[u] /\ pc[u] = pc'[u]
                    /\ pc[u] = "close" => at[u] # "run"
                 \/ fd'[u] = sock_connect
    PROVE  ClientShape'
<1>1. ClientChain /\ ClientSockets /\ pc \in [Task -> Label]
  BY ClientIs, TypeParts DEF IInv, AllTypes, TaskTypes
<1>2. pc'[t] = l /\ \A u \in Task : u # t => pc'[u] = pc[u]
  BY <1>1
<1>3. t \in ClientTask \/ l = pc[t]
  BY <1>1 DEF ClientChain
<1>4. (HasConn' <=> HasConn) /\ (Closing' <=> Closing)
  <2>1. pc'[InitTask] = "spawn" <=> pc[InitTask] = "spawn"
    BY <1>2
  <2>2. /\ pc'[ConnectServer] \in {"connect", "opts", "spawn", "close", "closed"}
             <=> pc[ConnectServer] \in {"connect", "opts", "spawn", "close", "closed"}
        /\ pc'[ConnectServer] = "closed" <=> pc[ConnectServer] = "closed"
    BY <1>2
  <2>3. /\ pc'[RevServer] \in {"recv", "more", "answer", "close", "closed"}
             <=> pc[RevServer] \in {"recv", "more", "answer", "close", "closed"}
        /\ pc'[RevServer] = "closed" <=> pc[RevServer] = "closed"
    BY <1>2
  <2> QED BY <2>1, <2>2, <2>3 DEF HasConn, Closing
<1>5. ClientChain'
  <2>1. \A u \in Task \ ClientTask : pc'[u] = "off"
    BY <1>1, <1>2, <1>3 DEF ClientChain
  <2>2. \A u \in Task : Rests(u) => Rests(u)'
    BY <1>2 DEF Rests
  <2>3. \A u \in Task : pc[u] = "off" => pc'[u] = "off"
    BY <1>2
  <2>4. \A u \in Talkers : pc'[u] # "off" => pc[u] # "off"
    BY <1>2
  <2>5. ASSUME NEW u \in Talkers, pc'[u] # "off" PROVE "talk" \in use' /\ ~Closing' /\ NoSyn'
    <3>1. "talk" \in use /\ ~Closing /\ NoSyn /\ ~NoTalk
      BY <1>1, <2>4, <2>5 DEF ClientChain, NoTalk
    <3> QED BY <1>4, <3>1 DEF NoSyn
  <2> QED BY <1>1, <2>1, <2>2, <2>3, <2>5 DEF ClientChain
<1>6. ClientSockets'
  <2>1. \A u \in Task :
          pc'[u] = "closed" \/ (pc'[u] = "close" /\ at'[u] # "run") => fd'[u] = sock_connect'
    BY <1>1 DEF ClientSockets
  <2>2. \A c \in Conn : state'[c] # "free" <=> HasConn' /\ ~Closing' /\ c = socks'[sock_connect']
    BY <1>1, <1>4 DEF ClientSockets
  <2> QED BY <1>1, <1>4, <2>1, <2>2 DEF ClientSockets
<1> QED BY <1>5, <1>6 DEF ClientShape

\* Every step of a client keeps its one netconn with the task whose turn it is.
LEMMA ClientKept ==
    ASSUME IInv, UsesApart, SocketTasksAssumption, [OrderlyNext]_vars, "client" \in use,
           InCalls', TypeOK'
    PROVE  ClientShape'
<1>0. /\ TaskTypes /\ SockTypes /\ ConnTypes /\ InCalls /\ Live /\ Places
      /\ pc \in [Task -> Label] /\ fd \in [Task -> Fd \cup {-1}]
      /\ at \in [Task -> {"run", "fetch", "posted", "asleep", "back"}]
      /\ on \in [Task -> Conn \cup {None}] /\ use \in Uses
  BY TypeParts DEF IInv, AllTypes, CallTypes, TaskTypes, BudgetTypes, CallInv
<1>c. /\ ClientChain /\ ClientSockets /\ Listening = {}
      /\ HasConn => /\ sock_connect \in Fd /\ socks[sock_connect] \in Conn
                    /\ ~Closing => state[socks[sock_connect]] # "free"
  BY ClientIs
<1>u. use' = use
  BY UseKept
\* The tasks of the client.
<1>d. ASSUME NEW t \in Task, MayRun(t) \/ pc[t] # "off"
      PROVE  /\ t \in ClientTask /\ pc[t] # "off"
             /\ MayRun(t) /\ t \notin Talkers => NoTalk
             /\ pc[t] \in {"close", "closed"} /\ t # InitTask =>
                  HasConn /\ t \in {RevServer, ConnectServer}
  <2>1. t \in ClientTask /\ pc[t] # "off"
    BY <1>c, <1>d DEF ClientChain, MayRun, Ready
  <2>2. MayRun(t) /\ t \notin Talkers => NoTalk
    BY <2>1, Turns DEF NoTalk
  <2>3. pc[t] \in {"close", "closed"} /\ t # InitTask => t \in {RevServer, ConnectServer}
    BY <1>0, <2>1 DEF Places, MayBe
  <2> QED BY <2>1, <2>2, <2>3 DEF HasConn
<1>e. \A d \in Conn : pcb[d] # "listen" /\ state[d] # "listen"
  BY <1>c DEF ClientSockets
\* A step that does not touch what the lemma asks of the netconns and of fd.
<1>f. ASSUME NEW t \in Task, NEW l, pc' = [pc EXCEPT ![t] = l], NEW a, at' = [at EXCEPT ![t] = a],
             fd' = fd,
             l = "closed" \/ (l = "close" /\ a # "run") =>
                pc[t] = l /\ (pc[t] = "close" => at[t] # "run")
      PROVE  \A u \in Task :
               pc'[u] = "closed" \/ (pc'[u] = "close" /\ at'[u] # "run") =>
                  \/ /\ fd'[u] = fd[u] /\ pc[u] = pc'[u]
                     /\ pc[u] = "close" => at[u] # "run"
                  \/ fd'[u] = sock_connect
  <2>1. pc'[t] = l /\ at'[t] = a /\ \A u \in Task : u # t => pc'[u] = pc[u] /\ at'[u] = at[u]
    BY <1>0, <1>f
  <2> QED BY <1>f, <2>1
<1>g. \A t \in Task : /\ at = [at EXCEPT ![t] = at[t]] /\ pc = [pc EXCEPT ![t] = pc[t]]
  BY <1>0
\* Receiving and sending
<1>1. ASSUME NEW t \in Task, RecvRefused(t) \/ RecvReturns(t) \/ SendReturns(t) PROVE ClientShape'
  <2>1. /\ MayRun(t) /\ UNCHANGED <<fd, socks, sock_connect, pcb, state>>
        /\ \E l \in {"recv", "more", "answer", "close", "end"} :
             /\ pc' = [pc EXCEPT ![t] = l]
             /\ \/ t = RevServer /\ {pc[t], l} \subseteq {"recv", "more", "answer", "close"}
                \/ t \in Talkers /\ pc[t] # "off" /\ l = "end"
    <3>1. MayRun(t) /\ UNCHANGED <<fd, socks, sock_connect, pcb, state>>
      BY <1>1 DEF RecvRefused, RecvReturns, SendReturns, Back, globals, connVars
    <3>2. t \in ClientTask
      BY <1>d, <3>1
    <3>3. t \in Receivers \/ pc[t] \in {"answer", "send"}
      BY <1>1 DEF RecvRefused, RecvReturns, SendReturns, Receiving, Sends
    <3>4. t = RevServer \/ t \in Talkers
      BY <1>0, <3>2, <3>3 DEF Places, MayBe
    <3>5. ASSUME t = RevServer PROVE AfterSend(t) = {"recv", "close"} /\ pc[t] # "send"
      BY <1>0, <3>5 DEF AfterSend, Places, MayBe
    <3>6. ASSUME t \in Talkers
          PROVE  AfterSend(t) = {"end"} /\ pc[t] \notin {"recv", "more", "answer"}
      <4>1. t # RevFile /\ t # RevServer
        BY <3>6
      <4>2. AfterSend(t) = {"end"}
        BY <4>1, Zenon DEF AfterSend
      <4> QED BY <1>0, <3>6, <4>2 DEF Places, MayBe
    <3>7. CASE t = RevServer
      BY <1>1, <3>1, <3>5, <3>7
         DEF RecvRefused, RecvReturns, SendReturns, Receiving, Sends, AfterError, AfterData, Goto
    <3>8. CASE t \in Talkers
      BY <1>1, <3>1, <3>6, <3>8
         DEF RecvRefused, RecvReturns, SendReturns, Receiving, Sends, AfterError, AfterData, Goto
    <3> QED BY <3>4, <3>7, <3>8
  <2>2. PICK l \in {"recv", "more", "answer", "close", "end"} :
             /\ pc' = [pc EXCEPT ![t] = l]
             /\ \/ t = RevServer /\ {pc[t], l} \subseteq {"recv", "more", "answer", "close"}
                \/ t \in Talkers /\ pc[t] # "off" /\ l = "end"
    BY <2>1
  <2>3. at' = [at EXCEPT ![t] = "run"]
    BY <1>1, <1>g DEF RecvRefused, RecvReturns, SendReturns, Running
  <2>4. \A u \in Task :
               pc'[u] = "closed" \/ (pc'[u] = "close" /\ at'[u] # "run") =>
                  \/ /\ fd'[u] = fd[u] /\ pc[u] = pc'[u]
                     /\ pc[u] = "close" => at[u] # "run"
                  \/ fd'[u] = sock_connect
    BY <1>f, <2>1, <2>2, <2>3
  <2>5. /\ UNCHANGED <<socks, sock_connect>>
        /\ \A d \in Conn : /\ pcb'[d] # "listen" /\ state'[d] # "listen"
                           /\ state'[d] = "free" <=> state[d] = "free"
                           /\ state'[d] = "connect" => state[d] = "connect" \/ NoTalk
    BY <1>e, <2>1
  <2> QED BY <1>u, <2>2, <2>4, <2>5, ClientSame
<1>2. ASSUME NEW t \in Task, RecvWaits(t) \/ Fetches(t) \/ Pends(t) PROVE ClientShape'
  <2>1. UNCHANGED <<pc, fd, socks, sock_connect, pcb, state>>
    BY <1>2 DEF RecvWaits, Fetches, Pends, globals, connVars
  <2>2. PICK a : /\ at' = [at EXCEPT ![t] = a]
                 /\ pc[t] = "closed" \/ (pc[t] = "close" /\ a # "run") => at[t] # "run"
    <3>1. ASSUME RecvWaits(t)
          PROVE  at' = [at EXCEPT ![t] = "fetch"] /\ pc[t] \in {"recv", "more"}
      BY <3>1 DEF RecvWaits, Receiving
    <3>2. ASSUME Fetches(t)
          PROVE  at' = [at EXCEPT ![t] = "posted"] /\ pc[t] \in {"recv", "more"}
      BY <3>2, FetchesDoes DEF Answered
    <3>3. ASSUME Pends(t)
          PROVE  /\ at' = [at EXCEPT ![t] = "back"] \/ at' = [at EXCEPT ![t] = "asleep"]
                 /\ at[t] = "posted"
      BY <3>3, PendsCounts DEF Pends
    <3> QED BY <1>2, <3>1, <3>2, <3>3
  <2>3. pc' = [pc EXCEPT ![t] = pc[t]]
    BY <1>g, <2>1
  <2>4. pc[t] = "closed" => at[t] = "run"
    BY <1>0 DEF InCalls, CallAt
  <2>5. \A u \in Task :
               pc'[u] = "closed" \/ (pc'[u] = "close" /\ at'[u] # "run") =>
                  \/ /\ fd'[u] = fd[u] /\ pc[u] = pc'[u]
                     /\ pc[u] = "close" => at[u] # "run"
                  \/ fd'[u] = sock_connect
    BY <1>f, <2>1, <2>2, <2>3
  <2>6. /\ UNCHANGED <<socks, sock_connect>>
        /\ \A d \in Conn : /\ pcb'[d] # "listen" /\ state'[d] # "listen"
                           /\ state'[d] = "free" <=> state[d] = "free"
                           /\ state'[d] = "connect" => state[d] = "connect" \/ NoTalk
    BY <1>e, <2>1
  <2> QED BY <1>u, <2>3, <2>5, <2>6, ClientSame
<1>3. ASSUME NEW t \in Task, Writes(t) PROVE ClientShape'
  <2>1. /\ MayRun(t) /\ at[t] = "run" /\ UNCHANGED <<fd, socks, sock_connect, pcb>>
        /\ pc[t] \in {"answer", "send"} /\ t \in ClientTask
    BY <1>3, <1>d DEF Writes, Sends, globals
  <2>2. t = RevServer \/ t \in Talkers
    BY <1>0, <2>1 DEF Places, MayBe
  <2>3. ASSUME ConnAt(SocketOf(t)) = None PROVE ClientShape'
    <3>1. PICK l \in AfterSend(t) : pc' = [pc EXCEPT ![t] = l]
      BY <1>3, <2>3 DEF Writes, Goto
    <3>2. /\ t = RevServer => {pc[t], l} \subseteq {"recv", "more", "answer", "close"}
          /\ t \in Talkers => pc[t] # "off" /\ l = "end"
      <4>1. t = RevServer => AfterSend(t) = {"recv", "close"} /\ pc[t] # "send"
        BY <1>0 DEF AfterSend, Places, MayBe
      <4>2. ASSUME t \in Talkers PROVE AfterSend(t) = {"end"}
        <5>1. t # RevFile /\ t # RevServer
          BY <4>2
        <5> QED BY <5>1, Zenon DEF AfterSend
      <4> QED BY <2>1, <4>1, <4>2
    <3>3. at' = [at EXCEPT ![t] = "run"] /\ state' = state
      BY <1>3, <1>g, <2>1, <2>3 DEF Writes
    <3>4. l # "closed"
      BY <2>2, <3>2
    <3>5. \A u \in Task :
               pc'[u] = "closed" \/ (pc'[u] = "close" /\ at'[u] # "run") =>
                  \/ /\ fd'[u] = fd[u] /\ pc[u] = pc'[u]
                     /\ pc[u] = "close" => at[u] # "run"
                  \/ fd'[u] = sock_connect
      BY <1>f, <2>1, <3>1, <3>3, <3>4
    <3>6. /\ UNCHANGED <<socks, sock_connect>>
          /\ \A d \in Conn : /\ pcb'[d] # "listen" /\ state'[d] # "listen"
                             /\ state'[d] = "free" <=> state[d] = "free"
                             /\ state'[d] = "connect" => state[d] = "connect" \/ NoTalk
      BY <1>e, <2>1, <3>3
    <3> QED BY <1>u, <2>2, <3>1, <3>2, <3>5, <3>6, ClientSame
  <2>4. ASSUME ConnAt(SocketOf(t)) # None PROVE ClientShape'
    <3>1. PICK c \in Conn :
            /\ c = ConnAt(SocketOf(t)) /\ state[c] = "none" /\ pc' = pc
            /\ at' = [at EXCEPT ![t] = "posted"]
            /\ state' = state \/ state' = [state EXCEPT ![c] = "write"]
      BY <1>3, <2>4, WritesDoes DEF Answered, LeftOpen
    <3>2. pc' = [pc EXCEPT ![t] = pc[t]]
      BY <1>g, <3>1
    <3>3. pc[t] \notin {"close", "closed"}
      BY <2>1
    <3>4. \A u \in Task :
               pc'[u] = "closed" \/ (pc'[u] = "close" /\ at'[u] # "run") =>
                  \/ /\ fd'[u] = fd[u] /\ pc[u] = pc'[u]
                     /\ pc[u] = "close" => at[u] # "run"
                  \/ fd'[u] = sock_connect
      BY <1>f, <2>1, <3>1, <3>2, <3>3
    <3>5. /\ UNCHANGED <<socks, sock_connect>>
          /\ \A d \in Conn : /\ pcb'[d] # "listen" /\ state'[d] # "listen"
                             /\ state'[d] = "free" <=> state[d] = "free"
                             /\ state'[d] = "connect" => state[d] = "connect" \/ NoTalk
      BY <1>0, <1>e, <2>1, <3>1 DEF ConnTypes
    <3> QED BY <1>u, <3>2, <3>4, <3>5, ClientSame
  <2> QED BY <2>3, <2>4
\* Closing: free_socket after netconn_delete.
<1>4. ASSUME NEW t \in Task, CloseRefused(t) PROVE ClientShape'
  <2>1. /\ Calls(t, "close") /\ MayRun(t) /\ at[t] = "run" /\ pc[t] = "close"
        /\ ConnAt(SocketOf(t)) = None /\ pc' = Closed(t)
        /\ UNCHANGED <<at, fd, socks, sock_connect, pcb, state>>
    BY <1>4 DEF CloseRefused, Calls, globals, connVars
  <2>2. t = InitTask
    <3> SUFFICES ASSUME t # InitTask PROVE FALSE
      OBVIOUS
    <3>1. HasConn /\ t \in {RevServer, ConnectServer}
      BY <1>d, <2>1
    <3>2. sock_connect \in Fd /\ socks[sock_connect] # None
      BY <1>c, <3>1 DEF ClientSockets
    <3> QED BY <2>1, <3>1, <3>2 DEF ConnAt, SocketOf
  <2>3. pc' = [pc EXCEPT ![t] = "socket"]
    BY <2>1, <2>2, ClosedIs DEF Goto
  <2>4. at' = [at EXCEPT ![t] = "run"]
    BY <1>g, <2>1
  <2>5. \A u \in Task :
               pc'[u] = "closed" \/ (pc'[u] = "close" /\ at'[u] # "run") =>
                  \/ /\ fd'[u] = fd[u] /\ pc[u] = pc'[u]
                     /\ pc[u] = "close" => at[u] # "run"
                  \/ fd'[u] = sock_connect
    BY <1>f, <2>1, <2>3, <2>4
  <2>6. /\ UNCHANGED <<socks, sock_connect>>
        /\ \A d \in Conn : /\ pcb'[d] # "listen" /\ state'[d] # "listen"
                           /\ state'[d] = "free" <=> state[d] = "free"
                           /\ state'[d] = "connect" => state[d] = "connect" \/ NoTalk
    BY <1>e, <2>1
  <2>7. t = InitTask /\ pc[t] = "close"
    BY <2>1, <2>2
  <2> QED BY <1>u, <2>3, <2>5, <2>6, <2>7, ClientSame
<1>5. ASSUME NEW t \in Task, Closes(t) PROVE ClientShape'
  <2>1. PICK c \in Conn :
          /\ c = ConnAt(SocketOf(t)) /\ at[t] = "run" /\ pc[t] = "close" /\ t # InitTask
          /\ state[c] = "none" /\ Emptied(t, c)
    BY <1>5, ClosesDoes
  <2>2. t \in {RevServer, ConnectServer}
    BY <1>d, <2>1
  <2>3. /\ UNCHANGED <<pc, socks, sock_connect>> /\ fd' = [fd EXCEPT ![t] = sock_connect]
    <3>1. SocketOf(t) = sock_connect
      BY <2>2 DEF SocketOf
    <3>2. UNCHANGED <<pc, socks, globals>> /\ fd' = [fd EXCEPT ![t] = SocketOf(t)]
      BY <1>5 DEF Closes
    <3> QED BY <3>1, <3>2 DEF globals
  <2>4. /\ at' = [at EXCEPT ![t] = "posted"]
        /\ \A d \in Conn : /\ pcb'[d] # "listen" /\ state'[d] # "listen"
                           /\ state'[d] = "free" <=> state[d] = "free"
                           /\ state'[d] = "connect" => state[d] = "connect" \/ NoTalk
    BY <1>0, <1>e, <2>1 DEF Emptied, Answered, LeftOpen, ConnTypes
  <2>5. /\ fd'[t] = sock_connect
        /\ \A u \in Task : u # t => fd'[u] = fd[u] /\ at'[u] = at[u]
    BY <1>0, <2>3, <2>4
  <2>6. \A u \in Task :
               pc'[u] = "closed" \/ (pc'[u] = "close" /\ at'[u] # "run") =>
                  \/ /\ fd'[u] = fd[u] /\ pc[u] = pc'[u]
                     /\ pc[u] = "close" => at[u] # "run"
                  \/ fd'[u] = sock_connect
    BY <2>3, <2>5
  <2>7. pc' = [pc EXCEPT ![t] = pc[t]] /\ UNCHANGED <<socks, sock_connect>>
    BY <1>g, <2>3
  <2> QED BY <1>u, <2>4, <2>6, <2>7, ClientSame
\* Where the client's chain leads from a step of the task that works.
<1>h. ASSUME NEW t \in {RevServer, ConnectServer, InitTask}, ~Rests(t), NEW l, pc' = [pc EXCEPT ![t] = l],
             NoTalk
      PROVE  ClientChain' /\ \A u \in {RevServer, ConnectServer, InitTask} \ {t} : Rests(u) /\ Rests(u)'
  <2>1. pc'[t] = l /\ \A u \in Task : u # t => pc'[u] = pc[u]
    BY <1>0, <1>h
  <2>2. \A u \in {RevServer, ConnectServer, InitTask} \ {t} : Rests(u) /\ Rests(u)'
    BY <1>c, <1>h, <2>1 DEF ClientChain, Rests
  <2>3. \A u \in Talkers : pc'[u] = "off"
    BY <1>h, <2>1 DEF NoTalk
  <2>4. \A u \in Task \ ClientTask : pc'[u] = "off"
    BY <1>c, <1>h, <2>1 DEF ClientChain
  <2>5. /\ ~Rests(InitTask)' => pc'[ConnectServer] = "off" /\ pc'[RevServer] = "off"
        /\ ~Rests(ConnectServer)' => pc'[RevServer] = "off"
    BY <1>c, <1>h, <2>1, <2>2 DEF ClientChain, Rests
  <2> QED BY <2>2, <2>3, <2>4, <2>5 DEF ClientChain, Rests
<1>6. ASSUME NEW t \in Task, CloseFrees(t) PROVE ClientShape'
  <2>1. MayRun(t) /\ pc[t] = "close" /\ at[t] = "back" /\ t # InitTask
    BY <1>0, <1>6 DEF CloseFrees, Back, InCalls, CallAt
  <2>2. t \in {RevServer, ConnectServer} /\ HasConn /\ NoTalk
    BY <1>d, <2>1
  <2>3. /\ Ended(t) /\ state' = [state EXCEPT ![on[t]] = "free"] /\ pcb' = pcb /\ on[t] \in Conn
    BY <1>6, FreesDoes
  <2>4. pc' = [pc EXCEPT ![t] = "closed"] /\ UNCHANGED <<socks, sock_connect, fd>>
    BY <1>6 DEF CloseFrees, Goto, globals
  <2>5. ~Rests(t) /\ on[t] # None
    BY <2>1, <2>3 DEF Rests, Conn
  <2>6. on[t] = socks[sock_connect] /\ fd[t] = sock_connect
    <3>1. state[on[t]] # "free"
      BY <1>0, <2>5 DEF Live
    <3> QED BY <1>c, <2>1, <2>3, <3>1 DEF ClientSockets
  <2>7. /\ pc'[t] = "closed" /\ at'[t] = "run"
        /\ \A u \in Task : u # t => pc'[u] = pc[u] /\ at'[u] = at[u]
        /\ \A d \in Conn : d # on[t] => state'[d] = state[d]
        /\ state'[on[t]] = "free"
    BY <1>0, <2>3, <2>4 DEF Ended, ConnTypes
  <2>8. ClientChain'
    BY <1>h, <2>2, <2>4, <2>5
  <2>9. HasConn' /\ Closing'
    BY <2>2, <2>7 DEF HasConn, Closing
  <2>10. \A d \in Conn : state'[d] = "free" /\ pcb'[d] # "listen"
    BY <1>c, <2>3, <2>6, <2>7 DEF ClientSockets
  <2>11. ClientSockets'
    BY <1>c, <2>2, <2>4, <2>6, <2>7, <2>9, <2>10 DEF ClientSockets
  <2> QED BY <2>8, <2>11 DEF ClientShape
<1>7. ASSUME NEW t \in Task, CloseReturns(t) PROVE ClientShape'
  <2>1. /\ MayRun(t) /\ pc[t] = "closed" /\ at[t] = "run" /\ pc' = Closed(t)
        /\ socks' = [socks EXCEPT ![fd[t]] = None] /\ fd' = [fd EXCEPT ![t] = 0]
        /\ UNCHANGED <<at, sock_connect, pcb, state>>
    BY <1>7 DEF CloseReturns, Calls, globals, connVars
  <2>2. t # InitTask
    BY <1>0, <2>1 DEF Places, MayBe
  <2>3. t \in {RevServer, ConnectServer} /\ HasConn /\ NoTalk
    BY <1>d, <2>1, <2>2
  <2>4. pc' = [pc EXCEPT ![t] = "end"]
    BY <2>1, <2>3, ClosedIs DEF Goto
  <2>5. fd[t] = sock_connect /\ sock_connect \in Fd /\ ~Rests(t) /\ Closing
    BY <1>c, <2>1, <2>3 DEF ClientSockets, Rests, Closing
  <2>6. /\ pc'[t] = "end" /\ \A u \in Task : u # t => pc'[u] = pc[u] /\ fd'[u] = fd[u]
        /\ socks'[sock_connect] = None
        /\ \A s \in Fd : s # sock_connect => socks'[s] = socks[s]
    BY <1>0, <2>1, <2>4, <2>5 DEF SockTypes
  <2>7. ClientChain' /\ \A u \in {RevServer, ConnectServer, InitTask} \ {t} : Rests(u) /\ Rests(u)'
    BY <1>h, <2>3, <2>4, <2>5
  <2>8. ~HasConn' /\ \A s \in Fd : socks'[s] = None
    <3>1. ~HasConn'
      BY <2>3, <2>6, <2>7 DEF HasConn, Rests
    <3> QED BY <1>c, <2>6, <3>1 DEF ClientSockets
  <2>9. \A d \in Conn : state'[d] = "free" /\ pcb'[d] # "listen"
    BY <1>c, <2>1, <2>5 DEF ClientSockets
  <2>10. ClientSockets'
    BY <1>c, <2>1, <2>6, <2>8, <2>9 DEF ClientSockets
  <2> QED BY <2>7, <2>10 DEF ClientShape
\* Init_Client_task: all sockets are free, so it is given one.
<1>8. ASSUME NEW t \in Task, OpensClient(t) PROVE ClientShape'
  <2>1. t = InitTask /\ pc[t] = "socket" /\ at' = at /\ fd' = fd /\ NoTalk
    BY <1>8, <1>d DEF OpensClient, Calls
  <2>2. ~HasConn /\ ~Closing /\ ~Rests(t)
    BY <1>c, <2>1 DEF ClientChain, HasConn, Closing, Rests
  <2>3. /\ \A c \in Conn : state[c] = "free"
        /\ \A s \in Fd : socks[s] = None
    BY <1>c, <2>2 DEF ClientSockets
  <2>4. ~NoSocket
    <3>1. 1 \in Conn /\ 0 \in Fd
      BY SocketTasksAssumption DEF Conn, Fd
    <3> QED BY <2>3, <3>1 DEF NoSocket, FreeConn, FreeFd
  <2>5. /\ Opened("none", "closed") /\ pc' = [pc EXCEPT ![t] = "spawn"]
        /\ sock_connect' = Min(FreeFd)
    BY <1>8, <2>4 DEF OpensClient, Goto
  <2>6. PICK c \in Conn, s \in Fd :
          /\ state' = [state EXCEPT ![c] = "none"] /\ pcb' = [pcb EXCEPT ![c] = "closed"]
          /\ socks' = [socks EXCEPT ![s] = c] /\ s = Min(FreeFd)
    BY <2>4, <2>5, OpensDoes
  <2>7. /\ sock_connect' = s /\ socks'[s] = c /\ c # None
        /\ \A r \in Fd : r # s => socks'[r] = None
        /\ \A d \in Conn : state'[d] # "free" <=> d = c
        /\ \A d \in Conn : pcb'[d] # "listen" /\ state'[d] # "listen"
    BY <1>0, <1>e, <2>3, <2>5, <2>6 DEF SockTypes, ConnTypes, Conn
  <2>8. ClientChain' /\ \A u \in {RevServer, ConnectServer, InitTask} \ {t} : Rests(u) /\ Rests(u)'
    <3>1. t \in {RevServer, ConnectServer, InitTask}
      BY <2>1
    <3> QED BY <1>h, <2>1, <2>2, <2>5, <3>1
  <2>9. HasConn' /\ ~Closing'
    <3>1. pc'[InitTask] = "spawn"
      BY <1>0, <2>1, <2>5
    <3> QED BY <2>1, <2>8, <3>1 DEF HasConn, Closing, Rests
  <2>10. \A u \in Task : ~(pc'[u] = "closed" \/ (pc'[u] = "close" /\ at'[u] # "run"))
    <3> SUFFICES ASSUME NEW u \in Task, pc'[u] \in {"close", "closed"} PROVE FALSE
      BY <2>1
    <3>1. u # t /\ pc[u] = pc'[u]
      BY <1>0, <2>5
    <3>2. u \in {RevServer, ConnectServer} /\ ~Rests(u)
      BY <1>d, <2>1, <3>1 DEF Rests
    <3> QED BY <2>1, <2>8, <3>2
  <2>11. ClientSockets'
    BY <2>6, <2>7, <2>9, <2>10 DEF ClientSockets
  <2> QED BY <2>8, <2>11 DEF ClientShape
\* Connect_Server_task
<1>9. ASSUME NEW t \in Task, Connects(t) PROVE ClientShape'
  <2>1. PICK c \in Conn :
          /\ pc[t] = "connect" /\ pc' = pc /\ state[c] = "none"
          /\ at' = [at EXCEPT ![t] = "posted"]
          /\ \/ UNCHANGED <<state, pcb>>
             \/ state' = [state EXCEPT ![c] = "connect"] /\ pcb' = [pcb EXCEPT ![c] = "syn"]
    BY <1>9, ConnectsDoes DEF Answered, LeftOpen
  <2>2. UNCHANGED <<fd, socks, sock_connect>>
    BY <1>9 DEF Connects, globals
  <2>7. NoTalk
    BY <1>9, <1>d DEF Connects, Calls
  <2>3. pc' = [pc EXCEPT ![t] = pc[t]] /\ pc[t] \notin {"close", "closed"}
    BY <1>g, <2>1
  <2>4. \A u \in Task :
               pc'[u] = "closed" \/ (pc'[u] = "close" /\ at'[u] # "run") =>
                  \/ /\ fd'[u] = fd[u] /\ pc[u] = pc'[u]
                     /\ pc[u] = "close" => at[u] # "run"
                  \/ fd'[u] = sock_connect
    BY <1>f, <2>1, <2>2, <2>3
  <2>5. \A d \in Conn : /\ pcb'[d] # "listen" /\ state'[d] # "listen"
                        /\ state'[d] = "free" <=> state[d] = "free"
                        /\ state'[d] = "connect" => state[d] = "connect" \/ NoTalk
    BY <1>0, <1>e, <2>1, <2>7 DEF ConnTypes
  <2>6. UNCHANGED <<socks, sock_connect>>
    BY <2>2
  <2> QED BY <1>u, <2>3, <2>4, <2>5, <2>6, ClientSame
<1>10. ASSUME NEW t \in Task, ConnectReturns(t) \/ SetsOptions(t) \/ OptionsSet(t) PROVE ClientShape'
  <2>1. /\ t = ConnectServer /\ UNCHANGED <<fd, socks, sock_connect, pcb, state>>
        /\ pc[t] \in {"connect", "opts"}
    <3>1. t \in {ConnectClient, ConnectServer} /\ MayRun(t) /\ pc[t] \in {"connect", "opts"}
      BY <1>10 DEF ConnectReturns, SetsOptions, OptionsSet, Calls, Back
    <3>2. t = ConnectServer
      BY <1>d, <3>1
    <3> QED BY <1>10, <3>1, <3>2 DEF ConnectReturns, SetsOptions, OptionsSet, globals, connVars
  <2>2. /\ \E l \in {"opts", "spawn", "close"} : pc' = [pc EXCEPT ![t] = l]
        /\ \/ at' = [at EXCEPT ![t] = "run"]
           \/ at' = [at EXCEPT ![t] = "posted"] /\ pc' = pc
    <3>1. ASSUME SetsOptions(t), ConnAt(Chosen(t)) = None
          PROVE  pc' = [pc EXCEPT ![t] = "spawn"] /\ at' = [at EXCEPT ![t] = "run"]
      BY <1>g, <3>1 DEF SetsOptions, Calls, Goto
    <3>2. ASSUME SetsOptions(t), ConnAt(Chosen(t)) # None
          PROVE  /\ pc' = pc /\ pc' = [pc EXCEPT ![t] = "opts"]
                 /\ at' = [at EXCEPT ![t] = "posted"]
      BY <1>g, <3>2, OptionsDoes DEF Answered
    <3>3. ASSUME ConnectReturns(t) \/ OptionsSet(t)
          PROVE  /\ at' = [at EXCEPT ![t] = "run"]
                 /\ \E l \in {"opts", "spawn", "close"} : pc' = [pc EXCEPT ![t] = l]
      BY <3>3 DEF ConnectReturns, OptionsSet, Running, Goto
    <3> QED BY <1>10, <3>1, <3>2, <3>3
  <2>3. PICK l \in {"opts", "spawn", "close"} : pc' = [pc EXCEPT ![t] = l]
    BY <2>2
  <2>4. PICK a \in {"run", "posted"} : at' = [at EXCEPT ![t] = a] /\ (a = "run" \/ pc' = pc)
    BY <2>2
  <2>5. a # "run" => l = pc[t]
    BY <1>0, <2>3, <2>4
  <2>6. \A u \in Task :
               pc'[u] = "closed" \/ (pc'[u] = "close" /\ at'[u] # "run") =>
                  \/ /\ fd'[u] = fd[u] /\ pc[u] = pc'[u]
                     /\ pc[u] = "close" => at[u] # "run"
                  \/ fd'[u] = sock_connect
    BY <1>f, <2>1, <2>3, <2>4, <2>5
  <2>7. /\ UNCHANGED <<socks, sock_connect>>
        /\ \A d \in Conn : /\ pcb'[d] # "listen" /\ state'[d] # "listen"
                           /\ state'[d] = "free" <=> state[d] = "free"
                           /\ state'[d] = "connect" => state[d] = "connect" \/ NoTalk
    BY <1>e, <2>1
  <2>8. t = ConnectServer /\ {pc[t], l} \subseteq {"connect", "opts", "spawn", "close"}
    BY <2>1
  <2> QED BY <1>u, <2>3, <2>6, <2>7, <2>8, ClientSame
\* OSTaskCreate of the next task, and OSTaskDel.
<1>11. ASSUME NEW t \in Task, Spawns(t) PROVE ClientShape'
  <2>1. /\ pc[t] = "spawn" /\ t \in {InitTask, ConnectServer}
        /\ pc' = Created(Goto(t, "end"), Successor[t])
        /\ UNCHANGED <<at, fd, socks, sock_connect, pcb, state>>
    BY <1>11, <1>d, SuccessorIs DEF Spawns, Calls, globals, connVars
  <2>2. Goto(t, "end") \in [Task -> Label] /\ Goto(t, "end")[t] = "end"
        /\ \A u \in Task : u # t => Goto(t, "end")[u] = pc[u]
    BY <1>0 DEF Goto, Label
  <2>3. ~Rests(t) /\ HasConn
    BY <2>1 DEF Rests, HasConn
  <2>4. ~Closing /\ at[RevServer] = at'[RevServer] /\ pc[RevServer] = "off"
    BY <1>c, <2>1, <2>3 DEF ClientChain, Closing, Rests
  <2>5. \A u \in Talkers : pc[u] = "off"
    BY <1>11, <1>d, <2>1 DEF Spawns, Calls, NoTalk
  <2>6. ASSUME t = InitTask
        PROVE  /\ ClientChain' /\ HasConn' /\ ~Closing'
               /\ \A u \in Task : pc'[u] \notin {"close", "closed"}
    <3>1. pc[ConnectServer] = "off"
      BY <1>c, <2>3, <2>6 DEF ClientChain
    <3>2. /\ pc'[InitTask] = "end" /\ pc'[ConnectServer] = "connect"
          /\ \A u \in Task : u \notin {InitTask, ConnectServer} => pc'[u] = pc[u]
      BY <2>1, <2>2, <2>6, <3>1, CreatedIs, SuccessorIs, StartsAt
    <3>3. ClientChain'
      BY <1>c, <2>4, <2>5, <3>2 DEF ClientChain, Rests
    <3> QED BY <1>c, <2>4, <2>5, <3>2, <3>3 DEF HasConn, Closing, ClientChain
  <2>7. ASSUME t = ConnectServer
        PROVE  /\ ClientChain' /\ HasConn' /\ ~Closing'
               /\ \A u \in Task : pc'[u] \notin {"close", "closed"}
    <3>1. Rests(InitTask)
      BY <1>c, <2>3, <2>7 DEF ClientChain
    <3>2. /\ pc'[ConnectServer] = "end" /\ pc'[RevServer] = "recv"
          /\ \A u \in Task : u \notin {RevServer, ConnectServer} => pc'[u] = pc[u]
      BY <2>1, <2>2, <2>4, <2>7, CreatedIs, SuccessorIs, StartsAt
    <3>3. ClientChain'
      BY <1>c, <2>4, <2>5, <3>1, <3>2 DEF ClientChain, Rests
    <3> QED BY <1>c, <2>4, <2>5, <3>1, <3>2, <3>3 DEF HasConn, Closing, ClientChain, Rests
  <2>8. ClientChain' /\ HasConn' /\ ~Closing' /\ \A u \in Task : pc'[u] \notin {"close", "closed"}
    BY <2>1, <2>6, <2>7
  <2>9. ClientSockets'
    BY <1>c, <2>1, <2>3, <2>4, <2>8 DEF ClientSockets
  <2> QED BY <2>8, <2>9 DEF ClientShape
<1>12. ASSUME NEW t \in Task, Ends(t) PROVE ClientShape'
  <2>1. /\ pc[t] = "end" /\ pc' = [pc EXCEPT ![t] = "off"] /\ fd' = [fd EXCEPT ![t] = 0]
        /\ UNCHANGED <<at, socks, sock_connect, pcb, state>>
    BY <1>12 DEF Ends, Goto, globals, connVars
  <2>2. pc'[t] = "off" /\ \A u \in Task : u # t => fd'[u] = fd[u] /\ pc'[u] = pc[u]
    BY <1>0, <2>1
  <2>3. \A u \in Task :
               pc'[u] = "closed" \/ (pc'[u] = "close" /\ at'[u] # "run") =>
                  \/ /\ fd'[u] = fd[u] /\ pc[u] = pc'[u]
                     /\ pc[u] = "close" => at[u] # "run"
                  \/ fd'[u] = sock_connect
    BY <2>1, <2>2
  <2>4. /\ UNCHANGED <<socks, sock_connect>>
        /\ pc' = [pc EXCEPT ![t] = "off"] /\ pc[t] = "end"
        /\ \A d \in Conn : /\ pcb'[d] # "listen" /\ state'[d] # "listen"
                           /\ state'[d] = "free" <=> state[d] = "free"
                           /\ state'[d] = "connect" => state[d] = "connect" \/ NoTalk
    BY <1>e, <2>1
  <2> QED BY <1>u, <2>3, <2>4, ClientSame
\* The tasks of the server do not run.
<1>13. ASSUME NEW t \in Task, Begins(t) \/ OpensListener(t) \/ EntersAccept(t) \/ Accepts(t)
                              \/ AcceptReturns(t) \/ Drops(t)
       PROVE  FALSE
  <2>1. MayRun(t) /\ t \in {RevFile, ConnectClient, SocketTask}
    BY <1>13 DEF Begins, OpensListener, EntersAccept, Accepts, AcceptReturns, Drops, Calls, Back
  <2> QED BY <1>d, <2>1
\* Commands
<1>14. ASSUME OrderlyCommands PROVE ClientShape'
  <2>1. ~Socket_init
    BY <1>0 DEF Socket_init, Command, UsesApart
  <2>2. UNCHANGED <<at, fd, socks, sock_connect, pcb, state>>
    BY <1>14 DEF OrderlyCommands, Command, Socket_init, Init_Client, Send_File_Name, Stop_Download,
       Pause_Download, Continue_Download, globals, connVars
  <2>3. /\ \A d \in Conn : /\ pcb'[d] # "listen" /\ state'[d] # "listen"
                           /\ state'[d] = "free" <=> state[d] = "free"
                           /\ state'[d] = "connect" => state[d] = "connect" \/ NoTalk
        /\ UNCHANGED <<socks, sock_connect>>
    BY <1>e, <2>2
  <2>4. ASSUME pc' = Created(pc, InitTask), pc[InitTask] = "off", Starting PROVE ClientShape'
    <3>1. pc[InitTask] = "off" /\ pc[ConnectServer] = "off" /\ pc[RevServer] = "off"
      BY <2>4 DEF Starting
    <3>2. pc'[InitTask] = "close" /\ \A u \in Task : u # InitTask => pc'[u] = pc[u]
      BY <1>0, <2>4, CreatedIs, StartsAt
    <3>3. at'[InitTask] = "run"
      BY <1>0, <2>2, <3>1 DEF InCalls, CallAt
    <3>4. ~HasConn /\ ~HasConn' /\ ~Closing' /\ (NoSyn => NoSyn')
      BY <2>2, <3>1, <3>2 DEF HasConn, Closing, NoSyn
    <3>5. ClientChain'
      BY <1>c, <1>u, <3>1, <3>2, <3>4 DEF ClientChain, Rests
    <3>6. \A u \in Task : ~(pc'[u] = "closed" \/ (pc'[u] = "close" /\ at'[u] # "run"))
      <4>1. \A u \in Task : pc[u] # "off" => u \in Talkers
        BY <1>c, <3>1 DEF ClientChain
      <4> QED BY <1>0, <3>2, <3>3, <4>1 DEF Places, MayBe
    <3>7. ClientSockets'
      BY <1>c, <2>2, <3>4, <3>6 DEF ClientSockets
    <3> QED BY <3>5, <3>7 DEF ClientShape
  <2>5. ASSUME NEW t \in Talkers, Writing, "talk" \in use, pc' = Created(pc, t) PROVE ClientShape'
    <3>1. (\A u \in Task : u # t => pc'[u] = pc[u]) /\ pc'[t] \in {pc[t], "send"}
      BY <1>0, <2>5, CreatedIs, StartsAt
    <3>2. (HasConn' <=> HasConn) /\ (Closing' <=> Closing) /\ ~Closing /\ NoSyn'
      BY <2>2, <2>5, <3>1 DEF HasConn, Closing, NoSyn, Writing
    <3>3. ClientChain'
      BY <1>c, <1>u, <2>5, <3>1, <3>2 DEF ClientChain, Rests
    <3>4. ClientSockets'
      BY <1>c, <2>2, <3>1, <3>2 DEF ClientSockets
    <3> QED BY <3>3, <3>4 DEF ClientShape
  <2>6. ASSUME pc' = pc PROVE ClientShape'
    <3>1. (HasConn' <=> HasConn) /\ (Closing' <=> Closing) /\ (NoSyn' <=> NoSyn)
      BY <2>2, <2>6 DEF HasConn, Closing, NoSyn
    <3>2. ClientChain'
      BY <1>c, <1>u, <2>6, <3>1 DEF ClientChain, Rests
    <3>3. ClientSockets'
      BY <1>c, <2>2, <2>6, <3>1 DEF ClientSockets
    <3> QED BY <3>2, <3>3 DEF ClientShape
  <2>7. \/ pc' = Created(pc, InitTask) /\ Starting
        \/ \E t \in Talkers : Writing /\ "talk" \in use /\ pc' = Created(pc, t)
        \/ pc' = pc
    BY <1>14, <2>1 DEF OrderlyCommands, Command, Init_Client, Send_File_Name, Stop_Download,
       Pause_Download, Continue_Download
  <2>8. pc' = Created(pc, InitTask) /\ pc[InitTask] # "off" => pc' = pc
    BY DEF Created
  <2> QED BY <2>4, <2>5, <2>6, <2>7, <2>8
\* TCP
<1>15. ASSUME UNCHANGED <<pc, fd, socks, sock_connect>>,
              \A d \in Conn : /\ pcb'[d] # "listen" /\ state'[d] # "listen"
                              /\ state'[d] = "free" <=> state[d] = "free"
                              /\ state'[d] = "connect" => state[d] = "connect" \/ NoTalk,
              \A u \in Task : at'[u] # "run" => at[u] # "run"
       PROVE  ClientShape'
  <2>1. pc' = [pc EXCEPT ![InitTask] = pc[InitTask]] /\ UNCHANGED <<socks, sock_connect>>
    BY <1>g, <1>15
  <2>2. \A u \in Task :
               pc'[u] = "closed" \/ (pc'[u] = "close" /\ at'[u] # "run") =>
                  \/ /\ fd'[u] = fd[u] /\ pc[u] = pc'[u]
                     /\ pc[u] = "close" => at[u] # "run"
                  \/ fd'[u] = sock_connect
    BY <1>15
  <2>3. \A d \in Conn : /\ pcb'[d] # "listen" /\ state'[d] # "listen"
                        /\ state'[d] = "free" <=> state[d] = "free"
                        /\ state'[d] = "connect" => state[d] = "connect" \/ NoTalk
    BY <1>15
  <2>4. InitTask \in Task /\ InitTask # RevServer
    OBVIOUS
  <2> QED BY <1>u, <2>1, <2>2, <2>3, <2>4, ClientSame
<1>16. ASSUME NEW c \in Conn, DataArrives(c) \/ FinArrives(c) PROVE ClientShape'
  <2>1. /\ UNCHANGED <<pc, at, fd, socks, sock_connect, state>>
        /\ pcb' = pcb \/ pcb' = [pcb EXCEPT ![c] = "fin"]
    BY <1>16 DEF DataArrives, FinArrives, taskVars, globals
  <2>2. \A d \in Conn : pcb'[d] # "listen"
    BY <1>0, <1>e, <2>1 DEF ConnTypes
  <2> QED BY <1>15, <1>e, <2>1, <2>2
<1>17. ASSUME NEW c \in Conn, UNCHANGED <<pc, fd, socks, sock_connect>>,
              \E p : p # "listen" /\ (pcb' = pcb \/ pcb' = [pcb EXCEPT ![c] = p]),
              \/ Told(c) /\ cur[c] \in Task /\ state[c] \in {"connect", "write", "close"}
              \/ at' = at /\ state' = state
       PROVE  ClientShape'
  <2>1. \A d \in Conn : pcb'[d] # "listen"
    BY <1>0, <1>e, <1>17 DEF ConnTypes
  <2>2. \A d \in Conn : /\ state'[d] # "listen" /\ (state'[d] = "free" <=> state[d] = "free")
                        /\ state'[d] = "connect" => state[d] = "connect"
    BY <1>0, <1>e, <1>17 DEF Told, ConnTypes
  <2>3. \A u \in Task : at'[u] # "run" => at[u] # "run"
    BY <1>0, <1>17 DEF Told
  <2> QED BY <1>15, <1>17, <2>1, <2>2, <2>3
<1>18. ASSUME NEW c \in Conn, Aborts(c) PROVE ClientShape'
  <2>1. /\ pcb' = [pcb EXCEPT ![c] = "null"]
        /\ UNCHANGED <<pc, fd, socks, sock_connect>>
        /\ \/ Told(c) /\ cur[c] \in Task /\ cur[c] # None
           \/ at' = at /\ state' = state
        /\ state[c] \in {"none", "connect", "write", "close"}
    BY <1>18, AbortsDoes DEF globals
  <2>2. cur[c] # None => state[c] \in {"connect", "write", "close"}
    BY <2>1 DEF IInv, CallInv, Open
  <2>3. "null" # "listen" /\ (pcb' = pcb \/ pcb' = [pcb EXCEPT ![c] = "null"])
    BY <2>1
  <2> QED BY <1>17, <2>1, <2>2, <2>3
<1>19. ASSUME NEW c \in Conn, Established(c) \/ WriteDone(c) \/ CloseDone(c) PROVE ClientShape'
  <2>1. /\ Told(c) /\ cur[c] \in Task /\ state[c] \in {"connect", "write", "close"}
        /\ UNCHANGED <<pc, fd, socks, sock_connect>>
        /\ pcb' = pcb \/ pcb' = [pcb EXCEPT ![c] = "open"] \/ pcb' = [pcb EXCEPT ![c] = "null"]
    BY <1>19, CompletedDoes DEF globals
  <2>2. PICK p \in {"open", "null"} : pcb' = pcb \/ pcb' = [pcb EXCEPT ![c] = p]
    BY <2>1
  <2>3. p # "listen"
    OBVIOUS
  <2> QED BY <1>17, <2>1, <2>2, <2>3
<1>20. ASSUME UNCHANGED vars PROVE ClientShape'
  <2>1. UNCHANGED <<pc, at, fd, socks, sock_connect, state, pcb>>
    BY <1>20 DEF vars, taskVars, globals, connVars
  <2> QED BY <1>15, <1>e, <2>1
<1> QED
  <2>1. ASSUME NEW t \in Task, TaskStep(t) PROVE ClientShape'
    BY <2>1, <1>1, <1>2, <1>3, <1>4, <1>5, <1>6, <1>7, <1>8, <1>9, <1>10, <1>11, <1>12, <1>13
       DEF TaskStep
  <2>2. ~PeerConnects
    BY <1>c DEF PeerConnects
  <2> QED BY <1>14, <1>16, <1>18, <1>19, <1>20, <2>1, <2>2 DEF OrderlyNext, Peer, Timers

-----------------------------------------------------------------------------
(* The invariant holds                                                     *)

\* The invariant holds at first.
LEMMA InvStart == ASSUME SocketTasksAssumption, Init PROVE IInv
<1>1. /\ \A t \in Task : pc[t] = "off" /\ at[t] = "run" /\ on[t] = None
      /\ \A c \in Conn : /\ state[c] = "free" /\ pcb[c] = "null" /\ box[c] = <<>>
                         /\ cur[c] = None /\ sem[c] = 0
      /\ \A s \in Fd : socks[s] = None
  BY DEF Init
<1>2. TypeOK
  <2>1. 0 \in Fd
    BY SocketTasksAssumption DEF Fd
  <2>2. CallTypes /\ SockTypes
    BY <2>1 DEF Init, CallTypes, SockTypes
  <2>3. TaskTypes
    BY <2>1 DEF Init, TaskTypes, Label
  <2>4. ConnTypes
    BY DEF Init, ConnTypes
  <2>5. BoxTypes
    <3>1. fatal \in [Conn -> BOOLEAN]
      BY Zenon DEF Init
    <3>2. box \in [Conn -> Seq(Conn \cup {Data, Eof})]
      BY DEF Init
    <3> QED BY <3>1, <3>2 DEF BoxTypes
  <2>6. BudgetTypes
    BY SocketTasksAssumption DEF Init, BudgetTypes
  <2> QED BY <2>2, <2>3, <2>4, <2>5, <2>6, TypeParts DEF AllTypes
<1>3. Places /\ InCalls
  BY <1>1 DEF Places, MayBe, InCalls, CallAt
<1>4. Counts
  <2> SUFFICES ASSUME NEW c \in Conn PROVE sem[c] = Cardinality(Owed(c))
    BY DEF Counts
  <2>1. Owed(c) = {}
    BY <1>1 DEF Owed
  <2> QED BY <1>1, <2>1, FS_EmptySet
<1>5. Open /\ Live /\ FreedIsClean /\ Gone
  BY <1>1 DEF Open, Live, FreedIsClean, Gone
<1>6. Plain /\ Listening = {}
  BY <1>1 DEF Plain, Elems, Listening
<1>7. ClientShape
  <2>1. ~HasConn
    BY <1>1 DEF HasConn
  <2>2. ClientChain
    BY <1>1 DEF ClientChain, Rests
  <2> QED BY <1>1, <2>1, <2>2 DEF ClientShape, ClientSockets
<1>8. ServerShape
  <2>1. ~Active /\ Held = None /\ Accepted = None /\ \A c : ~IsPending(c)
    BY <1>1, <1>6 DEF Active, Serving, Held, Accepted, IsPending
  <2>2. ServerChain /\ ServerFresh
    BY <1>1, <1>6 DEF ServerChain, ServerFresh, Serving, Rests
  <2> QED BY <1>1, <1>6, <2>1, <2>2 DEF ServerShape, ServerListens, ServerSockets
<1> QED BY <1>2, <1>3, <1>4, <1>5, <1>6, <1>7, <1>8 DEF IInv, CallInv, Shape

\* Every step keeps the invariant.
LEMMA InvKept ==
    ASSUME IInv, UsesApart, SocketTasksAssumption, [OrderlyNext]_vars PROVE IInv'
<1>1. TypeOK' /\ Places' /\ InCalls' /\ CallRest' /\ use' = use
  BY TypeKept, PlacesKept, CallsKept, UseKept
<1>2. Shape'
  <2>1. "client" \in use => ClientShape'
    BY <1>1, ClientKept
  <2>2. "client" \notin use => ServerShape'
    BY <1>1, ServerKept
  <2> QED BY <1>1, <2>1, <2>2 DEF Shape
<1> QED BY <1>1, <1>2 DEF IInv, CallInv, CallRest

\* The invariant holds always.
LEMMA InvHolds == ASSUME UsesApart PROVE OrderlySpec => []IInv
<1>1. Init => IInv
  BY InvStart, SocketTasksAssumption
<1>2. IInv /\ [OrderlyNext]_vars => IInv'
  BY InvKept, SocketTasksAssumption
<1> QED BY <1>1, <1>2, PTL DEF OrderlySpec

-----------------------------------------------------------------------------
(* The theorems                                                            *)

\* The variables keep their types, whatever peers do and whichever commands
\* OrderlyCommands allows.
THEOREM TypeCorrect == ASSUME UsesApart PROVE OrderlySpec => []TypeOK
<1>1. IInv => TypeOK
  BY DEF IInv
<1> QED BY <1>1, InvHolds, PTL

\* sys_sem_signal never releases a task from the call of another one: the
\* count of op_completed is the number of answers that were not waited for
\* yet, and only the task of current_msg sleeps in OSSemPend.
THEOREM SignalsAreMatched == ASSUME UsesApart PROVE OrderlySpec => []SignalsMatch
<1>1. ASSUME IInv PROVE SignalsMatch
  <2>1. ASSUME NEW t \in Task, at[t] = "asleep" PROVE state[on[t]] # "free" /\ cur[on[t]] = t
    BY <1>1, <2>1, CallersWork DEF IInv, CallInv, Live, Open
  <2>2. \A c \in Conn : sem[c] = Cardinality({t \in Task : /\ at[t] = "posted"
                                                           /\ on[t] = c /\ cur[c] # t})
    BY <1>1, Zenon DEF IInv, CallInv, Counts, Owed
  <2>3. TypeOK
    BY <1>1 DEF IInv
  <2> QED BY <2>1, <2>2, <2>3 DEF SignalsMatch
<1> QED BY <1>1, InvHolds, PTL

\* No handler works on, and no task waits for, a netconn that netconn_free
\* has put back.
THEOREM CallsAreOnLive == ASSUME UsesApart PROVE OrderlySpec => []CallsOnLive
<1>1. ASSUME IInv PROVE CallsOnLive
  <2> SUFFICES ASSUME NEW t \in Task, at[t] # "run" PROVE on[t] # None /\ state[on[t]] # "free"
    BY DEF CallsOnLive
  <2> QED BY <1>1, CallersWork DEF IInv, CallInv, Live
<1> QED BY <1>1, InvHolds, PTL

\* netconn_delete, which does not look at what do_delconn answered, frees
\* nothing that TCP still holds.
THEOREM FreedAreClean == ASSUME UsesApart PROVE OrderlySpec => []FreedIsClean
<1>1. IInv => FreedIsClean
  BY DEF IInv, CallInv
<1> QED BY <1>1, InvHolds, PTL

\* Between accept, reset, close and the two sides' reconnections, neither a call
\* nor TCP ever meets a netconn that netconn_free has put back.
THEOREM NothingUsedAfterFree == ASSUME UsesApart PROVE OrderlySpec => []NoUseAfterFree
<1>1. CallsOnLive /\ FreedIsClean => NoUseAfterFree
  BY DEF NoUseAfterFree
<1> QED BY <1>1, CallsAreOnLive, FreedAreClean, PTL

\* Every netconn that is not free is in the hands of a task, pending or has a
\* descriptor, and each descriptor is in a variable some task closes: accept,
\* its failure and the two sides' reconnections leak none.
THEOREM SocketsAreKept == ASSUME UsesApart PROVE OrderlySpec => []NoSocketLost
<1>1. ASSUME IInv PROVE NoSocketLost
  <2>1. CASE "client" \in use
    <3>1. ClientChain /\ ClientSockets
      BY <1>1, <2>1, ClientIs
    <3>2. ASSUME NEW c \in Conn, state[c] # "free" PROVE \E s \in Fd : socks[s] = c
      BY <3>1, <3>2 DEF ClientSockets
    <3>3. HasConn => \E t \in {InitTask, ConnectServer, RevServer} : pc[t] # "off"
      BY DEF HasConn
    <3>4. \A s \in Fd : socks[s] # None =>
            s = sock_connect /\ \E t \in {InitTask, ConnectServer, RevServer} : pc[t] # "off"
      BY <3>1, <3>3 DEF ClientSockets
    <3> QED BY <3>2, <3>4 DEF NoSocketLost
  <2>2. CASE "client" \notin use
    <3>1. /\ ServerChain /\ ServerFresh /\ ServerListens /\ ServerSockets
          /\ Listening # {} => sock_fd \in Fd /\ Listening = {socks[sock_fd]}
      BY <1>1, <2>2, HeldIs
    <3>2. ASSUME NEW c \in Conn, state[c] # "free"
          PROVE  \/ \E s \in Fd : socks[s] = c
                 \/ \E l \in Listening : \E i \in DOMAIN box[l] : box[l][i] = c
                 \/ \E t \in Task : on[t] = c
      <4>1. c # None
        BY DEF Conn
      <4>2. c \in Listening \/ IsPending(c) \/ c = Held \/ c = Accepted
        BY <3>1, <3>2 DEF ServerSockets
      <4>3. c \in Listening => \E s \in Fd : socks[s] = c
        BY <3>1 DEF ServerListens
      <4>4. IsPending(c) => \E l \in Listening : \E i \in DOMAIN box[l] : box[l][i] = c
        BY DEF IsPending, Elems
      <4>5. c = Held => \E s \in Fd : socks[s] = c
        BY <4>1 DEF Held, ConnAt
      <4>6. c = Accepted => \E t \in Task : on[t] = c
        BY <4>1 DEF Accepted
      <4> QED BY <4>2, <4>3, <4>4, <4>5, <4>6
    <3>3. ASSUME NEW s \in Fd, socks[s] # None
          PROVE  \/ s = sock_fd /\ socks[s] \in Listening
                 \/ s = sock_conn /\ pc[ConnectClient] # "off"
                 \/ s = fd[RevFile] /\ pc[RevFile] # "off"
      <4>1. s = sock_fd \/ (s = sock_conn /\ Active)
        BY <3>1, <3>3 DEF ServerSockets
      <4>2. Listening # {}
        BY <3>1, <3>3 DEF ServerFresh
      <4>3. s = sock_fd => socks[s] \in Listening
        BY <3>1, <4>2
      <4>4. Active => \/ pc[ConnectClient] # "off"
                      \/ sock_conn = fd[RevFile] /\ pc[RevFile] # "off"
        BY <3>1 DEF Active, ServerChain, Serving
      <4> QED BY <4>1, <4>3, <4>4
    <3> QED BY <3>2, <3>3 DEF NoSocketLost
  <2> QED BY <2>1, <2>2
<1> QED BY <1>1, InvHolds, PTL

\* do_connect does not answer while the SYN is out: what Connect_Server_task
\* goes on with is connected, or was.
THEOREM ConnectsAreHonest == ASSUME UsesApart PROVE OrderlySpec => []ConnectIsHonest
<1>1. ASSUME IInv PROVE ConnectIsHonest
  <2> DEFINE c == ConnAt(sock_connect)
  <2> SUFFICES ASSUME pc[ConnectServer] \in {"opts", "spawn"}, state[c] = "connect" PROVE FALSE
    BY DEF ConnectIsHonest
  <2>1. "client" \in use
    BY <1>1, HeldIs DEF ServerChain
  <2>2. HasConn
    BY DEF HasConn
  <2>3. c \in Conn
    BY <1>1, <2>1, <2>2, ClientIs DEF ConnAt
  <2> HIDE DEF c
  <2>4. cur[c] # None /\ cur[c] \in Task
    <3>1. cur[c] # None
      BY <1>1, <2>3 DEF IInv, CallInv, Open
    <3> QED BY <1>1, <2>3, <3>1, TypeParts DEF IInv, AllTypes, ConnTypes
  <2>5. pc[cur[c]] = "connect"
    BY <1>1, <2>3, <2>4 DEF IInv, CallInv, Open, Fits
  <2>6. cur[c] = ConnectServer
    BY <1>1, <2>4, <2>5 DEF IInv, Places, MayBe
  <2> QED BY <2>5, <2>6
<1> QED BY <1>1, InvHolds, PTL
=============================================================================
