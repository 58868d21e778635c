------------------------------ MODULE Netconn -------------------------------
(***************************************************************************)
(* TCP netconns and the kernel events behind them.  A netconn keeps three  *)
(* handles: the semaphore op_completed and the mailboxes recvmbox and      *)
(* acceptmbox.  sys_arch.c makes a handle a pointer to a uC/OS-II event;   *)
(* events and netconns come from LIFO free lists, and in this port         *)
(*   - sys_mbox_set_invalid changes nothing: a freed mailbox keeps its     *)
(*     pointer, and the event behind it may be in use again;               *)
(*   - sys_mbox_valid is false of a mailbox that is full.                  *)
(* The module follows what each netconn operation then does.  Its steps    *)
(* are the handlers of tcpip_thread and the calls of the socket tasks.     *)
(***************************************************************************)
EXTENDS Integers, Sequences, SequencesExt, FiniteSets

CONSTANTS
    NConn,         \* netconn structures (MEMP_NUM_NETCONN)
    NEvent,        \* kernel events left to the netconns (OS_MAX_EVENTS)
    MaxQueues,     \* queue control blocks left to them (OS_MAX_QS)
    QSize,         \* slots of a mailbox (MAX_QUEUE_ENTRIES)
    PoolSize,      \* receive buffers (PBUF_POOL_SIZE)
    CloseListener, \* TRUE: a listening socket may be closed
    CloseFails,    \* TRUE: tcp_close may find no memory for its segment
    PcbFails,      \* TRUE: do_newconn may find no PCB
    Client         \* TRUE: the download client's socket connects

\* An acceptmbox has more slots (20) than there are netconns (4).
ASSUME NetconnAssumption ==
    /\ NConn \in Nat \ {0} /\ NEvent \in Nat \ {0} /\ MaxQueues \in Nat
    /\ QSize \in Nat /\ NConn <= QSize
    /\ PoolSize \in Nat /\ CloseListener \in BOOLEAN
    /\ CloseFails \in BOOLEAN /\ PcbFails \in BOOLEAN /\ Client \in BOOLEAN

Conn  == 1..NConn
Event == 1..NEvent
NoEvent == 0   \* a handle never set, or a semaphore handle cleared
Data == 0      \* messages: a buffer, NULL, and a pending netconn by its number
Eof == -1

VARIABLES
    evFree,     \* OSEventFreeList
    kind,       \* OSEventType of each event: "unused", "sem", "queue"
    queue,      \* messages in the queue of an event
    blocks,     \* free list of netconn structures
    use,        \* "free", "none", "listen", "open", "half" (FIN received),
                \* "reset", "closing" (its tcp_close is to be tried again),
                \* "deleted" (by tcpip_thread, structure not yet freed)
    sem, recvmbox, acceptmbox,  \* the handles of each netconn (recvmbox of a
                \* free structure is NoEvent: netconn_alloc overwrites it)
    app,        \* netconns a socket of the application refers to
    corrupt     \* "no"; "stray": a NULL of err_tcp came to a mailbox of another
                \* netconn; "yes": such a mailbox was used in another way, or
                \* messages were taken for what they are not

events == <<evFree, kind, queue>>
handles == <<sem, recvmbox, acceptmbox>>
vars == <<events, blocks, use, handles, app, corrupt>>

Init ==
    /\ evFree = [i \in Event |-> i]
    /\ kind = [e \in Event |-> "unused"]
    /\ queue = [e \in Event |-> <<>>]
    /\ blocks = [i \in Conn |-> i]
    /\ use = [c \in Conn |-> "free"]
    /\ sem = [c \in Conn |-> NoEvent]
    /\ recvmbox = [c \in Conn |-> NoEvent]
    /\ acceptmbox = [c \in Conn |-> NoEvent]
    /\ app = {}
    /\ corrupt = "no"

-----------------------------------------------------------------------------
(* Mailboxes, buffers and netconn structures                               *)

\* sys_mbox_valid.
Valid(e) == e # NoEvent /\ kind[e] = "queue" /\ Len(queue[e]) < QSize

\* No mailbox of another netconn has been used: nothing is followed after that.
Sane == corrupt = "no"

\* do_delconn has not come to netconn_drain.
Live(c) == use[c] \notin {"free", "closing", "deleted"}
\* The mailbox a live netconn works with: do_listen replaced recvmbox.
Mailbox(c) == IF use[c] = "listen" THEN acceptmbox[c] ELSE recvmbox[c]

Queues == {e \in Event : kind[e] = "queue"}
\* Where message m is in the mailboxes.
Places(m) == UNION {{<<e, i>> : i \in {j \in DOMAIN queue[e] : queue[e][j] = m}} :
                      e \in Event}

\* Every frame from the network comes in a pool buffer.
CanReceive == Cardinality(Places(Data)) < PoolSize

\* netconn_alloc succeeds: a structure, two events and a queue block are free.
\* (When it fails it gives back what it took: no step.)
CanAlloc == blocks # <<>> /\ Len(evFree) >= 2 /\ Cardinality(Queues) < MaxQueues

\* Mutant: one event is taken off the list for two.
AllocShort(c) ==
    /\ c = Head(blocks)
    /\ blocks' = Tail(blocks)
    /\ evFree' = Tail(evFree)
    /\ kind' = [kind EXCEPT ![evFree[1]] = "sem", ![evFree[2]] = "queue"]
    /\ sem' = [sem EXCEPT ![c] = evFree[1]]
    /\ recvmbox' = [recvmbox EXCEPT ![c] = evFree[2]]
    /\ UNCHANGED acceptmbox
\* Structure c with a new semaphore and recvmbox; acceptmbox keeps what an
\* earlier life of the structure left there.
Alloc(c) ==
    LET s == evFree[1]
        r == evFree[2] IN
    /\ c = Head(blocks)
    /\ blocks' = Tail(blocks)
    /\ evFree' = Tail(Tail(evFree))
    /\ kind' = [kind EXCEPT ![s] = "sem", ![r] = "queue"]
    /\ sem' = [sem EXCEPT ![c] = s]
    /\ recvmbox' = [recvmbox EXCEPT ![c] = r]
    /\ UNCHANGED acceptmbox

\* A post guarded by sys_mbox_valid, to the queues q.
PostIfValid(e, m, q) ==
    IF e # NoEvent /\ kind[e] = "queue" /\ Len(q[e]) < QSize
    THEN [q EXCEPT ![e] = Append(@, m)] ELSE q

-----------------------------------------------------------------------------
(* Calls of the application                                                *)

Socket(c) ==
    /\ Sane /\ CanAlloc
    /\ Alloc(c)
    /\ use' = [use EXCEPT ![c] = "none"]
    /\ app' = app \cup {c}
    /\ UNCHANGED <<queue, corrupt>>

\* Mutant: the mailbox is not freed when there is no PCB.
SocketRefusedKeeps(c) ==
    /\ PcbFails /\ Sane /\ CanAlloc
    /\ c = Head(blocks)
    /\ kind' = [kind EXCEPT ![evFree[2]] = "queue"]
    /\ evFree' = <<evFree[1]>> \o Tail(Tail(evFree))
    /\ UNCHANGED <<queue, blocks, use, handles, app, corrupt>>
\* do_newconn found no free PCB: semaphore and mailbox are made and freed again,
\* in that order, and the structure goes back.
SocketRefused(c) ==
    /\ PcbFails /\ Sane /\ CanAlloc
    /\ c = Head(blocks)
    /\ evFree' = <<evFree[2], evFree[1]>> \o Tail(Tail(evFree))
    /\ UNCHANGED <<kind, queue, blocks, use, handles, app, corrupt>>

\* A connect that fails is followed by ErrTcp.
Connect(c) ==
    /\ Client /\ Sane /\ c \in app /\ use[c] = "none"
    /\ use' = [use EXCEPT ![c] = "open"]
    /\ UNCHANGED <<events, blocks, handles, app, corrupt>>

\* do_listen frees recvmbox and, unless acceptmbox tests valid, creates it, from
\* the event it has just freed.  The application has one listening socket.
Listen(c) ==
    /\ Sane /\ c \in app /\ use[c] = "none"
    /\ \A d \in Conn : use[d] # "listen"
    /\ LET r == recvmbox[c]
           a == acceptmbox[c] IN
       IF a # r /\ Valid(a)
       THEN /\ evFree' = <<r>> \o evFree
            /\ kind' = [kind EXCEPT ![r] = "unused"]
            /\ corrupt' = "yes"
            /\ UNCHANGED acceptmbox
       ELSE /\ acceptmbox' = [acceptmbox EXCEPT ![c] = r]
            /\ UNCHANGED <<evFree, kind, corrupt>>
    /\ use' = [use EXCEPT ![c] = "listen"]
    /\ UNCHANGED <<queue, blocks, sem, recvmbox, app>>

\* Mutant: the pending netconn is looked at and stays in the mailbox.
AcceptPeeks(c) ==
    /\ Sane /\ c \in app /\ use[c] = "listen"
    /\ Valid(acceptmbox[c]) /\ queue[acceptmbox[c]] # <<>>
    /\ app' = app \cup {Head(queue[acceptmbox[c]])}
    /\ UNCHANGED <<events, blocks, use, handles, corrupt>>
\* netconn_accept and netconn_recv refuse a mailbox that does not test valid.
Accept(c) ==
    /\ Sane /\ c \in app /\ use[c] = "listen"
    /\ LET a == acceptmbox[c] IN
       /\ Valid(a) /\ queue[a] # <<>>
       /\ app' = app \cup {Head(queue[a])}
       /\ queue' = [queue EXCEPT ![a] = Tail(@)]
    /\ UNCHANGED <<evFree, kind, blocks, use, handles, corrupt>>

\* After a reset only a reader that was waiting already gets something: NULL.
Recv(c) ==
    /\ Sane /\ c \in app
    /\ LET r == recvmbox[c] IN
       /\ \/ use[c] \in {"open", "half"}
          \/ use[c] = "reset" /\ queue[r] = <<Eof>>
       /\ Valid(r) /\ queue[r] # <<>>
       /\ queue' = [queue EXCEPT ![r] = Tail(@)]
    /\ UNCHANGED <<evFree, kind, blocks, use, handles, app, corrupt>>

\* Mutant: a mailbox with messages left in it is not deleted.
DrainKeeps(c) ==
    LET r == recvmbox[c] IN
    IF Valid(r) /\ queue[r] = <<>>
    THEN /\ evFree' = <<r>> \o evFree
         /\ kind' = [kind EXCEPT ![r] = "unused"]
         /\ UNCHANGED queue
    ELSE UNCHANGED events
\* netconn_drain: recvmbox, then acceptmbox, each only if it tests valid.  Once
\* recvmbox is freed, acceptmbox is valid only as somebody else's mailbox.
Drain(c) ==
    LET r == recvmbox[c] IN
    IF Valid(r)
    THEN /\ evFree' = <<r>> \o evFree
         /\ kind' = [kind EXCEPT ![r] = "unused"]
         /\ queue' = [queue EXCEPT ![r] = <<>>]
    ELSE UNCHANGED events

\* A live netconn other than c works with e.
Alien(e, c) == \E d \in Conn \ {c} : Live(d) /\ Mailbox(d) = e

\* recvmbox is drained as buffers, acceptmbox as netconns.
DrainMisuses(c) ==
    LET r == recvmbox[c]
        a == acceptmbox[c] IN
    \/ Valid(r) /\ (Alien(r, c) \/ \E i \in 1..Len(queue[r]) : queue[r][i] \in Conn)
    \/ ~(Valid(r) /\ a = r) /\ Valid(a)

\* netconn_delete, the part in tcpip_thread: do_delconn drains the netconn,
\* closes its PCB and signals op_completed.  A connection whose tcp_close fails
\* stays in state NETCONN_CLOSE, without its mailbox and with err_tcp armed.
DelConn(c) ==
    /\ Sane /\ c \in app
    /\ Live(c) /\ (use[c] = "listen" => CloseListener)
    /\ Drain(c)
    /\ corrupt' = IF DrainMisuses(c) THEN "yes" ELSE "no"
    /\ \/ use' = [use EXCEPT ![c] = "deleted"]
       \/ /\ CloseFails /\ use[c] \in {"open", "half"}
          /\ use' = [use EXCEPT ![c] = "closing"]
    /\ UNCHANGED <<blocks, handles, app>>

\* do_close_internal from sent_tcp or poll_tcp: this time tcp_close succeeds.
CloseRetry(c) ==
    /\ Sane /\ use[c] = "closing"
    /\ use' = [use EXCEPT ![c] = "deleted"]
    /\ UNCHANGED <<events, blocks, handles, app, corrupt>>

\* netconn_free, back in the calling task: op_completed and the structure.
Free(c) ==
    /\ Sane /\ use[c] = "deleted"
    /\ evFree' = <<sem[c]>> \o evFree
    /\ kind' = [kind EXCEPT ![sem[c]] = "unused"]
    /\ sem' = [sem EXCEPT ![c] = NoEvent]
    /\ recvmbox' = [recvmbox EXCEPT ![c] = NoEvent]
    /\ blocks' = <<c>> \o blocks
    /\ use' = [use EXCEPT ![c] = "free"]
    /\ app' = app \ {c}
    /\ UNCHANGED <<queue, acceptmbox, corrupt>>

-----------------------------------------------------------------------------
(* Callbacks of the TCP machine, in tcpip_thread                           *)

\* Mutant: the new netconn starts as a copy of the listening one.
AcceptFunctionCopies(l, c) ==
    /\ Sane /\ use[l] = "listen" /\ Valid(acceptmbox[l])
    /\ CanReceive /\ CanAlloc /\ c = Head(blocks)
    /\ blocks' = Tail(blocks)
    /\ evFree' = Tail(Tail(evFree))
    /\ kind' = [kind EXCEPT ![evFree[1]] = "sem", ![evFree[2]] = "queue"]
    /\ sem' = [sem EXCEPT ![c] = evFree[1]]
    /\ recvmbox' = [recvmbox EXCEPT ![c] = evFree[2]]
    /\ acceptmbox' = [acceptmbox EXCEPT ![c] = acceptmbox[l]]
    /\ use' = [use EXCEPT ![c] = "open"]
    /\ queue' = PostIfValid(acceptmbox[l], c, queue)
    /\ UNCHANGED <<app, corrupt>>
\* accept_function: a peer has connected to listening netconn l.  A mailbox that
\* tests valid has room, so the post does not fail.
AcceptFunction(l, c) ==
    /\ Sane /\ use[l] = "listen" /\ Valid(acceptmbox[l])
    /\ CanReceive /\ CanAlloc /\ Alloc(c)
    /\ use' = [use EXCEPT ![c] = "open"]
    /\ queue' = PostIfValid(acceptmbox[l], c, queue)
    /\ UNCHANGED <<app, corrupt>>

\* recv_tcp with data.  A mailbox that does not test valid counts as deleted: the
\* data is acknowledged and freed.
RecvTcp(c) ==
    /\ Sane /\ use[c] = "open" /\ CanReceive
    /\ queue' = PostIfValid(recvmbox[c], Data, queue)
    /\ UNCHANGED <<evFree, kind, blocks, use, handles, app, corrupt>>

\* recv_tcp with NULL for the peer's FIN, in a segment of its own or after the
\* data of the same segment.
RecvFin(c, last) ==
    /\ Sane /\ use[c] = "open" /\ CanReceive
    /\ use' = [use EXCEPT ![c] = "half"]
    /\ queue' = PostIfValid(recvmbox[c], Eof,
                  IF last THEN PostIfValid(recvmbox[c], Data, queue) ELSE queue)
    /\ UNCHANGED <<evFree, kind, blocks, handles, app, corrupt>>

\* err_tcp: the peer reset the connection; recvmbox gets a NULL if it tests
\* valid, then acceptmbox.  A close that was waiting is answered; what recvmbox
\* names by then is nobody's, or the mailbox of another.
ErrTcp(c) ==
    /\ Sane /\ use[c] \in {"open", "half", "closing"}
    /\ use' = [use EXCEPT ![c] = IF @ = "closing" THEN "deleted" ELSE "reset"]
    /\ queue' = PostIfValid(acceptmbox[c], Eof,
                            PostIfValid(recvmbox[c], Eof, queue))
    /\ corrupt' = IF acceptmbox[c] # recvmbox[c] /\ Valid(acceptmbox[c]) THEN "yes"
                  ELSE IF use[c] = "closing" /\ Valid(recvmbox[c]) THEN "stray"
                  ELSE "no"
    /\ UNCHANGED <<evFree, kind, blocks, handles, app>>

Next ==
    \/ \E c \in Conn :
         \/ Socket(c) \/ SocketRefused(c) \/ Connect(c) \/ Listen(c)
         \/ Accept(c) \/ Recv(c) \/ DelConn(c) \/ CloseRetry(c) \/ Free(c)
         \/ RecvTcp(c) \/ ErrTcp(c)
         \/ \E last \in BOOLEAN : RecvFin(c, last)
    \/ \E l, c \in Conn : AcceptFunction(l, c)

Spec == Init /\ [][Next]_vars

-----------------------------------------------------------------------------
(* Properties                                                              *)

Message == Conn \cup {Data, Eof}
Handle == Event \cup {NoEvent}

\* Every variable has its type; no queue holds more than its ring.
TypeOK ==
    /\ evFree \in Seq(Event) /\ blocks \in Seq(Conn)
    /\ kind \in [Event -> {"unused", "sem", "queue"}]
    /\ queue \in [Event -> Seq(Message)]
    /\ \A e \in Event : Len(queue[e]) <= QSize
    /\ use \in [Conn -> {"free", "none", "listen", "open", "half", "reset",
                         "closing", "deleted"}]
    /\ sem \in [Conn -> Handle]
    /\ recvmbox \in [Conn -> Handle] /\ acceptmbox \in [Conn -> Handle]
    /\ app \subseteq Conn
    /\ corrupt \in {"no", "stray", "yes"}

\* The free lists are sound: an event is in OSEventFreeList exactly when it is
\* unused, and once; a netconn structure likewise.  A second OSQDel or OSSemDel
\* of an event, or one of an event in use, breaks it.
FreeListsSound ==
    /\ TypeOK
    /\ Sane => /\ ToSet(evFree) = {e \in Event : kind[e] = "unused"}
               /\ IsInjective(evFree)
               /\ ToSet(blocks) = {c \in Conn : use[c] = "free"}
               /\ IsInjective(blocks)

\* No two live netconns share an event, and each has a semaphore and a queue of
\* its own: a signal or a message meant for one connection never reaches a task
\* that waits for another.
HandlesExclusive ==
    Sane =>
      \A c \in Conn : Live(c) =>
        /\ sem[c] # NoEvent /\ kind[sem[c]] = "sem"
        /\ Mailbox(c) # NoEvent /\ kind[Mailbox(c)] = "queue"
        /\ \A d \in Conn \ {c} : Live(d) =>
             sem[d] # sem[c] /\ Mailbox(d) # Mailbox(c)

\* The only events ever lost are mailboxes that were full when their netconn was
\* deleted: every other queue is the mailbox of a live netconn, every semaphore
\* belongs to a netconn not yet freed, on all paths of socket, accept and close.
OnlyFullLeaks ==
    Sane =>
      \A e \in Event :
        /\ kind[e] = "queue" /\ Len(queue[e]) < QSize
             => \E c \in Conn : Live(c) /\ Mailbox(c) = e
        /\ kind[e] = "sem" => \E c \in Conn : use[c] # "free" /\ sem[c] = e

\* A connection the peer made is either pending in one acceptmbox, once, or
\* known to the application, and not both: accept hands each out once, and a
\* structure is never reused while it waits to be accepted.
PendingOnce ==
    Sane =>
      \A c \in Conn :
        LET places == Places(c) IN
        /\ Cardinality(places) <= 1
        /\ places # {} => c \notin app /\ Live(c)
        /\ Live(c) /\ c \notin app => places # {}

\* netconn operations touch only mailboxes of their own netconn, and take no
\* message for what it is not.  There is one exception: the NULL that err_tcp
\* posts for a connection whose close waits for memory, and has given its
\* mailbox away.
NoAlienUse == corrupt # "yes"

\* What one would like of that close, and is false: err_tcp posts to nobody's
\* mailbox but its own.
NoStray == corrupt # "stray"

\* Once a netconn is gone, so are the messages left in its mailboxes ("Delete
\* rcvmbox and acceptmbox of a netconn and free the left-over data in these
\* mboxes").
LeftoversFreed ==
    Sane =>
      \A e \in Event : queue[e] # <<>> => \E c \in Conn : Live(c) /\ Mailbox(c) = e

=============================================================================
