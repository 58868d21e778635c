# Verification of the PLC download firmware

The repository is the firmware of an STM32F765 board that receives the program
of a PLC over Ethernet and stores it in internal flash.  About 3000 lines are its
own (`app`, `hardware`, `malloc`, `system`, `usmart`, `lwip/lwip_app`,
`lwip/arch`); it runs on uC/OS-II (`ucos`) and lwIP 1.4.1 (`lwip/lwip-1.4.1`),
with the vendor's HAL (`drivers`).  This directory holds TLA+ models of the parts
that carry its logic, configurations that check them with TLC, and theorems about
them checked by TLAPS.  `PROJECT.json` maps each definition to the lines it
models, and lists the hazards each property is there for.

## 1. Inventory

| Part | State it keeps | Operations | What makes it correct |
|---|---|---|---|
| **Download** (`lwip_tcp_client_socket.c`, `lwip_tcp_server_socket.c`) | receive buffer, `newLength`, `lastLength`, `flag`, answer | receive, reassemble, check, erase, program, answer; pause, continue, stop | an acknowledged chunk is in flash; one answer per frame; no byte of a frame is taken for another's; the sector bound holds |
| **Flash driver** (`stmflash.c`, `stm32f7xx_hal_flash.c`) | flash bytes, lock bit, cursor | erase sector, write words then bytes | no byte is programmed twice between erases |
| **Mailboxes** (`sys_arch.c`, `os_q.c`, `os_core.c`) | ring with two wrapping pointers, wait list, task control blocks, clock | post, trypost, fetch with timeout, free | FIFO, exactly once, nobody sleeps beside a message, honest timeouts, progress |
| **Netconns** (`api_msg.c`, `api_lib.c`, `memp.c`, `sys_arch.c`) | free lists of events, queues and structures; three handles per connection | socket, connect, listen, accept, recv, close; callbacks accept, recv, err | handles of live connections are exclusive; free lists sound; a pending connection is found once |
| **Memory pools and start-up** (`malloc.c`, `lwip_comm.c`, `lan8720.c`, `main.c`) | allocation tables, pointers, retry count | `mymalloc`, `myfree`, the retry loops | tables exact; the stack never starts with a NULL or shared buffer; failed calls give back whole |
| **Socket tasks** (the same two files, `sockets.c`, `api_msg.c`) | eight tasks named by priority, three global descriptors, the descriptor table, one semaphore per netconn | tasks that create one another and delete themselves; console commands; connect, accept, recv, send, close | a signal reaches the call it answers; no call on a freed netconn; no netconn or descriptor is lost; calls return |
| **Kernel** (`os_core.c`, `os_task.c`, `os_time.c`, `os_sem.c`, `os_cpu_a.asm`) | ready and wait bit maps, task and event control blocks, the pending switch | schedule, switch, tick, suspend, resume, create, delete, pend, post | the tables agree on every task; the most urgent ready task runs; no permit is lost or doubled; a suspended task rests |
| **lwIP timers** (`timers.c`, `tcpip.c`, `sys_arch.c`) | list of relative times, the flag of the TCP timer | set a timer, fetch a message or run the first timer, connections that come and go | no timer is late; setting one moves no other; TCP has one timer while it has connections; every timer has its turn |
| **Ethernet** (`ethernetif.c`, `lan8720.c`, `stm32f7xx_hal_eth.c`) | two descriptor rings, receive flag, one lock for both directions, the pbuf pool | transmit, receive in the interrupt | frames keep their order and none is lost in a ring; the controller is always woken; what stays behind is only what came too late; the interrupt ends |
| **Console** (`usart.c`, `usmart.c`) | one 16-bit status word, a line buffer | receive interrupt, scan in the timer interrupt | a line is executed once, as typed; the index stays in the buffer |
| lwIP TCP/IP, HAL, CMSIS, port, LED, I2C, SDRAM, MPU, PPP, SNMP, unused kernel services | | | third-party, register writes, or compiled out |

How they interact.  The Ethernet interrupt allocates a receive buffer and posts it
to the mailbox of `tcpip_thread` (priority 5, the highest).  `tcpip_thread` runs
TCP and the callbacks, which post to the mailboxes of connections.  The tasks of
the server (8 to 10) and of the client (11 to 15) sit in `accept` or `recv` on
those mailboxes; a call that changes a connection is a message to `tcpip_thread`
and a wait on the connection's semaphore.  The receiving task writes flash
directly.  Console commands run inside the interrupt of timer 4 and so between
any two instructions of any task: they create and suspend tasks and may erase the
sector being written.  `main()` allocates everything before the kernel starts.

What is hard here: TCP cuts frames anywhere while the two reassembly loops count
in 16-bit integers and add the -1 of a failing `recv()` to a length; power may go
between two program operations; a message may meet a task in the moment its
timeout is noted; handles to kernel objects outlive the objects, and the objects
come from free lists; start-up retries over what failed calls left.

## 2. Modules and how they correspond to the code

**`Download`** (module 1).  One frame is in flight, because the peer, which is
outside the repository, waits for each one-byte answer.  Bytes in flight and bytes
received are counts of bytes of the frame `cur`; `Aligned` states the fact that
makes this exact.  `Recv`, `RecvMore`, `Abandon` are the two receive loops (how
many bytes `recv()` returns is free), `Verdict` and `RefuseFrame` the checks in the
code's order, `EraseForFile` index 0, `BeginWrite`/`WriteWord`/`WriteByte`/
`EndWrite` the loops of `STMFLASH_WriteDate` with one program operation per step,
`SendAck` and `Close` the end.  `Client = TRUE` is `Rev_Server_File_task` (signed
lengths, leaves after a refusal), `FALSE` is `Rev_file_task`.  Flash bytes hold the
byte of the file they were meant to hold, or are blank or garbled; programming over
anything but a blank byte garbles, a byte that `memset` left zero is garbled too.
Events of the surroundings (reset of the connection, loss of power, failing
operation, the console's erase, pause, stop) are bounded by `Budgets`, a set of which a behaviour draws one.

**`FileTransfer`** is what the download promises: a set of chunks stored and a set
acknowledged; a chunk is acknowledged only when stored, and only an announcement
takes chunks away.  `Download` maps itself to it (`stored` is the set of chunks that
are in flash byte for byte), `server` checks the refinement and `DownloadProofs`
proves it.

**`Mailbox`** (module 2).  One lwIP mailbox on one uC/OS-II queue, with the wait
list, the tick and the priority rule.  A step is what runs with interrupts off; the
tick and the Ethernet interrupt come between any two.  `MayRun` is the scheduler: a
task steps only if no task above it is ready.  The same module is the mailbox of
`tcpip_thread` and that of a connection, by its constants.

**`Netconn`** (module 3).  Free lists of events and structures are sequences, since
their LIFO order decides which stale handle meets which new object.  `Valid` is
`sys_mbox_valid` as the port has it (false for a full mailbox), and a freed mailbox
keeps its handle because `sys_mbox_set_invalid` assigns its own parameter.  A
connection whose `tcp_close` finds no memory is `closing`: its mailbox is gone, its
callbacks but `recv_tcp` are armed again, and `CloseRetry` or `ErrTcp` ends it.
`corrupt` records that an operation touched the mailbox of another connection
(`"stray"`: with the NULL of `err_tcp` for such a close; `"yes"`: in any other way);
what the code would do after that is not followed, and the properties speak of
states before it.

**`BlockPool`**, **`LwipBoot`** (module 4).  `BlockPool` is the allocator of
`malloc.c` as operators on a table; `LwipBoot` the loop of `main()` around
`lwip_comm_init()`, one allocation or free per step.  `held` records what was
allocated and not freed; the code keeps no such list, which is why the properties
compare it with the tables.

**`SocketTasks`** (module 5).  A task is its priority; `pc` says which call it is in
and `at` how far: the message to `tcpip_thread` is handled before the caller waits,
since `tcpip_thread` outranks it, so a call is `posted` (the handler has run), then
`asleep` or `back`.  `cur` is `current_msg`: the one call a netconn leaves open for a
callback (`Established`, `WriteDone`, `CloseDone`, `Aborts`).  `MayRun` is strict
priority; console commands come between any two steps.  `Next` has each command as
the code has it, which tests nothing: a command whose task has not ended does nothing,
and every other one creates it.  `OrderlyCommands` says apart from that when the
commands may be typed (section 4); the run `tasks` and the theorems are about
`OrderlySpec`, `server_dead` is about `Spec`.  `Strays` are the mailboxes to which the
NULL of `err_tcp` may go when it comes through the handle of a deleted one.  Frames
are in `Download`: here a receiving task gets data, the end of the stream or a refusal,
and each of `AfterData` and `AfterError` may follow.

**`Kernel`** (module 6), with **`Semaphores`** as what its semaphores promise.  A
call is two steps, the critical section and `OS_Sched` after it (`due`), because
interrupts come between them; `PendSV_Handler` is a third, pending until `tim4` is
over.  `tim4` is the console in the interrupt of timer 4: it has the priority of
PendSV, executes one command, and does not count itself in `OSIntNesting`.
`OSTaskDel` is cut where it opens interrupts (`OS_Dummy`), and its OS_TCB is on the
free list while the task still runs: `heir` is the task that got it.  `Mailbox`
treats the same kernel functions for queues, with its own wait list; `SocketTasks`
takes semaphores and priorities for granted, which is what `Kernel` shows of them.

**`EthRing`** (module 7).  The controller (`Store`, `Suspend`, `Send`, `TxSuspend`)
stores and sends between any two steps of the others and stops when its next
descriptor is not its own.  `ETH_IRQHandler` is `Interrupt`, then `Look`, `Take`,
`Resume`, `Post` until the ring is empty, then `Clear`; it interrupts
`tcpip_thread` (`Handle`, and `Copy`, `Lock`, `Give`, `Demand` of a frame it sends)
between any two steps and is not interrupted by it.  `Clear` takes the flag away
whatever has arrived since the last `Look`; `late` counts that, and `MaxLate` bounds
it, since a few instructions lie between.  A frame is its number.

**`TcpipTimers`** (module 8), with **`AlarmClock`** as what it promises.  `list` is
`next_timeout`, each time counted from the entry before it; `Inserted` is
`sys_timeout`.  `tcpip_thread` is in `Fetch`, then a `Message` or `Expire` ends the
wait; `Register`, `Unregister` and `Handled` are what a message may do.  `Elapsed` is
what `sys_arch_mbox_fetch` answers: one too many, and 4294967 in the tick of the call
(`SameTick`).  Time is only counted while `tcpip_thread` waits, as in the code; the wrap
of `OSTime` after 49 days meets the same branch as `SameTick` and is left out.

**`UartLine`** (module 9).  `sta` is `USART_RX_STA`, one number of 16 bits with the index
and both marks in it; `Index`, `HasCR` and `IsDone` are the masks.  `USART1_IRQHandler`
is `Interrupt`, where `HAL_UART_IRQHandler` reads the flags of the receiver,
`ClearOverrun`, `Take` (with `Received`, the callback) and `Rearm`, since bytes
arrive between these; `TIM4_IRQHandler` is `ScanBegins` and `ScanEnds`, with the command
in between.  Neither interrupts the other: both have priority 3, 3.  `rdr` is the one
byte the receiver keeps, `ore` its overrun flag.  What the user typed is history:
`Typed` says what he means by a byte, and `clean` that his line began at a console at
rest and lost nothing, which only lines typed while nothing runs can claim.

## 3. Runs

| Run | Instance | What it shows |
|---|---|---|
| `server` | 3 files, 2 connections, a second file, a wrong PLC number, a power loss | alignment, one answer per frame, `FileTransfer` is implemented |
| `client` | 2 files; 2 connections with a fault, an erase from the console and a power loss, or 1 with a wrong PLC number and all commands; fair receiver | acknowledged chunks stay; nothing is written behind the sector; no byte is programmed twice; every frame is answered, every loss noticed |
| `mbox` | 2 fetchers, one of which also spins on a full mailbox, `tcpip_thread` above them, an interrupt, 2 slots, 3 messages, freeing | FIFO, exactly once, no forgotten sleeper, honest timeouts; every post and every timed fetch returns |
| `netconn` | 3 netconns: listener and connections, some of them the client's; 6 events, 3 queues of 3 slots, 3 receive buffers, sockets refused, closes that wait for memory | free lists sound, only full mailboxes are lost, handles exclusive, connections pending once, no foreign mailbox but for one NULL |
| `boot` | real pools and sizes, every failure of the PHY | tables exact; the stack starts whole; give-back is whole |
| `tasks` | 3 netconns; the server over 2 connections, or the client with 3 commands as `OrderlyCommands` allows; memory that runs short | signals match calls, nothing is used after it is freed or lost, `connect()` is honest, calls return |
| `server_dead` (violation) | 1 connection that is reset before `accept()` returns | the server has no task left |
| `kernel` | 3 tasks, a semaphore posted from an interrupt and a shared one, ticks, deletion, tasks created and suspended from timer 4 | tables agree, the most urgent task runs, `Semaphores` is implemented, timed waits end |
| `kernel_pause` (violation) | as `kernel`, and interrupts come while a suspension is typed | a suspended task runs, and cannot be resumed after |
| `ring` | rings of 3 and 2, mailbox and pool of 2, 5 frames in and 3 out, one that comes late | order, wake-ups, what is left behind; the interrupt ends unless it met the lock |
| `line` | a buffer of 3 bytes, one letter and CR and LF, typed at any moment | nothing is stored outside the buffer, a line runs as typed and once, reception never stops |
| `timers` | the three timers with intervals 3, 4 and 8, `SameTick` 9, 2 connections | `AlarmClock` is implemented, no timer is late, one TCP timer, every timer has its turn |

Type invariants that TLAPS proves (section 5) are not checked again; those of
`Netconn`, `SocketTasks` and `TcpipTimers` are conjuncts of `FreeListsSound`,
`SignalsMatch` and `NeverLate`.

Bounds and why they are enough.  A frame has 2 header bytes, a chunk 3, a word 2:
the smallest sizes in which a header can be cut, a chunk has a whole word and a
tail, and a frame is cut at header and payload.  The sector is 8 bytes and ends
inside chunk 3, as the real one ends inside frame 188; files end before, at and
behind that byte.  Lengths wrap at 16, more than twice a frame as 2^16 is.  Two
connections show what one leaves to the next.  Two slots and three messages wrap both
pointers; three tasks are two rivals and the task above them; a clock of three
values wraps.  Three netconns are a listener, one in use and one that takes over its
parts; in `tasks` they are the listener, a connection and one that is pending or
fails.  Three tasks in `kernel` are the most urgent, one that delays, ends and is
created again, and one that is suspended; two semaphores are one from an interrupt,
which is never deleted, and one that two tasks share and delete.  `MaxCount` 2 and
`MaxDly` 2 let a count meet its limit and a timeout be noted or still run.
Rings of 3 and 2 with 5 and 3 frames fill, wrap and suspend the controller, and a pool
and a mailbox of 2 run out while the ring holds one more.  The intervals of `timers` share some
ticks and not others, and `SameTick` is over all of them as 4294967 is; every message
and connection is free, so nothing is cut there.  A buffer of 3 bytes has lines that are
empty, that end short of the limit, at it and behind it; LF before CR is text, so one
letter is enough to tell lines apart, and nothing is cut in `line` either.  `boot` needs no reduction.
`MaxPosts`, `MaxWait`, `Budgets`, `MaxCmds`, `MaxPeers`, `MaxIdx`, `MaxFrames` and
`MaxSent` are the bounds on counters; they cut behaviours, not values.  `netconn`
takes states for one that differ only in the numbers of kernel events (`VIEW`), which
the module compares and never counts with.

Deadlock.  `mbox`, `kernel`, `timers` and `line` are checked for it.  `Download`, `Netconn`,
`LwipBoot`, `SocketTasks` and `EthRing` stop when budgets are spent or the system is up, so
their configurations say `CHECK_DEADLOCK FALSE`.

Fairness.  `client` assumes weak fairness of the receiving task: its step is enabled
when it has data or an error to read, the tasks above it block after bounded work,
and `recv()` wakes it.  The peer is not assumed fair.  `mbox` assumes that ticks
keep coming and strong fairness of each task's step: a task that is again and again
the first ready one gets on, since a step takes microseconds and a tick a
millisecond.  Nobody is obliged to post, fetch or free.  `tasks` assumes that some
ready task runs and that TCP ends what it holds open: a SYN is answered or given up,
a write or close that wants memory gets it.  `kernel` assumes that the handler of
timer 4 ends, and strong fairness of task steps, PendSV and ticks, each of which the
others interrupt but do not keep out; no particular task is assumed to get on.  `ring`
assumes that a pending interrupt is taken and worked through (it has the highest
priority), that the controller sends what it owns, and that `tcpip_thread` finishes a
frame; no frame has to arrive.  `timers` assumes that `tcpip_thread`, the task of highest
priority, runs and that ticks come; messages come or do not.  `line` assumes that a
command returns and that each of the two interrupts, which stay pending until they are
served, is taken if it is again and again the only one that may be: of two that are
pending timer 4 comes first (30 before 37), but only once in its period.  Nobody has
to type.

Each property has a mutant, a definition changed as a plausible slip would change
it, under which the run finds the property violated; they stand beside the
definition they change, marked `Mutant`.

## 4. What the models show of the code

- The two reassembly loops are right for a peer that waits for answers, also when
  `recv()` fails inside a frame: the -1 is added to the length, the 16-bit result
  ends in the too-long test, and the frame is dropped with the connection.
- `STMFLASH_WriteDate` ignores failing program operations and the chunk is
  acknowledged: `AckMeansStored`, added to `client.cfg`, is false.  `AckedIsStored`
  therefore exempts chunks whose failure the console reported, and the sector once its
  erase failed or was typed.
- Only index 188 is tested against the end of the sector.  `SectorHeld` holds for a
  peer that sends its frames in order and ends the file when answer 0x05 refuses one.
- A fetch served in the tick of the call returns 2^32-1 as the time waited
  (`ElapsedIsTime`, added to `mbox.cfg`, is false, though the comment at
  `sys_arch.c:105` promises the time waited); lwIP's timers take it for elapsed.  So the first timer runs at once,
  as often as such messages come; `NeverLate` and `ImplementsAlarmClock` show that this
  makes timers early only, and leaves their order and distances alone.
- The Ethernet interrupt that comes while `tcpip_thread` is inside
  `HAL_ETH_TransmitFrame` hangs the board: one lock serves both directions, so
  `HAL_ETH_GetReceivedFrame` answers HAL_BUSY, the frame stays, and the loop of
  `ETH_IRQHandler` looks at it for ever, above the task that would release the lock.
  `InterruptEnds` has the exception `lock` for this alone; without it TLC shows the
  loop.
- A frame that arrives between the last look of `ETH_IRQHandler` and the clearing of the
  flag waits for the next one (`OnlyLateLeft`: such frames and no others).
- `low_level_output` ignores what `HAL_ETH_TransmitFrame` answers.  No frame is lost by
  it: it has tested the descriptor itself, and no interrupt returns inside the lock.
- `sys_mbox_set_invalid` does nothing: with `CloseListener = TRUE` in `netconn.cfg`
  `NoAlienUse` is false: the listener's `recvmbox` handle names its acceptmbox by then,
  and pending netconns are drained as buffers.  `sys_mbox_valid` refuses full mailboxes: `LeftoversFreed`, added to
  `netconn.cfg`, is false, as a connection closed with a full mailbox loses it and
  its messages.  Nothing but a full mailbox is lost
  (`OnlyFullLeaks`).  As long as no listening socket is closed, connections stay apart
  with one exception (`NoAlienUse`).  When `tcp_close` finds no memory for its segment,
  `do_close_internal` arms `err_tcp` again for a netconn whose mailbox `netconn_drain`
  has freed.  A reset before the next try then posts NULL through the stale handle,
  and if the event has gone to another connection, that one reads an end of stream:
  `NoStray`, added to `netconn.cfg`, is false in seven states.  What comes after such
  a NULL is not followed in `Netconn`; `SocketTasks` follows it as an end of stream in
  any connection's mailbox (`Strays`).
- Any failing `accept()` ends the server (`server_dead`): `Rev_file_task` preempts the
  `Connect_client_task` that created it, fails at once, and cannot create it again
  because its priority is still taken; nobody looks at the result of `OSTaskCreate`.
- A task that the console suspends after an interrupt has chosen it runs all the same,
  and its suspension is forgotten while its ready bit stays clear (`kernel_pause`):
  the download hangs.  `PausedRests` proves that this is the only way.
- Between the two halves of `OSTaskDel` a task created from the console gets the
  OS_TCB of the one that ends, and PendSV saves the context of the dead task in it: the
  new task never executes its function.  The tables stay in order (`TablesAgree`), so
  nothing else is hurt.
- No command of the console looks at what is under way, and typed at the wrong moment
  they break the client and the server.  `tasks` and the theorems about it therefore
  keep to a discipline, which nothing in the code enforces.  Each part of it is needed;
  what TLC finds without it, with `Spec` in place of `OrderlySpec` or with the use added
  to `Uses`:

  | Kept to | What happens otherwise | False then |
  |---|---|---|
  | server or client, not both (`Uses`) | `Init_Client_task` closes descriptor 0, the listener, at its first start | `NoUseAfterFree`, `SignalsMatch`, `NoSocketLost` |
  | words only with memory for segments (`Uses`) | a second `do_write` is refused and its signal wakes the task of the first | `SignalsMatch` |
  | no `Send_File_Name` or `Stop_Download` while the SYN is out (`Writing`) | `do_write` refuses, and its signal releases `connect()`, which reports success; the call it answered is left open | `SignalsMatch`, `ConnectIsHonest` |
  | nor between `netconn_delete` and `free_socket` (`Writing`) | the descriptor still names the freed netconn, and `send()` uses it | `NoUseAfterFree` |
  | no `Init_Client` while the chain it started is at work (`Starting`) | `Init_Client_task` deletes the netconn on which `connect()` or `recv()` is, and the other task deletes it again | `NoUseAfterFree`, `SignalsMatch` |
  | no `Socket_init` while the server listens | `sock_fd` is overwritten, `bind()` is refused, the new socket belongs to nobody | `NoSocketLost` |

  Everything else is free: a start typed again before its task has run, words before a
  session, at each moment of it and after it, pausing and resuming at any moment, also
  while `Rev_Server_File_task` closes its socket.
- A PHY that fails six times leaves 559 of 960 blocks taken: the second call of
  `lwip_comm_init()` cannot get its heap, gives back exactly what it took
  (`AllOrNothing`), and so does every later one.  The board never comes up
  again, and `boot` has no state with `pc = "up"` after a failed call.
  `StartsWhole` thus rests on the sizes: ETH_Mem_Malloc tests the addresses of
  its pointers, and only the exhausted internal pool keeps the stack from starting
  with a NULL transmit buffer.  `DtcmFollows` says exactly what the sizes must keep.
- The line editor keeps its promise for a line typed at a console at rest.  A byte that
  comes while a command runs waits in the receiver if it is the first and is lost if it
  is not, so what is left of such a line may be executed as a line of its own once its
  CR LF comes (`RunsAsTyped` and `ConsoleAnswers` claim nothing else of it).  A line of
  `USART_REC_LEN` bytes, and a CR without LF, start over without a word.

## 5. Theorems

All are proved for every value of the constants that satisfies the module's named
assumption (sizes positive, the width more than twice a frame, requests not empty).
Some need more, as a hypothesis in their statement: those of `KernelProofs` but the
first and those of the line editor (`NoPreemptedPause`), those of `SocketTasksProofs` (`UsesApart`, and they
are about `OrderlySpec`), `TransferImplemented` (`FlashWorks`), `NoAlien` (`CloseListener = FALSE`) and
`StartIsWhole` (`DtcmFollows`).

| Module | Theorem | Property |
|---|---|---|
| `DownloadProofs` | `TypeCorrect` | `TypeOK` |
| | `FramesAligned` | `Aligned` |
| | `AnswersInStep` | `OneAnswer` |
| | `LengthCheckIsDead` | `NeverWrongLength` |
| | `AcknowledgedIsStored` | `AckedIsStored` |
| | `ImageInsideSector` | `SectorHeld` |
| | `ProgramsErasedOnly` | `NoOverprogramming` |
| | `TransferImplemented` | `ImplementsTransfer` |
| `MailboxProofs` | `TypeCorrect` | `TypeOK` |
| | `MailboxIsFifo` | `FifoExact` |
| | `NoSleeperForgotten` | `NobodyForgotten` |
| | `MessagesReturnedOnce` | `ExactlyOnce` |
| | `RepliesAreHonest` | `HonestReply` |
| `NetconnProofs` | `NetconnSound` | its invariant |
| | `ListsAreSound` | `FreeListsSound` |
| | `HandlesAreExclusive` | `HandlesExclusive` |
| | `LeaksAreFull` | `OnlyFullLeaks` |
| | `PendingIsOnce` | `PendingOnce` |
| | `NoAlien` | `NoAlienUse` |
| `SocketTasksProofs` | `TypeCorrect` | `TypeOK` |
| | `SignalsAreMatched` | `SignalsMatch` |
| | `CallsAreOnLive`, `FreedAreClean` | the two halves of |
| | `NothingUsedAfterFree` | `NoUseAfterFree` |
| | `SocketsAreKept` | `NoSocketLost` |
| | `ConnectsAreHonest` | `ConnectIsHonest` |
| `LwipBootProofs` | `TypeCorrect` | `TypeOK` |
| | `TablesExact` | `PoolsConsistent` |
| | `CallsAreWhole` | `AllOrNothing` |
| | `StartIsWhole` | `StartsWhole` |
| `KernelProofs` | `TypeCorrect` | `TypeOK` |
| | `TablesInOrder` | `TablesAgree` |
| | `MostUrgentRuns` | `RunsHighest` |
| | `PausedRests` | `SuspendedRests` |
| | `PermitsKept` | `ImplementsSemaphores` |
| | `LineTypes` | `LineTypeOK` |
| | `LineStaysInside` | `StaysInside` |
| | `LinesRunAsTyped` | `RunsAsTyped` |
| `EthRingProofs` | `TypeCorrect` | `TypeOK` |
| | `RingsKeepOrder` | `FramesInOrder` |
| | `NobodySleepsOn` | `NoLostWakeup` |
| | `OnlyLateFramesWait` | `OnlyLateLeft` |
| | `PbufsComeBack` | `NoPbufLost` |
| `TcpipTimersProofs` | `OneTcpTimer` | `TcpTimerRuns` |
| | `NoTimerIsLate` | `NeverLate` |
| | `TimersAreAnAlarmClock` | `ImplementsAlarmClock` |

*Download.*  `TypeOK` needs only that a sum of two lengths stays within `Width`.  The
safety properties follow from `IInv`, built in two layers.

- `LinkInv` does not mention the flash.  `Turn` says that a frame is on its way in, in
  the task, or on its way out as an answer, never two of these; `Outstanding` that the
  frame the peer waits on is the one it means to send, and that no frame behind the
  sector is sent; `Buffered` that buffer and stream add up to the frame; `LengthsOK`
  (in it) that the two length variables are exact until `recv()` fails and too small
  from then on, until the 16-bit result is over the size of the buffer.  This last part
  carries the argument about the -1: `LengthAfterError` shows that each error makes the
  length strictly smaller or ends the frame, so that `ReceivedWhole` holds: a frame
  found complete has arrived completely.
- `FlashInv` is needed because `AckedIsStored` says nothing of the bytes a chunk is
  about to be written over.  `TurnInv` adds that the chunk on its turn, and all behind
  it, are blank and not acknowledged (`Untouched`), `WriteInv` that while a chunk is
  written the bytes behind the cursor are blank and those before it are right (`Done`).
  `AddrApart` and `ChunkInSector` are the address arithmetic: chunks are disjoint, and
  what passed the test of index 188 lies in the sector.  `WritesOn` is then the step
  of the word and the byte loop alike, `FlashPowerLoss` the torn one.

`DownloadAssumption` asks beside the sizes that the last frame does not fit whole
behind index `LastIdx` (344 < 1400 in the code); otherwise the peer could go on to
the next index without a refusal.

`TransferImplemented` is a step simulation over `IInv`: what `recv()`, the loops and the
answers do is a stutter, `EraseForFile` an announcement, the last byte of a chunk
stores it and `SendAck` acknowledges it.  `FileTransfer` promises that nothing but an
announcement takes a chunk away, which the code keeps only while the flash takes what it
is given and nobody erases it from the console.  `FlashWorks` says this of `Budgets`, and
`NoTrouble` carries it through the steps; power losses, resets and every other event are
free.  Without `FlashWorks` the theorem is false, as section 4 says of `AckMeansStored`.

*Mailbox.*  `FifoExact` needs `NobodyForgotten` (a message is handed over directly
only when the ring is empty).  `ExactlyOnce` and `HonestReply` need the link between
program counters and control blocks: who holds a message is out of the wait list or
about to look at it, and a noted timeout has used up its ticks.  The proofs go one
action at a time, with lemmas for the kernel operations they share.

*Netconn.*  `Sound` is the invariant, and each of the properties follows from some of its
parts.  `Lists` are the two free lists; `Sems` and `Boxes` say that each netconn has its
own semaphore and, while it lives, its own mailbox, although two handles may name one
event; `Leaks` that a mailbox nobody owns is full, so that `sys_mbox_valid` refuses it for
good and a stale handle to it does no harm; `Messages` who may hold which message;
`Known` and `Pending` where a connection that nobody has accepted is.  The parts need
each other: that `netconn_free` puts an event back once needs `Sems` and `Boxes`, these
need that the head of the free list is nobody's, and that draining a listener frees each
pending netconn once needs `Pending`.  Everything is claimed until `corrupt`, as in the
module; `NoAlien` shows that `corrupt` is never `"yes"` while no listener is closed
(`CloseListener = FALSE`, which is all the firmware does), because then no netconn but
a listener has an acceptmbox handle (`NoStaleBox`).  The `"stray"` NULL of a close that
waits is not excluded: it happens.

*SocketTasks.*  The theorems assume the discipline of section 4 in two parts.
`UsesApart` is about what a board is used for: no use has both the client and the
server, and the words of the server's user are typed on a client with memory for its
segments.  `OrderlySpec` is `Spec` with each command typed when `OrderlyCommands`
allows.  Peers, resets, retries and priorities are as in `Spec`; all other uses are
free, whatever `Uses` says, and so are the numbers of netconns, descriptors and
commands.  `IInv` has three layers.

- `Places` and `InCalls` say which labels a task can be at and inside which call.
- `CallInv` is about netconns.  `Counts` is that `op_completed` counts the answers not
  yet waited for (`Owed`), `Open` that a message stays in `current_msg` exactly while
  the state says so, that its task waits or is about to, and that nobody else is owed
  anything then.  This is why a signal goes to the right task.  `Gone` is what
  `do_delconn` leaves, and why `netconn_delete` frees nothing that TCP still holds.
- `Shape` says who holds which netconn: `ServerShape` that each is the listener, waits in
  it, is the one accepted just now, or is that of `sock_conn`; `ClientShape` that the one
  netconn goes from `Init_Client_task` through `Connect_Server_task` to
  `Rev_Server_File_task`.  Which of the two holds is settled by `use`.

The layers need each other: that an open call is the only one on its netconn
(`OpenIsSolo`) comes from the shape, that the shape outlives a close comes from `Gone`.
Priorities are part of the argument (`Turns`): `sock_conn` is handed over safely only
because `Rev_file_task`, the more urgent one, has copied it before `Connect_Client_task`
can run again and accept into it.  And the tasks that talk for the user, whose calls
never sleep (`TalkIsQuiet`), have ended whenever one of the less urgent tasks of the
client takes a step (`Turns`): so a word that was begun before the SYN is over when
`connect()` sends it, and one begun in a session when its netconn is deleted.

*LwipBoot.*  `PoolsConsistent` alone is not inductive: `lwip_comm_mem_free()` clears
what its pointers say, so the invariant adds `PtrsOK`: each pointer still to be freed
is NULL, the start of an allocation, or a block already free.  `MallocKeeps` shows
that the topmost free run is disjoint from every allocation, `LwipMemFreeIInv` that a
free clears exactly one or nothing.  `AllOrNothing` needs to know which allocation belongs
to which call, though the code keeps no such thing: `WholeCalls` says that there is a set
that is what whole calls hold, and that the pointers lead to exactly the rest.

`StartsWhole` is about the real sizes, and not true of all: with a small DTCM pool the
stack would start with a NULL buffer.  `DtcmFollows` is what it needs: no request is
empty, and as many whole calls as fit into the internal pool fit into the DTCM pool too.
`Stage` carries it: as nothing but whole calls is ever left behind, what is taken of a
pool is one run at its top (`Packed`), so a request is refused only if the pool is too
small for all before it (`MallocPacks`); and once a call has been refused, every later
one meets the same pools and is refused as well, whatever it gives back.  `Own` says
that the pointers of the call in progress lead to distinct allocations.

*Kernel.*  All but `TypeCorrect` assume `NoPreemptedPause`: no use of the board has
the console suspend while other interrupts come in between, which `kernel_pause`
shows to be needed.  The tables and the scheduler need each other, so `IInv` has both
halves.  `Tables` adds to `TablesAgree` that only a task that exists has a program
(`PcLive`) and that who is in a wait list and does not wait has used up its timeout
(`TimedOut`), without which `PendReturns` could leave a task listed.  `Choices` says
when a decision to switch is up to date (`Decided`), that nothing is decided inside
`OSTaskDel` (`DelHolds`), that a suspension meets no pending switch (`ScanAlone`), and
where the heir of an OS_TCB is (`HeirWaits`).  `WhoRunsIsReady` joins them: whose code
is executed is ready, hence in no list, neither suspended nor delayed.  `PermitsKept`
is a step simulation: `Answered` adds that who was granted a permit can no more time
out, and then each action is one of `Semaphores` or unseen by tasks.

*EthRing.*  Both rings are one structure: `Position` says that the producer is as far
from the consumer as there are descriptors handed over and not taken back, `Holds` that
these are consecutive and hold consecutive frames; `RingPut`, `RingGet`, `RingFull` and
`RingEmpty` are proved once and used for both.  `HandlerInv` and `ThreadInv` add what
the program counters know: the handler has found a frame it is about to take, it
clears only what came since its last look, and the thread holds the lock exactly inside
`HAL_ETH_TransmitFrame` and hands over a descriptor that is free.  `OnlyLateLeft` needs
`MaxLate < RxN`: otherwise a whole ring might come late.

*TcpipTimers.*  A list of differences is read through `TimeTo`, the sums along it.  It is a
recursive function, so the lemmas about it are proved by a smallest counterexample
(`Smallest`): `SumsExist` and `SumsUnique` that it is well defined, then what is done to
it by taking the first entry off (`TailTimers`), cutting the first difference
(`CutTimers`) and `sys_timeout` (`InsertedTimers`, which is the correctness of its loop:
the new timer is due when it should be and no other one moves).  `OnTime` is the
invariant: what a timer has waited and what it has left add up to at most its interval,
and exactly to it as long as no message came; with the ticks of the wait in progress,
which the list does not know of yet.  `NeverLate` follows, and so does the refinement: `Left`
is `DueIn`, a message is `Pass`, an expiry `Ring`, a new connection `Set`.

*UartLine.*  A byte that was typed is in the editor or waits in the receiver.  So the
invariant says that the editor holds what the user has typed (`Synced`), or, while a
byte waits, what he had typed before it (`Follows`); `Awaits` is the same of a line he
has ended.  `LineAfter` and `KeyAfter` are the user's side of `Received`, and
`TakeKeeps` shows that the two agree for each byte.  `Word` bounds the index by the
length test and says that the upper mark comes last; `WordRead` and `WordWritten` are
the arithmetic of the one word, that the three parts can be read back after each write.
`Entered` is why nothing runs twice.  They are in `KernelProofs`.

Model-checked only: liveness (`NeverStuck`, `NobodyStuck`, `CallsReturn`,
`HighestReturns`, `InterruptEnds`, `TimersFire`, `ConsoleAnswers`), which is out of the prover's reach.  Every other property of a passing
run has a theorem.

## 6. Not modelled, and why

- TCP itself, ARP, IP: third-party; the models take an ordered stream that may end or
  be reset, and the callbacks lwIP makes.
- Peers that send before they have an answer: data behind an announcement would be
  dropped with the buffer; `Aligned` is exactly what would be lost.
- Both builds of the download at once: server and client task may run together and
  write one sector.  `SocketTasks` shows that they do not even share the descriptor
  table; what they would write is not followed.
- `select`, UDP, the send queue of a netconn: the firmware writes single bytes and
  names.
- uC/OS-II mutexes, flags, message mailboxes, timers, `OSSchedLock`,
  `OSTaskChangePrio`: no caller in the firmware.
- The test of `OSEventType` in front of the critical sections of `os_q.c` is one step
  with them in `Mailbox`.
- Numbers and names on the console, printing, colours of LEDs: text and wiring.
- Frames over several descriptors (none is larger than one), underflow in transmission
  (the controller stores a frame before it sends it), the registers of the PHY.
- `sys_untimeout`: no caller in the firmware.
- Frame and noise errors on the serial line (the HAL clears the flag and takes the byte)
  and the ends of the wait loops in `USART1_IRQHandler`, whose conditions hold at once.
- Register sequences of HAL, SDRAM, MPU, I2C: no state a property could be about.

## 7. Plan

1. *Done*: `Download`, `FileTransfer`, `Mailbox`, `Netconn`, `BlockPool`, `LwipBoot`,
   `SocketTasks`, `Kernel`, `Semaphores`, `EthRing`, `TcpipTimers`, `AlarmClock`, `UartLine`
   and the theorems above.
2. `Mailbox` with the test of `OSEventType` as a step of its own.

The suite is kept to about a dozen runs so that it can be run at each change; a new
run takes the place of one that it subsumes.
