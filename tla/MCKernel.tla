------------------------------ MODULE MCKernel ------------------------------
(***************************************************************************)
(* A small instance of Kernel: 1 is tcpip_thread with its mailbox, 3 is    *)
(* Rev_Server_File_task, 2 a task that shares a semaphore with it.         *)
(***************************************************************************)
EXTENDS Kernel

Mailbox == 1
Completed == 2
WaitsOnOne == [t \in 1..3 |-> IF t = 1 THEN {Mailbox} ELSE {Completed}]

\* The console pauses, or interrupts come while it reads, but not both.
Apart == {{"pause", "create"}, {"create", "preempt"}}
Both == {{"pause", "preempt"}}
=============================================================================
