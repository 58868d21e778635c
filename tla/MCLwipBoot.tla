----------------------------- MODULE MCLwipBoot -----------------------------
(***************************************************************************)
(* LwipBoot with the sizes of the firmware, in bytes and blocks of 64.     *)
(***************************************************************************)
EXTENDS LwipBoot

\* 60 KB each.
RealBlocks == [p \in Pool |-> 960]
\* DTCM: two tables of 5 descriptors, 5 receive and 5 send buffers.  Internal:
\* memp_memory, ram_heap, the stacks of tcpip_thread and of the DHCP task.
RealBytes == [p \in Pool |-> IF p = "dtcm" THEN <<160, 160, 7620, 7620>>
                                           ELSE <<15127, 16028, 4000, 512>>]
=============================================================================
