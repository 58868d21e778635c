--------------------------- MODULE MCTcpipTimers ----------------------------
(***************************************************************************)
(* Small instances of TcpipTimers: the intervals of the firmware are 250   *)
(* ms (TCP), 1 s and 5 s.                                                  *)
(***************************************************************************)
EXTENDS TcpipTimers

SmallInterval == [h \in Handler |-> CASE h = "tcp" -> 3 [] h = "ip_reass" -> 4
                                      [] h = "arp" -> 8]
=============================================================================
