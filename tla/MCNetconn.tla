----------------------------- MODULE MCNetconn ------------------------------
(***************************************************************************)
(* Small instances of Netconn.  Events differ only in where they are: the  *)
(* module compares them and never counts with them.  So TLC takes states   *)
(* for one that are the same up to the numbers of the events.              *)
(***************************************************************************)
EXTENDS Netconn

\* All events, in the order in which a list or a handle first names them; an
\* event that neither names any more comes last.
Order == SelectSeq(evFree \o sem \o recvmbox \o acceptmbox \o [e \in Event |-> e],
                   LAMBDA e : e # NoEvent)
Name == [e \in Event \cup {NoEvent} |-> IF e = NoEvent THEN 0
           ELSE CHOOSE i \in DOMAIN Order :
                  Order[i] = e /\ \A j \in 1..(i - 1) : Order[j] # e]
Named(h) == [c \in Conn |-> Name[h[c]]]

UpToEvents ==
    <<Len(evFree), {<<Name[e], kind[e], queue[e]>> : e \in Event},
      Named(sem), Named(recvmbox), Named(acceptmbox), blocks, use, app, corrupt>>
=============================================================================
