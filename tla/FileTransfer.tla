---------------------------- MODULE FileTransfer ----------------------------
(***************************************************************************)
(* What the download promises the peer, without frames, buffers or flash   *)
(* bytes: a set of chunks that are stored and a set of chunks that were    *)
(* acknowledged.  A chunk is acknowledged only when it is stored, and only *)
(* the announcement of a file takes stored chunks away.                    *)
(***************************************************************************)
CONSTANT Chunk
VARIABLES stored, acked

TransferTypeOK == stored \subseteq Chunk /\ acked \subseteq Chunk

TransferInit == stored = {} /\ acked = {}

\* Erasing may be cut short by a loss of power.
Announce == acked' = {} /\ stored' \subseteq stored

Store(c) == c \notin stored /\ stored' = stored \cup {c} /\ acked' = acked

Acknowledge(c) == c \in stored /\ acked' = acked \cup {c} /\ stored' = stored

TransferNext == Announce \/ \E c \in Chunk : Store(c) \/ Acknowledge(c)

Transfer == TransferInit /\ [][TransferNext]_<<stored, acked>>
=============================================================================
