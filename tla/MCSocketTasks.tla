--------------------------- MODULE MCSocketTasks ----------------------------
(***************************************************************************)
(* Small instances of SocketTasks.                                         *)
(***************************************************************************)
EXTENDS SocketTasks

Ordinary == {{"server", "short"}, {"client", "short"}, {"client", "talk"}}
ServerOnly == {{"server"}}
=============================================================================
