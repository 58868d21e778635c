----------------------------- MODULE MCUartLine -----------------------------
(***************************************************************************)
(* Small instances of UartLine.                                            *)
(***************************************************************************)
EXTENDS UartLine
=============================================================================
