----------------------------- MODULE MCEthRing ------------------------------
(***************************************************************************)
(* Small instances of EthRing.                                             *)
(***************************************************************************)
EXTENDS EthRing
=============================================================================
