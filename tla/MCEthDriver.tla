---------------------------- MODULE MCEthDriver ----------------------------
(* Small instances of EthDriver. *)
EXTENDS EthDriver
=============================================================================
