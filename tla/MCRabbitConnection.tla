------------------------- MODULE MCRabbitConnection -------------------------
(***************************************************************************)
(* A server that is started once and stopped at any time, on a broker with *)
(* a few faults in it.                                                     *)
(***************************************************************************)
EXTENDS RabbitConnection
=============================================================================
