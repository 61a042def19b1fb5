--------------------------- MODULE MCEtcdRegistry ---------------------------
(***************************************************************************)
(* Two goroutines that call the registrar of one instance.                 *)
(***************************************************************************)
EXTENDS EtcdRegistry
=============================================================================
