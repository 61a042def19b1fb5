------------------------------ MODULE MCHystrix ------------------------------
(***************************************************************************)
(* Two buckets of two ticks, so that samples fall into either half of a    *)
(* bucket; two callers, so that a late Mark can meet a trial.              *)
(***************************************************************************)
EXTENDS Hystrix

CONSTANTS a, b

TwoClients == {a, b}
=============================================================================
