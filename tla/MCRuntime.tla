----------------------------- MODULE MCRuntime -----------------------------
(***************************************************************************)
(* Small instances of Runtime for TLC.  The cfg files give the channels,   *)
(* the contents that need a membership report and the bounds:              *)
(*                                                                         *)
(*   boundary_faults    two requests or changes, one fault, no restart     *)
(*   boundary_restart   one request over two channels, a fault, a restart  *)
(*   delivery_ids       two requests and a restart                         *)
(*   liveness           one request and one observation, a fault, fairness *)
(*   deferred_save, drain_order   what the documentation says otherwise    *)
(***************************************************************************)
EXTENDS RuntimeInvariant
=============================================================================
