----------------------------- MODULE MCCardCharge -----------------------------
(* CardCharge with few requests. *)
EXTENDS CardCharge
=============================================================================
