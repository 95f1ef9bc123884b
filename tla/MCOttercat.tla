------------------------------ MODULE MCOttercat -----------------------------
(* Ottercat.tla on small instances, for TLC. *)
EXTENDS Ottercat
=============================================================================
