------------------------------ MODULE MCSockpush -----------------------------
(* Sockpush.tla on small instances, for TLC. *)
EXTENDS Sockpush
=============================================================================
