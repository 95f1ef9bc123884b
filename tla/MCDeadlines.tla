----------------------------- MODULE MCDeadlines -----------------------------
(* Deadlines.tla with a small second, for TLC. *)
EXTENDS Deadlines
=============================================================================
