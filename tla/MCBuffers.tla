------------------------------ MODULE MCBuffers ------------------------------
(* Buffers.tla with small buffers, for TLC. *)
EXTENDS Buffers
=============================================================================
