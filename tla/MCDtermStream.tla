----------------------------- MODULE MCDtermStream ---------------------------
(* DtermStream.tla on small instances, for TLC. *)
EXTENDS DtermStream
=============================================================================
