------------------------------ MODULE MCCmdDevmgr ----------------------------
(* CmdDevmgr.tla on small instances, for TLC. *)
EXTENDS CmdDevmgr
=============================================================================
