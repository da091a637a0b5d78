-------------------------- MODULE MCPendingWrites --------------------------
(* PendingWrites for TLC: its tasks are model values the configurations name. *)
EXTENDS PendingWrites, TLC
=============================================================================
