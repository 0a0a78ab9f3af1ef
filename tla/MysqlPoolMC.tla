---------------------------- MODULE MysqlPoolMC ----------------------------
(* MysqlPool for TLC. *)
EXTENDS MysqlPool

CONSTANTS c1, c2
=============================================================================
