---------------------------- MODULE MCOrderFlow ----------------------------
(* Every way to give five orders to two traders, with a window of two slots, *)
(* so that each slot is used more than twice.                                *)
EXTENDS OrderFlow
=============================================================================
