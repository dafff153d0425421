---------------------------- MODULE MCBlockQueue ----------------------------
(* BlockQueue for TLC, with competing threads on both sides.  Nobody has to *)
(* call, so a single consumer, as of msg_queue_, is among the behaviours.   *)
EXTENDS BlockQueue
=============================================================================
