--------------------------- MODULE MCNetworkReset ---------------------------
(* Two traders; the second file exchanges their ports, the third has one    *)
(* new port.                                                                *)
EXTENDS NetworkReset

MCFiles == <<<<11, 12>>, <<12, 11>>, <<13, 11>>>>
=============================================================================
