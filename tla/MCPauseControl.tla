--------------------------- MODULE MCPauseControl ---------------------------
(* A trader with two senders and its receiver. *)
EXTENDS PauseControl

MCSenders == <<"sender0", "sender1">>
MCReceivers == <<"receiver">>
=============================================================================
