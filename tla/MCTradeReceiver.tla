-------------------------- MODULE MCTradeReceiver --------------------------
(* Two stocks with up to three trades each, batches of two; trade 2 of      *)
(* stock 1 and trades 1 and 3 of stock 2 are hooked.                        *)
EXTENDS TradeReceiver

MCHooked == {<<1, 2>>, <<2, 1>>, <<2, 3>>}
=============================================================================
