-------------------------- MODULE MCTradingSystem ---------------------------
(* Two traders and an exchange with two stocks, so that orders, acks and    *)
(* trades of both go through the same queues and sockets.  The first order  *)
(* of stock 2 waits for the second trade of stock 1, and the second order   *)
(* of stock 1 for a trade of stock 2.  Each trader has one order of each    *)
(* stock.  One order is outside the price limits.                           *)
EXTENDS TradingFlow

MCSorted == [t \in 0 .. 1 |-> IF t = 0 THEN <<<<1>>, <<2>>>> ELSE <<<<2>>, <<1>>>>]
MCHooks ==
  {[stk |-> 2, id |-> 1, target_stk_code |-> 1, target_trade_idx |-> 2, arg |-> 2],
   [stk |-> 1, id |-> 2, target_stk_code |-> 2, target_trade_idx |-> 1, arg |-> 0]}
MCBadPrice == {<<2, 2>>}
MCVolumes == <<<<<<1, 2>>, <<1>>>>, <<<<1>>, <<1>>>>>>
=============================================================================
