-------------------------- MODULE StockRefinement --------------------------
(* The handlers of stock_exchange.cpp implement MatchingRules. *)
EXTENDS StockExchange

(* The loops of the handlers together implement the matching rules: the     *)
(* work of an order shows at once when its handler returns.                 *)
Rules == INSTANCE MatchingRules WITH
           book <- committed.book, trades <- committed.trades,
           arrived <- not_ready_orders, last <- last_commit_order_id
ImplementsRules == Rules!Spec
=============================================================================
