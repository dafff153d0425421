---------------------------- MODULE TradingFlow -----------------------------
(***************************************************************************)
(* The order flow of every stock in the trading system.  OrderFlow has one *)
(* channel of orders and one of acks for each trader; here they are the    *)
(* threads' own copies, the queues and the sockets, shared by the stocks.  *)
(***************************************************************************)
EXTENDS TradingSystem

AcksOf(s) == {m \in Messages : m.kind = "ack" /\ m.stk = s}
AcksUnderWay(t, s) == SelectIn(MsgsUnderWay(t, ExchangeOf(s)), AcksOf(s))

Ids(seq) == [i \in DOMAIN seq |-> seq[i].id]

Unsent(s) ==
  [t \in Traders |->
     {sorted_order_structs[t][s][i] :
        i \in next_sorted_struct_idx[t][s] + 1 .. Len(sorted_order_structs[t][s])}]
Window(s) == [t \in Traders |-> sliding_window_start[t][s]]
Limits(s) == [t \in Traders |-> order_id_limits[t][s]]
Channel(s) == [t \in Traders |-> Ids(UnderWay(t, s))]
Slots(s) == [i \in 0 .. W - 1 |-> data_[s][i].id]
Acks(s) == [t \in Traders |-> Values(AcksUnderWay(t, s))]

Flow(s) == INSTANCE OrderFlow WITH
  unsent <- Unsent(s),
  sliding_window_start <- Window(s),
  order_id_limits <- Limits(s),
  order_channel <- Channel(s),
  offset <- 0,
  data_ <- Slots(s),
  avaliable_ <- avaliable_[s],
  head_ <- head_[s],
  orders <- Ids(orders[s]),
  consuming <- consuming[s],
  not_ready_orders <- not_ready_orders[s],
  last_commit_order_id <- last_commit_order_id[s],
  ack_channel <- Acks(s)

(* For each stock, the threads, queues and sockets implement OrderFlow: the *)
(* queues keep the order, every ack reaches every trader, and what the      *)
(* stocks share delays an order but does nothing else to it.  So everything *)
(* proved of OrderFlow holds of this system.                                *)
FlowRefined ==
  /\ \A s \in Stocks : Flow(s)!Init
  /\ [][\A s \in Stocks : UNCHANGED Flow(s)!vars \/ Flow(s)!Next]_vars
=============================================================================
