--------------------------- MODULE TradingSystem ----------------------------
(***************************************************************************)
(* Two kinds of process together: traders that each run a controller, an   *)
(* order sender per exchange and a trade receiver, and exchanges that each *)
(* run an order receiver, a thread per stock and a trade sender; with the  *)
(* bounded queues between the threads and the sockets between the          *)
(* processes (trader/, exchange/).  For every stock this system implements *)
(* OrderFlow, and orders hooked to trades of other stocks tie the stocks   *)
(* together.                                                               *)
(*                                                                         *)
(* An order is its stock, its id and its type (-1: abandoned).  What an    *)
(* order trades is a constant: the matching is in StockExchange.  A socket *)
(* is a FIFO in which HighWater messages fit.                              *)
(***************************************************************************)
EXTENDS Integers, Sequences, FiniteSets, Functions

CONSTANTS
  trader_num, exchange_num, stock_num, sliding_window_size,
  OrderNum,   \* every stock has the orders 1 .. OrderNum
  sorted_order_structs,  \* per trader and stock: the ids in its data, which OrderLoader sorts
  Hooks,      \* records [stk, id, target_stk_code, target_trade_idx, arg]
  BadPrice,   \* the pairs <<stock, id>> of limit orders outside the price limits
  Volumes,    \* Volumes[s][o]: the volumes of the trades that the order makes
  HighWater   \* bound: messages in a socket

Traders == 0 .. trader_num - 1
Exchanges == 0 .. exchange_num - 1
Stocks == 1 .. stock_num
OrderIds == 1 .. OrderNum
W == sliding_window_size
ExchangeOf(s) == s % exchange_num
Targets == {<<h.target_stk_code, h.target_trade_idx>> : h \in Hooks}

ASSUME ConfigAssumption ==
  /\ trader_num \in Nat \ {0} /\ exchange_num \in Nat \ {0} /\ stock_num \in Nat \ {0}
  /\ sliding_window_size \in Nat \ {0} /\ OrderNum \in Nat /\ HighWater \in Nat \ {0}

(* Every order of a stock is in the data of one trader, and a trader has    *)
(* its orders sorted by id.  A hook is on a trade, which are counted from 1.*)
ASSUME DataAssumption ==
  /\ sorted_order_structs \in [Traders -> [Stocks -> Seq(OrderIds)]]
  /\ \A t \in Traders, s \in Stocks : \A i, j \in DOMAIN sorted_order_structs[t][s] :
       i < j => sorted_order_structs[t][s][i] < sorted_order_structs[t][s][j]
  /\ \A s \in Stocks, o \in OrderIds : \E t \in Traders : o \in Range(sorted_order_structs[t][s])
  /\ \A s \in Stocks : \A t, u \in Traders :
       t # u => Range(sorted_order_structs[t][s]) \cap Range(sorted_order_structs[u][s]) = {}
  /\ Hooks \subseteq [stk : Stocks, id : OrderIds, target_stk_code : Stocks,
                      target_trade_idx : Nat \ {0}, arg : Int]
  /\ Volumes \in [Stocks -> [OrderIds -> Seq(Nat)]]

VARIABLES
  next_sorted_struct_idx,  \* per trader and stock: own orders passed on
  sliding_window_start,    \* per trader and stock
  order_id_limits,         \* per trader and stock
  scan,                    \* per trader: what the controller does, at which stock
  order_to_send,           \* per trader
  order_queue_,            \* per trader and exchange
  order_msg,               \* per trader and exchange: what the sender is sending
  order_wire,              \* per trader and exchange: the socket
  trade_idxs_,             \* per trader and stock: number of the next trade
  hooked_trade,            \* per trader: the volumes of the hooked trades, -1 if not seen
  data_, avaliable_, head_,                                 \* per stock, as in OrderFlow
  orders, consuming, not_ready_orders, last_commit_order_id,
  matching,                \* per stock: the trades still to produce, in a 1-sequence
  msg_queue_,              \* per exchange
  msg,                     \* per exchange: what the trade sender sends, and to whom next
  msg_wire,                \* per exchange and trader: the socket
  trades                   \* history, per stock: the volumes of all its trades

controllers == <<next_sorted_struct_idx, order_id_limits, scan, order_to_send>>
senders == <<order_queue_, order_msg, order_wire>>
receivers == <<sliding_window_start, trade_idxs_, hooked_trade>>
windows == <<data_, avaliable_, head_>>
stocks == <<orders, consuming, not_ready_orders, last_commit_order_id, matching, trades>>
tradeSenders == <<msg_queue_, msg, msg_wire>>
vars == <<controllers, senders, receivers, windows, stocks, tradeSenders>>

Limit(s) == <<"limit", s>>
Orders(s) == <<"orders", s>>
Put == <<"put", 0>>
NoOrder == [stk |-> 0, id |-> 0, type |-> 0]
Ack(s, o) == [kind |-> "ack", stk |-> s, value |-> o]
Trade(s, v) == [kind |-> "trade", stk |-> s, value |-> v]

Init ==
  /\ next_sorted_struct_idx = [t \in Traders |-> [s \in Stocks |-> 0]]
  /\ sliding_window_start = [t \in Traders |-> [s \in Stocks |-> 1]]
  /\ order_id_limits = [t \in Traders |-> [s \in Stocks |-> 0]]
  /\ scan = [t \in Traders |-> Limit(1)]
  /\ order_to_send = [t \in Traders |-> <<>>]
  /\ order_queue_ = [t \in Traders |-> [x \in Exchanges |-> <<>>]]
  /\ order_msg = [t \in Traders |-> [x \in Exchanges |-> <<>>]]
  /\ order_wire = [t \in Traders |-> [x \in Exchanges |-> <<>>]]
  /\ trade_idxs_ = [t \in Traders |-> [s \in Stocks |-> 1]]
  /\ hooked_trade = [t \in Traders |-> [g \in Targets |-> -1]]
  /\ data_ = [s \in Stocks |-> [i \in 0 .. W - 1 |-> NoOrder]]
  /\ avaliable_ = [s \in Stocks |-> [i \in 0 .. W - 1 |-> FALSE]]
  /\ head_ = [s \in Stocks |-> 0]
  /\ orders = [s \in Stocks |-> <<>>]
  /\ consuming = [s \in Stocks |-> TRUE]
  /\ not_ready_orders = [s \in Stocks |-> {}]
  /\ last_commit_order_id = [s \in Stocks |-> 0]
  /\ matching = [s \in Stocks |-> <<>>]
  /\ msg_queue_ = [x \in Exchanges |-> <<>>]
  /\ msg = [x \in Exchanges |-> <<>>]
  /\ msg_wire = [x \in Exchanges |-> [t \in Traders |-> <<>>]]
  /\ trades = [s \in Stocks |-> <<>>]

-----------------------------------------------------------------------------
(* The controller of a trader (TraderController::run, run_all_in_memory) *)

readLimit(t) ==
  \E s \in Stocks :
    /\ scan[t] = Limit(s)
    /\ order_id_limits' = [order_id_limits EXCEPT ![t][s] = sliding_window_start[t][s] + W]
    /\ scan' = [scan EXCEPT ![t] = Orders(s)]
    /\ UNCHANGED <<next_sorted_struct_idx, order_to_send>>
    /\ UNCHANGED <<senders, receivers, windows, stocks, tradeSenders>>

HasOrder(t, s) == next_sorted_struct_idx[t][s] < Len(sorted_order_structs[t][s])
NextOrder(t, s) == sorted_order_structs[t][s][next_sorted_struct_idx[t][s] + 1]
HooksOf(s, o) == {h \in Hooks : h.stk = s /\ h.id = o}
HookedVolume(t, h) == hooked_trade[t][<<h.target_stk_code, h.target_trade_idx>>]

(* Mutant of check_order: only the hooks are checked. *)
check_orderHooks(t, s, o) == \A h \in HooksOf(s, o) : HookedVolume(t, h) # -1

check_order(t, s, o) ==
  /\ o < order_id_limits[t][s]
  /\ \A h \in HooksOf(s, o) : HookedVolume(t, h) # -1

(* Mutant of TypeOf: a volume equal to the argument abandons the order too. *)
TypeOfEqual(t, s, o) ==
  IF (\E h \in HooksOf(s, o) : HookedVolume(t, h) >= h.arg) \/ <<s, o>> \in BadPrice THEN -1 ELSE 0

TypeOf(t, s, o) ==
  IF (\E h \in HooksOf(s, o) : HookedVolume(t, h) > h.arg) \/ <<s, o>> \in BadPrice THEN -1 ELSE 0

takeOrder(t) ==
  \E s \in Stocks :
    /\ scan[t] = Orders(s)
    /\ HasOrder(t, s)
    /\ LET o == NextOrder(t, s)
       IN  /\ check_order(t, s, o)
           /\ order_to_send' = [order_to_send EXCEPT ![t] =
                                  Append(@, [stk |-> s, id |-> o, type |-> TypeOf(t, s, o)])]
    /\ next_sorted_struct_idx' = [next_sorted_struct_idx EXCEPT ![t][s] = @ + 1]
    /\ UNCHANGED <<order_id_limits, scan>>
    /\ UNCHANGED <<senders, receivers, windows, stocks, tradeSenders>>

(* No more orders, or check_order() said no: the next stock, and after the  *)
(* last one the orders gathered are sent.                                   *)
nextStock(t) ==
  \E s \in Stocks :
    /\ scan[t] = Orders(s)
    /\ HasOrder(t, s) => ~check_order(t, s, NextOrder(t, s))
    /\ scan' = [scan EXCEPT ![t] = CASE s < stock_num -> Limit(s + 1)
                                     [] s = stock_num /\ order_to_send[t] # <<>> -> Put
                                     [] OTHER -> Limit(1)]
    /\ UNCHANGED <<next_sorted_struct_idx, order_id_limits, order_to_send>>
    /\ UNCHANGED <<senders, receivers, windows, stocks, tradeSenders>>

(* put_order() blocks while the queue is full. *)
put_order(t) ==
  /\ scan[t] = Put
  /\ LET x == ExchangeOf(Head(order_to_send[t]).stk)
     IN  /\ Len(order_queue_[t][x]) < (W * stock_num) \div exchange_num
         /\ order_queue_' = [order_queue_ EXCEPT ![t][x] = Append(@, Head(order_to_send[t]))]
  /\ order_to_send' = [order_to_send EXCEPT ![t] = Tail(@)]
  /\ scan' = [scan EXCEPT ![t] = IF Tail(order_to_send[t]) = <<>> THEN Limit(1) ELSE Put]
  /\ UNCHANGED <<next_sorted_struct_idx, order_id_limits, order_msg, order_wire>>
  /\ UNCHANGED <<receivers, windows, stocks, tradeSenders>>
-----------------------------------------------------------------------------
(* The order sender of a trader for an exchange (TraderOrderSender::run): a *)
(* message of one order, tried until the socket takes it.                   *)

pollOrderToSend(t, x) ==
  /\ order_msg[t][x] = <<>>
  /\ order_queue_[t][x] # <<>>
  /\ order_msg' = [order_msg EXCEPT ![t][x] = <<Head(order_queue_[t][x])>>]
  /\ order_queue_' = [order_queue_ EXCEPT ![t][x] = Tail(@)]
  /\ UNCHANGED <<controllers, order_wire, receivers, windows, stocks, tradeSenders>>

sendOrder(t, x) ==
  /\ order_msg[t][x] # <<>>
  /\ Len(order_wire[t][x]) < HighWater
  /\ order_wire' = [order_wire EXCEPT ![t][x] = @ \o order_msg[t][x]]
  /\ order_msg' = [order_msg EXCEPT ![t][x] = <<>>]
  /\ UNCHANGED <<controllers, order_queue_, receivers, windows, stocks, tradeSenders>>

-----------------------------------------------------------------------------
(* The order receiver of an exchange (ExchangeOrderReceiver::run).  Which   *)
(* socket tryrecv() takes from depends on what has arrived.                 *)
receiveOrder(x) ==
  \E t \in Traders :
    /\ order_wire[t][x] # <<>>
    /\ order_wire' = [order_wire EXCEPT ![t][x] = Tail(@)]
    /\ LET o == Head(order_wire[t][x])
           window_idx == (o.id - 1) % W
       IN  IF avaliable_[o.stk][window_idx]
           THEN UNCHANGED <<data_, avaliable_>>
           ELSE /\ data_' = [data_ EXCEPT ![o.stk][window_idx] = o]
                /\ avaliable_' = [avaliable_ EXCEPT ![o.stk][window_idx] = TRUE]
    /\ UNCHANGED <<controllers, order_queue_, order_msg, receivers, head_, stocks, tradeSenders>>

-----------------------------------------------------------------------------
(* The thread of a stock *)

pollOrder(s) ==
  /\ consuming[s]
  /\ avaliable_[s][head_[s]]
  /\ orders' = [orders EXCEPT ![s] = Append(@, data_[s][head_[s]])]
  /\ avaliable_' = [avaliable_ EXCEPT ![s][head_[s]] = FALSE]
  /\ head_' = [head_ EXCEPT ![s] = (@ + 1) % W]
  /\ UNCHANGED <<controllers, senders, receivers, data_, consuming, not_ready_orders>>
  /\ UNCHANGED <<last_commit_order_id, matching, trades, tradeSenders>>

(* Mutant of PutMsg: put() does not wait for room. *)
PutMsgAtOnce(x, m) == msg_queue_' = [msg_queue_ EXCEPT ![x] = Append(@, m)]

(* put() of the msg_queue_ of an exchange blocks while the queue is full. *)
PutMsg(x, m) ==
  /\ Len(msg_queue_[x]) < (W * stock_num) \div 2
  /\ msg_queue_' = [msg_queue_ EXCEPT ![x] = Append(@, m)]

ackOrders(s) ==
  /\ consuming[s]
  /\ ~avaliable_[s][head_[s]]
  /\ orders[s] # <<>>
  /\ PutMsg(ExchangeOf(s), Ack(s, orders[s][Len(orders[s])].id))
  /\ consuming' = [consuming EXCEPT ![s] = FALSE]
  /\ UNCHANGED <<controllers, senders, receivers, windows, orders, not_ready_orders>>
  /\ UNCHANGED <<last_commit_order_id, matching, trades, msg, msg_wire>>

Committed(s, S) ==
  {n \in S : /\ \A m \in S : m > last_commit_order_id[s]
             /\ \A m \in last_commit_order_id[s] + 1 .. n : m \in S}

(* receiveOrder() begins to commit the order; an abandoned order makes no   *)
(* trades.  An order whose turn it is not would be put aside without a      *)
(* trade (StockExchange has this), but the windows deliver a stock's orders *)
(* in turn: InOrder of OrderFlow.                                           *)
matchOrder(s) ==
  LET o == Head(orders[s])
  IN  /\ ~consuming[s]
      /\ matching[s] = <<>>
      /\ matching' = [matching EXCEPT ![s] = <<IF o.type = -1 THEN <<>> ELSE Volumes[s][o.id]>>]
      /\ UNCHANGED <<controllers, senders, receivers, windows, orders, consuming>>
      /\ UNCHANGED <<not_ready_orders, last_commit_order_id, trades, tradeSenders>>

produceTrade(s) ==
  /\ matching[s] # <<>> /\ matching[s][1] # <<>>
  /\ PutMsg(ExchangeOf(s), Trade(s, Head(matching[s][1])))
  /\ trades' = [trades EXCEPT ![s] = Append(@, Head(matching[s][1]))]
  /\ matching' = [matching EXCEPT ![s] = <<Tail(@[1])>>]
  /\ UNCHANGED <<controllers, senders, receivers, windows, orders, consuming>>
  /\ UNCHANGED <<not_ready_orders, last_commit_order_id, msg, msg_wire>>

commitOrders(s) ==
  /\ matching[s] = <<(<<>>)>>
  /\ LET S == not_ready_orders[s] \cup {Head(orders[s]).id}
     IN  /\ not_ready_orders' = [not_ready_orders EXCEPT ![s] = S \ Committed(s, S)]
         /\ last_commit_order_id' = [last_commit_order_id EXCEPT
                                       ![s] = @ + Cardinality(Committed(s, S))]
  /\ orders' = [orders EXCEPT ![s] = Tail(@)]
  /\ consuming' = [consuming EXCEPT ![s] = Tail(orders[s]) = <<>>]
  /\ matching' = [matching EXCEPT ![s] = <<>>]
  /\ UNCHANGED <<controllers, senders, receivers, windows, trades, tradeSenders>>

-----------------------------------------------------------------------------
(* The trade sender of an exchange (ExchangeTradeSender::run): each message *)
(* goes to all traders, one after the other.                                *)

takeMsg(x) ==
  /\ msg[x] = <<>>
  /\ msg_queue_[x] # <<>>
  /\ msg' = [msg EXCEPT ![x] = <<Head(msg_queue_[x]), 0>>]
  /\ msg_queue_' = [msg_queue_ EXCEPT ![x] = Tail(@)]
  /\ UNCHANGED <<controllers, senders, receivers, windows, stocks, msg_wire>>

(* Mutant of sendMsg: a message that the socket does not take is dropped. *)
sendMsgDrops(x) ==
  /\ msg[x] # <<>>
  /\ LET t == msg[x][2]
     IN  /\ msg_wire' = IF Len(msg_wire[x][t]) < HighWater
                        THEN [msg_wire EXCEPT ![x][t] = Append(@, msg[x][1])] ELSE msg_wire
         /\ msg' = [msg EXCEPT ![x] = IF t + 1 < trader_num THEN <<msg[x][1], t + 1>> ELSE <<>>]
  /\ UNCHANGED <<controllers, senders, receivers, windows, stocks, msg_queue_>>

sendMsg(x) ==
  /\ msg[x] # <<>>
  /\ LET t == msg[x][2]
     IN  /\ Len(msg_wire[x][t]) < HighWater
         /\ msg_wire' = [msg_wire EXCEPT ![x][t] = Append(@, msg[x][1])]
         /\ msg' = [msg EXCEPT ![x] = IF t + 1 < trader_num THEN <<msg[x][1], t + 1>> ELSE <<>>]
  /\ UNCHANGED <<controllers, senders, receivers, windows, stocks, msg_queue_>>
-----------------------------------------------------------------------------
(* The trade receiver of a trader (TraderTradeReceiver::run) *)

Receive(t, x) ==
  /\ msg_wire[x][t] # <<>>
  /\ msg_wire' = [msg_wire EXCEPT ![x][t] = Tail(@)]
  /\ UNCHANGED <<controllers, senders, windows, stocks, msg_queue_, msg>>

process_order_ack(t, x) ==
  /\ Receive(t, x)
  /\ LET m == Head(msg_wire[x][t])
     IN  /\ m.kind = "ack"
         /\ sliding_window_start' = [sliding_window_start EXCEPT ![t][m.stk] = m.value + 1]
  /\ UNCHANGED <<trade_idxs_, hooked_trade>>

(* Mutant of process_trade_result: the number is taken after the increment. *)
process_trade_resultAfter(t, x) ==
  /\ Receive(t, x)
  /\ LET m == Head(msg_wire[x][t])
         g == <<m.stk, trade_idxs_[t][m.stk] + 1>>
     IN  /\ m.kind = "trade"
         /\ trade_idxs_' = [trade_idxs_ EXCEPT ![t][m.stk] = @ + 1]
         /\ hooked_trade' = IF g \in Targets THEN [hooked_trade EXCEPT ![t][g] = m.value]
                            ELSE hooked_trade
  /\ UNCHANGED sliding_window_start

(* The trade's number is its place among the stock's trades received. *)
process_trade_result(t, x) ==
  /\ Receive(t, x)
  /\ LET m == Head(msg_wire[x][t])
         g == <<m.stk, trade_idxs_[t][m.stk]>>
     IN  /\ m.kind = "trade"
         /\ trade_idxs_' = [trade_idxs_ EXCEPT ![t][m.stk] = @ + 1]
         /\ hooked_trade' = IF g \in Targets THEN [hooked_trade EXCEPT ![t][g] = m.value]
                            ELSE hooked_trade
  /\ UNCHANGED sliding_window_start

-----------------------------------------------------------------------------
Controller(t) == readLimit(t) \/ takeOrder(t) \/ nextStock(t) \/ put_order(t)
OrderSender(t, x) == pollOrderToSend(t, x) \/ sendOrder(t, x)
Stock(s) == pollOrder(s) \/ ackOrders(s) \/ matchOrder(s) \/ produceTrade(s) \/ commitOrders(s)
TradeSender(x) == takeMsg(x) \/ sendMsg(x)
TradeReceiver(t) == \E x \in Exchanges : process_order_ack(t, x) \/ process_trade_result(t, x)

Next ==
  \/ \E t \in Traders : Controller(t) \/ TradeReceiver(t)
  \/ \E t \in Traders, x \in Exchanges : OrderSender(t, x)
  \/ \E x \in Exchanges : receiveOrder(x) \/ TradeSender(x)
  \/ \E s \in Stocks : Stock(s)

Spec == Init /\ [][Next]_vars

(* Every thread keeps running. *)
FairSpec ==
  /\ Spec
  /\ \A t \in Traders : WF_vars(Controller(t)) /\ WF_vars(TradeReceiver(t))
  /\ \A t \in Traders, x \in Exchanges : WF_vars(OrderSender(t, x))
  /\ \A x \in Exchanges : WF_vars(receiveOrder(x)) /\ WF_vars(TradeSender(x))
  /\ \A s \in Stocks : WF_vars(Stock(s))

-----------------------------------------------------------------------------
OrderRecords == [stk : Stocks, id : OrderIds, type : {-1, 0}]
Messages == [kind : {"ack", "trade"}, stk : Stocks, value : Nat]
UpTo(n, S, seq) == Len(seq) <= n /\ Range(seq) \subseteq S

(* The queues and sockets within their capacities among the rest. *)
TypeOK ==
  /\ \A t \in Traders, s \in Stocks :
       /\ next_sorted_struct_idx[t][s] \in 0 .. Len(sorted_order_structs[t][s])
       /\ sliding_window_start[t][s] \in 1 .. OrderNum + 1
       /\ order_id_limits[t][s] \in 0 .. OrderNum + 1 + W
       /\ trade_idxs_[t][s] \in Nat
  /\ scan \in [Traders -> {Put} \cup {Limit(s) : s \in Stocks} \cup {Orders(s) : s \in Stocks}]
  /\ \A t \in Traders :
       /\ order_to_send[t] \in Seq(OrderRecords)
       /\ hooked_trade[t] \in [Targets -> Nat \cup {-1}]
  /\ \A t \in Traders, x \in Exchanges :
       /\ UpTo((W * stock_num) \div exchange_num, OrderRecords, order_queue_[t][x])
       /\ UpTo(1, OrderRecords, order_msg[t][x])
       /\ UpTo(HighWater, OrderRecords, order_wire[t][x])
       /\ UpTo(HighWater, Messages, msg_wire[x][t])
  /\ \A x \in Exchanges :
       /\ UpTo((W * stock_num) \div 2, Messages, msg_queue_[x])
       /\ msg[x] = <<>> \/ msg[x] \in Messages \X Traders
  /\ data_ \in [Stocks -> [0 .. W - 1 -> OrderRecords \cup {NoOrder}]]
  /\ avaliable_ \in [Stocks -> [0 .. W - 1 -> BOOLEAN]]
  /\ head_ \in [Stocks -> 0 .. W - 1]
  /\ \A s \in Stocks : UpTo(W, OrderRecords, orders[s]) /\ UpTo(1, Seq(Nat), matching[s])
  /\ consuming \in [Stocks -> BOOLEAN]
  /\ not_ready_orders \in [Stocks -> SUBSET OrderIds]
  /\ last_commit_order_id \in [Stocks -> 0 .. OrderNum]
  /\ trades \in [Stocks -> Seq(Nat)]

(* The elements of a sequence that are in S. *)
SelectIn(seq, S) ==
  LET f[n \in 0 .. Len(seq)] ==
        IF n = 0 THEN <<>> ELSE IF seq[n] \in S THEN Append(f[n - 1], seq[n]) ELSE f[n - 1]
  IN  f[Len(seq)]

OrdersOf(s) == {o \in OrderRecords : o.stk = s}

(* The orders of a stock on their way from a trader's controller to the     *)
(* order receiver, oldest first.                                            *)
UnderWay(t, s) ==
  LET x == ExchangeOf(s)
  IN  SelectIn(order_wire[t][x] \o order_msg[t][x] \o order_queue_[t][x] \o order_to_send[t],
               OrdersOf(s))

(* The messages on their way from an exchange to a trader, oldest first. *)
MsgsUnderWay(t, x) ==
  LET inHand == IF msg[x] # <<>> /\ msg[x][2] <= t THEN <<msg[x][1]>> ELSE <<>>
  IN  msg_wire[x][t] \o inHand \o msg_queue_[x]

Values(seq) == [i \in DOMAIN seq |-> seq[i].value]

(* Every trader numbers the trades as the exchange produced them: what it   *)
(* knows of a hooked trade is that trade's volume, and it knows it once it  *)
(* has received the trade; "only update once" (trader_controller.h:37).     *)
HooksKnown ==
  \A t \in Traders, g \in Targets :
    hooked_trade[t][g] = IF g[2] < trade_idxs_[t][g[1]] THEN trades[g[1]][g[2]] ELSE -1

(* An order on its way to the exchange is abandoned exactly when its price  *)
(* is outside the limits or its hooked trade, as it really happened, has a  *)
(* volume above the argument (trader_controller.cpp:140-161).               *)
HookDecision ==
  \A t \in Traders, s \in Stocks : \A o \in Range(UnderWay(t, s)) :
    o.type = -1 <=>
        \/ <<s, o.id>> \in BadPrice
        \/ \E h \in HooksOf(s, o.id) :
             trades[h.target_stk_code][h.target_trade_idx] > h.arg

(* Bounded queues, blocking puts and orders that wait for trades of other   *)
(* stocks never stop the system for good: every order of every stock is     *)
(* committed, provided that no hook waits for a trade that cannot happen    *)
(* before it.                                                               *)
AllCommitted == <>[](\A s \in Stocks : last_commit_order_id[s] = OrderNum)
=============================================================================
