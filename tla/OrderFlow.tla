----------------------------- MODULE OrderFlow -----------------------------
(***************************************************************************)
(* How the orders of one stock travel from the traders to the thread that  *)
(* matches them: the traders' sliding windows (TraderController), the      *)
(* order channels, the exchange's slot window (Exchange, SlidingWindow),   *)
(* the stock thread (StockExchange) and the order acks that move the       *)
(* traders' windows on.                                                    *)
(*                                                                         *)
(* An order is its order_id.  What lies between a trader's controller and  *)
(* the exchange's receiver (order_to_send, order_queue_, the sender's      *)
(* message, the socket) is one FIFO per trader, and so is what lies        *)
(* between the stock thread and a trader's receiver (msg_queue_, the       *)
(* sender's message, the socket); of the latter only the acks are kept.    *)
(***************************************************************************)
EXTENDS Integers, Sequences, FiniteSets

CONSTANTS
  trader_num,            \* Config::trader_num
  sliding_window_size,   \* Config::sliding_window_size
  OrderNum               \* the stock's orders are 1 .. OrderNum

ASSUME ConfigAssumption ==
  /\ trader_num \in Nat \ {0}
  /\ sliding_window_size \in Nat \ {0}
  /\ OrderNum \in Nat

VARIABLES
  unsent,                \* per trader: ids of sorted_order_structs from next_sorted_struct_idx on
  sliding_window_start,  \* per trader: SharedTradeInfo::sliding_window_start
  order_id_limits,       \* per trader: the controller's local copy of the limit
  order_channel,         \* per trader: FIFO of ids on their way to the exchange
  offset,                \* MessageReceiver::offset at the exchange
  data_, avaliable_, head_,  \* the stock's SlidingWindow in Exchange::order_buffer
  orders,                \* the stock thread's local vector of consumed orders
  consuming,             \* the stock thread is inside comsumeOrder()
  not_ready_orders,      \* StockExchange::not_ready_orders, a heap
  last_commit_order_id,  \* StockExchange::last_commit_order_id
  ack_channel            \* per trader: FIFO of acked ids on their way to it

traderVars == <<unsent, sliding_window_start, order_id_limits>>
stockVars == <<orders, consuming, not_ready_orders, last_commit_order_id>>
window == <<data_, avaliable_, head_>>
vars == <<traderVars, order_channel, offset, window, stockVars, ack_channel>>

Traders == 0 .. trader_num - 1
OrderIds == 1 .. OrderNum
W == sliding_window_size

order_buffer == INSTANCE SlidingWindow WITH
  capacity_ <- sliding_window_size, Items <- OrderIds, NoItem <- 0,
  Consumers <- {}, getting <- {}, waiting <- {}

(* The data files give every order of the stock to exactly one trader. *)
IsPartition(f) ==
  /\ \A t, u \in Traders : t # u => f[t] \cap f[u] = {}
  /\ \A o \in OrderIds : \E t \in Traders : o \in f[t]

Init ==
  /\ unsent \in {f \in [Traders -> SUBSET OrderIds] : IsPartition(f)}
  /\ sliding_window_start = [t \in Traders |-> 1]
  /\ order_id_limits = [t \in Traders |-> 0]
  /\ order_channel = [t \in Traders |-> <<>>]
  /\ offset = 0
  /\ order_buffer!SlotsInit
  /\ orders = <<>>
  /\ consuming = TRUE
  /\ not_ready_orders = {}
  /\ last_commit_order_id = 0
  /\ ack_channel = [t \in Traders |-> <<>>]

-----------------------------------------------------------------------------
(* The trader *)

(* Mutant of readLimit: the window is one order too wide. *)
readLimitWide(t) ==
  /\ order_id_limits' = [order_id_limits EXCEPT ![t] = sliding_window_start[t] + W + 1]
  /\ UNCHANGED <<unsent, sliding_window_start, order_channel, offset, window,
                 stockVars, ack_channel>>

(* The controller reaches the stock in its scan and computes the limit that *)
(* it will use for a run of orders, whatever acks arrive meanwhile.         *)
readLimit(t) ==
  /\ order_id_limits' = [order_id_limits EXCEPT ![t] = sliding_window_start[t] + W]
  /\ UNCHANGED <<unsent, sliding_window_start, order_channel, offset, window,
                 stockVars, ack_channel>>

(* Mutants of check_order: an off-by-one; no check. *)
check_orderOff(t, o) == o <= order_id_limits[t]
check_orderNone(t, o) == TRUE

check_order(t, o) == o < order_id_limits[t]

(* The controller sends the stock's next order if check_order() lets it.    *)
(* An order that is hooked to a trade not seen yet waits: that is a delay   *)
(* of this step.  An abandoned order is sent too, with type -1.             *)
sendOrder(t) ==
  \E o \in unsent[t] :
    /\ \A p \in unsent[t] : o <= p
    /\ check_order(t, o)
    /\ unsent' = [unsent EXCEPT ![t] = @ \ {o}]
    /\ order_channel' = [order_channel EXCEPT ![t] = Append(@, o)]
    /\ UNCHANGED <<sliding_window_start, order_id_limits, offset, window,
                   stockVars, ack_channel>>

(* Mutants of process_order_ack: the newest ack first; the window starts at *)
(* the acked order.                                                         *)
process_order_ackNewest(t) ==
  /\ ack_channel[t] # <<>>
  /\ LET n == Len(ack_channel[t])
     IN  /\ sliding_window_start' = [sliding_window_start EXCEPT ![t] = ack_channel[t][n] + 1]
         /\ ack_channel' = [ack_channel EXCEPT ![t] = SubSeq(@, 1, n - 1)]
  /\ UNCHANGED <<unsent, order_id_limits, order_channel, offset, window, stockVars>>

process_order_ackOff(t) ==
  /\ ack_channel[t] # <<>>
  /\ sliding_window_start' = [sliding_window_start EXCEPT ![t] = Head(ack_channel[t])]
  /\ ack_channel' = [ack_channel EXCEPT ![t] = Tail(@)]
  /\ UNCHANGED <<unsent, order_id_limits, order_channel, offset, window, stockVars>>

(* The trade receiver handles an ack. *)
process_order_ack(t) ==
  /\ ack_channel[t] # <<>>
  /\ sliding_window_start' = [sliding_window_start EXCEPT ![t] = Head(ack_channel[t]) + 1]
  /\ ack_channel' = [ack_channel EXCEPT ![t] = Tail(@)]
  /\ UNCHANGED <<unsent, order_id_limits, order_channel, offset, window, stockVars>>

-----------------------------------------------------------------------------
(* The exchange's order receiver *)

(* It binds two ports per trader, of which traders use the first. *)
Ports == 0 .. 2 * trader_num - 1
HasMessage(p) == p % 2 = 0 /\ order_channel[p \div 2] # <<>>
PortAt(idx) == (idx + offset) % (2 * trader_num)

(* Mutant of window_idx: ids taken to start from 0. *)
window_idxFromZero(o) == o % W

window_idx(o) == (o - 1) % W

(* tryrecv() looks at the ports in turn, counted from offset, takes the     *)
(* first message it finds and leaves offset alone; the order goes into its  *)
(* window slot (or is dropped, when the slot is occupied).  What is in a    *)
(* channel may still be under way, so any port may be the first to have a   *)
(* message.                                                                 *)
receiveOrder ==
  \E idx \in Ports :
    /\ HasMessage(PortAt(idx))
    /\ LET t == PortAt(idx) \div 2
           o == Head(order_channel[t])
       IN  /\ order_channel' = [order_channel EXCEPT ![t] = Tail(@)]
           /\ order_buffer!Store(o, window_idx(o))
    /\ UNCHANGED <<traderVars, offset, stockVars, ack_channel>>

(* Mutant of receiveNothing: offset is not wrapped around. *)
receiveNothingNoWrap ==
  /\ offset' = offset + 1
  /\ UNCHANGED <<traderVars, order_channel, window, stockVars, ack_channel>>

(* tryrecv() finds that no message has arrived on any port. *)
receiveNothing ==
  /\ offset' = (offset + 1) % (2 * trader_num)
  /\ UNCHANGED <<traderVars, order_channel, window, stockVars, ack_channel>>

-----------------------------------------------------------------------------
(* The stock thread *)

(* comsumeOrder(): poll until the head slot is empty ... *)
pollOrder ==
  /\ consuming
  /\ orders' = Append(orders, data_[head_])
  /\ order_buffer!TakeHead
  /\ UNCHANGED <<traderVars, order_channel, offset, consuming, not_ready_orders,
                 last_commit_order_id, ack_channel>>

(* Mutant of ackOrders: the ack goes to the first trader only. *)
ackOrdersToOne ==
  /\ consuming
  /\ ~avaliable_[head_]
  /\ orders # <<>>
  /\ ack_channel' = [ack_channel EXCEPT ![0] = Append(@, orders[Len(orders)])]
  /\ consuming' = FALSE
  /\ UNCHANGED <<traderVars, order_channel, offset, window, orders,
                 not_ready_orders, last_commit_order_id>>

(* ... then ack the last order polled, if any, to all traders. *)
ackOrders ==
  /\ consuming
  /\ ~avaliable_[head_]
  /\ orders # <<>>
  /\ ack_channel' = [t \in Traders |-> Append(ack_channel[t], orders[Len(orders)])]
  /\ consuming' = FALSE
  /\ UNCHANGED <<traderVars, order_channel, offset, window, orders,
                 not_ready_orders, last_commit_order_id>>

(* The orders that the loop of StockExchange::receiveOrder commits when the *)
(* heap is S: those that continue last_commit_order_id without a gap,       *)
(* provided that nothing older sits on top of the heap.                     *)
Committed(S) ==
  {n \in S : /\ \A m \in S : m > last_commit_order_id
             /\ \A m \in last_commit_order_id + 1 .. n : m \in S}

(* StockExchange::receiveOrder() for the next consumed order; after the     *)
(* last one the thread goes back to comsumeOrder().                         *)
commitOrders ==
  /\ ~consuming
  /\ LET S == not_ready_orders \cup {Head(orders)}
     IN  /\ not_ready_orders' = S \ Committed(S)
         /\ last_commit_order_id' = last_commit_order_id + Cardinality(Committed(S))
  /\ orders' = Tail(orders)
  /\ consuming' = (Tail(orders) = <<>>)
  /\ UNCHANGED <<traderVars, order_channel, offset, window, ack_channel>>

-----------------------------------------------------------------------------
Stock == pollOrder \/ ackOrders \/ commitOrders

Next ==
  \/ \E t \in Traders : readLimit(t) \/ sendOrder(t) \/ process_order_ack(t)
  \/ receiveOrder \/ receiveNothing
  \/ Stock

Spec == Init /\ [][Next]_vars

(* Every thread loops for ever, so each keeps being scheduled: a trader's   *)
(* controller and trade receiver, the exchange's order receiver and the     *)
(* stock's thread; and a message under way arrives in the end.  There is no *)
(* fairness among the receiver's ports.  Hooks are taken to be answered     *)
(* eventually (fairness of sendOrder).                                      *)
FairSpec ==
  /\ Spec
  /\ \A t \in Traders : /\ WF_vars(readLimit(t))
                        /\ WF_vars(sendOrder(t))
                        /\ WF_vars(process_order_ack(t))
  /\ WF_vars(receiveOrder)
  /\ WF_vars(Stock)

-----------------------------------------------------------------------------
TypeOK ==
  /\ unsent \in [Traders -> SUBSET OrderIds]
  /\ sliding_window_start \in [Traders -> Nat]
  /\ order_id_limits \in [Traders -> Nat]
  /\ order_channel \in [Traders -> Seq(OrderIds)]
  /\ offset \in Ports
  /\ data_ \in [0 .. W - 1 -> OrderIds \cup {0}]
  /\ avaliable_ \in [0 .. W - 1 -> BOOLEAN]
  /\ head_ \in 0 .. W - 1
  /\ orders \in Seq(OrderIds)
  /\ consuming \in BOOLEAN
  /\ not_ready_orders \subseteq OrderIds
  /\ last_commit_order_id \in Nat
  /\ ack_channel \in [Traders -> Seq(OrderIds)]

(* sliding_window.hpp says "every put operation will be success": whenever  *)
(* an order reaches the exchange, its slot is free, so that the ASSERT of   *)
(* put() never throws and Exchange::receiveOrder never drops an order.      *)
NoCollision ==
  \A t \in Traders :
    order_channel[t] # <<>> => ~avaliable_[window_idx(Head(order_channel[t]))]

(* The assert of SharedTradeInfo::update_sliding_window_start: no ack moves *)
(* a trader's window backwards.                                             *)
AcksMonotone ==
  \A t \in Traders :
    ack_channel[t] # <<>> => Head(ack_channel[t]) + 1 >= sliding_window_start[t]

(* The stock thread consumes the orders in id order without a gap, although *)
(* they come from several traders: StockExchange's heap never keeps one.    *)
InOrder ==
  /\ not_ready_orders = {}
  /\ \A i \in 1 .. Len(orders) : orders[i] = last_commit_order_id + i

(* The loop of comsumeOrder() is bounded: it gathers at most a window of    *)
(* orders before it acks them, however fast the traders send.               *)
BatchBounded == Len(orders) <= W

(* A trader has at most a window of the stock's orders under way, so its    *)
(* order_queue_ (a window per stock) has room for them.                     *)
ChannelBounded == \A t \in Traders : Len(order_channel[t]) <= W

(* Every order is committed in the end. *)
AllCommitted == <>[](last_commit_order_id = OrderNum)

(* Every trader's window ends up past the last order. *)
AllAcked == <>[](\A t \in Traders : sliding_window_start[t] = OrderNum + 1)

-----------------------------------------------------------------------------
(* The inductive invariant behind the safety properties.                   *)

(* The last order polled from the window, and the last order acked: while   *)
(* comsumeOrder() polls, the orders it has gathered are not acked yet.      *)
Consumed == last_commit_order_id + Len(orders)
Acked == IF consuming THEN last_commit_order_id ELSE Consumed

(* A trader's window, and the limit it uses, lag behind the acks; acks are  *)
(* under way in increasing order.                                           *)
WindowsLag ==
  \A t \in Traders :
    /\ sliding_window_start[t] <= Acked + 1
    /\ order_id_limits[t] <= sliding_window_start[t] + W
    /\ \A i \in 1 .. Len(ack_channel[t]) :
         /\ ack_channel[t][i] <= Acked
         /\ ack_channel[t][i] + 1 >= sliding_window_start[t]
    /\ \A i, j \in 1 .. Len(ack_channel[t]) :
         i < j => ack_channel[t][i] <= ack_channel[t][j]

(* Orders not sent yet are not consumed yet, and belong to one trader. *)
UnsentFresh ==
  /\ \A t \in Traders : \A o \in unsent[t] : o > Consumed
  /\ \A t, u \in Traders : t # u => unsent[t] \cap unsent[u] = {}

(* Orders under way are not consumed yet, within the limit, sorted, older   *)
(* than the trader's unsent ones, and in no one else's hands.               *)
ChannelsFresh ==
  \A t \in Traders : \A i \in 1 .. Len(order_channel[t]) :
    /\ order_channel[t][i] > Consumed
    /\ order_channel[t][i] < order_id_limits[t]
    /\ \A j \in 1 .. Len(order_channel[t]) :
         i < j => order_channel[t][j] - order_channel[t][i] >= j - i
    /\ \A o \in unsent[t] : order_channel[t][i] < o
    /\ \A u \in Traders \ {t} :
         /\ order_channel[t][i] \notin unsent[u]
         /\ \A j \in 1 .. Len(order_channel[u]) : order_channel[t][i] # order_channel[u][j]

(* An occupied slot holds an order of the current window that is nowhere    *)
(* else, in the slot of its id.                                             *)
SlotsFresh ==
  \A s \in 0 .. W - 1 : avaliable_[s] =>
    /\ data_[s] > Consumed
    /\ data_[s] <= Acked + W
    /\ (data_[s] - 1) % W = s
    /\ \A t \in Traders :
         /\ data_[s] \notin unsent[t]
         /\ \A i \in 1 .. Len(order_channel[t]) : order_channel[t][i] # data_[s]

(* The head slot is the one of the next order; a thread that is not         *)
(* consuming has orders to commit.                                          *)
HeadIsNext ==
  /\ head_ = Consumed % W
  /\ consuming \/ orders # <<>>

FlowInv ==
  /\ TypeOK
  /\ InOrder
  /\ BatchBounded
  /\ HeadIsNext
  /\ WindowsLag
  /\ UnsentFresh
  /\ ChannelsFresh
  /\ SlotsFresh
=============================================================================
