------------------------- MODULE TradingFlowProofs --------------------------
(***************************************************************************)
(* For every stock the threads, queues and sockets of the trading system   *)
(* implement the order flow.                                               *)
(***************************************************************************)
EXTENDS TradingFlow, TradingSystemProofs

LEMMA IdsOf ==
  ASSUME NEW q \in Seq(OrderRecords)
  PROVE  /\ Ids(q) \in Seq(OrderIds) /\ Len(Ids(q)) = Len(q)
         /\ \A i \in 1 .. Len(q) : Ids(q)[i] = q[i].id
<1>1. DOMAIN q = 1 .. Len(q) /\ Len(q) \in Nat
  BY LenProperties
<1>2. \A o \in OrderRecords : o.id \in OrderIds
  BY DEF OrderRecords
<1>3. \A i \in 1 .. Len(q) : q[i].id \in OrderIds
  BY <1>2, ElementOfSeq
<1> QED  BY <1>1, <1>3 DEF Ids

LEMMA IdsAppend ==
  ASSUME NEW q \in Seq(OrderRecords), NEW o \in OrderRecords
  PROVE  Ids(Append(q, o)) = Append(Ids(q), o.id)
<1> DEFINE r == Append(q, o)  a == Ids(r)  b == Ids(q)
<1>1. r \in Seq(OrderRecords) /\ Len(r) = Len(q) + 1 /\ o.id \in OrderIds /\ Len(q) \in Nat
      /\ (\A i \in 1 .. Len(q) : r[i] = q[i]) /\ r[Len(q) + 1] = o
  BY AppendProperties, LenProperties DEF OrderRecords
<1>2. /\ a \in Seq(OrderIds) /\ Len(a) = Len(q) + 1 /\ \A i \in 1 .. Len(q) + 1 : a[i] = r[i].id
      /\ b \in Seq(OrderIds) /\ Len(b) = Len(q) /\ \A i \in 1 .. Len(q) : b[i] = q[i].id
  <2> HIDE DEF r
  <2> QED  BY <1>1, IdsOf
<1> HIDE DEF r, a, b
<1>3. \A i \in 1 .. Len(q) + 1 : a[i] = Append(b, o.id)[i]
  BY <1>1, <1>2, AppendProperties
<1>4. Append(b, o.id) \in Seq(OrderIds) /\ Len(Append(b, o.id)) = Len(q) + 1
  BY <1>1, <1>2, AppendProperties
<1>5. a = Append(b, o.id)
  BY <1>2, <1>3, <1>4, SeqEqual
<1> QED  BY <1>5 DEF a, b, r

LEMMA IdsTail ==
  ASSUME NEW q \in Seq(OrderRecords), q # <<>>
  PROVE  Ids(q) # <<>> /\ Head(Ids(q)) = Head(q).id /\ Tail(Ids(q)) = Ids(Tail(q))
<1> DEFINE r == Tail(q)  a == Ids(r)  b == Ids(q)
<1>1. r \in Seq(OrderRecords) /\ Len(r) = Len(q) - 1 /\ Len(q) \in Nat \ {0}
      /\ (\A i \in 1 .. Len(q) - 1 : r[i] = q[i + 1]) /\ Head(q) = q[1]
  BY HeadTailProperties, EmptySeq
<1>2. /\ a \in Seq(OrderIds) /\ Len(a) = Len(q) - 1 /\ \A i \in 1 .. Len(q) - 1 : a[i] = r[i].id
      /\ b \in Seq(OrderIds) /\ Len(b) = Len(q) /\ \A i \in 1 .. Len(q) : b[i] = q[i].id
  <2> HIDE DEF r
  <2> QED  BY <1>1, IdsOf
<1> HIDE DEF r, a, b
<1>3. b # <<>> /\ Head(b) = Head(q).id
  BY <1>1, <1>2
<1>4. /\ Tail(b) \in Seq(OrderIds) /\ Len(Tail(b)) = Len(q) - 1
      /\ \A i \in 1 .. Len(q) - 1 : Tail(b)[i] = b[i + 1]
  BY <1>2, <1>3, HeadTailProperties
<1>5. \A i \in 1 .. Len(q) - 1 : a[i] = Tail(b)[i]
  <2>1. \A i \in 1 .. Len(q) - 1 : i + 1 \in 1 .. Len(q)
    BY <1>1
  <2> QED  BY <1>1, <1>2, <1>4, <2>1, ZenonT(30)
<1>6. a = Tail(b)
  BY <1>2, <1>4, <1>5, SeqEqual, SMTT(30)
<1> QED  BY <1>3, <1>6 DEF a, b, r

LEMMA AcksIs ==
  ASSUME NEW s, NEW t \in Traders
  PROVE  /\ Acks(s)[t] = Picked(t, ExchangeOf(s), AcksOf(s))
         /\ Acks(s)'[t] = Picked(t, ExchangeOf(s), AcksOf(s))'
  BY DEF Acks, AcksUnderWay, Picked

LEMMA AcksDomain ==
  ASSUME NEW s
  PROVE  /\ Acks(s) = [t \in Traders |-> Acks(s)[t]]
         /\ Acks(s)' = [t \in Traders |-> Acks(s)'[t]]
  BY DEF Acks

LEMMA AcksKept ==
  ASSUME NEW s \in Stocks, \A t \in Traders, x \in Exchanges : MsgsUnderWay(t, x)' = MsgsUnderWay(t, x)
  PROVE  Acks(s)' = Acks(s)
<1>1. \A t \in Traders : Acks(s)'[t] = Acks(s)[t]
  BY AcksIs, PickedIs, Constants DEF Picked
<1> QED  BY <1>1, AcksDomain

(* A message is put into the queue of the trade sender. *)
LEMMA AcksPut ==
  ASSUME SysInv, NEW y \in Exchanges, NEW m \in MsgsAt(y), PutMsg(y, m), UNCHANGED <<msg, msg_wire>>,
         NEW s \in Stocks
  PROVE  Acks(s)' = IF m.kind = "ack" /\ m.stk = s THEN [t \in Traders |-> Append(Acks(s)[t], m.value)]
                    ELSE Acks(s)
<1>1. m \in Messages /\ (m \in AcksOf(s) <=> m.kind = "ack" /\ m.stk = s) /\ (m \in AcksOf(s) => ExchangeOf(s) = y)
  BY DEF MsgsAt, AcksOf
<1>2. ASSUME NEW t \in Traders
      PROVE  Acks(s)'[t] = IF m \in AcksOf(s) THEN Append(Acks(s)[t], m.value) ELSE Acks(s)[t]
  <2>1. Picked(t, ExchangeOf(s), AcksOf(s))'
          = IF ExchangeOf(s) = y /\ m \in AcksOf(s) THEN Append(Picked(t, ExchangeOf(s), AcksOf(s)), m.value)
            ELSE Picked(t, ExchangeOf(s), AcksOf(s))
    BY Constants, PickedPut
  <2> QED  BY <1>1, <2>1, AcksIs, Zenon
<1>3. CASE m \in AcksOf(s)
  <2>1. Acks(s)' = [t \in Traders |-> Append(Acks(s)[t], m.value)]
    BY <1>2, <1>3, AcksDomain
  <2> QED  BY <1>1, <1>3, <2>1
<1>4. CASE m \notin AcksOf(s)
  <2>1. Acks(s)' = Acks(s)
    BY <1>2, <1>4, AcksDomain
  <2> QED  BY <1>1, <1>4, <2>1
<1> QED  BY <1>3, <1>4

(* A trader receives a message. *)
LEMMA AcksReceive ==
  ASSUME SysInv, NEW u \in Traders, NEW y \in Exchanges, Receive(u, y), NEW s \in Stocks
  PROVE  LET m == Head(msg_wire[y][u])
         IN  IF m.kind = "ack" /\ m.stk = s
             THEN /\ Acks(s)[u] # <<>> /\ Head(Acks(s)[u]) = m.value
                  /\ Acks(s)' = [Acks(s) EXCEPT ![u] = Tail(Acks(s)[u])]
             ELSE Acks(s)' = Acks(s)
<1> DEFINE m == Head(msg_wire[y][u])
<1>1. m \in MsgsAt(y) /\ m \in Messages
  BY ReceiveOK
<1>2. SUFFICES IF m.kind = "ack" /\ m.stk = s
               THEN /\ Acks(s)[u] # <<>> /\ Head(Acks(s)[u]) = m.value
                    /\ Acks(s)' = [Acks(s) EXCEPT ![u] = Tail(Acks(s)[u])]
               ELSE Acks(s)' = Acks(s)
  OBVIOUS
<1>3. ASSUME NEW t \in Traders
      PROVE  IF t = u /\ ExchangeOf(s) = y /\ m \in AcksOf(s)
             THEN /\ Picked(t, ExchangeOf(s), AcksOf(s)) # <<>>
                  /\ Head(Picked(t, ExchangeOf(s), AcksOf(s))) = m.value
                  /\ Picked(t, ExchangeOf(s), AcksOf(s))' = Tail(Picked(t, ExchangeOf(s), AcksOf(s)))
             ELSE Picked(t, ExchangeOf(s), AcksOf(s))' = Picked(t, ExchangeOf(s), AcksOf(s))
  BY PickedReceive, Constants
<1> HIDE DEF m
<1>4. (m \in AcksOf(s) <=> m.kind = "ack" /\ m.stk = s) /\ (m \in AcksOf(s) => ExchangeOf(s) = y)
  BY <1>1 DEF MsgsAt, AcksOf
<1>5. ASSUME NEW t \in Traders
      PROVE  IF t = u /\ m \in AcksOf(s)
             THEN /\ Acks(s)[t] # <<>> /\ Head(Acks(s)[t]) = m.value
                  /\ Acks(s)'[t] = Tail(Acks(s)[t])
             ELSE Acks(s)'[t] = Acks(s)[t]
  BY <1>3, <1>4, AcksIs, ZenonT(30)
<1>6. CASE m \in AcksOf(s)
  <2>1. Acks(s)[u] # <<>> /\ Head(Acks(s)[u]) = m.value
    BY <1>5, <1>6
  <2>2. \A t \in Traders : Acks(s)'[t] = IF t = u THEN Tail(Acks(s)[u]) ELSE Acks(s)[t]
    BY <1>5, <1>6
  <2>3. Acks(s)' = [Acks(s) EXCEPT ![u] = Tail(Acks(s)[u])]
    <3> DEFINE a == Acks(s)  b == Acks(s)'  e == Tail(a[u])
    <3>1. a = [t \in Traders |-> a[t]] /\ b = [t \in Traders |-> b[t]]
      BY AcksDomain
    <3>2. \A t \in Traders : b[t] = IF t = u THEN e ELSE a[t]
      BY <2>2
    <3> HIDE DEF a, b, e
    <3>3. b = [a EXCEPT ![u] = e]
      BY <3>1, <3>2
    <3> QED  BY <3>3 DEF a, b, e
  <2> QED  BY <1>4, <1>6, <2>1, <2>3
<1>7. CASE m \notin AcksOf(s)
  <2>1. \A t \in Traders : Acks(s)'[t] = Acks(s)[t]
    BY <1>5, <1>7
  <2>2. Acks(s)' = Acks(s)
    BY <2>1, AcksDomain
  <2> QED  BY <1>4, <1>7, <2>2
<1> QED  BY <1>6, <1>7

-----------------------------------------------------------------------------
(* Every step is a step of each stock's order flow, or leaves it alone. *)

FlowStep(s) == UNCHANGED Flow(s)!vars \/ Flow(s)!Next

(* What of a stock's flow changes only with one part of the system. *)
TraderKept(s) == Unsent(s)' = Unsent(s) /\ Window(s)' = Window(s) /\ Limits(s)' = Limits(s)
WindowKept(s) == Slots(s)' = Slots(s) /\ avaliable_'[s] = avaliable_[s] /\ head_'[s] = head_[s]
StockKept(s) ==
  /\ Ids(orders[s])' = Ids(orders[s]) /\ consuming'[s] = consuming[s]
  /\ not_ready_orders'[s] = not_ready_orders[s]
  /\ last_commit_order_id'[s] = last_commit_order_id[s]

LEMMA Stutters ==
  ASSUME NEW s, TraderKept(s), WindowKept(s), StockKept(s), Channel(s)' = Channel(s), Acks(s)' = Acks(s)
  PROVE  FlowStep(s)
  BY DEF FlowStep, TraderKept, WindowKept, StockKept, Flow!vars, Flow!traderVars, Flow!window, Flow!stockVars

LEMMA TradersKept ==
  ASSUME UNCHANGED <<next_sorted_struct_idx, order_id_limits, sliding_window_start>>, NEW s
  PROVE  TraderKept(s)
  BY DEF TraderKept, Unsent, Window, Limits

LEMMA WindowsKept ==
  ASSUME UNCHANGED windows, NEW s
  PROVE  WindowKept(s)
  BY DEF WindowKept, Slots, windows

LEMMA StocksKept ==
  ASSUME UNCHANGED <<orders, consuming, not_ready_orders, last_commit_order_id>>, NEW s
  PROVE  StockKept(s)
  BY DEF StockKept, Ids

LEMMA ChannelKept ==
  ASSUME NEW s, \A t \in Traders : UnderWay(t, s)' = UnderWay(t, s)
  PROVE  Channel(s)' = Channel(s)
<1>1. Channel(s)' = [t \in Traders |-> Ids(UnderWay(t, s)')]
  BY DEF Channel, Ids
<1> QED  BY <1>1 DEF Channel

(* The steps that leave the flows alone. *)
LEMMA QuietSteps ==
  ASSUME SysInv, NEW s \in Stocks,
         \/ \E t \in Traders : nextStock(t) \/ put_order(t)
         \/ \E t \in Traders, x \in Exchanges : OrderSender(t, x)
         \/ \E x \in Exchanges : TradeSender(x)
         \/ \E u \in Stocks : matchOrder(u)
         \/ UNCHANGED vars
  PROVE  FlowStep(s)
<1>1. /\ UNCHANGED <<next_sorted_struct_idx, order_id_limits, sliding_window_start>>
      /\ UNCHANGED windows
      /\ UNCHANGED <<orders, consuming, not_ready_orders, last_commit_order_id>>
  BY Zenon DEF nextStock, put_order, OrderSender, pollOrderToSend, sendOrder, TradeSender, takeMsg, sendMsg,
         matchOrder, vars, controllers, receivers, stocks
<1>2. \A t \in Traders : UnderWay(t, s)' = UnderWay(t, s)
  <2>1. ASSUME NEW t \in Traders, put_order(t) PROVE \A v \in Traders : UnderWay(v, s)' = UnderWay(v, s)
    BY <2>1, UnderWayPut
  <2>2. ASSUME NEW t \in Traders, NEW x \in Exchanges, OrderSender(t, x) PROVE \A v \in Traders : UnderWay(v, s)' = UnderWay(v, s)
    BY <2>2, UnderWayPoll, UnderWaySend DEF OrderSender
  <2>3. ASSUME \/ \E t \in Traders : nextStock(t)
               \/ \E x \in Exchanges : TradeSender(x)
               \/ \E u \in Stocks : matchOrder(u)
               \/ UNCHANGED vars
        PROVE  \A v \in Traders : UnderWay(v, s)' = UnderWay(v, s)
    <3>1. UNCHANGED <<senders, order_to_send>>
      BY <2>3, Zenon DEF nextStock, TradeSender, takeMsg, sendMsg, matchOrder, vars, controllers
    <3> QED  BY <3>1, UnderWayKept
  <2> QED  BY <2>1, <2>2, <2>3
<1>3. Acks(s)' = Acks(s)
  <2>1. ASSUME NEW y \in Exchanges, TradeSender(y) PROVE Acks(s)' = Acks(s)
    <3>1. \A t \in Traders, x \in Exchanges : MsgsUnderWay(t, x)' = MsgsUnderWay(t, x)
      BY <2>1, MsgsTake, MsgsSend DEF TradeSender
    <3> QED  BY <3>1, AcksKept
  <2>2. ASSUME \/ \E t \in Traders : nextStock(t) \/ put_order(t)
               \/ \E t \in Traders, x \in Exchanges : OrderSender(t, x)
               \/ \E u \in Stocks : matchOrder(u)
               \/ UNCHANGED vars
        PROVE  Acks(s)' = Acks(s)
    <3>1. UNCHANGED tradeSenders
      BY <2>2, Zenon DEF nextStock, put_order, OrderSender, pollOrderToSend, sendOrder, matchOrder, vars
    <3>2. \A t \in Traders, x \in Exchanges : MsgsUnderWay(t, x)' = MsgsUnderWay(t, x)
      BY <3>1, MsgsUnderWayKept
    <3> QED  BY <3>2, AcksKept
  <2> QED  BY <2>1, <2>2
<1> QED  BY <1>1, <1>2, <1>3, TradersKept, WindowsKept, StocksKept, ChannelKept, Stutters

LEMMA LimitStep ==
  ASSUME SysInv, NEW t \in Traders, readLimit(t), NEW s \in Stocks
  PROVE  FlowStep(s)
<1>1. PICK r \in Stocks :
        /\ order_id_limits' = [order_id_limits EXCEPT ![t][r] = sliding_window_start[t][r] + W]
        /\ UNCHANGED <<next_sorted_struct_idx, order_to_send, senders, receivers, windows, stocks, tradeSenders>>
  BY Zenon DEF readLimit
<1>2. WindowKept(s) /\ StockKept(s) /\ Channel(s)' = Channel(s) /\ Acks(s)' = Acks(s)
  <2>1. UNCHANGED windows /\ UNCHANGED <<orders, consuming, not_ready_orders, last_commit_order_id>>
    BY <1>1 DEF stocks
  <2>2. UNCHANGED <<senders, order_to_send>> /\ UNCHANGED tradeSenders
    BY <1>1
  <2> QED  BY <2>1, <2>2, WindowsKept, StocksKept, UnderWayKept, MsgsUnderWayKept, ChannelKept, AcksKept
<1>3. Unsent(s)' = Unsent(s) /\ Window(s)' = Window(s)
  BY <1>1 DEF Unsent, Window, receivers
<1>4. CASE s # r
  <2>1. Limits(s)' = Limits(s)
    BY <1>1, <1>4 DEF Limits, SysInv, ControllersOK
  <2> QED  BY <1>2, <1>3, <2>1, Stutters DEF TraderKept
<1>5. CASE s = r
  <2>1. Limits(s)' = [Limits(s) EXCEPT ![t] = Window(s)[t] + sliding_window_size]
    BY <1>1, <1>5, ZenonT(30) DEF Limits, Window, W, SysInv, ControllersOK
  <2>2. Flow(s)!readLimit(t)
    BY <1>2, <1>3, <2>1 DEF WindowKept, StockKept, Flow!readLimit, Flow!W, Flow!window, Flow!stockVars
  <2> QED  BY <2>2 DEF FlowStep, Flow!Next, Flow!Traders, Traders
<1> QED  BY <1>4, <1>5

(* What a trader still has to send begins with its next order. *)
LEMMA NextIsLeast ==
  ASSUME SysInv, NEW t \in Traders, NEW s \in Stocks, HasOrder(t, s)
  PROVE  /\ NextOrder(t, s) \in Unsent(s)[t]
         /\ \A p \in Unsent(s)[t] : NextOrder(t, s) <= p
         /\ Unsent(s)[t] \ {NextOrder(t, s)}
              = {sorted_order_structs[t][s][i] :
                   i \in next_sorted_struct_idx[t][s] + 2 .. Len(sorted_order_structs[t][s])}
<1> DEFINE a == sorted_order_structs[t][s]  n == next_sorted_struct_idx[t][s]
<1>1. a \in Seq(OrderIds) /\ n \in Nat /\ n < Len(a)
  BY DataAssumption DEF SysInv, ControllersOK, HasOrder
<1>2. \A i, j \in 1 .. Len(a) : i < j => a[i] < a[j]
  BY <1>1, DataAssumption, SMTT(30)
<1>3. NextOrder(t, s) = a[n + 1] /\ Unsent(s)[t] = {a[i] : i \in n + 1 .. Len(a)}
  BY DEF NextOrder, Unsent
<1>4. \A i \in 1 .. Len(a) : a[i] \in Int
  BY <1>1, Constants, SMTT(30) DEF OrderIds
<1>5. Len(a) \in Nat
  BY <1>1
<1> HIDE DEF a, n
<1>6. n + 1 \in n + 1 .. Len(a) /\ n + 1 \in 1 .. Len(a)
  BY <1>1, <1>5
<1>7. \A i \in n + 2 .. Len(a) : i \in n + 1 .. Len(a) /\ i \in 1 .. Len(a) /\ a[n + 1] < a[i]
  BY <1>1, <1>2, <1>5, <1>6
<1>8. \A i \in n + 1 .. Len(a) : i = n + 1 \/ i \in n + 2 .. Len(a)
  BY <1>1, <1>5
<1>9. \A i \in n + 1 .. Len(a) : a[n + 1] <= a[i]
  BY <1>4, <1>6, <1>7, <1>8
<1>10. {a[i] : i \in n + 1 .. Len(a)} \ {a[n + 1]} = {a[i] : i \in n + 2 .. Len(a)}
  <2>1. \A i \in n + 2 .. Len(a) : a[i] # a[n + 1]
    BY <1>4, <1>6, <1>7
  <2> QED  BY <1>6, <1>7, <1>8, <2>1
<1> QED  BY <1>3, <1>6, <1>9, <1>10, ZenonT(30) DEF a, n

LEMMA TakeStep ==
  ASSUME SysInv, NEW t \in Traders, takeOrder(t), NEW s \in Stocks
  PROVE  FlowStep(s)
<1>1. PICK r \in Stocks :
        /\ HasOrder(t, r) /\ check_order(t, r, NextOrder(t, r))
        /\ order_to_send' = [order_to_send EXCEPT ![t] =
             Append(@, [stk |-> r, id |-> NextOrder(t, r), type |-> TypeOf(t, r, NextOrder(t, r))])]
        /\ next_sorted_struct_idx' = [next_sorted_struct_idx EXCEPT ![t][r] = @ + 1]
        /\ UNCHANGED <<order_id_limits, senders, receivers, windows, stocks, tradeSenders>>
  BY Zenon DEF takeOrder
<1> DEFINE o == NextOrder(t, r)  e == [stk |-> r, id |-> o, type |-> TypeOf(t, r, o)]
<1>2. e \in OrdersOf(r)
  <2>1. o \in OrderIds
    BY <1>1, NextOrderOK
  <2> QED  BY <2>1 DEF OrdersOf, OrderRecords, TypeOf
<1>3. WindowKept(s) /\ StockKept(s) /\ Acks(s)' = Acks(s)
  <2>1. UNCHANGED windows /\ UNCHANGED <<orders, consuming, not_ready_orders, last_commit_order_id>>
    BY <1>1 DEF stocks
  <2>2. UNCHANGED tradeSenders
    BY <1>1
  <2> QED  BY <2>1, <2>2, WindowsKept, StocksKept, MsgsUnderWayKept, AcksKept
<1>4. Window(s)' = Window(s) /\ Limits(s)' = Limits(s)
  BY <1>1 DEF Limits, Window, receivers
<1>5. \A u \in Traders : UnderWay(u, s)' = IF u = t /\ s = r THEN Append(UnderWay(u, s), e) ELSE UnderWay(u, s)
  <2>1. Gathers(t, e)
    BY <1>1 DEF Gathers
  <2> HIDE DEF e
  <2> QED  BY <1>2, <2>1, UnderWayTake
<1>6. CASE s # r
  <2>1. Unsent(s)' = Unsent(s)
    <3>1. \A u \in Traders : next_sorted_struct_idx'[u][s] = next_sorted_struct_idx[u][s]
      BY <1>1, <1>6 DEF SysInv, ControllersOK
    <3> QED  BY <3>1 DEF Unsent
  <2>2. Channel(s)' = Channel(s)
    BY <1>5, <1>6, ChannelKept
  <2> QED  BY <1>3, <1>4, <2>1, <2>2, Stutters DEF TraderKept
<1>7. CASE s = r
  <2>1. /\ o \in Unsent(s)[t] /\ \A p \in Unsent(s)[t] : o <= p
        /\ Unsent(s)[t] \ {o} = {sorted_order_structs[t][s][i] :
                                   i \in next_sorted_struct_idx[t][s] + 2 .. Len(sorted_order_structs[t][s])}
    BY <1>1, <1>7, NextIsLeast
  <2>2. Unsent(s)' = [Unsent(s) EXCEPT ![t] = Unsent(s)[t] \ {o}]
    <3>1. \A u \in Traders : next_sorted_struct_idx'[u][s]
                               = IF u = t THEN next_sorted_struct_idx[t][s] + 1 ELSE next_sorted_struct_idx[u][s]
      BY <1>1, <1>7 DEF SysInv, ControllersOK
    <3>2. next_sorted_struct_idx[t][s] \in Nat
      BY DEF SysInv, ControllersOK
    <3>3. next_sorted_struct_idx'[t][s] + 1 = next_sorted_struct_idx[t][s] + 2
      BY <3>1, <3>2
    <3> HIDE DEF o
    <3>4. \A u \in Traders : Unsent(s)'[u] = IF u = t THEN Unsent(s)[t] \ {o} ELSE Unsent(s)[u]
      BY <2>1, <3>1, <3>3, ZenonT(30) DEF Unsent
    <3>5. Unsent(s) = [u \in Traders |-> Unsent(s)[u]] /\ Unsent(s)' = [u \in Traders |-> Unsent(s)'[u]]
      BY DEF Unsent
    <3> DEFINE a == Unsent(s)  b == Unsent(s)'  c == Unsent(s)[t] \ {o}
    <3> HIDE DEF a, b, c
    <3>6. b = [a EXCEPT ![t] = c]
      BY <3>4, <3>5 DEF a, b, c
    <3> QED  BY <3>6 DEF a, b, c
  <2>3. Channel(s)' = [Channel(s) EXCEPT ![t] = Append(Channel(s)[t], o)]
    <3>1. e \in OrderRecords /\ e.id = o
      BY <1>2 DEF OrdersOf
    <3> HIDE DEF e, o
    <3>2. Ids(Append(UnderWay(t, s), e)) = Append(Ids(UnderWay(t, s)), o)
      BY <3>1, UnderWayType, IdsAppend
    <3>3. Channel(s)' = [u \in Traders |-> Ids(UnderWay(u, s)')]
      BY DEF Channel, Ids
    <3>4. \A u \in Traders : Ids(UnderWay(u, s)') = IF u = t THEN Append(Channel(s)[t], o) ELSE Channel(s)[u]
      BY <1>5, <1>7, <3>2, ZenonT(30) DEF Channel
    <3>5. Channel(s) = [u \in Traders |-> Channel(s)[u]]
      BY DEF Channel
    <3> DEFINE a == Channel(s)  c == Append(Channel(s)[t], o)
    <3> HIDE DEF a, c
    <3>6. Channel(s)' = [a EXCEPT ![t] = c]
      BY <3>3, <3>4, <3>5 DEF a, c
    <3> QED  BY <3>6 DEF a, c
  <2>4. o < Limits(s)[t]
    BY <1>1, <1>7 DEF check_order, Limits
  <2> HIDE DEF o
  <2>5. Flow(s)!sendOrder(t)
    BY <1>3, <1>4, <2>1, <2>2, <2>3, <2>4, ZenonT(30)
       DEF WindowKept, StockKept, Flow!sendOrder, Flow!check_order, Flow!window, Flow!stockVars
  <2> QED  BY <2>5 DEF FlowStep, Flow!Next, Flow!Traders, Traders
<1> QED  BY <1>6, <1>7

LEMMA EvenPort ==
  ASSUME NEW t \in Traders
  PROVE  /\ 2 * t \in 0 .. 2 * trader_num - 1
         /\ (2 * t + 0) % (2 * trader_num) = 2 * t
         /\ (2 * t) % 2 = 0 /\ (2 * t) \div 2 = t
<1>1. t \in Nat /\ trader_num \in Nat \ {0} /\ t < trader_num
  BY Constants DEF Traders
<1>2. \A a, n \in Nat : a < n => a % n = a
  OBVIOUS
<1>3. 2 * t \in Nat /\ 2 * trader_num \in Nat /\ 2 * t < 2 * trader_num /\ 2 * t + 0 = 2 * t
  BY <1>1
<1>4. (2 * t) % (2 * trader_num) = 2 * t
  BY <1>2, <1>3
<1>5. (2 * t) % 2 = 0 /\ (2 * t) \div 2 = t
  BY <1>1
<1> QED  BY <1>3, <1>4, <1>5

LEMMA ReceiveStep ==
  ASSUME SysInv, NEW y \in Exchanges, receiveOrder(y), NEW s \in Stocks
  PROVE  FlowStep(s)
<1>1. PICK t \in Traders :
        /\ order_wire[t][y] # <<>>
        /\ order_wire' = [order_wire EXCEPT ![t][y] = Tail(@)]
        /\ LET o == Head(order_wire[t][y])
               window_idx == (o.id - 1) % W
           IN  IF avaliable_[o.stk][window_idx]
               THEN UNCHANGED <<data_, avaliable_>>
               ELSE /\ data_' = [data_ EXCEPT ![o.stk][window_idx] = o]
                    /\ avaliable_' = [avaliable_ EXCEPT ![o.stk][window_idx] = TRUE]
        /\ UNCHANGED <<controllers, order_queue_, order_msg, receivers, head_, stocks, tradeSenders>>
  BY Zenon DEF receiveOrder
<1> DEFINE o == Head(order_wire[t][y])  i == (o.id - 1) % W
<1>2. o \in OrderRecords
  <2>1. order_wire[t][y] \in Seq(OrderRecords)
    BY DEF SysInv, SendersOK
  <2> QED  BY <1>1, <2>1, HeadTailProperties, ZenonT(30)
<1>3. o.stk \in Stocks /\ o.id \in OrderIds
  BY <1>2 DEF OrderRecords
<1>4. i \in 0 .. W - 1
  BY <1>3, Constants DEF OrderIds
<1>5. TraderKept(s) /\ StockKept(s) /\ Acks(s)' = Acks(s)
  <2>1. /\ UNCHANGED <<next_sorted_struct_idx, order_id_limits, sliding_window_start>>
        /\ UNCHANGED <<orders, consuming, not_ready_orders, last_commit_order_id>>
        /\ UNCHANGED tradeSenders
    BY <1>1, Zenon DEF stocks, controllers, receivers
  <2> QED  BY <2>1, TradersKept, StocksKept, MsgsUnderWayKept, AcksKept
<1>6. ASSUME NEW u \in Traders
      PROVE  IF u = t /\ s = o.stk
             THEN /\ UnderWay(u, s) # <<>> /\ Head(UnderWay(u, s)) = o
                  /\ UnderWay(u, s)' = Tail(UnderWay(u, s))
             ELSE UnderWay(u, s)' = UnderWay(u, s)
  <2>1. UNCHANGED <<order_queue_, order_msg, order_to_send>>
    BY <1>1, Zenon DEF controllers
  <2> QED  BY <1>1, <2>1, UnderWayReceive, ZenonT(30)
<1>7. IF avaliable_[o.stk][i]
      THEN UNCHANGED <<data_, avaliable_>>
      ELSE /\ data_' = [data_ EXCEPT ![o.stk][i] = o]
           /\ avaliable_' = [avaliable_ EXCEPT ![o.stk][i] = TRUE]
  BY <1>1, Zenon
<1>8. head_' = head_
  BY <1>1, Zenon
<1> HIDE DEF o
<1>9. CASE s # o.stk
  <2>1. Channel(s)' = Channel(s)
    BY <1>6, <1>9, ChannelKept
  <2>2. data_'[s] = data_[s] /\ avaliable_'[s] = avaliable_[s]
    <3> HIDE DEF i
    <3> QED  BY <1>3, <1>4, <1>7, <1>9 DEF SysInv, WindowsOK
  <2>3. WindowKept(s)
    BY <1>8, <2>2 DEF WindowKept, Slots
  <2> QED  BY <1>5, <2>1, <2>3, Stutters
<1>10. CASE s = o.stk
  <2>1. UnderWay(t, s) # <<>> /\ Head(UnderWay(t, s)) = o /\ UnderWay(t, s) \in Seq(OrderRecords)
    BY <1>6, <1>10, UnderWayType
  <2>2. Channel(s)[t] # <<>> /\ Head(Channel(s)[t]) = o.id
        /\ Ids(Tail(UnderWay(t, s))) = Tail(Channel(s)[t])
    BY <2>1, IdsTail DEF Channel
  <2>3. Channel(s)' = [Channel(s) EXCEPT ![t] = Tail(Channel(s)[t])]
    <3>1. Channel(s)' = [u \in Traders |-> Ids(UnderWay(u, s)')]
      BY DEF Channel, Ids
    <3>2. \A u \in Traders : Ids(UnderWay(u, s)') = IF u = t THEN Tail(Channel(s)[t]) ELSE Channel(s)[u]
      <4>1. \A u \in Traders : UnderWay(u, s)' = IF u = t THEN Tail(UnderWay(u, s)) ELSE UnderWay(u, s)
        BY <1>6, <1>10, ZenonT(30)
      <4> QED  BY <2>2, <4>1, Zenon DEF Channel
    <3>3. Channel(s) = [u \in Traders |-> Channel(s)[u]]
      BY DEF Channel
    <3> DEFINE a == Channel(s)  c == Tail(Channel(s)[t])
    <3> HIDE DEF a, c
    <3>4. Channel(s)' = [a EXCEPT ![t] = c]
      BY <3>1, <3>2, <3>3, ZenonT(30) DEF a, c
    <3> QED  BY <3>4 DEF a, c
  <2>4. IF avaliable_[s][i]
        THEN Slots(s)' = Slots(s) /\ avaliable_'[s] = avaliable_[s]
        ELSE /\ Slots(s)' = [Slots(s) EXCEPT ![i] = o.id]
             /\ avaliable_'[s] = [avaliable_[s] EXCEPT ![i] = TRUE]
    <3> HIDE DEF i
    <3>1. CASE avaliable_[s][i]
      BY <1>7, <1>10, <3>1 DEF Slots
    <3>2. CASE ~avaliable_[s][i]
      <4>1. data_'[s] = [data_[s] EXCEPT ![i] = o] /\ avaliable_'[s] = [avaliable_[s] EXCEPT ![i] = TRUE]
        BY <1>3, <1>4, <1>7, <1>10, <3>2 DEF SysInv, WindowsOK
      <4>2. \A j \in 0 .. W - 1 : data_'[s][j].id = IF j = i THEN o.id ELSE data_[s][j].id
        BY <1>4, <4>1, ZenonT(30) DEF SysInv, WindowsOK
      <4>3. Slots(s)' = [Slots(s) EXCEPT ![i] = o.id]
        BY <4>2, ZenonT(30) DEF Slots
      <4> QED  BY <3>2, <4>1, <4>3
    <3> QED  BY <3>1, <3>2
  <2>5. Flow(s)!order_buffer!Store(o.id, i)
    BY <1>8, <2>4 DEF Flow!order_buffer!Store, Flow!order_buffer!slots
  <2>6. Flow(s)!PortAt(2 * t) = 2 * t /\ 2 * t \in Flow(s)!Ports
    BY EvenPort DEF Flow!PortAt, Flow!Ports
  <2>7. Flow(s)!HasMessage(2 * t) /\ (2 * t) \div 2 = t
    BY <2>2, EvenPort, SMTT(30) DEF Flow!HasMessage
  <2>8. Flow(s)!window_idx(Head(Channel(s)[t])) = i
    BY <2>2 DEF Flow!window_idx, Flow!W, W
  <2> HIDE DEF i
  <2>9. Flow(s)!receiveOrder
    <3> DEFINE p == Flow(s)!PortAt(2 * t)
    <3>1. p = 2 * t /\ p \div 2 = t /\ Flow(s)!HasMessage(p) /\ 2 * t \in Flow(s)!Ports
      BY <2>6, <2>7
    <3> HIDE DEF p
    <3>2. /\ Channel(s)' = [Channel(s) EXCEPT ![p \div 2] = Tail(Channel(s)[p \div 2])]
          /\ Flow(s)!order_buffer!Store(Head(Channel(s)[p \div 2]), Flow(s)!window_idx(Head(Channel(s)[p \div 2])))
      BY <2>2, <2>3, <2>5, <2>8, <3>1, ZenonT(30)
    <3>3. UNCHANGED <<Flow(s)!traderVars, 0, Flow(s)!stockVars, Acks(s)>>
      BY <1>5 DEF Flow!traderVars, Flow!stockVars, TraderKept, StockKept
    <3> QED  BY <3>1, <3>2, <3>3, ZenonT(30) DEF Flow!receiveOrder, p
  <2> QED  BY <2>9 DEF FlowStep, Flow!Next
<1> QED  BY <1>9, <1>10

LEMMA PollStep ==
  ASSUME SysInv, NEW r \in Stocks, pollOrder(r), NEW s \in Stocks
  PROVE  FlowStep(s)
<1> DEFINE h == head_[r]  o == data_[r][h]
<1>1. /\ h \in 0 .. W - 1 /\ consuming[r] /\ avaliable_[r][h] /\ o \in OrderRecords
      /\ orders' = [orders EXCEPT ![r] = Append(orders[r], o)]
      /\ avaliable_' = [avaliable_ EXCEPT ![r][h] = FALSE]
      /\ head_' = [head_ EXCEPT ![r] = (h + 1) % W]
      /\ UNCHANGED <<data_, consuming, not_ready_orders, last_commit_order_id>>
  BY DEF pollOrder, SysInv, WindowsOK, OrdersOf
<1>2. TraderKept(s) /\ Channel(s)' = Channel(s) /\ Acks(s)' = Acks(s)
  <2>1. /\ UNCHANGED <<next_sorted_struct_idx, order_id_limits, sliding_window_start>>
        /\ UNCHANGED <<senders, order_to_send>> /\ UNCHANGED tradeSenders
    BY DEF pollOrder, controllers, receivers
  <2> QED  BY <2>1, TradersKept, UnderWayKept, ChannelKept, MsgsUnderWayKept, AcksKept
<1>3. Slots(s)' = Slots(s)
  BY <1>1 DEF Slots
<1>4. CASE s # r
  <2>1. orders'[s] = orders[s] /\ avaliable_'[s] = avaliable_[s] /\ head_'[s] = head_[s]
    BY <1>1, <1>4 DEF SysInv, StocksOK, WindowsOK
  <2>2. Ids(orders[s])' = Ids(orders'[s])
    BY DEF Ids
  <2>3. StockKept(s)
    BY <1>1, <2>1, <2>2 DEF StockKept
  <2>4. WindowKept(s)
    BY <1>3, <2>1 DEF WindowKept
  <2> QED  BY <1>2, <2>3, <2>4, Stutters
<1>5. CASE s = r
  <2>1. /\ orders'[s] = Append(orders[s], o) /\ avaliable_'[s] = [avaliable_[s] EXCEPT ![h] = FALSE]
        /\ head_'[s] = (head_[s] + 1) % sliding_window_size
    <3> HIDE DEF o
    <3> QED  BY <1>1, <1>5 DEF W, SysInv, StocksOK, WindowsOK
  <2>2. Slots(s)[head_[s]] = o.id
    BY <1>1, <1>5 DEF Slots
  <2>3. orders[s] \in Seq(OrderRecords)
    BY DEF SysInv, StocksOK
  <2> HIDE DEF o
  <2>4. Ids(orders'[s]) = Append(Ids(orders[s]), Slots(s)[head_[s]])
    BY <1>1, <2>1, <2>2, <2>3, IdsAppend
  <2>5. Ids(orders[s])' = Ids(orders'[s])
    BY DEF Ids
  <2>6. Flow(s)!order_buffer!TakeHead
    BY <1>1, <1>3, <1>5, <2>1 DEF Flow!order_buffer!TakeHead
  <2>7. Flow(s)!pollOrder
    BY <1>1, <1>2, <1>5, <2>4, <2>5, <2>6 DEF Flow!pollOrder, Flow!traderVars, TraderKept
  <2> QED  BY <2>7 DEF FlowStep, Flow!Next, Flow!Stock
<1> QED  BY <1>4, <1>5

LEMMA AckStep ==
  ASSUME SysInv, NEW r \in Stocks, ackOrders(r), NEW s \in Stocks
  PROVE  FlowStep(s)
<1> DEFINE m == Ack(r, orders[r][Len(orders[r])].id)
<1>1. /\ consuming[r] /\ ~avaliable_[r][head_[r]] /\ orders[r] # <<>>
      /\ PutMsg(ExchangeOf(r), m) /\ UNCHANGED <<msg, msg_wire>>
      /\ consuming' = [consuming EXCEPT ![r] = FALSE]
      /\ UNCHANGED <<orders, not_ready_orders, last_commit_order_id>>
      /\ UNCHANGED <<next_sorted_struct_idx, order_id_limits, sliding_window_start>>
      /\ UNCHANGED <<senders, order_to_send>> /\ UNCHANGED windows
  BY DEF ackOrders, controllers, receivers
<1>2. TraderKept(s) /\ Channel(s)' = Channel(s) /\ WindowKept(s)
  BY <1>1, TradersKept, UnderWayKept, ChannelKept, WindowsKept
<1>3. Ids(orders[s])' = Ids(orders[s])
  BY <1>1 DEF Ids
<1>4. orders[r][Len(orders[r])].id \in OrderIds
  BY <1>1, LastOrder
<1>5. m \in MsgsAt(ExchangeOf(r)) /\ m.kind = "ack" /\ m.stk = r /\ m.value = orders[r][Len(orders[r])].id
  BY <1>4, Constants DEF Ack, MsgsAt, Messages, OrderIds
<1>6. Acks(s)' = IF r = s THEN [t \in Traders |-> Append(Acks(s)[t], orders[r][Len(orders[r])].id)] ELSE Acks(s)
  <2> HIDE DEF m
  <2> QED  BY <1>1, <1>5, AcksPut, Constants
<1>7. CASE s # r
  <2>1. StockKept(s)
    BY <1>1, <1>3, <1>7 DEF StockKept, SysInv, StocksOK
  <2> QED  BY <1>2, <1>6, <1>7, <2>1, Stutters
<1>8. CASE s = r
  <2>1. orders[s] \in Seq(OrderRecords)
    BY DEF SysInv, StocksOK
  <2>2. /\ Ids(orders[s]) # <<>>
        /\ Ids(orders[s])[Len(Ids(orders[s]))] = orders[s][Len(orders[s])].id
    BY <1>1, <1>8, <2>1, IdsOf, EmptySeq
  <2>3. consuming'[s] = FALSE
    BY <1>1, <1>8 DEF SysInv, StocksOK
  <2>4. Acks(s)' = [t \in Traders |-> Append(Acks(s)[t], Ids(orders[s])[Len(Ids(orders[s]))])]
    BY <1>6, <1>8, <2>2
  <2>5. Flow(s)!ackOrders
    BY <1>1, <1>2, <1>3, <1>8, <2>2, <2>3, <2>4, ZenonT(30)
       DEF Flow!ackOrders, Flow!Traders, Traders, Flow!traderVars, Flow!window, TraderKept, WindowKept
  <2> QED  BY <2>5 DEF FlowStep, Flow!Next, Flow!Stock
<1> QED  BY <1>7, <1>8

(* The instance's Cardinality is the same. *)
LEMMA SameCardinality ==
  ASSUME NEW s, NEW S
  PROVE  Flow(s)!Cardinality(S) = Cardinality(S)
  BY DEF Flow!Cardinality, Cardinality

LEMMA CommitStep ==
  ASSUME SysInv, NEW r \in Stocks, commitOrders(r), NEW s \in Stocks
  PROVE  FlowStep(s)
<1> DEFINE S == not_ready_orders[r] \cup {Head(orders[r]).id}
<1>1. /\ matching[r] = <<(<<>>)>>
      /\ not_ready_orders' = [not_ready_orders EXCEPT ![r] = S \ Committed(r, S)]
      /\ last_commit_order_id' = [last_commit_order_id EXCEPT ![r] = @ + Cardinality(Committed(r, S))]
      /\ orders' = [orders EXCEPT ![r] = Tail(@)]
      /\ consuming' = [consuming EXCEPT ![r] = Tail(orders[r]) = <<>>]
      /\ UNCHANGED <<next_sorted_struct_idx, order_id_limits, sliding_window_start>>
      /\ UNCHANGED <<senders, order_to_send>> /\ UNCHANGED windows /\ UNCHANGED tradeSenders
  BY DEF commitOrders, controllers, receivers
<1>2. TraderKept(s) /\ Channel(s)' = Channel(s) /\ WindowKept(s) /\ Acks(s)' = Acks(s)
  BY <1>1, TradersKept, UnderWayKept, ChannelKept, WindowsKept, MsgsUnderWayKept, AcksKept, ZenonT(30)
<1>3. Ids(orders[s])' = Ids(orders'[s])
  BY DEF Ids
<1>4. CASE s # r
  <2>1. /\ orders'[s] = orders[s] /\ consuming'[s] = consuming[s]
        /\ not_ready_orders'[s] = not_ready_orders[s]
        /\ last_commit_order_id'[s] = last_commit_order_id[s]
    BY <1>1, <1>4 DEF SysInv, StocksOK
  <2>2. StockKept(s)
    BY <1>3, <2>1 DEF StockKept
  <2> QED  BY <1>2, <2>2, Stutters
<1>5. CASE s = r
  <2>1. ~consuming[s] /\ orders[s] # <<>> /\ orders[s] \in Seq(OrderRecords)
    <3>1. matching[s] # <<>>
      BY <1>1, <1>5, SMTT(30)
    <3>2. ~consuming[s]
      BY <3>1, MatchingOK
    <3> QED  BY <3>2 DEF SysInv, StocksOK
  <2>2. /\ Ids(orders[s]) # <<>> /\ Head(Ids(orders[s])) = Head(orders[s]).id
        /\ Tail(Ids(orders[s])) = Ids(Tail(orders[s]))
    BY <2>1, IdsTail
  <2>3. /\ orders'[s] = Tail(orders[s]) /\ consuming'[s] = (Tail(orders[s]) = <<>>)
        /\ not_ready_orders'[s] = S \ Committed(s, S)
        /\ last_commit_order_id'[s] = last_commit_order_id[s] + Cardinality(Committed(s, S))
    <3> HIDE DEF S
    <3> QED  BY <1>1, <1>5 DEF SysInv, StocksOK
  <2>4. (Tail(orders[s]) = <<>>) <=> (Tail(Ids(orders[s])) = <<>>)
    <3> DEFINE q == Tail(orders[s])
    <3>1. q \in Seq(OrderRecords)
      BY <2>1, HeadTailProperties
    <3> HIDE DEF q
    <3>2. Ids(q) \in Seq(OrderIds) /\ Len(Ids(q)) = Len(q)
      BY <3>1, IdsOf
    <3>3. q = <<>> <=> Ids(q) = <<>>
      BY <3>1, <3>2, EmptySeq
    <3> QED  BY <2>2, <3>3, SMTT(30) DEF q
  <2>5. S = not_ready_orders[s] \cup {Head(Ids(orders[s]))}
    BY <1>5, <2>2
  <2>6. Flow(s)!Committed(S) = Committed(s, S)
    <3> HIDE DEF S
    <3> QED  BY DEF Flow!Committed, Committed
  <2>7. Ids(orders[s])' = Tail(Ids(orders[s]))
    BY <1>3, <2>2, <2>3
  <2>8. consuming'[s] = (Tail(Ids(orders[s])) = <<>>)
    BY <2>3, <2>4, SMTT(30)
  <2> HIDE DEF S
  <2>9. Flow(s)!commitOrders
    <3> DEFINE R == not_ready_orders[s] \cup {Head(Ids(orders[s]))}
    <3>1. /\ not_ready_orders'[s] = R \ Flow(s)!Committed(R)
          /\ last_commit_order_id'[s] = last_commit_order_id[s] + Cardinality(Flow(s)!Committed(R))
      BY <2>3, <2>5, <2>6, ZenonT(30)
    <3>2. UNCHANGED <<Flow(s)!traderVars, Channel(s), 0, Flow(s)!window, Acks(s)>>
      BY <1>2 DEF Flow!traderVars, Flow!window, TraderKept, WindowKept
    <3> QED  BY <2>1, <2>7, <2>8, <3>1, <3>2, SameCardinality, ZenonT(30) DEF Flow!commitOrders
  <2> QED  BY <2>9 DEF FlowStep, Flow!Next, Flow!Stock
<1> QED  BY <1>4, <1>5

LEMMA ProduceStep ==
  ASSUME SysInv, NEW r \in Stocks, produceTrade(r), NEW s \in Stocks
  PROVE  FlowStep(s)
<1> DEFINE v == Head(matching[r][1])  m == Trade(r, v)
<1>1. /\ matching[r] # <<>> /\ matching[r][1] # <<>>
      /\ PutMsg(ExchangeOf(r), m) /\ UNCHANGED <<msg, msg_wire>>
      /\ UNCHANGED <<orders, consuming, not_ready_orders, last_commit_order_id>>
      /\ UNCHANGED <<next_sorted_struct_idx, order_id_limits, sliding_window_start>>
      /\ UNCHANGED <<senders, order_to_send>> /\ UNCHANGED windows
  BY DEF produceTrade, controllers, receivers
<1>2. v \in Nat
  BY <1>1, MatchingOK, HeadTailProperties
<1>3. m \in MsgsAt(ExchangeOf(r)) /\ m.kind # "ack"
  <2> HIDE DEF v
  <2> QED  BY <1>2 DEF Trade, MsgsAt, Messages
<1>4. Acks(s)' = Acks(s)
  <2> HIDE DEF m
  <2> QED  BY <1>1, <1>3, AcksPut, Constants
<1> QED  BY <1>1, <1>4, TradersKept, UnderWayKept, ChannelKept, WindowsKept, StocksKept, Stutters, ZenonT(30)

LEMMA ReceiverStep ==
  ASSUME SysInv, NEW t \in Traders, NEW y \in Exchanges, NEW s \in Stocks,
         process_order_ack(t, y) \/ process_trade_result(t, y)
  PROVE  FlowStep(s)
<1> DEFINE m == Head(msg_wire[y][t])
<1>1. Receive(t, y)
  BY Zenon DEF process_order_ack, process_trade_result
<1>2. /\ UNCHANGED <<next_sorted_struct_idx, order_id_limits>> /\ UNCHANGED <<senders, order_to_send>>
      /\ UNCHANGED windows /\ UNCHANGED <<orders, consuming, not_ready_orders, last_commit_order_id>>
  BY <1>1 DEF Receive, controllers, stocks
<1>3. Channel(s)' = Channel(s) /\ WindowKept(s) /\ StockKept(s)
  BY <1>2, UnderWayKept, ChannelKept, WindowsKept, StocksKept
<1>4. Unsent(s)' = Unsent(s) /\ Limits(s)' = Limits(s)
  BY <1>2 DEF Unsent, Limits
<1>5. IF m.kind = "ack" /\ m.stk = s
      THEN /\ Acks(s)[t] # <<>> /\ Head(Acks(s)[t]) = m.value
           /\ Acks(s)' = [Acks(s) EXCEPT ![t] = Tail(Acks(s)[t])]
      ELSE Acks(s)' = Acks(s)
  BY <1>1, AcksReceive
<1>6. m \in Messages
  BY <1>1, ReceiveOK
<1>7. CASE process_trade_result(t, y)
  <2>1. m.kind = "trade" /\ UNCHANGED sliding_window_start
    BY <1>7, Zenon DEF process_trade_result
  <2>2. Window(s)' = Window(s)
    BY <2>1 DEF Window
  <2>3. Acks(s)' = Acks(s)
    BY <1>5, <2>1
  <2> QED  BY <1>3, <1>4, <2>2, <2>3, Stutters DEF TraderKept
<1>8. CASE process_order_ack(t, y)
  <2>1. m.kind = "ack" /\ sliding_window_start' = [sliding_window_start EXCEPT ![t][m.stk] = m.value + 1]
    BY <1>8 DEF process_order_ack
  <2> HIDE DEF m
  <2>2. m.stk \in Stocks
    BY <1>6 DEF Messages
  <2>3. CASE m.stk # s
    <3>1. Window(s)' = Window(s)
      BY <2>1, <2>2, <2>3 DEF Window, SysInv, ReceiversOK
    <3>2. Acks(s)' = Acks(s)
      BY <1>5, <2>3
    <3> QED  BY <1>3, <1>4, <3>1, <3>2, Stutters DEF TraderKept
  <2>4. CASE m.stk = s
    <3>1. Window(s)' = [Window(s) EXCEPT ![t] = m.value + 1]
      BY <2>1, <2>2, <2>4, ZenonT(30) DEF Window, SysInv, ReceiversOK
    <3>2. /\ Acks(s)[t] # <<>> /\ Head(Acks(s)[t]) = m.value
          /\ Acks(s)' = [Acks(s) EXCEPT ![t] = Tail(Acks(s)[t])]
      BY <1>5, <2>1, <2>4
    <3>3. Flow(s)!process_order_ack(t)
      BY <1>3, <1>4, <3>1, <3>2, ZenonT(30)
         DEF Flow!process_order_ack, Flow!window, Flow!stockVars, WindowKept, StockKept
    <3> QED  BY <3>3 DEF FlowStep, Flow!Next, Flow!Traders, Traders
  <2> QED  BY <2>3, <2>4
<1> QED  BY <1>7, <1>8

LEMMA FlowInit ==
  ASSUME Init, NEW s \in Stocks
  PROVE  Flow(s)!Init
<1>1. \A t \in Traders : Unsent(s)[t] = Range(sorted_order_structs[t][s])
  <2> SUFFICES ASSUME NEW t \in Traders PROVE Unsent(s)[t] = Range(sorted_order_structs[t][s])
    OBVIOUS
  <2>1. DOMAIN sorted_order_structs[t][s] = 1 .. Len(sorted_order_structs[t][s])
    BY DataAssumption, LenProperties
  <2>2. next_sorted_struct_idx[t][s] + 1 = 1
    BY DEF Init
  <2> QED  BY <2>1, <2>2 DEF Unsent, Range
<1>2. Unsent(s) \in {f \in [Flow(s)!Traders -> SUBSET Flow(s)!OrderIds] : Flow(s)!IsPartition(f)}
  <2>1. Flow(s)!Traders = Traders /\ Flow(s)!OrderIds = OrderIds
    BY DEF Flow!Traders, Flow!OrderIds, Traders, OrderIds
  <2>2. \A t \in Traders : Unsent(s)[t] \in SUBSET OrderIds
    <3>1. \A t \in Traders : sorted_order_structs[t][s] \in Seq(OrderIds)
      BY DataAssumption
    <3> QED  BY <1>1, <3>1, RangeOfSeq
  <2>3. Unsent(s) \in [Traders -> SUBSET OrderIds]
    <3>1. Unsent(s) = [t \in Traders |-> Unsent(s)[t]]
      BY DEF Unsent
    <3> DEFINE a == Unsent(s)
    <3> HIDE DEF a
    <3>2. a \in [Traders -> SUBSET OrderIds]
      BY <2>2, <3>1 DEF a
    <3> QED  BY <3>2 DEF a
  <2>4. /\ \A t, u \in Traders : t # u => Unsent(s)[t] \cap Unsent(s)[u] = {}
        /\ \A o \in OrderIds : \E t \in Traders : o \in Unsent(s)[t]
    <3>1. \A t, u \in Traders :
            t # u => Range(sorted_order_structs[t][s]) \cap Range(sorted_order_structs[u][s]) = {}
      BY DataAssumption, Zenon
    <3>2. \A o \in OrderIds : \E t \in Traders : o \in Range(sorted_order_structs[t][s])
      BY DataAssumption, Zenon
    <3>3. \A t, u \in Traders : t # u => Unsent(s)[t] \cap Unsent(s)[u] = {}
      BY <1>1, <3>1
    <3>4. \A o \in OrderIds : \E t \in Traders : o \in Unsent(s)[t]
      BY <1>1, <3>2
    <3> QED  BY <3>3, <3>4
  <2>5. Flow(s)!IsPartition(Unsent(s))
    BY <2>1, <2>4 DEF Flow!IsPartition
  <2> QED  BY <2>1, <2>3, <2>5
<1>3. Window(s) = [t \in Flow(s)!Traders |-> 1] /\ Limits(s) = [t \in Flow(s)!Traders |-> 0]
  BY DEF Init, Window, Limits, Flow!Traders, Traders
<1>4. Ids(<<>>) = <<>> /\ Values(<<>>) = <<>>
  BY DEF Ids, Values
<1>5. Channel(s) = [t \in Flow(s)!Traders |-> <<>>]
  BY <1>4, EmptyPipes DEF Channel, Flow!Traders, Traders
<1>6. Acks(s) = [t \in Flow(s)!Traders |-> <<>>]
  BY <1>4, EmptyPipes, SelectEmpty DEF Acks, AcksUnderWay, Flow!Traders, Traders
<1>7. Flow(s)!order_buffer!SlotsInit
  BY DEF Init, Slots, W, NoOrder, Flow!order_buffer!SlotsInit, Flow!order_buffer!Slots
<1>8. /\ Ids(orders[s]) = <<>> /\ consuming[s] = TRUE /\ not_ready_orders[s] = {}
      /\ last_commit_order_id[s] = 0
  BY <1>4 DEF Init
<1> QED  BY <1>2, <1>3, <1>5, <1>6, <1>7, <1>8 DEF Flow!Init

LEMMA FlowNext ==
  ASSUME SysInv, [Next]_vars, NEW s \in Stocks
  PROVE  FlowStep(s)
<1>1. CASE UNCHANGED vars
  BY <1>1, QuietSteps
<1>2. CASE \E t \in Traders : Controller(t) \/ TradeReceiver(t)
  <2>1. PICK t \in Traders : Controller(t) \/ TradeReceiver(t)
    BY <1>2
  <2>2. CASE readLimit(t)
    BY <2>2, LimitStep
  <2>3. CASE takeOrder(t)
    BY <2>3, TakeStep
  <2>4. CASE nextStock(t) \/ put_order(t)
    BY <2>4, QuietSteps
  <2>5. CASE TradeReceiver(t)
    BY <2>5, ReceiverStep DEF TradeReceiver
  <2> QED  BY <2>1, <2>2, <2>3, <2>4, <2>5 DEF Controller
<1>3. CASE \E t \in Traders, x \in Exchanges : OrderSender(t, x)
  BY <1>3, QuietSteps
<1>4. CASE \E x \in Exchanges : receiveOrder(x) \/ TradeSender(x)
  BY <1>4, ReceiveStep, QuietSteps
<1>5. CASE \E r \in Stocks : Stock(r)
  <2>1. PICK r \in Stocks : Stock(r)
    BY <1>5
  <2> QED  BY <2>1, PollStep, AckStep, QuietSteps, ProduceStep, CommitStep DEF Stock
<1> QED  BY <1>1, <1>2, <1>3, <1>4, <1>5 DEF Next

(* Whatever the numbers of traders, exchanges and stocks, the sizes of the  *)
(* window and the sockets, the data and the hooks: for each stock the       *)
(* system implements OrderFlow.                                             *)
THEOREM SystemImplementsFlow == Spec => FlowRefined
<1>1. Init => \A s \in Stocks : Flow(s)!Init
  BY FlowInit
<1>2. SysInv /\ [Next]_vars => [\A s \in Stocks : UNCHANGED Flow(s)!vars \/ Flow(s)!Next]_vars
  BY FlowNext DEF FlowStep
<1> QED  BY <1>1, <1>2, SystemInvariant, PTL DEF Spec, FlowRefined

-----------------------------------------------------------------------------
CONSTANT stock  \* any of the stocks

Of == INSTANCE OrderFlowProofs WITH
  unsent <- Unsent(stock),
  sliding_window_start <- Window(stock),
  order_id_limits <- Limits(stock),
  order_channel <- Channel(stock),
  offset <- 0,
  data_ <- Slots(stock),
  avaliable_ <- avaliable_[stock],
  head_ <- head_[stock],
  orders <- Ids(orders[stock]),
  consuming <- consuming[stock],
  not_ready_orders <- not_ready_orders[stock],
  last_commit_order_id <- last_commit_order_id[stock],
  ack_channel <- Acks(stock)

(* The mapping with the stock as parameter and the one of this stock agree. *)
LEMMA SameInit == Flow(stock)!Init => Of!Init
  BY DEF Flow!Init, Of!Init, Flow!Traders, Of!Traders, Flow!OrderIds, Of!OrderIds, Flow!IsPartition, Of!IsPartition,
    Flow!order_buffer!SlotsInit, Of!order_buffer!SlotsInit, Flow!order_buffer!Slots, Of!order_buffer!Slots

LEMMA SameVars == UNCHANGED Flow(stock)!vars => UNCHANGED Of!vars
  BY ZenonT(40) DEF Flow!vars, Of!vars, Flow!traderVars, Of!traderVars, Flow!window, Of!window, Flow!stockVars, Of!stockVars

LEMMA SameNext == Flow(stock)!Next => Of!Next
<1> USE DEF Flow!traderVars, Of!traderVars, Flow!window, Of!window, Flow!stockVars, Of!stockVars, Flow!W, Of!W, Flow!Traders, Of!Traders
<1>1. ASSUME NEW t, Flow(stock)!readLimit(t) PROVE Of!readLimit(t)
  BY <1>1 DEF Flow!readLimit, Of!readLimit
<1>2. ASSUME NEW t, Flow(stock)!sendOrder(t) PROVE Of!sendOrder(t)
  BY <1>2, ZenonT(40) DEF Flow!sendOrder, Of!sendOrder, Flow!check_order, Of!check_order
<1>3. ASSUME NEW t, Flow(stock)!process_order_ack(t) PROVE Of!process_order_ack(t)
  BY <1>3, ZenonT(40) DEF Flow!process_order_ack, Of!process_order_ack
<1>4. Flow(stock)!receiveOrder => Of!receiveOrder
  BY ZenonT(40) DEF Flow!receiveOrder, Of!receiveOrder, Flow!Ports, Of!Ports, Flow!HasMessage, Of!HasMessage, Flow!PortAt, Of!PortAt,
     Flow!window_idx, Of!window_idx, Flow!order_buffer!Store, Of!order_buffer!Store,
     Flow!order_buffer!slots, Of!order_buffer!slots
<1>5. Flow(stock)!receiveNothing => Of!receiveNothing
  BY ZenonT(40) DEF Flow!receiveNothing, Of!receiveNothing
<1>6. Flow(stock)!pollOrder => Of!pollOrder
  BY DEF Flow!pollOrder, Of!pollOrder, Flow!order_buffer!TakeHead, Of!order_buffer!TakeHead
<1>7. Flow(stock)!ackOrders => Of!ackOrders
  BY DEF Flow!ackOrders, Of!ackOrders
<1>8. Flow(stock)!commitOrders => Of!commitOrders
  BY ZenonT(40) DEF Flow!commitOrders, Of!commitOrders, Flow!Committed, Of!Committed,
     Flow!Cardinality, Of!Cardinality
<1> QED  BY <1>1, <1>2, <1>3, <1>4, <1>5, <1>6, <1>7, <1>8 DEF Flow!Next, Of!Next, Flow!Stock, Of!Stock

(* What the order flow guarantees holds of any stock of the whole system,   *)
(* with all its threads, queues and sockets: an order that arrives finds    *)
(* its slot free (Exchange::receiveOrder drops none), acks never move a     *)
(* window back (the assert of update_sliding_window_start), the stock's     *)
(* thread gets the orders of all traders in id order, a batch of            *)
(* comsumeOrder() and what a trader has under way fit into a window.        *)
THEOREM EveryStockFlows ==
  ASSUME stock \in Stocks
  PROVE  Spec => [](Of!NoCollision /\ Of!AcksMonotone /\ Of!InOrder /\ Of!BatchBounded /\ Of!ChannelBounded)
<1>0. Of!ConfigAssumption
  BY ConfigAssumption, SMTT(30) DEF Of!ConfigAssumption
<1>1. Init => Of!Init
  BY FlowInit, SameInit, SMTT(30)
<1>2. SysInv /\ [Next]_vars => [Of!Next]_(Of!vars)
  BY FlowNext, SameNext, SameVars, SMTT(30) DEF FlowStep
<1>3. Of!Spec => []Of!NoCollision
  BY <1>0, Of!WindowNeverCollides, SMTT(30)
<1>4. Of!Spec => []Of!AcksMonotone
  BY <1>0, Of!AcksNeverRegress, SMTT(30)
<1>5. Of!Spec => []Of!InOrder
  BY <1>0, Of!OrdersCommitInOrder, SMTT(30)
<1>6. Of!Spec => []Of!BatchBounded
  BY <1>0, Of!BatchesStayBounded, SMTT(30)
<1>7. Of!Spec => []Of!ChannelBounded
  BY <1>0, Of!ChannelsStayBounded, SMTT(30)
<1> QED  BY <1>1, <1>2, <1>3, <1>4, <1>5, <1>6, <1>7, SystemInvariant, PTL DEF Spec, Of!Spec
=============================================================================
