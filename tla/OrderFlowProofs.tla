-------------------------- MODULE OrderFlowProofs --------------------------
(***************************************************************************)
(* Proofs about OrderFlow, for every number of traders, window size and    *)
(* number of orders, and every way the orders are divided.                 *)
(***************************************************************************)
EXTENDS OrderFlow, FiniteSetTheorems, TLAPS

(* Remainders: the order of each id has its slot in the window. *)

(* The remainder of a division is a slot of the ring. *)
LEMMA ModBounds ==
  ASSUME NEW a \in Int, NEW n \in Nat \ {0}
  PROVE  a % n \in 0 .. n - 1
  OBVIOUS

(* Division with remainder. *)
LEMMA DivMod ==
  ASSUME NEW a \in Int, NEW n \in Nat \ {0}
  PROVE  a \div n \in Int /\ a = n * (a \div n) + (a % n)
  OBVIOUS

(* A multiple of n between 0 and n - 1 is 0. *)
LEMMA SmallMultiple ==
  ASSUME NEW q \in Int, NEW n \in Nat \ {0}, 0 <= n * q, n * q < n
  PROVE  q = 0
  <1>1. CASE q >= 1
    <2>1. n * q >= n * 1 BY <1>1
    <2> QED BY <2>1
  <1>2. CASE q <= -1
    <2>1. n * q <= n * (-1) BY <1>2
    <2> QED BY <2>1
  <1> QED BY <1>1, <1>2

(* Numbers less than n apart have different remainders: a window of n ids   *)
(* has a slot for each.                                                     *)
LEMMA ModUnique ==
  ASSUME NEW a \in Int, NEW b \in Int, NEW n \in Nat \ {0},
         a <= b, b < a + n, a % n = b % n
  PROVE  a = b
  <1> DEFINE p == a \div n  q == b \div n
  <1>1. /\ p \in Int /\ a = n * p + (a % n)
        /\ q \in Int /\ b = n * q + (b % n)
    BY DivMod
  <1>2. a % n \in Int BY ModBounds
  <1> HIDE DEF p, q
  <1>3. b - a = n * q - n * p BY <1>1, <1>2
  <1>4. n * q - n * p = n * (q - p) BY <1>1
  <1>5. q - p = 0 BY <1>1, <1>3, <1>4, SmallMultiple
  <1> QED BY <1>1, <1>3, <1>4, <1>5

(* A number below n is its own remainder. *)
LEMMA ModSmall ==
  ASSUME NEW n \in Nat \ {0}, NEW a \in 0 .. n - 1
  PROVE  a % n = a
  OBVIOUS

(* Past n the remainder wraps around once. *)
LEMMA ModWrap ==
  ASSUME NEW n \in Nat \ {0}, NEW a \in n .. 2 * n - 1
  PROVE  a % n = a - n
  OBVIOUS

(* The remainder of a division is unique. *)
LEMMA RemainderUnique ==
  ASSUME NEW n \in Nat \ {0}, NEW p \in Int, NEW q \in Int,
         NEW r \in 0 .. n - 1, NEW s \in 0 .. n - 1, n * p + r = n * q + s
  PROVE  r = s
  <1>1. n * (p - q) = s - r /\ n * (q - p) = r - s OBVIOUS
  <1>2. CASE s >= r BY <1>1, <1>2, SmallMultiple
  <1>3. CASE r >= s BY <1>1, <1>3, SmallMultiple
  <1> QED BY <1>2, <1>3

(* Stepping a wrapped index is stepping the index and wrapping it. *)
LEMMA ModStep ==
  ASSUME NEW a \in Int, NEW n \in Nat \ {0}
  PROVE  ((a % n) + 1) % n = (a + 1) % n
  <1> DEFINE p == a \div n  r == a % n  q == (a + 1) \div n  s == (a + 1) % n
  <1>1. /\ p \in Int /\ a = n * p + r
        /\ q \in Int /\ a + 1 = n * q + s
    BY DivMod
  <1>2. r \in 0 .. n - 1 /\ s \in 0 .. n - 1 BY ModBounds
  <1> SUFFICES (r + 1) % n = s OBVIOUS
  <1> HIDE DEF p, q, r, s
  <1>3. CASE r + 1 < n
    <2>1. n * p + (r + 1) = n * q + s BY <1>1, <1>2
    <2>2. r + 1 = s BY <1>1, <1>2, <1>3, <2>1, RemainderUnique
    <2> QED BY <1>2, <1>3, <2>2, ModSmall
  <1>4. CASE r + 1 = n
    <2>1. n * (p + 1) + 0 = n * q + s BY <1>1, <1>2, <1>4
    <2>2. s = 0 BY <1>1, <1>2, <2>1, RemainderUnique
    <2> QED BY <1>2, <1>4, <2>2, ModWrap
  <1> QED BY <1>2, <1>3, <1>4

-----------------------------------------------------------------------------
USE ConfigAssumption DEF W, window_idx, check_order

(* The invariant holds at the start: no order is anywhere but unsent. *)
LEMMA FlowInvInit == Init => FlowInv
  <1> SUFFICES ASSUME Init PROVE FlowInv
    OBVIOUS
  <1> USE DEF Init, order_buffer!SlotsInit, order_buffer!Slots, OrderIds, IsPartition
  <1>1. TypeOK
    BY DEF TypeOK, Ports
  <1>2. Consumed = 0 /\ Acked = 0 /\ 0 % W = 0
    BY ModSmall DEF Consumed, Acked
  <1>3. InOrder /\ BatchBounded /\ HeadIsNext
    BY <1>2 DEF InOrder, BatchBounded, HeadIsNext
  <1>4. WindowsLag
    BY <1>2 DEF WindowsLag
  <1>5. UnsentFresh /\ ChannelsFresh /\ SlotsFresh
    BY <1>2 DEF UnsentFresh, ChannelsFresh, SlotsFresh
  <1> QED
    BY <1>1, <1>3, <1>4, <1>5 DEF FlowInv

(* Two counters that the invariant compares everything with are numbers. *)
LEMMA CountersType ==
  ASSUME TypeOK
  PROVE  Consumed \in Nat /\ Acked \in Nat /\ Acked <= Consumed
  BY DEF TypeOK, Consumed, Acked

(* What travels in the channels are order ids, hence numbers. *)
LEMMA ChannelTypes ==
  ASSUME TypeOK, NEW u \in Traders
  PROVE  /\ order_channel[u] \in Seq(OrderIds)
         /\ Len(order_channel[u]) \in Nat
         /\ \A i \in 1 .. Len(order_channel[u]) :
              order_channel[u][i] \in OrderIds /\ order_channel[u][i] \in Nat
  <1>1. order_channel[u] \in Seq(OrderIds) /\ OrderIds \subseteq Nat
    BY DEF TypeOK, OrderIds
  <1> DEFINE c == order_channel[u]
  <1> HIDE DEF c
  <1>2. c \in Seq(OrderIds)
    BY <1>1 DEF c
  <1>3. Len(c) \in Nat /\ \A i \in 1 .. Len(c) : c[i] \in OrderIds
    BY <1>2
  <1> QED
    BY <1>1, <1>3, Zenon DEF c

(* A controller that reads its limit keeps the invariant: the window lags   *)
(* behind the acks.                                                         *)
LEMMA ReadLimitInv ==
  ASSUME FlowInv, NEW t \in Traders, readLimit(t)
  PROVE  FlowInv'
  <1> USE DEF FlowInv, readLimit, window, stockVars
  <1>1. TypeOK'
    BY SMTT(30) DEF TypeOK, Ports
  <1>2. Consumed' = Consumed /\ Acked' = Acked
    BY DEF Consumed, Acked
  <1>3. InOrder' /\ BatchBounded' /\ HeadIsNext'
    BY <1>2 DEF InOrder, BatchBounded, HeadIsNext
  <1>4. WindowsLag'
    <2> SUFFICES ASSUME NEW u \in Traders
                 PROVE  order_id_limits'[u] <= sliding_window_start[u] + W
      BY <1>2 DEF WindowsLag
    <2>1. CASE u = t
      BY <2>1 DEF TypeOK
    <2>2. CASE u # t
      BY <2>2 DEF TypeOK, WindowsLag
    <2> QED
      BY <2>1, <2>2
  <1>5. UnsentFresh' /\ SlotsFresh'
    BY <1>2 DEF UnsentFresh, SlotsFresh
  <1>6. \A u \in Traders : order_id_limits'[u] \in Nat /\ order_id_limits'[u] >= order_id_limits[u]
    BY SMTT(30) DEF WindowsLag, TypeOK
  <1>7. ASSUME NEW u \in Traders, NEW i \in 1 .. Len(order_channel[u])
        PROVE  order_channel[u][i] < order_id_limits'[u]
    <2>1. order_channel[u][i] \in Nat
      BY ChannelTypes
    <2>2. order_id_limits[u] \in Nat
      BY DEF TypeOK
    <2>3. order_channel[u][i] < order_id_limits[u]
      BY DEF ChannelsFresh
    <2> HIDE DEF FlowInv, readLimit
    <2> QED
      BY <1>6, <2>1, <2>2, <2>3
  <1>8. ChannelsFresh'
    BY <1>2, <1>7 DEF ChannelsFresh
  <1> QED
    BY <1>1, <1>3, <1>4, <1>5, <1>8

(* Handling an ack keeps the invariant: acks are under way in increasing    *)
(* order.                                                                   *)
LEMMA AckInv ==
  ASSUME FlowInv, NEW t \in Traders, process_order_ack(t)
  PROVE  FlowInv'
  <1> USE DEF FlowInv, process_order_ack, window, stockVars
  <1> DEFINE c == ack_channel[t]
  <1>1. /\ c \in Seq(OrderIds) /\ Len(c) \in Nat /\ Len(c) >= 1
        /\ Head(c) = c[1]
        /\ Tail(c) \in Seq(OrderIds) /\ Len(Tail(c)) = Len(c) - 1
        /\ \A i \in 1 .. Len(c) - 1 : Tail(c)[i] = c[i + 1]
        /\ \A i \in 1 .. Len(c) : c[i] \in Nat
    <2>1. c \in Seq(OrderIds) /\ c # <<>>
      BY DEF TypeOK
    <2>2. OrderIds \subseteq Nat
      BY DEF OrderIds
    <2> HIDE DEF c, FlowInv, process_order_ack
    <2>3. /\ Len(c) \in Nat /\ Len(c) >= 1 /\ Head(c) = c[1]
          /\ Tail(c) \in Seq(OrderIds) /\ Len(Tail(c)) = Len(c) - 1
          /\ \A i \in 1 .. Len(c) - 1 : Tail(c)[i] = c[i + 1]
          /\ \A i \in 1 .. Len(c) : c[i] \in OrderIds
      BY <2>1
    <2> QED
      BY <2>1, <2>2, <2>3, Zenon
  <1>2. /\ ack_channel' = [ack_channel EXCEPT ![t] = Tail(c)]
        /\ sliding_window_start' = [sliding_window_start EXCEPT ![t] = c[1] + 1]
    BY <1>1
  <1> HIDE DEF c
  <1>3. TypeOK'
    <2>1. /\ ack_channel' \in [Traders -> Seq(OrderIds)]
          /\ sliding_window_start' \in [Traders -> Nat]
      <3>1. /\ ack_channel \in [Traders -> Seq(OrderIds)]
            /\ sliding_window_start \in [Traders -> Nat]
        BY DEF TypeOK
      <3>2. c[1] + 1 \in Nat
        BY <1>1
      <3> HIDE DEF FlowInv, process_order_ack
      <3> QED
        BY <1>1, <1>2, <3>1, <3>2
    <2> QED
      BY <2>1, SMTT(30) DEF TypeOK
  <1>4. Consumed' = Consumed /\ Acked' = Acked
    BY DEF Consumed, Acked
  <1>5. InOrder' /\ BatchBounded' /\ HeadIsNext'
    BY <1>4 DEF InOrder, BatchBounded, HeadIsNext
  <1>6. /\ sliding_window_start[t] \in Nat /\ order_id_limits[t] \in Nat /\ Acked \in Nat
        /\ order_id_limits[t] <= sliding_window_start[t] + W
        /\ \A i \in 1 .. Len(c) : c[i] <= Acked /\ c[i] + 1 >= sliding_window_start[t]
        /\ \A i, j \in 1 .. Len(c) : i < j => c[i] <= c[j]
    BY CountersType, Zenon DEF TypeOK, WindowsLag, c
  <1>7. WindowsLag'
    <2> SUFFICES ASSUME NEW u \in Traders
                 PROVE  /\ sliding_window_start'[u] <= Acked + 1
                        /\ order_id_limits[u] <= sliding_window_start'[u] + W
                        /\ \A i \in 1 .. Len(ack_channel'[u]) :
                             /\ ack_channel'[u][i] <= Acked
                             /\ ack_channel'[u][i] + 1 >= sliding_window_start'[u]
                        /\ \A i, j \in 1 .. Len(ack_channel'[u]) :
                             i < j => ack_channel'[u][i] <= ack_channel'[u][j]
      BY <1>4, Zenon DEF WindowsLag
    <2>1. CASE u # t
      BY <2>1, <1>2, Zenon DEF TypeOK, WindowsLag
    <2>2. CASE u = t
      <3>1. ack_channel'[u] = Tail(c) /\ sliding_window_start'[u] = c[1] + 1
        BY <2>2, <1>2, SMTT(30) DEF TypeOK
      <3>2. c[1] + 1 <= Acked + 1 /\ order_id_limits[t] <= c[1] + 1 + W
        BY <1>1, <1>6, SMTT(30)
      <3>3. ASSUME NEW i \in 1 .. Len(Tail(c))
            PROVE  Tail(c)[i] <= Acked /\ Tail(c)[i] + 1 >= c[1] + 1
        <4>1. i + 1 \in 1 .. Len(c) /\ 1 \in 1 .. Len(c) /\ 1 < i + 1 /\ Tail(c)[i] = c[i + 1]
          BY <1>1
        <4>2. c[1] <= c[i + 1] /\ c[i + 1] <= Acked /\ c[1] \in Nat /\ c[i + 1] \in Nat
          BY <4>1, <1>1, <1>6
        <4> QED
          BY <4>1, <4>2
      <3>4. ASSUME NEW i \in 1 .. Len(Tail(c)), NEW j \in 1 .. Len(Tail(c)), i < j
            PROVE  Tail(c)[i] <= Tail(c)[j]
        <4>1. /\ i + 1 \in 1 .. Len(c) /\ j + 1 \in 1 .. Len(c) /\ i + 1 < j + 1
              /\ Tail(c)[i] = c[i + 1] /\ Tail(c)[j] = c[j + 1]
          BY <3>4, <1>1
        <4> QED
          BY <4>1, <1>6
      <3> QED
        BY <2>2, <3>1, <3>2, <3>3, <3>4, Zenon
    <2> QED
      BY <2>1, <2>2, Zenon
  <1>8. UnsentFresh' /\ SlotsFresh' /\ ChannelsFresh'
    BY <1>4 DEF UnsentFresh, SlotsFresh, ChannelsFresh
  <1> QED
    BY <1>3, <1>5, <1>7, <1>8

(* Sending an order below the limit keeps the invariant: it is younger      *)
(* than all sent before.                                                    *)
LEMMA SendOrderInv ==
  ASSUME FlowInv, NEW t \in Traders, sendOrder(t)
  PROVE  FlowInv'
  <1> USE DEF FlowInv, window, stockVars
  <1>0. PICK o \in unsent[t] :
          /\ \A p \in unsent[t] : o <= p
          /\ o < order_id_limits[t]
          /\ unsent' = [unsent EXCEPT ![t] = @ \ {o}]
          /\ order_channel' = [order_channel EXCEPT ![t] = Append(@, o)]
          /\ UNCHANGED <<sliding_window_start, order_id_limits, offset, window,
                         stockVars, ack_channel>>
    BY Zenon DEF sendOrder
  <1> DEFINE c == order_channel[t]
             d == Append(c, o)
  <1>1. /\ o \in OrderIds /\ o \in Nat
        /\ c \in Seq(OrderIds) /\ Len(c) \in Nat
        /\ d \in Seq(OrderIds) /\ Len(d) = Len(c) + 1 /\ d[Len(c) + 1] = o
        /\ \A i \in 1 .. Len(c) : d[i] = c[i] /\ c[i] \in Nat
        /\ \A u \in Traders : \A i \in 1 .. Len(order_channel[u]) : order_channel[u][i] \in Nat
        /\ \A u \in Traders : Len(order_channel[u]) \in Nat
    <2>1. o \in OrderIds /\ c \in Seq(OrderIds)
      BY DEF TypeOK
    <2>2. \A u \in Traders :
            /\ Len(order_channel[u]) \in Nat
            /\ \A i \in 1 .. Len(order_channel[u]) : order_channel[u][i] \in Nat
      BY ChannelTypes
    <2>3. OrderIds \subseteq Nat
      BY DEF OrderIds
    <2> HIDE DEF c, FlowInv
    <2>4. /\ Len(c) \in Nat /\ d \in Seq(OrderIds) /\ Len(d) = Len(c) + 1
          /\ d[Len(c) + 1] = o
          /\ \A i \in 1 .. Len(c) : d[i] = c[i] /\ c[i] \in OrderIds
      BY <2>1
    <2> QED
      BY <2>1, <2>2, <2>3, <2>4, Zenon
  <1>2. /\ order_channel'[t] = d
        /\ \A u \in Traders \ {t} : order_channel'[u] = order_channel[u]
        /\ unsent'[t] = unsent[t] \ {o}
        /\ \A u \in Traders \ {t} : unsent'[u] = unsent[u]
        /\ \A u \in Traders : unsent'[u] \subseteq unsent[u]
    BY <1>0 DEF TypeOK
  <1> HIDE DEF c, d
  <1>3. TypeOK'
    BY <1>0, <1>1 DEF TypeOK, c, d
  <1>4. Consumed' = Consumed /\ Acked' = Acked
    BY <1>0 DEF Consumed, Acked
  <1>5. InOrder' /\ BatchBounded' /\ HeadIsNext' /\ WindowsLag'
    BY <1>0, <1>4 DEF InOrder, BatchBounded, HeadIsNext, WindowsLag
  <1>6. UnsentFresh'
    BY <1>2, <1>4 DEF UnsentFresh
  <1>7. /\ o > Consumed /\ o < order_id_limits[t]
        /\ \A u \in Traders \ {t} : o \notin unsent[u]
        /\ \A u \in Traders : o \notin unsent'[u]
        /\ \A p \in unsent'[t] : o < p
    <2>1. \A p \in unsent[t] : p \in Nat
      BY DEF TypeOK, OrderIds
    <2> QED
      BY <1>0, <1>1, <1>2, <2>1, SMTT(30) DEF UnsentFresh
  <1>8. /\ \A i \in 1 .. Len(c) : c[i] < o
        /\ \A u \in Traders \ {t} : \A i \in 1 .. Len(order_channel[u]) : order_channel[u][i] # o
    BY <1>0 DEF ChannelsFresh, c
  <1>9. ChannelsFresh'
    <2> SUFFICES ASSUME NEW u \in Traders, NEW i \in 1 .. Len(order_channel'[u])
          PROVE
            /\ order_channel'[u][i] > Consumed
            /\ order_channel'[u][i] < order_id_limits[u]
            /\ \A j \in 1 .. Len(order_channel'[u]) :
                 i < j => order_channel'[u][j] - order_channel'[u][i] >= j - i
            /\ \A p \in unsent'[u] : order_channel'[u][i] < p
            /\ \A v \in Traders \ {u} :
                 /\ order_channel'[u][i] \notin unsent'[v]
                 /\ \A j \in 1 .. Len(order_channel'[v]) :
                      order_channel'[u][i] # order_channel'[v][j]
      BY <1>0, <1>4 DEF ChannelsFresh
    <2>1. CASE u = t /\ i = Len(c) + 1
      <3>1. order_channel'[u][i] = o /\ Len(order_channel'[u]) = i
        BY <1>1, <1>2, <2>1
      <3>2. \A v \in Traders \ {u} :
              /\ o \notin unsent'[v]
              /\ \A j \in 1 .. Len(order_channel'[v]) : o # order_channel'[v][j]
        BY <1>2, <1>7, <1>8, <2>1
      <3> QED
        BY <1>1, <1>7, <2>1, <3>1, <3>2
    <2>2. CASE u = t /\ i # Len(c) + 1
      <3>1. i \in 1 .. Len(c) /\ order_channel'[u][i] = c[i]
        BY <1>1, <1>2, <2>2
      <3>2. /\ c[i] > Consumed /\ c[i] < order_id_limits[u]
            /\ \A p \in unsent'[u] : c[i] < p
        BY <1>2, <2>2, <3>1 DEF ChannelsFresh, c
      <3>3. ASSUME NEW j \in 1 .. Len(d), i < j
            PROVE  d[j] - c[i] >= j - i
        <4>1. CASE j <= Len(c)
          BY <1>1, <2>2, <3>1, <3>3, <4>1 DEF ChannelsFresh, c
        <4>2. CASE j = Len(c) + 1 /\ i = Len(c)
          BY <1>1, <1>8, <3>1, <4>2
        <4>3. CASE j = Len(c) + 1 /\ i < Len(c)
          <5>1. Len(c) \in 1 .. Len(c) /\ c[Len(c)] < o /\ c[Len(c)] - c[i] >= Len(c) - i
            <6>1. Len(c) \in 1 .. Len(c) /\ i \in 1 .. Len(c) /\ i < Len(c)
              BY <1>1, <3>1, <4>3
            <6>2. \A k, m \in 1 .. Len(c) : k < m => c[m] - c[k] >= m - k
              BY DEF ChannelsFresh, c
            <6> HIDE DEF FlowInv
            <6> QED
              BY <1>8, <6>1, <6>2
          <5>2. d[j] = o /\ c[i] \in Nat /\ c[Len(c)] \in Nat /\ i \in Nat
            BY <1>1, <3>1, <4>3, <5>1, SMTT(30)
          <5> HIDE DEF FlowInv
          <5> QED
            BY <1>1, <4>3, <5>1, <5>2, SMTT(30)
        <4> QED
          BY <1>1, <3>1, <4>1, <4>2, <4>3
      <3>4. ASSUME NEW v \in Traders \ {u}
            PROVE  /\ c[i] \notin unsent'[v]
                   /\ \A j \in 1 .. Len(order_channel'[v]) : c[i] # order_channel'[v][j]
        BY <1>2, <2>2, <3>1, SMTT(30) DEF ChannelsFresh, c
      <3> QED
        BY <1>2, <2>2, <3>1, <3>2, <3>3, <3>4
    <2>3. CASE u # t
      <3>1. order_channel'[u] = order_channel[u] /\ i \in 1 .. Len(order_channel[u])
        BY <1>2, <2>3
      <3>2. ASSUME NEW v \in Traders \ {u}
            PROVE  /\ order_channel[u][i] \notin unsent'[v]
                   /\ \A j \in 1 .. Len(order_channel'[v]) :
                        order_channel[u][i] # order_channel'[v][j]
        <4>1. order_channel[u][i] \notin unsent'[v]
          BY <1>2, <3>1 DEF ChannelsFresh
        <4>2. CASE v # t
          BY <1>2, <3>1, <4>1, <4>2 DEF ChannelsFresh
        <4>3. CASE v = t
          <5>1. ASSUME NEW j \in 1 .. Len(d) PROVE order_channel[u][i] # d[j]
            <6>1. CASE j = Len(c) + 1
              BY <1>1, <1>8, <2>3, <3>1, <6>1
            <6>2. CASE j # Len(c) + 1
              <7>1. j \in 1 .. Len(c) /\ d[j] = c[j]
                BY <1>1, <6>2
              <7>2. t \in Traders \ {u}
                BY <2>3
              <7>3. \A k \in 1 .. Len(c) : order_channel[u][i] # c[k]
                BY <3>1, <7>2 DEF ChannelsFresh, c
              <7> HIDE DEF FlowInv
              <7> QED
                BY <7>1, <7>3
            <6> QED
              BY <6>1, <6>2
          <5> QED
            BY <1>2, <4>1, <4>3, <5>1
        <4> QED
          BY <4>2, <4>3
      <3> QED
        BY <1>2, <2>3, <3>1, <3>2 DEF ChannelsFresh
    <2> QED
      BY <2>1, <2>2, <2>3
  <1>10. SlotsFresh'
    <2> SUFFICES ASSUME NEW s \in 0 .. W - 1, avaliable_[s]
                 PROVE  /\ data_[s] > Consumed
                        /\ data_[s] <= Acked + W
                        /\ (data_[s] - 1) % W = s
                        /\ \A u \in Traders :
                             /\ data_[s] \notin unsent'[u]
                             /\ \A i \in 1 .. Len(order_channel'[u]) :
                                  order_channel'[u][i] # data_[s]
      BY <1>0, <1>4 DEF SlotsFresh
    <2>1. /\ data_[s] > Consumed /\ data_[s] <= Acked + W /\ (data_[s] - 1) % W = s
          /\ data_[s] # o
      BY DEF SlotsFresh
    <2>2. ASSUME NEW i \in 1 .. Len(d) PROVE d[i] # data_[s]
      <3>1. CASE i = Len(c) + 1
        BY <1>1, <2>1, <3>1
      <3>2. CASE i # Len(c) + 1
        BY <1>1, <3>2, SMTT(30) DEF SlotsFresh, c
      <3> QED
        BY <3>1, <3>2
    <2> QED
      BY <1>2, <2>1, <2>2 DEF SlotsFresh
  <1> QED
    BY <1>3, <1>5, <1>6, <1>9, <1>10

(* The orders of a channel lie in the window of W ids after the last ack. *)
LEMMA ChannelRange ==
  ASSUME FlowInv, NEW t \in Traders, NEW i \in 1 .. Len(order_channel[t])
  PROVE  /\ order_channel[t][i] \in Nat
         /\ order_channel[t][i] > Consumed
         /\ order_channel[t][i] <= Acked + W
  <1>1. order_channel[t][i] \in Nat
    BY ChannelTypes DEF FlowInv
  <1>2. order_channel[t][i] > Consumed /\ order_channel[t][i] < order_id_limits[t]
    BY DEF FlowInv, ChannelsFresh
  <1>3. /\ order_id_limits[t] <= sliding_window_start[t] + W
        /\ sliding_window_start[t] <= Acked + 1
    BY DEF FlowInv, WindowsLag
  <1>4. order_id_limits[t] \in Nat /\ sliding_window_start[t] \in Nat /\ Acked \in Nat
    BY CountersType DEF FlowInv, TypeOK
  <1> QED
    BY <1>1, <1>2, <1>3, <1>4, SMTT(30)

(* Two ids of that window with the same slot are the same id: the order     *)
(* that arrives would have to be in the slot already.                       *)
LEMMA SlotFree ==
  ASSUME FlowInv, NEW t \in Traders, NEW i \in 1 .. Len(order_channel[t])
  PROVE  /\ (order_channel[t][i] - 1) % W \in 0 .. W - 1
         /\ ~avaliable_[(order_channel[t][i] - 1) % W]
  <1> DEFINE o == order_channel[t][i]
             s == (o - 1) % W
             d == data_[s]
  <1>1. o \in Nat /\ o > Consumed /\ o <= Acked + W
    BY ChannelRange
  <1>2. Consumed \in Nat /\ Acked \in Nat /\ Acked <= Consumed
    BY CountersType DEF FlowInv
  <1>3. s \in 0 .. W - 1
    <2> HIDE DEF o
    <2>1. o - 1 \in Int /\ W \in Nat \ {0}
      BY <1>1
    <2> QED
      BY <2>1, ModBounds, Zenon
  <1>4. ASSUME avaliable_[s] PROVE FALSE
    <2>1. d > Consumed /\ d <= Acked + W /\ (d - 1) % W = s /\ o # d
      BY <1>3, <1>4 DEF FlowInv, SlotsFresh
    <2>2. d \in Int
      BY <1>3 DEF FlowInv, TypeOK, OrderIds
    <2>3. (o - 1) % W = (d - 1) % W
      BY <2>1
    <2> HIDE DEF o, s, d
    <2>4. CASE o <= d
      <3>1. /\ o - 1 \in Int /\ d - 1 \in Int /\ W \in Nat \ {0}
            /\ o - 1 <= d - 1 /\ d - 1 < (o - 1) + W
        BY <1>1, <1>2, <2>1, <2>2, <2>4
      <3>2. o - 1 = d - 1
        BY <2>3, <3>1, ModUnique
      <3> QED
        BY <1>1, <2>1, <2>2, <3>2
    <2>5. CASE d <= o
      <3>1. /\ d - 1 \in Int /\ o - 1 \in Int /\ W \in Nat \ {0}
            /\ d - 1 <= o - 1 /\ o - 1 < (d - 1) + W
        BY <1>1, <1>2, <2>1, <2>2, <2>5
      <3>2. d - 1 = o - 1
        BY <2>3, <3>1, ModUnique
      <3> QED
        BY <1>1, <2>1, <2>2, <3>2
    <2> QED
      BY <1>1, <2>2, <2>4, <2>5
  <1> QED
    BY <1>3, <1>4

(* Receiving an order keeps the invariant: its slot is free and no other    *)
(* order maps to it.                                                        *)
LEMMA ReceiveOrderInv ==
  ASSUME FlowInv, receiveOrder
  PROVE  FlowInv'
  <1> USE DEF FlowInv, stockVars, traderVars
  <1>1. PICK idx \in Ports :
          /\ HasMessage(PortAt(idx))
          /\ LET t == PortAt(idx) \div 2
                 o == Head(order_channel[t])
             IN  /\ order_channel' = [order_channel EXCEPT ![t] = Tail(@)]
                 /\ order_buffer!Store(o, (o - 1) % W)
          /\ UNCHANGED <<traderVars, offset, stockVars, ack_channel>>
    BY Zenon DEF receiveOrder
  <1> DEFINE t == PortAt(idx) \div 2
             c == order_channel[t]
             o == c[1]
             s == (o - 1) % W
  <1>2. t \in Traders /\ c # <<>>
    <2> DEFINE p == PortAt(idx)
    <2>1. p \in 0 .. 2 * trader_num - 1
      BY ModBounds DEF PortAt, Ports, TypeOK
    <2> HIDE DEF p
    <2>2. p \div 2 \in 0 .. trader_num - 1
      BY <2>1
    <2> QED
      BY <1>1, <2>2 DEF Traders, HasMessage, p
  <1> HIDE DEF t
  <1>3. /\ c \in Seq(OrderIds) /\ Len(c) \in Nat /\ Len(c) >= 1
        /\ Head(c) = o /\ o \in OrderIds
        /\ Tail(c) \in Seq(OrderIds) /\ Len(Tail(c)) = Len(c) - 1
        /\ \A i \in 1 .. Len(c) - 1 : i + 1 \in 1 .. Len(c) /\ Tail(c)[i] = c[i + 1]
        /\ \A i \in 1 .. Len(c) : c[i] \in Nat
    <2>1. c \in Seq(OrderIds) /\ \A i \in 1 .. Len(c) : c[i] \in Nat
      BY <1>2, ChannelTypes
    <2>2. c # <<>>
      BY <1>2
    <2> HIDE DEF c
    <2> QED
      BY <2>1, <2>2
  <1>4. 1 \in 1 .. Len(c) /\ s \in 0 .. W - 1 /\ ~avaliable_[s]
    BY <1>2, <1>3, SlotFree
  <1>5. /\ order_channel' = [order_channel EXCEPT ![t] = Tail(c)]
        /\ data_' = [data_ EXCEPT ![s] = o]
        /\ avaliable_' = [avaliable_ EXCEPT ![s] = TRUE]
        /\ head_' = head_
    BY <1>1, <1>3, <1>4 DEF order_buffer!Store, t
  <1>6. UNCHANGED <<traderVars, offset, stockVars, ack_channel>>
    BY <1>1
  <1>7. o \in Nat /\ o > Consumed /\ o <= Acked + W
    BY <1>2, <1>4, ChannelRange
  <1>8. \A u \in Traders : o \notin unsent[u]
    <2>1. \A p \in unsent[t] : o < p
      BY <1>2, <1>4 DEF ChannelsFresh
    <2>2. \A u \in Traders \ {t} : o \notin unsent[u]
      BY <1>2, <1>4 DEF ChannelsFresh
    <2> QED
      BY <1>7, <2>1, <2>2
  <1>9. /\ \A j \in 1 .. Len(c) : 1 < j => c[j] # o
        /\ \A u \in Traders \ {t} : \A j \in 1 .. Len(order_channel[u]) : order_channel[u][j] # o
    <2>1. \A j \in 1 .. Len(c) : 1 < j => c[j] - o >= j - 1
      BY <1>2, <1>4 DEF ChannelsFresh
    <2> QED
      BY <1>2, <1>3, <1>4, <1>7, <2>1 DEF ChannelsFresh
  <1>10. /\ order_channel'[t] = Tail(c)
         /\ \A u \in Traders \ {t} : order_channel'[u] = order_channel[u]
         /\ data_'[s] = o
         /\ \A r \in (0 .. W - 1) \ {s} : data_'[r] = data_[r] /\ avaliable_'[r] = avaliable_[r]
    BY <1>2, <1>4, <1>5, Zenon DEF TypeOK
  <1>11. TypeOK'
    <2>1. order_channel' \in [Traders -> Seq(OrderIds)]
      BY <1>2, <1>3, <1>5 DEF TypeOK
    <2>2. /\ data_' \in [0 .. W - 1 -> OrderIds \cup {0}]
          /\ head_' \in 0 .. W - 1
      BY <1>3, <1>4, <1>5 DEF TypeOK
    <2>3. avaliable_' \in [0 .. W - 1 -> BOOLEAN]
      BY <1>4, <1>5 DEF TypeOK
    <2> QED
      BY <1>6, <2>1, <2>2, <2>3 DEF TypeOK
  <1> HIDE DEF c, o, s
  <1>12. Consumed' = Consumed /\ Acked' = Acked
    BY <1>6 DEF Consumed, Acked
  <1>13. InOrder' /\ BatchBounded' /\ HeadIsNext' /\ WindowsLag' /\ UnsentFresh'
    BY <1>5, <1>6, <1>12 DEF InOrder, BatchBounded, HeadIsNext, WindowsLag, UnsentFresh
  (* Everything still in a channel was there before, one place further back. *)
  <1>14. \A u \in Traders : \A i \in 1 .. Len(order_channel'[u]) :
           \E k \in {0, 1} :
             /\ i + k \in 1 .. Len(order_channel[u])
             /\ order_channel'[u][i] = order_channel[u][i + k]
             /\ \A j \in 1 .. Len(order_channel'[u]) :
                  j + k \in 1 .. Len(order_channel[u]) /\ order_channel'[u][j] = order_channel[u][j + k]
             /\ order_channel'[u][i] # o
    <2> TAKE u \in Traders
    <2> TAKE i \in 1 .. Len(order_channel'[u])
    <2>1. CASE u = t
      <3>1. /\ i + 1 \in 1 .. Len(c) /\ order_channel'[u][i] = c[i + 1] /\ 1 < i + 1
            /\ \A j \in 1 .. Len(order_channel'[u]) :
                 j + 1 \in 1 .. Len(c) /\ order_channel'[u][j] = c[j + 1]
        <4>1. order_channel'[u] = Tail(c)
          BY <1>10, <2>1
        <4>2. i \in 1 .. Len(c) - 1
          BY <1>3, <4>1
        <4>3. \A j \in 1 .. Len(Tail(c)) : j + 1 \in 1 .. Len(c) /\ Tail(c)[j] = c[j + 1]
          BY <1>3
        <4> QED
          BY <1>3, <4>1, <4>2, <4>3
      <3>2. order_channel[u] = c
        BY <2>1 DEF c
      <3> QED
        BY <1>9, <3>1, <3>2
    <2>2. CASE u # t
      <3>1. order_channel'[u] = order_channel[u]
        BY <1>10, <2>2
      <3>2. \A j \in 1 .. Len(order_channel[u]) : j + 0 = j
        BY <1>11, ChannelTypes
      <3> QED
        BY <1>9, <2>2, <3>1, <3>2
    <2> QED
      BY <2>1, <2>2, SMTT(30)
  <1>15. ChannelsFresh'
    <2> SUFFICES ASSUME NEW u \in Traders, NEW i \in 1 .. Len(order_channel'[u])
          PROVE
            /\ order_channel'[u][i] > Consumed
            /\ order_channel'[u][i] < order_id_limits[u]
            /\ \A j \in 1 .. Len(order_channel'[u]) :
                 i < j => order_channel'[u][j] - order_channel'[u][i] >= j - i
            /\ \A p \in unsent[u] : order_channel'[u][i] < p
            /\ \A v \in Traders \ {u} :
                 /\ order_channel'[u][i] \notin unsent[v]
                 /\ \A j \in 1 .. Len(order_channel'[v]) :
                      order_channel'[u][i] # order_channel'[v][j]
      BY <1>6, <1>12 DEF ChannelsFresh
    <2>1. PICK k \in {0, 1} :
            /\ i + k \in 1 .. Len(order_channel[u])
            /\ order_channel'[u][i] = order_channel[u][i + k]
            /\ \A j \in 1 .. Len(order_channel'[u]) :
                 j + k \in 1 .. Len(order_channel[u]) /\ order_channel'[u][j] = order_channel[u][j + k]
      BY <1>14, SMTT(30)
    <2>2. /\ order_channel'[u][i] > Consumed
          /\ order_channel'[u][i] < order_id_limits[u]
          /\ \A p \in unsent[u] : order_channel'[u][i] < p
          /\ \A v \in Traders \ {u} : order_channel'[u][i] \notin unsent[v]
      BY <2>1 DEF ChannelsFresh
    <2>3. ASSUME NEW j \in 1 .. Len(order_channel'[u]), i < j
          PROVE  order_channel'[u][j] - order_channel'[u][i] >= j - i
      <3>1. /\ j + k \in 1 .. Len(order_channel[u])
            /\ order_channel'[u][j] = order_channel[u][j + k]
            /\ i + k < j + k /\ (j + k) - (i + k) = j - i
        <4>1. i \in Int /\ j \in Int /\ k \in Int
          OBVIOUS
        <4>2. i + k < j + k /\ (j + k) - (i + k) = j - i
          BY <2>3, <4>1
        <4> QED
          BY <2>1, <4>2, SMTT(30)
      <3>2. order_channel[u][j + k] - order_channel[u][i + k] >= (j + k) - (i + k)
        BY <2>1, <3>1 DEF ChannelsFresh
      <3> QED
        BY <2>1, <3>1, <3>2
    <2>4. ASSUME NEW v \in Traders \ {u}, NEW j \in 1 .. Len(order_channel'[v])
          PROVE  order_channel'[u][i] # order_channel'[v][j]
      <3>1. PICK m \in {0, 1} :
              /\ j + m \in 1 .. Len(order_channel[v])
              /\ order_channel'[v][j] = order_channel[v][j + m]
        BY <1>14, SMTT(30)
      <3>2. order_channel[u][i + k] # order_channel[v][j + m]
        BY <2>1, <3>1, SMTT(30) DEF ChannelsFresh
      <3> QED
        BY <2>1, <3>1, <3>2, Zenon
    <2> QED
      BY <2>2, <2>3, <2>4
  <1>16. SlotsFresh'
    <2> SUFFICES ASSUME NEW r \in 0 .. W - 1, avaliable_'[r]
                 PROVE  /\ data_'[r] > Consumed
                        /\ data_'[r] <= Acked + W
                        /\ (data_'[r] - 1) % W = r
                        /\ \A u \in Traders :
                             /\ data_'[r] \notin unsent[u]
                             /\ \A i \in 1 .. Len(order_channel'[u]) :
                                  order_channel'[u][i] # data_'[r]
      BY <1>6, <1>12 DEF SlotsFresh
    <2>1. CASE r = s
      BY <1>7, <1>8, <1>10, <1>14, <2>1 DEF s
    <2>2. CASE r # s
      <3>1. data_'[r] = data_[r] /\ avaliable_[r]
        BY <1>10, <2>2
      <3>2. ASSUME NEW u \in Traders, NEW i \in 1 .. Len(order_channel'[u])
            PROVE  order_channel'[u][i] # data_[r]
        <4>1. PICK k \in {0, 1} :
                /\ i + k \in 1 .. Len(order_channel[u])
                /\ order_channel'[u][i] = order_channel[u][i + k]
          BY <1>14
        <4> QED
          BY <3>1, <4>1 DEF SlotsFresh
      <3> QED
        BY <3>1, <3>2 DEF SlotsFresh
    <2> QED
      BY <2>1, <2>2
  <1> QED
    BY <1>11, <1>13, <1>15, <1>16

(* Polling empty ports keeps the invariant. *)
LEMMA ReceiveNothingInv ==
  ASSUME FlowInv, receiveNothing
  PROVE  FlowInv'
  <1> USE DEF FlowInv, receiveNothing, stockVars, traderVars, window
  <1>1. offset' \in Ports
    <2>1. offset + 1 \in Int /\ 2 * trader_num \in Nat \ {0}
      BY DEF TypeOK, Ports
    <2> QED
      BY <2>1, ModBounds, SMTT(30) DEF Ports
  <1>2. TypeOK'
    BY <1>1 DEF TypeOK
  <1>3. Consumed' = Consumed /\ Acked' = Acked
    BY DEF Consumed, Acked
  <1>4. InOrder' /\ BatchBounded' /\ HeadIsNext' /\ WindowsLag' /\ UnsentFresh'
    BY <1>3 DEF InOrder, BatchBounded, HeadIsNext, WindowsLag, UnsentFresh
  <1>5. ChannelsFresh' /\ SlotsFresh'
    BY <1>3 DEF ChannelsFresh, SlotsFresh
  <1> QED
    BY <1>2, <1>4, <1>5

(* The head slot holds the order after the last one consumed. *)
LEMMA HeadOrder ==
  ASSUME FlowInv, avaliable_[head_]
  PROVE  /\ data_[head_] = Consumed + 1
         /\ data_[head_] \in OrderIds
         /\ Consumed + 1 <= Acked + W
  <1> DEFINE d == data_[head_]
  <1>1. head_ \in 0 .. W - 1 /\ head_ = Consumed % W
    BY DEF FlowInv, TypeOK, HeadIsNext
  <1>2. d > Consumed /\ d <= Acked + W /\ (d - 1) % W = head_
    BY <1>1 DEF FlowInv, SlotsFresh
  <1>3. d \in OrderIds \cup {0}
    BY <1>1 DEF FlowInv, TypeOK
  <1>4. Consumed \in Nat /\ Acked \in Nat /\ Acked <= Consumed
    BY CountersType DEF FlowInv
  <1> HIDE DEF d
  <1>5. /\ d - 1 \in Int /\ Consumed \in Int /\ W \in Nat \ {0}
        /\ Consumed <= d - 1 /\ d - 1 < Consumed + W
    BY <1>2, <1>3, <1>4 DEF OrderIds
  <1>6. Consumed = d - 1
    BY <1>1, <1>2, <1>5, ModUnique, Zenon
  <1> QED
    BY <1>2, <1>3, <1>4, <1>6 DEF d, OrderIds

(* Polling the head slot keeps the invariant: the head holds the next id. *)
LEMMA PollOrderInv ==
  ASSUME FlowInv, pollOrder
  PROVE  FlowInv'
  <1> USE DEF FlowInv, pollOrder, order_buffer!TakeHead, traderVars
  <1> DEFINE o == data_[head_]
  <1>1. o = Consumed + 1 /\ o \in OrderIds /\ Consumed + 1 <= Acked + W
    BY HeadOrder
  <1>2. Consumed \in Nat /\ last_commit_order_id \in Nat /\ Len(orders) \in Nat /\ orders \in Seq(OrderIds)
    BY CountersType DEF TypeOK
  <1> HIDE DEF o
  <1>3. orders' = Append(orders, o)
    BY DEF o
  <1>4. /\ orders' \in Seq(OrderIds) /\ Len(orders') = Len(orders) + 1
        /\ orders'[Len(orders) + 1] = o
        /\ \A i \in 1 .. Len(orders) : orders'[i] = orders[i]
    BY <1>1, <1>2, <1>3
  <1>5. /\ Consumed = last_commit_order_id + Len(orders)
        /\ Acked = last_commit_order_id
        /\ Consumed' = Consumed + 1 /\ Acked' = Acked
    BY <1>2, <1>4 DEF Consumed, Acked
  <1>6. head_ \in 0 .. W - 1 /\ head_ = Consumed % W /\ head_' = (head_ + 1) % W
    BY DEF TypeOK, HeadIsNext
  <1>7. head_' \in 0 .. W - 1 /\ head_' = (Consumed + 1) % W
    <2>1. Consumed \in Int /\ head_ + 1 \in Int /\ W \in Nat \ {0}
      BY <1>2, <1>6
    <2> QED
      BY <1>6, <2>1, ModBounds, ModStep, Zenon
  <1>8. TypeOK'
    <2>1. avaliable_' \in [0 .. W - 1 -> BOOLEAN]
      BY <1>6 DEF TypeOK
    <2> QED
      BY <1>4, <1>7, <2>1 DEF TypeOK
  <1>9. InOrder' /\ BatchBounded' /\ HeadIsNext'
    <2>1. InOrder'
      BY <1>1, <1>2, <1>4, <1>5, SMTT(30) DEF InOrder
    <2>2. BatchBounded'
      BY <1>1, <1>2, <1>4, <1>5 DEF BatchBounded
    <2> QED
      BY <1>5, <1>7, <2>1, <2>2 DEF HeadIsNext
  <1>10. WindowsLag'
    BY <1>5 DEF WindowsLag
  (* The polled order was in a slot, hence nowhere else. *)
  <1>11. /\ \A t \in Traders : o \notin unsent[t]
         /\ \A t \in Traders : \A i \in 1 .. Len(order_channel[t]) : order_channel[t][i] # o
         /\ \A s \in (0 .. W - 1) \ {head_} : avaliable_[s] => data_[s] # o
    <2>1. /\ \A t \in Traders : o \notin unsent[t]
          /\ \A t \in Traders : \A i \in 1 .. Len(order_channel[t]) : order_channel[t][i] # o
          /\ (o - 1) % W = head_
      BY <1>6 DEF SlotsFresh, o
    <2>2. \A s \in 0 .. W - 1 : avaliable_[s] => (data_[s] - 1) % W = s
      BY DEF SlotsFresh
    <2> QED
      BY <2>1, <2>2
  <1>12. UnsentFresh'
    <2>1. \A t \in Traders : \A p \in unsent[t] : p > Consumed /\ p # Consumed + 1 /\ p \in Nat
      BY <1>1, <1>11 DEF UnsentFresh, TypeOK, OrderIds
    <2> QED
      BY <1>2, <1>5, <2>1, SMTT(30) DEF UnsentFresh
  <1>13. ChannelsFresh'
    <2>1. ASSUME NEW t \in Traders, NEW i \in 1 .. Len(order_channel[t])
          PROVE  order_channel[t][i] > Consumed + 1
      <3>1. /\ order_channel[t][i] > Consumed /\ order_channel[t][i] # Consumed + 1
            /\ order_channel[t][i] \in Nat
        BY <1>1, <1>11, ChannelRange
      <3> QED
        BY <1>2, <3>1, SMTT(30)
    <2> QED
      BY <1>5, <2>1 DEF ChannelsFresh
  <1>14. SlotsFresh'
    <2> SUFFICES ASSUME NEW s \in 0 .. W - 1, avaliable_'[s]
                 PROVE  data_[s] > Consumed + 1 /\ avaliable_[s]
      BY <1>5 DEF SlotsFresh
    <2>1. s # head_ /\ avaliable_[s]
      BY <1>6 DEF TypeOK
    <2>2. data_[s] > Consumed /\ data_[s] # Consumed + 1 /\ data_[s] \in Int
      BY <1>1, <1>11, <2>1, SMTT(30) DEF SlotsFresh, TypeOK, OrderIds
    <2> QED
      BY <1>2, <2>1, <2>2
  <1> QED
    BY <1>8, <1>9, <1>10, <1>12, <1>13, <1>14

(* Acking the last polled order to all traders keeps the invariant. *)
LEMMA AckOrdersInv ==
  ASSUME FlowInv, ackOrders
  PROVE  FlowInv'
  <1> USE DEF FlowInv, ackOrders, traderVars, window
  <1> DEFINE a == orders[Len(orders)]
  <1>1. /\ Len(orders) \in Nat /\ Len(orders) >= 1 /\ a \in OrderIds
        /\ last_commit_order_id \in Nat
    BY DEF TypeOK
  <1>2. /\ Consumed' = Consumed /\ Acked = last_commit_order_id /\ Acked' = Consumed
        /\ Consumed \in Nat /\ Acked < Consumed
    BY <1>1 DEF Consumed, Acked, TypeOK
  <1>3. a = Consumed
    BY <1>1 DEF InOrder, Consumed
  <1> HIDE DEF a
  <1>4. ack_channel' = [t \in Traders |-> Append(ack_channel[t], a)]
    BY DEF a
  <1>5. TypeOK'
    <2>1. ASSUME NEW t \in Traders PROVE Append(ack_channel[t], a) \in Seq(OrderIds)
      <3>1. ack_channel[t] \in Seq(OrderIds)
        BY DEF TypeOK
      <3> QED
        BY <1>1, <3>1 DEF a
    <2>2. ack_channel' \in [Traders -> Seq(OrderIds)]
      BY <1>4, <2>1
    <2> QED
      BY <2>2, Zenon DEF TypeOK
  <1>6. InOrder' /\ BatchBounded' /\ HeadIsNext'
    BY <1>2 DEF InOrder, BatchBounded, HeadIsNext
  <1>7. WindowsLag'
    <2> SUFFICES ASSUME NEW t \in Traders
                 PROVE  /\ sliding_window_start[t] <= Consumed + 1
                        /\ order_id_limits[t] <= sliding_window_start[t] + W
                        /\ \A i \in 1 .. Len(ack_channel'[t]) :
                             /\ ack_channel'[t][i] <= Consumed
                             /\ ack_channel'[t][i] + 1 >= sliding_window_start[t]
                        /\ \A i, j \in 1 .. Len(ack_channel'[t]) :
                             i < j => ack_channel'[t][i] <= ack_channel'[t][j]
      BY <1>2, SMTT(30) DEF WindowsLag
    <2> DEFINE c == ack_channel[t]
               d == ack_channel'[t]
    <2>1. /\ sliding_window_start[t] \in Nat /\ sliding_window_start[t] <= Acked + 1
          /\ order_id_limits[t] <= sliding_window_start[t] + W
          /\ \A i \in 1 .. Len(c) : c[i] <= Acked /\ c[i] + 1 >= sliding_window_start[t]
          /\ \A i, j \in 1 .. Len(c) : i < j => c[i] <= c[j]
      BY SMTT(30) DEF WindowsLag, TypeOK
    <2>2. c \in Seq(OrderIds) /\ d = Append(c, a)
      BY <1>4, Zenon DEF TypeOK
    <2> HIDE DEF c, d, FlowInv, ackOrders
    <2>3. /\ Len(c) \in Nat /\ Len(d) = Len(c) + 1 /\ d[Len(c) + 1] = a
          /\ \A i \in 1 .. Len(c) : d[i] = c[i] /\ c[i] \in OrderIds
      <3>1. a \in OrderIds
        BY <1>1 DEF a
      <3> QED
        BY <2>2, <3>1
    <2>4. ASSUME NEW i \in 1 .. Len(c)
          PROVE  c[i] \in Nat /\ c[i] <= Consumed /\ c[i] + 1 >= sliding_window_start[t]
      <3>1. c[i] \in Nat
        BY <2>3 DEF OrderIds
      <3>2. c[i] <= Acked /\ c[i] + 1 >= sliding_window_start[t]
        BY <2>1
      <3> QED
        BY <1>1, <1>2, <3>1, <3>2
    <2>5. ASSUME NEW i \in 1 .. Len(d)
          PROVE  d[i] <= Consumed /\ d[i] + 1 >= sliding_window_start[t]
      <3>1. CASE i = Len(c) + 1
        BY <1>1, <1>2, <1>3, <2>1, <2>3, <3>1
      <3>2. CASE i # Len(c) + 1
        <4>1. i \in 1 .. Len(c) /\ d[i] = c[i]
          BY <2>3, <3>2
        <4> QED
          BY <2>4, <4>1
      <3> QED
        BY <3>1, <3>2
    <2>6. ASSUME NEW i \in 1 .. Len(d), NEW j \in 1 .. Len(d), i < j
          PROVE  d[i] <= d[j]
      <3>1. CASE j = Len(c) + 1
        BY <1>3, <2>3, <2>5, <2>6, <3>1
      <3>2. CASE j # Len(c) + 1
        <4>1. i \in 1 .. Len(c) /\ j \in 1 .. Len(c) /\ d[i] = c[i] /\ d[j] = c[j]
          BY <2>3, <2>6, <3>2
        <4> QED
          BY <2>1, <2>6, <4>1
      <3> QED
        BY <3>1, <3>2
    <2> QED
      BY <1>1, <1>2, <2>1, <2>5, <2>6 DEF d
  <1>8. UnsentFresh' /\ ChannelsFresh'
    <2>1. UNCHANGED <<unsent, order_channel, order_id_limits, Consumed>>
      BY <1>2
    <2> QED
      BY <2>1 DEF UnsentFresh, ChannelsFresh
  <1>9. SlotsFresh'
    <2>1. ASSUME NEW s \in 0 .. W - 1, avaliable_[s]
          PROVE  data_[s] <= Consumed + W
      <3>1. data_[s] <= Acked + W /\ data_[s] \in Int
        BY <2>1 DEF SlotsFresh, TypeOK, OrderIds
      <3> QED
        BY <1>1, <1>2, <3>1
    <2> QED
      BY <1>2, <2>1 DEF SlotsFresh
  <1> QED
    BY <1>5, <1>6, <1>7, <1>8, <1>9

(* Committing the oldest gathered order keeps the invariant: the heap       *)
(* stays empty.                                                             *)
LEMMA CommitOrdersInv ==
  ASSUME FlowInv, commitOrders
  PROVE  FlowInv'
  <1> USE DEF FlowInv, commitOrders, traderVars, window
  <1> DEFINE o == Head(orders)
             S == not_ready_orders \cup {o}
  <1>1. /\ orders \in Seq(OrderIds) /\ Len(orders) \in Nat /\ Len(orders) >= 1
        /\ o = orders[1] /\ o \in OrderIds
        /\ Tail(orders) \in Seq(OrderIds) /\ Len(Tail(orders)) = Len(orders) - 1
        /\ \A i \in 1 .. Len(orders) - 1 : Tail(orders)[i] = orders[i + 1]
        /\ last_commit_order_id \in Nat
    BY DEF TypeOK, HeadIsNext
  <1>2. o = last_commit_order_id + 1 /\ S = {o}
    BY <1>1 DEF InOrder
  <1> HIDE DEF o
  <1>3. Committed(S) = {o}
    BY <1>1, <1>2, SMTT(30) DEF Committed, OrderIds
  <1>4. last_commit_order_id' = last_commit_order_id + 1 /\ not_ready_orders' = {}
    <2>1. Cardinality({o}) = 1
      BY FS_Singleton, Zenon
    <2> QED
      BY <1>2, <1>3, <2>1, Zenon DEF o
  <1>5. orders' = Tail(orders) /\ Len(orders') = Len(orders) - 1
        /\ consuming' = (orders' = <<>>) /\ consuming = FALSE
    BY <1>1 DEF TypeOK
  <1>6. Consumed' = Consumed /\ Acked' = Acked
    <2>1. Consumed' = Consumed /\ Acked = Consumed
      BY <1>1, <1>4, <1>5, SMTT(30) DEF Consumed, Acked
    <2>2. orders' = <<>> => Consumed' = last_commit_order_id'
      <3>1. CASE orders' = <<>>
        <4>1. Consumed' = last_commit_order_id' + 0
          BY <3>1, Zenon DEF Consumed
        <4>2. last_commit_order_id' = last_commit_order_id + 1 /\ last_commit_order_id \in Nat
          BY <1>1, <1>4
        <4> HIDE DEF commitOrders, FlowInv
        <4> QED
          BY <4>1, <4>2
      <3> QED
        BY <3>1
    <2> QED
      BY <1>5, <2>1, <2>2, Zenon DEF Acked
  <1>7. TypeOK'
    <2>1. /\ last_commit_order_id' \in Nat /\ not_ready_orders' \in SUBSET OrderIds
          /\ orders' \in Seq(OrderIds) /\ consuming' \in BOOLEAN
      <3> HIDE DEF FlowInv, commitOrders
      <3> QED
        BY <1>1, <1>4, <1>5
    <2> QED
      BY <2>1 DEF TypeOK
  <1>8. InOrder' /\ BatchBounded' /\ HeadIsNext'
    <2>1. ASSUME NEW i \in 1 .. Len(orders')
          PROVE  orders'[i] = last_commit_order_id' + i
      <3>1. i + 1 \in 1 .. Len(orders) /\ orders'[i] = orders[i + 1]
        <4> HIDE DEF FlowInv, commitOrders
        <4> QED
          BY <1>1, <1>5
      <3>2. orders[i + 1] = last_commit_order_id + (i + 1)
        BY <3>1 DEF InOrder
      <3>3. i \in Int
        BY <1>1, <1>5
      <3> HIDE DEF FlowInv, commitOrders
      <3> QED
        BY <1>1, <1>4, <3>1, <3>2, <3>3
    <2>2. Len(orders') <= W
      BY <1>1, <1>5 DEF BatchBounded
    <2> QED
      BY <1>4, <1>5, <1>6, <2>1, <2>2, Zenon DEF InOrder, BatchBounded, HeadIsNext
  <1>9. WindowsLag' /\ UnsentFresh' /\ ChannelsFresh' /\ SlotsFresh'
    <2>1. WindowsLag'
      BY <1>6 DEF WindowsLag
    <2>2. UnsentFresh'
      BY <1>6 DEF UnsentFresh
    <2>3. ChannelsFresh'
      <3>1. ChannelsFresh /\ UNCHANGED <<unsent, order_channel, order_id_limits, Consumed>>
        BY <1>6
      <3> HIDE DEF FlowInv, commitOrders
      <3> QED
        BY <3>1, SMTT(30) DEF ChannelsFresh
    <2>4. SlotsFresh'
      BY <1>6 DEF SlotsFresh
    <2> QED
      BY <2>1, <2>2, <2>3, <2>4
  <1> QED
    BY <1>7, <1>8, <1>9

(* The invariant is inductive. *)
LEMMA FlowInvNext == FlowInv /\ [Next]_vars => FlowInv'
  <1> SUFFICES ASSUME FlowInv, [Next]_vars PROVE FlowInv'
    OBVIOUS
  <1>1. CASE Next
    BY <1>1, ReadLimitInv, SendOrderInv, AckInv, ReceiveOrderInv, ReceiveNothingInv,
       PollOrderInv, AckOrdersInv, CommitOrdersInv DEF Next, Stock
  <1>2. CASE UNCHANGED vars
    <2> USE <1>2 DEF vars, traderVars, stockVars, window, FlowInv
    <2>1. Consumed' = Consumed /\ Acked' = Acked
      BY DEF Consumed, Acked
    <2>2. TypeOK' /\ InOrder' /\ BatchBounded' /\ HeadIsNext'
      BY <2>1 DEF TypeOK, InOrder, BatchBounded, HeadIsNext
    <2>3. WindowsLag' /\ UnsentFresh'
      BY <2>1 DEF WindowsLag, UnsentFresh
    <2>4. ChannelsFresh'
      <3>1. ChannelsFresh /\ UNCHANGED <<unsent, order_channel, order_id_limits, Consumed>>
        BY <2>1
      <3> HIDE <1>2 DEF FlowInv
      <3> QED
        BY <3>1, SMTT(30) DEF ChannelsFresh
    <2>5. SlotsFresh'
      BY <2>1, Zenon DEF SlotsFresh
    <2> QED
      BY <2>2, <2>3, <2>4, <2>5
  <1> QED
    BY <1>1, <1>2

(* The windows, the channels, the slots and the stock thread agree on the   *)
(* ids in every state.                                                      *)
THEOREM FlowInvariant == Spec => []FlowInv
  BY FlowInvInit, FlowInvNext, PTL DEF Spec

(* The state always has the declared types. *)
THEOREM TypeCorrect == Spec => []TypeOK
  <1>1. FlowInv => TypeOK
    BY DEF FlowInv
  <1> QED
    BY <1>1, FlowInvariant, PTL

(* No order is ever dropped at the exchange's window: whenever one arrives, *)
(* its slot is free, so SlidingWindow::put always succeeds.                 *)
THEOREM WindowNeverCollides == Spec => []NoCollision
  <1>1. FlowInv => NoCollision
    <2> SUFFICES ASSUME FlowInv, NEW t \in Traders, order_channel[t] # <<>>
                 PROVE  ~avaliable_[(Head(order_channel[t]) - 1) % W]
      BY DEF NoCollision
    <2>1. order_channel[t] \in Seq(OrderIds)
      BY ChannelTypes DEF FlowInv
    <2>2. 1 \in 1 .. Len(order_channel[t]) /\ Head(order_channel[t]) = order_channel[t][1]
      BY <2>1
    <2> QED
      BY <2>2, SlotFree
  <1> QED
    BY <1>1, FlowInvariant, PTL

(* Acks never move a trader's window backwards: the assert of               *)
(* update_sliding_window_start never fails.                                 *)
THEOREM AcksNeverRegress == Spec => []AcksMonotone
  <1>1. FlowInv => AcksMonotone
    <2> SUFFICES ASSUME FlowInv, NEW t \in Traders, ack_channel[t] # <<>>
                 PROVE  Head(ack_channel[t]) + 1 >= sliding_window_start[t]
      BY DEF AcksMonotone
    <2>1. ack_channel[t] \in Seq(OrderIds)
      BY DEF FlowInv, TypeOK
    <2>2. 1 \in 1 .. Len(ack_channel[t]) /\ Head(ack_channel[t]) = ack_channel[t][1]
      BY <2>1
    <2> QED
      BY <2>2 DEF FlowInv, WindowsLag
  <1> QED
    BY <1>1, FlowInvariant, PTL

(* The stock thread commits the orders in id order without a gap. *)
THEOREM OrdersCommitInOrder == Spec => []InOrder
  <1>1. FlowInv => InOrder
    BY DEF FlowInv
  <1> QED
    BY <1>1, FlowInvariant, PTL

(* It works on at most a window of orders between two acks. *)
THEOREM BatchesStayBounded == Spec => []BatchBounded
  <1>1. FlowInv => BatchBounded
    BY DEF FlowInv
  <1> QED
    BY <1>1, FlowInvariant, PTL

(* A trader never has more than a window of the stock's orders under way. *)
THEOREM ChannelsStayBounded == Spec => []ChannelBounded
  <1>1. FlowInv => ChannelBounded
    <2> SUFFICES ASSUME FlowInv, NEW t \in Traders PROVE Len(order_channel[t]) <= W
      BY DEF ChannelBounded
    <2> DEFINE n == Len(order_channel[t])
    <2>1. n \in Nat
      BY ChannelTypes DEF FlowInv
    <2>2. CASE n <= 1
      BY <2>1, <2>2
    <2>3. CASE n > 1
      <3>1. 1 \in 1 .. n /\ n \in 1 .. n
        BY <2>1, <2>3
      <3>2. /\ order_channel[t][1] \in Nat /\ order_channel[t][1] > Consumed
            /\ order_channel[t][n] \in Nat /\ order_channel[t][n] <= Acked + W
        BY <3>1, ChannelRange
      <3>3. order_channel[t][n] - order_channel[t][1] >= n - 1
        BY <2>3, <3>1 DEF FlowInv, ChannelsFresh
      <3>4. Consumed \in Nat /\ Acked \in Nat /\ Acked <= Consumed
        BY CountersType DEF FlowInv
      <3> QED
        BY <2>1, <3>2, <3>3, <3>4
    <2> QED
      BY <2>1, <2>2, <2>3
  <1> QED
    BY <1>1, FlowInvariant, PTL
=============================================================================
