------------------------ MODULE TradingSystemProofs -------------------------
(***************************************************************************)
(* Types, capacities and routing of the whole trading system, and what its *)
(* traders know and decide about hooked orders, for any number of traders, *)
(* exchanges and stocks, any data and any sizes.                           *)
(***************************************************************************)
EXTENDS TradingSystem, WellFoundedInduction, TLAPS

(* Facts about sequences. *)

LEMMA EmptySeq ==
  ASSUME NEW T
  PROVE  <<>> \in Seq(T) /\ Len(<<>>) = 0 /\ \A q \in Seq(T) : q # <<>> => Len(q) \in Nat \ {0}
  OBVIOUS

LEMMA LenProperties ==
  ASSUME NEW T, NEW q \in Seq(T)
  PROVE  Len(q) \in Nat /\ DOMAIN q = 1 .. Len(q) /\ q \in [1 .. Len(q) -> T]
  OBVIOUS

LEMMA ElementOfSeq ==
  ASSUME NEW T, NEW q \in Seq(T), NEW i \in 1 .. Len(q)
  PROVE  q[i] \in T
  OBVIOUS

LEMMA RangeOfSeq ==
  ASSUME NEW T, NEW q \in Seq(T)
  PROVE  Range(q) \subseteq T
  BY DEF Range

LEMMA SeqMonotonic ==
  ASSUME NEW T, NEW U, T \subseteq U, NEW q \in Seq(T)
  PROVE  q \in Seq(U)
  OBVIOUS

LEMMA SeqEqual ==
  ASSUME NEW T, NEW a \in Seq(T), NEW b \in Seq(T), Len(a) = Len(b), \A i \in 1 .. Len(a) : a[i] = b[i]
  PROVE  a = b
  OBVIOUS

LEMMA HeadTailProperties ==
  ASSUME NEW T, NEW q \in Seq(T), q # <<>>
  PROVE  /\ Head(q) \in T /\ Tail(q) \in Seq(T) /\ Len(Tail(q)) = Len(q) - 1
         /\ \A i \in 1 .. Len(Tail(q)) : Tail(q)[i] = q[i + 1]
  OBVIOUS

LEMMA AppendProperties ==
  ASSUME NEW T, NEW q \in Seq(T), NEW e \in T
  PROVE  /\ Append(q, e) \in Seq(T) /\ Append(q, e) # <<>> /\ Len(Append(q, e)) = Len(q) + 1
         /\ Append(q, e)[Len(q) + 1] = e /\ \A i \in 1 .. Len(q) : Append(q, e)[i] = q[i]
  OBVIOUS

LEMMA LastAppended ==
  ASSUME NEW T, NEW q \in Seq(T), q # <<>>
  PROVE  \E b \in Seq(T), e \in T : q = Append(b, e)
<1> DEFINE b == [i \in 1 .. Len(q) - 1 |-> q[i]]  e == q[Len(q)]
<1>1. b \in Seq(T) /\ e \in T /\ q = Append(b, e)
  OBVIOUS
<1> HIDE DEF b, e
<1> QED  BY <1>1

LEMMA ConcatProperties ==
  ASSUME NEW T, NEW a \in Seq(T), NEW b \in Seq(T)
  PROVE  /\ a \o b \in Seq(T) /\ Len(a \o b) = Len(a) + Len(b)
         /\ \A i \in 1 .. Len(a) + Len(b) : (a \o b)[i] = IF i <= Len(a) THEN a[i] ELSE b[i - Len(a)]
  OBVIOUS

LEMMA ConcatEmptySeq ==
  ASSUME NEW T, NEW q \in Seq(T)
  PROVE  q \o <<>> = q /\ <<>> \o q = q
  OBVIOUS

LEMMA ConcatAssociative ==
  ASSUME NEW T, NEW a \in Seq(T), NEW b \in Seq(T), NEW c \in Seq(T)
  PROVE  (a \o b) \o c = a \o (b \o c)
  BY SMTT(30)

(* Concatenation is associative. *)
Assoc(T) == \A a, b, c \in Seq(T) : (a \o b) \o c = a \o (b \o c)

LEMMA Associative ==
  ASSUME NEW T
  PROVE  Assoc(T)
  BY ConcatAssociative, SMTT(30) DEF Assoc

LEMMA AppendIsConcat ==
  ASSUME NEW T, NEW q \in Seq(T), NEW e \in T
  PROVE  Append(q, e) = q \o <<e>>
  OBVIOUS

(* Every nonempty set of natural numbers has a least element. *)
LEMMA LeastNatural ==
  ASSUME NEW T, T \subseteq Nat, T # {}
  PROVE  \E x \in T : \A y \in T : x <= y
<1>1. PICK R : /\ \E x \in T : \A y \in T : ~(<<y, x>> \in R)
               /\ \A x, y \in Nat : y < x => <<y, x>> \in R
  <2>1. \E x \in T : \A y \in T : ~(<<y, x>> \in OpToRel(<, Nat))
    BY NatLessThanWellFounded, WFMin, Zenon
  <2>2. \A x, y \in Nat : y < x => <<y, x>> \in OpToRel(<, Nat)
    BY DEF OpToRel
  <2> QED  BY <2>1, <2>2, Zenon
<1>2. PICK x \in T : \A y \in T : ~(<<y, x>> \in R)
  BY <1>1, Zenon
<1>3. \A y \in T : ~(y < x)
  BY <1>1, <1>2, Zenon
<1>4. \A y \in T : x <= y
  BY <1>3
<1> QED  BY <1>4

-----------------------------------------------------------------------------
(* Selection from a sequence.  The function behind SelectIn, up to n. *)
Selection(f, seq, S, n) ==
  f = [m \in 0 .. n |-> IF m = 0 THEN <<>>
                        ELSE IF seq[m] \in S THEN Append(f[m - 1], seq[m]) ELSE f[m - 1]]

LEMMA SelectionEntry ==
  ASSUME NEW f, NEW seq, NEW S, NEW n, Selection(f, seq, S, n), NEW m \in 0 .. n
  PROVE  f[m] = IF m = 0 THEN <<>>
                ELSE IF seq[m] \in S THEN Append(f[m - 1], seq[m]) ELSE f[m - 1]
  BY DEF Selection

Agree(a, b, n) == \A i \in 1 .. n : a[i] = b[i]

(* A shorter sequence with the same beginning has the same selection. *)
LEMMA SelectionsAgree ==
  ASSUME NEW a, NEW b, NEW S, NEW f, NEW g, NEW n \in Nat, NEW k \in Nat, n <= k,
         Selection(f, a, S, n), Selection(g, b, S, k), Agree(a, b, n)
  PROVE  f[n] = g[n]
<1> DEFINE Bad == {m \in 0 .. n : f[m] # g[m]}
<1>1. SUFFICES ASSUME Bad # {} PROVE FALSE
  OBVIOUS
<1>2. Bad \subseteq Nat
  OBVIOUS
<1>3. \A m \in Bad : m \in 0 .. n /\ f[m] # g[m]
  OBVIOUS
<1>4. \A m \in 0 .. n : m \notin Bad => f[m] = g[m]
  OBVIOUS
<1> HIDE DEF Bad
<1>5. PICK m \in Bad : \A y \in Bad : m <= y
  BY <1>1, <1>2, LeastNatural, Zenon
<1>6. m \in 0 .. n /\ m \in 0 .. k /\ f[m] # g[m]
  BY <1>3
<1>7. CASE m = 0
  BY <1>6, <1>7, SelectionEntry
<1>8. CASE m # 0
  <2>1. m - 1 \in 0 .. n /\ m - 1 \notin Bad /\ a[m] = b[m]
    BY <1>5, <1>6, <1>8 DEF Agree
  <2>2. f[m - 1] = g[m - 1]
    BY <1>4, <2>1
  <2> DEFINE u == f[m - 1]  v == a[m]
  <2>3. f[m] = IF v \in S THEN Append(u, v) ELSE u
    BY <1>6, <1>8, SelectionEntry
  <2>4. g[m] = IF v \in S THEN Append(u, v) ELSE u
    BY <1>6, <1>8, <2>1, <2>2, SelectionEntry
  <2> QED  BY <1>6, <2>3, <2>4
<1> QED  BY <1>7, <1>8

LEMMA SelectionGrows ==
  ASSUME NEW seq, NEW S, NEW n \in Nat, NEW f, Selection(f, seq, S, n)
  PROVE  \E g : Selection(g, seq, S, n + 1)
<1> DEFINE e == seq[n + 1]
           g == [m \in 0 .. n + 1 |-> IF m <= n THEN f[m] ELSE IF e \in S THEN Append(f[n], e) ELSE f[n]]
<1>1. ASSUME NEW m \in 0 .. n + 1
      PROVE  g[m] = IF m = 0 THEN <<>>
                    ELSE IF seq[m] \in S THEN Append(g[m - 1], seq[m]) ELSE g[m - 1]
  <2>1. CASE m = n + 1
    <3>1. g[m] = (IF e \in S THEN Append(f[n], e) ELSE f[n]) /\ g[m - 1] = f[n] /\ m # 0 /\ seq[m] = e
      BY <2>1
    <3> QED  BY <3>1
  <2>2. CASE m \in 0 .. n
    <3>1. g[m] = f[m] /\ (m # 0 => g[m - 1] = f[m - 1])
      BY <2>2
    <3>2. f[m] = IF m = 0 THEN <<>>
                 ELSE IF seq[m] \in S THEN Append(f[m - 1], seq[m]) ELSE f[m - 1]
      BY <2>2, SelectionEntry
    <3> HIDE DEF g
    <3> QED  BY <3>1, <3>2
  <2> QED  BY <2>1, <2>2
<1>2. g = [m \in 0 .. n + 1 |-> g[m]]
  OBVIOUS
<1> HIDE DEF g
<1>3. Selection(g, seq, S, n + 1)
  BY <1>1, <1>2 DEF Selection
<1> QED  BY <1>3

LEMMA SelectionExists ==
  ASSUME NEW seq, NEW S, NEW n \in Nat
  PROVE  \E f : Selection(f, seq, S, n)
<1> DEFINE Bad == {m \in Nat : ~\E f : Selection(f, seq, S, m)}
<1>1. SUFFICES ASSUME Bad # {} PROVE FALSE
  OBVIOUS
<1>2. Bad \subseteq Nat /\ \A m \in Nat : m \in Bad <=> ~\E f : Selection(f, seq, S, m)
  OBVIOUS
<1> HIDE DEF Bad
<1>3. PICK m \in Bad : \A y \in Bad : m <= y
  BY <1>1, <1>2, LeastNatural, Zenon
<1>4. CASE m = 0
  <2> DEFINE f == [k \in 0 .. 0 |-> <<>>]
  <2>1. Selection(f, seq, S, 0)
    BY DEF Selection
  <2> QED  BY <1>2, <1>4, <2>1
<1>5. CASE m # 0
  <2>1. m - 1 \in Nat /\ m - 1 \notin Bad
    BY <1>2, <1>3, <1>5
  <2>2. PICK f : Selection(f, seq, S, m - 1)
    BY <1>2, <2>1
  <2>3. \E g : Selection(g, seq, S, (m - 1) + 1)
    BY <2>1, <2>2, SelectionGrows
  <2>4. (m - 1) + 1 = m
    BY <1>2, <1>3
  <2> QED  BY <1>2, <2>3, <2>4
<1> QED  BY <1>4, <1>5

(* SelectIn is the last entry of that function. *)
LEMMA SelectionOf ==
  ASSUME NEW T, NEW seq \in Seq(T), NEW S
  PROVE  \E f : Selection(f, seq, S, Len(seq)) /\ SelectIn(seq, S) = f[Len(seq)]
<1>1. \E f : Selection(f, seq, S, Len(seq))
  BY SelectionExists, LenProperties, Zenon
<1> DEFINE g == CHOOSE f : Selection(f, seq, S, Len(seq))
<1>2. SelectIn(seq, S) = g[Len(seq)]
  BY DEF SelectIn, Selection
<1>3. Selection(g, seq, S, Len(seq))
  BY <1>1
<1> QED  BY <1>2, <1>3, Zenon

LEMMA SelectEmpty ==
  ASSUME NEW S
  PROVE  SelectIn(<<>>, S) = <<>>
<1>1. <<>> \in Seq({}) /\ Len(<<>>) = 0
  OBVIOUS
<1>2. PICK f : Selection(f, <<>>, S, 0) /\ SelectIn(<<>>, S) = f[0]
  BY <1>1, SelectionOf, Zenon
<1> QED  BY <1>2, SelectionEntry

LEMMA SelectAppend ==
  ASSUME NEW T, NEW a \in Seq(T), NEW e \in T, NEW S
  PROVE  SelectIn(Append(a, e), S) = IF e \in S THEN Append(SelectIn(a, S), e) ELSE SelectIn(a, S)
<1> DEFINE b == Append(a, e)  n == Len(a)
<1>1. b \in Seq(T) /\ Len(b) = n + 1 /\ n \in Nat /\ b[n + 1] = e /\ \A i \in 1 .. n : a[i] = b[i]
  BY AppendProperties, LenProperties
<1>2. PICK f : Selection(f, a, S, n) /\ SelectIn(a, S) = f[n]
  BY SelectionOf
<1> HIDE DEF b, n
<1>3. PICK g : Selection(g, b, S, n + 1) /\ SelectIn(b, S) = g[n + 1]
  BY <1>1, SelectionOf
<1>4. f[n] = g[n]
  <2>1. n \in Nat /\ n + 1 \in Nat /\ n <= n + 1
    BY <1>1
  <2>2. Agree(a, b, n)
    BY <1>1 DEF Agree
  <2>3. Selection(f, a, S, n) /\ Selection(g, b, S, n + 1)
    BY <1>2, <1>3
  <2> DEFINE k == n + 1
  <2> HIDE DEF k
  <2>4. k \in Nat /\ n <= k /\ Selection(g, b, S, k)
    BY <2>1, <2>3 DEF k
  <2> QED  BY <2>1, <2>2, <2>3, <2>4, SelectionsAgree
<1>5. n + 1 \in 0 .. n + 1 /\ n + 1 # 0 /\ (n + 1) - 1 = n
  BY <1>1
<1>6. g[n + 1] = IF b[n + 1] \in S THEN Append(g[n], b[n + 1]) ELSE g[n]
  BY <1>3, <1>5, SelectionEntry
<1> QED  BY <1>1, <1>2, <1>3, <1>4, <1>6 DEF b

(* What is selected are elements of the sequence. *)
LEMMA SelectType ==
  ASSUME NEW T, NEW a \in Seq(T), NEW S
  PROVE  SelectIn(a, S) \in Seq(T \cap S)
<1> DEFINE Bad == {Len(b) : b \in {c \in Seq(T) : SelectIn(c, S) \notin Seq(T \cap S)}}
<1>1. SUFFICES ASSUME Bad # {} PROVE FALSE
  BY Zenon
<1>2. Bad \subseteq Nat
  OBVIOUS
<1>3. \A b \in Seq(T) : Len(b) \notin Bad => SelectIn(b, S) \in Seq(T \cap S)
  OBVIOUS
<1>4. \A n \in Bad : \E b \in Seq(T) : Len(b) = n /\ SelectIn(b, S) \notin Seq(T \cap S)
  OBVIOUS
<1> HIDE DEF Bad
<1>5. PICK n \in Bad : \A y \in Bad : n <= y
  BY <1>1, <1>2, LeastNatural, Zenon
<1>6. PICK b \in Seq(T) : Len(b) = n /\ SelectIn(b, S) \notin Seq(T \cap S)
  BY <1>4, <1>5
<1>7. b # <<>>
  BY <1>6, SelectEmpty
<1>8. PICK c \in Seq(T), e \in T : b = Append(c, e)
  BY <1>7, LastAppended
<1>9. Len(c) < n
  BY <1>6, <1>8, AppendProperties, LenProperties
<1>10. Len(c) \notin Bad
  BY <1>2, <1>5, <1>9, LenProperties
<1>11. SelectIn(c, S) \in Seq(T \cap S)
  BY <1>3, <1>10
<1>12. SelectIn(b, S) = IF e \in S THEN Append(SelectIn(c, S), e) ELSE SelectIn(c, S)
  BY <1>8, SelectAppend
<1> QED  BY <1>6, <1>11, <1>12

LEMMA SelectConcat ==
  ASSUME NEW T, NEW a \in Seq(T), NEW b \in Seq(T), NEW S
  PROVE  SelectIn(a \o b, S) = SelectIn(a, S) \o SelectIn(b, S)
<1> DEFINE Same(c) == SelectIn(a \o c, S) = SelectIn(a, S) \o SelectIn(c, S)
           Bad == {Len(d) : d \in {c \in Seq(T) : ~Same(c)}}
<1>1. SUFFICES ASSUME Bad # {} PROVE FALSE
  BY Zenon
<1>2. Bad \subseteq Nat
  OBVIOUS
<1>3. \A d \in Seq(T) : Len(d) \notin Bad => Same(d)
  OBVIOUS
<1>4. \A n \in Bad : \E d \in Seq(T) : Len(d) = n /\ ~Same(d)
  OBVIOUS
<1> HIDE DEF Bad
<1>5. PICK n \in Bad : \A y \in Bad : n <= y
  BY <1>1, <1>2, LeastNatural, Zenon
<1>6. PICK d \in Seq(T) : Len(d) = n /\ ~Same(d)
  BY <1>4, <1>5, Zenon
<1> DEFINE f == SelectIn(a, S)
<1>0. f \in Seq(T \cap S)
  BY SelectType
<1>7. d # <<>>
  <2>1. a \o <<>> = a
    BY ConcatEmptySeq
  <2>2. Same(<<>>)
    <3> HIDE DEF f
    <3>1. f \o <<>> = f
      BY <1>0, ConcatEmptySeq
    <3> QED  BY <2>1, <3>1, SelectEmpty, Zenon DEF f
  <2> QED  BY <1>6, <2>2, Zenon
<1>8. PICK c \in Seq(T), e \in T : d = Append(c, e)
  BY <1>7, LastAppended
<1>9. Len(c) \notin Bad
  BY <1>2, <1>5, <1>6, <1>8, AppendProperties, LenProperties
<1> DEFINE g == SelectIn(c, S)
<1>10. SelectIn(a \o c, S) = f \o g /\ g \in Seq(T \cap S)
  BY <1>3, <1>9, SelectType, Zenon
<1>11. a \o d = Append(a \o c, e) /\ a \o c \in Seq(T)
  BY <1>8, ConcatProperties, SMTT(30)
<1>12. SelectIn(a \o d, S) = IF e \in S THEN Append(f \o g, e) ELSE f \o g
  <2> DEFINE q == a \o c
  <2> HIDE DEF q
  <2>1. SelectIn(Append(q, e), S) = IF e \in S THEN Append(SelectIn(q, S), e) ELSE SelectIn(q, S)
    BY <1>11, SelectAppend, Zenon DEF q
  <2> QED  BY <1>10, <1>11, <2>1 DEF q
<1>13. SelectIn(d, S) = IF e \in S THEN Append(g, e) ELSE g
  BY <1>8, SelectAppend
<1> DEFINE h == SelectIn(d, S)
<1>14. SelectIn(a \o d, S) = f \o h
  <2> HIDE DEF f, g, h
  <2>1. ASSUME e \in S PROVE Append(f \o g, e) = f \o Append(g, e)
    <3> DEFINE U == T \cap S
    <3>1. e \in U
      BY <2>1
    <3>2. f \in Seq(U) /\ g \in Seq(U)
      BY <1>0, <1>10
    <3> HIDE DEF U
    <3>3. Append(f \o g, e) = (f \o g) \o <<e>> /\ Append(g, e) = g \o <<e>> /\ <<e>> \in Seq(U)
      BY <3>1, <3>2, AppendIsConcat, ConcatProperties, SMTT(30)
    <3> QED
      <4>1. Assoc(U)
        BY Associative
      <4>2. PICK w : w = <<e>> /\ w \in Seq(U)
        BY <3>3, Zenon
      <4>3. (f \o g) \o w = f \o (g \o w)
        BY <3>2, <4>1, <4>2, Zenon DEF Assoc
      <4> QED  BY <3>3, <4>2, <4>3, Zenon
  <2> QED  BY <1>12, <1>13, <2>1, Zenon DEF h
<1> QED  BY <1>6, <1>14

LEMMA SelectHead ==
  ASSUME NEW T, NEW a \in Seq(T), a # <<>>, NEW S
  PROVE  /\ Head(a) \notin S => SelectIn(a, S) = SelectIn(Tail(a), S)
         /\ Head(a) \in S => /\ SelectIn(a, S) # <<>> /\ Head(SelectIn(a, S)) = Head(a)
                            /\ Tail(SelectIn(a, S)) = SelectIn(Tail(a), S)
<1> DEFINE h == <<Head(a)>>  b == Tail(a)
<1>1. h \in Seq(T) /\ b \in Seq(T) /\ a = h \o b /\ h = Append(<<>>, Head(a)) /\ Head(a) \in T
  OBVIOUS
<1>2. SelectIn(h, S) = IF Head(a) \in S THEN h ELSE <<>>
  <2>1. <<>> \in Seq(T)
    OBVIOUS
  <2>2. SelectIn(Append(<<>>, Head(a)), S)
          = IF Head(a) \in S THEN Append(SelectIn(<<>>, S), Head(a)) ELSE SelectIn(<<>>, S)
    BY <1>1, <2>1, SelectAppend, Zenon
  <2> HIDE DEF h, b
  <2>3. Append(<<>>, Head(a)) = h
    BY <1>1, Zenon
  <2>4. SelectIn(<<>>, S) = <<>>
    BY SelectEmpty
  <2> QED  BY <2>2, <2>3, <2>4
<1>3. SelectIn(h \o b, S) = SelectIn(h, S) \o SelectIn(b, S)
  <2>1. h \in Seq(T) /\ b \in Seq(T)
    BY <1>1
  <2> HIDE DEF h, b
  <2> QED  BY <2>1, SelectConcat, SMTT(30)
<1> DEFINE g == SelectIn(b, S)
<1>4. g \in Seq(T \cap S)
  <2> HIDE DEF h, b
  <2> QED  BY <1>1, SelectType
<1> HIDE DEF g
<1>5. SelectIn(a, S) = SelectIn(h, S) \o g
  BY <1>1, <1>3, Zenon DEF g
<1>6. CASE Head(a) \in S
  <2>1. h \o g # <<>> /\ Head(h \o g) = Head(a) /\ Tail(h \o g) = g
    BY <1>1, <1>4
  <2> QED  BY <1>2, <1>5, <1>6, <2>1, Zenon DEF g
<1>7. CASE Head(a) \notin S
  BY <1>2, <1>4, <1>5, <1>7, ConcatEmptySeq, Zenon DEF g
<1> QED  BY <1>6, <1>7

-----------------------------------------------------------------------------
(* Types, capacities and routing: what is where belongs there. *)

OrdersAt(x) == {o \in OrderRecords : ExchangeOf(o.stk) = x}
MsgsAt(x) == {m \in Messages : ExchangeOf(m.stk) = x /\ (m.kind = "ack" => m.value \in OrderIds)}
Scans == {Put} \cup {Limit(s) : s \in Stocks} \cup {Orders(s) : s \in Stocks}

ControllersOK ==
  /\ next_sorted_struct_idx \in [Traders -> [Stocks -> Nat]]
  /\ order_id_limits \in [Traders -> [Stocks -> 0 .. OrderNum + 1 + W]]
  /\ scan \in [Traders -> Scans]
  /\ order_to_send \in [Traders -> Seq(OrderRecords)]
  /\ \A t \in Traders, s \in Stocks :
       next_sorted_struct_idx[t][s] <= Len(sorted_order_structs[t][s])
  /\ \A t \in Traders : scan[t] = Put => order_to_send[t] # <<>>

SendersOK ==
  /\ order_queue_ \in [Traders -> [Exchanges -> Seq(OrderRecords)]]
  /\ order_msg \in [Traders -> [Exchanges -> Seq(OrderRecords)]]
  /\ order_wire \in [Traders -> [Exchanges -> Seq(OrderRecords)]]
  /\ \A t \in Traders, x \in Exchanges :
       /\ order_queue_[t][x] \in Seq(OrdersAt(x))
       /\ order_msg[t][x] \in Seq(OrdersAt(x))
       /\ order_wire[t][x] \in Seq(OrdersAt(x))
       /\ Len(order_queue_[t][x]) <= (W * stock_num) \div exchange_num
       /\ Len(order_msg[t][x]) <= 1
       /\ Len(order_wire[t][x]) <= HighWater

ReceiversOK ==
  /\ sliding_window_start \in [Traders -> [Stocks -> 1 .. OrderNum + 1]]
  /\ trade_idxs_ \in [Traders -> [Stocks -> Nat \ {0}]]
  /\ hooked_trade \in [Traders -> [Targets -> Nat \cup {-1}]]

WindowsOK ==
  /\ data_ \in [Stocks -> [0 .. W - 1 -> OrderRecords \cup {NoOrder}]]
  /\ avaliable_ \in [Stocks -> [0 .. W - 1 -> BOOLEAN]]
  /\ head_ \in [Stocks -> 0 .. W - 1]
  /\ \A s \in Stocks, i \in 0 .. W - 1 : avaliable_[s][i] => data_[s][i] \in OrdersOf(s)

StocksOK ==
  /\ orders \in [Stocks -> Seq(OrderRecords)]
  /\ consuming \in [Stocks -> BOOLEAN]
  /\ not_ready_orders \in [Stocks -> SUBSET OrderIds]
  /\ last_commit_order_id = [s \in Stocks |-> last_commit_order_id[s]]
  /\ matching \in [Stocks -> Seq(Seq(Nat))]
  /\ trades \in [Stocks -> Seq(Nat)]
  /\ \A s \in Stocks :
       /\ orders[s] \in Seq(OrdersOf(s))
       /\ ~consuming[s] => orders[s] # <<>>
       /\ Len(matching[s]) <= 1
       /\ matching[s] # <<>> => ~consuming[s]

TradeSendersOK ==
  /\ msg_queue_ \in [Exchanges -> Seq(Messages)]
  /\ msg \in [Exchanges -> {<<>>} \cup (Messages \X Traders)]
  /\ msg_wire \in [Exchanges -> [Traders -> Seq(Messages)]]
  /\ \A x \in Exchanges :
       /\ msg_queue_[x] \in Seq(MsgsAt(x))
       /\ msg[x] # <<>> => msg[x] \in MsgsAt(x) \X Traders
       /\ Len(msg_queue_[x]) <= (W * stock_num) \div 2
       /\ \A t \in Traders : /\ msg_wire[x][t] \in Seq(MsgsAt(x))
                             /\ Len(msg_wire[x][t]) <= HighWater

SysInv == ControllersOK /\ SendersOK /\ ReceiversOK /\ WindowsOK /\ StocksOK /\ TradeSendersOK

(* The constants. *)
LEMMA Constants ==
  /\ trader_num \in Nat \ {0} /\ exchange_num \in Nat \ {0} /\ stock_num \in Nat \ {0}
  /\ W \in Nat \ {0} /\ OrderNum \in Nat /\ HighWater \in Nat \ {0}
  /\ \A s \in Stocks : ExchangeOf(s) \in Exchanges
  /\ (W * stock_num) \div exchange_num \in Nat /\ (W * stock_num) \div 2 \in Nat
<1>1. /\ trader_num \in Nat \ {0} /\ exchange_num \in Nat \ {0} /\ stock_num \in Nat \ {0}
      /\ W \in Nat \ {0} /\ OrderNum \in Nat /\ HighWater \in Nat \ {0}
  BY ConfigAssumption DEF W
<1>2. \A s \in Stocks : ExchangeOf(s) \in Exchanges
  BY <1>1 DEF ExchangeOf, Exchanges, Stocks
<1>3. W * stock_num \in Nat
  BY <1>1
<1> DEFINE n == W * stock_num
<1> HIDE DEF n
<1>4. n \in Nat
  BY <1>3 DEF n
<1>5. n \div exchange_num \in Nat /\ n \div 2 \in Nat
  BY <1>1, <1>4
<1> QED  BY <1>1, <1>2, <1>5 DEF n

LEMMA InitOK == Init => SysInv
<1> SUFFICES ASSUME Init PROVE SysInv
  OBVIOUS
<1>1. ControllersOK
  <2>1. 1 \in Stocks /\ Limit(1) \in Scans /\ Limit(1) # Put
    BY Constants DEF Stocks, Scans, Limit, Put
  <2>2. \A t \in Traders, s \in Stocks : Len(sorted_order_structs[t][s]) \in Nat
    BY DataAssumption
  <2>3. 0 \in 0 .. OrderNum + 1 + W
    BY Constants
  <2> QED  BY <2>1, <2>2, <2>3 DEF Init, ControllersOK
<1>2. SendersOK
  BY Constants DEF Init, SendersOK
<1>3. ReceiversOK
  <2>1. 1 \in 1 .. OrderNum + 1
    BY Constants
  <2> QED  BY <2>1 DEF Init, ReceiversOK
<1>4. WindowsOK
  <2>1. 0 \in 0 .. W - 1
    BY Constants
  <2> QED  BY <2>1 DEF Init, WindowsOK
<1>5. StocksOK
  BY DEF Init, StocksOK
<1>6. TradeSendersOK
  BY Constants DEF Init, TradeSendersOK
<1> QED  BY <1>1, <1>2, <1>3, <1>4, <1>5, <1>6 DEF SysInv

(* Each action keeps what it changes in order; the rest stays as it is. *)

LEMMA Unchanged ==
  ASSUME SysInv
  PROVE  /\ UNCHANGED controllers => ControllersOK'
         /\ UNCHANGED senders => SendersOK'
         /\ UNCHANGED receivers => ReceiversOK'
         /\ UNCHANGED windows => WindowsOK'
         /\ UNCHANGED stocks => StocksOK'
         /\ UNCHANGED tradeSenders => TradeSendersOK'
<1>1. UNCHANGED controllers => ControllersOK'
  BY DEF SysInv, ControllersOK, controllers
<1>2. UNCHANGED senders => SendersOK'
  BY DEF SysInv, SendersOK, senders
<1>3. UNCHANGED receivers => ReceiversOK'
  BY DEF SysInv, ReceiversOK, receivers
<1>4. UNCHANGED windows => WindowsOK'
  BY DEF SysInv, WindowsOK, windows
<1>5. UNCHANGED stocks => StocksOK'
  BY DEF SysInv, StocksOK, stocks
<1>6. UNCHANGED tradeSenders => TradeSendersOK'
  BY DEF SysInv, TradeSendersOK, tradeSenders
<1> QED  BY <1>1, <1>2, <1>3, <1>4, <1>5, <1>6

LEMMA ReadLimitOK ==
  ASSUME SysInv, NEW t \in Traders, readLimit(t)
  PROVE  SysInv'
<1>1. PICK s \in Stocks :
        /\ order_id_limits' = [order_id_limits EXCEPT ![t][s] = sliding_window_start[t][s] + W]
        /\ scan' = [scan EXCEPT ![t] = Orders(s)]
        /\ UNCHANGED <<next_sorted_struct_idx, order_to_send>>
        /\ UNCHANGED <<senders, receivers, windows, stocks, tradeSenders>>
  BY Zenon DEF readLimit
<1>2. sliding_window_start[t][s] + W \in 0 .. OrderNum + 1 + W
  BY Constants DEF SysInv, ReceiversOK
<1>3. Orders(s) \in Scans /\ Orders(s) # Put
  BY DEF Scans, Orders, Put
<1>4. ControllersOK'
  BY <1>1, <1>2, <1>3 DEF SysInv, ControllersOK
<1> QED  BY <1>1, <1>4, Unchanged DEF SysInv

(* The next order of a trader's data. *)
LEMMA NextOrderOK ==
  ASSUME SysInv, NEW t \in Traders, NEW s \in Stocks, HasOrder(t, s)
  PROVE  NextOrder(t, s) \in OrderIds
<1>1. sorted_order_structs[t][s] \in Seq(OrderIds)
  BY DataAssumption
<1>2. next_sorted_struct_idx[t][s] \in Nat
  BY DEF SysInv, ControllersOK
<1> QED  BY <1>1, <1>2 DEF HasOrder, NextOrder

LEMMA TakeOrderOK ==
  ASSUME SysInv, NEW t \in Traders, takeOrder(t)
  PROVE  SysInv'
<1>1. PICK s \in Stocks :
        /\ scan[t] = Orders(s)
        /\ HasOrder(t, s)
        /\ order_to_send' = [order_to_send EXCEPT ![t] =
             Append(@, [stk |-> s, id |-> NextOrder(t, s), type |-> TypeOf(t, s, NextOrder(t, s))])]
        /\ next_sorted_struct_idx' = [next_sorted_struct_idx EXCEPT ![t][s] = @ + 1]
        /\ UNCHANGED <<order_id_limits, scan>>
        /\ UNCHANGED <<senders, receivers, windows, stocks, tradeSenders>>
  BY Zenon DEF takeOrder
<1> DEFINE o == [stk |-> s, id |-> NextOrder(t, s), type |-> TypeOf(t, s, NextOrder(t, s))]
<1>2. o \in OrderRecords
  BY <1>1, NextOrderOK DEF OrderRecords, TypeOf
<1>3. order_to_send' = [order_to_send EXCEPT ![t] = Append(@, o)]
  BY <1>1
<1> HIDE DEF o
<1>4. next_sorted_struct_idx[t][s] + 1 <= Len(sorted_order_structs[t][s])
  <2>1. Len(sorted_order_structs[t][s]) \in Nat
    BY DataAssumption
  <2> QED  BY <1>1, <2>1 DEF HasOrder, SysInv, ControllersOK
<1>5. order_to_send' \in [Traders -> Seq(OrderRecords)] /\ order_to_send'[t] # <<>>
      /\ \A u \in Traders \ {t} : order_to_send'[u] = order_to_send[u]
  BY <1>2, <1>3 DEF SysInv, ControllersOK
<1>6. ControllersOK'
  BY <1>1, <1>4, <1>5, SMTT(30) DEF SysInv, ControllersOK
<1> QED  BY <1>1, <1>6, Unchanged DEF SysInv

LEMMA NextStockOK ==
  ASSUME SysInv, NEW t \in Traders, nextStock(t)
  PROVE  SysInv'
<1>1. PICK s \in Stocks :
        /\ scan' = [scan EXCEPT ![t] = CASE s < stock_num -> Limit(s + 1)
                                     [] s = stock_num /\ order_to_send[t] # <<>> -> Put
                                     [] OTHER -> Limit(1)]
        /\ UNCHANGED <<next_sorted_struct_idx, order_id_limits, order_to_send>>
        /\ UNCHANGED <<senders, receivers, windows, stocks, tradeSenders>>
  BY Zenon DEF nextStock
<1>2. PICK c \in Scans : scan' = [scan EXCEPT ![t] = c] /\ (c = Put => order_to_send[t] # <<>>)
  <2>1. 1 \in Stocks /\ (s < stock_num => s + 1 \in Stocks)
    BY Constants DEF Stocks
  <2>2. CASE s < stock_num
    <3>1. scan' = [scan EXCEPT ![t] = Limit(s + 1)]
      <4>1. s \in Nat /\ stock_num \in Nat /\ s # stock_num
        BY <2>2, Constants DEF Stocks
      <4> QED  BY <1>1, <2>2, <4>1, Zenon
    <3>2. Limit(s + 1) \in Scans
      BY <2>1, <2>2 DEF Scans
    <3>3. Limit(s + 1) # Put
      BY DEF Limit, Put
    <3> QED  BY <3>1, <3>2, <3>3, Zenon
  <2>3. CASE ~(s < stock_num) /\ s = stock_num /\ order_to_send[t] # <<>>
    <3>1. Put \in Scans /\ scan' = [scan EXCEPT ![t] = Put]
      BY <1>1, <2>3 DEF Scans
    <3> QED  BY <2>3, <3>1, Zenon
  <2>4. CASE ~(s < stock_num) /\ ~(s = stock_num /\ order_to_send[t] # <<>>)
    <3>1. Limit(1) \in Scans /\ Limit(1) # Put /\ scan' = [scan EXCEPT ![t] = Limit(1)]
      BY <1>1, <2>1, <2>4, Zenon DEF Scans, Limit, Put
    <3> QED  BY <3>1, Zenon
  <2> QED  BY <2>2, <2>3, <2>4
<1>3. ControllersOK'
  BY <1>1, <1>2 DEF SysInv, ControllersOK
<1> QED  BY <1>1, <1>3, Unchanged DEF SysInv

LEMMA PutOrderOK ==
  ASSUME SysInv, NEW t \in Traders, put_order(t)
  PROVE  SysInv'
<1> DEFINE o == Head(order_to_send[t])  x == ExchangeOf(o.stk)
<1>1. order_to_send[t] # <<>> /\ order_to_send[t] \in Seq(OrderRecords) /\ o \in OrderRecords
  BY DEF put_order, SysInv, ControllersOK
<1>2. x \in Exchanges /\ o \in OrdersAt(x)
  <2> HIDE DEF o
  <2> QED  BY <1>1, Constants DEF OrdersAt, OrderRecords
<1>3. /\ Len(order_queue_[t][x]) < (W * stock_num) \div exchange_num
      /\ order_queue_' = [order_queue_ EXCEPT ![t][x] = Append(@, o)]
      /\ order_to_send' = [order_to_send EXCEPT ![t] = Tail(@)]
      /\ scan' = [scan EXCEPT ![t] = IF Tail(order_to_send[t]) = <<>> THEN Limit(1) ELSE Put]
      /\ UNCHANGED <<next_sorted_struct_idx, order_id_limits, order_msg, order_wire>>
      /\ UNCHANGED <<receivers, windows, stocks, tradeSenders>>
  BY DEF put_order
<1>4. ControllersOK'
  <2>1. 1 \in Stocks /\ Limit(1) \in Scans /\ Put \in Scans /\ Limit(1) # Put
    BY Constants DEF Stocks, Scans, Limit, Put
  <2>2. Tail(order_to_send[t]) \in Seq(OrderRecords)
    BY <1>1
  <2> QED  BY <1>1, <1>3, <2>1, <2>2 DEF SysInv, ControllersOK
<1>5. SendersOK'
  <2> HIDE DEF o, x
  <2> DEFINE q == Append(order_queue_[t][x], o)
  <2>1. order_queue_[t][x] \in Seq(OrdersAt(x)) /\ order_queue_[t][x] \in Seq(OrderRecords)
    BY <1>2 DEF SysInv, SendersOK
  <2>2. o \in OrderRecords
    BY <1>2 DEF OrdersAt
  <2>3. q \in Seq(OrdersAt(x)) /\ q \in Seq(OrderRecords) /\ Len(q) = Len(order_queue_[t][x]) + 1
    BY <1>2, <2>1, <2>2
  <2>4. Len(q) <= (W * stock_num) \div exchange_num
    BY <1>3, <2>1, <2>3, Constants, SMTT(30)
  <2>5. order_queue_' = [order_queue_ EXCEPT ![t][x] = q]
    BY <1>2, <1>3 DEF SysInv, SendersOK
  <2> HIDE DEF q
  <2> QED  BY <1>2, <1>3, <2>3, <2>4, <2>5 DEF SysInv, SendersOK
<1> QED  BY <1>3, <1>4, <1>5, Unchanged DEF SysInv

LEMMA PollOrderToSendOK ==
  ASSUME SysInv, NEW t \in Traders, NEW x \in Exchanges, pollOrderToSend(t, x)
  PROVE  SysInv'
<1> DEFINE q == order_queue_[t][x]
<1>1. /\ q # <<>> /\ q \in Seq(OrdersAt(x)) /\ q \in Seq(OrderRecords)
      /\ Len(q) <= (W * stock_num) \div exchange_num
  BY DEF pollOrderToSend, SysInv, SendersOK
<1>2. /\ order_msg' = [order_msg EXCEPT ![t][x] = <<Head(q)>>]
      /\ order_queue_' = [order_queue_ EXCEPT ![t][x] = Tail(q)]
      /\ UNCHANGED <<controllers, order_wire, receivers, windows, stocks, tradeSenders>>
  BY DEF pollOrderToSend, SysInv, SendersOK
<1> HIDE DEF q
<1>3. /\ <<Head(q)>> \in Seq(OrdersAt(x)) /\ <<Head(q)>> \in Seq(OrderRecords) /\ Len(<<Head(q)>>) = 1
      /\ Tail(q) \in Seq(OrdersAt(x)) /\ Tail(q) \in Seq(OrderRecords) /\ Len(Tail(q)) = Len(q) - 1
  BY <1>1
<1>4. Len(Tail(q)) <= (W * stock_num) \div exchange_num
  BY <1>1, <1>3, Constants
<1>5. SendersOK'
  BY <1>2, <1>3, <1>4, SMTT(30) DEF SysInv, SendersOK
<1> QED  BY <1>2, <1>5, Unchanged DEF SysInv

LEMMA SendOrderOK ==
  ASSUME SysInv, NEW t \in Traders, NEW x \in Exchanges, sendOrder(t, x)
  PROVE  SysInv'
<1> DEFINE m == order_msg[t][x]  w == order_wire[t][x]
<1>1. /\ m \in Seq(OrdersAt(x)) /\ m \in Seq(OrderRecords) /\ Len(m) <= 1
      /\ w \in Seq(OrdersAt(x)) /\ w \in Seq(OrderRecords) /\ Len(w) < HighWater
  BY DEF sendOrder, SysInv, SendersOK
<1>2. /\ order_wire' = [order_wire EXCEPT ![t][x] = w \o m]
      /\ order_msg' = [order_msg EXCEPT ![t][x] = <<>>]
      /\ UNCHANGED <<controllers, order_queue_, receivers, windows, stocks, tradeSenders>>
  BY DEF sendOrder, SysInv, SendersOK
<1> HIDE DEF m, w
<1>3. w \o m \in Seq(OrdersAt(x)) /\ w \o m \in Seq(OrderRecords) /\ Len(w \o m) <= HighWater
  BY <1>1, Constants
<1>4. SendersOK'
  <2>1. <<>> \in Seq(OrdersAt(x)) /\ <<>> \in Seq(OrderRecords) /\ Len(<<>>) <= 1
    OBVIOUS
  <2> QED  BY <1>2, <1>3, <2>1, SMTT(30) DEF SysInv, SendersOK
<1> QED  BY <1>2, <1>4, Unchanged DEF SysInv

LEMMA ReceiveOrderOK ==
  ASSUME SysInv, NEW x \in Exchanges, receiveOrder(x)
  PROVE  SysInv'
<1>1. PICK t \in Traders :
        /\ order_wire[t][x] # <<>>
        /\ order_wire' = [order_wire EXCEPT ![t][x] = Tail(@)]
        /\ LET o == Head(order_wire[t][x])
               i == (o.id - 1) % W
           IN  IF avaliable_[o.stk][i] THEN UNCHANGED <<data_, avaliable_>>
               ELSE /\ data_' = [data_ EXCEPT ![o.stk][i] = o]
                    /\ avaliable_' = [avaliable_ EXCEPT ![o.stk][i] = TRUE]
        /\ UNCHANGED <<controllers, order_queue_, order_msg, receivers, head_, stocks, tradeSenders>>
  BY Zenon DEF receiveOrder
<1> DEFINE w == order_wire[t][x]  o == Head(w)  i == (o.id - 1) % W
<1>2. w # <<>> /\ w \in Seq(OrdersAt(x)) /\ w \in Seq(OrderRecords) /\ Len(w) <= HighWater
  BY <1>1, Zenon DEF SysInv, SendersOK
<1>3. order_wire' = [order_wire EXCEPT ![t][x] = Tail(w)]
  BY <1>1, Zenon DEF SysInv, SendersOK
<1>4. \/ UNCHANGED <<data_, avaliable_>>
      \/ /\ data_' = [data_ EXCEPT ![o.stk][i] = o]
         /\ avaliable_' = [avaliable_ EXCEPT ![o.stk][i] = TRUE]
  BY <1>1, Zenon
<1> HIDE DEF w
<1>5. /\ o \in OrderRecords /\ Tail(w) \in Seq(OrdersAt(x)) /\ Tail(w) \in Seq(OrderRecords)
      /\ Len(Tail(w)) <= HighWater
  BY <1>2, Constants
<1>6. SendersOK'
  <2>1. UNCHANGED <<order_queue_, order_msg>>
    BY <1>1, Zenon
  <2> QED  BY <1>3, <1>5, <2>1, SMTT(30) DEF SysInv, SendersOK
<1> HIDE DEF o
<1>7. o.stk \in Stocks /\ o \in OrdersOf(o.stk) /\ i \in 0 .. W - 1
  <2>1. o.stk \in Stocks /\ o.id \in Nat
    BY <1>5 DEF OrderRecords, OrderIds
  <2>2. (o.id - 1) % W \in 0 .. W - 1
    BY <2>1, Constants
  <2> QED  BY <1>5, <2>1, <2>2 DEF OrdersOf
<1> HIDE DEF i
<1>8. WindowsOK'
  <2>1. CASE UNCHANGED <<data_, avaliable_>>
    BY <1>1, <2>1, Zenon DEF SysInv, WindowsOK
  <2>2. CASE /\ data_' = [data_ EXCEPT ![o.stk][i] = o]
             /\ avaliable_' = [avaliable_ EXCEPT ![o.stk][i] = TRUE]
    <3>1. /\ data_' \in [Stocks -> [0 .. W - 1 -> OrderRecords \cup {NoOrder}]]
          /\ avaliable_' \in [Stocks -> [0 .. W - 1 -> BOOLEAN]]
          /\ head_' \in [Stocks -> 0 .. W - 1]
      BY <1>1, <1>5, <1>7, <2>2, Zenon DEF SysInv, WindowsOK
    <3>2. ASSUME NEW s \in Stocks, NEW j \in 0 .. W - 1, avaliable_'[s][j]
          PROVE  data_'[s][j] \in OrdersOf(s)
      <4>1. CASE s = o.stk /\ j = i
        BY <1>7, <2>2, <4>1, Zenon DEF SysInv, WindowsOK
      <4>2. CASE ~(s = o.stk /\ j = i)
        <5>1. data_'[s][j] = data_[s][j] /\ avaliable_'[s][j] = avaliable_[s][j]
          BY <1>7, <2>2, <4>2, Zenon DEF SysInv, WindowsOK
        <5> QED  BY <3>2, <5>1 DEF SysInv, WindowsOK
      <4> QED  BY <4>1, <4>2
    <3> QED  BY <3>1, <3>2 DEF WindowsOK
  <2> QED  BY <1>4, <2>1, <2>2
<1> QED  BY <1>1, <1>6, <1>8, Unchanged, Zenon DEF SysInv

LEMMA PollOrderOK ==
  ASSUME SysInv, NEW s \in Stocks, pollOrder(s)
  PROVE  SysInv'
<1> DEFINE h == head_[s]  o == data_[s][h]
<1>1. /\ h \in 0 .. W - 1 /\ consuming[s] /\ o \in OrdersOf(s)
      /\ orders' = [orders EXCEPT ![s] = Append(@, o)]
      /\ avaliable_' = [avaliable_ EXCEPT ![s][h] = FALSE]
      /\ head_' = [head_ EXCEPT ![s] = (h + 1) % W]
      /\ UNCHANGED <<controllers, senders, receivers, data_, consuming, not_ready_orders>>
      /\ UNCHANGED <<last_commit_order_id, matching, trades, tradeSenders>>
  BY DEF pollOrder, SysInv, WindowsOK
<1> HIDE DEF h, o
<1>2. (h + 1) % W \in 0 .. W - 1
  BY <1>1, Constants, SMTT(30)
<1>3. WindowsOK'
  <2>1. /\ avaliable_' \in [Stocks -> [0 .. W - 1 -> BOOLEAN]]
        /\ head_' \in [Stocks -> 0 .. W - 1] /\ data_' = data_
        /\ \A u \in Stocks, j \in 0 .. W - 1 : avaliable_'[u][j] => avaliable_[u][j]
    BY <1>1, <1>2 DEF SysInv, WindowsOK
  <2> QED  BY <2>1 DEF SysInv, WindowsOK
<1>4. StocksOK'
  <2>1. o \in OrderRecords
    BY <1>1 DEF OrdersOf
  <2> DEFINE q == Append(orders[s], o)
  <2>2. orders[s] \in Seq(OrdersOf(s)) /\ orders[s] \in Seq(OrderRecords)
    BY DEF SysInv, StocksOK
  <2>3. q \in Seq(OrdersOf(s)) /\ q \in Seq(OrderRecords) /\ q # <<>>
    BY <1>1, <2>1, <2>2
  <2>4. orders' = [orders EXCEPT ![s] = q]
    BY <1>1 DEF SysInv, StocksOK
  <2> HIDE DEF q
  <2> QED  BY <1>1, <2>3, <2>4 DEF SysInv, StocksOK
<1> QED  BY <1>1, <1>3, <1>4, Unchanged DEF SysInv

(* A message enters the queue of its exchange. *)
LEMMA PutMsgOK ==
  ASSUME SysInv, NEW x \in Exchanges, NEW m \in MsgsAt(x), PutMsg(x, m), UNCHANGED <<msg, msg_wire>>
  PROVE  TradeSendersOK'
<1> DEFINE q == Append(msg_queue_[x], m)
<1>1. /\ msg_queue_[x] \in Seq(MsgsAt(x)) /\ msg_queue_[x] \in Seq(Messages)
      /\ Len(msg_queue_[x]) < (W * stock_num) \div 2
  BY DEF PutMsg, SysInv, TradeSendersOK
<1>2. m \in Messages
  BY DEF MsgsAt
<1>3. q \in Seq(MsgsAt(x)) /\ q \in Seq(Messages) /\ Len(q) <= (W * stock_num) \div 2
  BY <1>1, <1>2, Constants
<1>4. msg_queue_' = [msg_queue_ EXCEPT ![x] = q]
  BY DEF PutMsg, SysInv, TradeSendersOK
<1> HIDE DEF q
<1> QED  BY <1>3, <1>4 DEF SysInv, TradeSendersOK

(* The last order gathered. *)
LEMMA LastOrder ==
  ASSUME SysInv, NEW s \in Stocks, orders[s] # <<>>
  PROVE  /\ Len(orders[s]) \in 1 .. Len(orders[s]) /\ orders[s][Len(orders[s])] \in OrdersOf(s)
         /\ orders[s][Len(orders[s])].id \in OrderIds
         /\ Ack(s, orders[s][Len(orders[s])].id) \in MsgsAt(ExchangeOf(s))
<1>1. orders[s] \in Seq(OrdersOf(s))
  BY DEF SysInv, StocksOK
<1>2. Len(orders[s]) \in 1 .. Len(orders[s]) /\ orders[s][Len(orders[s])] \in OrdersOf(s)
  BY <1>1
<1> DEFINE n == orders[s][Len(orders[s])].id
<1>3. n \in OrderIds
  BY <1>2 DEF OrdersOf, OrderRecords
<1> HIDE DEF n
<1>4. Ack(s, n) \in MsgsAt(ExchangeOf(s))
  BY <1>3 DEF Ack, MsgsAt, Messages, OrderIds
<1> QED  BY <1>2, <1>3, <1>4 DEF n

LEMMA AckOrdersOK ==
  ASSUME SysInv, NEW s \in Stocks, ackOrders(s)
  PROVE  SysInv'
<1>1. /\ orders[s] # <<>> /\ consuming[s] /\ consuming' = [consuming EXCEPT ![s] = FALSE]
      /\ PutMsg(ExchangeOf(s), Ack(s, orders[s][Len(orders[s])].id))
      /\ UNCHANGED <<controllers, senders, receivers, windows, orders, not_ready_orders>>
      /\ UNCHANGED <<last_commit_order_id, matching, trades, msg, msg_wire>>
  BY DEF ackOrders
<1>2. TradeSendersOK'
  BY <1>1, LastOrder, PutMsgOK, Constants
<1>3. StocksOK'
  <2>1. UNCHANGED <<orders, not_ready_orders, last_commit_order_id, matching, trades>>
    BY <1>1
  <2> QED  BY <1>1, <2>1 DEF SysInv, StocksOK
<1> QED  BY <1>1, <1>2, <1>3, Unchanged DEF SysInv

LEMMA MatchOrderOK ==
  ASSUME SysInv, NEW s \in Stocks, matchOrder(s)
  PROVE  SysInv'
<1> DEFINE o == Head(orders[s])  v == IF o.type = -1 THEN <<>> ELSE Volumes[s][o.id]
<1>1. /\ ~consuming[s] /\ matching' = [matching EXCEPT ![s] = <<v>>]
      /\ UNCHANGED <<controllers, senders, receivers, windows, orders, consuming>>
      /\ UNCHANGED <<not_ready_orders, last_commit_order_id, trades, tradeSenders>>
  BY DEF matchOrder
<1>2. orders[s] # <<>> /\ orders[s] \in Seq(OrderRecords)
  BY <1>1 DEF SysInv, StocksOK
<1>3. o \in OrderRecords
  BY <1>2
<1>4. v \in Seq(Nat)
  <2> HIDE DEF o
  <2>1. o.id \in OrderIds
    BY <1>3 DEF OrderRecords
  <2>2. Volumes[s][o.id] \in Seq(Nat)
    BY <2>1, DataAssumption
  <2> QED  BY <2>2
<1> HIDE DEF v, o
<1>5. <<v>> \in Seq(Seq(Nat)) /\ Len(<<v>>) <= 1
  BY <1>4
<1>6. StocksOK'
  BY <1>1, <1>5 DEF SysInv, StocksOK
<1> QED  BY <1>1, <1>6, Unchanged DEF SysInv

(* What is left to produce. *)
LEMMA MatchingOK ==
  ASSUME SysInv, NEW s \in Stocks, matching[s] # <<>>
  PROVE  matching[s] \in Seq(Seq(Nat)) /\ Len(matching[s]) = 1 /\ matching[s][1] \in Seq(Nat) /\ ~consuming[s]
<1>1. matching[s] \in Seq(Seq(Nat)) /\ Len(matching[s]) <= 1 /\ ~consuming[s]
  BY DEF SysInv, StocksOK
<1> DEFINE m == matching[s]  U == Seq(Nat)
<1>2. m \in Seq(U) /\ Len(m) <= 1 /\ m # <<>>
  BY <1>1
<1> HIDE DEF m, U
<1>3. Len(m) # 0 /\ Len(m) \in Nat
  BY <1>2, EmptySeq, LenProperties
<1>4. Len(m) = 1
  BY <1>2, <1>3
<1>5. m[1] \in U
  BY <1>2, <1>4, ElementOfSeq
<1> QED  BY <1>1, <1>4, <1>5 DEF m, U

LEMMA ProduceTradeOK ==
  ASSUME SysInv, NEW s \in Stocks, produceTrade(s)
  PROVE  SysInv'
<1> DEFINE q == matching[s][1]  v == Head(q)
<1>1. matching[s] # <<>> /\ q \in Seq(Nat) /\ ~consuming[s] /\ q # <<>>
  BY MatchingOK DEF produceTrade
<1>2. /\ PutMsg(ExchangeOf(s), Trade(s, v))
      /\ trades' = [trades EXCEPT ![s] = Append(@, v)]
      /\ matching' = [matching EXCEPT ![s] = <<Tail(q)>>]
      /\ UNCHANGED <<controllers, senders, receivers, windows, orders, consuming>>
      /\ UNCHANGED <<not_ready_orders, last_commit_order_id, msg, msg_wire>>
  BY DEF produceTrade, SysInv, StocksOK
<1> HIDE DEF q
<1>3. v \in Nat /\ Tail(q) \in Seq(Nat) /\ <<Tail(q)>> \in Seq(Seq(Nat)) /\ Len(<<Tail(q)>>) <= 1
  BY <1>1
<1> HIDE DEF v
<1>4. Trade(s, v) \in MsgsAt(ExchangeOf(s))
  BY <1>3 DEF Trade, MsgsAt, Messages
<1>5. TradeSendersOK'
  BY <1>2, <1>4, PutMsgOK, Constants
<1>6. StocksOK'
  <2>1. UNCHANGED <<orders, consuming, not_ready_orders, last_commit_order_id>>
    BY <1>2
  <2>2. Append(trades[s], v) \in Seq(Nat)
    BY <1>3 DEF SysInv, StocksOK
  <2>3. trades' \in [Stocks -> Seq(Nat)]
    BY <1>2, <2>2 DEF SysInv, StocksOK
  <2>4. /\ matching' \in [Stocks -> Seq(Seq(Nat))]
        /\ \A u \in Stocks : /\ Len(matching'[u]) <= 1
                             /\ matching'[u] # <<>> => ~consuming'[u]
    BY <1>1, <1>2, <1>3, <2>1, SMTT(30) DEF SysInv, StocksOK
  <2>5. /\ orders' \in [Stocks -> Seq(OrderRecords)]
        /\ consuming' \in [Stocks -> BOOLEAN]
        /\ not_ready_orders' \in [Stocks -> SUBSET OrderIds]
        /\ last_commit_order_id' = [u \in Stocks |-> last_commit_order_id'[u]]
        /\ \A u \in Stocks : orders'[u] \in Seq(OrdersOf(u)) /\ (~consuming'[u] => orders'[u] # <<>>)
    BY <2>1 DEF SysInv, StocksOK
  <2> QED  BY <2>3, <2>4, <2>5 DEF StocksOK
<1> QED  BY <1>2, <1>5, <1>6, Unchanged DEF SysInv

LEMMA CommitOrdersOK ==
  ASSUME SysInv, NEW s \in Stocks, commitOrders(s)
  PROVE  SysInv'
<1> DEFINE q == orders[s]  S == not_ready_orders[s] \cup {Head(q).id}  C == Committed(s, S)
<1>1. /\ matching[s] = <<(<<>>)>>
      /\ not_ready_orders' = [not_ready_orders EXCEPT ![s] = S \ C]
      /\ last_commit_order_id' = [last_commit_order_id EXCEPT ![s] = @ + Cardinality(C)]
      /\ orders' = [orders EXCEPT ![s] = Tail(q)]
      /\ consuming' = [consuming EXCEPT ![s] = Tail(q) = <<>>]
      /\ matching' = [matching EXCEPT ![s] = <<>>]
      /\ UNCHANGED <<controllers, senders, receivers, windows, trades, tradeSenders>>
  BY DEF commitOrders, SysInv, StocksOK
<1>2. matching[s] # <<>>
  <2>1. matching[s] = <<(<<>>)>>
    BY <1>1, Zenon
  <2> QED  BY <2>1
<1>3. q # <<>> /\ q \in Seq(OrdersOf(s)) /\ q \in Seq(OrderRecords)
  BY <1>2, MatchingOK DEF SysInv, StocksOK
<1> HIDE DEF q
<1>4. /\ Head(q) \in OrderRecords /\ Tail(q) \in Seq(OrdersOf(s)) /\ Tail(q) \in Seq(OrderRecords)
  BY <1>3
<1>5. S \in SUBSET OrderIds
  BY <1>4, SMTT(30) DEF OrderRecords, SysInv, StocksOK
<1>6. C \subseteq S
  BY DEF Committed
<1> HIDE DEF S, C
<1>7. StocksOK'
  <2>1. /\ not_ready_orders' \in [Stocks -> SUBSET OrderIds]
        /\ last_commit_order_id' = [u \in Stocks |-> last_commit_order_id'[u]]
    BY <1>1, <1>5, Zenon DEF SysInv, StocksOK
  <2>2. /\ orders' \in [Stocks -> Seq(OrderRecords)]
        /\ \A u \in Stocks : orders'[u] \in Seq(OrdersOf(u))
    BY <1>1, <1>4 DEF SysInv, StocksOK
  <2>3. /\ consuming' \in [Stocks -> BOOLEAN]
        /\ \A u \in Stocks : ~consuming'[u] => orders'[u] # <<>>
    BY <1>1, Zenon DEF SysInv, StocksOK
  <2>4. /\ matching' \in [Stocks -> Seq(Seq(Nat))]
        /\ \A u \in Stocks : /\ Len(matching'[u]) <= 1
                             /\ matching'[u] # <<>> => ~consuming'[u]
    BY <1>1 DEF SysInv, StocksOK
  <2>5. trades' \in [Stocks -> Seq(Nat)]
    BY <1>1 DEF SysInv, StocksOK
  <2> QED  BY <2>1, <2>2, <2>3, <2>4, <2>5 DEF StocksOK
<1> QED  BY <1>1, <1>7, Unchanged DEF SysInv

LEMMA TakeMsgOK ==
  ASSUME SysInv, NEW x \in Exchanges, takeMsg(x)
  PROVE  SysInv'
<1> DEFINE q == msg_queue_[x]
<1>1. /\ q # <<>> /\ q \in Seq(MsgsAt(x)) /\ q \in Seq(Messages) /\ Len(q) <= (W * stock_num) \div 2
  BY DEF takeMsg, SysInv, TradeSendersOK
<1>2. /\ msg' = [msg EXCEPT ![x] = <<Head(q), 0>>]
      /\ msg_queue_' = [msg_queue_ EXCEPT ![x] = Tail(q)]
      /\ UNCHANGED <<controllers, senders, receivers, windows, stocks, msg_wire>>
  BY DEF takeMsg, SysInv, TradeSendersOK
<1> HIDE DEF q
<1>3. /\ Head(q) \in MsgsAt(x) /\ Head(q) \in Messages
      /\ Tail(q) \in Seq(MsgsAt(x)) /\ Tail(q) \in Seq(Messages) /\ Len(Tail(q)) <= (W * stock_num) \div 2
  BY <1>1, Constants
<1>4. 0 \in Traders
  BY Constants DEF Traders
<1>5. TradeSendersOK'
  <2>1. <<Head(q), 0>> \in MsgsAt(x) \X Traders /\ <<Head(q), 0>> \in Messages \X Traders
    BY <1>3, <1>4
  <2> DEFINE m == <<Head(q), 0>>
  <2>2. m \in MsgsAt(x) \X Traders /\ m \in Messages \X Traders /\ msg' = [msg EXCEPT ![x] = m]
    BY <1>2, <2>1
  <2> HIDE DEF m
  <2>3. /\ msg' \in [Exchanges -> {<<>>} \cup (Messages \X Traders)]
        /\ \A y \in Exchanges : msg'[y] # <<>> => msg'[y] \in MsgsAt(y) \X Traders
    BY <2>2 DEF SysInv, TradeSendersOK
  <2>4. /\ msg_queue_' \in [Exchanges -> Seq(Messages)]
        /\ \A y \in Exchanges : /\ msg_queue_'[y] \in Seq(MsgsAt(y))
                                /\ Len(msg_queue_'[y]) <= (W * stock_num) \div 2
    BY <1>2, <1>3 DEF SysInv, TradeSendersOK
  <2> QED  BY <1>2, <2>3, <2>4 DEF SysInv, TradeSendersOK
<1> QED  BY <1>2, <1>5, Unchanged DEF SysInv

(* The message in hand. *)
LEMMA InHand ==
  ASSUME SysInv, NEW x \in Exchanges, msg[x] # <<>>
  PROVE  msg[x][1] \in MsgsAt(x) /\ msg[x][1] \in Messages /\ msg[x][2] \in Traders
         /\ msg[x] = <<msg[x][1], msg[x][2]>>
<1>1. msg[x] \in MsgsAt(x) \X Traders
  BY DEF SysInv, TradeSendersOK
<1> QED  BY <1>1 DEF MsgsAt

LEMMA SendMsgOK ==
  ASSUME SysInv, NEW x \in Exchanges, sendMsg(x)
  PROVE  SysInv'
<1> DEFINE m == msg[x][1]  t == msg[x][2]  w == msg_wire[x][t]
           n == IF t + 1 < trader_num THEN <<m, t + 1>> ELSE <<>>
<1>1. msg[x] # <<>> /\ m \in MsgsAt(x) /\ m \in Messages /\ t \in Traders
  BY InHand DEF sendMsg
<1>2. /\ w \in Seq(MsgsAt(x)) /\ w \in Seq(Messages) /\ Len(w) < HighWater
  BY <1>1 DEF sendMsg, SysInv, TradeSendersOK
<1>3. /\ msg_wire' = [msg_wire EXCEPT ![x][t] = Append(w, m)]
      /\ msg' = [msg EXCEPT ![x] = n]
      /\ UNCHANGED <<controllers, senders, receivers, windows, stocks, msg_queue_>>
  BY <1>1 DEF sendMsg, SysInv, TradeSendersOK
<1>4. n # <<>> => n \in MsgsAt(x) \X Traders /\ n \in Messages \X Traders
  <2> HIDE DEF m, t
  <2>1. t + 1 < trader_num => t + 1 \in Traders
    BY <1>1, Constants, SMTT(30) DEF Traders
  <2> QED  BY <1>1, <2>1
<1> HIDE DEF m, t, w, n
<1>5. Append(w, m) \in Seq(MsgsAt(x)) /\ Append(w, m) \in Seq(Messages) /\ Len(Append(w, m)) <= HighWater
  BY <1>1, <1>2, Constants
<1>6. TradeSendersOK'
  <2>1. /\ msg' \in [Exchanges -> {<<>>} \cup (Messages \X Traders)]
        /\ \A y \in Exchanges : msg'[y] # <<>> => msg'[y] \in MsgsAt(y) \X Traders
    BY <1>3, <1>4 DEF SysInv, TradeSendersOK
  <2>2. /\ msg_wire' \in [Exchanges -> [Traders -> Seq(Messages)]]
        /\ \A y \in Exchanges, u \in Traders : /\ msg_wire'[y][u] \in Seq(MsgsAt(y))
                                               /\ Len(msg_wire'[y][u]) <= HighWater
    BY <1>1, <1>3, <1>5 DEF SysInv, TradeSendersOK
  <2>3. /\ msg_queue_' \in [Exchanges -> Seq(Messages)]
        /\ \A y \in Exchanges : /\ msg_queue_'[y] \in Seq(MsgsAt(y))
                                /\ Len(msg_queue_'[y]) <= (W * stock_num) \div 2
    BY <1>3 DEF SysInv, TradeSendersOK
  <2> QED  BY <2>1, <2>2, <2>3 DEF TradeSendersOK
<1> QED  BY <1>3, <1>6, Unchanged DEF SysInv

(* A message leaves the socket. *)
LEMMA ReceiveOK ==
  ASSUME SysInv, NEW t \in Traders, NEW x \in Exchanges, Receive(t, x)
  PROVE  /\ TradeSendersOK' /\ ControllersOK' /\ SendersOK' /\ WindowsOK' /\ StocksOK'
         /\ Head(msg_wire[x][t]) \in MsgsAt(x) /\ Head(msg_wire[x][t]) \in Messages
         /\ msg_wire[x][t] # <<>> /\ msg_wire[x][t] \in Seq(Messages)
<1> DEFINE w == msg_wire[x][t]
<1>1. w # <<>> /\ w \in Seq(MsgsAt(x)) /\ w \in Seq(Messages) /\ Len(w) <= HighWater
  BY DEF Receive, SysInv, TradeSendersOK
<1>2. /\ msg_wire' = [msg_wire EXCEPT ![x][t] = Tail(w)]
      /\ UNCHANGED <<controllers, senders, windows, stocks, msg_queue_, msg>>
  BY DEF Receive, SysInv, TradeSendersOK
<1> HIDE DEF w
<1>3. /\ Head(w) \in MsgsAt(x) /\ Head(w) \in Messages
      /\ Tail(w) \in Seq(MsgsAt(x)) /\ Tail(w) \in Seq(Messages) /\ Len(Tail(w)) <= HighWater
  BY <1>1, Constants
<1>4. TradeSendersOK'
  BY <1>2, <1>3 DEF SysInv, TradeSendersOK
<1> QED  BY <1>1, <1>2, <1>3, <1>4, Unchanged DEF w

LEMMA ProcessOrderAckOK ==
  ASSUME SysInv, NEW t \in Traders, NEW x \in Exchanges, process_order_ack(t, x)
  PROVE  SysInv'
<1> DEFINE m == Head(msg_wire[x][t])
<1>1. /\ TradeSendersOK' /\ ControllersOK' /\ SendersOK' /\ WindowsOK' /\ StocksOK' /\ m \in MsgsAt(x)
  BY ReceiveOK DEF process_order_ack
<1>2. /\ m.kind = "ack"
      /\ sliding_window_start' = [sliding_window_start EXCEPT ![t][m.stk] = m.value + 1]
      /\ UNCHANGED <<trade_idxs_, hooked_trade>>
  BY DEF process_order_ack
<1> HIDE DEF m
<1>3. m.stk \in Stocks /\ m.value + 1 \in 1 .. OrderNum + 1
  BY <1>1, <1>2, Constants DEF MsgsAt, Messages, OrderIds
<1>4. ReceiversOK'
  BY <1>2, <1>3 DEF SysInv, ReceiversOK
<1> QED  BY <1>1, <1>4 DEF SysInv

LEMMA ProcessTradeResultOK ==
  ASSUME SysInv, NEW t \in Traders, NEW x \in Exchanges, process_trade_result(t, x)
  PROVE  SysInv'
<1> DEFINE m == Head(msg_wire[x][t])  g == <<m.stk, trade_idxs_[t][m.stk]>>
<1>1. /\ TradeSendersOK' /\ ControllersOK' /\ SendersOK' /\ WindowsOK' /\ StocksOK' /\ m \in Messages
  BY ReceiveOK DEF process_trade_result
<1>2. /\ trade_idxs_' = [trade_idxs_ EXCEPT ![t][m.stk] = @ + 1]
      /\ hooked_trade' = IF g \in Targets THEN [hooked_trade EXCEPT ![t][g] = m.value]
                         ELSE hooked_trade
      /\ UNCHANGED sliding_window_start
  BY DEF process_trade_result
<1> HIDE DEF m
<1>3. m.stk \in Stocks /\ m.value \in Nat
  BY <1>1 DEF Messages
<1>4. trade_idxs_' \in [Traders -> [Stocks -> Nat \ {0}]]
  BY <1>2, <1>3 DEF SysInv, ReceiversOK
<1> HIDE DEF g
<1>5. hooked_trade' \in [Traders -> [Targets -> Nat \cup {-1}]]
  BY <1>2, <1>3 DEF SysInv, ReceiversOK
<1>6. ReceiversOK'
  BY <1>2, <1>4, <1>5 DEF SysInv, ReceiversOK
<1> QED  BY <1>1, <1>6 DEF SysInv

LEMMA SysInvNext == SysInv /\ [Next]_vars => SysInv'
<1> SUFFICES ASSUME SysInv, [Next]_vars PROVE SysInv'
  OBVIOUS
<1>1. CASE UNCHANGED vars
  BY <1>1, Unchanged DEF SysInv, vars
<1>2. CASE \E t \in Traders : Controller(t) \/ TradeReceiver(t)
  BY <1>2, ReadLimitOK, TakeOrderOK, NextStockOK, PutOrderOK, ProcessOrderAckOK, ProcessTradeResultOK
     DEF Controller, TradeReceiver
<1>3. CASE \E t \in Traders, x \in Exchanges : OrderSender(t, x)
  BY <1>3, PollOrderToSendOK, SendOrderOK DEF OrderSender
<1>4. CASE \E x \in Exchanges : receiveOrder(x) \/ TradeSender(x)
  BY <1>4, ReceiveOrderOK, TakeMsgOK, SendMsgOK DEF TradeSender
<1>5. CASE \E s \in Stocks : Stock(s)
  BY <1>5, PollOrderOK, AckOrdersOK, MatchOrderOK, ProduceTradeOK, CommitOrdersOK DEF Stock
<1> QED  BY <1>1, <1>2, <1>3, <1>4, <1>5 DEF Next

(* The queues and sockets keep to their capacities, and every order and     *)
(* every message is where it belongs: at the exchange of its stock.         *)
THEOREM SystemInvariant == Spec => []SysInv
<1> QED  BY InitOK, SysInvNext, PTL DEF Spec

-----------------------------------------------------------------------------
(* Four stages in a row: what moves from one stage to the next does not     *)
(* change the whole, and what enters or leaves does so at its ends.         *)
Row(w, m, q, b) == w \o m \o q \o b

LEMMA RowType ==
  ASSUME NEW T, NEW w \in Seq(T), NEW m \in Seq(T), NEW q \in Seq(T), NEW b \in Seq(T)
  PROVE  Row(w, m, q, b) \in Seq(T)
  BY ConcatProperties DEF Row

(* Selecting distributes over concatenation. *)
LEMMA SelectsConcat ==
  ASSUME NEW T, NEW S
  PROVE  \A a, b \in Seq(T) : SelectIn(a \o b, S) = SelectIn(a, S) \o SelectIn(b, S)
  BY SelectConcat

LEMMA MoveIsConcat ==
  ASSUME NEW T, NEW q \in Seq(T), NEW b \in Seq(T), b # <<>>
  PROVE  /\ q \o b = Append(q, Head(b)) \o Tail(b)
         /\ b = <<Head(b)>> \o Tail(b) /\ <<Head(b)>> \in Seq(T) /\ Tail(b) \in Seq(T)
<1> DEFINE h == <<Head(b)>>  c == Tail(b)
<1>1. h \in Seq(T) /\ c \in Seq(T) /\ b = h \o c /\ Head(b) \in T
  OBVIOUS
<1>2. Append(q, Head(b)) = q \o h
  BY <1>1, AppendIsConcat
<1> HIDE DEF h, c
<1>3. q \o (h \o c) = (q \o h) \o c
  <2>1. q \in Seq(T) /\ h \in Seq(T) /\ c \in Seq(T)
    BY <1>1
  <2>2. Assoc(T)
    BY Associative
  <2> QED  BY <2>1, <2>2, Zenon DEF Assoc
<1> QED  BY <1>1, <1>2, <1>3, Zenon DEF h, c

(* The last stage to the third. *)
Puts(T) == \A p, q, b \in Seq(T) : b # <<>> => (p \o Append(q, Head(b))) \o Tail(b) = (p \o q) \o b

LEMMA PutsConcat ==
  ASSUME NEW T
  PROVE  Puts(T)
<1> SUFFICES ASSUME NEW p \in Seq(T), NEW q \in Seq(T), NEW b \in Seq(T), b # <<>>
             PROVE  (p \o Append(q, Head(b))) \o Tail(b) = (p \o q) \o b
  BY Zenon DEF Puts
<1> DEFINE d == Append(q, Head(b))  c == Tail(b)
<1>1. q \o b = d \o c
  BY MoveIsConcat, SMTT(30)
<1>2. d \in Seq(T) /\ c \in Seq(T)
  BY AppendProperties, HeadTailProperties
<1> HIDE DEF d, c
<1>3. Assoc(T)
  BY Associative
<1>4. (p \o q) \o b = p \o (q \o b)
  BY <1>3, Zenon DEF Assoc
<1>5. (p \o d) \o c = p \o (d \o c)
  BY <1>2, <1>3, ZenonT(30) DEF Assoc
<1> QED  BY <1>1, <1>4, <1>5, Zenon DEF d, c

LEMMA RowPut ==
  ASSUME NEW T, NEW w \in Seq(T), NEW m \in Seq(T), NEW q \in Seq(T), NEW b \in Seq(T), b # <<>>
  PROVE  Row(w, m, Append(q, Head(b)), Tail(b)) = Row(w, m, q, b)
<1> DEFINE p == w \o m
<1>1. p \in Seq(T)
  BY ConcatProperties
<1> HIDE DEF p
<1>2. (p \o Append(q, Head(b))) \o Tail(b) = (p \o q) \o b
  <2>1. Puts(T)
    BY PutsConcat
  <2> QED  BY <1>1, <2>1, ZenonT(30) DEF Puts
<1> QED  BY <1>2, Zenon DEF Row, p

(* The third stage to the second, which is empty. *)
LEMMA RowPoll ==
  ASSUME NEW T, NEW w \in Seq(T), NEW q \in Seq(T), NEW b \in Seq(T), q # <<>>
  PROVE  Row(w, <<Head(q)>>, Tail(q), b) = Row(w, <<>>, q, b)
<1> DEFINE h == <<Head(q)>>  c == Tail(q)
<1>1. h \in Seq(T) /\ c \in Seq(T) /\ q = h \o c
  BY MoveIsConcat
<1> HIDE DEF h, c
<1>2. (w \o h) \o c = w \o (h \o c) /\ w \o <<>> = w
  <2>1. h \in Seq(T) /\ c \in Seq(T)
    BY <1>1
  <2>2. Assoc(T)
    BY Associative
  <2>3. (w \o h) \o c = w \o (h \o c)
    BY <2>1, <2>2, ZenonT(30) DEF Assoc
  <2> QED  BY <2>3, ConcatEmptySeq
<1> QED  BY <1>1, <1>2, SMTT(30) DEF Row, h, c

(* The second stage to the first. *)
LEMMA RowSend ==
  ASSUME NEW T, NEW w \in Seq(T), NEW m \in Seq(T), NEW q, NEW b
  PROVE  Row(w \o m, <<>>, q, b) = Row(w, m, q, b)
<1> DEFINE p == w \o m
<1>1. p \in Seq(T)
  BY ConcatProperties
<1> HIDE DEF p
<1>2. p \o <<>> = p
  BY <1>1, ConcatEmptySeq
<1> QED  BY <1>2 DEF Row, p

(* Out at the front. *)
LEMMA ConcatFront ==
  ASSUME NEW T, NEW a \in Seq(T), NEW b \in Seq(T), a # <<>>
  PROVE  a \o b # <<>> /\ Head(a \o b) = Head(a) /\ Tail(a \o b) = Tail(a) \o b
         /\ a \o b \in Seq(T)
<1> DEFINE h == <<Head(a)>>  c == Tail(a)
<1>1. h \in Seq(T) /\ c \in Seq(T) /\ a = h \o c /\ Head(a) \in T
  BY MoveIsConcat, HeadTailProperties
<1>2. h = <<Head(a)>>
  OBVIOUS
<1> HIDE DEF h, c
<1>3. a \o b = h \o (c \o b) /\ c \o b \in Seq(T) /\ a \o b \in Seq(T)
  <2>1. (h \o c) \o b = h \o (c \o b)
    <3>1. Assoc(T)
      BY Associative
    <3>2. h \in Seq(T) /\ c \in Seq(T)
      BY <1>1
    <3> QED  BY <3>1, <3>2, ZenonT(30) DEF Assoc
  <2>2. c \o b \in Seq(T) /\ a \o b \in Seq(T)
    BY <1>1, ConcatProperties
  <2> QED  BY <1>1, <2>1, <2>2
<1> DEFINE d == c \o b
<1> HIDE DEF d
<1>4. d \in Seq(T) => h \o d # <<>> /\ Head(h \o d) = Head(a) /\ Tail(h \o d) = d
  <2> DEFINE e == Head(a)
  <2>1. h = <<e>> /\ e \in T
    BY <1>1, <1>2, Zenon
  <2> HIDE DEF e
  <2>2. d \in Seq(T) => <<e>> \o d # <<>> /\ Head(<<e>> \o d) = e /\ Tail(<<e>> \o d) = d
    BY <2>1
  <2> QED  BY <2>1, <2>2 DEF e
<1> QED  BY <1>3, <1>4, SMTT(30) DEF c, d

LEMMA RowOut ==
  ASSUME NEW T, NEW w \in Seq(T), NEW m \in Seq(T), NEW q \in Seq(T), NEW b \in Seq(T), w # <<>>
  PROVE  /\ Row(w, m, q, b) # <<>> /\ Head(Row(w, m, q, b)) = Head(w)
         /\ Tail(Row(w, m, q, b)) = Row(Tail(w), m, q, b)
<1> DEFINE c == w \o m  d == c \o q  e == d \o b
<1>1. c # <<>> /\ Head(c) = Head(w) /\ Tail(c) = Tail(w) \o m /\ c \in Seq(T)
  BY ConcatFront, SMTT(30)
<1>2. d # <<>> /\ Head(d) = Head(c) /\ Tail(d) = Tail(c) \o q /\ d \in Seq(T)
  <2>1. c # <<>> /\ c \in Seq(T)
    BY <1>1
  <2> HIDE DEF c
  <2> QED  BY <2>1, ConcatFront, SMTT(30)
<1>3. e # <<>> /\ Head(e) = Head(d) /\ Tail(e) = Tail(d) \o b
  <2>1. d # <<>> /\ d \in Seq(T)
    BY <1>2
  <2> HIDE DEF d
  <2> QED  BY <2>1, ConcatFront, SMTT(30)
<1>4. e = Row(w, m, q, b)
  BY DEF Row
<1> HIDE DEF c, d, e
<1> QED  BY <1>1, <1>2, <1>3, <1>4, Zenon DEF Row

(* What is not selected may leave the last stage. *)
LEMMA RowSkip ==
  ASSUME NEW T, NEW w \in Seq(T), NEW m \in Seq(T), NEW q \in Seq(T), NEW b \in Seq(T), b # <<>>,
         NEW S, Head(b) \notin S
  PROVE  SelectIn(Row(w, m, q, Tail(b)), S) = SelectIn(Row(w, m, q, b), S)
<1> DEFINE p == w \o m \o q  c == Tail(b)
<1>1. p \in Seq(T) /\ c \in Seq(T)
  BY ConcatProperties, HeadTailProperties
<1>2. SelectIn(b, S) = SelectIn(c, S)
  BY SelectHead
<1>0. \A x, y \in Seq(T) : SelectIn(x \o y, S) = SelectIn(x, S) \o SelectIn(y, S)
  BY SelectsConcat, Zenon
<1> HIDE DEF p, c
<1>3. SelectIn(p \o b, S) = SelectIn(p, S) \o SelectIn(b, S)
  BY <1>0, <1>1, Zenon
<1>4. SelectIn(p \o c, S) = SelectIn(p, S) \o SelectIn(c, S)
  BY <1>0, <1>1, Zenon
<1> QED  BY <1>2, <1>3, <1>4 DEF Row, p, c

(* The ids of orders, and the values of messages. *)
LEMMA ValuesOf ==
  ASSUME NEW q \in Seq(Messages)
  PROVE  /\ Values(q) \in Seq(Nat) /\ Len(Values(q)) = Len(q)
         /\ \A i \in 1 .. Len(q) : Values(q)[i] = q[i].value
<1>1. DOMAIN q = 1 .. Len(q) /\ Len(q) \in Nat
  BY LenProperties
<1>2. \A o \in Messages : o.value \in Nat
  BY DEF Messages
<1>3. \A i \in 1 .. Len(q) : q[i].value \in Nat
  BY <1>2, ElementOfSeq
<1> QED  BY <1>1, <1>3 DEF Values

LEMMA ValuesAppend ==
  ASSUME NEW q \in Seq(Messages), NEW m \in Messages
  PROVE  Values(Append(q, m)) = Append(Values(q), m.value)
<1> DEFINE r == Append(q, m)  a == Values(r)  b == Values(q)  v == m.value  c == Append(b, v)
<1>1. r \in Seq(Messages) /\ Len(r) = Len(q) + 1 /\ m.value \in Nat /\ Len(q) \in Nat
      /\ (\A i \in 1 .. Len(q) : r[i] = q[i]) /\ r[Len(q) + 1] = m
  BY AppendProperties, LenProperties DEF Messages
<1>2. /\ a \in Seq(Nat) /\ Len(a) = Len(q) + 1 /\ \A i \in 1 .. Len(q) + 1 : a[i] = r[i].value
      /\ b \in Seq(Nat) /\ Len(b) = Len(q) /\ \A i \in 1 .. Len(q) : b[i] = q[i].value
  <2> HIDE DEF r
  <2> QED  BY <1>1, ValuesOf
<1> HIDE DEF r, a, b, v
<1>3. /\ c \in Seq(Nat) /\ Len(c) = Len(q) + 1
      /\ (\A i \in 1 .. Len(q) : c[i] = b[i]) /\ c[Len(q) + 1] = v
  <2>1. v \in Nat
    BY <1>1 DEF v
  <2> QED  BY <1>2, <2>1, AppendProperties
<1> HIDE DEF c
<1>4. \A i \in 1 .. Len(q) + 1 : a[i] = c[i]
  <2>1. /\ \A i \in 1 .. Len(q) + 1 : i \in 1 .. Len(q) \/ i = Len(q) + 1
        /\ Len(q) + 1 \in 1 .. Len(q) + 1 /\ \A i \in 1 .. Len(q) : i \in 1 .. Len(q) + 1
    BY <1>1
  <2>2. \A i \in 1 .. Len(q) : a[i] = c[i]
    BY <1>1, <1>2, <1>3, <2>1, Zenon
  <2>3. a[Len(q) + 1] = c[Len(q) + 1]
    BY <1>1, <1>2, <1>3, <2>1, Zenon DEF v
  <2> QED  BY <2>1, <2>2, <2>3, Zenon
<1>5. a = c
  BY <1>2, <1>3, <1>4, SeqEqual
<1> QED  BY <1>5 DEF a, b, c, r, v

LEMMA ValuesTail ==
  ASSUME NEW q \in Seq(Messages), q # <<>>
  PROVE  Values(q) # <<>> /\ Head(Values(q)) = Head(q).value /\ Tail(Values(q)) = Values(Tail(q))
<1> DEFINE r == Tail(q)  a == Values(r)  b == Values(q)
<1>1. r \in Seq(Messages) /\ Len(r) = Len(q) - 1 /\ Len(q) \in Nat \ {0}
      /\ (\A i \in 1 .. Len(q) - 1 : r[i] = q[i + 1]) /\ Head(q) = q[1]
  BY HeadTailProperties, EmptySeq
<1>2. /\ a \in Seq(Nat) /\ Len(a) = Len(q) - 1 /\ \A i \in 1 .. Len(q) - 1 : a[i] = r[i].value
      /\ b \in Seq(Nat) /\ Len(b) = Len(q) /\ \A i \in 1 .. Len(q) : b[i] = q[i].value
  <2> HIDE DEF r
  <2> QED  BY <1>1, ValuesOf, SMTT(30)
<1> HIDE DEF r, a, b
<1>3. b # <<>> /\ Head(b) = Head(q).value
  BY <1>1, <1>2, SMTT(30)
<1>4. /\ Tail(b) \in Seq(Nat) /\ Len(Tail(b)) = Len(q) - 1
      /\ \A i \in 1 .. Len(q) - 1 : Tail(b)[i] = b[i + 1]
  BY <1>2, <1>3, HeadTailProperties
<1>5. \A i \in 1 .. Len(q) - 1 : a[i] = Tail(b)[i]
  <2>1. \A i \in 1 .. Len(q) - 1 : i + 1 \in 1 .. Len(q)
    BY <1>1
  <2> QED  BY <1>1, <1>2, <1>4, <2>1, ZenonT(30)
<1>6. a = Tail(b)
  BY <1>2, <1>4, <1>5, SeqEqual, Zenon
<1> QED  BY <1>3, <1>6 DEF a, b, r

-----------------------------------------------------------------------------
(* What the steps do to the orders under way. *)

LEMMA OrderStages ==
  ASSUME SysInv, NEW t \in Traders, NEW x \in Exchanges
  PROVE  /\ order_wire[t][x] \in Seq(OrderRecords) /\ order_msg[t][x] \in Seq(OrderRecords)
         /\ order_queue_[t][x] \in Seq(OrderRecords) /\ order_to_send[t] \in Seq(OrderRecords)
  BY DEF SysInv, SendersOK, ControllersOK

LEMMA UnderWayRow ==
  ASSUME NEW t, NEW s
  PROVE  UnderWay(t, s) = SelectIn(Row(order_wire[t][ExchangeOf(s)], order_msg[t][ExchangeOf(s)],
                                       order_queue_[t][ExchangeOf(s)], order_to_send[t]), OrdersOf(s))
  BY DEF UnderWay, Row

LEMMA UnderWayType ==
  ASSUME SysInv, NEW t \in Traders, NEW s \in Stocks
  PROVE  UnderWay(t, s) \in Seq(OrdersOf(s)) /\ UnderWay(t, s) \in Seq(OrderRecords)
<1> DEFINE x == ExchangeOf(s)
           R == Row(order_wire[t][x], order_msg[t][x], order_queue_[t][x], order_to_send[t])
<1>1. R \in Seq(OrderRecords)
  BY OrderStages, Constants, RowType, ZenonT(30)
<1>2. UnderWay(t, s) = SelectIn(R, OrdersOf(s))
  BY UnderWayRow
<1> HIDE DEF x, R
<1> DEFINE q == SelectIn(R, OrdersOf(s))
<1>3. q \in Seq(OrderRecords \cap OrdersOf(s))
  BY <1>1, SelectType
<1> HIDE DEF q
<1>4. OrderRecords \cap OrdersOf(s) = OrdersOf(s) /\ OrdersOf(s) \subseteq OrderRecords
  BY DEF OrdersOf
<1>5. q \in Seq(OrdersOf(s))
  BY <1>3, <1>4
<1>6. q \in Seq(OrderRecords)
  BY <1>4, <1>5, SeqMonotonic
<1> QED  BY <1>2, <1>5, <1>6 DEF q

LEMMA UnderWayKept ==
  ASSUME UNCHANGED <<senders, order_to_send>>, NEW t, NEW s
  PROVE  UnderWay(t, s)' = UnderWay(t, s)
  BY DEF senders, UnderWay

Taken(T, S) == \A c, b \in Seq(T), o \in T :
  SelectIn(c \o Append(b, o), S)
    = IF o \in S THEN Append(SelectIn(c \o b, S), o) ELSE SelectIn(c \o b, S)

LEMMA SelectTake ==
  ASSUME NEW T, NEW S
  PROVE  Taken(T, S)
<1> SUFFICES ASSUME NEW c \in Seq(T), NEW b \in Seq(T), NEW o \in T
             PROVE  SelectIn(c \o Append(b, o), S)
                      = IF o \in S THEN Append(SelectIn(c \o b, S), o) ELSE SelectIn(c \o b, S)
  BY Zenon DEF Taken
<1> DEFINE d == c \o b
<1>1. d \in Seq(T) /\ <<o>> \in Seq(T) /\ Append(b, o) = b \o <<o>>
  BY ConcatProperties, AppendIsConcat
<1>2. c \o (b \o <<o>>) = d \o <<o>>
  <2>1. Assoc(T)
    BY Associative
  <2> QED  BY <1>1, <2>1, Zenon DEF Assoc
<1> HIDE DEF d
<1>3. Append(d, o) = d \o <<o>>
  BY <1>1, AppendIsConcat
<1>4. SelectIn(Append(d, o), S) = IF o \in S THEN Append(SelectIn(d, S), o) ELSE SelectIn(d, S)
  BY <1>1, SelectAppend
<1> QED  BY <1>1, <1>2, <1>3, <1>4, Zenon DEF d

Gathers(t, o) == order_to_send' = [order_to_send EXCEPT ![t] = Append(@, o)] /\ UNCHANGED senders

LEMMA UnderWayTake ==
  ASSUME SysInv, NEW t \in Traders, NEW s \in Stocks, NEW o \in OrdersOf(s), Gathers(t, o),
         NEW u \in Traders, NEW r \in Stocks
  PROVE  UnderWay(u, r)' = IF u = t /\ r = s THEN Append(UnderWay(u, r), o) ELSE UnderWay(u, r)
<1> DEFINE x == ExchangeOf(r)
           w == order_wire[u][x]  m == order_msg[u][x]  q == order_queue_[u][x]  b == order_to_send[u]
<1>1. w \in Seq(OrderRecords) /\ m \in Seq(OrderRecords) /\ q \in Seq(OrderRecords) /\ b \in Seq(OrderRecords)
  BY OrderStages, Constants
<1>2. o \in OrderRecords /\ (o \in OrdersOf(r) <=> r = s)
  BY DEF OrdersOf
<1>3. UnderWay(u, r) = SelectIn(Row(w, m, q, b), OrdersOf(r))
  BY UnderWayRow
<1>4. UnderWay(u, r)' = SelectIn(Row(w, m, q, order_to_send'[u]), OrdersOf(r))
  BY DEF Gathers, UnderWay, Row, senders
<1>5. order_to_send'[u] = IF u = t THEN Append(b, o) ELSE b
  BY DEF Gathers, SysInv, ControllersOK
<1> HIDE DEF x, w, m, q, b
<1> DEFINE c == w \o m \o q
<1>6. c \in Seq(OrderRecords)
  BY <1>1, ConcatProperties
<1>7. Row(w, m, q, b) = c \o b /\ Row(w, m, q, Append(b, o)) = c \o Append(b, o)
  BY DEF Row
<1> HIDE DEF c
<1>8. SelectIn(c \o Append(b, o), OrdersOf(r))
        = IF o \in OrdersOf(r) THEN Append(SelectIn(c \o b, OrdersOf(r)), o)
          ELSE SelectIn(c \o b, OrdersOf(r))
  <2>1. c \in Seq(OrderRecords) /\ b \in Seq(OrderRecords) /\ o \in OrderRecords
    BY <1>1, <1>2, <1>6
  <2>2. Taken(OrderRecords, OrdersOf(r))
    BY SelectTake
  <2> QED  BY <2>1, <2>2, Zenon DEF Taken
<1> QED  BY <1>2, <1>3, <1>4, <1>5, <1>7, <1>8, Zenon

LEMMA UnderWayPut ==
  ASSUME SysInv, NEW t \in Traders, put_order(t), NEW u \in Traders, NEW r \in Stocks
  PROVE  UnderWay(u, r)' = UnderWay(u, r)
<1> DEFINE o == Head(order_to_send[t])  y == ExchangeOf(o.stk)  x == ExchangeOf(r)
           w == order_wire[u][x]  m == order_msg[u][x]  q == order_queue_[u][x]  b == order_to_send[u]
<1>1. w \in Seq(OrderRecords) /\ m \in Seq(OrderRecords) /\ q \in Seq(OrderRecords) /\ b \in Seq(OrderRecords)
  BY OrderStages, Constants
<1>2. /\ order_to_send[t] # <<>> /\ o \in OrderRecords
  BY HeadTailProperties DEF put_order, SysInv, ControllersOK
<1>3. y \in Exchanges /\ x \in Exchanges
  <2>1. o.stk \in Stocks
    BY <1>2 DEF OrderRecords
  <2> QED  BY <2>1, Constants
<1>4. /\ order_queue_' = [order_queue_ EXCEPT ![t][y] = Append(@, o)]
      /\ order_to_send' = [order_to_send EXCEPT ![t] = Tail(@)]
      /\ UNCHANGED <<order_msg, order_wire>>
  BY DEF put_order
<1>5. UnderWay(u, r) = SelectIn(Row(w, m, q, b), OrdersOf(r))
  BY UnderWayRow
<1>6. UnderWay(u, r)' = SelectIn(Row(w, m, order_queue_'[u][x], order_to_send'[u]), OrdersOf(r))
  BY <1>4 DEF UnderWay, Row
<1>7. /\ order_queue_'[u][x] = IF u = t /\ x = y THEN Append(q, o) ELSE q
      /\ order_to_send'[u] = IF u = t THEN Tail(b) ELSE b
  <2> HIDE DEF o, y, x
  <2> QED  BY <1>3, <1>4, SMTT(30) DEF SysInv, ControllersOK, SendersOK
<1>8. u = t => o = Head(b) /\ b # <<>>
  BY <1>2
<1>9. y # x => o \notin OrdersOf(r)
  BY DEF OrdersOf
<1> HIDE DEF o, x, y, w, m, q, b
<1>10. CASE u # t
  BY <1>5, <1>6, <1>7, <1>10, Zenon
<1>11. CASE u = t /\ x = y
  <2>1. Row(w, m, Append(q, Head(b)), Tail(b)) = Row(w, m, q, b)
    BY <1>1, <1>8, <1>11, RowPut
  <2> QED  BY <1>5, <1>6, <1>7, <1>8, <1>11, <2>1, Zenon
<1>12. CASE u = t /\ x # y
  <2>1. SelectIn(Row(w, m, q, Tail(b)), OrdersOf(r)) = SelectIn(Row(w, m, q, b), OrdersOf(r))
    BY <1>1, <1>8, <1>9, <1>12, RowSkip
  <2> QED  BY <1>5, <1>6, <1>7, <1>12, <2>1, Zenon
<1> QED  BY <1>10, <1>11, <1>12

LEMMA UnderWayPoll ==
  ASSUME SysInv, NEW t \in Traders, NEW y \in Exchanges, pollOrderToSend(t, y),
         NEW u \in Traders, NEW r \in Stocks
  PROVE  UnderWay(u, r)' = UnderWay(u, r)
<1> DEFINE x == ExchangeOf(r)
           w == order_wire[u][x]  m == order_msg[u][x]  q == order_queue_[u][x]  b == order_to_send[u]
<1>1. /\ w \in Seq(OrderRecords) /\ m \in Seq(OrderRecords) /\ q \in Seq(OrderRecords)
      /\ b \in Seq(OrderRecords) /\ x \in Exchanges
  BY OrderStages, Constants, Zenon
<1>2. /\ order_msg[t][y] = <<>> /\ order_queue_[t][y] # <<>>
      /\ order_msg' = [order_msg EXCEPT ![t][y] = <<Head(order_queue_[t][y])>>]
      /\ order_queue_' = [order_queue_ EXCEPT ![t][y] = Tail(@)]
      /\ UNCHANGED <<order_to_send, order_wire>>
  BY DEF pollOrderToSend, controllers
<1>3. UnderWay(u, r) = SelectIn(Row(w, m, q, b), OrdersOf(r))
  BY UnderWayRow, Zenon
<1>4. UnderWay(u, r)' = SelectIn(Row(w, order_msg'[u][x], order_queue_'[u][x], b), OrdersOf(r))
  BY <1>2 DEF UnderWay, Row
<1>5. /\ order_msg'[u][x] = IF u = t /\ x = y THEN <<Head(q)>> ELSE m
      /\ order_queue_'[u][x] = IF u = t /\ x = y THEN Tail(q) ELSE q
      /\ u = t /\ x = y => m = <<>> /\ q # <<>>
  BY <1>1, <1>2, SMTT(30) DEF SysInv, SendersOK
<1> HIDE DEF x, w, m, q, b
<1>6. u = t /\ x = y => Row(w, <<Head(q)>>, Tail(q), b) = Row(w, <<>>, q, b)
  BY <1>1, <1>5, RowPoll
<1> QED  BY <1>3, <1>4, <1>5, <1>6, Zenon

LEMMA UnderWaySend ==
  ASSUME SysInv, NEW t \in Traders, NEW y \in Exchanges, sendOrder(t, y),
         NEW u \in Traders, NEW r \in Stocks
  PROVE  UnderWay(u, r)' = UnderWay(u, r)
<1> DEFINE x == ExchangeOf(r)
           w == order_wire[u][x]  m == order_msg[u][x]  q == order_queue_[u][x]  b == order_to_send[u]
<1>1. w \in Seq(OrderRecords) /\ m \in Seq(OrderRecords) /\ x \in Exchanges
  BY OrderStages, Constants
<1>2. /\ order_wire' = [order_wire EXCEPT ![t][y] = @ \o order_msg[t][y]]
      /\ order_msg' = [order_msg EXCEPT ![t][y] = <<>>]
      /\ UNCHANGED <<order_to_send, order_queue_>>
  BY DEF sendOrder, controllers
<1>3. UnderWay(u, r) = SelectIn(Row(w, m, q, b), OrdersOf(r))
  BY UnderWayRow, Zenon
<1>4. UnderWay(u, r)' = SelectIn(Row(order_wire'[u][x], order_msg'[u][x], q, b), OrdersOf(r))
  BY <1>2 DEF UnderWay, Row
<1>5. /\ order_msg'[u][x] = IF u = t /\ x = y THEN <<>> ELSE m
      /\ order_wire'[u][x] = IF u = t /\ x = y THEN w \o m ELSE w
  BY <1>1, <1>2, SMTT(30) DEF SysInv, SendersOK
<1> HIDE DEF x, w, m, q, b
<1>6. Row(w \o m, <<>>, q, b) = Row(w, m, q, b)
  BY <1>1, RowSend
<1> QED  BY <1>3, <1>4, <1>5, <1>6, ZenonT(30)

LEMMA UnderWayReceive ==
  ASSUME SysInv, NEW t \in Traders, NEW y \in Exchanges, order_wire[t][y] # <<>>,
         order_wire' = [order_wire EXCEPT ![t][y] = Tail(@)],
         UNCHANGED <<order_queue_, order_msg, order_to_send>>,
         NEW u \in Traders, NEW r \in Stocks
  PROVE  LET o == Head(order_wire[t][y])
         IN  IF u = t /\ r = o.stk
             THEN /\ UnderWay(u, r) # <<>> /\ Head(UnderWay(u, r)) = o
                  /\ UnderWay(u, r)' = Tail(UnderWay(u, r))
             ELSE UnderWay(u, r)' = UnderWay(u, r)
<1> DEFINE o == Head(order_wire[t][y])  x == ExchangeOf(r)
           w == order_wire[u][x]  m == order_msg[u][x]  q == order_queue_[u][x]  b == order_to_send[u]
<1>1. /\ w \in Seq(OrderRecords) /\ m \in Seq(OrderRecords) /\ q \in Seq(OrderRecords)
      /\ b \in Seq(OrderRecords) /\ x \in Exchanges
  BY OrderStages, Constants
<1>2. o \in OrderRecords /\ ExchangeOf(o.stk) = y
  <2>1. order_wire[t][y] \in Seq(OrdersAt(y))
    BY DEF SysInv, SendersOK
  <2>2. o \in OrdersAt(y)
    BY <2>1, HeadTailProperties
  <2> QED  BY <2>2 DEF OrdersAt
<1>3. UnderWay(u, r) = SelectIn(Row(w, m, q, b), OrdersOf(r))
  BY UnderWayRow
<1>4. UnderWay(u, r)' = SelectIn(Row(order_wire'[u][x], m, q, b), OrdersOf(r))
  BY DEF UnderWay, Row
<1>5. /\ order_wire'[u][x] = IF u = t /\ x = y THEN Tail(w) ELSE w
      /\ u = t /\ x = y => w # <<>> /\ Head(w) = o
  BY <1>1, SMTT(30) DEF SysInv, SendersOK
<1>6. (o \in OrdersOf(r) <=> r = o.stk) /\ (r = o.stk => x = y)
  BY <1>2 DEF OrdersOf
<1>7. SUFFICES IF u = t /\ r = o.stk
               THEN /\ UnderWay(u, r) # <<>> /\ Head(UnderWay(u, r)) = o
                    /\ UnderWay(u, r)' = Tail(UnderWay(u, r))
               ELSE UnderWay(u, r)' = UnderWay(u, r)
  OBVIOUS
<1> HIDE DEF o, x, w, m, q, b
<1>8. CASE ~(u = t /\ x = y)
  BY <1>3, <1>4, <1>5, <1>6, <1>8
<1>9. CASE u = t /\ x = y
  <2> DEFINE c == Row(w, m, q, b)
  <2>1. c \in Seq(OrderRecords) /\ c # <<>> /\ Head(c) = o /\ Tail(c) = Row(Tail(w), m, q, b)
    <3>1. c \in Seq(OrderRecords)
      BY <1>1, RowType
    <3>2. w # <<>> /\ Head(w) = o
      BY <1>5, <1>9
    <3>3. c # <<>> /\ Head(c) = Head(w) /\ Tail(c) = Row(Tail(w), m, q, b)
      BY <1>1, <3>2, RowOut, SMTT(30)
    <3> QED  BY <3>1, <3>2, <3>3
  <2> HIDE DEF c
  <2>2. /\ Head(c) \notin OrdersOf(r) => SelectIn(c, OrdersOf(r)) = SelectIn(Tail(c), OrdersOf(r))
        /\ Head(c) \in OrdersOf(r) => /\ SelectIn(c, OrdersOf(r)) # <<>>
                                      /\ Head(SelectIn(c, OrdersOf(r))) = Head(c)
                                      /\ Tail(SelectIn(c, OrdersOf(r))) = SelectIn(Tail(c), OrdersOf(r))
    BY <2>1, SelectHead
  <2>3. UnderWay(u, r) = SelectIn(c, OrdersOf(r)) /\ UnderWay(u, r)' = SelectIn(Tail(c), OrdersOf(r))
    BY <1>3, <1>4, <1>5, <1>9, <2>1, Zenon DEF c
  <2> QED  BY <1>6, <1>9, <2>1, <2>2, <2>3
<1> QED  BY <1>8, <1>9

-----------------------------------------------------------------------------
(* What the steps do to the messages under way. *)

HandOf(t, m) == IF m # <<>> /\ m[2] <= t THEN <<m[1]>> ELSE <<>>

LEMMA MsgsUnderWayIs ==
  ASSUME NEW t, NEW x
  PROVE  /\ MsgsUnderWay(t, x) = msg_wire[x][t] \o HandOf(t, msg[x]) \o msg_queue_[x]
         /\ MsgsUnderWay(t, x)' = msg_wire'[x][t] \o HandOf(t, msg'[x]) \o msg_queue_'[x]
  BY DEF MsgsUnderWay, HandOf

LEMMA MsgStages ==
  ASSUME SysInv, NEW t \in Traders, NEW x \in Exchanges
  PROVE  /\ msg_wire[x][t] \in Seq(MsgsAt(x)) /\ msg_queue_[x] \in Seq(MsgsAt(x))
         /\ HandOf(t, msg[x]) \in Seq(MsgsAt(x))
<1>1. msg_wire[x][t] \in Seq(MsgsAt(x)) /\ msg_queue_[x] \in Seq(MsgsAt(x))
  BY DEF SysInv, TradeSendersOK
<1>2. msg[x] # <<>> => <<msg[x][1]>> \in Seq(MsgsAt(x))
  BY InHand
<1>3. <<>> \in Seq(MsgsAt(x))
  OBVIOUS
<1> QED  BY <1>1, <1>2, <1>3 DEF HandOf

LEMMA MsgsUnderWayType ==
  ASSUME SysInv, NEW t \in Traders, NEW x \in Exchanges
  PROVE  MsgsUnderWay(t, x) \in Seq(MsgsAt(x)) /\ MsgsUnderWay(t, x) \in Seq(Messages)
<1> DEFINE w == msg_wire[x][t]  h == HandOf(t, msg[x])  q == msg_queue_[x]
<1>1. w \in Seq(MsgsAt(x)) /\ h \in Seq(MsgsAt(x)) /\ q \in Seq(MsgsAt(x))
  BY MsgStages
<1>2. MsgsUnderWay(t, x) = w \o h \o q
  BY MsgsUnderWayIs, Zenon
<1> HIDE DEF w, h, q
<1>3. w \o h \o q \in Seq(MsgsAt(x))
  BY <1>1, ConcatProperties
<1>4. MsgsAt(x) \subseteq Messages
  BY DEF MsgsAt
<1> QED  BY <1>2, <1>3, <1>4, SeqMonotonic

LEMMA MsgsUnderWayKept ==
  ASSUME UNCHANGED tradeSenders, NEW t, NEW x
  PROVE  MsgsUnderWay(t, x)' = MsgsUnderWay(t, x)
  BY DEF tradeSenders, MsgsUnderWay

(* Appending to the last of two stages. *)
Appends(T) == \A a, b \in Seq(T), e \in T : a \o Append(b, e) = Append(a \o b, e)

LEMMA ConcatAppends ==
  ASSUME NEW T
  PROVE  Appends(T)
<1> SUFFICES ASSUME NEW a \in Seq(T), NEW b \in Seq(T), NEW e \in T
             PROVE  a \o Append(b, e) = Append(a \o b, e)
  BY ZenonT(30) DEF Appends
<1> DEFINE d == a \o b
<1>1. d \in Seq(T) /\ <<e>> \in Seq(T) /\ Append(b, e) = b \o <<e>>
  BY ConcatProperties, AppendIsConcat
<1>2. a \o (b \o <<e>>) = d \o <<e>>
  <2>1. Assoc(T)
    BY Associative
  <2> QED  BY <1>1, <2>1, Zenon DEF Assoc
<1> HIDE DEF d
<1>3. Append(d, e) = d \o <<e>>
  BY <1>1, AppendIsConcat
<1> QED  BY <1>1, <1>2, <1>3 DEF d

LEMMA MsgsPut ==
  ASSUME SysInv, NEW y \in Exchanges, NEW m \in MsgsAt(y), PutMsg(y, m), UNCHANGED <<msg, msg_wire>>,
         NEW t \in Traders, NEW x \in Exchanges
  PROVE  MsgsUnderWay(t, x)' = IF x = y THEN Append(MsgsUnderWay(t, x), m) ELSE MsgsUnderWay(t, x)
<1> DEFINE w == msg_wire[x][t]  h == HandOf(t, msg[x])  q == msg_queue_[x]  a == w \o h
<1>1. w \in Seq(MsgsAt(x)) /\ h \in Seq(MsgsAt(x)) /\ q \in Seq(MsgsAt(x))
  BY MsgStages
<1>2. MsgsUnderWay(t, x) = a \o q
  BY MsgsUnderWayIs, Zenon
<1>3. MsgsUnderWay(t, x)' = a \o msg_queue_'[x]
  BY MsgsUnderWayIs, Zenon
<1>4. msg_queue_'[x] = IF x = y THEN Append(q, m) ELSE q
  BY DEF PutMsg, SysInv, TradeSendersOK
<1> HIDE DEF w, h, q
<1>5. a \in Seq(MsgsAt(x))
  BY <1>1, ConcatProperties
<1> HIDE DEF a
<1>6. x = y => a \o Append(q, m) = Append(a \o q, m)
  <2>1. Appends(MsgsAt(x))
    BY ConcatAppends
  <2>2. x = y => m \in MsgsAt(x)
    OBVIOUS
  <2> QED  BY <1>1, <1>5, <2>1, <2>2, Zenon DEF Appends
<1> QED  BY <1>2, <1>3, <1>4, <1>6

LEMMA MsgsTake ==
  ASSUME SysInv, NEW y \in Exchanges, takeMsg(y), NEW t \in Traders, NEW x \in Exchanges
  PROVE  MsgsUnderWay(t, x)' = MsgsUnderWay(t, x)
<1> DEFINE w == msg_wire[x][t]  h == HandOf(t, msg[x])  q == msg_queue_[x]
<1>1. w \in Seq(MsgsAt(x)) /\ h \in Seq(MsgsAt(x)) /\ q \in Seq(MsgsAt(x))
  BY MsgStages
<1>2. MsgsUnderWay(t, x) = w \o h \o q
  BY MsgsUnderWayIs, Zenon
<1>3. /\ msg[y] = <<>> /\ msg_queue_[y] # <<>> /\ UNCHANGED msg_wire
      /\ msg' = [msg EXCEPT ![y] = <<Head(msg_queue_[y]), 0>>]
      /\ msg_queue_' = [msg_queue_ EXCEPT ![y] = Tail(@)]
  BY DEF takeMsg
<1>4. MsgsUnderWay(t, x)' = w \o HandOf(t, msg'[x]) \o msg_queue_'[x]
  BY <1>3, MsgsUnderWayIs, Zenon
<1>5. CASE x # y
  <2>1. msg'[x] = msg[x] /\ msg_queue_'[x] = q
    BY <1>3, <1>5 DEF SysInv, TradeSendersOK
  <2> QED  BY <1>2, <1>4, <2>1
<1>6. CASE x = y
  <2>1. msg'[x] = <<Head(q), 0>> /\ msg_queue_'[x] = Tail(q) /\ h = <<>> /\ q # <<>>
    BY <1>3, <1>6 DEF SysInv, TradeSendersOK, HandOf
  <2>2. HandOf(t, <<Head(q), 0>>) = <<Head(q)>>
    BY Constants DEF HandOf, Traders
  <2> HIDE DEF w, h, q
  <2>3. Row(w, <<Head(q)>>, Tail(q), <<>>) = Row(w, <<>>, q, <<>>)
    BY <1>1, <2>1, RowPoll, Zenon
  <2> DEFINE a == w \o <<Head(q)>> \o Tail(q)  b == w \o <<>> \o q
  <2>4. a \in Seq(MsgsAt(x)) /\ b \in Seq(MsgsAt(x))
    <3> DEFINE e == <<Head(q)>>  f == Tail(q)
    <3>1. e \in Seq(MsgsAt(x)) /\ f \in Seq(MsgsAt(x)) /\ <<>> \in Seq(MsgsAt(x))
      BY <1>1, <2>1
    <3> HIDE DEF e, f
    <3>2. w \o e \o f \in Seq(MsgsAt(x)) /\ w \o <<>> \o q \in Seq(MsgsAt(x))
      BY <1>1, <3>1, ConcatProperties
    <3> QED  BY <3>2 DEF e, f
  <2>5. a \o <<>> = b \o <<>>
    BY <2>3, Zenon DEF Row
  <2> HIDE DEF a, b
  <2>6. a = b
    BY <2>4, <2>5, ConcatEmptySeq
  <2> QED  BY <1>2, <1>4, <2>1, <2>2, <2>6, Zenon DEF a, b
<1> QED  BY <1>5, <1>6

LEMMA MsgsSend ==
  ASSUME SysInv, NEW y \in Exchanges, sendMsg(y), NEW t \in Traders, NEW x \in Exchanges
  PROVE  MsgsUnderWay(t, x)' = MsgsUnderWay(t, x)
<1> DEFINE w == msg_wire[x][t]  h == HandOf(t, msg[x])  q == msg_queue_[x]
           m == msg[y][1]  u == msg[y][2]  n == IF u + 1 < trader_num THEN <<m, u + 1>> ELSE <<>>
<1>1. w \in Seq(MsgsAt(x)) /\ h \in Seq(MsgsAt(x)) /\ q \in Seq(MsgsAt(x))
  BY MsgStages
<1>2. MsgsUnderWay(t, x) = w \o h \o q
  BY MsgsUnderWayIs, Zenon
<1>3. /\ msg[y] # <<>> /\ UNCHANGED msg_queue_
      /\ msg_wire' = [msg_wire EXCEPT ![y][u] = Append(@, m)]
      /\ msg' = [msg EXCEPT ![y] = n]
  BY DEF sendMsg
<1>4. m \in MsgsAt(y) /\ u \in Traders /\ msg[y] = <<m, u>>
  BY <1>3, InHand
<1>5. MsgsUnderWay(t, x)' = msg_wire'[x][t] \o HandOf(t, msg'[x]) \o q
  BY <1>3, MsgsUnderWayIs, ZenonT(30)
<1>6. CASE x # y
  <2>1. msg'[x] = msg[x] /\ msg_wire'[x][t] = w
    BY <1>3, <1>6 DEF SysInv, TradeSendersOK
  <2> QED  BY <1>2, <1>5, <2>1
<1>7. CASE x = y
  <2>1. msg'[x] = n /\ msg_wire'[x][t] = IF t = u THEN Append(w, m) ELSE w
    <3> HIDE DEF n, m, u
    <3> QED  BY <1>3, <1>4, <1>7 DEF SysInv, TradeSendersOK
  <2>2. h = IF u <= t THEN <<m>> ELSE <<>>
    BY <1>3, <1>7 DEF HandOf
  <2>3. HandOf(t, n) = IF u + 1 <= t THEN <<m>> ELSE <<>>
    <3> HIDE DEF m, u
    <3>1. u + 1 <= t => u + 1 < trader_num
      BY <1>4, Constants DEF Traders
    <3> QED  BY <3>1 DEF HandOf
  <2>4. u \in Int /\ t \in Int
    BY <1>4, Constants DEF Traders
  <2>5. m \in MsgsAt(x)
    BY <1>4, <1>7
  <2> HIDE DEF w, h, q, m, u, n
  <2>6. CASE t = u
    <3>1. ~(u + 1 <= t) /\ u <= t
      BY <2>4, <2>6
    <3>2. Append(w, m) \o <<>> = w \o <<m>>
      BY <1>1, <2>5, AppendIsConcat, AppendProperties, ConcatEmptySeq
    <3> QED  BY <1>2, <1>5, <2>1, <2>2, <2>3, <2>6, <3>1, <3>2, SMTT(30)
  <2>7. CASE t # u
    <3>1. u + 1 <= t <=> u <= t
      BY <2>4, <2>7
    <3> QED  BY <1>2, <1>5, <2>1, <2>2, <2>3, <2>7, <3>1, Zenon
  <2> QED  BY <2>6, <2>7
<1> QED  BY <1>6, <1>7

LEMMA MsgsReceive ==
  ASSUME SysInv, NEW u \in Traders, NEW y \in Exchanges, Receive(u, y), NEW t \in Traders, NEW x \in Exchanges
  PROVE  IF t = u /\ x = y
         THEN /\ MsgsUnderWay(t, x) # <<>> /\ Head(MsgsUnderWay(t, x)) = Head(msg_wire[y][u])
              /\ MsgsUnderWay(t, x)' = Tail(MsgsUnderWay(t, x))
         ELSE MsgsUnderWay(t, x)' = MsgsUnderWay(t, x)
<1> DEFINE w == msg_wire[x][t]  h == HandOf(t, msg[x])  q == msg_queue_[x]
<1>1. w \in Seq(MsgsAt(x)) /\ h \in Seq(MsgsAt(x)) /\ q \in Seq(MsgsAt(x))
  BY MsgStages
<1>2. MsgsUnderWay(t, x) = w \o h \o q
  BY MsgsUnderWayIs, Zenon
<1>3. /\ msg_wire[y][u] # <<>> /\ UNCHANGED <<msg, msg_queue_>>
      /\ msg_wire' = [msg_wire EXCEPT ![y][u] = Tail(@)]
  BY DEF Receive
<1>4. MsgsUnderWay(t, x)' = msg_wire'[x][t] \o h \o q
  <2>1. MsgsUnderWay(t, x)' = msg_wire'[x][t] \o HandOf(t, msg'[x]) \o msg_queue_'[x]
    BY MsgsUnderWayIs, Zenon
  <2>2. msg' = msg /\ msg_queue_' = msg_queue_
    BY <1>3
  <2> QED  BY <2>1, <2>2
<1>5. msg_wire'[x][t] = IF t = u /\ x = y THEN Tail(w) ELSE w
  BY <1>3 DEF SysInv, TradeSendersOK
<1>6. CASE ~(t = u /\ x = y)
  BY <1>2, <1>4, <1>5, <1>6, Zenon
<1>7. CASE t = u /\ x = y
  <2>1. w # <<>> /\ Head(w) = Head(msg_wire[y][u])
    BY <1>3, <1>7
  <2> HIDE DEF w, h, q
  <2> DEFINE c == w \o h  d == c \o q
  <2>2. c # <<>> /\ Head(c) = Head(w) /\ Tail(c) = Tail(w) \o h /\ c \in Seq(MsgsAt(x))
    BY <1>1, <2>1, ConcatFront
  <2>3. d # <<>> /\ Head(d) = Head(c) /\ Tail(d) = Tail(c) \o q
    <3>1. c # <<>> /\ c \in Seq(MsgsAt(x)) /\ q \in Seq(MsgsAt(x))
      BY <1>1, <2>2
    <3> HIDE DEF c
    <3> QED  BY <3>1, ConcatFront
  <2> HIDE DEF c, d
  <2>4. MsgsUnderWay(t, x) = d
    BY <1>2 DEF c, d
  <2> QED  BY <1>4, <1>5, <1>7, <2>1, <2>2, <2>3, <2>4, ZenonT(30)
<1> QED  BY <1>6, <1>7

-----------------------------------------------------------------------------
(* The values selected from the messages under way. *)

LEMMA SelectSub ==
  ASSUME NEW T, NEW a \in Seq(T), NEW S
  PROVE  SelectIn(a, S) \in Seq(T)
<1> DEFINE b == SelectIn(a, S)  U == T \cap S
<1>1. b \in Seq(U) /\ U \subseteq T
  BY SelectType
<1> HIDE DEF b, U
<1>2. b \in Seq(T)
  BY <1>1, SeqMonotonic
<1> QED  BY <1>2 DEF b

LEMMA ValuesSelectAppend ==
  ASSUME NEW q \in Seq(Messages), NEW m \in Messages, NEW S
  PROVE  Values(SelectIn(Append(q, m), S))
           = IF m \in S THEN Append(Values(SelectIn(q, S)), m.value) ELSE Values(SelectIn(q, S))
<1> DEFINE c == SelectIn(q, S)
<1>1. SelectIn(Append(q, m), S) = IF m \in S THEN Append(c, m) ELSE c
  BY SelectAppend
<1>2. c \in Seq(Messages)
  BY SelectSub
<1> HIDE DEF c
<1>3. Values(Append(c, m)) = Append(Values(c), m.value)
  BY <1>2, ValuesAppend
<1> QED  BY <1>1, <1>3, Zenon DEF c

LEMMA ValuesSelectHead ==
  ASSUME NEW q \in Seq(Messages), q # <<>>, NEW S
  PROVE  IF Head(q) \in S
         THEN /\ Values(SelectIn(q, S)) # <<>> /\ Head(Values(SelectIn(q, S))) = Head(q).value
              /\ Tail(Values(SelectIn(q, S))) = Values(SelectIn(Tail(q), S))
         ELSE Values(SelectIn(Tail(q), S)) = Values(SelectIn(q, S))
<1> DEFINE c == SelectIn(q, S)  d == SelectIn(Tail(q), S)
<1>1. /\ Head(q) \notin S => c = d
      /\ Head(q) \in S => c # <<>> /\ Head(c) = Head(q) /\ Tail(c) = d
  BY SelectHead
<1>2. c \in Seq(Messages)
  BY SelectSub
<1> HIDE DEF c, d
<1>3. c # <<>> => Values(c) # <<>> /\ Head(Values(c)) = Head(c).value /\ Tail(Values(c)) = Values(Tail(c))
  BY <1>2, ValuesTail
<1> QED  BY <1>1, <1>3, Zenon DEF c, d

(* The values of the messages in S on their way from x to t. *)
Picked(t, x, S) == Values(SelectIn(MsgsUnderWay(t, x), S))

LEMMA PickedIs ==
  ASSUME NEW t, NEW x, NEW S
  PROVE  Picked(t, x, S)' = Values(SelectIn(MsgsUnderWay(t, x)', S))
  BY DEF Picked, Values, SelectIn

(* A message is put into the queue of the trade sender. *)
LEMMA PickedPut ==
  ASSUME SysInv, NEW y \in Exchanges, NEW m \in MsgsAt(y), PutMsg(y, m), UNCHANGED <<msg, msg_wire>>,
         NEW t \in Traders, NEW x \in Exchanges, NEW S
  PROVE  Picked(t, x, S)' = IF x = y /\ m \in S THEN Append(Picked(t, x, S), m.value) ELSE Picked(t, x, S)
<1> DEFINE q == MsgsUnderWay(t, x)
<1>1. q \in Seq(Messages) /\ m \in Messages
  BY MsgsUnderWayType, Zenon DEF MsgsAt
<1>2. MsgsUnderWay(t, x)' = IF x = y THEN Append(q, m) ELSE q
  BY MsgsPut
<1>3. Picked(t, x, S) = Values(SelectIn(q, S)) /\ Picked(t, x, S)' = Values(SelectIn(MsgsUnderWay(t, x)', S))
  BY PickedIs DEF Picked
<1> HIDE DEF q
<1>4. Values(SelectIn(Append(q, m), S))
        = IF m \in S THEN Append(Values(SelectIn(q, S)), m.value) ELSE Values(SelectIn(q, S))
  BY <1>1, ValuesSelectAppend
<1> QED  BY <1>2, <1>3, <1>4, Zenon

(* A trader receives a message. *)
LEMMA PickedReceive ==
  ASSUME SysInv, NEW u \in Traders, NEW y \in Exchanges, Receive(u, y),
         NEW t \in Traders, NEW x \in Exchanges, NEW S
  PROVE  IF t = u /\ x = y /\ Head(msg_wire[y][u]) \in S
         THEN /\ Picked(t, x, S) # <<>> /\ Head(Picked(t, x, S)) = Head(msg_wire[y][u]).value
              /\ Picked(t, x, S)' = Tail(Picked(t, x, S))
         ELSE Picked(t, x, S)' = Picked(t, x, S)
<1> DEFINE q == MsgsUnderWay(t, x)  m == Head(msg_wire[y][u])
<1>1. q \in Seq(Messages)
  BY MsgsUnderWayType
<1>2. IF t = u /\ x = y THEN q # <<>> /\ Head(q) = m /\ MsgsUnderWay(t, x)' = Tail(q)
      ELSE MsgsUnderWay(t, x)' = q
  BY MsgsReceive
<1>3. Picked(t, x, S) = Values(SelectIn(q, S)) /\ Picked(t, x, S)' = Values(SelectIn(MsgsUnderWay(t, x)', S))
  BY PickedIs DEF Picked
<1> HIDE DEF q, m
<1>4. q # <<>> => IF Head(q) \in S
                  THEN /\ Values(SelectIn(q, S)) # <<>> /\ Head(Values(SelectIn(q, S))) = Head(q).value
                       /\ Tail(Values(SelectIn(q, S))) = Values(SelectIn(Tail(q), S))
                  ELSE Values(SelectIn(Tail(q), S)) = Values(SelectIn(q, S))
  BY <1>1, ValuesSelectHead
<1>5. CASE t = u /\ x = y
  <2>1. MsgsUnderWay(t, x)' = Tail(q) /\ q # <<>> /\ Head(q) = m
    BY <1>2, <1>5
  <2> QED  BY <1>3, <1>4, <1>5, <2>1 DEF m
<1>6. CASE ~(t = u /\ x = y)
  BY <1>2, <1>3, <1>6
<1> QED  BY <1>5, <1>6

LEMMA EmptyPipes ==
  ASSUME Init, NEW t \in Traders, NEW s \in Stocks
  PROVE  UnderWay(t, s) = <<>> /\ MsgsUnderWay(t, ExchangeOf(s)) = <<>>
<1> DEFINE x == ExchangeOf(s)
<1>1. x \in Exchanges
  BY Constants
<1>2. /\ order_wire[t][x] = <<>> /\ order_msg[t][x] = <<>> /\ order_queue_[t][x] = <<>>
      /\ order_to_send[t] = <<>>
      /\ msg_wire[x][t] = <<>> /\ msg[x] = <<>> /\ msg_queue_[x] = <<>>
  BY <1>1 DEF Init
<1> HIDE DEF x
<1>3. <<>> \o <<>> = <<>>
  OBVIOUS
<1>4. SelectIn(order_wire[t][x] \o order_msg[t][x] \o order_queue_[t][x] \o order_to_send[t], OrdersOf(s)) = <<>>
  BY <1>2, <1>3, SelectEmpty, Zenon
<1>5. UnderWay(t, s) = <<>>
  BY <1>4 DEF UnderWay, x
<1>6. MsgsUnderWay(t, x) = <<>>
  BY <1>2, <1>3 DEF MsgsUnderWay
<1> QED  BY <1>5, <1>6 DEF x

-----------------------------------------------------------------------------
(* Hooks.  The trades that a trader has not received yet are exactly those  *)
(* on their way to it, in the order in which they happened.                 *)

TradesOf(s) == {m \in Messages : m.kind = "trade" /\ m.stk = s}
TradesUnderWay(t, s) == Picked(t, ExchangeOf(s), TradesOf(s))

(* v is what is left of the sequence w from place i on. *)
Rest(i, v, w) == i + Len(v) = Len(w) + 1 /\ \A k \in 1 .. Len(v) : v[k] = w[i - 1 + k]

TradesCounted == \A t \in Traders, s \in Stocks : Rest(trade_idxs_[t][s], TradesUnderWay(t, s), trades[s])

LEMMA RestAppend ==
  ASSUME NEW i \in Nat \ {0}, NEW v \in Seq(Nat), NEW w \in Seq(Nat), NEW e \in Nat, Rest(i, v, w)
  PROVE  Rest(i, Append(v, e), Append(w, e))
<1> DEFINE a == Append(v, e)  c == Append(w, e)  m == Len(v)  n == Len(w)
<1>1. Len(a) = m + 1 /\ a[m + 1] = e /\ \A k \in 1 .. m : a[k] = v[k]
  BY AppendProperties
<1>2. Len(c) = n + 1 /\ c[n + 1] = e /\ \A k \in 1 .. n : c[k] = w[k]
  BY AppendProperties
<1>3. m \in Nat /\ n \in Nat /\ i + m = n + 1 /\ \A k \in 1 .. m : v[k] = w[i - 1 + k]
  BY DEF Rest
<1> HIDE DEF a, c, m, n
<1>4. ASSUME NEW k \in 1 .. m + 1
      PROVE  a[k] = c[i - 1 + k]
  <2>1. CASE k = m + 1
    <3>1. i - 1 + k = n + 1
      BY <1>3, <2>1
    <3> QED  BY <1>1, <1>2, <2>1, <3>1
  <2>2. CASE k # m + 1
    <3>1. k \in 1 .. m /\ i - 1 + k \in 1 .. n
      BY <1>3, <2>2
    <3> QED  BY <1>1, <1>2, <1>3, <3>1
  <2> QED  BY <2>1, <2>2
<1>5. i + (m + 1) = (n + 1) + 1
  <2>1. m \in Nat /\ n \in Nat /\ i + m = n + 1
    BY <1>3
  <2> QED  BY <2>1
<1>6. Rest(i, a, c)
  BY <1>1, <1>2, <1>4, <1>5 DEF Rest
<1> QED  BY <1>6 DEF a, c

LEMMA RestTail ==
  ASSUME NEW i \in Nat \ {0}, NEW v \in Seq(Nat), v # <<>>, NEW w \in Seq(Nat), Rest(i, v, w)
  PROVE  Rest(i + 1, Tail(v), w) /\ Head(v) = w[i]
<1>1. Len(v) \in Nat \ {0} /\ Len(w) \in Nat /\ Head(v) = v[1]
  BY EmptySeq, LenProperties
<1>2. Tail(v) \in Seq(Nat) /\ Len(Tail(v)) = Len(v) - 1 /\ \A k \in 1 .. Len(v) - 1 : Tail(v)[k] = v[k + 1]
  BY HeadTailProperties
<1>3. i + Len(v) = Len(w) + 1 /\ \A k \in 1 .. Len(v) : v[k] = w[i - 1 + k]
  BY DEF Rest
<1>4. Head(v) = w[i]
  <2>1. 1 \in 1 .. Len(v) /\ i - 1 + 1 = i
    BY <1>1
  <2>2. v[1] = w[i - 1 + 1]
    BY <1>3, <2>1
  <2> QED  BY <1>1, <2>1, <2>2
<1>5. ASSUME NEW k \in 1 .. Len(v) - 1
      PROVE  Tail(v)[k] = w[(i + 1) - 1 + k]
  <2>1. k + 1 \in 1 .. Len(v) /\ i - 1 + (k + 1) = (i + 1) - 1 + k
    BY <1>1
  <2>2. v[k + 1] = w[i - 1 + (k + 1)]
    BY <1>3, <2>1
  <2> QED  BY <1>2, <2>1, <2>2
<1> QED  BY <1>1, <1>2, <1>3, <1>4, <1>5 DEF Rest

LEMMA TradesUnderWayType ==
  ASSUME SysInv, NEW t \in Traders, NEW s \in Stocks
  PROVE  TradesUnderWay(t, s) \in Seq(Nat)
<1> DEFINE q == SelectIn(MsgsUnderWay(t, ExchangeOf(s)), TradesOf(s))
<1>1. q \in Seq(Messages)
  BY MsgsUnderWayType, Constants, SelectSub
<1> HIDE DEF q
<1>2. Values(q) \in Seq(Nat)
  BY <1>1, ValuesOf
<1> QED  BY <1>2 DEF TradesUnderWay, Picked, q

LEMMA TargetType ==
  ASSUME NEW g \in Targets
  PROVE  g[1] \in Stocks /\ g[2] \in Nat \ {0} /\ g = <<g[1], g[2]>>
<1>1. PICK h \in Hooks : g = <<h.target_stk_code, h.target_trade_idx>>
  BY DEF Targets
<1>2. h.target_stk_code \in Stocks /\ h.target_trade_idx \in Nat \ {0}
  BY DataAssumption
<1> QED  BY <1>1, <1>2

(* A trade whose number a trader has passed has happened. *)
LEMMA Passed ==
  ASSUME SysInv, TradesCounted, NEW t \in Traders, NEW s \in Stocks
  PROVE  /\ trade_idxs_[t][s] \in Nat \ {0} /\ trades[s] \in Seq(Nat) /\ Len(trades[s]) \in Nat
         /\ trade_idxs_[t][s] <= Len(trades[s]) + 1
<1>1. /\ trade_idxs_[t][s] \in Nat \ {0} /\ trades[s] \in Seq(Nat) /\ Len(trades[s]) \in Nat
  BY DEF SysInv, ReceiversOK, StocksOK
<1>2. Len(TradesUnderWay(t, s)) \in Nat
  BY TradesUnderWayType
<1>3. trade_idxs_[t][s] + Len(TradesUnderWay(t, s)) = Len(trades[s]) + 1
  BY DEF TradesCounted, Rest
<1> QED  BY <1>1, <1>2, <1>3

HooksInv == TradesCounted /\ HooksKnown

(* The steps that produce and receive no trade. *)
LEMMA HooksKept ==
  ASSUME SysInv, HooksInv, UNCHANGED <<trade_idxs_, hooked_trade, trades>>,
         \A t \in Traders, s \in Stocks : TradesUnderWay(t, s)' = TradesUnderWay(t, s)
  PROVE  HooksInv'
<1>1. TradesCounted'
  <2> SUFFICES ASSUME NEW t \in Traders, NEW s \in Stocks
               PROVE  Rest(trade_idxs_'[t][s], TradesUnderWay(t, s)', trades'[s])
    BY DEF TradesCounted, Rest
  <2> QED  BY DEF HooksInv, TradesCounted
<1>2. HooksKnown'
  BY DEF HooksInv, HooksKnown
<1> QED  BY <1>1, <1>2 DEF HooksInv

LEMMA HooksProduce ==
  ASSUME SysInv, HooksInv, NEW r \in Stocks, produceTrade(r)
  PROVE  HooksInv'
<1> DEFINE e == Head(matching[r][1])  m == Trade(r, e)
<1>1. /\ matching[r] # <<>> /\ matching[r][1] # <<>>
      /\ PutMsg(ExchangeOf(r), m) /\ UNCHANGED <<msg, msg_wire>>
      /\ trades' = [trades EXCEPT ![r] = Append(@, e)]
      /\ UNCHANGED <<trade_idxs_, hooked_trade>>
  BY DEF produceTrade, receivers
<1>2. e \in Nat
  BY <1>1, MatchingOK, HeadTailProperties
<1> HIDE DEF e
<1>3. m \in MsgsAt(ExchangeOf(r)) /\ m.value = e /\ \A s \in Stocks : m \in TradesOf(s) <=> s = r
  BY <1>2 DEF Trade, MsgsAt, Messages, TradesOf
<1>4. ASSUME NEW s \in Stocks
      PROVE  trades'[s] = IF s = r THEN Append(trades[s], e) ELSE trades[s]
  BY <1>1 DEF SysInv, StocksOK
<1>5. ASSUME NEW t \in Traders, NEW s \in Stocks
      PROVE  TradesUnderWay(t, s)' = IF s = r THEN Append(TradesUnderWay(t, s), e) ELSE TradesUnderWay(t, s)
  <2>1. Picked(t, ExchangeOf(s), TradesOf(s))'
          = IF ExchangeOf(s) = ExchangeOf(r) /\ m \in TradesOf(s)
            THEN Append(Picked(t, ExchangeOf(s), TradesOf(s)), m.value) ELSE Picked(t, ExchangeOf(s), TradesOf(s))
    <3> HIDE DEF m
    <3>1. m \in MsgsAt(ExchangeOf(r)) /\ PutMsg(ExchangeOf(r), m) /\ UNCHANGED <<msg, msg_wire>>
      BY <1>1, <1>3
    <3>2. ExchangeOf(r) \in Exchanges /\ ExchangeOf(s) \in Exchanges
      BY Constants
    <3> QED  BY <3>1, <3>2, PickedPut
  <2> HIDE DEF m
  <2>2. TradesUnderWay(t, s)' = Picked(t, ExchangeOf(s), TradesOf(s))'
    BY DEF TradesUnderWay
  <2> QED  BY <1>3, <2>1, <2>2 DEF TradesUnderWay
<1>6. TradesCounted'
  <2> SUFFICES ASSUME NEW t \in Traders, NEW s \in Stocks
               PROVE  Rest(trade_idxs_'[t][s], TradesUnderWay(t, s)', trades'[s])
    BY DEF TradesCounted, Rest
  <2>1. Rest(trade_idxs_[t][s], TradesUnderWay(t, s), trades[s])
    BY DEF HooksInv, TradesCounted
  <2>2. Rest(trade_idxs_[t][s], Append(TradesUnderWay(t, s), e), Append(trades[s], e))
    BY <1>2, <2>1, Passed, TradesUnderWayType, RestAppend DEF HooksInv
  <2> QED  BY <1>1, <1>4, <1>5, <2>1, <2>2, ZenonT(30)
<1>7. HooksKnown'
  <2> SUFFICES ASSUME NEW t \in Traders, NEW g \in Targets
               PROVE  hooked_trade'[t][g] = IF g[2] < trade_idxs_'[t][g[1]] THEN trades'[g[1]][g[2]] ELSE -1
    BY DEF HooksKnown
  <2>1. g[1] \in Stocks /\ g[2] \in Nat \ {0}
    BY TargetType
  <2>2. g[2] < trade_idxs_[t][g[1]] => trades'[g[1]][g[2]] = trades[g[1]][g[2]]
    <3> SUFFICES ASSUME g[2] < trade_idxs_[t][g[1]] PROVE trades'[g[1]][g[2]] = trades[g[1]][g[2]]
      BY Zenon
    <3>1. trades[g[1]] \in Seq(Nat) /\ g[2] \in 1 .. Len(trades[g[1]])
      <4>1. /\ trade_idxs_[t][g[1]] \in Nat \ {0} /\ trades[g[1]] \in Seq(Nat) /\ Len(trades[g[1]]) \in Nat
            /\ trade_idxs_[t][g[1]] <= Len(trades[g[1]]) + 1
        BY <2>1, Passed DEF HooksInv
      <4> QED  BY <2>1, <4>1
    <3>2. Append(trades[g[1]], e)[g[2]] = trades[g[1]][g[2]]
      BY <1>2, <3>1, AppendProperties
    <3> QED  BY <1>4, <2>1, <3>2, ZenonT(30)
  <2> QED  BY <1>1, <2>2, ZenonT(30) DEF HooksInv, HooksKnown
<1> QED  BY <1>6, <1>7 DEF HooksInv

LEMMA HooksTradeReceived ==
  ASSUME SysInv, HooksInv, NEW u \in Traders, NEW y \in Exchanges, process_trade_result(u, y)
  PROVE  HooksInv'
<1> DEFINE m == Head(msg_wire[y][u])
<1>1. Receive(u, y) /\ m.kind = "trade" /\ trades' = trades
  BY ZenonT(30) DEF process_trade_result, Receive, stocks
<1>2. m \in MsgsAt(y) /\ m \in Messages
  BY <1>1, ReceiveOK
<1>3. PICK r \in Stocks, e \in Nat :
        /\ r = m.stk /\ e = m.value /\ ExchangeOf(r) = y
        /\ \A s \in Stocks : m \in TradesOf(s) <=> s = r
  <2> HIDE DEF m
  <2> QED  BY <1>1, <1>2 DEF MsgsAt, Messages, TradesOf
<1>4. PICK i \in Nat \ {0} : i = trade_idxs_[u][r] /\ i <= Len(trades[r]) + 1
  BY Passed DEF HooksInv
<1> DEFINE b == <<r, i>>
<1>5. /\ trade_idxs_' = [trade_idxs_ EXCEPT ![u][r] = @ + 1]
      /\ hooked_trade' = IF b \in Targets THEN [hooked_trade EXCEPT ![u][b] = e] ELSE hooked_trade
  BY <1>3, <1>4, ZenonT(30) DEF process_trade_result
<1>6. ASSUME NEW t \in Traders, NEW s \in Stocks
      PROVE  trade_idxs_'[t][s] = IF t = u /\ s = r THEN i + 1 ELSE trade_idxs_[t][s]
  BY <1>4, <1>5, SMTT(30) DEF SysInv, ReceiversOK
<1>7. ASSUME NEW t \in Traders, NEW s \in Stocks
      PROVE  IF t = u /\ s = r
             THEN /\ TradesUnderWay(t, s) # <<>> /\ Head(TradesUnderWay(t, s)) = e
                  /\ TradesUnderWay(t, s)' = Tail(TradesUnderWay(t, s))
             ELSE TradesUnderWay(t, s)' = TradesUnderWay(t, s)
  <2>1. Receive(u, y) /\ ExchangeOf(s) \in Exchanges
    BY <1>1, Constants
  <2>2. TradesUnderWay(t, s)' = Picked(t, ExchangeOf(s), TradesOf(s))'
    BY DEF TradesUnderWay
  <2>3. IF t = u /\ ExchangeOf(s) = y /\ m \in TradesOf(s)
        THEN /\ TradesUnderWay(t, s) # <<>> /\ Head(TradesUnderWay(t, s)) = m.value
             /\ TradesUnderWay(t, s)' = Tail(TradesUnderWay(t, s))
        ELSE TradesUnderWay(t, s)' = TradesUnderWay(t, s)
    BY <2>1, <2>2, PickedReceive DEF TradesUnderWay
  <2> HIDE DEF m
  <2> QED  BY <1>3, <2>3
<1> HIDE DEF m
<1>8. Rest(i + 1, TradesUnderWay(u, r)', trades[r]) /\ e = trades[r][i]
  <2> DEFINE v == TradesUnderWay(u, r)
  <2>1. v # <<>> /\ Head(v) = e /\ TradesUnderWay(u, r)' = Tail(v)
    BY <1>7
  <2>2. Rest(i, v, trades[r]) /\ trades[r] \in Seq(Nat)
    BY <1>4, Passed DEF HooksInv, TradesCounted
  <2>3. v \in Seq(Nat)
    BY TradesUnderWayType
  <2> HIDE DEF v
  <2>4. Rest(i + 1, Tail(v), trades[r]) /\ Head(v) = trades[r][i]
    BY <2>1, <2>2, <2>3, RestTail
  <2> QED  BY <2>1, <2>4, Zenon
<1>9. TradesCounted'
  <2> SUFFICES ASSUME NEW t \in Traders, NEW s \in Stocks
               PROVE  Rest(trade_idxs_'[t][s], TradesUnderWay(t, s)', trades'[s])
    BY DEF TradesCounted, Rest
  <2>1. CASE t = u /\ s = r
    BY <1>1, <1>6, <1>8, <2>1
  <2>2. CASE ~(t = u /\ s = r)
    <3>1. trade_idxs_'[t][s] = trade_idxs_[t][s] /\ TradesUnderWay(t, s)' = TradesUnderWay(t, s)
      BY <1>6, <1>7, <2>2
    <3> QED  BY <1>1, <3>1 DEF HooksInv, TradesCounted
  <2> QED  BY <2>1, <2>2
<1>10. HooksKnown'
  <2> SUFFICES ASSUME NEW t \in Traders, NEW g \in Targets
               PROVE  hooked_trade'[t][g] = IF g[2] < trade_idxs_'[t][g[1]] THEN trades'[g[1]][g[2]] ELSE -1
    BY DEF HooksKnown
  <2>1. g[1] \in Stocks /\ g[2] \in Nat \ {0} /\ g = <<g[1], g[2]>>
    BY TargetType
  <2>2. hooked_trade[t][g] = IF g[2] < trade_idxs_[t][g[1]] THEN trades[g[1]][g[2]] ELSE -1
    BY DEF HooksInv, HooksKnown
  <2>3. CASE t = u /\ g = b
    <3>1. hooked_trade'[t][g] = e
      <4> HIDE DEF b
      <4> QED  BY <1>5, <2>3 DEF SysInv, ReceiversOK
    <3>2. g[1] = r /\ g[2] = i /\ trade_idxs_'[t][g[1]] = i + 1
      BY <1>6, <2>3
    <3>3. g[2] < trade_idxs_'[t][g[1]]
      BY <1>4, <3>2
    <3> QED  BY <1>1, <1>8, <3>1, <3>2, <3>3, ZenonT(30)
  <2>4. CASE ~(t = u /\ g = b)
    <3>1. hooked_trade'[t][g] = hooked_trade[t][g]
      <4> HIDE DEF b
      <4> QED  BY <1>5, <2>4 DEF SysInv, ReceiversOK
    <3>2. g[2] < trade_idxs_'[t][g[1]] <=> g[2] < trade_idxs_[t][g[1]]
      <4>1. CASE t = u /\ g[1] = r
        <5>1. g[2] # i
          BY <2>1, <2>4, <4>1
        <5>2. trade_idxs_'[t][g[1]] = i + 1 /\ trade_idxs_[t][g[1]] = i
          BY <1>4, <1>6, <4>1
        <5> QED  BY <1>4, <2>1, <5>1, <5>2
      <4>2. CASE ~(t = u /\ g[1] = r)
        BY <1>6, <2>1, <4>2
      <4> QED  BY <4>1, <4>2
    <3> QED  BY <1>1, <2>2, <3>1, <3>2
  <2> QED  BY <2>3, <2>4
<1> QED  BY <1>9, <1>10 DEF HooksInv

LEMMA HooksInit ==
  ASSUME Init
  PROVE  HooksInv
<1>1. TradesCounted
  <2> SUFFICES ASSUME NEW t \in Traders, NEW s \in Stocks
               PROVE  Rest(trade_idxs_[t][s], TradesUnderWay(t, s), trades[s])
    BY DEF TradesCounted
  <2>1. TradesUnderWay(t, s) = Values(SelectIn(<<>>, TradesOf(s)))
    BY EmptyPipes DEF TradesUnderWay, Picked
  <2>2. Values(<<>>) = <<>>
    BY DEF Values
  <2>3. TradesUnderWay(t, s) = <<>>
    BY <2>1, <2>2, SelectEmpty
  <2>4. trade_idxs_[t][s] = 1 /\ trades[s] = <<>>
    BY DEF Init
  <2> QED  BY <2>3, <2>4 DEF Rest
<1>2. HooksKnown
  <2> SUFFICES ASSUME NEW t \in Traders, NEW g \in Targets
               PROVE  hooked_trade[t][g] = -1 /\ ~(g[2] < trade_idxs_[t][g[1]])
    BY DEF HooksKnown
  <2>1. g[1] \in Stocks /\ g[2] \in Nat \ {0}
    BY TargetType
  <2>2. hooked_trade[t][g] = -1 /\ trade_idxs_[t][g[1]] = 1
    BY <2>1 DEF Init
  <2> QED  BY <2>1, <2>2
<1> QED  BY <1>1, <1>2 DEF HooksInv

LEMMA TradesUnderWayKept ==
  ASSUME \A t \in Traders, x \in Exchanges : MsgsUnderWay(t, x)' = MsgsUnderWay(t, x)
  PROVE  \A t \in Traders, s \in Stocks : TradesUnderWay(t, s)' = TradesUnderWay(t, s)
<1> SUFFICES ASSUME NEW t \in Traders, NEW s \in Stocks
             PROVE  TradesUnderWay(t, s)' = TradesUnderWay(t, s)
  OBVIOUS
<1>1. TradesUnderWay(t, s)' = Picked(t, ExchangeOf(s), TradesOf(s))'
  BY DEF TradesUnderWay
<1>2. MsgsUnderWay(t, ExchangeOf(s))' = MsgsUnderWay(t, ExchangeOf(s))
  BY Constants
<1> QED  BY <1>1, <1>2, PickedIs DEF TradesUnderWay, Picked

LEMMA HooksAck ==
  ASSUME SysInv, HooksInv, NEW r \in Stocks, ackOrders(r)
  PROVE  HooksInv'
<1>1. PICK m \in MsgsAt(ExchangeOf(r)) :
        /\ m.kind = "ack" /\ PutMsg(ExchangeOf(r), m)
  <2> DEFINE m == Ack(r, orders[r][Len(orders[r])].id)
  <2>1. PutMsg(ExchangeOf(r), m) /\ orders[r] # <<>>
    BY Zenon DEF ackOrders
  <2>2. orders[r][Len(orders[r])].id \in OrderIds
    <3>1. orders[r] \in Seq(OrderRecords)
      BY DEF SysInv, StocksOK
    <3>2. Len(orders[r]) \in 1 .. Len(orders[r])
      BY <2>1, <3>1, EmptySeq, LenProperties
    <3>3. orders[r][Len(orders[r])] \in OrderRecords
      BY <3>1, <3>2, ElementOfSeq
    <3> QED  BY <3>3 DEF OrderRecords
  <2>3. m \in MsgsAt(ExchangeOf(r)) /\ m.kind = "ack"
    BY <2>2, Constants DEF Ack, MsgsAt, Messages, OrderIds
  <2> QED  BY <2>1, <2>3
<1>2. UNCHANGED <<trade_idxs_, hooked_trade, trades>> /\ UNCHANGED <<msg, msg_wire>>
  BY Zenon DEF ackOrders, receivers
<1>3. ASSUME NEW t \in Traders, NEW s \in Stocks
      PROVE  TradesUnderWay(t, s)' = TradesUnderWay(t, s)
  <2>1. m \notin TradesOf(s)
    BY <1>1 DEF TradesOf
  <2>2. Picked(t, ExchangeOf(s), TradesOf(s))' = Picked(t, ExchangeOf(s), TradesOf(s))
    BY <1>1, <1>2, <2>1, Constants, PickedPut
  <2>3. TradesUnderWay(t, s)' = Picked(t, ExchangeOf(s), TradesOf(s))'
    BY DEF TradesUnderWay
  <2> QED  BY <2>2, <2>3 DEF TradesUnderWay
<1> QED  BY <1>2, <1>3, HooksKept

LEMMA HooksAckReceived ==
  ASSUME SysInv, HooksInv, NEW u \in Traders, NEW y \in Exchanges, process_order_ack(u, y)
  PROVE  HooksInv'
<1>1. Receive(u, y) /\ Head(msg_wire[y][u]).kind = "ack" /\ UNCHANGED <<trade_idxs_, hooked_trade, trades>>
  BY DEF process_order_ack, Receive, stocks
<1>2. ASSUME NEW t \in Traders, NEW s \in Stocks
      PROVE  TradesUnderWay(t, s)' = TradesUnderWay(t, s)
  <2>1. Head(msg_wire[y][u]) \notin TradesOf(s)
    BY <1>1 DEF TradesOf
  <2>2. Picked(t, ExchangeOf(s), TradesOf(s))' = Picked(t, ExchangeOf(s), TradesOf(s))
    BY <1>1, <2>1, Constants, PickedReceive
  <2>3. TradesUnderWay(t, s)' = Picked(t, ExchangeOf(s), TradesOf(s))'
    BY DEF TradesUnderWay
  <2> QED  BY <2>2, <2>3 DEF TradesUnderWay
<1> QED  BY <1>1, <1>2, HooksKept

LEMMA HooksNext ==
  ASSUME SysInv, HooksInv, [Next]_vars
  PROVE  HooksInv'
<1>1. CASE \/ \E t \in Traders : Controller(t)
           \/ \E t \in Traders, x \in Exchanges : OrderSender(t, x)
           \/ \E x \in Exchanges : receiveOrder(x)
           \/ \E s \in Stocks : pollOrder(s) \/ matchOrder(s) \/ commitOrders(s)
           \/ UNCHANGED vars
  <2>1. UNCHANGED tradeSenders /\ UNCHANGED <<trade_idxs_, hooked_trade, trades>>
    <3>1. CASE \E t \in Traders : Controller(t)
      BY <3>1, Zenon DEF Controller, readLimit, takeOrder, nextStock, put_order, receivers, stocks
    <3>2. CASE \E t \in Traders, x \in Exchanges : OrderSender(t, x)
      BY <3>2, Zenon DEF OrderSender, pollOrderToSend, sendOrder, receivers, stocks
    <3>3. CASE \E x \in Exchanges : receiveOrder(x)
      BY <3>3, ZenonT(30) DEF receiveOrder, receivers, stocks
    <3>4. CASE \E s \in Stocks : pollOrder(s) \/ matchOrder(s) \/ commitOrders(s)
      BY <3>4 DEF pollOrder, matchOrder, commitOrders, receivers
    <3>5. CASE UNCHANGED vars
      BY <3>5 DEF vars, receivers, stocks
    <3> QED  BY <1>1, <3>1, <3>2, <3>3, <3>4, <3>5
  <2>2. \A t \in Traders, x \in Exchanges : MsgsUnderWay(t, x)' = MsgsUnderWay(t, x)
    BY <2>1, MsgsUnderWayKept
  <2> QED  BY <2>1, <2>2, TradesUnderWayKept, HooksKept
<1>2. CASE \E x \in Exchanges : TradeSender(x)
  <2>1. UNCHANGED <<trade_idxs_, hooked_trade, trades>>
    BY <1>2 DEF TradeSender, takeMsg, sendMsg, receivers, stocks
  <2>2. \A t \in Traders, x \in Exchanges : MsgsUnderWay(t, x)' = MsgsUnderWay(t, x)
    BY <1>2, MsgsTake, MsgsSend DEF TradeSender
  <2> QED  BY <2>1, <2>2, TradesUnderWayKept, HooksKept
<1>3. CASE \E t \in Traders : TradeReceiver(t)
  BY <1>3, HooksAckReceived, HooksTradeReceived DEF TradeReceiver
<1>4. CASE \E s \in Stocks : ackOrders(s) \/ produceTrade(s)
  BY <1>4, HooksAck, HooksProduce
<1> QED  BY <1>1, <1>2, <1>3, <1>4 DEF Next, Stock

(* Whatever the queues, the sockets and the data: a trader's number for a   *)
(* trade is its place among the trades of the stock, so a hook reads the    *)
(* volume of its own trade (process_trade_result(), "only update once").    *)
THEOREM HooksAreKnown == Spec => []HooksKnown
<1>1. Init => HooksInv
  BY HooksInit
<1>2. SysInv /\ HooksInv /\ [Next]_vars => HooksInv'
  BY HooksNext
<1>3. HooksInv => HooksKnown
  BY DEF HooksInv
<1> QED  BY <1>1, <1>2, <1>3, SystemInvariant, PTL DEF Spec

-----------------------------------------------------------------------------
(* What was decided about an order from its hooks. *)

Decided(s, o) ==
  /\ \A h \in HooksOf(s, o.id) : h.target_trade_idx <= Len(trades[h.target_stk_code])
  /\ \/ o.type = -1
     \/ ~(\/ <<s, o.id>> \in BadPrice
          \/ \E h \in HooksOf(s, o.id) : trades[h.target_stk_code][h.target_trade_idx] > h.arg)
  /\ \/ o.type # -1
     \/ <<s, o.id>> \in BadPrice
     \/ \E h \in HooksOf(s, o.id) : trades[h.target_stk_code][h.target_trade_idx] > h.arg

DecisionInv == \A t \in Traders, s \in Stocks : \A o \in Range(UnderWay(t, s)) : Decided(s, o)

(* Trades are only added. *)
Grown ==
  \A s \in Stocks : /\ Len(trades[s]) \in Nat /\ Len(trades'[s]) \in Nat /\ Len(trades[s]) <= Len(trades'[s])
                    /\ \A i \in 1 .. Len(trades[s]) : trades'[s][i] = trades[s][i]

LEMMA HookType ==
  ASSUME NEW s, NEW o, NEW h \in HooksOf(s, o)
  PROVE  /\ h.target_stk_code \in Stocks /\ h.target_trade_idx \in Nat \ {0}
         /\ <<h.target_stk_code, h.target_trade_idx>> \in Targets
<1>1. h \in Hooks
  BY DEF HooksOf
<1> QED  BY <1>1, DataAssumption, Zenon DEF Targets

LEMMA TradesGrow ==
  ASSUME SysInv, [Next]_vars
  PROVE  Grown
<1>1. \A s \in Stocks : trades[s] \in Seq(Nat) /\ Len(trades[s]) \in Nat
  BY DEF SysInv, StocksOK
<1>2. CASE trades' = trades
  BY <1>1, <1>2 DEF Grown
<1>3. CASE \E r \in Stocks : produceTrade(r)
  <2>1. PICK r \in Stocks : produceTrade(r)
    BY <1>3
  <2>2. PICK e \in Nat : trades' = [trades EXCEPT ![r] = Append(@, e)]
    <3>1. matching[r] # <<>> /\ matching[r][1] # <<>>
      BY <2>1 DEF produceTrade
    <3>2. Head(matching[r][1]) \in Nat
      BY <3>1, MatchingOK, HeadTailProperties
    <3> QED  BY <2>1, <3>2, Zenon DEF produceTrade
  <2>3. SUFFICES ASSUME NEW s \in Stocks
                 PROVE  /\ Len(trades'[s]) \in Nat /\ Len(trades[s]) <= Len(trades'[s])
                        /\ \A i \in 1 .. Len(trades[s]) : trades'[s][i] = trades[s][i]
    BY <1>1 DEF Grown
  <2>4. CASE s # r
    <3>1. trades'[s] = trades[s]
      BY <2>2, <2>4 DEF SysInv, StocksOK
    <3> QED  BY <1>1, <3>1
  <2>5. CASE s = r
    <3>1. trades'[s] = Append(trades[s], e)
      BY <2>2, <2>5 DEF SysInv, StocksOK
    <3>2. Len(trades'[s]) = Len(trades[s]) + 1 /\ \A i \in 1 .. Len(trades[s]) : trades'[s][i] = trades[s][i]
      BY <1>1, <3>1, AppendProperties
    <3> QED  BY <1>1, <3>2
  <2> QED  BY <2>4, <2>5
<1>4. CASE ~(\E r \in Stocks : produceTrade(r))
  <2>1. trades' = trades
    <3>1. CASE UNCHANGED vars
      BY <3>1 DEF vars, stocks
    <3>2. CASE \E t \in Traders : Controller(t)
      BY <3>2, Zenon DEF Controller, readLimit, takeOrder, nextStock, put_order, stocks
    <3>3. CASE \E t \in Traders : TradeReceiver(t)
      BY <3>3, Zenon DEF TradeReceiver, process_order_ack, process_trade_result, Receive, stocks
    <3>4. CASE \E t \in Traders, x \in Exchanges : OrderSender(t, x)
      BY <3>4, Zenon DEF OrderSender, pollOrderToSend, sendOrder, stocks
    <3>5. CASE \E x \in Exchanges : receiveOrder(x) \/ TradeSender(x)
      BY <3>5, ZenonT(30) DEF receiveOrder, TradeSender, takeMsg, sendMsg, stocks
    <3>6. CASE \E s \in Stocks : Stock(s)
      BY <1>4, <3>6 DEF Stock, pollOrder, ackOrders, matchOrder, commitOrders
    <3> QED  BY <3>1, <3>2, <3>3, <3>4, <3>5, <3>6 DEF Next
  <2> QED  BY <1>2, <2>1
<1> QED  BY <1>3, <1>4

LEMMA DecidedStays ==
  ASSUME Grown, NEW s \in Stocks, NEW o, Decided(s, o)
  PROVE  Decided(s, o)'
<1>1. ASSUME NEW h \in HooksOf(s, o.id)
      PROVE  /\ h.target_trade_idx <= Len(trades'[h.target_stk_code])
             /\ trades'[h.target_stk_code][h.target_trade_idx] = trades[h.target_stk_code][h.target_trade_idx]
  <2> DEFINE g == h.target_stk_code  n == h.target_trade_idx
  <2>1. g \in Stocks /\ n \in Nat \ {0} /\ n <= Len(trades[g])
    BY HookType, Zenon DEF Decided
  <2> HIDE DEF g, n
  <2>2. n <= Len(trades'[g]) /\ trades'[g][n] = trades[g][n]
    BY <2>1 DEF Grown
  <2> QED  BY <2>2 DEF g, n
<1> QED  BY <1>1, Zenon DEF Decided, HooksOf

(* An order that the controller has just taken. *)
Fresh(t, s, o) == check_order(t, s, o.id) /\ o.type = TypeOf(t, s, o.id)

LEMMA FreshDecided ==
  ASSUME SysInv, HooksInv, NEW t \in Traders, NEW s \in Stocks, NEW o, Fresh(t, s, o)
  PROVE  Decided(s, o)
<1>1. ASSUME NEW h \in HooksOf(s, o.id)
      PROVE  /\ h.target_trade_idx <= Len(trades[h.target_stk_code])
             /\ HookedVolume(t, h) = trades[h.target_stk_code][h.target_trade_idx]
  <2> DEFINE a == h.target_stk_code  n == h.target_trade_idx  g == <<a, n>>
  <2>1. a \in Stocks /\ n \in Nat \ {0} /\ g \in Targets
    BY HookType
  <2>2. hooked_trade[t][g] # -1 /\ HookedVolume(t, h) = hooked_trade[t][g]
    BY DEF Fresh, check_order, HookedVolume
  <2> HIDE DEF a, n
  <2>3. hooked_trade[t][g] = IF n < trade_idxs_[t][a] THEN trades[a][n] ELSE -1
    <3>1. g[1] = a /\ g[2] = n
      OBVIOUS
    <3> HIDE DEF g
    <3> QED  BY <2>1, <3>1 DEF HooksInv, HooksKnown
  <2> HIDE DEF g
  <2>4. n < trade_idxs_[t][a] /\ hooked_trade[t][g] = trades[a][n]
    BY <2>2, <2>3, Zenon
  <2>5. /\ trade_idxs_[t][a] \in Nat \ {0} /\ Len(trades[a]) \in Nat
        /\ trade_idxs_[t][a] <= Len(trades[a]) + 1
    BY <2>1, Passed, ZenonT(30) DEF HooksInv
  <2>6. n <= Len(trades[a])
    <3>1. \A i, j, k \in Nat : i < j /\ j <= k + 1 => i <= k
      OBVIOUS
    <3>2. n \in Nat /\ trade_idxs_[t][a] \in Nat /\ Len(trades[a]) \in Nat
      BY <2>1, <2>5
    <3> QED  BY <2>4, <2>5, <3>1, <3>2, Zenon
  <2> QED  BY <2>2, <2>4, <2>6 DEF a, n
<1>2. o.type = IF (\E h \in HooksOf(s, o.id) : HookedVolume(t, h) > h.arg) \/ <<s, o.id>> \in BadPrice THEN -1 ELSE 0
  BY DEF Fresh, TypeOf
<1>3. (\E h \in HooksOf(s, o.id) : HookedVolume(t, h) > h.arg)
        <=> \E h \in HooksOf(s, o.id) : trades[h.target_stk_code][h.target_trade_idx] > h.arg
  BY <1>1, Zenon
<1>4. -1 # 0
  OBVIOUS
<1> QED  BY <1>1, <1>2, <1>3, <1>4, ZenonT(30) DEF Decided

LEMMA RangeAppend ==
  ASSUME NEW T, NEW q \in Seq(T), NEW e \in T, NEW o \in Range(Append(q, e))
  PROVE  o \in Range(q) \/ o = e
<1> DEFINE a == Append(q, e)
<1>1. a \in Seq(T) /\ Len(a) = Len(q) + 1 /\ a[Len(q) + 1] = e /\ \A i \in 1 .. Len(q) : a[i] = q[i]
  BY AppendProperties
<1>2. DOMAIN a = 1 .. Len(a) /\ DOMAIN q = 1 .. Len(q) /\ Len(q) \in Nat
  BY <1>1, LenProperties
<1>3. o \in Range(a)
  OBVIOUS
<1> HIDE DEF a
<1>4. PICK i \in 1 .. Len(q) + 1 : o = a[i]
  BY <1>1, <1>2, <1>3 DEF Range
<1>5. CASE i = Len(q) + 1
  BY <1>1, <1>4, <1>5
<1>6. CASE i # Len(q) + 1
  <2>1. i \in 1 .. Len(q)
    BY <1>2, <1>6
  <2> QED  BY <1>1, <1>2, <1>4, <2>1 DEF Range
<1> QED  BY <1>5, <1>6

LEMMA RangeTail ==
  ASSUME NEW T, NEW q \in Seq(T), q # <<>>
  PROVE  Range(Tail(q)) \subseteq Range(q)
<1> DEFINE a == Tail(q)
<1>1. a \in Seq(T) /\ Len(a) = Len(q) - 1 /\ \A i \in 1 .. Len(q) - 1 : a[i] = q[i + 1]
  BY HeadTailProperties
<1>2. DOMAIN a = 1 .. Len(a) /\ DOMAIN q = 1 .. Len(q) /\ Len(q) \in Nat
  BY <1>1, LenProperties
<1> HIDE DEF a
<1>3. \A i \in 1 .. Len(q) - 1 : i + 1 \in 1 .. Len(q)
  BY <1>2
<1>4. Range(a) \subseteq Range(q)
  BY <1>1, <1>2, <1>3 DEF Range
<1> QED  BY <1>4 DEF a

LEMMA UnderWayMoves ==
  ASSUME SysInv, [Next]_vars, NEW t \in Traders, NEW s \in Stocks, NEW o \in Range(UnderWay(t, s)')
  PROVE  o \in Range(UnderWay(t, s)) \/ Fresh(t, s, o)
<1>1. UnderWay(t, s) \in Seq(OrderRecords)
  BY UnderWayType
<1>2. ASSUME UnderWay(t, s)' = UnderWay(t, s)
      PROVE  o \in Range(UnderWay(t, s))
  BY <1>2
<1>3. CASE \E u \in Traders : takeOrder(u)
  <2>1. PICK u \in Traders : takeOrder(u)
    BY <1>3
  <2>2. PICK r \in Stocks :
          /\ HasOrder(u, r) /\ check_order(u, r, NextOrder(u, r))
          /\ order_to_send' = [order_to_send EXCEPT ![u] =
               Append(@, [stk |-> r, id |-> NextOrder(u, r), type |-> TypeOf(u, r, NextOrder(u, r))])]
          /\ UNCHANGED senders
    BY <2>1, Zenon DEF takeOrder
  <2>3. PICK e \in OrdersOf(r) : Gathers(u, e) /\ Fresh(u, r, e)
    <3> DEFINE e == [stk |-> r, id |-> NextOrder(u, r), type |-> TypeOf(u, r, NextOrder(u, r))]
    <3>1. NextOrder(u, r) \in OrderIds
      BY <2>2, NextOrderOK
    <3>2. e \in OrdersOf(r)
      BY <3>1 DEF OrdersOf, OrderRecords, TypeOf
    <3>3. Gathers(u, e)
      BY <2>2 DEF Gathers
    <3>4. Fresh(u, r, e)
      BY <2>2 DEF Fresh
    <3> QED  BY <3>2, <3>3, <3>4
  <2>4. UnderWay(t, s)' = IF t = u /\ s = r THEN Append(UnderWay(t, s), e) ELSE UnderWay(t, s)
    BY <2>3, UnderWayTake
  <2>5. CASE t = u /\ s = r
    <3>1. o \in Range(Append(UnderWay(t, s), e)) /\ e \in OrderRecords
      BY <2>4, <2>5 DEF OrdersOf
    <3>2. o \in Range(UnderWay(t, s)) \/ o = e
      BY <1>1, <3>1, RangeAppend
    <3> QED  BY <2>3, <2>5, <3>2
  <2>6. CASE ~(t = u /\ s = r)
    BY <1>2, <2>4, <2>6
  <2> QED  BY <2>5, <2>6
<1>4. CASE \E x \in Exchanges : receiveOrder(x)
  <2>1. PICK x \in Exchanges, u \in Traders :
          /\ order_wire[u][x] # <<>>
          /\ order_wire' = [order_wire EXCEPT ![u][x] = Tail(@)]
          /\ UNCHANGED <<order_queue_, order_msg, order_to_send>>
    BY <1>4, Zenon DEF receiveOrder, controllers
  <2>2. \/ UnderWay(t, s) # <<>> /\ UnderWay(t, s)' = Tail(UnderWay(t, s))
        \/ UnderWay(t, s)' = UnderWay(t, s)
    BY <2>1, UnderWayReceive, ZenonT(30)
  <2>3. CASE UnderWay(t, s) # <<>> /\ UnderWay(t, s)' = Tail(UnderWay(t, s))
    BY <1>1, <2>3, RangeTail
  <2> QED  BY <1>2, <2>2, <2>3
<1>5. CASE \E u \in Traders : put_order(u)
  BY <1>2, <1>5, UnderWayPut
<1>6. CASE \E u \in Traders, x \in Exchanges : OrderSender(u, x)
  BY <1>2, <1>6, UnderWayPoll, UnderWaySend DEF OrderSender
<1>7. CASE \/ \E u \in Traders : readLimit(u) \/ nextStock(u) \/ TradeReceiver(u)
           \/ \E x \in Exchanges : TradeSender(x)
           \/ \E r \in Stocks : Stock(r)
           \/ UNCHANGED vars
  <2>1. UNCHANGED <<senders, order_to_send>>
    <3>1. CASE \E u \in Traders : readLimit(u) \/ nextStock(u)
      BY <3>1 DEF readLimit, nextStock
    <3>2. CASE \E u \in Traders : TradeReceiver(u)
      BY <3>2, ZenonT(30) DEF TradeReceiver, process_order_ack, process_trade_result, Receive, controllers
    <3>3. CASE \E x \in Exchanges : TradeSender(x)
      BY <3>3 DEF TradeSender, takeMsg, sendMsg, controllers
    <3>4. CASE \E r \in Stocks : Stock(r)
      BY <3>4, Zenon DEF Stock, pollOrder, ackOrders, matchOrder, produceTrade, commitOrders, controllers
    <3>5. CASE UNCHANGED vars
      BY <3>5 DEF vars, controllers
    <3> QED  BY <1>7, <3>1, <3>2, <3>3, <3>4, <3>5
  <2> QED  BY <1>2, <2>1, UnderWayKept
<1> QED  BY <1>3, <1>4, <1>5, <1>6, <1>7 DEF Next, Controller

LEMMA DecisionInit ==
  ASSUME Init
  PROVE  DecisionInv
<1>1. \A t \in Traders, s \in Stocks : UnderWay(t, s) = <<>>
  BY EmptyPipes
<1>2. Range(<<>>) = {}
  BY DEF Range
<1> QED  BY <1>1, <1>2 DEF DecisionInv

LEMMA DecisionNext ==
  ASSUME SysInv, HooksInv, DecisionInv, [Next]_vars
  PROVE  DecisionInv'
<1> SUFFICES ASSUME NEW t \in Traders, NEW s \in Stocks, NEW o \in Range(UnderWay(t, s)')
             PROVE  Decided(s, o)'
  BY Zenon DEF DecisionInv, Range
<1>1. Decided(s, o)
  BY UnderWayMoves, FreshDecided DEF DecisionInv
<1>2. Grown
  BY TradesGrow
<1> QED  BY <1>1, <1>2, DecidedStays

(* Whatever the data and the hooks: when an order leaves the controller,    *)
(* its hooked trades have happened, and what the trader knows of them       *)
(* decides the order as the trades themselves do.  The decision is still    *)
(* right when the exchange receives the order, since trades are only added. *)
THEOREM DecisionsAreRight == Spec => []HookDecision
<1>1. Init => HooksInv /\ DecisionInv
  BY HooksInit, DecisionInit
<1>2. SysInv /\ HooksInv /\ DecisionInv /\ [Next]_vars => HooksInv' /\ DecisionInv'
  BY HooksNext, DecisionNext
<1>3. DecisionInv => HookDecision
  BY Zenon DEF DecisionInv, Decided, HookDecision
<1> QED  BY <1>1, <1>2, <1>3, SystemInvariant, PTL DEF Spec
=============================================================================
