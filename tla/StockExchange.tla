--------------------------- MODULE StockExchange ---------------------------
(***************************************************************************)
(* exchange/stock_exchange.cpp: the thread that matches the orders of one  *)
(* stock.  Orders may arrive in any order of their ids; they wait in       *)
(* not_ready_orders and are committed in id order.  Committing an order    *)
(* runs the handler of its type, one iteration of whose matching loop is   *)
(* one step here: between two of them the thread hands a trade to the      *)
(* message queue and may be suspended.  The handlers treat the two         *)
(* directions alike with the sides swapped, so each is written once, for   *)
(* direction d and its counterparty -d.                                    *)
(***************************************************************************)
EXTENDS DeclBook, Sequences

CONSTANTS
  Orders,     \* the orders that may arrive
  upper_limit,  \* the highest price a limit order may have (TraderController::price_limits)
  MaxLevels,  \* price levels a type 3 order may match (5 in the code)
  Reorder,    \* bound: an order arrives at most this many ids after the last commit
  NoOrder     \* no order is being handled

ASSUME OrdersAssumption ==
  /\ Orders \subseteq [order_id : Nat \ {0}, direction : Int, type : Int,
                       price : Nat, volume : Nat \ {0}]
  /\ upper_limit \in Nat
  /\ MaxLevels \in Nat \ {0}
  /\ Reorder \in Nat \ {0}
  /\ \A o \in Orders : o.type = 0 => o.price \in 1 .. upper_limit
  /\ NoOrder \notin Orders

VARIABLES
  decl_book,             \* the declaration book
  not_ready_orders,      \* a heap, smallest order_id on top
  last_commit_order_id,
  order,                 \* the order whose handler is running, or NoOrder
  left_volume,           \* the handler's local variables ...
  t_price,               \* ... of type 1
  level_count, previous_price,  \* ... of type 3
  trade_list,            \* the trades produced so far
  status,                \* what the last handler returned
  ret,                   \* what the last commitOrder returned
  received,              \* history: every order that arrived
  committed              \* history: the book and the trades when the last handler returned

locals == <<left_volume, t_price, level_count, previous_price>>
vars == <<decl_book, not_ready_orders, last_commit_order_id, order, locals,
          trade_list, status, ret, received, committed>>

d == order.direction
Own == decl_book[d]
Counter == decl_book[-d]

Init ==
  /\ decl_book = [s \in Sides |-> {}]
  /\ not_ready_orders = {}
  /\ last_commit_order_id = 0
  /\ order = NoOrder
  /\ left_volume = 0 /\ t_price = 0 /\ level_count = 0 /\ previous_price = 0
  /\ trade_list = <<>>
  /\ status = 0 /\ ret = 0
  /\ received = {}
  /\ committed = [book |-> decl_book, trades |-> trade_list]

-----------------------------------------------------------------------------
(* Mutants of IsNextOrder: gaps are not waited for; the comparison of the   *)
(* heap is reversed.                                                        *)
IsNextOrderAny(o) ==
  /\ o \in not_ready_orders
  /\ \A p \in not_ready_orders : o.order_id <= p.order_id

IsNextOrderMax(o) ==
  /\ o \in not_ready_orders
  /\ o.order_id = last_commit_order_id + 1
  /\ \A p \in not_ready_orders : o.order_id >= p.order_id

(* The top of not_ready_orders, when it is the order to commit next. *)
IsNextOrder(o) ==
  /\ o \in not_ready_orders
  /\ o.order_id = last_commit_order_id + 1
  /\ \A p \in not_ready_orders : o.order_id <= p.order_id

(* receiveOrder() puts the order into the heap and returns to its caller    *)
(* only when the top of the heap cannot be committed.                       *)
receiveOrder(o) ==
  /\ order = NoOrder
  /\ ~\E p \in not_ready_orders : IsNextOrder(p)
  /\ \A p \in received : p.order_id # o.order_id
  /\ o.order_id <= last_commit_order_id + Reorder
  /\ not_ready_orders' = not_ready_orders \cup {o}
  /\ received' = received \cup {o}
  /\ UNCHANGED <<decl_book, last_commit_order_id, order, locals, trade_list,
                 status, ret, committed>>

(* commitOrder() dispatches the next order to the handler of its type. *)
commitOrder(o) ==
  /\ order = NoOrder
  /\ IsNextOrder(o)
  /\ order' = o
  /\ left_volume' = o.volume
  /\ t_price' = 0
  /\ level_count' = 0
  /\ previous_price' = 0
  /\ UNCHANGED <<decl_book, not_ready_orders, last_commit_order_id, trade_list,
                 status, ret, received, committed>>

(* The handler returns s and commitOrder returns r; receiveOrder() then     *)
(* removes the order from the heap and counts it as committed, whatever r.  *)
(* The handler's local variables cease to exist.                            *)
Return(s, r) ==
  /\ status' = s
  /\ ret' = r
  /\ order' = NoOrder
  /\ not_ready_orders' = not_ready_orders \ {order}
  /\ last_commit_order_id' = last_commit_order_id + 1
  /\ left_volume' = 0 /\ t_price' = 0 /\ level_count' = 0 /\ previous_price' = 0
  /\ committed' = [book |-> decl_book', trades |-> trade_list]
  /\ UNCHANGED <<trade_list, received>>

(* The remainder, if any, goes into the book at price p. *)
InsertRemainder(p) ==
  decl_book' =
    IF left_volume # 0
    THEN InsertDecl(decl_book, d, [order_id |-> order.order_id, price |-> p, volume |-> left_volume])
    ELSE decl_book

(* One round of a matching loop: trade with the first record r of the       *)
(* counterparty at price p, reducing or removing the record.                *)
Match(r, p) ==
  LET v == IF left_volume < r.volume THEN left_volume ELSE r.volume
      bid == IF d = Buy THEN order ELSE r
      ask == IF d = Buy THEN r ELSE order
  IN  /\ trade_list' = Append(trade_list, [bid_id |-> bid.order_id, ask_id |-> ask.order_id,
                                           price |-> p, volume |-> v])
      /\ decl_book' = IF left_volume < r.volume
                      THEN ReduceDecl(decl_book, -d, r, v)
                      ELSE RemoveDecl(decl_book, -d, r)
      /\ left_volume' = left_volume - v
      /\ UNCHANGED <<not_ready_orders, last_commit_order_id, order, status, ret,
                     received, committed>>

Handling(type) == order # NoOrder /\ order.type = type /\ d \in Sides

-----------------------------------------------------------------------------
(* Mutant of Acceptable: equal prices do not match. *)
AcceptableStrict(r) == IF d = Buy THEN r.price < order.price ELSE r.price > order.price

(* Type 0: match while the first record's price is acceptable, then rest. *)
Acceptable(r) == IF d = Buy THEN r.price <= order.price ELSE r.price >= order.price

handleLimitOrder ==
  /\ Handling(0)
  /\ LET MayMatch(r) == IsFirst(-d, Counter, r) /\ left_volume # 0 /\ Acceptable(r)
     IN  \/ /\ \E r \in Counter : MayMatch(r) /\ Match(r, r.price)
            /\ UNCHANGED <<t_price, level_count, previous_price>>
         \/ /\ ~\E r \in Counter : MayMatch(r)
            /\ InsertRemainder(order.price)
            /\ Return(0, 0)

(* Type 1: take the counterparty's best price as the limit, or be rejected  *)
(* when there is none; match at that price only, then rest at it.           *)
handleCounterpartyBest ==
  /\ Handling(1)
  /\ \/ /\ t_price = 0
        /\ Counter = {}
        /\ UNCHANGED decl_book
        /\ Return(-1, 0)
     \/ /\ t_price = 0
        /\ \E r \in Counter : IsFirst(-d, Counter, r) /\ t_price' = r.price
        /\ UNCHANGED <<decl_book, not_ready_orders, last_commit_order_id, order,
                       left_volume, level_count, previous_price, trade_list,
                       status, ret, received, committed>>
     \/ /\ t_price # 0
        /\ left_volume # 0
        /\ \E r \in Counter : /\ IsFirst(-d, Counter, r)
                              /\ r.price = t_price
                              /\ Match(r, t_price)
        /\ UNCHANGED <<t_price, level_count, previous_price>>
     \/ /\ t_price # 0
        /\ left_volume = 0 \/ ~\E r \in Counter : IsFirst(-d, Counter, r) /\ r.price = t_price
        /\ InsertRemainder(t_price)
        /\ Return(0, 0)

(* Type 2: rest at the own side's best price, or be rejected. *)
handleOurBest ==
  /\ Handling(2)
  /\ \/ /\ Own = {}
        /\ UNCHANGED decl_book
        /\ Return(-1, 0)
     \/ /\ \E r \in Own : IsFirst(d, Own, r) /\ InsertRemainder(r.price)
        /\ Return(0, 0)

(* The level of r in a type 3 order, and whether it is still one to match. *)
Level(r) == IF r.price # previous_price THEN level_count + 1 ELSE level_count

(* Mutants of WithinLevels: the level is counted after the check; one       *)
(* level is missing.                                                        *)
WithinLevelsLate(r) == level_count <= MaxLevels
WithinLevelsShort(r) == Level(r) < MaxLevels

WithinLevels(r) == Level(r) <= MaxLevels

(* Type 3: match up to MaxLevels different prices, cancel the remainder.    *)
(* Only the buy branch reports what it cancelled.                           *)
handleFiveLevelOtherCancel ==
  /\ Handling(3)
  /\ LET MayMatch(r) == IsFirst(-d, Counter, r) /\ left_volume # 0 /\ WithinLevels(r)
     IN  \/ \E r \in Counter : /\ MayMatch(r)
                               /\ level_count' = Level(r)
                               /\ previous_price' = r.price
                               /\ Match(r, r.price)
                               /\ UNCHANGED t_price
         \/ /\ ~\E r \in Counter : MayMatch(r)
            /\ UNCHANGED decl_book
            /\ Return(IF d = Buy THEN left_volume ELSE 0, 0)

(* Type 4: match all there is, cancel the remainder. *)
handleImmediateOtherCancel ==
  /\ Handling(4)
  /\ \/ /\ left_volume # 0
        /\ \E r \in Counter : IsFirst(-d, Counter, r) /\ Match(r, r.price)
        /\ UNCHANGED <<t_price, level_count, previous_price>>
     \/ /\ left_volume = 0 \/ Counter = {}
        /\ UNCHANGED decl_book
        /\ Return(left_volume, 0)

(* Mutant of Uncovered: the total of the wrong side. *)
UncoveredOwn == left_volume = order.volume /\ left_volume > TotalVolume(Own)

Uncovered == left_volume = order.volume /\ left_volume > TotalVolume(Counter)

(* Type 5: be rejected before the first trade when the counterparty's       *)
(* volume does not suffice, else match.  With a remainder and no            *)
(* counterparty the assert of the loop fails: no step is possible.          *)
handleWholeOrCancel ==
  /\ Handling(5)
  /\ \/ /\ Uncovered
        /\ UNCHANGED decl_book
        /\ Return(-1, 0)
     \/ /\ ~Uncovered
        /\ left_volume # 0
        /\ \E r \in Counter : IsFirst(-d, Counter, r) /\ Match(r, r.price)
        /\ UNCHANGED <<t_price, level_count, previous_price>>
     \/ /\ left_volume = 0
        /\ UNCHANGED decl_book
        /\ Return(0, 0)

(* An order cancelled by its trader (type -1), of an unknown type, or of a  *)
(* strange direction has no effect on the book.                             *)
dropOrder ==
  /\ order # NoOrder
  /\ order.type \notin 0 .. 5 \/ d \notin Sides
  /\ UNCHANGED decl_book
  /\ LET s == IF order.type \in -1 .. 5 THEN 0 ELSE -1 IN Return(s, s)

Thread ==
  \/ \E o \in not_ready_orders : commitOrder(o)
  \/ handleLimitOrder
  \/ handleCounterpartyBest
  \/ handleOurBest
  \/ handleFiveLevelOtherCancel
  \/ handleImmediateOtherCancel
  \/ handleWholeOrCancel
  \/ dropOrder

Next == (\E o \in Orders : receiveOrder(o)) \/ Thread

Spec == Init /\ [][Next]_vars

(* The thread keeps being scheduled; no order is bound to arrive. *)
FairSpec == Spec /\ WF_vars(Thread)

-----------------------------------------------------------------------------
Trades == [bid_id : Nat, ask_id : Nat, price : Nat, volume : Nat]

TypeOK ==
  /\ decl_book \in [Sides -> SUBSET Records]
  /\ not_ready_orders \subseteq Orders /\ received \subseteq Orders
  /\ last_commit_order_id \in Nat
  /\ order \in Orders \cup {NoOrder}
  /\ left_volume \in Nat /\ t_price \in Nat
  /\ level_count \in 0 .. MaxLevels /\ previous_price \in Nat
  /\ trade_list \in Seq(Trades)
  /\ status \in Int /\ ret \in {0, -1}
  /\ committed \in [book : [Sides -> SUBSET Records], trades : Seq(Trades)]

(* The first record of the buy side is strictly below that of the sell      *)
(* side whenever neither is empty, also while an order is being matched     *)
(* (stock_decl_book.hpp:15): no handler inserts a remainder that could      *)
(* still have been traded.                                                  *)
BookUncrossed ==
  \A b \in decl_book[Buy], s \in decl_book[Sell] : b.price < s.price

Traded(id) ==
  MapThenSumSet(LAMBDA i : trade_list[i].volume,
                {i \in DOMAIN trade_list : id \in {trade_list[i].bid_id, trade_list[i].ask_id}})
Resting(id) ==
  TotalVolume({r \in decl_book[Buy] \cup decl_book[Sell] : r.order_id = id})

(* No volume is lost or made up, over all the trades that an order takes    *)
(* part in, first as the arriving order and later as a resting record.      *)
(* What was traded and what rests make up the whole order, unless its type  *)
(* allows a remainder to be cancelled (3, 4), or all of it (1, 2, 5).       *)
VolumeConserved ==
  \A o \in received :
    LET sum == Traded(o.order_id) + Resting(o.order_id)
    IN  CASE o = order -> sum = o.volume - left_volume /\ Resting(o.order_id) = 0
          [] o \in not_ready_orders \ {order} -> sum = 0
          [] OTHER -> /\ o.direction \notin Sides \/ o.type \notin 0 .. 5 => sum = 0
                      /\ o.direction \in Sides /\ o.type = 0 => sum = o.volume
                      /\ o.type \in {1, 2, 5} => sum \in {0, o.volume}
                      /\ o.type \in {3, 4} => sum <= o.volume
                      /\ o.type \in {3, 4, 5} => Resting(o.order_id) = 0

(* Once a type 5 order has begun to trade, the counterparty keeps enough    *)
(* volume to complete it: the asserts at stock_exchange.cpp:547 and 583     *)
(* hold, and the order is filled whole.                                     *)
FokCovered ==
  Handling(5) /\ left_volume < order.volume => left_volume <= TotalVolume(Counter)

Taker(t) == IF t.bid_id < t.ask_id THEN t.ask_id ELSE t.bid_id

(* Trades come out in the order of the ids of the orders that caused them,  *)
(* the younger of the two partners, in whatever order the orders arrived:   *)
(* all traders number a stock's trades alike.                               *)
TradesInIdOrder ==
  \A i, j \in DOMAIN trade_list :
    i < j => Taker(trade_list[i]) <= Taker(trade_list[j])

(* The parts of the inductive invariant behind BookUncrossed and            *)
(* TradesInIdOrder.  Records come from committed orders, hold volume, and   *)
(* never carry a price above the limit.                                     *)
RecordsSound ==
  \A s \in Sides : \A r \in decl_book[s] :
    /\ r.price \in 1 .. upper_limit
    /\ r.volume > 0
    /\ r.order_id <= last_commit_order_id

IdsUnique ==
  \A s \in Sides : \A r, q \in decl_book[s] : r.order_id = q.order_id => r = q

CurrentIsNext == order # NoOrder => order.order_id = last_commit_order_id + 1

(* The price a type 1 order took as its limit stays the best of the         *)
(* counterparty, and out of reach of the own side.                          *)
LimitIsBest ==
  Handling(1) /\ t_price # 0 =>
    /\ t_price <= upper_limit
    /\ \A r \in Counter : IF d = Buy THEN t_price <= r.price ELSE r.price <= t_price
    /\ \A q \in Own : IF d = Buy THEN q.price < t_price ELSE t_price < q.price

TakersCommitted ==
  \A i \in DOMAIN trade_list :
    Taker(trade_list[i]) <= last_commit_order_id + IF order = NoOrder THEN 0 ELSE 1

BookInv ==
  /\ TypeOK
  /\ BookUncrossed
  /\ RecordsSound
  /\ IdsUnique
  /\ CurrentIsNext
  /\ LimitIsBest
  /\ TradesInIdOrder
  /\ TakersCommitted

(* An order whose predecessors have all arrived is committed: the handlers  *)
(* terminate and the loop of receiveOrder() reaches it, also when it        *)
(* arrived long before its predecessors.                                    *)
ReadyOrdersCommit ==
  \A n \in {o.order_id : o \in Orders} :
    (1 .. n \subseteq {o.order_id : o \in received}) ~> (last_commit_order_id >= n)
=============================================================================
