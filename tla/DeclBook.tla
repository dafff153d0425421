------------------------------ MODULE DeclBook ------------------------------
(***************************************************************************)
(* exchange/record.hpp and exchange/stock_decl_book.hpp: the declaration   *)
(* book of a stock.  A book is a function from the side, Buy or Sell, to   *)
(* the set of records on that side; buy_decls and sell_decls are heaps of  *)
(* which the code only ever looks at the top.  A side is named by the      *)
(* Order::direction that inserts into it, so that the counterparty of      *)
(* direction d is -d.                                                      *)
(***************************************************************************)
EXTENDS Integers, FiniteSetsExt

Buy == 1
Sell == -1
Sides == {Buy, Sell}

Records == [order_id : Nat, price : Nat, volume : Nat]

(* a is preferred to b, a price no worse and, at equal prices, an older     *)
(* order: b < a in the order of the heap.                                   *)
Ahead(side, a, b) ==
  \/ a.price = b.price /\ a.order_id < b.order_id
  \/ side = Buy /\ a.price > b.price
  \/ side = Sell /\ a.price < b.price

(* r is the top of the heap: queryBuyFirst, querySellFirst. *)
IsFirst(side, records, r) ==
  /\ r \in records
  /\ \A q \in records \ {r} : Ahead(side, r, q)

(* totalBuyVolume, totalSellVolume *)
TotalVolume(records) == MapThenSumSet(LAMBDA r : r.volume, records)

(* insertBuyDecl, insertSellDecl *)
InsertDecl(book, side, r) == [book EXCEPT ![side] = @ \cup {r}]

(* removeBuyFirst, removeSellFirst *)
RemoveDecl(book, side, r) == [book EXCEPT ![side] = @ \ {r}]

(* Mutant of ReduceDecl: the record keeps its volume. *)
ReduceDeclKeep(book, side, r, v) == book

(* A resting record loses part of its volume in place: sr->volume -= v. *)
ReduceDecl(book, side, r, v) ==
  [book EXCEPT ![side] = (@ \ {r}) \cup {[r EXCEPT !.volume = @ - v]}]
=============================================================================
