--------------------------- MODULE MatchingRules ---------------------------
(***************************************************************************)
(* What exchange/stock_exchange.cpp promises: the orders of a stock take   *)
(* effect one at a time, in the order of their ids and whatever the order  *)
(* of their arrival, each filled against the counterparty records its type *)
(* entitles it to by price, then by age.  The rules are stated without any *)
(* loop, by what the older claims on the volume of an order leave.         *)
(***************************************************************************)
EXTENDS DeclBook, SequencesExt

CONSTANTS Orders, MaxLevels

VARIABLES
  book,     \* the declaration book
  trades,   \* the trades made
  arrived,  \* the orders that arrived and have not taken effect
  last      \* the id of the last order that took effect

vars == <<book, trades, arrived, last>>

Init ==
  /\ book = [s \in Sides |-> {}]
  /\ trades = <<>>
  /\ arrived = {}
  /\ last = 0

Best(side) == CHOOSE r \in book[side] : IsFirst(side, book[side], r)

(* The prices of the counterparty no worse than that of r. *)
LevelsUpTo(side, r) == {q.price : q \in {q \in book[side] : q = r \/ Ahead(side, q, r)}}

(* The counterparty records that o may trade with. *)
Eligible(o) ==
  LET side == -o.direction
      counter == book[side]
  IN  CASE o.type = 0 -> {r \in counter : IF side = Sell THEN r.price <= o.price ELSE r.price >= o.price}
        [] o.type = 1 -> {r \in counter : r.price = Best(side).price}
        [] o.type = 3 -> {r \in counter : Cardinality(LevelsUpTo(side, r)) <= MaxLevels}
        [] o.type = 4 -> counter
        [] o.type = 5 -> IF o.volume <= TotalVolume(counter) THEN counter ELSE {}
        [] OTHER -> {}

(* What o takes of the record r: all that the records ahead of r leave, up  *)
(* to the volume of r.                                                      *)
Fill(o, r) ==
  LET ahead == {q \in Eligible(o) : Ahead(-o.direction, q, r)}
      left == o.volume - TotalVolume(ahead)
  IN  IF r \notin Eligible(o) \/ left <= 0 THEN 0 ELSE Min({left, r.volume})

(* The price at which a remainder of o rests; none if it is cancelled. *)
RestPrices(o) ==
  CASE o.type = 0 -> {o.price}
    [] o.type = 1 /\ book[-o.direction] # {} -> {Best(-o.direction).price}
    [] o.type = 2 /\ book[o.direction] # {} -> {Best(o.direction).price}
    [] OTHER -> {}

TradeOf(o, r) ==
  [bid_id |-> IF o.direction = Buy THEN o.order_id ELSE r.order_id,
   ask_id |-> IF o.direction = Buy THEN r.order_id ELSE o.order_id,
   price |-> r.price, volume |-> Fill(o, r)]

(* o takes effect: its trades, best record first, what they leave of the    *)
(* counterparty, and its remainder.                                         *)
TakeEffect(o) ==
  LET side == -o.direction
      filled == SetToSortSeq({r \in book[side] : Fill(o, r) > 0}, LAMBDA a, b : Ahead(side, a, b))
      left == o.volume - MapThenSumSet(LAMBDA r : Fill(o, r), book[side])
  IN  /\ trades' = trades \o [i \in 1 .. Len(filled) |-> TradeOf(o, filled[i])]
      /\ book' = [s \in Sides |->
           IF s = side
           THEN {[r EXCEPT !.volume = @ - Fill(o, r)] : r \in {r \in book[s] : Fill(o, r) < r.volume}}
           ELSE book[s] \cup {[order_id |-> o.order_id, price |-> p, volume |-> left] :
                                p \in {p \in RestPrices(o) : left > 0}}]

Arrive(o) ==
  /\ o.order_id > last
  /\ \A p \in arrived : p.order_id # o.order_id
  /\ arrived' = arrived \cup {o}
  /\ UNCHANGED <<book, trades, last>>

Commit(o) ==
  /\ o \in arrived
  /\ o.order_id = last + 1
  /\ IF o.direction \in Sides THEN TakeEffect(o) ELSE UNCHANGED <<book, trades>>
  /\ arrived' = arrived \ {o}
  /\ last' = o.order_id

Next == \E o \in Orders : Arrive(o) \/ Commit(o)

Spec == Init /\ [][Next]_vars
=============================================================================
