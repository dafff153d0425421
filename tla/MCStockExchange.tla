-------------------------- MODULE MCStockExchange --------------------------
(* Two limit orders open the book; the two that follow are of every type,   *)
(* among them a cancelled one, an unknown type and a strange direction.     *)
(* The last is larger than a resting record, so that it takes from several. *)
EXTENDS StockRefinement

Limit == [direction : Sides, type : {0}, price : 1 .. 3, volume : 1 .. 2]
Market == [direction : Sides, type : 1 .. 5, price : {0}, volume : {1, 3}]
Dropped == [direction : {Buy}, type : {-1, 6}, price : {0}, volume : {1}]
           \cup [direction : {0}, type : {0}, price : {1}, volume : {1}]

WithId(id, payloads) ==
  {[order_id |-> id, direction |-> p.direction, type |-> p.type,
    price |-> p.price, volume |-> p.volume] : p \in payloads}

MCOrders == UNION {WithId(1, {p \in Limit : p.volume = 2}), WithId(2, Limit),
                   WithId(3, Limit \cup Market),
                   WithId(4, {p \in Market : p.volume = 3} \cup Dropped)}
=============================================================================
