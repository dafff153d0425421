--------------------------- MODULE MCOrderLoader ----------------------------
(* Two stocks of eight orders, some with equal ids; the ids run against the *)
(* order of the cells.  Three parts leave two orders over.  A dump that is  *)
(* cut short may lack the last order or all orders in one file, in two or   *)
(* in all.                                                                  *)
EXTENDS OrderLoader

MCData == [c \in Cells |-> ((c * 7) % 11) + 1]

Late == {{}, {<<0, "price">>}, {<<1, "order_id">>}, {<<1, "type">>, <<1, "volume">>},
         Stocks \X Matrices}
MCUnwritten ==
  {[t \in Stocks |-> [m \in Matrices |-> IF <<t, m>> \in late THEN n ELSE 0]] :
     late \in Late, n \in {1, num_order}}
=============================================================================
