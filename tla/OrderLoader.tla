---------------------------- MODULE OrderLoader -----------------------------
(***************************************************************************)
(* Where a trader's orders come from (common/loader.hpp, Coordinates and   *)
(* OrderInfoMatrix in common/type.hpp, load_data and run of                *)
(* TraderController).  The data is a matrix of order ids, in which row x   *)
(* belongs to stock x % stock_num, and four matrices of the same shape     *)
(* with the rest of an order.  The ids of a stock are sorted, each with    *)
(* the coordinates of its cell.  With load_mode 2 the orders are made from *)
(* the matrices in memory; with load_mode 0 the sorted orders are dumped   *)
(* to cache files, which the OrderGenerator reads back part by part, and   *)
(* with load_mode 1 the files of an earlier dump are used, as they are.    *)
(*                                                                         *)
(* What a matrix holds for an order is the cell itself.  Whether           *)
(* check_order() takes an order is free: OrderFlow has it.                 *)
(***************************************************************************)
EXTENDS Integers, Sequences, FiniteSets

CONSTANTS
  NX, NY, NZ,   \* Config::loader_nx_matrix, ...
  stock_num,
  Data,         \* the order ids: function of the cell's place in the file
  num_partition,
  Unwritten,    \* bound: how many orders each stream may hold back when a dump is cut short
  MaxStarts     \* bound: starts of the process

Cells == 0 .. NX * NY * NZ - 1
Stocks == 0 .. stock_num - 1
matrix_idx == <<"order_id", "direction", "type", "price", "volume">>
Matrices == {matrix_idx[i] : i \in 1 .. 5}

(* Rows are dealt to the stocks evenly, and ids are those of one stock. *)
ASSUME DataAssumption ==
  /\ NX \in 1 .. 1024 /\ NY \in 1 .. 1024 /\ NZ \in 1 .. 1024
  /\ stock_num \in Nat \ {0} /\ num_partition \in Nat \ {0} /\ NX % stock_num = 0
  /\ Data \in [Cells -> Nat \ {0}]
  /\ Unwritten \subseteq [Stocks -> [Matrices -> Nat]]

Place(x, y, z) == x * (NY * NZ) + y * NZ + z

(* Mutant of set: the rows overlap. *)
setNarrow(x, y, z) == (x % 1024) * 2 + (y % 1024) * 1024 + (z % 1024)

(* Coordinates: three fields of ten bits. *)
set(x, y, z) == (x % 1024) * 1048576 + (y % 1024) * 1024 + (z % 1024)
get_x(coor) == (coor \div 1048576) % 1024
get_y(coor) == (coor \div 1024) % 1024
get_z(coor) == coor % 1024

(* load_order_id_from_file: the SortStructs of a stock ... *)
SortStructs(t) ==
  {[order_id |-> Data[Place(x, y, z)], coor |-> set(x, y, z)] :
     x \in {r \in 0 .. NX - 1 : r % stock_num = t}, y \in 0 .. NY - 1, z \in 0 .. NZ - 1}

Less(a, b) == a.order_id < b.order_id \/ (a.order_id = b.order_id /\ a.coor < b.coor)

num_order == (NX * NY * NZ) \div stock_num

(* ... sorted. *)
sorted_order_id ==
  [t \in Stocks |->
     [i \in 1 .. num_order |->
        CHOOSE a \in SortStructs(t) : Cardinality({b \in SortStructs(t) : Less(b, a)}) = i - 1]]

(* What the matrices hold for a sorted order. *)
At(coor) == Place(get_x(coor), get_y(coor), get_z(coor))
Entry(a) == [m \in Matrices |-> IF m = "order_id" THEN a.order_id ELSE At(a.coor)]

length == num_order \div num_partition

-----------------------------------------------------------------------------
VARIABLES
  phase,          \* "down", "dump", "generate" or "memory"
  starts,         \* bound
  cache,          \* per stock and matrix: the cache file
  pos,            \* per stock and matrix: how far the file has been read
  matrix,         \* per stock and matrix: the part in memory
  start_idx,      \* per stock
  cur_partition,  \* per stock
  next_sorted_struct_idx,  \* per stock, with load_mode 2
  given,          \* history, per stock: the orders that check_order() took
  exhausted       \* history: the stocks for which there was no more order

generator == <<pos, matrix, start_idx, cur_partition>>
vars == <<phase, starts, cache, generator, next_sorted_struct_idx, given, exhausted>>

NoFiles == [t \in Stocks |-> [m \in Matrices |-> <<>>]]
Zero == [t \in Stocks |-> 0]
NoPos == [t \in Stocks |-> [m \in Matrices |-> 0]]
Garbage == [t \in Stocks |-> [m \in Matrices |-> [i \in 0 .. length - 1 |-> -1]]]

Init ==
  /\ phase = "down"
  /\ starts = 0
  /\ cache = NoFiles
  /\ pos = NoPos /\ matrix = Garbage /\ start_idx = Zero /\ cur_partition = Zero
  /\ next_sorted_struct_idx = Zero
  /\ given = [t \in Stocks |-> <<>>]
  /\ exhausted = {}

(* A read of the part from position p of a file: what lies beyond the end   *)
(* of the file leaves the buffer as it was.                                 *)
Part(file, p, buffer) ==
  [i \in 0 .. length - 1 |-> IF p + i + 1 <= Len(file) THEN file[p + i + 1] ELSE buffer[i]]

(* load_data reads the next part of all matrices of the stock. *)
Loaded(file, p, buffer) == [m \in Matrices |-> Part(file[m], p[m], buffer[m])]
Advanced(p) == [m \in Matrices |-> p[m] + length]

-----------------------------------------------------------------------------
(* The constructor of OrderGenerator: the first part of every stock. *)
NewGenerator(files) ==
  /\ phase' = "generate"
  /\ matrix' = [t \in Stocks |-> Loaded(files[t], NoPos[t], Garbage[t])]
  /\ pos' = [t \in Stocks |-> Advanced(NoPos[t])]
  /\ start_idx' = Zero
  /\ cur_partition' = [t \in Stocks |-> 1]

Start ==
  /\ phase = "down"
  /\ starts < MaxStarts
  /\ starts' = starts + 1
  /\ UNCHANGED <<given, exhausted>>

(* load_mode 0: the files are opened, and so emptied, one after the other,  *)
(* and then written (dumpOrder).                                            *)
startDump ==
  /\ Start
  /\ phase' = "dump"
  /\ cache' = NoFiles
  /\ UNCHANGED <<generator, next_sorted_struct_idx>>

(* The process ends while it opens the files: those up to the n-th of stock *)
(* u are empty, the others as they were.                                    *)
startDumpCut(u, n) ==
  /\ Start
  /\ cache' = [t \in Stocks |-> [m \in Matrices |->
                 IF t < u \/ (t = u /\ \E i \in 1 .. n : m = matrix_idx[i])
                 THEN <<>> ELSE cache[t][m]]]
  /\ UNCHANGED <<phase, generator, next_sorted_struct_idx>>

(* load_mode 1: whatever the files hold. *)
startCached ==
  /\ Start
  /\ NewGenerator(cache)
  /\ UNCHANGED <<cache, next_sorted_struct_idx>>

(* load_mode 2 *)
startMemory ==
  /\ Start
  /\ phase' = "memory"
  /\ UNCHANGED <<cache, generator, next_sorted_struct_idx>>

Dumped(t) == Len(cache[t]["order_id"])
Complete == \A t \in Stocks, m \in Matrices : Len(cache[t][m]) = num_order

(* The next order is written to the five streams of its stock, stock after  *)
(* stock; what of it is in the files is only certain when they are closed   *)
(* (crash, finishDump).                                                     *)
dumpOrder ==
  /\ phase = "dump"
  /\ ~Complete
  /\ LET t == CHOOSE u \in Stocks : /\ Dumped(u) < num_order
                                   /\ \A w \in Stocks : w < u => Dumped(w) = num_order
         e == Entry(sorted_order_id[t][Dumped(t) + 1])
     IN  cache' = [cache EXCEPT ![t] = [m \in Matrices |-> Append(@[m], e[m])]]
  /\ UNCHANGED <<phase, starts, generator, next_sorted_struct_idx, given, exhausted>>

(* The files are closed, and the controller makes its generator. *)
finishDump ==
  /\ phase = "dump"
  /\ Complete
  /\ NewGenerator(cache)
  /\ UNCHANGED <<starts, cache, next_sorted_struct_idx, given, exhausted>>

(* Mutant of MoreParts: off by one. *)
MorePartsShort(t) == cur_partition[t] + 1 < num_partition

MoreParts(t) == cur_partition[t] < num_partition

Give(t, order) == given' = [given EXCEPT ![t] = Append(@, order)]

(* generate_order and the controller's loop over a stock: take the order    *)
(* at start_idx, after loading the next part if this one is used up.  An    *)
(* order that check_order() does not take is not committed and comes again. *)
generateAt(t, idx, part) ==
  \/ /\ Give(t, [m \in Matrices |-> part[m][idx]])
     /\ start_idx' = [start_idx EXCEPT ![t] = idx + 1]
  \/ /\ start_idx' = [start_idx EXCEPT ![t] = idx]
     /\ UNCHANGED given

generate_order(t) ==
  /\ phase = "generate"
  /\ \/ /\ start_idx[t] < length
        /\ generateAt(t, start_idx[t], matrix[t])
        /\ UNCHANGED <<matrix, pos, cur_partition, exhausted>>
     \/ /\ start_idx[t] >= length
        /\ MoreParts(t)
        /\ cur_partition' = [cur_partition EXCEPT ![t] = @ + 1]
        /\ matrix' = [matrix EXCEPT ![t] = Loaded(cache[t], pos[t], @)]
        /\ pos' = [pos EXCEPT ![t] = Advanced(@)]
        /\ generateAt(t, 0, matrix'[t])
        /\ UNCHANGED exhausted
     \/ /\ start_idx[t] >= length
        /\ ~MoreParts(t)
        /\ exhausted' = exhausted \cup {t}
        /\ UNCHANGED <<generator, given>>
  /\ UNCHANGED <<phase, starts, cache, next_sorted_struct_idx>>

(* The same from memory (run_all_in_memory, OrderInfoMatrix). *)
generateInMemory(t) ==
  /\ phase = "memory"
  /\ LET i == next_sorted_struct_idx[t]
     IN  \/ /\ i < num_order
            /\ Give(t, Entry(sorted_order_id[t][i + 1]))
            /\ next_sorted_struct_idx' = [next_sorted_struct_idx EXCEPT ![t] = i + 1]
            /\ UNCHANGED exhausted
         \/ /\ i >= num_order
            /\ exhausted' = exhausted \cup {t}
            /\ UNCHANGED <<given, next_sorted_struct_idx>>
  /\ UNCHANGED <<phase, starts, cache, generator>>

(* What an interrupted dump leaves: each stream loses what it holds back. *)
Kept(lost) ==
  [t \in Stocks |-> [m \in Matrices |->
     SubSeq(cache[t][m], 1, Len(cache[t][m]) - lost[t][m])]]

(* The process ends, at any moment; only the files stay. *)
crash ==
  /\ phase # "down"
  /\ phase' = "down"
  /\ \/ phase = "dump" /\ \E lost \in Unwritten : cache' = Kept(lost)
     \/ phase # "dump" /\ UNCHANGED cache
  /\ pos' = NoPos /\ matrix' = Garbage /\ start_idx' = Zero /\ cur_partition' = Zero
  /\ next_sorted_struct_idx' = Zero
  /\ given' = [t \in Stocks |-> <<>>]
  /\ exhausted' = {}
  /\ UNCHANGED starts

Next ==
  \/ startDump \/ startCached \/ startMemory
  \/ \E u \in Stocks, n \in 1 .. 5 : startDumpCut(u, n)
  \/ dumpOrder \/ finishDump
  \/ \E t \in Stocks : generate_order(t) \/ generateInMemory(t)
  \/ crash

Spec == Init /\ [][Next]_vars

-----------------------------------------------------------------------------
TypeOK ==
  /\ phase \in {"down", "dump", "generate", "memory"}
  /\ starts \in 0 .. MaxStarts
  /\ \A t \in Stocks, m \in Matrices :
       /\ cache[t][m] \in Seq(Nat) /\ Len(cache[t][m]) <= num_order
       /\ pos[t][m] = cur_partition[t] * length
       /\ \A i \in 0 .. length - 1 : matrix[t][m][i] \in Nat \cup {-1}
       /\ pos[t][m] <= num_order
  /\ start_idx \in [Stocks -> 0 .. length]
  /\ cur_partition \in [Stocks -> 0 .. num_partition]
  /\ next_sorted_struct_idx \in [Stocks -> 0 .. num_order]
  /\ exhausted \subseteq Stocks

CellsOf(t) == {c \in Cells : (c \div (NY * NZ)) % stock_num = t}

(* The generator reads a complete dump.  With load_mode 1 that is up to the *)
(* operator ("1: have cache file", config.cpp:20): nothing in the code      *)
(* checks it.                                                               *)
Trusted == phase = "generate" => Complete

(* Orders of equal id come in the order of their cells. *)
Precedes(d, c) == Data[d] < Data[c] \/ (Data[d] = Data[c] /\ d < c)

(* From memory, from a new dump and from an earlier one, if it is complete: *)
(* the orders of a stock come in the order of their ids without a gap, none *)
(* twice, each with the direction, type, price and volume of its own cell.  *)
(* Dumps that were cut short before leave no trace in a new one             *)
(* (trader_controller.cpp:87-119, loader.hpp:142-183, 290-350).             *)
GivenSorted ==
  Trusted => \A t \in Stocks : \A i \in DOMAIN given[t] :
    \E c \in CellsOf(t) :
      /\ \A m \in Matrices : given[t][i][m] = IF m = "order_id" THEN Data[c] ELSE c
      /\ Cardinality({d \in CellsOf(t) : Precedes(d, c)}) = i - 1

(* "no more order for this stock code" (trader_controller.cpp:213): all     *)
(* orders of the stock have been taken then, except that from the files the *)
(* remainder of the division into parts is left out (loader.hpp:341).       *)
NoMoreMeansAll ==
  Trusted => \A t \in exhausted :
    Len(given[t]) = IF phase = "memory" THEN num_order ELSE num_order - (num_order % num_partition)
=============================================================================
