------------------------- MODULE OrderLoaderProofs --------------------------
(***************************************************************************)
(* For matrices of any size, any number of stocks and parts: the orders of *)
(* a stock come in the order of their ids, those with equal ids in the     *)
(* order of their cells, each with what its own cell holds, whatever the   *)
(* load mode and wherever dumps were cut short before, and when there is   *)
(* no more all have come that fill whole parts.                            *)
(***************************************************************************)
EXTENDS OrderLoader, FiniteSetTheorems, WellFoundedInduction, TLAPS

(* The sorted orders of stock t: whole ones, what one matrix holds for      *)
(* them, the cache files with n of them, and the part read at position p.   *)
Prefix(g, n) == [i \in 1 .. n |-> g[i]]
Firsts(g) == {Prefix(g, n) : n \in 0 .. num_order}
Rows(t) == [i \in Nat |-> Entry(sorted_order_id[t][i])]
Column(t, m) == [i \in Nat |-> Rows(t)[i][m]]
Files(t, n) == [m \in Matrices |-> Prefix(Column(t, m), n)]
PartAt(t, p) == [m \in Matrices |-> [i \in 0 .. length - 1 |-> Column(t, m)[p + i + 1]]]

(* A cache file holds the first orders of its stock, and while they are     *)
(* written all files of a stock hold equally many.                          *)
FilesOK ==
  /\ cache = [t \in Stocks |-> [m \in Matrices |-> cache[t][m]]]
  /\ \A t \in Stocks, m \in Matrices : cache[t][m] \in Firsts(Column(t, m))
  /\ phase = "dump" => \A t \in Stocks : \E n \in 0 .. num_order : cache[t] = Files(t, n)

(* The generator holds the part that ends at its position in the files, and *)
(* what has been given is all before that part and start_idx orders of it,  *)
(* if the files are complete.                                               *)
GeneratorOK ==
  phase = "generate" /\ Complete =>
    /\ start_idx \in [Stocks -> 0 .. length] /\ cur_partition \in [Stocks -> 1 .. num_partition]
    /\ matrix = [t \in Stocks |-> matrix[t]] /\ pos = [t \in Stocks |-> pos[t]]
    /\ \A t \in Stocks : \E p \in 0 .. num_order :
         /\ p + length = cur_partition[t] * length
         /\ pos[t] = [m \in Matrices |-> p + length]
         /\ matrix[t] = PartAt(t, p)
         /\ given[t] = Prefix(Rows(t), p + start_idx[t])
         /\ t \in exhausted => cur_partition[t] = num_partition /\ start_idx[t] = length

(* From memory the orders up to next_sorted_struct_idx have been given. *)
MemoryOK ==
  /\ phase # "memory" => next_sorted_struct_idx = Zero
  /\ phase = "memory" =>
       /\ next_sorted_struct_idx \in [Stocks -> 0 .. num_order]
       /\ \A t \in Stocks : given[t] = Prefix(Rows(t), next_sorted_struct_idx[t])
       /\ \A t \in exhausted : next_sorted_struct_idx[t] = num_order

LoaderInv ==
  /\ phase \in {"down", "dump", "generate", "memory"}
  /\ given = [t \in Stocks |-> given[t]] /\ exhausted \subseteq Stocks
  /\ phase \in {"down", "dump"} => exhausted = {} /\ \A t \in Stocks : given[t] = <<>>
  /\ FilesOK /\ GeneratorOK /\ MemoryOK

(* Every order given is the next of the sorted ids of its stock. *)
GivenInTurn ==
  Trusted => \A t \in Stocks : \A i \in DOMAIN given[t] : given[t][i] = Entry(sorted_order_id[t][i])

(* The sizes that the generator needs: parts are not empty. *)
Sizes ==
  num_order \in Nat /\ num_partition \in Nat \ {0} /\ length \in Nat \ {0} /\ stock_num \in Nat \ {0}

(* What DataAssumption says. *)
DataOK ==
  /\ NX \in 1 .. 1024 /\ NY \in 1 .. 1024 /\ NZ \in 1 .. 1024
  /\ stock_num \in Nat \ {0} /\ num_partition \in Nat \ {0} /\ NX % stock_num = 0
  /\ Data \in [Cells -> Nat \ {0}]

-----------------------------------------------------------------------------
LEMMA LeastNatural ==
  ASSUME NEW T, T \subseteq Nat, T # {}
  PROVE  \E x \in T : \A y \in T : x <= y
<1>1. PICK R : /\ \E x \in T : \A y \in T : ~(<<y, x>> \in R)
               /\ \A x, y \in Nat : y < x => <<y, x>> \in R
  <2>1. \E x \in T : \A y \in T : ~(<<y, x>> \in OpToRel(<, Nat))
    BY NatLessThanWellFounded, WFMin, Zenon
  <2>2. \A x, y \in Nat : y < x => <<y, x>> \in OpToRel(<, Nat)
    BY DEF OpToRel
  <2> QED  BY <2>1, <2>2, Zenon
<1>2. PICK x \in T : \A y \in T : ~(<<y, x>> \in R)
  BY <1>1, Zenon
<1>3. \A y \in T : ~(y < x)
  BY <1>1, <1>2, Zenon
<1>4. \A y \in T : x <= y
  BY <1>3
<1> QED  BY <1>4

(* A prefix has its length, and grows by the next element. *)
LEMMA PrefixAppend ==
  ASSUME NEW g, NEW n \in Nat
  PROVE  /\ Len(Prefix(g, n)) = n /\ DOMAIN Prefix(g, n) = 1 .. n
         /\ Append(Prefix(g, n), g[n + 1]) = Prefix(g, n + 1)
<1> DEFINE S == {g[i] : i \in 1 .. n + 1}
<1>1. Prefix(g, n) \in Seq(S) /\ Len(Prefix(g, n)) = n /\ DOMAIN Prefix(g, n) = 1 .. n
  BY DEF Prefix
<1>2. g[n + 1] \in S
  OBVIOUS
<1>3. Prefix(g, n + 1) \in Seq(S) /\ Len(Prefix(g, n + 1)) = n + 1
  BY DEF Prefix
<1>4. \A i \in 1 .. n + 1 : Append(Prefix(g, n), g[n + 1])[i] = Prefix(g, n + 1)[i]
  BY <1>1, <1>2 DEF Prefix
<1> QED  BY <1>1, <1>2, <1>3, <1>4

(* An empty prefix. *)
LEMMA PrefixEmpty ==
  ASSUME NEW g
  PROVE  Prefix(g, 0) = <<>>
  BY DEF Prefix

(* A file that is emptied or loses its end still holds first orders. *)
LEMMA CutFile ==
  ASSUME num_order \in Nat, NEW g, NEW f \in Firsts(g), NEW k \in Nat
  PROVE  <<>> \in Firsts(g) /\ SubSeq(f, 1, Len(f) - k) \in Firsts(g)
<1>1. PICK n \in 0 .. num_order : f = Prefix(g, n)
  BY DEF Firsts
<1>2. n \in Nat /\ 0 \in 0 .. num_order
  OBVIOUS
<1>3. <<>> \in Firsts(g)
  BY <1>2, PrefixEmpty DEF Firsts
<1> DEFINE S == {g[i] : i \in 1 .. n}
<1>4. f \in Seq(S) /\ Len(f) = n /\ \A i \in 1 .. n : f[i] = g[i]
  BY <1>1, <1>2 DEF Prefix
<1> HIDE DEF S
<1>5. CASE k <= n
  <2>1. n - k \in 0 .. num_order
    BY <1>2, <1>5
  <2>2. SubSeq(f, 1, n - k) \in Seq(S) /\ Len(SubSeq(f, 1, n - k)) = n - k
        /\ \A i \in 1 .. n - k : SubSeq(f, 1, n - k)[i] = f[i]
    BY <1>2, <1>4, <1>5
  <2>3. SubSeq(f, 1, n - k) = [i \in 1 .. n - k |-> g[i]]
    BY <1>2, <1>4, <1>5, <2>2
  <2>4. SubSeq(f, 1, Len(f) - k) = Prefix(g, n - k)
    BY <1>4, <2>3 DEF Prefix
  <2> QED  BY <1>3, <2>1, <2>4, Zenon DEF Firsts
<1>6. CASE k > n
  <2>1. SubSeq(f, 1, n - k) = <<>>
    BY <1>2, <1>4, <1>6
  <2> QED  BY <1>3, <1>4, <2>1
<1> QED  BY <1>2, <1>5, <1>6

(* The rows of an order are what the matrices hold for it. *)
LEMMA RowIs ==
  ASSUME NEW t \in Stocks, NEW i \in Nat
  PROVE  /\ Rows(t)[i] = Entry(sorted_order_id[t][i])
         /\ Rows(t)[i] = [m \in Matrices |-> Column(t, m)[i]]
<1> DEFINE e == Entry(sorted_order_id[t][i])
<1>1. Rows(t)[i] = e
  BY DEF Rows
<1>2. e = [m \in Matrices |-> e[m]]
  BY DEF Entry
<1>3. \A m \in Matrices : Column(t, m)[i] = e[m]
  BY <1>1 DEF Column
<1> HIDE DEF e
<1>4. [m \in Matrices |-> Column(t, m)[i]] = [m \in Matrices |-> e[m]]
  BY <1>3
<1> QED  BY <1>1, <1>2, <1>4 DEF e

(* How much of a stock is dumped. *)
LEMMA DumpedIs ==
  ASSUME NEW t \in Stocks, NEW n \in Nat, cache[t] = Files(t, n)
  PROVE  Dumped(t) = n
<1>1. cache[t]["order_id"] = Prefix(Column(t, "order_id"), n)
  BY DEF Files, Matrices, matrix_idx
<1> QED  BY <1>1, PrefixAppend DEF Dumped

(* Files of equally many orders are files of first orders. *)
LEMMA WholeFiles ==
  ASSUME NEW c, c = [t \in Stocks |-> c[t]],
         \A t \in Stocks : \E n \in 0 .. num_order : c[t] = Files(t, n)
  PROVE  /\ c = [t \in Stocks |-> [m \in Matrices |-> c[t][m]]]
         /\ \A t \in Stocks, m \in Matrices : c[t][m] \in Firsts(Column(t, m))
<1>1. ASSUME NEW t \in Stocks
      PROVE  c[t] = [m \in Matrices |-> c[t][m]]
  BY DEF Files
<1>2. c = [t \in Stocks |-> [m \in Matrices |-> c[t][m]]]
  BY <1>1, Zenon
<1>3. ASSUME NEW t \in Stocks, NEW m \in Matrices
      PROVE  c[t][m] \in Firsts(Column(t, m))
  <2>1. PICK n \in 0 .. num_order : c[t] = Files(t, n)
    OBVIOUS
  <2>2. Files(t, n)[m] = Prefix(Column(t, m), n)
    BY DEF Files
  <2> QED  BY <2>1, <2>2, Zenon DEF Firsts
<1> QED  BY <1>2, <1>3

(* load_data reads the part that begins at its position. *)
LEMMA LoadedIs ==
  ASSUME Sizes, NEW t \in Stocks, NEW p \in Nat, p + length <= num_order, NEW b
  PROVE  Loaded(Files(t, num_order), [m \in Matrices |-> p], b) = PartAt(t, p)
<1>1. ASSUME NEW m \in Matrices, NEW i \in 0 .. length - 1
      PROVE  /\ p + i + 1 <= Len(Files(t, num_order)[m])
             /\ Files(t, num_order)[m][p + i + 1] = Column(t, m)[p + i + 1]
  <2>1. Files(t, num_order)[m] = Prefix(Column(t, m), num_order)
    BY DEF Files
  <2>2. Len(Prefix(Column(t, m), num_order)) = num_order
    BY PrefixAppend DEF Sizes
  <2>3. p + i + 1 \in 1 .. num_order
    BY DEF Sizes
  <2>4. Prefix(Column(t, m), num_order)[p + i + 1] = Column(t, m)[p + i + 1]
    BY <2>3 DEF Prefix
  <2> QED  BY <2>1, <2>2, <2>3, <2>4
<1> DEFINE F == Files(t, num_order)
<1> HIDE DEF F
<1>2. ASSUME NEW m \in Matrices
      PROVE  Part(F[m], p, b[m]) = [i \in 0 .. length - 1 |-> Column(t, m)[p + i + 1]]
  BY <1>1 DEF Part, F
<1>3. Loaded(F, [m \in Matrices |-> p], b) = [m \in Matrices |-> Part(F[m], p, b[m])]
  BY DEF Loaded
<1> QED  BY <1>2, <1>3, Zenon DEF PartAt, F

(* All parts lie within the file. *)
LEMMA PartsFit ==
  ASSUME Sizes, NEW c \in 1 .. num_partition
  PROVE  /\ c * length \in Nat /\ c * length <= num_order /\ (c - 1) * length \in Nat
         /\ (c - 1) * length + length = c * length
<1> DEFINE l == length  k == num_partition  n == num_order
<1>1. l \in Nat /\ k \in Nat \ {0} /\ n \in Nat /\ k * l <= n
  <2>1. \A a \in Nat, b \in Nat \ {0} : b * (a \div b) <= a
    OBVIOUS
  <2> QED  BY <2>1 DEF Sizes, length
<1>2. c \in 1 .. k
  OBVIOUS
<1> HIDE DEF l, k, n
<1>3. c * l <= k * l /\ c * l \in Nat /\ (c - 1) * l \in Nat /\ (c - 1) * l + l = c * l
  BY <1>1, <1>2
<1>4. c * l <= n
  <2>1. \A a, b, d \in Int : a <= b /\ b <= d => a <= d
    OBVIOUS
  <2>2. k * l \in Int /\ c * l \in Int /\ n \in Int
    BY <1>1, <1>2
  <2> QED  BY <1>1, <1>3, <2>1, <2>2
<1> QED  BY <1>3, <1>4 DEF l, k, n

(* At the start there are no files and no orders. *)
LEMMA LoaderInit ==
  ASSUME Sizes, Init
  PROVE  LoaderInv
<1>1. /\ phase = "down" /\ cache = NoFiles /\ next_sorted_struct_idx = Zero
      /\ given = [t \in Stocks |-> <<>>] /\ exhausted = {}
  BY DEF Init
<1>2. \A t \in Stocks : NoFiles[t] = Files(t, 0)
  BY PrefixEmpty DEF NoFiles, Files
<1>3. FilesOK
  <2>1. 0 \in 0 .. num_order /\ cache = [t \in Stocks |-> cache[t]]
    BY <1>1 DEF Sizes, NoFiles
  <2>2. \A t \in Stocks : \E n \in 0 .. num_order : cache[t] = Files(t, n)
    BY <1>1, <1>2, <2>1, Zenon
  <2> QED  BY <2>1, <2>2, WholeFiles, Zenon DEF FilesOK
<1> QED  BY <1>1, <1>3 DEF LoaderInv, GeneratorOK, MemoryOK

(* In complete files are all orders of every stock. *)
LEMMA CompleteMeans ==
  ASSUME Sizes, FilesOK, Complete, NEW t \in Stocks
  PROVE  cache[t] = Files(t, num_order)
<1>1. ASSUME NEW m \in Matrices
      PROVE  cache[t][m] = Prefix(Column(t, m), num_order)
  <2>1. PICK n \in 0 .. num_order : cache[t][m] = Prefix(Column(t, m), n)
    BY Zenon DEF FilesOK, Firsts
  <2>2. Len(Prefix(Column(t, m), n)) = n
    BY PrefixAppend
  <2>3. Len(cache[t][m]) = num_order
    BY DEF Complete
  <2> QED  BY <2>1, <2>2, <2>3
<1>2. cache[t] = [m \in Matrices |-> cache[t][m]]
  BY Zenon DEF FilesOK
<1> QED  BY <1>1, <1>2, Zenon DEF Files

(* A new generator has the first part of every stock in memory. *)
LEMMA NewGeneratorOK ==
  ASSUME Sizes, LoaderInv, phase \in {"down", "dump"}, NewGenerator(cache),
         UNCHANGED <<cache, next_sorted_struct_idx, given, exhausted>>
  PROVE  LoaderInv'
<1>1. /\ phase' = "generate" /\ start_idx' = Zero /\ cur_partition' = [t \in Stocks |-> 1]
      /\ matrix' = [t \in Stocks |-> Loaded(cache[t], NoPos[t], Garbage[t])]
      /\ pos' = [t \in Stocks |-> Advanced(NoPos[t])]
      /\ UNCHANGED <<cache, next_sorted_struct_idx, given, exhausted>>
  BY DEF NewGenerator
<1>2. /\ exhausted = {} /\ next_sorted_struct_idx = Zero
      /\ given = [t \in Stocks |-> given[t]] /\ \A t \in Stocks : given[t] = <<>>
  BY DEF LoaderInv, MemoryOK
<1>3. Complete => \A t \in Stocks : cache[t] = Files(t, num_order)
  BY CompleteMeans DEF LoaderInv
<1>4. FilesOK'
  BY <1>1 DEF LoaderInv, FilesOK
<1>5. 1 \in 1 .. num_partition /\ 1 * length = length /\ length <= num_order /\ 0 \in 0 .. num_order /\ 0 + length = length
  <2>1. 1 \in 1 .. num_partition /\ 1 * length = length /\ 0 + length = length /\ 0 \in 0 .. num_order
    BY DEF Sizes
  <2> QED  BY <2>1, PartsFit
<1>6. ASSUME Complete, NEW t \in Stocks
      PROVE  /\ 0 + length = cur_partition'[t] * length
             /\ pos'[t] = [m \in Matrices |-> 0 + length]
             /\ matrix'[t] = PartAt(t, 0)
             /\ given'[t] = Prefix(Rows(t), 0 + start_idx'[t])
  <2>1. NoPos[t] = [m \in Matrices |-> 0]
    BY DEF NoPos
  <2>2. matrix'[t] = PartAt(t, 0)
    BY <1>1, <1>3, <1>5, <1>6, <2>1, LoadedIs, Zenon
  <2>3. pos'[t] = [m \in Matrices |-> 0 + length]
    BY <1>1, <2>1 DEF Advanced
  <2>4. start_idx'[t] = 0 /\ cur_partition'[t] = 1 /\ given'[t] = <<>>
    BY <1>1, <1>2 DEF Zero
  <2> QED  BY <1>5, <2>2, <2>3, <2>4, PrefixEmpty
<1>7. GeneratorOK'
  <2>0. SUFFICES ASSUME Complete PROVE GeneratorOK'
    BY <1>1 DEF GeneratorOK, Complete
  <2>1. start_idx' \in [Stocks -> 0 .. length] /\ cur_partition' \in [Stocks -> 1 .. num_partition]
    BY <1>1, <1>5 DEF Zero, Sizes
  <2>2. matrix' = [t \in Stocks |-> matrix'[t]] /\ pos' = [t \in Stocks |-> pos'[t]]
    BY <1>1
  <2>3. exhausted' = {}
    BY <1>1, <1>2
  <2>4. ASSUME NEW t \in Stocks
        PROVE  \E p \in 0 .. num_order :
         /\ p + length = cur_partition'[t] * length
         /\ pos'[t] = [m \in Matrices |-> p + length]
         /\ matrix'[t] = PartAt(t, p)
         /\ given'[t] = Prefix(Rows(t), p + start_idx'[t])
         /\ t \in exhausted' => cur_partition'[t] = num_partition /\ start_idx'[t] = length
    BY <1>5, <1>6, <2>0, <2>3, Zenon
  <2> QED  BY <2>1, <2>2, <2>4 DEF GeneratorOK
<1> QED  BY <1>1, <1>2, <1>4, <1>7 DEF LoaderInv, MemoryOK

(* The stock whose turn it is has orders left to dump. *)
LEMMA DumpTurn ==
  ASSUME Sizes, FilesOK, phase = "dump", ~Complete
  PROVE  \E u \in Stocks : Dumped(u) < num_order /\ \A w \in Stocks : w < u => Dumped(w) = num_order
<1> DEFINE T == {u \in Stocks : Dumped(u) # num_order}
<1>1. T \subseteq Nat /\ T # {}
  <2>1. PICK u \in Stocks, m \in Matrices : Len(cache[u][m]) # num_order
    BY DEF Complete
  <2>2. PICK n \in 0 .. num_order : cache[u] = Files(u, n)
    BY DEF FilesOK
  <2>3. Dumped(u) = n
    BY <2>2, DumpedIs DEF Sizes
  <2>4. Len(cache[u][m]) = n
    BY <2>2, PrefixAppend DEF Files, Sizes
  <2> QED  BY <2>1, <2>3, <2>4 DEF Stocks, Sizes
<1>2. PICK u \in T : \A y \in T : u <= y
  <2> HIDE DEF T
  <2> QED  BY <1>1, LeastNatural, Zenon
<1>3. u \in Stocks /\ Dumped(u) # num_order
  OBVIOUS
<1>4. \A w \in Stocks : w < u => Dumped(w) = num_order
  BY <1>2, <1>3 DEF Stocks, Sizes
<1>5. PICK n \in 0 .. num_order : cache[u] = Files(u, n)
  BY <1>3 DEF FilesOK
<1>6. Dumped(u) = n
  BY <1>3, <1>5, DumpedIs DEF Sizes
<1>7. Dumped(u) < num_order
  BY <1>3, <1>5, <1>6 DEF Sizes
<1> QED  BY <1>3, <1>4, <1>7

(* Dumping writes the next order of one stock to all its files. *)
LEMMA DumpOrderOK ==
  ASSUME Sizes, LoaderInv, dumpOrder
  PROVE  LoaderInv'
<1> DEFINE Turn(u) == Dumped(u) < num_order /\ \A w \in Stocks : w < u => Dumped(w) = num_order
           r == CHOOSE u \in Stocks : Turn(u)
           e == Entry(sorted_order_id[r][Dumped(r) + 1])
<1>1. /\ phase = "dump" /\ ~Complete
      /\ cache' = [cache EXCEPT ![r] = [m \in Matrices |-> Append(cache[r][m], e[m])]]
      /\ UNCHANGED <<phase, next_sorted_struct_idx, given, exhausted>>
  BY DEF dumpOrder
<1>2. r \in Stocks /\ Dumped(r) < num_order
  <2>1. \E u \in Stocks : Turn(u)
    BY <1>1, DumpTurn DEF LoaderInv
  <2>2. r \in Stocks /\ Turn(r)
    <3> HIDE DEF Turn
    <3> QED  BY <2>1, Zenon
  <2> QED  BY <2>2
<1> HIDE DEF r
<1>3. PICK n \in 0 .. num_order : cache[r] = Files(r, n)
  BY <1>1, <1>2 DEF LoaderInv, FilesOK
<1>4. n \in Nat /\ Dumped(r) = n /\ n + 1 \in 0 .. num_order
  <2>1. n \in Nat
    BY DEF Sizes
  <2>2. Dumped(r) = n
    BY <1>2, <1>3, <2>1, DumpedIs
  <2> QED  BY <1>2, <2>1, <2>2 DEF Sizes
<1>5. ASSUME NEW m \in Matrices
      PROVE  Append(cache[r][m], e[m]) = Prefix(Column(r, m), n + 1)
  <2>1. cache[r][m] = Prefix(Column(r, m), n)
    BY <1>3 DEF Files
  <2>2. n + 1 \in Nat
    BY <1>4
  <2>3. Rows(r)[n + 1] = e
    BY <1>2, <1>4, <2>2, RowIs, Zenon
  <2>4. Column(r, m)[n + 1] = e[m]
    BY <2>2, <2>3 DEF Column
  <2> QED  BY <1>4, <2>1, <2>4, PrefixAppend
<1>6. [m \in Matrices |-> Append(cache[r][m], e[m])] = Files(r, n + 1)
  BY <1>5 DEF Files
<1> HIDE DEF e
<1>7. FilesOK'
  <2>1. cache' = [cache EXCEPT ![r] = Files(r, n + 1)] /\ DOMAIN cache = Stocks
        /\ cache = [t \in DOMAIN cache |-> cache[t]]
    BY <1>1, <1>6, Zenon DEF LoaderInv, FilesOK
  <2>2. cache' = [t \in Stocks |-> cache'[t]] /\ cache'[r] = Files(r, n + 1)
        /\ \A t \in Stocks : t # r => cache'[t] = cache[t]
    BY <1>2, <2>1
  <2>3. ASSUME NEW t \in Stocks
        PROVE  \E k \in 0 .. num_order : cache'[t] = Files(t, k)
    <3>1. CASE t = r
      BY <1>4, <2>2, <3>1
    <3>2. CASE t # r
      BY <1>1, <2>2, <3>2 DEF LoaderInv, FilesOK
    <3> QED  BY <3>1, <3>2
  <2> QED  BY <2>2, <2>3, WholeFiles DEF FilesOK
<1> QED  BY <1>1, <1>7 DEF LoaderInv, GeneratorOK, MemoryOK

(* A start. *)
LEMMA StartOK ==
  ASSUME Sizes, LoaderInv, startDump \/ startCached \/ startMemory \/ finishDump
  PROVE  LoaderInv'
<1>0. \A t \in Stocks : NoFiles[t] = Files(t, 0)
  BY PrefixEmpty DEF NoFiles, Files
<1>1. CASE startDump
  <2>1. phase = "down" /\ phase' = "dump" /\ cache' = NoFiles
        /\ UNCHANGED <<next_sorted_struct_idx, given, exhausted>>
    BY <1>1 DEF startDump, Start
  <2>2. FilesOK'
    <3>1. 0 \in 0 .. num_order /\ NoFiles = [t \in Stocks |-> NoFiles[t]]
      BY DEF Sizes, NoFiles
    <3> QED  BY <1>0, <2>1, <3>1, WholeFiles DEF FilesOK
  <2> QED  BY <2>1, <2>2 DEF LoaderInv, GeneratorOK, MemoryOK
<1>2. CASE startCached
  BY <1>2, NewGeneratorOK DEF startCached, Start
<1>3. CASE startMemory
  <2>1. phase = "down" /\ phase' = "memory" /\ UNCHANGED <<cache, next_sorted_struct_idx, given, exhausted>>
    BY <1>3 DEF startMemory, Start
  <2>2. FilesOK'
    BY <2>1 DEF LoaderInv, FilesOK
  <2>3. MemoryOK'
    <3>1. next_sorted_struct_idx' = Zero /\ exhausted' = {} /\ \A t \in Stocks : given'[t] = <<>>
      BY <2>1 DEF LoaderInv, MemoryOK
    <3>2. Zero \in [Stocks -> 0 .. num_order] /\ \A t \in Stocks : Zero[t] = 0
      BY DEF Zero, Sizes
    <3> QED  BY <2>1, <3>1, <3>2, PrefixEmpty DEF MemoryOK
  <2> QED  BY <2>1, <2>2, <2>3 DEF LoaderInv, GeneratorOK
<1>4. CASE finishDump
  BY <1>4, NewGeneratorOK DEF finishDump
<1> QED  BY <1>1, <1>2, <1>3, <1>4

(* The end of the process at any moment: whatever a dump cut short leaves in *)
(* the files, they are first orders.                                        *)
LEMMA EndOK ==
  ASSUME Sizes, LoaderInv, crash \/ \E u \in Stocks, n \in 1 .. 5 : startDumpCut(u, n)
  PROVE  LoaderInv'
<1>1. CASE crash
  <2>1. phase' = "down" /\ next_sorted_struct_idx' = Zero /\ given' = [t \in Stocks |-> <<>>] /\ exhausted' = {}
    BY <1>1 DEF crash
  <2>2. CASE \E lost \in Unwritten : cache' = Kept(lost)
    <3>1. PICK lost \in Unwritten : cache' = Kept(lost)
      BY <2>2
    <3>2. \A t \in Stocks, m \in Matrices : lost[t][m] \in Nat
      BY DataAssumption
    <3>3. cache' = [t \in Stocks |-> [m \in Matrices |-> SubSeq(cache[t][m], 1, Len(cache[t][m]) - lost[t][m])]]
      BY <3>1 DEF Kept
    <3>4. \A t \in Stocks, m \in Matrices :
            cache'[t][m] = SubSeq(cache[t][m], 1, Len(cache[t][m]) - lost[t][m])
      BY <3>3, Zenon
    <3>5. cache' = [t \in Stocks |-> [m \in Matrices |-> cache'[t][m]]]
      BY <3>3, Zenon
    <3>6. ASSUME NEW t \in Stocks, NEW m \in Matrices
          PROVE  cache'[t][m] \in Firsts(Column(t, m))
      <4>1. num_order \in Nat /\ cache[t][m] \in Firsts(Column(t, m)) /\ lost[t][m] \in Nat
        BY <3>2, Zenon DEF LoaderInv, FilesOK, Sizes
      <4>2. SubSeq(cache[t][m], 1, Len(cache[t][m]) - lost[t][m]) \in Firsts(Column(t, m))
        BY <4>1, CutFile, Zenon
      <4> QED  BY <3>4, <4>2, Zenon
    <3>7. FilesOK'
      BY <2>1, <3>5, <3>6, Zenon DEF FilesOK
    <3> QED  BY <2>1, <3>7 DEF LoaderInv, GeneratorOK, MemoryOK
  <2>3. CASE cache' = cache
    <3>1. FilesOK'
      BY <2>1, <2>3 DEF LoaderInv, FilesOK
    <3> QED  BY <2>1, <3>1 DEF LoaderInv, GeneratorOK, MemoryOK
  <2> QED  BY <1>1, <2>2, <2>3 DEF crash
<1>2. CASE \E u \in Stocks, n \in 1 .. 5 : startDumpCut(u, n)
  <2>1. PICK u \in Stocks, n \in 1 .. 5 : startDumpCut(u, n)
    BY <1>2
  <2> DEFINE Emptied(t, m) == t < u \/ (t = u /\ \E i \in 1 .. n : m = matrix_idx[i])
  <2>2. /\ phase = "down" /\ phase' = "down" /\ UNCHANGED <<next_sorted_struct_idx, given, exhausted>>
        /\ cache' = [t \in Stocks |-> [m \in Matrices |-> IF Emptied(t, m) THEN <<>> ELSE cache[t][m]]]
    BY <2>1 DEF startDumpCut, Start
  <2> HIDE DEF Emptied
  <2>3. \A t \in Stocks, m \in Matrices : cache'[t][m] = <<>> \/ cache'[t][m] = cache[t][m]
    BY <2>2
  <2>4. cache' = [t \in Stocks |-> [m \in Matrices |-> cache'[t][m]]]
    BY <2>2, Zenon
  <2>5. FilesOK'
    <3>1. ASSUME NEW t \in Stocks, NEW m \in Matrices
          PROVE  cache'[t][m] \in Firsts(Column(t, m))
      <4>1. num_order \in Nat /\ cache[t][m] \in Firsts(Column(t, m))
        BY Zenon DEF LoaderInv, FilesOK, Sizes
      <4>2. <<>> \in Firsts(Column(t, m))
        BY <4>1, CutFile, 0 \in Nat, Zenon
      <4> QED  BY <2>3, <4>1, <4>2, Zenon
    <3> QED  BY <2>2, <2>4, <3>1, Zenon DEF FilesOK
  <2> QED  BY <2>2, <2>5 DEF LoaderInv, GeneratorOK, MemoryOK
<1> QED  BY <1>1, <1>2

(* From memory the orders come in turn. *)
LEMMA MemoryStepOK ==
  ASSUME Sizes, LoaderInv, NEW t \in Stocks, generateInMemory(t)
  PROVE  LoaderInv'
<1> DEFINE i == next_sorted_struct_idx[t]
<1>1. phase = "memory" /\ UNCHANGED <<phase, cache>>
  BY DEF generateInMemory
<1>2. FilesOK'
  BY <1>1 DEF LoaderInv, FilesOK
<1>3. /\ next_sorted_struct_idx \in [Stocks -> 0 .. num_order] /\ i \in 0 .. num_order /\ i \in Nat
      /\ given = [u \in Stocks |-> given[u]] /\ \A u \in Stocks : given[u] = Prefix(Rows(u), next_sorted_struct_idx[u])
      /\ exhausted \subseteq Stocks /\ \A u \in exhausted : next_sorted_struct_idx[u] = num_order
  BY <1>1 DEF LoaderInv, MemoryOK, Sizes
<1>4. CASE i < num_order /\ Give(t, Entry(sorted_order_id[t][i + 1]))
           /\ next_sorted_struct_idx' = [next_sorted_struct_idx EXCEPT ![t] = i + 1] /\ UNCHANGED exhausted
  <2>1. i + 1 \in 0 .. num_order /\ i + 1 \in Nat /\ i # num_order
    BY <1>3, <1>4 DEF Sizes
  <2>2. given' = [given EXCEPT ![t] = Append(given[t], Entry(sorted_order_id[t][i + 1]))]
    BY <1>4 DEF Give
  <2>3. Append(given[t], Entry(sorted_order_id[t][i + 1])) = Prefix(Rows(t), i + 1)
    BY <1>3, <2>1, RowIs, PrefixAppend, ZenonT(30)
  <2>4. given' = [u \in Stocks |-> given'[u]] /\ given'[t] = Prefix(Rows(t), i + 1)
        /\ \A u \in Stocks : u # t => given'[u] = given[u]
    BY <1>3, <2>2, <2>3, Zenon
  <2>5. next_sorted_struct_idx' \in [Stocks -> 0 .. num_order] /\ next_sorted_struct_idx'[t] = i + 1
        /\ \A u \in Stocks : u # t => next_sorted_struct_idx'[u] = next_sorted_struct_idx[u]
    BY <1>3, <1>4, <2>1
  <2>6. MemoryOK'
    <3>1. \A u \in Stocks : given'[u] = Prefix(Rows(u), next_sorted_struct_idx'[u])
      BY <1>3, <2>4, <2>5
    <3>2. \A u \in exhausted' : next_sorted_struct_idx'[u] = num_order
      BY <1>3, <1>4, <2>1, <2>5
    <3> QED  BY <1>1, <2>5, <3>1, <3>2 DEF MemoryOK
  <2> QED  BY <1>1, <1>2, <1>3, <1>4, <2>4, <2>6, Zenon DEF LoaderInv, GeneratorOK
<1>5. CASE i >= num_order /\ exhausted' = exhausted \cup {t} /\ UNCHANGED <<given, next_sorted_struct_idx>>
  <2>1. i = num_order
    BY <1>3, <1>5 DEF Sizes
  <2>2. MemoryOK'
    BY <1>1, <1>3, <1>5, <2>1 DEF MemoryOK
  <2> QED  BY <1>1, <1>2, <1>3, <1>5, <2>2 DEF LoaderInv, GeneratorOK
<1> QED  BY <1>4, <1>5 DEF generateInMemory

(* An order taken from the part in memory is the next one of its stock. *)
LEMMA GenerateAtOK ==
  ASSUME Sizes, NEW t \in Stocks, NEW p \in Nat, NEW idx \in 0 .. length - 1,
         start_idx \in [Stocks -> 0 .. length], given = [u \in Stocks |-> given[u]],
         given[t] = Prefix(Rows(t), p + idx), generateAt(t, idx, PartAt(t, p))
  PROVE  /\ start_idx' \in [Stocks -> 0 .. length] /\ given' = [u \in Stocks |-> given'[u]]
         /\ given'[t] = Prefix(Rows(t), p + start_idx'[t])
         /\ \A u \in Stocks : u # t => given'[u] = given[u] /\ start_idx'[u] = start_idx[u]
<1> DEFINE q == PartAt(t, p)
<1>1. p + idx \in Nat /\ idx \in 0 .. length /\ idx + 1 \in 0 .. length /\ p + idx + 1 \in Nat
      /\ p + (idx + 1) = p + idx + 1 /\ (p + idx) + 1 = p + idx + 1
  BY DEF Sizes
<1>2. [m \in Matrices |-> q[m][idx]] = Rows(t)[p + idx + 1]
  <2>1. \A m \in Matrices : q[m][idx] = Column(t, m)[p + idx + 1]
    BY DEF PartAt
  <2>2. Rows(t)[p + idx + 1] = [m \in Matrices |-> Column(t, m)[p + idx + 1]]
    BY <1>1, RowIs
  <2> QED  BY <2>1, <2>2
<1>3. Append(given[t], [m \in Matrices |-> q[m][idx]]) = Prefix(Rows(t), p + idx + 1)
  <2>1. Append(Prefix(Rows(t), p + idx), Rows(t)[(p + idx) + 1]) = Prefix(Rows(t), (p + idx) + 1)
    BY <1>1, PrefixAppend, SMTT(30)
  <2> QED  BY <1>1, <1>2, <2>1, SMTT(30)
<1> HIDE DEF q
<1>4. CASE given' = [given EXCEPT ![t] = Append(given[t], [m \in Matrices |-> q[m][idx]])]
           /\ start_idx' = [start_idx EXCEPT ![t] = idx + 1]
  <2>1. given' = [given EXCEPT ![t] = Prefix(Rows(t), p + idx + 1)]
    BY <1>3, <1>4, Zenon
  <2>2. given' = [u \in Stocks |-> given'[u]] /\ given'[t] = Prefix(Rows(t), p + idx + 1)
        /\ \A u \in Stocks : u # t => given'[u] = given[u]
    BY <2>1
  <2>3. start_idx' \in [Stocks -> 0 .. length] /\ start_idx'[t] = idx + 1
        /\ \A u \in Stocks : u # t => start_idx'[u] = start_idx[u]
    BY <1>1, <1>4
  <2> QED  BY <1>1, <2>2, <2>3
<1>5. CASE given' = given /\ start_idx' = [start_idx EXCEPT ![t] = idx]
  BY <1>1, <1>5
<1> QED  BY <1>4, <1>5 DEF generateAt, Give, q

(* From the files the orders come in turn, over the ends of the parts too. *)
LEMMA GenerateComplete ==
  ASSUME Sizes, LoaderInv, Complete, NEW t \in Stocks, generate_order(t)
  PROVE  LoaderInv'
<1> DEFINE Reads(u, p) ==
             /\ p + length = cur_partition[u] * length
             /\ pos[u] = [m \in Matrices |-> p + length]
             /\ matrix[u] = PartAt(u, p)
             /\ given[u] = Prefix(Rows(u), p + start_idx[u])
             /\ u \in exhausted => cur_partition[u] = num_partition /\ start_idx[u] = length
<1>1. /\ phase = "generate" /\ phase' = "generate"
      /\ cache' = cache /\ next_sorted_struct_idx' = next_sorted_struct_idx
  BY DEF generate_order
<1>2. FilesOK' /\ MemoryOK'
  BY <1>1 DEF LoaderInv, FilesOK, MemoryOK
<1>3. /\ start_idx \in [Stocks -> 0 .. length] /\ cur_partition \in [Stocks -> 1 .. num_partition]
      /\ matrix = [u \in Stocks |-> matrix[u]] /\ pos = [u \in Stocks |-> pos[u]]
      /\ given = [u \in Stocks |-> given[u]] /\ exhausted \subseteq Stocks
      /\ \A u \in Stocks : \E p \in 0 .. num_order : Reads(u, p)
  BY <1>1 DEF LoaderInv, GeneratorOK
<1>4. cache[t] = Files(t, num_order)
  BY CompleteMeans DEF LoaderInv
<1>5. PICK p \in 0 .. num_order : Reads(t, p)
  BY <1>3, Zenon
<1>6. p \in Nat /\ start_idx[t] \in 0 .. length /\ cur_partition[t] \in 1 .. num_partition
  BY <1>3 DEF Sizes
<1>7. CASE /\ start_idx[t] < length /\ generateAt(t, start_idx[t], matrix[t])
           /\ UNCHANGED <<matrix, pos, cur_partition, exhausted>>
  <2>1. start_idx[t] \in 0 .. length - 1 /\ start_idx[t] # length
    BY <1>6, <1>7 DEF Sizes
  <2>2. generateAt(t, start_idx[t], PartAt(t, p))
    BY <1>5, <1>7
  <2>3. /\ start_idx' \in [Stocks -> 0 .. length] /\ given' = [u \in Stocks |-> given'[u]]
        /\ given'[t] = Prefix(Rows(t), p + start_idx'[t])
        /\ \A u \in Stocks : u # t => given'[u] = given[u] /\ start_idx'[u] = start_idx[u]
    BY <1>3, <1>5, <1>6, <2>1, <2>2, GenerateAtOK
  <2>4. Reads(t, p)'
    BY <1>5, <1>7, <2>1, <2>3
  <2>5. ASSUME NEW u \in Stocks
        PROVE  \E k \in 0 .. num_order : Reads(u, k)'
    <3>1. CASE u # t
      <4>1. PICK k \in 0 .. num_order : Reads(u, k)
        BY <1>3
      <4>2. Reads(u, k)'
        BY <1>7, <2>3, <3>1, <4>1
      <4> QED  BY <4>2
    <3> QED  BY <2>4, <3>1, Zenon
  <2> QED  BY <1>1, <1>2, <1>3, <1>7, <2>3, <2>5 DEF LoaderInv, GeneratorOK
<1>8. CASE /\ start_idx[t] >= length /\ MoreParts(t)
           /\ cur_partition' = [cur_partition EXCEPT ![t] = cur_partition[t] + 1]
           /\ matrix' = [matrix EXCEPT ![t] = Loaded(cache[t], pos[t], matrix[t])]
           /\ pos' = [pos EXCEPT ![t] = Advanced(pos[t])]
           /\ generateAt(t, 0, matrix'[t])
           /\ UNCHANGED exhausted
  <2> DEFINE c == cur_partition[t] + 1
             k == p + length
  <2>1. c \in 1 .. num_partition /\ cur_partition[t] # num_partition
    BY <1>6, <1>8 DEF MoreParts, Sizes
  <2>2. start_idx[t] = length /\ k \in Nat /\ k + 0 = k /\ 0 \in 0 .. length - 1
    BY <1>6, <1>8 DEF Sizes
  <2>3. k + length = c * length /\ c * length <= num_order /\ k \in 0 .. num_order
    <3>1. (c - 1) * length + length = c * length /\ c * length <= num_order /\ c - 1 = cur_partition[t]
      BY <1>6, <2>1, PartsFit
    <3>2. k = (c - 1) * length
      BY <1>5, <3>1
    <3> QED  BY <2>2, <3>1, <3>2 DEF Sizes
  <2>4. Loaded(cache[t], pos[t], matrix[t]) = PartAt(t, k)
    BY <1>4, <1>5, <2>2, <2>3, LoadedIs, ZenonT(30)
  <2>5. Advanced(pos[t]) = [m \in Matrices |-> k + length]
    BY <1>5 DEF Advanced
  <2> HIDE DEF c, k
  <2>6. /\ matrix' = [u \in Stocks |-> matrix'[u]] /\ matrix'[t] = PartAt(t, k)
        /\ pos' = [u \in Stocks |-> pos'[u]] /\ pos'[t] = [m \in Matrices |-> k + length]
        /\ \A u \in Stocks : u # t => matrix'[u] = matrix[u] /\ pos'[u] = pos[u]
    BY <1>3, <1>8, <2>4, <2>5, Zenon
  <2>7. /\ cur_partition' \in [Stocks -> 1 .. num_partition] /\ cur_partition'[t] = c
        /\ \A u \in Stocks : u # t => cur_partition'[u] = cur_partition[u]
    BY <1>3, <1>8, <2>1 DEF c
  <2>8. given[t] = Prefix(Rows(t), k + 0)
    BY <1>5, <2>2 DEF k
  <2>9. /\ start_idx' \in [Stocks -> 0 .. length] /\ given' = [u \in Stocks |-> given'[u]]
        /\ given'[t] = Prefix(Rows(t), k + start_idx'[t])
        /\ \A u \in Stocks : u # t => given'[u] = given[u] /\ start_idx'[u] = start_idx[u]
    <3>1. generateAt(t, 0, PartAt(t, k))
      BY <1>8, <2>6
    <3> QED  BY <1>3, <2>2, <2>8, <3>1, GenerateAtOK
  <2>10. Reads(t, k)'
    BY <1>5, <1>8, <2>1, <2>3, <2>6, <2>7, <2>9
  <2>11. ASSUME NEW u \in Stocks
         PROVE  \E j \in 0 .. num_order : Reads(u, j)'
    <3>1. CASE u # t
      <4>1. PICK j \in 0 .. num_order : Reads(u, j)
        BY <1>3
      <4>2. Reads(u, j)'
        BY <1>8, <2>6, <2>7, <2>9, <3>1, <4>1
      <4> QED  BY <4>2
    <3> QED  BY <2>3, <2>10, <3>1, ZenonT(30)
  <2> QED  BY <1>1, <1>2, <1>3, <1>8, <2>6, <2>7, <2>9, <2>11, Zenon DEF LoaderInv, GeneratorOK
<1>9. CASE /\ start_idx[t] >= length /\ ~MoreParts(t) /\ exhausted' = exhausted \cup {t}
           /\ UNCHANGED <<pos, matrix, start_idx, cur_partition, given>>
  <2>1. start_idx[t] = length /\ cur_partition[t] = num_partition
    BY <1>6, <1>9 DEF MoreParts, Sizes
  <2>2. ASSUME NEW u \in Stocks
        PROVE  \E j \in 0 .. num_order : Reads(u, j)'
    <3>1. PICK j \in 0 .. num_order : Reads(u, j)
      BY <1>3
    <3>2. Reads(u, j)'
      BY <1>9, <2>1, <3>1
    <3> QED  BY <3>2
  <2> QED  BY <1>1, <1>2, <1>3, <1>9, <2>2 DEF LoaderInv, GeneratorOK
<1> QED  BY <1>7, <1>8, <1>9 DEF generate_order, generator

LEMMA GenerateOK ==
  ASSUME Sizes, LoaderInv, NEW t \in Stocks, generate_order(t)
  PROVE  LoaderInv'
<1>1. CASE Complete
  BY <1>1, GenerateComplete
<1>2. CASE ~Complete
  <2>1. phase = "generate" /\ UNCHANGED <<phase, cache, next_sorted_struct_idx>>
    BY DEF generate_order
  <2>2. exhausted' \subseteq Stocks
    BY DEF generate_order, LoaderInv
  <2>3. \/ given' = given
        \/ \E order : given' = [given EXCEPT ![t] = Append(given[t], order)]
    BY Zenon DEF generate_order, generateAt, Give, generator
  <2>4. given' = [u \in Stocks |-> given'[u]]
    <3>1. given = [u \in Stocks |-> given[u]]
      BY DEF LoaderInv
    <3>2. CASE \E order : given' = [given EXCEPT ![t] = Append(given[t], order)]
      <4>1. PICK e : given' = [given EXCEPT ![t] = e]
        BY <3>2
      <4> QED  BY <3>1, <4>1, Zenon
    <3> QED  BY <2>3, <3>1, <3>2
  <2>5. GeneratorOK'
    BY <1>2, <2>1 DEF GeneratorOK, Complete
  <2>6. FilesOK' /\ MemoryOK'
    BY <2>1 DEF LoaderInv, FilesOK, MemoryOK
  <2> QED  BY <2>1, <2>2, <2>4, <2>5, <2>6 DEF LoaderInv
<1> QED  BY <1>1, <1>2

(* The invariant is inductive. *)
LEMMA LoaderInvNext ==
  ASSUME Sizes, LoaderInv, [Next]_vars
  PROVE  LoaderInv'
<1>1. CASE UNCHANGED vars
  BY <1>1, Zenon DEF vars, generator, LoaderInv, FilesOK, GeneratorOK, MemoryOK, Complete
<1>2. CASE Next
  BY <1>2, StartOK, EndOK, DumpOrderOK, GenerateOK, MemoryStepOK DEF Next
<1> QED  BY <1>1, <1>2

(* Division with remainder. *)
LEMMA DivMod ==
  ASSUME NEW a \in Nat, NEW k \in Nat \ {0}
  PROVE  \E q \in Nat, r \in 0 .. k - 1 : q = a \div k /\ r = a % k /\ a = q * k + r
<1>1. a \div k \in Nat /\ a % k \in 0 .. k - 1
  OBVIOUS
<1>2. PICK q \in Nat, r \in 0 .. k - 1 : q = a \div k /\ r = a % k
  BY <1>1
<1>3. r = a - k * q
  BY <1>2
<1>4. k * q = q * k /\ k * q \in Nat
  OBVIOUS
<1>5. a = q * k + r
  BY <1>3, <1>4
<1> QED  BY <1>2, <1>5, Zenon

LEMMA DivModUnique ==
  ASSUME NEW q \in Nat, NEW k \in Nat \ {0}, NEW r \in 0 .. k - 1
  PROVE  (q * k + r) \div k = q /\ (q * k + r) % k = r /\ q * k + r \in Nat
<1>1. PICK a \in Nat : a = q * k + r
  OBVIOUS
<1>2. PICK p \in Nat, s \in 0 .. k - 1 : p = a \div k /\ s = a % k /\ a = p * k + s
  BY DivMod, Zenon
<1>3. ~(p < q)
  <2> SUFFICES ASSUME p < q PROVE FALSE
    OBVIOUS
  <2>1. q * k >= (p + 1) * k /\ (p + 1) * k = p * k + k
    OBVIOUS
  <2>2. a = p * k + s
    BY <1>2
  <2> QED  BY <1>1, <2>1, <2>2
<1>4. ~(q < p)
  <2> SUFFICES ASSUME q < p PROVE FALSE
    OBVIOUS
  <2>1. p * k >= (q + 1) * k /\ (q + 1) * k = q * k + k
    OBVIOUS
  <2>2. a = p * k + s
    BY <1>2
  <2> QED  BY <1>1, <2>1, <2>2
<1>5. p = q
  BY <1>3, <1>4
<1>6. s = r
  <2>1. a = q * k + s
    BY <1>2, <1>5
  <2> QED  BY <1>1, <2>1
<1> QED  BY <1>1, <1>2, <1>5, <1>6, Zenon

(* A cell is a place in a box. *)
LEMMA PairInBox ==
  ASSUME NEW n \in Nat, NEW k \in Nat \ {0}, NEW q \in 0 .. n - 1, NEW r \in 0 .. k - 1
  PROVE  q * k + r \in 0 .. n * k - 1
<1>1. q * k + r >= 0 /\ q * k + r \in Int
  OBVIOUS
<1>2. (q + 1) * k <= n * k /\ (q + 1) * k = q * k + k
  OBVIOUS
<1> QED  BY <1>1, <1>2

LEMMA BoxPair ==
  ASSUME NEW n \in Nat, NEW k \in Nat \ {0}, NEW c \in 0 .. n * k - 1
  PROVE  \E q \in 0 .. n - 1, r \in 0 .. k - 1 : q = c \div k /\ r = c % k /\ c = q * k + r
<1>1. c \in Nat /\ c < n * k
  OBVIOUS
<1>3. PICK q \in Nat, r \in 0 .. k - 1 : q = c \div k /\ r = c % k /\ c = q * k + r
  BY <1>1, DivMod, Zenon
<1>4. q < n
  <2> SUFFICES ASSUME q >= n PROVE FALSE
    OBVIOUS
  <2>1. q * k >= n * k
    OBVIOUS
  <2>2. q * k \in Nat /\ n * k \in Nat /\ c = q * k + r
    BY <1>3
  <2> QED  BY <1>1, <2>1, <2>2
<1>5. q \in 0 .. n - 1
  BY <1>4
<1> QED  BY <1>3, <1>5, Zenon

(* Pairs are ordered by their first part, and then by the second. *)
LEMMA PairOrder ==
  ASSUME NEW k \in Nat \ {0}, NEW q \in Nat, NEW p \in Nat, NEW r \in 0 .. k - 1, NEW s \in 0 .. k - 1
  PROVE  q * k + r < p * k + s <=> q < p \/ (q = p /\ r < s)
<1>0. q * k \in Int /\ p * k \in Int
  OBVIOUS
<1>1. CASE q < p
  <2>1. p * k >= (q + 1) * k /\ (q + 1) * k = q * k + k
    BY <1>1
  <2> QED  BY <1>0, <1>1, <2>1
<1>2. CASE p < q
  <2>1. q * k >= (p + 1) * k /\ (p + 1) * k = p * k + k
    BY <1>2
  <2> QED  BY <1>0, <1>2, <2>1
<1>3. CASE p = q
  BY <1>0, <1>3
<1> QED  BY <1>1, <1>2, <1>3

(* The elements of a finite set can be numbered by their rank. *)
StrictOrder(L, S) ==
  /\ \A c \in S : <<c, c>> \notin L
  /\ \A c, d, e \in S : <<c, d>> \in L /\ <<d, e>> \in L => <<c, e>> \in L
  /\ \A c, d \in S : <<c, d>> \in L \/ <<d, c>> \in L \/ c = d

Below(L, S, c) == {d \in S : <<d, c>> \in L}

LEMMA Ranks ==
  ASSUME NEW S, IsFiniteSet(S), NEW L, StrictOrder(L, S), NEW i \in 0 .. Cardinality(S) - 1
  PROVE  \E c \in S : Cardinality(Below(L, S, c)) = i
<1> DEFINE R(c) == {d \in S : <<d, c>> \in L}
           n == Cardinality(S)
           f == [c \in S |-> Cardinality(R(c))]
<1>1. n \in Nat
  BY FS_CardinalityType
<1>2. ASSUME NEW c \in S
      PROVE  IsFiniteSet(R(c)) /\ Cardinality(R(c)) \in 0 .. n - 1
  <2>1. R(c) \in SUBSET S /\ c \notin R(c)
    BY DEF StrictOrder
  <2>2. IsFiniteSet(R(c)) /\ Cardinality(R(c)) <= n /\ Cardinality(R(c)) # n
    <3> HIDE DEF R
    <3> QED  BY <2>1, FS_Subset
  <2>3. Cardinality(R(c)) \in Nat
    BY <2>2, FS_CardinalityType
  <2> QED  BY <1>1, <2>2, <2>3
<1>3. ASSUME NEW c \in S, NEW d \in S, <<c, d>> \in L
      PROVE  Cardinality(R(c)) # Cardinality(R(d))
  <2>1. R(c) \in SUBSET R(d) /\ c \in R(d) /\ c \notin R(c)
    BY <1>3 DEF StrictOrder
  <2>2. IsFiniteSet(R(d))
    BY <1>2
  <2> HIDE DEF R
  <2>3. Cardinality(R(d)) = Cardinality(R(c)) => R(d) = R(c)
    BY <2>1, <2>2, FS_Subset
  <2> QED  BY <2>1, <2>3
<1>4. ASSUME NEW c \in S, NEW d \in S, Cardinality(R(c)) = Cardinality(R(d))
      PROVE  c = d
  <2>1. <<c, d>> \notin L /\ <<d, c>> \notin L
    BY <1>3, <1>4
  <2> QED  BY <2>1 DEF StrictOrder
<1> HIDE DEF R, n
<1>5. f \in Injection(S, 0 .. n - 1)
  BY <1>2, <1>4 DEF Injection, IsInjective
<1>6. IsFiniteSet(0 .. n - 1) /\ Cardinality(0 .. n - 1) = n
  <2>1. 0 \in Int /\ n - 1 \in Int
    BY <1>1
  <2>2. IsFiniteSet(0 .. n - 1) /\ Cardinality(0 .. n - 1) = IF 0 > n - 1 THEN 0 ELSE n - 1 - 0 + 1
    BY <2>1, FS_Interval, SMTT(30)
  <2> QED  BY <1>1, <2>2
<1>7. f \in Surjection(S, 0 .. n - 1)
  <2> HIDE DEF f
  <2>1. Cardinality(S) = Cardinality(0 .. n - 1)
    BY <1>6 DEF n
  <2> QED  BY <1>5, <1>6, <2>1, FS_Injection
<1>8. \E c \in S : f[c] = i
  <2>1. i \in 0 .. n - 1
    BY DEF n
  <2> HIDE DEF f
  <2> QED  BY <1>7, <2>1 DEF Surjection
<1>9. PICK c \in S : f[c] = i
  BY <1>8
<1>10. Cardinality(R(c)) = i
  BY <1>9
<1> QED  BY <1>10, Zenon DEF R, Below

(* How many numbers below n * k lie in the rows of one stock. *)
LEMMA RowsOfStock ==
  ASSUME NEW w \in Nat, NEW k \in Nat \ {0}, NEW s \in Nat \ {0}, NEW t \in 0 .. s - 1
  PROVE  LET C == {c \in 0 .. (w * s) * k - 1 : (c \div k) % s = t}
         IN  IsFiniteSet(C) /\ Cardinality(C) = w * k
<1> DEFINE C == {c \in 0 .. (w * s) * k - 1 : (c \div k) % s = t}
           P == (0 .. w - 1) \X (0 .. k - 1)
           cell(j, r) == (j * s + t) * k + r
           f == [p \in P |-> cell(p[1], p[2])]
<1>1. PICK n \in Nat : n = w * s
  OBVIOUS
<1>2. ASSUME NEW j \in 0 .. w - 1, NEW r \in 0 .. k - 1
      PROVE  /\ cell(j, r) \in C /\ cell(j, r) % k = r
             /\ (cell(j, r) \div k) \div s = j
  <2>1. j * s + t \in 0 .. w * s - 1
    BY PairInBox, Zenon
  <2>2. PICK x \in 0 .. n - 1 : x = j * s + t
    BY <1>1, <2>1
  <2>3. (j * s + t) \div s = j /\ (j * s + t) % s = t
    <3>1. j \in Nat
      OBVIOUS
    <3> QED  BY <3>1, DivModUnique, Zenon
  <2>4. x \div s = j /\ x % s = t
    BY <2>2, <2>3, Zenon
  <2>5. x * k + r \in 0 .. n * k - 1
    BY PairInBox, Zenon
  <2>6. (x * k + r) \div k = x /\ (x * k + r) % k = r
    <3>1. x \in Nat
      OBVIOUS
    <3> QED  BY <3>1, DivModUnique, Zenon
  <2>7. PICK c \in 0 .. n * k - 1 : c = x * k + r
    BY <2>5, Zenon
  <2>8. c \div k = x /\ c % k = r
    BY <2>6, <2>7, Zenon
  <2>9. c = cell(j, r)
    BY <2>2, <2>7, Zenon
  <2>10. c \in C
    BY <1>1, <2>4, <2>8, Zenon
  <2> HIDE DEF cell, C
  <2> QED  BY <2>4, <2>8, <2>9, <2>10, Zenon
<1>3. ASSUME NEW c \in C
      PROVE  \E j \in 0 .. w - 1, r \in 0 .. k - 1 : cell(j, r) = c
  <2>1. c \in 0 .. n * k - 1 /\ (c \div k) % s = t
    BY <1>1, Zenon
  <2>2. \E x \in 0 .. n - 1, r \in 0 .. k - 1 : x = c \div k /\ r = c % k /\ c = x * k + r
    BY <2>1, BoxPair, Zenon
  <2>3. PICK x \in 0 .. n - 1, r \in 0 .. k - 1 : x = c \div k /\ c = x * k + r
    BY <2>2, Zenon
  <2>4. x % s = t
    BY <2>1, <2>3, Zenon
  <2>5. x \in 0 .. w * s - 1
    BY <1>1, Zenon
  <2>6. \E j \in 0 .. w - 1, u \in 0 .. s - 1 : j = x \div s /\ u = x % s /\ x = j * s + u
    BY <2>5, BoxPair, Zenon
  <2>7. PICK j \in 0 .. w - 1 : x = j * s + t
    BY <2>4, <2>6, Zenon
  <2>8. cell(j, r) = c
    BY <2>3, <2>7, Zenon
  <2> QED  BY <2>8, Zenon
<1> HIDE DEF cell, C
<1>4. f \in Bijection(P, C)
  <2>1. f \in [P -> C]
    BY <1>2
  <2>2. ASSUME NEW p \in P, NEW q \in P, f[p] = f[q]
        PROVE  p = q
    <3>1. /\ p[1] \in 0 .. w - 1 /\ p[2] \in 0 .. k - 1 /\ q[1] \in 0 .. w - 1 /\ q[2] \in 0 .. k - 1
          /\ p = <<p[1], p[2]>> /\ q = <<q[1], q[2]>>
      OBVIOUS
    <3>2. PICK c : c = cell(p[1], p[2]) /\ c = cell(q[1], q[2])
      BY <2>2
    <3>3. c % k = p[2] /\ (c \div k) \div s = p[1]
      BY <1>2, <3>1, <3>2, Zenon
    <3>4. c % k = q[2] /\ (c \div k) \div s = q[1]
      BY <1>2, <3>1, <3>2, Zenon
    <3> HIDE DEF P, f
    <3> QED  BY <3>1, <3>3, <3>4, Zenon
  <2>3. ASSUME NEW c \in C
        PROVE  \E p \in P : f[p] = c
    <3>1. PICK j \in 0 .. w - 1, r \in 0 .. k - 1 : cell(j, r) = c
      BY <1>3, Zenon
    <3>2. <<j, r>> \in P /\ f[<<j, r>>] = c
      BY <3>1
    <3> QED  BY <3>2, Zenon
  <2>4. DOMAIN f = P
    OBVIOUS
  <2> HIDE DEF f, P
  <2> QED  BY <2>1, <2>2, <2>3, <2>4 DEF Bijection, Injection, Surjection, IsInjective
<1>5. IsFiniteSet(P) /\ Cardinality(P) = w * k
  <2>1. \A m \in Nat : IsFiniteSet(0 .. m - 1) /\ Cardinality(0 .. m - 1) = m
    <3> TAKE m \in Nat
    <3>1. 0 \in Int /\ m - 1 \in Int
      OBVIOUS
    <3>2. IsFiniteSet(0 .. m - 1) /\ Cardinality(0 .. m - 1) = IF 0 > m - 1 THEN 0 ELSE m - 1 - 0 + 1
      BY <3>1, FS_Interval
    <3> QED  BY <3>2
  <2>2. IsFiniteSet(0 .. w - 1) /\ Cardinality(0 .. w - 1) = w /\ IsFiniteSet(0 .. k - 1) /\ Cardinality(0 .. k - 1) = k
    BY <2>1
  <2>3. IsFiniteSet(P) /\ Cardinality(P) = Cardinality(0 .. w - 1) * Cardinality(0 .. k - 1)
    BY <2>2, FS_Product, Zenon
  <2> QED  BY <2>2, <2>3, Zenon
<1> HIDE DEF f, P
<1>6. IsFiniteSet(C) /\ Cardinality(C) = w * k
  BY <1>4, <1>5, FS_Bijection DEF ExistsBijection
<1> QED  BY <1>6 DEF C

(* The fields of a packed coordinate are read back as they were set. *)
Field == 0 .. 1023

LEMMA CoordinatesRoundTrip ==
  ASSUME NEW x \in Field, NEW y \in Field, NEW z \in Field
  PROVE  get_x(set(x, y, z)) = x /\ get_y(set(x, y, z)) = y /\ get_z(set(x, y, z)) = z
<1> USE DEF Field
<1>1. x % 1024 = x /\ y % 1024 = y /\ z % 1024 = z
  BY SMTT(30)
<1>2. set(x, y, z) = x * 1048576 + y * 1024 + z
  BY <1>1 DEF set
<1>3. set(x, y, z) \div 1048576 = x
  BY <1>2
<1>4. set(x, y, z) \div 1024 = x * 1024 + y
  BY <1>2
<1>5. set(x, y, z) % 1024 = z
  BY <1>2, SMTT(30)
<1>6. (x * 1024 + y) % 1024 = y
  BY SMTT(30)
<1> QED  BY <1>1, <1>3, <1>4, <1>5, <1>6 DEF get_x, get_y, get_z

(* The sizes of the matrices. *)
LEMMA Shape ==
  ASSUME DataOK
  PROVE  /\ NX \in Nat \ {0} /\ NY \in Nat \ {0} /\ NZ \in Nat \ {0}
         /\ NX <= 1024 /\ NY <= 1024 /\ NZ <= 1024 /\ stock_num \in Nat \ {0}
         /\ \E w \in Nat, k \in Nat \ {0} :
              k = NY * NZ /\ NX = w * stock_num /\ num_order = w * k /\ Cells = 0 .. NX * k - 1
<1>1. /\ NX \in Nat \ {0} /\ NY \in Nat \ {0} /\ NZ \in Nat \ {0}
      /\ NX <= 1024 /\ NY <= 1024 /\ NZ <= 1024 /\ stock_num \in Nat \ {0}
  BY DEF DataOK
<1>2. PICK k \in Nat \ {0} : k = NY * NZ
  <2>1. \A a, b \in Nat \ {0} : a * b \in Nat \ {0}
    OBVIOUS
  <2> QED  BY <1>1, <2>1
<1>3. NX * NY * NZ = NX * k
  <2>1. \A a, b, c \in Nat : a * b * c = a * (b * c)
    OBVIOUS
  <2> QED  BY <1>1, <1>2, <2>1
<1>4. PICK w \in Nat : NX = w * stock_num
  <2>1. NX \in Nat /\ stock_num \in Nat \ {0}
    BY <1>1
  <2>2. PICK w \in Nat, r \in 0 .. stock_num - 1 : w = NX \div stock_num /\ r = NX % stock_num /\ NX = w * stock_num + r
    BY <2>1, DivMod, Zenon
  <2>3. NX % stock_num = 0
    BY DEF DataOK
  <2>4. NX = w * stock_num + 0
    BY <2>2, <2>3, Zenon
  <2>5. NX = w * stock_num
    BY <2>1, <2>4
  <2> QED  BY <2>5
<1>5. (NX * k) \div stock_num = w * k
  <2>1. \A a, b, c \in Nat : (a * b) * c = (a * c) * b + 0 /\ a * c \in Nat
    OBVIOUS
  <2>2. NX * k = (w * k) * stock_num + 0 /\ w * k \in Nat
    BY <1>1, <1>4, <2>1
  <2>3. stock_num \in Nat \ {0} /\ 0 \in 0 .. stock_num - 1
    BY <1>1
  <2>4. PICK v \in Nat : v = w * k
    BY <2>2, Zenon
  <2>5. (v * stock_num + 0) \div stock_num = v
    BY <2>3, DivModUnique, Zenon
  <2> QED  BY <2>2, <2>4, <2>5, Zenon
<1>6. num_order = w * k
  BY <1>3, <1>5, Zenon DEF num_order
<1>7. Cells = 0 .. NX * k - 1
  BY <1>3, Zenon DEF Cells
<1> QED  BY <1>1, <1>2, <1>4, <1>6, <1>7

(* Every stock has num_order cells. *)
LEMMA CellCount ==
  ASSUME DataOK, NEW t \in Stocks
  PROVE  IsFiniteSet(CellsOf(t)) /\ Cardinality(CellsOf(t)) = num_order
<1>1. PICK w \in Nat, k \in Nat \ {0} :
        k = NY * NZ /\ NX = w * stock_num /\ num_order = w * k /\ Cells = 0 .. NX * k - 1
  BY Shape, ZenonT(30)
<1>2. stock_num \in Nat \ {0} /\ t \in 0 .. stock_num - 1
  BY Shape DEF Stocks
<1> DEFINE C == {c \in 0 .. (w * stock_num) * k - 1 : (c \div k) % stock_num = t}
<1>3. IsFiniteSet(C) /\ Cardinality(C) = w * k
  BY <1>2, RowsOfStock, Zenon
<1>4. CellsOf(t) = C
  BY <1>1, Zenon DEF CellsOf
<1> HIDE DEF C
<1> QED  BY <1>1, <1>3, <1>4, Zenon

(* A row of the matrix has NY * NZ cells. *)
LEMMA RowSize ==
  ASSUME DataOK
  PROVE  \E k \in Nat \ {0} : k = NY * NZ /\ Cells = 0 .. NX * k - 1
  BY Shape, ZenonT(30)

(* The place of a cell tells its coordinates. *)
Coor(c) == set(c \div (NY * NZ), (c % (NY * NZ)) \div NZ, (c % (NY * NZ)) % NZ)

LEMMA PlaceIs ==
  ASSUME DataOK, NEW x \in 0 .. NX - 1, NEW y \in 0 .. NY - 1, NEW z \in 0 .. NZ - 1
  PROVE  /\ Place(x, y, z) \in Cells /\ Place(x, y, z) \div (NY * NZ) = x
         /\ Coor(Place(x, y, z)) = set(x, y, z) /\ At(set(x, y, z)) = Place(x, y, z)
<1>1. PICK k \in Nat \ {0} : k = NY * NZ /\ Cells = 0 .. NX * k - 1
  BY RowSize, Zenon
<1>2. /\ NX \in Nat /\ NY \in Nat /\ NZ \in Nat \ {0} /\ x \in Nat /\ y \in Nat
      /\ x \in 0 .. 1023 /\ y \in 0 .. 1023 /\ z \in 0 .. 1023
  BY DEF DataOK
<1>3. y * NZ + z \in 0 .. NY * NZ - 1
  BY <1>2, PairInBox, ZenonT(30)
<1>4. PICK r \in 0 .. k - 1 : r = y * NZ + z
  BY <1>1, <1>3, Zenon
<1>5. (y * NZ + z) \div NZ = y /\ (y * NZ + z) % NZ = z
  <2>1. y \in Nat /\ NZ \in Nat \ {0}
    BY <1>2
  <2> QED  BY <2>1, DivModUnique, Zenon
<1>6. x * k + r \in 0 .. NX * k - 1
  BY <1>2, PairInBox, ZenonT(30)
<1>7. (x * k + r) \div k = x /\ (x * k + r) % k = r
  <2>1. x \in Nat
    BY <1>2
  <2> QED  BY <2>1, DivModUnique, Zenon
<1>8. Place(x, y, z) = x * k + r
  <2>1. \A a, b, c \in Nat : a + b + c = a + (b + c)
    OBVIOUS
  <2>2. x * k \in Nat /\ y * NZ \in Nat /\ z \in Nat
    BY <1>2
  <2>3. x * k + y * NZ + z = x * k + (y * NZ + z)
    BY <2>1, <2>2
  <2> QED  BY <1>1, <1>4, <2>3, Zenon DEF Place
<1>9. PICK c \in Cells : c = Place(x, y, z) /\ c \div k = x /\ c % k = r
  BY <1>1, <1>6, <1>7, <1>8, Zenon
<1>10. Coor(c) = set(x, y, z)
  BY <1>1, <1>4, <1>5, <1>9, Zenon DEF Coor
<1>11. At(set(x, y, z)) = Place(x, y, z)
  <2>1. get_x(set(x, y, z)) = x /\ get_y(set(x, y, z)) = y /\ get_z(set(x, y, z)) = z
    <3>1. x \in Field /\ y \in Field /\ z \in Field
      BY <1>2 DEF Field
    <3> QED  BY <3>1, CoordinatesRoundTrip, Zenon
  <2> QED  BY <2>1, Zenon DEF At
<1> QED  BY <1>1, <1>9, <1>10, <1>11, Zenon

LEMMA PlaceOf ==
  ASSUME DataOK, NEW c \in Cells
  PROVE  \E x \in 0 .. NX - 1, y \in 0 .. NY - 1, z \in 0 .. NZ - 1 : c = Place(x, y, z)
<1>1. PICK k \in Nat \ {0} : k = NY * NZ /\ Cells = 0 .. NX * k - 1
  BY RowSize, Zenon
<1>2. NX \in Nat /\ NY \in Nat /\ NZ \in Nat \ {0}
  BY DEF DataOK
<1>3. PICK x \in 0 .. NX - 1, r \in 0 .. k - 1 : x = c \div k /\ r = c % k /\ c = x * k + r
  <2>1. c \in 0 .. NX * k - 1 /\ NX \in Nat
    BY <1>1, <1>2, Zenon
  <2> QED  BY <2>1, BoxPair, Zenon
<1>4. r \in 0 .. NY * NZ - 1
  BY <1>1, Zenon
<1>5. PICK y \in 0 .. NY - 1, z \in 0 .. NZ - 1 : y = r \div NZ /\ z = r % NZ /\ r = y * NZ + z
  <2>1. NY \in Nat /\ NZ \in Nat \ {0}
    BY <1>2
  <2>2. \A d \in 0 .. NY * NZ - 1 : \E y \in 0 .. NY - 1, z \in 0 .. NZ - 1 :
                                      y = d \div NZ /\ z = d % NZ /\ d = y * NZ + z
    BY <2>1, BoxPair, Zenon
  <2> QED  BY <1>4, <2>2, Zenon
<1>6. x * k + (y * NZ + z) = x * k + y * NZ + z
  <2>1. \A a, b, d \in Nat : a + b + d = a + (b + d)
    OBVIOUS
  <2>2. x * k \in Nat /\ y * NZ \in Nat /\ z \in Nat
    BY <1>2
  <2> QED  BY <2>1, <2>2
<1>7. c = x * k + r /\ r = y * NZ + z
  BY <1>3, <1>5, Zenon
<1>8. c = Place(x, y, z)
  BY <1>1, <1>6, <1>7, Zenon DEF Place
<1> QED  BY <1>8, Zenon

(* Coordinates are ordered as the places of the cells are. *)
LEMMA CoorOrder ==
  ASSUME DataOK, NEW c \in Cells, NEW d \in Cells
  PROVE  Coor(d) < Coor(c) <=> d < c
<1>1. PICK k \in Nat \ {0} : k = NY * NZ /\ Cells = 0 .. NX * k - 1
  BY RowSize, Zenon
<1>2. NX \in Nat /\ NY \in Nat /\ NZ \in Nat \ {0} /\ NX <= 1024 /\ NY <= 1024 /\ NZ <= 1024
  BY DEF DataOK
<1>3. PICK x \in 0 .. NX - 1, y \in 0 .. NY - 1, z \in 0 .. NZ - 1 : c = Place(x, y, z)
  BY PlaceOf, Zenon
<1>4. PICK u \in 0 .. NX - 1, v \in 0 .. NY - 1, w \in 0 .. NZ - 1 : d = Place(u, v, w)
  BY PlaceOf, Zenon
<1>5. /\ x \in 0 .. 1023 /\ y \in 0 .. 1023 /\ z \in 0 .. 1023
      /\ u \in 0 .. 1023 /\ v \in 0 .. 1023 /\ w \in 0 .. 1023
  BY <1>2
<1>6. d < c <=> \/ u < x
                \/ u = x /\ (v < y \/ (v = y /\ w < z))
  <2>1. y * NZ + z \in 0 .. NY * NZ - 1 /\ v * NZ + w \in 0 .. NY * NZ - 1
    BY <1>2, PairInBox, ZenonT(30)
  <2>2. PICK r \in 0 .. k - 1, s \in 0 .. k - 1 : r = y * NZ + z /\ s = v * NZ + w
    BY <1>1, <2>1, Zenon
  <2>3. /\ x \in Nat /\ y \in Nat /\ z \in Nat /\ u \in Nat /\ v \in Nat /\ w \in Nat
    BY <1>5
  <2>4. c = x * k + r /\ d = u * k + s
    <3>1. \A a, b, e \in Nat : a + b + e = a + (b + e)
      OBVIOUS
    <3>2. x * k \in Nat /\ y * NZ \in Nat /\ u * k \in Nat /\ v * NZ \in Nat
      BY <1>2, <2>3
    <3>3. x * k + y * NZ + z = x * k + (y * NZ + z) /\ u * k + v * NZ + w = u * k + (v * NZ + w)
      BY <2>3, <3>1, <3>2
    <3> QED  BY <1>1, <1>3, <1>4, <2>2, <3>3, Zenon DEF Place
  <2>5. u * k + s < x * k + r <=> u < x \/ (u = x /\ s < r)
    BY <2>3, PairOrder, Zenon
  <2>6. v * NZ + w < y * NZ + z <=> v < y \/ (v = y /\ w < z)
    BY <1>2, <2>3, PairOrder, Zenon
  <2> QED  BY <2>2, <2>4, <2>5, <2>6, Zenon
<1>7. Coor(d) < Coor(c) <=> \/ u < x
                            \/ u = x /\ (v < y \/ (v = y /\ w < z))
  <2>1. Coor(c) = set(x, y, z) /\ Coor(d) = set(u, v, w)
    BY <1>3, <1>4, PlaceIs, Zenon
  <2>2. set(x, y, z) = x * 1048576 + y * 1024 + z /\ set(u, v, w) = u * 1048576 + v * 1024 + w
    <3>1. \A a \in 0 .. 1023 : a % 1024 = a
      BY SMTT(30)
    <3> QED  BY <1>5, <3>1 DEF set
  <2> QED  BY <1>5, <2>1, <2>2
<1> QED  BY <1>6, <1>7, Zenon

(* load_order_id_from_file makes one SortStruct of every cell of the stock. *)
Struct(c) == [order_id |-> Data[c], coor |-> Coor(c)]

LEMMA StructsOfCells ==
  ASSUME DataOK, NEW t \in Stocks
  PROVE  /\ SortStructs(t) = {Struct(c) : c \in CellsOf(t)}
         /\ \A c \in CellsOf(t) : c \in Cells /\ Coor(c) \in Nat /\ At(Coor(c)) = c
<1>1. ASSUME NEW x \in 0 .. NX - 1, NEW y \in 0 .. NY - 1, NEW z \in 0 .. NZ - 1, x % stock_num = t
      PROVE  \E c \in CellsOf(t) : Struct(c) = [order_id |-> Data[Place(x, y, z)], coor |-> set(x, y, z)]
  <2>1. PICK c \in Cells : c = Place(x, y, z) /\ c \div (NY * NZ) = x /\ Coor(c) = set(x, y, z)
    BY PlaceIs, Zenon
  <2>2. c \in CellsOf(t)
    BY <1>1, <2>1, Zenon DEF CellsOf
  <2>3. Struct(c) = [order_id |-> Data[Place(x, y, z)], coor |-> set(x, y, z)]
    BY <2>1 DEF Struct
  <2> QED  BY <2>2, <2>3, Zenon
<1>2. ASSUME NEW c \in CellsOf(t)
      PROVE  \E x \in 0 .. NX - 1, y \in 0 .. NY - 1, z \in 0 .. NZ - 1 :
               /\ x % stock_num = t /\ c = Place(x, y, z) /\ Coor(c) = set(x, y, z)
               /\ Struct(c) = [order_id |-> Data[Place(x, y, z)], coor |-> set(x, y, z)]
  <2>1. c \in Cells /\ (c \div (NY * NZ)) % stock_num = t
    BY Zenon DEF CellsOf
  <2>2. PICK x \in 0 .. NX - 1, y \in 0 .. NY - 1, z \in 0 .. NZ - 1 : c = Place(x, y, z)
    BY <2>1, PlaceOf, Zenon
  <2>3. Place(x, y, z) \div (NY * NZ) = x /\ Coor(Place(x, y, z)) = set(x, y, z)
    BY PlaceIs, Zenon
  <2>4. x % stock_num = t /\ Coor(c) = set(x, y, z)
    BY <2>1, <2>2, <2>3, Zenon
  <2>5. Struct(c) = [order_id |-> Data[Place(x, y, z)], coor |-> set(x, y, z)]
    BY <2>2, <2>4 DEF Struct
  <2> QED  BY <2>2, <2>4, <2>5, Zenon
<1>3. ASSUME NEW c \in CellsOf(t)
      PROVE  c \in Cells /\ Coor(c) \in Nat /\ At(Coor(c)) = c
  <2>1. PICK x \in 0 .. NX - 1, y \in 0 .. NY - 1, z \in 0 .. NZ - 1 : c = Place(x, y, z) /\ Coor(c) = set(x, y, z)
    BY <1>2, Zenon
  <2>2. At(set(x, y, z)) = Place(x, y, z)
    BY PlaceIs, Zenon
  <2>3. set(x, y, z) \in Nat
    BY DEF set, DataOK
  <2>4. c \in Cells
    BY Zenon DEF CellsOf
  <2> QED  BY <2>1, <2>2, <2>3, <2>4, Zenon
<1>4. ASSUME NEW a \in SortStructs(t)
      PROVE  \E c \in CellsOf(t) : a = Struct(c)
  <2>1. PICK x \in {r \in 0 .. NX - 1 : r % stock_num = t}, y \in 0 .. NY - 1, z \in 0 .. NZ - 1 :
          a = [order_id |-> Data[Place(x, y, z)], coor |-> set(x, y, z)]
    BY DEF SortStructs
  <2>2. x \in 0 .. NX - 1 /\ x % stock_num = t
    BY Zenon
  <2> QED  BY <1>1, <2>1, <2>2, Zenon
<1>5. ASSUME NEW c \in CellsOf(t)
      PROVE  Struct(c) \in SortStructs(t)
  <2>1. PICK x \in 0 .. NX - 1, y \in 0 .. NY - 1, z \in 0 .. NZ - 1 :
               /\ x % stock_num = t
               /\ Struct(c) = [order_id |-> Data[Place(x, y, z)], coor |-> set(x, y, z)]
    BY <1>2, Zenon
  <2>2. x \in {r \in 0 .. NX - 1 : r % stock_num = t}
    BY <2>1, Zenon
  <2> QED  BY <2>1, <2>2 DEF SortStructs
<1> QED  BY <1>3, <1>4, <1>5

(* Sorting puts at place i the order that i - 1 orders of the stock precede. *)
LEMMA SortedIs ==
  ASSUME DataOK, NEW t \in Stocks, NEW i \in 1 .. num_order
  PROVE  \E c \in CellsOf(t) :
           /\ \A m \in Matrices : Entry(sorted_order_id[t][i])[m] = IF m = "order_id" THEN Data[c] ELSE c
           /\ Cardinality({d \in CellsOf(t) : Precedes(d, c)}) = i - 1
<1> DEFINE S == CellsOf(t)
           Before(c) == {d \in S : Precedes(d, c)}
           Lower(a) == {b \in SortStructs(t) : Less(b, a)}
<1>1. IsFiniteSet(S) /\ Cardinality(S) = num_order
  BY CellCount, Zenon
<1>2. /\ SortStructs(t) = {Struct(c) : c \in S}
      /\ \A c \in S : c \in Cells /\ Coor(c) \in Nat /\ At(Coor(c)) = c
  BY StructsOfCells, Zenon
<1>3. \A c \in S : Data[c] \in Nat /\ c \in Int
  BY <1>2 DEF DataOK, Cells
<1>4. num_order \in Nat
  BY <1>1, FS_CardinalityType
<1>5. PICK e \in S : Cardinality(Before(e)) = i - 1
  <2>1. i - 1 \in 0 .. Cardinality(S) - 1
    BY <1>1, <1>4
  <2> DEFINE L == {p \in S \X S : Precedes(p[1], p[2])}
  <2>2. \A c, d \in S : <<d, c>> \in L <=> Precedes(d, c)
    OBVIOUS
  <2> HIDE DEF S, L
  <2>3. \A c, d \in S : ~Precedes(c, c) /\ (Precedes(c, d) \/ Precedes(d, c) \/ c = d)
    BY <1>3 DEF Precedes
  <2>4. \A c, d, e \in S : Precedes(c, d) /\ Precedes(d, e) => Precedes(c, e)
    BY <1>3 DEF Precedes
  <2>5. StrictOrder(L, S)
    BY <2>2, <2>3, <2>4, Zenon DEF StrictOrder
  <2>6. PICK e \in S : Cardinality(Below(L, S, e)) = i - 1
    <3>1. IsFiniteSet(S)
      BY <1>1
    <3>2. \A j \in 0 .. Cardinality(S) - 1 : \E c \in S : Cardinality(Below(L, S, c)) = j
      BY <2>5, <3>1, Ranks, SMT
    <3>3. PICK j \in 0 .. Cardinality(S) - 1 : j = i - 1
      BY <2>1
    <3>4. PICK c \in S : Cardinality(Below(L, S, c)) = j
      BY <3>2, Zenon
    <3> QED  BY <3>3, <3>4, Zenon
  <2>7. Before(e) = Below(L, S, e)
    BY <2>2 DEF Below
  <2> QED  BY <2>6, <2>7, Zenon
<1>6. ASSUME NEW c \in S
      PROVE  Cardinality(Lower(Struct(c))) = Cardinality(Before(c))
  <2> DEFINE g == [d \in Before(c) |-> Struct(d)]
  <2>1. IsFiniteSet(Before(c))
    <3>1. Before(c) \in SUBSET S
      OBVIOUS
    <3> HIDE DEF S, Before
    <3> QED  BY <1>1, <3>1, FS_Subset
  <2>2. ASSUME NEW d \in S
        PROVE  Less(Struct(d), Struct(c)) <=> Precedes(d, c)
    <3>1. Struct(d).order_id = Data[d] /\ Struct(c).order_id = Data[c]
          /\ Struct(d).coor = Coor(d) /\ Struct(c).coor = Coor(c)
      BY DEF Struct
    <3>2. Coor(d) < Coor(c) <=> d < c
      BY <1>2, CoorOrder, Zenon
    <3> QED  BY <3>1, <3>2, Zenon DEF Less, Precedes
  <2>3. ASSUME NEW d \in S, NEW u \in S, Struct(d) = Struct(u)
        PROVE  d = u
    <3>1. Coor(d) = Coor(u)
      BY <2>3 DEF Struct
    <3> QED  BY <1>2, <3>1, Zenon
  <2> HIDE DEF S
  <2>4. Lower(Struct(c)) = {Struct(d) : d \in Before(c)}
    BY <1>2, <2>2
  <2>5. g \in Bijection(Before(c), {Struct(d) : d \in Before(c)})
    BY <2>3 DEF Bijection, Injection, Surjection, IsInjective
  <2> HIDE DEF g, Before, Lower
  <2> QED  BY <2>1, <2>4, <2>5, FS_Bijection DEF ExistsBijection
<1>7. PICK a \in SortStructs(t) : a = sorted_order_id[t][i] /\ Cardinality(Lower(a)) = i - 1
  <2>1. sorted_order_id[t][i] = CHOOSE a \in SortStructs(t) : Cardinality(Lower(a)) = i - 1
    BY Zenon DEF sorted_order_id
  <2>2. \E a \in SortStructs(t) : Cardinality(Lower(a)) = i - 1
    <3> HIDE DEF S, Before, Lower
    <3> QED  BY <1>2, <1>5, <1>6
  <2> HIDE DEF Lower
  <2> QED  BY <2>1, <2>2
<1>8. PICK c \in S : a = Struct(c)
  <2> HIDE DEF S, Lower
  <2> QED  BY <1>2
<1>9. Cardinality(Before(c)) = i - 1
  <2> HIDE DEF S, Lower, Before
  <2> QED  BY <1>6, <1>7, <1>8
<1>10. \A m \in Matrices : Entry(a)[m] = IF m = "order_id" THEN Data[c] ELSE c
  <2>1. a.order_id = Data[c] /\ a.coor = Coor(c) /\ At(Coor(c)) = c
    BY <1>2, <1>8 DEF Struct
  <2> QED  BY <2>1 DEF Entry
<1> QED  BY <1>7, <1>9, <1>10, Zenon

-----------------------------------------------------------------------------
LEMMA SizesHold ==
  ASSUME num_partition <= num_order
  PROVE  DataOK /\ Sizes
<1>1. DataOK
  BY DataAssumption DEF DataOK
<1>2. PICK w \in Nat, k \in Nat \ {0} : num_order = w * k
  BY <1>1, Shape, ZenonT(30)
<1>3. num_order \in Nat
  BY <1>2
<1>4. num_partition \in Nat \ {0} /\ stock_num \in Nat \ {0}
  BY <1>1 DEF DataOK
<1>5. length \in Nat \ {0}
  <2>1. \A a \in Nat, b \in Nat \ {0} : b <= a => a \div b \in Nat \ {0}
    OBVIOUS
  <2> QED  BY <1>3, <1>4, <2>1 DEF length
<1> QED  BY <1>1, <1>3, <1>4, <1>5 DEF Sizes

(* What has been given is a first part of the sorted orders. *)
LEMMA GivenIsPrefix ==
  ASSUME Sizes, LoaderInv, Trusted, NEW t \in Stocks
  PROVE  \E n \in 0 .. num_order : given[t] = Prefix(Rows(t), n)
<1>1. CASE phase \in {"down", "dump"}
  <2>1. given[t] = Prefix(Rows(t), 0)
    BY <1>1, PrefixEmpty DEF LoaderInv
  <2> QED  BY <2>1 DEF Sizes
<1>2. CASE phase = "generate"
  <2>1. PICK p \in 0 .. num_order : /\ given[t] = Prefix(Rows(t), p + start_idx[t])
                                    /\ p + length = cur_partition[t] * length
    BY <1>2 DEF LoaderInv, GeneratorOK, Trusted
  <2>2. start_idx[t] \in 0 .. length /\ cur_partition[t] \in 1 .. num_partition
    BY <1>2 DEF LoaderInv, GeneratorOK, Trusted
  <2>3. cur_partition[t] * length <= num_order
    BY <2>2, PartsFit, Zenon
  <2>4. p + length <= num_order
    BY <2>1, <2>3, Zenon
  <2>5. p + start_idx[t] \in 0 .. num_order
    BY <2>2, <2>4 DEF Sizes
  <2> QED  BY <2>1, <2>5
<1>3. CASE phase = "memory"
  BY <1>3 DEF LoaderInv, MemoryOK
<1> QED  BY <1>1, <1>2, <1>3 DEF LoaderInv

(* A given order is the next of the sorted ones. *)
LEMMA GivenIs ==
  ASSUME Sizes, LoaderInv, Trusted, NEW t \in Stocks, NEW i \in DOMAIN given[t]
  PROVE  i \in 1 .. num_order /\ given[t][i] = Entry(sorted_order_id[t][i])
<1>1. PICK n \in 0 .. num_order : given[t] = Prefix(Rows(t), n)
  BY GivenIsPrefix
<1>2. n \in Nat
  OBVIOUS
<1>3. i \in 1 .. n
  BY <1>1, <1>2, PrefixAppend, SMTT(30)
<1>4. given[t][i] = Rows(t)[i]
  BY <1>1, <1>3 DEF Prefix
<1>5. i \in Nat /\ i \in 1 .. num_order
  BY <1>2, <1>3 DEF Sizes
<1> QED  BY <1>4, <1>5, RowIs, Zenon

(* Files, parts, positions and what has been given agree with the sorted    *)
(* orders, as long as no part is empty.                                     *)
THEOREM LoaderInvariant ==
  ASSUME num_partition <= num_order
  PROVE  Spec => []LoaderInv
<1>1. Sizes
  BY SizesHold
<1>2. Init => LoaderInv
  BY <1>1, LoaderInit
<1>3. LoaderInv /\ [Next]_vars => LoaderInv'
  BY <1>1, LoaderInvNext
<1> QED  BY <1>2, <1>3, PTL DEF Spec

(* generate_order() and run_all_in_memory() give the sorted orders one by   *)
(* one, none twice and none left out, also where ids are equal.             *)
THEOREM OrdersComeInTurn ==
  ASSUME num_partition <= num_order
  PROVE  Spec => []GivenInTurn
<1>1. LoaderInv => GivenInTurn
  BY SizesHold, GivenIs DEF GivenInTurn
<1> QED  BY <1>1, LoaderInvariant, PTL

(* The order given as i-th is the one that i - 1 orders of its stock        *)
(* precede, with the contents of its own cell: sorting, the packed          *)
(* coordinates, the dump and the partwise reading lose nothing.             *)
THEOREM OrdersComeSorted ==
  ASSUME num_partition <= num_order
  PROVE  Spec => []GivenSorted
<1>1. LoaderInv => GivenSorted
  <2> SUFFICES ASSUME LoaderInv, Trusted, NEW t \in Stocks, NEW i \in DOMAIN given[t]
               PROVE  \E c \in CellsOf(t) :
                        /\ \A m \in Matrices : given[t][i][m] = IF m = "order_id" THEN Data[c] ELSE c
                        /\ Cardinality({d \in CellsOf(t) : Precedes(d, c)}) = i - 1
    BY Zenon DEF GivenSorted
  <2>1. DataOK /\ Sizes
    BY SizesHold
  <2>2. i \in 1 .. num_order /\ given[t][i] = Entry(sorted_order_id[t][i])
    BY <2>1, GivenIs
  <2>3. \E c \in CellsOf(t) :
          /\ \A m \in Matrices : Entry(sorted_order_id[t][i])[m] = IF m = "order_id" THEN Data[c] ELSE c
          /\ Cardinality({d \in CellsOf(t) : Precedes(d, c)}) = i - 1
    BY <2>1, <2>2, SortedIs, Zenon
  <2> QED  BY <2>2, <2>3, Zenon
<1> QED  BY <1>1, LoaderInvariant, PTL

(* "no more order for this stock code" is said only when all have come, but *)
(* for the remainder of the division into parts, which is never read.       *)
THEOREM NoOrderIsLeft ==
  ASSUME num_partition <= num_order
  PROVE  Spec => []NoMoreMeansAll
<1>1. Sizes
  BY SizesHold
<1>2. num_partition * length = num_order - (num_order % num_partition) /\ num_partition * length \in Nat
  <2>1. num_order \in Nat /\ num_partition \in Nat \ {0}
    BY <1>1 DEF Sizes
  <2>2. PICK q \in Nat, r \in 0 .. num_partition - 1 :
          q = num_order \div num_partition /\ r = num_order % num_partition /\ num_order = q * num_partition + r
    BY <2>1, DivMod, Zenon
  <2>3. \A a, b, e \in Nat : a = b * num_partition + e => num_partition * b = a - e /\ num_partition * b \in Nat
    BY <2>1
  <2>4. num_partition * q = num_order - r /\ num_partition * q \in Nat
    BY <2>1, <2>2, <2>3
  <2> QED  BY <2>2, <2>4, Zenon DEF length
<1>3. LoaderInv => NoMoreMeansAll
  <2> SUFFICES ASSUME LoaderInv, Trusted, NEW t \in exhausted
               PROVE  Len(given[t]) = IF phase = "memory" THEN num_order
                                      ELSE num_order - (num_order % num_partition)
    BY DEF NoMoreMeansAll
  <2>1. t \in Stocks /\ phase \in {"generate", "memory"}
    BY DEF LoaderInv
  <2>2. CASE phase = "generate"
    <3>1. PICK p \in 0 .. num_order : /\ p + length = cur_partition[t] * length
                                      /\ given[t] = Prefix(Rows(t), p + start_idx[t])
                                      /\ cur_partition[t] = num_partition /\ start_idx[t] = length
      BY <2>1, <2>2 DEF LoaderInv, GeneratorOK, Trusted
    <3>2. p + start_idx[t] = num_partition * length
      BY <3>1
    <3>3. Len(given[t]) = num_partition * length
      BY <1>2, <3>1, <3>2, PrefixAppend, SMTT(30)
    <3> QED  BY <1>2, <2>2, <3>3
  <2>3. CASE phase = "memory"
    BY <2>1, <2>3, <1>1, PrefixAppend DEF LoaderInv, MemoryOK, Sizes
  <2> QED  BY <2>1, <2>2, <2>3
<1> QED  BY <1>3, LoaderInvariant, PTL
=============================================================================
