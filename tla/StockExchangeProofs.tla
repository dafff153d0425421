------------------------ MODULE StockExchangeProofs ------------------------
(***************************************************************************)
(* The declaration book never crosses, trades come out in id order and no  *)
(* volume is lost or made up, for every set of orders and every order of   *)
(* their arrival.                                                          *)
(***************************************************************************)
EXTENDS StockExchange, FiniteSetTheorems, WellFoundedInduction, TLAPS

-----------------------------------------------------------------------------
(* Every nonempty set of natural numbers has a least element. *)
LEMMA LeastNatural ==
  ASSUME NEW T, T \subseteq Nat, T # {}
  PROVE  \E x \in T : \A y \in T : x <= y
<1>1. PICK R : /\ \E x \in T : \A y \in T : ~(<<y, x>> \in R)
               /\ \A x, y \in Nat : y < x => <<y, x>> \in R
  <2>1. \E x \in T : \A y \in T : ~(<<y, x>> \in OpToRel(<, Nat))
    BY NatLessThanWellFounded, WFMin, Zenon
  <2>2. \A x, y \in Nat : y < x => <<y, x>> \in OpToRel(<, Nat)
    BY DEF OpToRel
  <2> QED  BY <2>1, <2>2, Zenon
<1>2. PICK x \in T : \A y \in T : ~(<<y, x>> \in R)
  BY <1>1, Zenon
<1>3. \A y \in T : ~(y < x)
  BY <1>1, <1>2, Zenon
<1>4. \A y \in T : x <= y
  BY <1>3
<1> QED  BY <1>4

(* Every nonempty set of subsets of a finite set has a minimal element. *)
LEMMA MinimalSubset ==
  ASSUME NEW S, IsFiniteSet(S), NEW T, T \subseteq SUBSET S, T # {}
  PROVE  \E x \in T : \A y \in T : y \subseteq x => y = x
<1>1. T \subseteq FiniteSubsetsOf(S)
  BY FS_FiniteSubsetsOfFinite
<1>2. IsWellFoundedOn(StrictSubsetOrdering(S), FiniteSubsetsOf(S))
  BY FS_StrictSubsetOrderingWellFounded
<1>3. PICK x \in T : \A y \in T : ~(<<y, x>> \in StrictSubsetOrdering(S))
  BY <1>1, <1>2, WFMin
<1>4. \A y \in T : y \subseteq x => y = x
  BY <1>3, Zenon DEF StrictSubsetOrdering
<1> QED  BY <1>4

-----------------------------------------------------------------------------
(* The sum of f over a set, as the folds of the community modules compute   *)
(* it: a table of the sums over all subsets, one element taken out after    *)
(* the other.                                                               *)
Pick(s) == CHOOSE x \in s : TRUE
SumTable(g, f, S) ==
  g = [s \in SUBSET S |-> IF s = {} THEN 0 ELSE f[Pick(s)] + g[s \ {Pick(s)}]]
SumOf(f, S) == (CHOOSE g : SumTable(g, f, S))[S]

(* Pick takes an element of a nonempty set. *)
LEMMA PickElement ==
  ASSUME NEW s, s # {}
  PROVE  Pick(s) \in s
  BY DEF Pick

(* What a table holds. *)
LEMMA TableEntry ==
  ASSUME NEW g, NEW f, NEW S, SumTable(g, f, S), NEW s \in SUBSET S
  PROVE  g[s] = IF s = {} THEN 0 ELSE f[Pick(s)] + g[s \ {Pick(s)}]
  BY DEF SumTable

(* Two tables agree on a set of which both know the elements. *)
LEMMA TablesAgree ==
  ASSUME NEW S, NEW T, NEW f, NEW h, NEW g, NEW k, SumTable(g, f, S), SumTable(k, h, T),
         NEW s, IsFiniteSet(s), s \subseteq S, s \subseteq T, \A x \in s : f[x] = h[x]
  PROVE  g[s] = k[s]
<1> DEFINE Bad == {u \in SUBSET s : g[u] # k[u]}
<1> SUFFICES ASSUME Bad # {} PROVE FALSE
  OBVIOUS
<1>0. Bad \subseteq SUBSET s
  OBVIOUS
<1>1. PICK u \in Bad : \A y \in Bad : y \subseteq u => y = u
  <2> HIDE DEF Bad
  <2> QED  BY <1>0, MinimalSubset
<1>2. u \subseteq s /\ g[u] # k[u]
  BY <1>1
<1>3. /\ g[u] = IF u = {} THEN 0 ELSE f[Pick(u)] + g[u \ {Pick(u)}]
      /\ k[u] = IF u = {} THEN 0 ELSE h[Pick(u)] + k[u \ {Pick(u)}]
  BY <1>2, TableEntry
<1>4. u # {} /\ Pick(u) \in u
  BY <1>2, <1>3, PickElement
<1>5. u \ {Pick(u)} \notin Bad
  BY <1>1, <1>4
<1>6. g[u \ {Pick(u)}] = k[u \ {Pick(u)}]
  BY <1>2, <1>5
<1>7. f[Pick(u)] = h[Pick(u)]
  BY <1>2, <1>4
<1> QED  BY <1>2, <1>3, <1>4, <1>6, <1>7

(* A table of the sums exists: the recursive definition has a solution. *)
LEMMA TableExists ==
  ASSUME NEW S, IsFiniteSet(S), NEW f
  PROVE  \E g : SumTable(g, f, S)
<1> DEFINE Bad == {u \in SUBSET S : ~\E g : SumTable(g, f, u)}
<1> SUFFICES ASSUME Bad # {} PROVE FALSE
  OBVIOUS
<1>0. Bad \subseteq SUBSET S
  OBVIOUS
<1>1. PICK T \in Bad : \A y \in Bad : y \subseteq T => y = T
  <2> HIDE DEF Bad
  <2> QED  BY <1>0, MinimalSubset
<1>2. T \subseteq S /\ ~\E g : SumTable(g, f, T)
  BY <1>1
<1>3. ASSUME NEW u, u \subseteq T, u # T
      PROVE  IsFiniteSet(u) /\ \E g : SumTable(g, f, u)
  <2>1. u \notin Bad
    BY <1>1, <1>3
  <2> QED  BY <1>2, <1>3, <2>1, FS_Subset
<1> HIDE DEF Bad
<1>4. ASSUME NEW u, u \subseteq T, u # T
      PROVE  SumOf(f, u) = IF u = {} THEN 0 ELSE f[Pick(u)] + SumOf(f, u \ {Pick(u)})
  <2>1. PICK g : SumTable(g, f, u) /\ SumOf(f, u) = g[u]
    BY <1>3, <1>4, Zenon DEF SumOf
  <2>2. g[u] = IF u = {} THEN 0 ELSE f[Pick(u)] + g[u \ {Pick(u)}]
    BY <2>1, TableEntry
  <2>3. ASSUME u # {} PROVE g[u \ {Pick(u)}] = SumOf(f, u \ {Pick(u)})
    <3> DEFINE w == u \ {Pick(u)}
    <3>1. w \subseteq u /\ w \subseteq T /\ w # T
      BY <1>4
    <3> HIDE DEF w
    <3>2. PICK k : SumTable(k, f, w) /\ SumOf(f, w) = k[w]
      BY <1>3, <3>1, Zenon DEF SumOf
    <3>3. IsFiniteSet(w)
      BY <1>3, <3>1
    <3>4. g[w] = k[w]
      BY <2>1, <3>1, <3>2, <3>3, TablesAgree
    <3> QED  BY <3>2, <3>4 DEF w
  <2> QED  BY <2>1, <2>2, <2>3
<1> DEFINE new == [s \in SUBSET T |-> IF s = {} THEN 0 ELSE f[Pick(s)] + SumOf(f, s \ {Pick(s)})]
<1>5. ASSUME NEW s \in SUBSET T, s # {} PROVE new[s \ {Pick(s)}] = SumOf(f, s \ {Pick(s)})
  <2> DEFINE u == s \ {Pick(s)}
  <2>1. u \subseteq T /\ u # T
    BY <1>5, PickElement
  <2> HIDE DEF u
  <2>2. new[u] = SumOf(f, u)
    BY <1>4, <2>1
  <2> QED  BY <2>2 DEF u
<1>6. SumTable(new, f, T)
  <2>1. \A s \in SUBSET T : new[s] = IF s = {} THEN 0 ELSE f[Pick(s)] + new[s \ {Pick(s)}]
    BY <1>5, Zenon
  <2>2. new = [s \in SUBSET T |-> new[s]]
    OBVIOUS
  <2> HIDE DEF new
  <2> QED  BY <2>1, <2>2, Zenon DEF SumTable
<1> QED  BY <1>2, <1>6

(* The sum is read from a table. *)
LEMMA SumFromTable ==
  ASSUME NEW S, IsFiniteSet(S), NEW f
  PROVE  \E g : SumTable(g, f, S) /\ SumOf(f, S) = g[S]
<1>1. \E g : SumTable(g, f, S)
  BY TableExists
<1> QED  BY <1>1, Zenon DEF SumOf

(* Nothing sums up to 0. *)
LEMMA SumEmpty ==
  ASSUME NEW f
  PROVE  SumOf(f, {}) = 0
  BY SumFromTable, TableEntry, FS_EmptySet

(* Only the values on the set matter. *)
LEMMA SumAgree ==
  ASSUME NEW S, IsFiniteSet(S), NEW f, NEW h, \A x \in S : f[x] = h[x]
  PROVE  SumOf(f, S) = SumOf(h, S)
<1>1. PICK g : SumTable(g, f, S) /\ SumOf(f, S) = g[S]
  BY SumFromTable
<1>2. PICK k : SumTable(k, h, S) /\ SumOf(h, S) = k[S]
  BY SumFromTable
<1> QED  BY <1>1, <1>2, TablesAgree

(* The sum of natural numbers is one. *)
LEMMA TableNat ==
  ASSUME NEW S, IsFiniteSet(S), NEW f, \A x \in S : f[x] \in Nat, NEW g, SumTable(g, f, S),
         NEW s \in SUBSET S
  PROVE  g[s] \in Nat
<1> DEFINE Bad == {u \in SUBSET S : g[u] \notin Nat}
<1> SUFFICES ASSUME Bad # {} PROVE FALSE
  OBVIOUS
<1>0. Bad \subseteq SUBSET S
  OBVIOUS
<1>1. PICK u \in Bad : \A y \in Bad : y \subseteq u => y = u
  <2> HIDE DEF Bad
  <2> QED  BY <1>0, MinimalSubset
<1>2. u \subseteq S /\ g[u] \notin Nat
  BY <1>1
<1>3. g[u] = IF u = {} THEN 0 ELSE f[Pick(u)] + g[u \ {Pick(u)}]
  BY <1>2, TableEntry, Zenon
<1>4. u # {} /\ Pick(u) \in u
  BY <1>2, <1>3, PickElement
<1>5. u \ {Pick(u)} \notin Bad
  BY <1>1, <1>4
<1>6. g[u \ {Pick(u)}] \in Nat
  BY <1>2, <1>5
<1>7. f[Pick(u)] \in Nat
  BY <1>2, <1>4
<1> QED  BY <1>2, <1>3, <1>4, <1>6, <1>7

(* Any element may be taken out first. *)
LEMMA TableSplit ==
  ASSUME NEW S, IsFiniteSet(S), NEW f, \A x \in S : f[x] \in Nat, NEW g, SumTable(g, f, S),
         NEW s \in SUBSET S, NEW e \in s
  PROVE  g[s] = f[e] + g[s \ {e}]
<1> DEFINE Bad == {u \in SUBSET S : \E x \in u : g[u] # f[x] + g[u \ {x}]}
<1> SUFFICES ASSUME Bad # {} PROVE FALSE
  BY Zenon
<1>0. Bad \subseteq SUBSET S
  OBVIOUS
<1>1. PICK u \in Bad : \A y \in Bad : y \subseteq u => y = u
  <2> HIDE DEF Bad
  <2> QED  BY <1>0, MinimalSubset
<1>2. PICK x \in u : g[u] # f[x] + g[u \ {x}]
  BY <1>1
<1> DEFINE c == Pick(u)  uc == u \ {c}  ux == u \ {x}  w == uc \ {x}
<1>3. u \subseteq S /\ u # {} /\ c \in u /\ g[u] = f[c] + g[uc]
  BY <1>1, TableEntry, PickElement
<1>4. c # x
  BY <1>2, <1>3, Zenon
<1>5. uc \notin Bad /\ ux \notin Bad
  BY <1>1, <1>2, <1>3, Zenon
<1>6. g[uc] = f[x] + g[w]
  BY <1>2, <1>3, <1>4, <1>5, Zenon
<1>7. w = ux \ {c}
  OBVIOUS
<1>8. g[ux] = f[c] + g[w]
  <2>1. ux \subseteq S /\ c \in ux
    BY <1>3, <1>4
  <2>2. g[ux] = f[c] + g[ux \ {c}]
    <3> HIDE DEF c, ux
    <3> QED  BY <1>5, <2>1, Zenon
  <2> QED  BY <1>7, <2>2, Zenon
<1>9. f[c] \in Nat /\ f[x] \in Nat /\ g[w] \in Nat
  BY <1>2, <1>3, TableNat
<1> HIDE DEF c, uc, ux, w, Bad
<1>10. g[u] # f[x] + g[ux]
  BY <1>2 DEF ux
<1> QED  BY <1>3, <1>6, <1>8, <1>9, <1>10

(* The sum of natural numbers is one. *)
LEMMA SumNat ==
  ASSUME NEW S, IsFiniteSet(S), NEW f, \A x \in S : f[x] \in Nat
  PROVE  SumOf(f, S) \in Nat
  BY SumFromTable, TableNat

(* The sum over a set is what one element has and the others sum up to. *)
LEMMA SumSplit ==
  ASSUME NEW S, IsFiniteSet(S), NEW f, \A x \in S : f[x] \in Nat, NEW e \in S
  PROVE  SumOf(f, S) = f[e] + SumOf(f, S \ {e})
<1> DEFINE T == S \ {e}
<1>1. T \subseteq S /\ IsFiniteSet(T)
  BY FS_RemoveElement
<1>2. PICK g : SumTable(g, f, S) /\ SumOf(f, S) = g[S]
  BY SumFromTable
<1>3. g[S] = f[e] + g[T]
  BY <1>2, TableSplit
<1> HIDE DEF T
<1>4. PICK k : SumTable(k, f, T) /\ SumOf(f, T) = k[T]
  BY <1>1, SumFromTable
<1>5. g[T] = k[T]
  BY <1>1, <1>2, <1>4, TablesAgree
<1>6. SumOf(f, S) = f[e] + SumOf(f, T)
  BY <1>2, <1>3, <1>4, <1>5
<1> QED  BY <1>6 DEF T

-----------------------------------------------------------------------------
(* A nonempty side of the book has a first record: what queryBuyFirst and   *)
(* querySellFirst return is determined by the contents of the side.         *)
LEMMA FirstExists ==
  ASSUME NEW side \in Sides, NEW records, records \subseteq Records,
         NEW bound \in Nat, \A r \in records : r.price <= bound,
         \A r, q \in records : r.order_id = q.order_id => r = q,
         records # {}
  PROVE  \E r \in records : IsFirst(side, records, r)
<1> DEFINE rank(r) == IF side = Buy THEN bound - r.price ELSE r.price
           ranks == {rank(r) : r \in records}
<1>1. \A r \in records : r.price \in Nat /\ r.order_id \in Nat /\ rank(r) \in Nat
  BY DEF Records
<1>2. ranks \subseteq Nat /\ ranks # {}
  BY <1>1
<1>3. PICK p \in ranks : \A y \in ranks : p <= y
  BY <1>2, LeastNatural, Zenon
<1> DEFINE ids == {r.order_id : r \in {r \in records : rank(r) = p}}
<1>4. ids \subseteq Nat /\ ids # {}
  BY <1>1, <1>3
<1>5. PICK n \in ids : \A y \in ids : n <= y
  BY <1>4, LeastNatural, Zenon
<1>6. PICK r \in records : rank(r) = p /\ r.order_id = n
  BY <1>5
<1>7. \A a, b \in records :
        /\ rank(a) = rank(b) => a.price = b.price
        /\ rank(a) < rank(b) => \/ side = Buy /\ a.price > b.price
                                \/ side = Sell /\ a.price < b.price
  BY <1>1 DEF Sides, Buy, Sell
<1>8. ASSUME NEW q \in records \ {r} PROVE Ahead(side, r, q)
  <2>1. p <= rank(q)
    BY <1>3
  <2>2. rank(q) = p => n <= q.order_id /\ n # q.order_id
    BY <1>5, <1>6
  <2> HIDE DEF rank, ranks, ids
  <2>3. CASE rank(q) = p
    BY <2>2, <2>3, <1>1, <1>6, <1>7 DEF Ahead
  <2>4. CASE rank(q) # p
    <3>1. p < rank(q)
      BY <2>1, <2>4, <1>1, <1>6
    <3> QED  BY <3>1, <1>6, <1>7 DEF Ahead
  <2> QED  BY <2>3, <2>4
<1> QED  BY <1>8 DEF IsFirst

-----------------------------------------------------------------------------
(* Volumes *)

(* The volume of a set of records is a sum. *)
LEMMA TotalAsSum ==
  ASSUME NEW S, IsFiniteSet(S)
  PROVE  TotalVolume(S) = SumOf([r \in S |-> r.volume], S)
<1> DEFINE f == [r \in S |-> r.volume]
           Table(g) == g = [s \in SUBSET S |->
                              IF s = {} THEN 0
                              ELSE (CHOOSE x \in s : TRUE).volume + g[s \ {CHOOSE x \in s : TRUE}]]
<1>1. TotalVolume(S) = (CHOOSE g : Table(g))[S]
  BY DEF TotalVolume, MapThenSumSet, MapThenFoldSet
<1>2. ASSUME NEW g PROVE Table(g) <=> SumTable(g, f, S)
  BY PickElement, Zenon DEF SumTable, Pick
<1> HIDE DEF Table, f
<1>3. \E g : SumTable(g, f, S)
  BY TableExists
<1>4. PICK g : SumTable(g, f, S) /\ TotalVolume(S) = g[S]
  <2>1. \E g : Table(g)
    BY <1>2, <1>3
  <2>2. Table(CHOOSE g : Table(g))
    BY <2>1, Zenon
  <2> QED  BY <1>1, <1>2, <2>2, Zenon
<1>5. PICK k : SumTable(k, f, S) /\ SumOf(f, S) = k[S]
  BY SumFromTable
<1>6. g[S] = k[S]
  BY <1>4, <1>5, TablesAgree
<1> QED  BY <1>4, <1>5, <1>6 DEF f

(* The trades that an order took part in, and the volumes of all trades. *)
IdTrades(list, id) == {i \in DOMAIN list : id \in {list[i].bid_id, list[i].ask_id}}
VolumesOf(list) == [i \in DOMAIN list |-> list[i].volume]
TradedIn(list, id) == MapThenSumSet(LAMBDA i : list[i].volume, IdTrades(list, id))

(* The volume that an order traded is a sum. *)
LEMMA TradedAsSum ==
  ASSUME NEW list, NEW id, IsFiniteSet(IdTrades(list, id))
  PROVE  TradedIn(list, id) = SumOf(VolumesOf(list), IdTrades(list, id))
<1> DEFINE f == VolumesOf(list)  S == IdTrades(list, id)
           Table(g) == g = [s \in SUBSET S |->
                              IF s = {} THEN 0
                              ELSE list[CHOOSE x \in s : TRUE].volume + g[s \ {CHOOSE x \in s : TRUE}]]
<1>1. TradedIn(list, id) = (CHOOSE g : Table(g))[S]
  BY DEF TradedIn, MapThenSumSet, MapThenFoldSet
<1>2. ASSUME NEW g PROVE Table(g) <=> SumTable(g, f, S)
  <2>1. S \subseteq DOMAIN list
    BY DEF IdTrades
  <2> HIDE DEF S
  <2> QED  BY <2>1, PickElement, Zenon DEF SumTable, Pick, VolumesOf
<1> HIDE DEF Table, f, S
<1>3. \E g : SumTable(g, f, S)
  BY TableExists DEF S
<1>4. PICK g : SumTable(g, f, S) /\ TradedIn(list, id) = g[S]
  <2>1. \E g : Table(g)
    BY <1>2, <1>3
  <2>2. Table(CHOOSE g : Table(g))
    BY <2>1, Zenon
  <2> QED  BY <1>1, <1>2, <2>2, Zenon
<1>5. PICK k : SumTable(k, f, S) /\ SumOf(f, S) = k[S]
  BY SumFromTable DEF S
<1>6. g[S] = k[S]
  BY <1>4, <1>5, TablesAgree DEF S
<1> QED  BY <1>4, <1>5, <1>6 DEF f, S

(* No records have no volume. *)
LEMMA TotalEmpty == TotalVolume({}) = 0
  BY TotalAsSum, SumEmpty, FS_EmptySet, Zenon

(* The volume of records is what one has and the others have together. *)
LEMMA TotalSplit ==
  ASSUME NEW S, IsFiniteSet(S), S \subseteq Records
  PROVE  /\ TotalVolume(S) \in Nat
         /\ \A r \in S : TotalVolume(S) = r.volume + TotalVolume(S \ {r})
<1> DEFINE f == [r \in S |-> r.volume]
<1>1. \A r \in S : f[r] \in Nat
  BY DEF Records
<1>2. TotalVolume(S) \in Nat
  BY <1>1, TotalAsSum, SumNat, Zenon
<1>3. ASSUME NEW r \in S PROVE TotalVolume(S) = r.volume + TotalVolume(S \ {r})
  <2> DEFINE T == S \ {r}  h == [q \in T |-> q.volume]
  <2>1. IsFiniteSet(T)
    BY FS_RemoveElement
  <2>2. SumOf(f, T) = SumOf(h, T)
    <3>1. \A q \in T : f[q] = h[q]
      OBVIOUS
    <3> HIDE DEF T, f, h
    <3> QED  BY <2>1, <3>1, SumAgree
  <2>3. SumOf(f, S) = f[r] + SumOf(f, T)
    BY <1>1, SumSplit
  <2>4. TotalVolume(S) = SumOf(f, S) /\ TotalVolume(T) = SumOf(h, T)
    BY <2>1, TotalAsSum
  <2> QED  BY <2>2, <2>3, <2>4
<1> QED  BY <1>2, <1>3

(* The volume of the records of one order. *)
VolumeAt(records, id) == TotalVolume({r \in records : r.order_id = id})

(* A record more adds its volume to its order's. *)
LEMMA VolumeAdd ==
  ASSUME NEW B, IsFiniteSet(B), B \subseteq Records, NEW r \in Records, r \notin B, NEW id
  PROVE  /\ VolumeAt(B, id) \in Nat
         /\ VolumeAt(B \cup {r}, id) = VolumeAt(B, id) + IF id = r.order_id THEN r.volume ELSE 0
<1> DEFINE S == {q \in B : q.order_id = id}
           T == {q \in B \cup {r} : q.order_id = id}
<1>1. IsFiniteSet(S) /\ S \subseteq Records
  BY FS_Subset
<1>2. TotalVolume(S) \in Nat /\ VolumeAt(B, id) = TotalVolume(S) /\ VolumeAt(B \cup {r}, id) = TotalVolume(T)
  BY <1>1, TotalSplit DEF VolumeAt
<1>3. CASE id = r.order_id
  <2>1. T = S \cup {r} /\ r \in T /\ T \ {r} = S
    BY <1>3
  <2> HIDE DEF S, T
  <2>2. IsFiniteSet(T) /\ T \subseteq Records
    BY <1>1, <2>1, FS_AddElement
  <2>3. TotalVolume(T) = r.volume + TotalVolume(S)
    BY <2>1, <2>2, TotalSplit
  <2>4. r.volume \in Nat
    BY DEF Records
  <2> QED  BY <1>2, <1>3, <2>3, <2>4
<1>4. CASE id # r.order_id
  <2>1. T = S
    BY <1>4
  <2> HIDE DEF S, T
  <2> QED  BY <1>2, <1>4, <2>1
<1> QED  BY <1>3, <1>4

(* A trade more adds its volume to that of both partners. *)
LEMMA TradedAppend ==
  ASSUME NEW list \in Seq(Trades), NEW t \in Trades, NEW id
  PROVE  /\ TradedIn(list, id) \in Nat
         /\ TradedIn(Append(list, t), id)
              = TradedIn(list, id) + IF id \in {t.bid_id, t.ask_id} THEN t.volume ELSE 0
<1> DEFINE more == Append(list, t)  n == Len(list) + 1
           S == IdTrades(list, id)  T == IdTrades(more, id)
           f == VolumesOf(list)  h == VolumesOf(more)
<1>1. /\ n \in Nat \ {0} /\ DOMAIN list = 1 .. n - 1 /\ more \in Seq(Trades)
      /\ DOMAIN more = 1 .. n /\ more[n] = t /\ \A i \in 1 .. n - 1 : more[i] = list[i]
      /\ \A i \in 1 .. n - 1 : list[i] \in Trades
  OBVIOUS
<1> HIDE DEF more, n
<1>2. S \subseteq 1 .. n - 1 /\ T \subseteq 1 .. n
  BY <1>1, Zenon DEF IdTrades
<1>3. IsFiniteSet(S) /\ IsFiniteSet(T)
  <2>1. IsFiniteSet(1 .. n - 1) /\ IsFiniteSet(1 .. n)
    BY <1>1, FS_Interval
  <2> HIDE DEF S, T
  <2> QED  BY <1>2, <2>1, FS_Subset, Zenon
<1>4. /\ \A i \in S : f[i] \in Nat /\ f[i] = h[i]
      /\ n \notin S /\ h[n] = t.volume /\ t.volume \in Nat
  <2>1. \A i \in 1 .. n - 1 : f[i] = list[i].volume
    BY <1>1, Zenon DEF VolumesOf
  <2>2. \A i \in 1 .. n : h[i] = more[i].volume
    BY <1>1, Zenon DEF VolumesOf
  <2>3. \A x \in Trades : x.volume \in Nat
    BY DEF Trades
  <2>4. n \in 1 .. n /\ n \notin 1 .. n - 1 /\ 1 .. n - 1 \subseteq 1 .. n
    BY <1>1
  <2> HIDE DEF f, h, S, T
  <2>5. \A i \in S : f[i] \in Nat /\ f[i] = h[i]
    BY <1>1, <1>2, <2>1, <2>2, <2>3, <2>4, SMTT(30)
  <2> QED  BY <1>1, <1>2, <2>2, <2>3, <2>4, <2>5
<1>5. IF id \in {t.bid_id, t.ask_id} THEN T = S \cup {n} ELSE T = S
  <2>1. \A i : i \in S <=> i \in 1 .. n - 1 /\ id \in {list[i].bid_id, list[i].ask_id}
    BY <1>1, Zenon DEF IdTrades
  <2>2. \A i : i \in T <=> i \in 1 .. n /\ id \in {more[i].bid_id, more[i].ask_id}
    BY <1>1, Zenon DEF IdTrades
  <2> HIDE DEF S, T
  <2>3. n \in Nat \ {0}
    BY <1>1
  <2>4. 1 .. n = (1 .. n - 1) \cup {n} /\ n \notin 1 .. n - 1
    BY <2>3
  <2>5. n \notin S /\ (n \in T <=> id \in {t.bid_id, t.ask_id})
    BY <1>1, <2>1, <2>2, <2>4
  <2>6. ASSUME NEW i, i # n PROVE i \in T <=> i \in S
    <3>1. i \in 1 .. n - 1 => more[i] = list[i]
      BY <1>1
    <3>2. i \in 1 .. n <=> i \in 1 .. n - 1
      BY <2>4, <2>6
    <3> QED  BY <2>1, <2>2, <3>1, <3>2, Zenon
  <2>7. ASSUME id \in {t.bid_id, t.ask_id} PROVE T = S \cup {n}
    BY <2>5, <2>6, <2>7
  <2>8. ASSUME id \notin {t.bid_id, t.ask_id} PROVE T = S
    <3>1. \A i : i \in T <=> i \in S
      BY <2>5, <2>6, <2>8
    <3> QED  BY <3>1, Zenon
  <2> QED  BY <2>7, <2>8
<1>6. TradedIn(list, id) = SumOf(f, S) /\ TradedIn(more, id) = SumOf(h, T)
  BY <1>3, TradedAsSum
<1> HIDE DEF f, h, S, T
<1>7. SumOf(f, S) \in Nat /\ SumOf(f, S) = SumOf(h, S)
  BY <1>3, <1>4, SumNat, SumAgree
<1>8. CASE id \in {t.bid_id, t.ask_id}
  <2>1. n \in T /\ T \ {n} = S /\ \A i \in T : h[i] \in Nat
    BY <1>4, <1>5, <1>8
  <2>2. SumOf(h, T) = h[n] + SumOf(h, S)
    BY <1>3, <2>1, SumSplit
  <2>3. TradedIn(more, id) = TradedIn(list, id) + t.volume
    BY <1>4, <1>6, <1>7, <2>2
  <2> QED  BY <1>6, <1>7, <1>8, <2>3 DEF more
<1>9. CASE id \notin {t.bid_id, t.ask_id}
  <2>1. TradedIn(more, id) = TradedIn(list, id) + 0
    BY <1>5, <1>6, <1>7, <1>9
  <2> QED  BY <1>6, <1>7, <1>9, <2>1 DEF more
<1> QED  BY <1>8, <1>9

(* An order without trades has traded nothing. *)
LEMMA TradedNone ==
  ASSUME NEW list, NEW id, IdTrades(list, id) = {}
  PROVE  TradedIn(list, id) = 0
  BY TradedAsSum, SumEmpty, FS_EmptySet

-----------------------------------------------------------------------------
USE OrdersAssumption

(* The empty book satisfies the invariant. *)
LEMMA BookInvInit == Init => BookInv
BY DEF Init, BookInv, TypeOK, BookUncrossed, RecordsSound, IdsUnique, CurrentIsNext,
       LimitIsBest, TradesInIdOrder, TakersCommitted, Sides, Buy, Sell, Handling

(* The two sides are each other's counterparty. *)
LEMMA OppositeSide ==
  ASSUME NEW side \in Sides
  PROVE  -side \in Sides /\ -side # side
BY DEF Sides, Buy, Sell

(* What the fields of the current order are. *)
LEMMA OrderType ==
  ASSUME NEW o \in Orders
  PROVE  /\ o.order_id \in Nat /\ o.direction \in Int /\ o.type \in Int
         /\ o.price \in Nat /\ o.volume \in Nat /\ o.volume > 0
         /\ o.type = 0 => o.price \in 1 .. upper_limit
         /\ o # NoOrder
OBVIOUS

(* A handler that leaves the book alone and returns. *)
LEMMA ReturnInv ==
  ASSUME BookInv, order # NoOrder, NEW s \in Int, NEW r \in {0, -1},
         Return(s, r), UNCHANGED decl_book
  PROVE  BookInv'
<1>1. TypeOK'
  BY DEF BookInv, TypeOK, Return
<1>2. BookUncrossed' /\ IdsUnique'
  BY DEF BookInv, BookUncrossed, IdsUnique
<1>3. RecordsSound'
  <2> SUFFICES ASSUME NEW side \in Sides, NEW q \in decl_book[side]
               PROVE  /\ q.price \in 1 .. upper_limit /\ q.volume > 0
                      /\ q.order_id <= last_commit_order_id'
    BY DEF RecordsSound
  <2>1. q.order_id \in Nat
    BY DEF BookInv, TypeOK, Records
  <2> QED  BY <2>1 DEF BookInv, TypeOK, RecordsSound, Return
<1>4. CurrentIsNext' /\ LimitIsBest'
  BY DEF CurrentIsNext, LimitIsBest, Handling, Return
<1>5. TradesInIdOrder'
  BY DEF BookInv, TradesInIdOrder, Return
<1>6. TakersCommitted'
  BY DEF BookInv, TypeOK, TakersCommitted, Return
<1> QED  BY <1>1, <1>2, <1>3, <1>4, <1>5, <1>6 DEF BookInv

(* A handler that puts its remainder into the book, at a price that no      *)
(* record of the counterparty meets, and returns.                           *)
LEMMA InsertInv ==
  ASSUME BookInv, order # NoOrder, d \in Sides, NEW p \in 1 .. upper_limit,
         NEW s \in Int, NEW r \in {0, -1},
         left_volume # 0 => \A q \in Counter : IF d = Buy THEN p < q.price ELSE q.price < p,
         InsertRemainder(p), Return(s, r)
  PROVE  BookInv'
<1>1. CASE left_volume = 0
  BY <1>1, ReturnInv DEF InsertRemainder
<1>2. CASE left_volume # 0
  <2> DEFINE new == [order_id |-> order.order_id, price |-> p, volume |-> left_volume]
  <2>1. /\ order \in Orders /\ order.order_id = last_commit_order_id + 1
        /\ left_volume \in Nat /\ left_volume > 0
        /\ last_commit_order_id \in Nat
        /\ decl_book \in [Sides -> SUBSET Records]
    BY <1>2 DEF BookInv, TypeOK, CurrentIsNext
  <2>2. new \in Records /\ new.price = p /\ new.volume = left_volume
        /\ new.order_id = last_commit_order_id + 1
    BY <2>1 DEF Records
  <2> HIDE DEF new
  <2>3. decl_book' = [decl_book EXCEPT ![d] = @ \cup {new}]
    BY <1>2 DEF InsertRemainder, InsertDecl, new
  <2>4. /\ decl_book' \in [Sides -> SUBSET Records]
        /\ \A side \in Sides : \A q \in decl_book'[side] :
             q \in decl_book[side] \/ (side = d /\ q = new)
    BY <2>1, <2>2, <2>3
  <2>5. last_commit_order_id' = last_commit_order_id + 1
    BY DEF Return
  <2>6. \A side \in Sides : \A q \in decl_book[side] :
          /\ q.order_id \in Nat /\ q.price \in Nat
          /\ q.order_id <= last_commit_order_id
          /\ q.price \in 1 .. upper_limit /\ q.volume > 0
    BY <2>1 DEF BookInv, RecordsSound, Records
  <2>7. TypeOK'
    BY <2>4, <2>1, SMTT(30) DEF BookInv, TypeOK, Return
  <2>8. BookUncrossed'
    <3> SUFFICES ASSUME NEW b \in decl_book'[Buy], NEW a \in decl_book'[Sell]
                 PROVE  b.price < a.price
      BY DEF BookUncrossed
    <3>1. CASE b \in decl_book[Buy] /\ a \in decl_book[Sell]
      BY <3>1 DEF BookInv, BookUncrossed
    <3>2. CASE b = new /\ d = Buy
      <4>1. a \in decl_book[Sell] /\ -d = Sell
        BY <2>4, <3>2 DEF Sides, Buy, Sell
      <4> QED  BY <4>1, <3>2, <1>2, <2>2 DEF Counter
    <3>3. CASE a = new /\ d = Sell
      <4>0. -d = Buy /\ d # Buy /\ Buy \in Sides
        <5>1. -d \in Sides /\ -d # d
          BY OppositeSide
        <5> QED  BY <5>1, <3>3 DEF Sides
      <4>1. b \in decl_book[Buy]
        BY <4>0, <2>4
      <4> QED  BY <4>0, <4>1, <3>3, <1>2, <2>2 DEF Counter
    <3> QED  BY <3>1, <3>2, <3>3, <2>4 DEF Sides, Buy, Sell
  <2>9. RecordsSound'
    <3> SUFFICES ASSUME NEW side \in Sides, NEW q \in decl_book'[side]
                 PROVE  /\ q.price \in 1 .. upper_limit /\ q.volume > 0
                        /\ q.order_id <= last_commit_order_id'
      BY DEF RecordsSound
    <3>1. q \in decl_book[side] \/ q = new
      BY <2>4
    <3> QED  BY <3>1, <2>1, <2>2, <2>5, <2>6
  <2>10. IdsUnique'
    <3> SUFFICES ASSUME NEW side \in Sides, NEW q1 \in decl_book'[side], NEW q2 \in decl_book'[side],
                        q1.order_id = q2.order_id
                 PROVE  q1 = q2
      BY DEF IdsUnique
    <3>1. (q1 \in decl_book[side] \/ q1 = new) /\ (q2 \in decl_book[side] \/ q2 = new)
      BY <2>4
    <3>2. \A q \in decl_book[side] : q.order_id # new.order_id
      BY <2>1, <2>2, <2>6
    <3> QED  BY <3>1, <3>2 DEF BookInv, IdsUnique
  <2>11. CurrentIsNext' /\ LimitIsBest'
    BY DEF CurrentIsNext, LimitIsBest, Handling, Return
  <2>12. TradesInIdOrder'
    BY DEF BookInv, TradesInIdOrder, Return
  <2>13. TakersCommitted'
    BY DEF BookInv, TypeOK, TakersCommitted, Return
  <2> QED  BY <2>7, <2>8, <2>9, <2>10, <2>11, <2>12, <2>13 DEF BookInv
<1> QED  BY <1>1, <1>2

(* One round of a matching loop. *)
LEMMA MatchInv ==
  ASSUME BookInv, order # NoOrder, d \in Sides, left_volume # 0,
         NEW r \in Counter, NEW p \in Nat, Match(r, p),
         t_price' = t_price, level_count' \in 0 .. MaxLevels, previous_price' \in Nat
  PROVE  BookInv'
<1> DEFINE v == IF left_volume < r.volume THEN left_volume ELSE r.volume
           rest == [r EXCEPT !.volume = @ - left_volume]
           trade == trade_list'[Len(trade_list) + 1]
<1>1. /\ order \in Orders /\ order.order_id = last_commit_order_id + 1
      /\ left_volume \in Nat /\ left_volume > 0
      /\ last_commit_order_id \in Nat
      /\ decl_book \in [Sides -> SUBSET Records]
      /\ trade_list \in Seq(Trades)
  BY DEF BookInv, TypeOK, CurrentIsNext
<1>2. -d \in Sides /\ -d # d
  BY OppositeSide
<1>3. r \in decl_book[-d] /\ r \in Records /\ r.order_id \in Nat /\ r.price \in Nat
      /\ r.volume \in Nat /\ r.volume > 0 /\ r.order_id <= last_commit_order_id
  BY <1>1, <1>2 DEF Counter, Records, BookInv, RecordsSound
<1>4. ASSUME left_volume < r.volume
      PROVE  /\ rest \in Records /\ rest.volume = r.volume - left_volume
             /\ rest.order_id = r.order_id /\ rest.price = r.price
             /\ rest.volume > 0
  <2> DEFINE w == r.volume - left_volume
  <2>1. w \in Nat /\ w > 0
    <3>1. left_volume \in Nat /\ r.volume \in Nat /\ left_volume < r.volume
      BY <1>1, <1>3, <1>4
    <3> HIDE DEF BookInv
    <3> QED  BY <3>1
  <2>2. rest = [r EXCEPT !.volume = w]
    OBVIOUS
  <2> HIDE DEF w, rest
  <2>3. rest \in Records /\ rest.volume = w /\ rest.order_id = r.order_id /\ rest.price = r.price
    BY <2>1, <2>2, <1>3 DEF Records
  <2> QED  BY <2>1, <2>3 DEF w
<1>5. v \in Nat /\ left_volume - v \in Nat
  BY <1>1, <1>3, SMTT(30)
<1> HIDE DEF rest
(* What the book loses, and that at most the reduced record is new. *)
<1>6. /\ decl_book' \in [Sides -> SUBSET Records]
      /\ \A side \in Sides : \A q \in decl_book'[side] :
           \/ q \in decl_book[side] \ {r}
           \/ q \in decl_book[side] /\ side = d
           \/ side = -d /\ left_volume < r.volume /\ q = rest
  <2>1. CASE left_volume < r.volume
    <3>1. decl_book' = [decl_book EXCEPT ![-d] = (@ \ {r}) \cup {rest}]
      BY <2>1 DEF Match, ReduceDecl, rest
    <3> QED  BY <3>1, <2>1, <1>1, <1>2, <1>4 DEF Sides
  <2>2. CASE ~(left_volume < r.volume)
    <3>1. decl_book' = [decl_book EXCEPT ![-d] = @ \ {r}]
      BY <2>2 DEF Match, RemoveDecl
    <3> QED  BY <3>1, <1>1, <1>2 DEF Sides
  <2> QED  BY <2>1, <2>2
<1>7. \A side \in Sides : \A q \in decl_book'[side] :
        \E q0 \in decl_book[side] :
          /\ q.price = q0.price /\ q.order_id = q0.order_id
          /\ q.volume > 0
  BY SMTT(30), <1>1, <1>3, <1>4, <1>6 DEF BookInv, RecordsSound
<1>8. TypeOK'
  <2>1. trade_list' \in Seq(Trades)
    BY <1>1, <1>3, <1>5 DEF Match, Trades
  <2>2. left_volume' \in Nat
    BY <1>5 DEF Match
  <2> QED  BY <2>1, <2>2, <1>6, Zenon DEF BookInv, TypeOK, Match
<1>9. BookUncrossed'
  BY <1>7 DEF BookInv, BookUncrossed, Sides
<1>10. RecordsSound'
  BY <1>7, SMTT(30) DEF BookInv, RecordsSound, Match
<1>11. IdsUnique'
  <2> SUFFICES ASSUME NEW side \in Sides, NEW q1 \in decl_book'[side], NEW q2 \in decl_book'[side],
                      q1.order_id = q2.order_id
               PROVE  q1 = q2
    BY DEF IdsUnique
  <2>1. \A a, b \in decl_book[side] : a.order_id = b.order_id => a = b
    BY DEF BookInv, IdsUnique
  <2>2. CASE side = d
    BY <2>1, <2>2, <1>2, <1>6
  <2>3. CASE side # d
    <3>1. side = -d
      BY <2>3, <1>2 DEF Sides
    <3>2. r \in decl_book[side] /\ (left_volume < r.volume => rest.order_id = r.order_id)
      BY <3>1, <1>3, <1>4
    <3>3. \A q \in decl_book'[side] :
            \/ q \in decl_book[side] \ {r}
            \/ left_volume < r.volume /\ q = rest
      BY <1>6, <2>3
    <3> QED  BY <2>1, <3>2, <3>3
  <2> QED  BY <2>2, <2>3
<1>12. CurrentIsNext'
  BY DEF BookInv, CurrentIsNext, Match
<1>13. LimitIsBest'
  <2> SUFFICES ASSUME Handling(1), t_price # 0
               PROVE  /\ t_price <= upper_limit
                      /\ \A q \in decl_book'[-d] : IF d = Buy THEN t_price <= q.price ELSE q.price <= t_price
                      /\ \A q \in decl_book'[d] : IF d = Buy THEN q.price < t_price ELSE t_price < q.price
    BY Zenon DEF LimitIsBest, Match, Handling, Own, Counter, d
  <2> QED  BY SMTT(30), <1>2, <1>7 DEF BookInv, LimitIsBest, Own, Counter
<1>14. /\ trade_list' = Append(trade_list, trade)
       /\ trade \in Trades
       /\ Taker(trade) = last_commit_order_id + 1
  BY <1>1, <1>3, <1>5, SMTT(30) DEF Match, Taker, Trades
<1> HIDE DEF trade
<1>15. /\ DOMAIN trade_list' = 1 .. Len(trade_list) + 1
       /\ DOMAIN trade_list = 1 .. Len(trade_list)
       /\ \A i \in 1 .. Len(trade_list) : trade_list'[i] = trade_list[i]
       /\ trade_list'[Len(trade_list) + 1] = trade
       /\ Len(trade_list) \in Nat
  BY <1>1, <1>14, SMTT(30)
<1>16. \A i \in DOMAIN trade_list' : Taker(trade_list'[i]) <= last_commit_order_id + 1
  BY <1>1, <1>14, <1>15, SMTT(30) DEF BookInv, TakersCommitted
<1>17. TakersCommitted'
  BY <1>16 DEF TakersCommitted, Match
<1>18. TradesInIdOrder'
  <2> SUFFICES ASSUME NEW i \in DOMAIN trade_list', NEW j \in DOMAIN trade_list', i < j
               PROVE  Taker(trade_list'[i]) <= Taker(trade_list'[j])
    BY DEF TradesInIdOrder
  <2>1. CASE j = Len(trade_list) + 1
    BY <2>1, <1>14, <1>15, <1>16
  <2>2. CASE j # Len(trade_list) + 1
    BY <2>2, <1>15 DEF BookInv, TradesInIdOrder
  <2> QED  BY <2>1, <2>2
<1> QED  BY <1>8, <1>9, <1>10, <1>11, <1>12, <1>13, <1>17, <1>18 DEF BookInv

(* Some record of a side is first, and no other is ahead of it. *)
LEMMA SideHasFirst ==
  ASSUME BookInv, NEW side \in Sides, decl_book[side] # {}
  PROVE  \E r \in decl_book[side] : IsFirst(side, decl_book[side], r)
<1>1. /\ decl_book[side] \subseteq Records
      /\ \A r \in decl_book[side] : r.price <= upper_limit
      /\ \A r, q \in decl_book[side] : r.order_id = q.order_id => r = q
      /\ upper_limit \in Nat
  BY DEF BookInv, TypeOK, RecordsSound, IdsUnique
<1> QED  BY <1>1, FirstExists

(* The first record has the best price of its side. *)
LEMMA FirstIsBest ==
  ASSUME BookInv, NEW side \in Sides, NEW r \in decl_book[side],
         IsFirst(side, decl_book[side], r), NEW q \in decl_book[side]
  PROVE  /\ r.price \in 1 .. upper_limit /\ q.price \in 1 .. upper_limit
         /\ IF side = Buy THEN q.price <= r.price ELSE r.price <= q.price
<1>1. r.price \in 1 .. upper_limit /\ q.price \in 1 .. upper_limit
  BY DEF BookInv, RecordsSound
<1>2. q = r \/ Ahead(side, r, q)
  BY DEF IsFirst
<1> QED  BY <1>1, <1>2 DEF Ahead, Buy, Sell

(* An arriving order only waits. *)
LEMMA ReceiveInv ==
  ASSUME BookInv, NEW o \in Orders, receiveOrder(o)
  PROVE  BookInv'
BY DEF BookInv, receiveOrder, TypeOK, BookUncrossed, RecordsSound, IdsUnique, CurrentIsNext,
       LimitIsBest, Handling, Own, Counter, d, TradesInIdOrder, TakersCommitted, locals

(* The next order in id order becomes the current one. *)
LEMMA CommitInv ==
  ASSUME BookInv, NEW o \in not_ready_orders, commitOrder(o)
  PROVE  BookInv'
<1>1. o \in Orders /\ o.volume \in Nat /\ o.order_id = last_commit_order_id + 1
      /\ last_commit_order_id \in Nat
  BY OrderType DEF BookInv, TypeOK, commitOrder, IsNextOrder
<1>2. TypeOK'
  BY <1>1 DEF BookInv, TypeOK, commitOrder
<1>3. BookUncrossed' /\ RecordsSound' /\ IdsUnique' /\ TradesInIdOrder'
  BY DEF BookInv, BookUncrossed, RecordsSound, IdsUnique, TradesInIdOrder, commitOrder
<1>4. CurrentIsNext' /\ LimitIsBest'
  BY <1>1 DEF CurrentIsNext, LimitIsBest, commitOrder
<1>5. TakersCommitted'
  <2>1. ASSUME NEW i \in DOMAIN trade_list
        PROVE  Taker(trade_list[i]) <= last_commit_order_id + 1
    <3>1. Taker(trade_list[i]) <= last_commit_order_id + 0
      BY DEF BookInv, TakersCommitted, commitOrder
    <3>2. trade_list[i] \in Trades
      BY DEF BookInv, TypeOK
    <3>3. Taker(trade_list[i]) \in Nat
      BY <3>2 DEF Trades, Taker
    <3> QED  BY <3>1, <3>3, <1>1
  <2> QED  BY <2>1, <1>1, OrderType DEF TakersCommitted, commitOrder
<1> QED  BY <1>2, <1>3, <1>4, <1>5 DEF BookInv

(* A limit order rests only when no counterparty record is acceptable. *)
LEMMA LimitOrderInv == BookInv /\ handleLimitOrder => BookInv'
<1> SUFFICES ASSUME BookInv, handleLimitOrder PROVE BookInv'
  OBVIOUS
<1>1. order # NoOrder /\ d \in Sides /\ order \in Orders /\ order.type = 0
      /\ order.price \in 1 .. upper_limit
  BY DEF handleLimitOrder, Handling, BookInv, TypeOK
<1>2. -d \in Sides /\ Counter = decl_book[-d]
  BY <1>1, OppositeSide DEF Counter
<1>3. CASE \E r \in Counter : IsFirst(-d, Counter, r) /\ left_volume # 0 /\ Acceptable(r)
  <2>1. PICK r \in Counter : left_volume # 0 /\ Match(r, r.price)
                             /\ UNCHANGED <<t_price, level_count, previous_price>>
    BY <1>3 DEF handleLimitOrder
  <2>2. r.price \in Nat /\ level_count' \in 0 .. MaxLevels /\ previous_price' \in Nat
    BY <2>1, <1>2 DEF BookInv, TypeOK, Records
  <2> QED  BY <2>1, <2>2, <1>1, MatchInv
<1>4. CASE ~\E r \in Counter : IsFirst(-d, Counter, r) /\ left_volume # 0 /\ Acceptable(r)
  <2>1. InsertRemainder(order.price) /\ Return(0, 0)
    BY <1>4 DEF handleLimitOrder
  <2>2. ASSUME left_volume # 0, NEW q \in Counter
        PROVE  IF d = Buy THEN order.price < q.price ELSE q.price < order.price
    <3>1. PICK r \in Counter : IsFirst(-d, Counter, r)
      BY <2>2, <1>2, SideHasFirst
    <3>2. ~Acceptable(r)
      BY <3>1, <2>2, <1>4
    <3>3. /\ r.price \in 1 .. upper_limit /\ q.price \in 1 .. upper_limit
          /\ IF -d = Buy THEN q.price <= r.price ELSE r.price <= q.price
      BY <3>1, <2>2, <1>2, FirstIsBest
    <3>4. -d = Buy <=> d # Buy
      BY <1>1, <1>2, OppositeSide DEF Sides
    <3> QED  BY <3>2, <3>3, <3>4, <1>1 DEF Acceptable
  <2> QED  BY <2>1, <2>2, <1>1, InsertInv
<1> QED  BY <1>3, <1>4

(* A type 1 order rests only when the records at its limit are used up. *)
LEMMA CounterpartyBestInv == BookInv /\ handleCounterpartyBest => BookInv'
<1> SUFFICES ASSUME BookInv, handleCounterpartyBest PROVE BookInv'
  OBVIOUS
<1>1. order # NoOrder /\ d \in Sides /\ order \in Orders /\ Handling(1) /\ t_price \in Nat
  BY DEF handleCounterpartyBest, Handling, BookInv, TypeOK
<1>2. -d \in Sides /\ Counter = decl_book[-d] /\ (-d = Buy <=> d # Buy)
  BY <1>1, OppositeSide DEF Counter, Sides
<1>3. CASE t_price = 0 /\ Counter = {} /\ Return(-1, 0) /\ UNCHANGED decl_book
  BY <1>3, <1>1, ReturnInv
<1>4. CASE /\ \E r \in Counter : IsFirst(-d, Counter, r) /\ t_price' = r.price
           /\ UNCHANGED <<decl_book, not_ready_orders, last_commit_order_id, order,
                          left_volume, level_count, previous_price, trade_list,
                          status, ret, received, committed>>
  <2>1. PICK r \in Counter : IsFirst(-d, Counter, r) /\ t_price' = r.price
    BY <1>4
  <2>2. r.price \in 1 .. upper_limit
        /\ \A q \in Counter : IF d = Buy THEN r.price <= q.price ELSE q.price <= r.price
    BY <2>1, <1>2, FirstIsBest
  <2>3. \A q \in Own : IF d = Buy THEN q.price < r.price ELSE r.price < q.price
    BY <1>1, <1>2 DEF BookInv, BookUncrossed, Own, Counter, Sides
  <2>4. LimitIsBest'
    BY <2>1, <2>2, <2>3, <1>4, SMTT(30) DEF LimitIsBest, Handling, Own, Counter, d
  <2>5. TypeOK'
    BY <2>1, <2>2, <1>4, SMTT(30) DEF BookInv, TypeOK
  <2> QED
    BY <2>4, <2>5, <1>4 DEF BookInv, BookUncrossed, RecordsSound, IdsUnique, CurrentIsNext,
                            TradesInIdOrder, TakersCommitted
<1>5. CASE /\ left_volume # 0
           /\ \E r \in Counter : Match(r, t_price)
           /\ UNCHANGED <<t_price, level_count, previous_price>>
  <2>1. level_count' \in 0 .. MaxLevels /\ previous_price' \in Nat
    BY <1>5 DEF BookInv, TypeOK
  <2> QED  BY <2>1, <1>1, <1>5, MatchInv
<1>6. CASE /\ t_price # 0
           /\ left_volume = 0 \/ ~\E r \in Counter : IsFirst(-d, Counter, r) /\ r.price = t_price
           /\ InsertRemainder(t_price)
           /\ Return(0, 0)
  <2>1. /\ t_price \in 1 .. upper_limit
        /\ \A q \in Counter : IF d = Buy THEN t_price <= q.price ELSE q.price <= t_price
    BY <1>1, <1>6 DEF BookInv, LimitIsBest
  <2>2. ASSUME left_volume # 0, NEW q \in Counter
        PROVE  IF d = Buy THEN t_price < q.price ELSE q.price < t_price
    <3>1. PICK r \in Counter : IsFirst(-d, Counter, r)
      BY <2>2, <1>2, SideHasFirst
    <3>2. r.price # t_price
      BY <3>1, <2>2, <1>6
    <3>3. /\ r.price \in 1 .. upper_limit /\ q.price \in 1 .. upper_limit
          /\ IF -d = Buy THEN q.price <= r.price ELSE r.price <= q.price
      BY <3>1, <2>2, <1>2, FirstIsBest
    <3>4. IF d = Buy THEN t_price <= r.price ELSE r.price <= t_price
      BY <2>1
    <3> QED  BY <3>2, <3>3, <3>4, <2>1, <1>2
  <2>3. left_volume # 0 => \A q \in Counter : IF d = Buy THEN t_price < q.price ELSE q.price < t_price
    BY <2>2
  <2>4. t_price \in 1 .. upper_limit /\ InsertRemainder(t_price) /\ Return(0, 0)
    BY <2>1, <1>6
  <2> QED  BY <2>3, <2>4, <1>1, InsertInv
<1> QED  BY <1>3, <1>4, <1>5, <1>6 DEF handleCounterpartyBest

(* A type 2 order rests at a price its own side already has. *)
LEMMA OurBestInv == BookInv /\ handleOurBest => BookInv'
<1> SUFFICES ASSUME BookInv, handleOurBest PROVE BookInv'
  OBVIOUS
<1>1. order # NoOrder /\ d \in Sides
  BY DEF handleOurBest, Handling
<1>2. -d \in Sides /\ Counter = decl_book[-d] /\ (-d = Buy <=> d # Buy)
  BY <1>1, OppositeSide DEF Counter, Sides
<1>3. CASE Return(-1, 0) /\ UNCHANGED decl_book
  BY <1>3, <1>1, ReturnInv
<1>4. CASE (\E r \in Own : InsertRemainder(r.price)) /\ Return(0, 0)
  <2>1. PICK r \in Own : InsertRemainder(r.price)
    BY <1>4
  <2>2. r.price \in 1 .. upper_limit
    BY <1>1 DEF BookInv, RecordsSound, Own
  <2>3. \A q \in Counter : IF d = Buy THEN r.price < q.price ELSE q.price < r.price
    BY <1>1, <1>2 DEF BookInv, BookUncrossed, Own, Sides
  <2> QED  BY <2>1, <2>2, <2>3, <1>1, <1>4, InsertInv
<1> QED  BY <1>3, <1>4 DEF handleOurBest

(* Types 3, 4 and 5 only take from the book. *)
LEMMA FiveLevelInv == BookInv /\ handleFiveLevelOtherCancel => BookInv'
<1> SUFFICES ASSUME BookInv, handleFiveLevelOtherCancel PROVE BookInv'
  OBVIOUS
<1>1. order # NoOrder /\ d \in Sides /\ left_volume \in Int
  BY DEF handleFiveLevelOtherCancel, Handling, BookInv, TypeOK
<1>2. CASE \E s \in Int : Return(s, 0) /\ UNCHANGED decl_book
  BY <1>1, <1>2, ReturnInv
<1>3. CASE \E r \in Counter :
             /\ left_volume # 0
             /\ level_count' = IF r.price # previous_price THEN level_count + 1 ELSE level_count
             /\ level_count' <= MaxLevels
             /\ previous_price' = r.price
             /\ Match(r, r.price)
             /\ UNCHANGED t_price
  <2>1. PICK r \in Counter :
             /\ left_volume # 0
             /\ level_count' = IF r.price # previous_price THEN level_count + 1 ELSE level_count
             /\ level_count' <= MaxLevels
             /\ previous_price' = r.price
             /\ Match(r, r.price)
             /\ UNCHANGED t_price
    BY <1>3
  <2>2. r.price \in Nat
    BY <1>1, OppositeSide DEF Counter, BookInv, TypeOK, Records
  <2>3. level_count' \in 0 .. MaxLevels
    BY <2>1 DEF BookInv, TypeOK
  <2> QED  BY <2>1, <2>2, <2>3, <1>1, MatchInv
<1> QED  BY <1>1, <1>2, <1>3 DEF handleFiveLevelOtherCancel, WithinLevels, Level

(* handleImmediateOtherCancel keeps the invariant. *)
LEMMA ImmediateInv == BookInv /\ handleImmediateOtherCancel => BookInv'
<1> SUFFICES ASSUME BookInv, handleImmediateOtherCancel PROVE BookInv'
  OBVIOUS
<1>1. order # NoOrder /\ d \in Sides /\ left_volume \in Int
      /\ level_count \in 0 .. MaxLevels /\ previous_price \in Nat
  BY DEF handleImmediateOtherCancel, Handling, BookInv, TypeOK
<1>2. \A r \in Counter : r.price \in Nat
  BY <1>1, OppositeSide DEF Counter, BookInv, TypeOK, Records
<1>3. CASE Return(left_volume, 0) /\ UNCHANGED decl_book
  BY <1>1, <1>3, ReturnInv
<1>4. CASE /\ left_volume # 0
           /\ \E r \in Counter : Match(r, r.price)
           /\ UNCHANGED <<t_price, level_count, previous_price>>
  BY <1>1, <1>2, <1>4, MatchInv
<1> QED  BY <1>3, <1>4 DEF handleImmediateOtherCancel

(* handleWholeOrCancel keeps the invariant. *)
LEMMA WholeOrCancelInv == BookInv /\ handleWholeOrCancel => BookInv'
<1> SUFFICES ASSUME BookInv, handleWholeOrCancel PROVE BookInv'
  OBVIOUS
<1>1. order # NoOrder /\ d \in Sides
      /\ level_count \in 0 .. MaxLevels /\ previous_price \in Nat
  BY DEF handleWholeOrCancel, Handling, BookInv, TypeOK
<1>2. \A r \in Counter : r.price \in Nat
  BY <1>1, OppositeSide DEF Counter, BookInv, TypeOK, Records
<1>3. CASE \E s \in Int : Return(s, 0) /\ UNCHANGED decl_book
  BY <1>1, <1>3, ReturnInv
<1>4. CASE /\ left_volume # 0
           /\ \E r \in Counter : Match(r, r.price)
           /\ UNCHANGED <<t_price, level_count, previous_price>>
  BY <1>1, <1>2, <1>4, MatchInv
<1> QED  BY <1>3, <1>4 DEF handleWholeOrCancel

(* An order without effect on the book keeps the invariant. *)
LEMMA DropOrderInv == BookInv /\ dropOrder => BookInv'
<1> SUFFICES ASSUME BookInv, dropOrder PROVE BookInv'
  OBVIOUS
<1>1. order # NoOrder /\ UNCHANGED decl_book /\ \E s \in {0, -1} : Return(s, s)
  BY DEF dropOrder
<1> QED  BY <1>1, ReturnInv

(* Every step of the stock's thread, and every arrival, keeps the invariant. *)
LEMMA BookInvNext == BookInv /\ [Next]_vars => BookInv'
<1> SUFFICES ASSUME BookInv, [Next]_vars PROVE BookInv'
  BY SMTT(30)
<1>1. CASE UNCHANGED vars
  BY <1>1 DEF vars, locals, BookInv, TypeOK, BookUncrossed, RecordsSound, IdsUnique, CurrentIsNext,
              LimitIsBest, Handling, Own, Counter, d, TradesInIdOrder, TakersCommitted
<1>2. CASE \E o \in Orders : receiveOrder(o)
  BY <1>2, ReceiveInv
<1>3. CASE \E o \in not_ready_orders : commitOrder(o)
  BY <1>3, CommitInv
<1> QED  BY <1>1, <1>2, <1>3, LimitOrderInv, CounterpartyBestInv, OurBestInv, FiveLevelInv,
            ImmediateInv, WholeOrCancelInv, DropOrderInv DEF Next, Thread

-----------------------------------------------------------------------------
(* The inductive invariant holds in every reachable state. *)
THEOREM BookInvariant == Spec => []BookInv
<1>1. BookInv /\ [Next]_vars => BookInv'
  BY BookInvNext
<1> QED  BY BookInvInit, <1>1, PTL DEF Spec

(* The state of a stock's thread is well typed; in particular the volumes   *)
(* of handleLimitOrder() and the other handlers never become negative and   *)
(* a type 3 order never counts past its last level.                         *)
THEOREM StockTypeCorrect == Spec => []TypeOK
<1>1. BookInv => TypeOK
  BY DEF BookInv
<1> QED  BY BookInvariant, <1>1, PTL

(* The best bid is strictly below the best offer at all times, as           *)
(* stock_decl_book.hpp:15 documents, for any orders in any arrival order.   *)
THEOREM BookNeverCrosses == Spec => []BookUncrossed
<1>1. BookInv => BookUncrossed
  BY DEF BookInv
<1> QED  BY BookInvariant, <1>1, PTL

(* produceTrade() is called in the id order of the incoming orders.         *)
THEOREM TradesFollowIds == Spec => []TradesInIdOrder
<1>1. BookInv => TradesInIdOrder
  BY DEF BookInv
<1> QED  BY BookInvariant, <1>1, PTL

-----------------------------------------------------------------------------
(* The accounts of the orders *)

HIDE OrdersAssumption

(* All records of the book. *)
AllRecords == decl_book[Buy] \cup decl_book[Sell]

(* The book is finite. *)
FiniteBook == \A s \in Sides : IsFiniteSet(decl_book[s])

(* The heap holds the orders that have arrived and not been committed, the  *)
(* current one among them, and all up to the last commit have arrived.      *)
HeapSound ==
  /\ not_ready_orders \subseteq received
  /\ order # NoOrder => order \in not_ready_orders
  /\ \A o, p \in received : o.order_id = p.order_id => o = p
  /\ \A o \in received : o \in not_ready_orders <=> o.order_id > last_commit_order_id
  /\ \A n \in 1 .. last_commit_order_id : \E o \in received : o.order_id = n

(* Nothing has been taken from the volume of an order that trades nothing,  *)
(* or has not found its price yet.                                          *)
Untouched == \/ d \notin Sides
             \/ order.type \notin {0, 1, 3, 4, 5}
             \/ order.type = 1 /\ t_price = 0

LeftSound ==
  order # NoOrder => left_volume <= order.volume /\ (Untouched => left_volume = order.volume)

(* What is accounted for of an order, and when it is enough for an order    *)
(* that has been committed.                                                 *)
Accounted(id) == Traded(id) + Resting(id)
Closed(o, sum, rest) ==
  /\ o.direction \notin Sides \/ o.type \notin 0 .. 5 => sum = 0
  /\ o.direction \in Sides /\ o.type = 0 => sum = o.volume
  /\ o.type \in {1, 2, 5} => sum \in {0, o.volume}
  /\ o.type \in {3, 4} => sum <= o.volume
  /\ o.type \in {3, 4, 5} => rest = 0
Balanced(o) ==
  /\ o = order => Accounted(o.order_id) = o.volume - left_volume /\ Resting(o.order_id) = 0
  /\ o \in not_ready_orders \ {order} => Accounted(o.order_id) = 0
  /\ o \notin not_ready_orders /\ o # order => Closed(o, Accounted(o.order_id), Resting(o.order_id))

(* The inductive invariant of the volumes, beside BookInv. *)
Accounts == FiniteBook /\ HeapSound /\ LeftSound /\ FokCovered /\ \A o \in received : Balanced(o)

(* Balanced accounts are what VolumeConserved says. *)
LEMMA BalancedConserves ==
  ASSUME \A o \in received : Balanced(o)
  PROVE  VolumeConserved
  BY DEF VolumeConserved, Balanced, Closed, Accounted

(* Resting and Traded in terms of the records and the trades. *)
LEMMA SumsOfState ==
  ASSUME NEW id
  PROVE  /\ Resting(id) = VolumeAt(AllRecords, id) /\ Traded(id) = TradedIn(trade_list, id)
         /\ Resting(id)' = VolumeAt(AllRecords', id) /\ Traded(id)' = TradedIn(trade_list', id)
<1>1. Resting(id) = VolumeAt(AllRecords, id)
  BY DEF Resting, VolumeAt, AllRecords
<1>2. Resting(id)' = VolumeAt(AllRecords', id)
  BY DEF Resting, VolumeAt, AllRecords
<1>3. Traded(id) = TradedIn(trade_list, id)
  BY DEF Traded, TradedIn, IdTrades, MapThenSumSet, MapThenFoldSet
<1>4. Traded(id)' = TradedIn(trade_list', id)
  BY DEF Traded, TradedIn, IdTrades, MapThenSumSet, MapThenFoldSet
<1> QED  BY <1>1, <1>2, <1>3, <1>4

(* The records of the book are finitely many. *)
LEMMA BookFinite ==
  ASSUME BookInv, FiniteBook
  PROVE  IsFiniteSet(AllRecords) /\ AllRecords \subseteq Records
<1>1. IsFiniteSet(decl_book[Buy]) /\ IsFiniteSet(decl_book[Sell])
  BY DEF FiniteBook, Sides
<1>2. decl_book[Buy] \subseteq Records /\ decl_book[Sell] \subseteq Records
  BY DEF BookInv, TypeOK, Sides
<1> QED  BY <1>1, <1>2, FS_Union, Zenon DEF AllRecords

(* Sums are natural numbers. *)
LEMMA SumsAreNat ==
  ASSUME BookInv, FiniteBook, NEW id
  PROVE  Resting(id) \in Nat /\ Traded(id) \in Nat
<1> DEFINE S == {r \in AllRecords : r.order_id = id}  T == IdTrades(trade_list, id)
<1>1. IsFiniteSet(S) /\ S \subseteq Records
  <2>1. S \subseteq AllRecords
    OBVIOUS
  <2> HIDE DEF S
  <2> QED  BY <2>1, BookFinite, FS_Subset
<1>2. Resting(id) \in Nat
  <2> HIDE DEF S
  <2>1. TotalVolume(S) \in Nat
    BY <1>1, TotalSplit
  <2> QED  BY <2>1, SumsOfState, Zenon DEF VolumeAt, S
<1>3. trade_list \in Seq(Trades)
  BY DEF BookInv, TypeOK
<1>4. PICK t : t \in Trades
  <2>1. [bid_id |-> 0, ask_id |-> 0, price |-> 0, volume |-> 0] \in Trades
    BY DEF Trades
  <2> QED  BY <2>1
<1>5. TradedIn(trade_list, id) \in Nat
  BY <1>3, <1>4, TradedAppend
<1> QED  BY <1>2, <1>5, SumsOfState

(* An order that is in no record and in no trade. *)
LEMMA NothingAccounted ==
  ASSUME NEW id
  PROVE  /\ (\A r \in AllRecords : r.order_id # id) => Resting(id) = 0
         /\ (\A i \in DOMAIN trade_list : id \notin {trade_list[i].bid_id, trade_list[i].ask_id}) => Traded(id) = 0
<1>1. ASSUME \A r \in AllRecords : r.order_id # id PROVE Resting(id) = 0
  <2>1. {r \in AllRecords : r.order_id = id} = {}
    BY <1>1
  <2> QED  BY <2>1, SumsOfState, TotalEmpty, Zenon DEF VolumeAt
<1>2. ASSUME \A i \in DOMAIN trade_list : id \notin {trade_list[i].bid_id, trade_list[i].ask_id} PROVE Traded(id) = 0
  <2>1. IdTrades(trade_list, id) = {}
    BY <1>2, Zenon DEF IdTrades
  <2> QED  BY <2>1, SumsOfState, TradedNone
<1> QED  BY <1>1, <1>2

(* The volume of one round of a matching loop. *)
Volume(r) == IF left_volume < r.volume THEN left_volume ELSE r.volume

(* One round takes the same volume from the order and from the record, and  *)
(* the trade counts for both.                                               *)
LEMMA MatchVolumes ==
  ASSUME BookInv, FiniteBook, order # NoOrder, d \in Sides, left_volume # 0,
         NEW r \in Counter, NEW p \in Nat, Match(r, p)
  PROVE  /\ Volume(r) \in Nat \ {0} /\ Volume(r) <= left_volume /\ left_volume' = left_volume - Volume(r)
         /\ r.order_id < order.order_id /\ FiniteBook'
         /\ TotalVolume(decl_book[-d]) \in Nat /\ TotalVolume(decl_book'[-d]) \in Nat
         /\ TotalVolume(decl_book'[-d]) + Volume(r) = TotalVolume(decl_book[-d])
         /\ \A id : /\ Resting(id)' \in Nat
                    /\ Resting(id)' + (IF id = r.order_id THEN Volume(r) ELSE 0) = Resting(id)
                    /\ Traded(id)' = Traded(id) + IF id \in {order.order_id, r.order_id} THEN Volume(r) ELSE 0
<1> DEFINE v == Volume(r)
           C == decl_book[-d]  O == decl_book[d]  C0 == C \ {r}  A0 == AllRecords \ {r}
           rest == [r EXCEPT !.volume = @ - left_volume]
<1>1. /\ order \in Orders /\ order.order_id = last_commit_order_id + 1
      /\ left_volume \in Nat /\ left_volume > 0 /\ last_commit_order_id \in Nat
      /\ decl_book \in [Sides -> SUBSET Records] /\ trade_list \in Seq(Trades)
  BY DEF BookInv, TypeOK, CurrentIsNext
<1>2. -d \in Sides /\ -d # d /\ Sides = {d, -d} /\ C \subseteq Records /\ O \subseteq Records
  BY <1>1, OppositeSide DEF Sides
<1>3. r \in C /\ r \in Records /\ r.order_id \in Nat /\ r.price \in Nat
      /\ r.volume \in Nat /\ r.volume > 0 /\ r.order_id <= last_commit_order_id
  BY <1>1, <1>2 DEF Counter, Records, BookInv, RecordsSound
<1>4. /\ v \in Nat \ {0} /\ v <= left_volume /\ v <= r.volume /\ left_volume' = left_volume - v
      /\ r.order_id < order.order_id
  BY <1>1, <1>3, SMTT(30) DEF Match, Volume
<1>5. AllRecords = C \cup O /\ AllRecords' = decl_book'[-d] \cup decl_book'[d]
  BY <1>2 DEF AllRecords, Sides
<1>6. IsFiniteSet(C) /\ IsFiniteSet(O) /\ IsFiniteSet(C0)
  BY <1>2, FS_RemoveElement DEF FiniteBook
<1>7. \A q \in O : q.price # r.price
  <2>1. \A b \in decl_book[Buy], s \in decl_book[Sell] : b.price < s.price
    BY DEF BookInv, BookUncrossed
  <2>2. \A q \in O : q.price \in Nat
    BY <1>2 DEF Records
  <2>3. (d = Buy /\ -d = Sell) \/ (d = Sell /\ -d = Buy)
    BY <1>2 DEF Sides, Buy, Sell
  <2> QED  BY <1>3, <2>1, <2>2, <2>3
<1>8. \A q \in C0 : q.order_id # r.order_id
  BY <1>2, <1>3 DEF BookInv, IdsUnique
<1>9. r \notin A0 /\ AllRecords = A0 \cup {r} /\ IsFiniteSet(A0) /\ A0 \subseteq Records /\ A0 = C0 \cup O
  <2>1. A0 = C0 \cup O
    BY <1>5, <1>7
  <2>2. IsFiniteSet(C0 \cup O)
    BY <1>6, FS_Union, Zenon
  <2> QED  BY <1>2, <1>3, <1>5, <2>1, <2>2
<1>10. ASSUME left_volume < r.volume
       PROVE  /\ rest \in Records /\ rest.volume = r.volume - left_volume
              /\ rest.order_id = r.order_id /\ rest.price = r.price
  <2> DEFINE w == r.volume - left_volume
  <2>1. w \in Nat
    BY <1>1, <1>3, <1>10, SMTT(30)
  <2>2. rest = [r EXCEPT !.volume = w]
    OBVIOUS
  <2> HIDE DEF w, rest
  <2>3. rest \in Records /\ rest.volume = w /\ rest.order_id = r.order_id /\ rest.price = r.price
    BY <2>1, <2>2, <1>3 DEF Records
  <2> QED  BY <2>3 DEF w
<1>11. decl_book'[d] = O /\ decl_book'[-d] = IF left_volume < r.volume THEN C0 \cup {rest} ELSE C0
  BY <1>1, <1>2, Zenon DEF Match, ReduceDecl, RemoveDecl
<1> HIDE DEF rest, v, C, O, C0, A0
<1>12. left_volume < r.volume => rest \notin A0 /\ rest \notin C0
  BY <1>7, <1>8, <1>9, <1>10
<1>13. FiniteBook'
  <2>1. IsFiniteSet(decl_book'[d]) /\ IsFiniteSet(decl_book'[-d])
    BY <1>6, <1>11, FS_AddElement, SMTT(30)
  <2> QED  BY <1>2, <2>1 DEF FiniteBook
<1>14. /\ TotalVolume(C) \in Nat /\ TotalVolume(decl_book'[-d]) \in Nat
       /\ TotalVolume(decl_book'[-d]) + v = TotalVolume(C)
  <2>1. TotalVolume(C) = r.volume + TotalVolume(C0) /\ TotalVolume(C) \in Nat /\ TotalVolume(C0) \in Nat
    <3>1. C0 = C \ {r} /\ C0 \subseteq Records
      BY <1>2 DEF C0
    <3> QED  BY <1>2, <1>3, <1>6, <3>1, TotalSplit
  <2>2. CASE left_volume < r.volume
    <3> DEFINE C1 == C0 \cup {rest}
    <3>1. C1 \subseteq Records /\ IsFiniteSet(C1) /\ rest \in C1 /\ C1 \ {rest} = C0
      BY <1>2, <1>6, <1>10, <1>12, <2>2, FS_AddElement, Zenon DEF C0
    <3> HIDE DEF C1
    <3>2. TotalVolume(C1) = rest.volume + TotalVolume(C0) /\ TotalVolume(C1) \in Nat
      BY <3>1, TotalSplit
    <3>3. decl_book'[-d] = C1 /\ v = left_volume
      BY <1>11, <2>2 DEF C1, v, Volume
    <3>4. rest.volume = r.volume - left_volume
      BY <1>10, <2>2
    <3> QED  BY <1>1, <1>3, <2>1, <3>2, <3>3, <3>4, SMTT(30)
  <2>3. CASE ~(left_volume < r.volume)
    BY <1>3, <1>11, <2>1, <2>3 DEF v, Volume
  <2> QED  BY <2>2, <2>3
<1>15. ASSUME NEW id
       PROVE  Resting(id)' \in Nat /\ Resting(id)' + (IF id = r.order_id THEN v ELSE 0) = Resting(id)
  <2>1. /\ VolumeAt(A0, id) \in Nat
        /\ Resting(id) = VolumeAt(A0, id) + IF id = r.order_id THEN r.volume ELSE 0
    BY <1>3, <1>9, VolumeAdd, SumsOfState
  <2>2. CASE left_volume < r.volume
    <3>1. AllRecords' = A0 \cup {rest} /\ v = left_volume
      BY <1>5, <1>9, <1>11, <2>2 DEF v, Volume
    <3>2. VolumeAt(A0 \cup {rest}, id) = VolumeAt(A0, id) + IF id = rest.order_id THEN rest.volume ELSE 0
      BY SMTT(30), <1>9, <1>10, <1>12, <2>2, VolumeAdd
    <3>3. Resting(id)' = VolumeAt(A0, id) + IF id = r.order_id THEN r.volume - left_volume ELSE 0
      BY <1>10, <2>2, <3>1, <3>2, SumsOfState, Zenon
    <3>4. CASE id = r.order_id
      BY <1>1, <1>3, <2>1, <2>2, <3>1, <3>3, <3>4, SMTT(30)
    <3>5. CASE id # r.order_id
      BY <2>1, <3>3, <3>5
    <3> QED  BY <3>4, <3>5
  <2>3. CASE ~(left_volume < r.volume)
    <3>1. AllRecords' = A0 /\ v = r.volume
      BY <1>5, <1>9, <1>11, <2>3 DEF v, Volume
    <3>2. Resting(id)' = VolumeAt(A0, id)
      BY <3>1, SumsOfState
    <3> QED  BY <1>3, <2>1, <3>1, <3>2
  <2> QED  BY <2>2, <2>3
<1>16. PICK t \in Trades : /\ trade_list' = Append(trade_list, t) /\ t.volume = v
                           /\ {t.bid_id, t.ask_id} = {order.order_id, r.order_id}
  <2> DEFINE t == [bid_id |-> (IF d = Buy THEN order ELSE r).order_id,
                   ask_id |-> (IF d = Buy THEN r ELSE order).order_id, price |-> p, volume |-> v]
  <2>1. trade_list' = Append(trade_list, t)
    BY DEF Match, v, Volume
  <2>2. t \in Trades /\ t.volume = v
    BY <1>1, <1>3, <1>4 DEF Trades
  <2>3. {t.bid_id, t.ask_id} = {order.order_id, r.order_id}
    OBVIOUS
  <2> HIDE DEF t
  <2> QED  BY <2>1, <2>2, <2>3
<1>17. ASSUME NEW id
       PROVE  Traded(id)' = Traded(id) + IF id \in {order.order_id, r.order_id} THEN v ELSE 0
  <2>1. TradedIn(Append(trade_list, t), id)
          = TradedIn(trade_list, id) + IF id \in {t.bid_id, t.ask_id} THEN t.volume ELSE 0
    BY <1>1, TradedAppend
  <2>2. Traded(id)' = TradedIn(Append(trade_list, t), id) /\ Traded(id) = TradedIn(trade_list, id)
    BY <1>16, SumsOfState
  <2> QED  BY <1>16, <2>1, <2>2, ZenonT(30)
<1> QED  BY <1>4, <1>13, <1>14, <1>15, <1>17 DEF v, C

(* What the invariant says of the current order and the others. *)
LEMMA CurrentOrder ==
  ASSUME BookInv, HeapSound, order # NoOrder
  PROVE  /\ order \in Orders /\ order \in received /\ order.order_id = last_commit_order_id + 1
         /\ last_commit_order_id \in Nat /\ left_volume \in Nat
         /\ order.volume \in Nat \ {0} /\ order.type \in Int
         /\ \A o \in received \ {order} : o.order_id # order.order_id
  BY OrderType DEF BookInv, TypeOK, CurrentIsNext, HeapSound

(* A remainder put to rest counts for its order. *)
LEMMA InsertVolumes ==
  ASSUME BookInv, FiniteBook, HeapSound, order # NoOrder, d \in Sides, NEW p \in Nat,
         InsertRemainder(p), trade_list' = trade_list
  PROVE  /\ FiniteBook'
         /\ \A id : /\ Resting(id)' = Resting(id) + IF id = order.order_id THEN left_volume ELSE 0
                    /\ Traded(id)' = Traded(id)
<1>1. \A id : Traded(id)' = Traded(id)
  BY SumsOfState
<1>2. /\ order.order_id = last_commit_order_id + 1 /\ last_commit_order_id \in Nat /\ left_volume \in Nat
      /\ decl_book \in [Sides -> SUBSET Records]
  BY CurrentOrder DEF BookInv, TypeOK
<1>3. CASE left_volume = 0
  <2>1. decl_book' = decl_book
    BY <1>3 DEF InsertRemainder
  <2>2. ASSUME NEW id PROVE Resting(id)' = Resting(id) + 0
    <3>1. Resting(id)' = Resting(id) /\ Resting(id) \in Nat
      BY <2>1, SumsOfState, SumsAreNat DEF AllRecords
    <3> QED  BY <3>1
  <2> QED  BY <1>1, <1>3, <2>1, <2>2 DEF FiniteBook
<1>4. CASE left_volume # 0
  <2> DEFINE new == [order_id |-> order.order_id, price |-> p, volume |-> left_volume]
  <2>1. new \in Records /\ new.volume = left_volume /\ new.order_id = order.order_id
    BY <1>2 DEF Records
  <2> HIDE DEF new
  <2>2. decl_book' = [decl_book EXCEPT ![d] = @ \cup {new}]
    BY <1>4 DEF InsertRemainder, InsertDecl, new
  <2>3. AllRecords' = AllRecords \cup {new}
    BY <1>2, <2>2 DEF AllRecords, Sides, Buy, Sell
  <2>4. new \notin AllRecords
    <3>1. \A r \in AllRecords : r.order_id \in Nat /\ r.order_id <= last_commit_order_id
      BY <1>2 DEF AllRecords, BookInv, RecordsSound, Sides, Records
    <3> QED  BY <1>2, <2>1, <3>1
  <2>5. FiniteBook'
    <3>1. ASSUME NEW s \in Sides PROVE IsFiniteSet(decl_book'[s])
      <4>1. decl_book'[s] = decl_book[s] \/ decl_book'[s] = decl_book[s] \cup {new}
        BY <1>2, <2>2
      <4>2. IsFiniteSet(decl_book[s])
        BY DEF FiniteBook
      <4> QED  BY <4>1, <4>2, FS_AddElement, SMTT(30)
    <3> QED  BY <3>1 DEF FiniteBook
  <2>6. ASSUME NEW id
        PROVE  Resting(id)' = Resting(id) + IF id = order.order_id THEN left_volume ELSE 0
    <3>1. VolumeAt(AllRecords \cup {new}, id) = VolumeAt(AllRecords, id) + IF id = new.order_id THEN new.volume ELSE 0
      BY <2>1, <2>4, BookFinite, VolumeAdd
    <3> QED  BY <2>1, <2>3, <3>1, SumsOfState
  <2> QED  BY <1>1, <2>5, <2>6
<1> QED  BY <1>3, <1>4

(* A handler returns after putting k of the order's volume to rest: the     *)
(* accounts of all other orders stay as they are.                           *)
LEMMA ReturnAccounts ==
  ASSUME BookInv, Accounts, order # NoOrder, NEW s, NEW q, Return(s, q), FiniteBook',
         NEW k \in Nat,
         \A id : /\ Resting(id)' = Resting(id) + IF id = order.order_id THEN k ELSE 0
                 /\ Traded(id)' = Traded(id),
         Closed(order, (order.volume - left_volume) + k, k)
  PROVE  Accounts'
<1>0. FiniteBook /\ HeapSound /\ LeftSound /\ \A o \in received : Balanced(o)
  BY DEF Accounts
<1>1. /\ order' = NoOrder /\ received' = received /\ not_ready_orders' = not_ready_orders \ {order}
      /\ last_commit_order_id' = last_commit_order_id + 1
  BY DEF Return
<1>2. /\ order \in Orders /\ order \in received /\ order.order_id = last_commit_order_id + 1
      /\ last_commit_order_id \in Nat
      /\ \A o \in received \ {order} : o.order_id # order.order_id
  BY <1>0, CurrentOrder
<1>3. LeftSound' /\ FokCovered'
  BY <1>1 DEF LeftSound, FokCovered, Handling
<1>4. \A o \in received : o.order_id \in Nat /\ o # NoOrder
  BY OrderType DEF BookInv, TypeOK
<1>5. HeapSound'
  <2>1. /\ not_ready_orders' \subseteq received' /\ order' = NoOrder
        /\ \A o, p \in received' : o.order_id = p.order_id => o = p
    BY <1>0, <1>1 DEF HeapSound
  <2>2. ASSUME NEW o \in received
        PROVE  o \in not_ready_orders' <=> o.order_id > last_commit_order_id'
    <3>1. o \in not_ready_orders <=> o.order_id > last_commit_order_id
      BY <1>0 DEF HeapSound
    <3>2. o = order \/ o.order_id # last_commit_order_id + 1
      BY <1>2
    <3> QED  BY <1>1, <1>2, <1>4, <3>1, <3>2
  <2>3. ASSUME NEW n \in 1 .. last_commit_order_id + 1 PROVE \E o \in received : o.order_id = n
    <3>1. CASE n \in 1 .. last_commit_order_id
      BY <1>0, <3>1 DEF HeapSound
    <3>2. CASE n = last_commit_order_id + 1
      BY <1>2, <3>2
    <3> QED  BY <1>2, <3>1, <3>2
  <2> QED  BY <1>1, <2>1, <2>2, <2>3 DEF HeapSound
<1>6. ASSUME NEW o \in received PROVE Balanced(o)'
  <2>1. /\ Balanced(o) /\ Resting(o.order_id) \in Nat /\ Traded(o.order_id) \in Nat
        /\ o # order' /\ o.volume \in Int /\ left_volume \in Nat
    BY SMTT(30), <1>0, <1>1, <1>4, SumsAreNat, OrderType DEF BookInv, TypeOK
  <2>2. CASE o = order
    <3>1. Accounted(o.order_id) = o.volume - left_volume /\ Resting(o.order_id) = 0
      BY <2>1, <2>2 DEF Balanced
    <3>2. Resting(o.order_id)' = Resting(o.order_id) + k /\ Traded(o.order_id)' = Traded(o.order_id)
      BY <2>2
    <3>3. Accounted(o.order_id)' = (o.volume - left_volume) + k /\ Resting(o.order_id)' = k
      BY <2>1, <3>1, <3>2 DEF Accounted
    <3>4. Closed(o, Accounted(o.order_id)', Resting(o.order_id)')
      BY SMTT(30), <2>2, <3>3
    <3> QED  BY <1>1, <2>1, <2>2, <3>4 DEF Balanced, Closed
  <2>3. CASE o # order
    <3>1. Resting(o.order_id)' = Resting(o.order_id) + 0 /\ Traded(o.order_id)' = Traded(o.order_id)
      BY <1>2, <2>3
    <3>2. Resting(o.order_id)' = Resting(o.order_id) /\ Accounted(o.order_id)' = Accounted(o.order_id)
      BY <2>1, <3>1 DEF Accounted
    <3> QED  BY <1>1, <2>1, <2>3, <3>2 DEF Balanced, Closed
  <2> QED  BY SMTT(30), <2>2, <2>3
<1> QED  BY <1>1, <1>3, <1>5, <1>6 DEF Accounts

(* A round of a matching loop moves volume from the record and from what is *)
(* What a match moves between two accounts, as arithmetic. *)
LEMMA Moves ==
  ASSUME NEW t \in Nat, NEW x \in Nat, NEW y \in Nat, NEW v \in Nat \ {0}, NEW l \in Nat, NEW n \in Nat
  PROVE  /\ t + x = n - l => (t + v) + x = n - (l - v)
         /\ y + v = x => (t + v) + y = t + x /\ x # 0 /\ t + x # 0
  OBVIOUS

(* left of the order to the trades.                                         *)
LEMMA MatchAccounts ==
  ASSUME BookInv, Accounts, order # NoOrder, d \in Sides, left_volume # 0,
         order.type \in {0, 1, 3, 4, 5}, order.type = 1 => t_price # 0,
         order.type = 5 => left_volume <= TotalVolume(Counter),
         NEW r \in Counter, NEW p \in Nat, Match(r, p), t_price' = t_price
  PROVE  Accounts'
<1>0. FiniteBook /\ HeapSound /\ LeftSound /\ \A o \in received : Balanced(o)
  BY SMTT(30) DEF Accounts
<1> DEFINE v == Volume(r)
<1>1. /\ v \in Nat \ {0} /\ v <= left_volume /\ left_volume' = left_volume - v
      /\ r.order_id < order.order_id /\ FiniteBook'
      /\ TotalVolume(decl_book[-d]) \in Nat /\ TotalVolume(decl_book'[-d]) \in Nat
      /\ TotalVolume(decl_book'[-d]) + v = TotalVolume(decl_book[-d])
      /\ \A id : /\ Resting(id)' \in Nat
                 /\ Resting(id)' + (IF id = r.order_id THEN v ELSE 0) = Resting(id)
                 /\ Traded(id)' = Traded(id) + IF id \in {order.order_id, r.order_id} THEN v ELSE 0
  BY <1>0, MatchVolumes
<1> HIDE DEF v
<1>2. /\ order \in Orders /\ order \in received /\ left_volume \in Nat /\ order.volume \in Nat \ {0}
      /\ order.order_id \in Nat
      /\ \A o \in received \ {order} : o.order_id # order.order_id
  BY <1>0, CurrentOrder, OrderType
<1>3. /\ order' = order /\ received' = received /\ not_ready_orders' = not_ready_orders
      /\ last_commit_order_id' = last_commit_order_id
  BY DEF Match
<1>4. HeapSound'
  BY <1>0, <1>3 DEF HeapSound
<1>5. LeftSound'
  <2>1. ~Untouched'
    BY <1>3 DEF Untouched, d
  <2>2. left_volume' <= order.volume
    BY <1>0, <1>1, <1>2 DEF LeftSound
  <2> QED  BY <1>3, <2>1, <2>2 DEF LeftSound
<1>6. FokCovered'
  <2> SUFFICES ASSUME order.type = 5 PROVE left_volume' <= TotalVolume(decl_book'[-d])
    BY <1>3 DEF FokCovered, Handling, Counter, d
  <2>1. left_volume <= TotalVolume(decl_book[-d])
    BY DEF Counter
  <2>2. TotalVolume(decl_book'[-d]) = TotalVolume(decl_book[-d]) - v
    BY <1>1
  <2> QED  BY <1>1, <1>2, <2>1, <2>2
<1>7. ASSUME NEW o \in received PROVE Balanced(o)'
  <2> DEFINE id == o.order_id
  <2>1. /\ Balanced(o) /\ Resting(id) \in Nat /\ Traded(id) \in Nat /\ Resting(id)' \in Nat
        /\ Resting(id)' + (IF id = r.order_id THEN v ELSE 0) = Resting(id)
        /\ Traded(id)' = Traded(id) + IF id \in {order.order_id, r.order_id} THEN v ELSE 0
    BY <1>0, <1>1, SumsAreNat
  <2>2. CASE o = order
    <3>1. id # r.order_id
      <4>1. r.order_id < o.order_id /\ o.order_id \in Nat
        BY SMTT(30), <1>1, <1>2, <2>2
      <4> QED  BY <4>1
    <3>2. Resting(id)' = Resting(id) /\ Traded(id)' = Traded(id) + v
      BY SMTT(30), <1>1, <2>1, <2>2, <3>1
    <3>3. Accounted(id) = o.volume - left_volume /\ Resting(id) = 0
      BY <2>1, <2>2, Zenon DEF Balanced
    <3>4. Accounted(id)' = o.volume - left_volume'
      <4>1. o.volume \in Nat /\ left_volume \in Nat /\ v \in Nat \ {0} /\ left_volume' = left_volume - v
        BY <1>1, <1>2, <2>2, Zenon
      <4>2. Resting(id) \in Nat /\ Traded(id) \in Nat
        BY <2>1
      <4>3. Traded(id) + Resting(id) = o.volume - left_volume
        BY <3>3 DEF Accounted
      <4>4. (Traded(id) + v) + Resting(id) = o.volume - (left_volume - v)
        BY SMTT(30), <4>1, <4>2, <4>3, Moves
      <4> QED  BY SMTT(30), <3>2, <4>1, <4>4 DEF Accounted
    <3> QED  BY <1>3, <2>2, <3>2, <3>3, <3>4 DEF Balanced
  <2>3. CASE o # order /\ id # r.order_id
    <3>1. Resting(id)' = Resting(id) /\ Traded(id)' = Traded(id)
      BY SMTT(30), <1>2, <2>1, <2>3
    <3> QED  BY <1>3, <2>1, <2>3, <3>1 DEF Balanced, Accounted, Closed
  <2>4. CASE o # order /\ id = r.order_id
    <3>1. Resting(id)' + v = Resting(id) /\ Traded(id)' = Traded(id) + v
      BY <2>1, <2>4, Zenon
    <3>2. Accounted(id)' = Accounted(id) /\ Resting(id) # 0 /\ Accounted(id) # 0
      <4>1. Resting(id) \in Nat /\ Traded(id) \in Nat /\ Resting(id)' \in Nat /\ v \in Nat \ {0}
        BY <1>1, <2>1
      <4>2. (Traded(id) + v) + Resting(id)' = Traded(id) + Resting(id)
            /\ Resting(id) # 0 /\ Traded(id) + Resting(id) # 0
        BY <3>1, <4>1, Moves
      <4> QED  BY SMTT(30), <3>1, <4>2 DEF Accounted
    <3>3. o \notin not_ready_orders /\ Closed(o, Accounted(id), Resting(id))
      <4>1. Accounted(id) # 0 /\ Balanced(o) /\ o # order
        BY <2>1, <2>4, <3>2
      <4> QED  BY <4>1 DEF Balanced
    <3>4. Closed(o, Accounted(id)', Resting(id)')
      BY <3>2, <3>3 DEF Closed
    <3>5. o # order' /\ o \notin not_ready_orders'
      BY <1>3, <2>4, <3>3
    <3>6. Closed(o, Accounted(id), Resting(id))'
      BY <3>4 DEF Closed
    <3> QED  BY <3>5, <3>6, Zenon DEF Balanced
  <2> QED  BY SMTT(30), <2>2, <2>3, <2>4
<1> QED  BY <1>1, <1>3, <1>4, <1>5, <1>6, <1>7 DEF Accounts

(* An order arrives: nothing of it is in a record or a trade. *)
LEMMA ReceiveAccounts ==
  ASSUME BookInv, Accounts, NEW o \in Orders, receiveOrder(o)
  PROVE  Accounts'
<1>0. FiniteBook /\ HeapSound /\ LeftSound /\ FokCovered /\ \A x \in received : Balanced(x)
  BY DEF Accounts
<1>1. /\ order = NoOrder /\ order' = order /\ received' = received \cup {o}
      /\ not_ready_orders' = not_ready_orders \cup {o}
      /\ \A x \in received : x.order_id # o.order_id
      /\ UNCHANGED <<decl_book, last_commit_order_id, left_volume, t_price, trade_list>>
  BY DEF receiveOrder, locals
<1>2. o.order_id \in Nat \ {0} /\ last_commit_order_id \in Nat /\ o # NoOrder
  BY OrdersAssumption DEF BookInv, TypeOK
<1>3. o.order_id > last_commit_order_id
  <2> SUFFICES ASSUME o.order_id <= last_commit_order_id PROVE FALSE
    BY <1>2
  <2>1. o.order_id \in 1 .. last_commit_order_id
    BY <1>2
  <2> QED  BY <1>0, <1>1, <2>1 DEF HeapSound
<1>4. FiniteBook' /\ LeftSound' /\ FokCovered'
  BY <1>0, <1>1 DEF FiniteBook, LeftSound, FokCovered, Handling
<1>5. HeapSound'
  <2>1. not_ready_orders' \subseteq received' /\ order' = NoOrder
    BY <1>0, <1>1 DEF HeapSound
  <2>2. \A x, y \in received' : x.order_id = y.order_id => x = y
    BY <1>0, <1>1 DEF HeapSound
  <2>3. \A x \in received' : x \in not_ready_orders' <=> x.order_id > last_commit_order_id'
    BY <1>0, <1>1, <1>3 DEF HeapSound
  <2>4. \A n \in 1 .. last_commit_order_id' : \E x \in received' : x.order_id = n
    BY <1>0, <1>1 DEF HeapSound
  <2> QED  BY <2>1, <2>2, <2>3, <2>4 DEF HeapSound
<1>6. \A id : Resting(id)' = Resting(id) /\ Traded(id)' = Traded(id)
  BY <1>1, SumsOfState DEF AllRecords
<1>7. Resting(o.order_id) = 0
  <2>1. \A r \in AllRecords : r.order_id \in Nat /\ r.order_id <= last_commit_order_id
    BY DEF AllRecords, BookInv, TypeOK, RecordsSound, Sides, Records
  <2>2. \A r \in AllRecords : r.order_id # o.order_id
    BY <1>2, <1>3, <2>1
  <2> QED  BY <2>2, NothingAccounted
<1>8. Traded(o.order_id) = 0
  <2>1. ASSUME NEW i \in DOMAIN trade_list
        PROVE  o.order_id \notin {trade_list[i].bid_id, trade_list[i].ask_id}
    <3>1. Taker(trade_list[i]) <= last_commit_order_id + 0
      BY <1>1 DEF BookInv, TakersCommitted
    <3>2. trade_list[i] \in Trades
      BY DEF BookInv, TypeOK
    <3>3. /\ trade_list[i].bid_id \in Nat /\ trade_list[i].ask_id \in Nat
          /\ trade_list[i].bid_id <= Taker(trade_list[i])
          /\ trade_list[i].ask_id <= Taker(trade_list[i]) /\ Taker(trade_list[i]) \in Nat
      BY <3>2 DEF Trades, Taker
    <3> QED  BY <1>2, <1>3, <3>1, <3>3
  <2> QED  BY <2>1, NothingAccounted
<1>9. ASSUME NEW x \in received' PROVE Balanced(x)'
  <2>1. CASE x = o
    <3>1. Accounted(o.order_id)' = 0
      BY SMTT(30), <1>6, <1>7, <1>8 DEF Accounted
    <3> QED  BY <1>1, <1>2, <2>1, <3>1 DEF Balanced
  <2>2. CASE x \in received /\ x # o
    <3>1. Balanced(x)
      BY <1>0, <2>2
    <3> QED  BY <1>1, <1>6, <2>2, <3>1 DEF Balanced, Accounted, Closed
  <2> QED  BY <1>1, <2>1, <2>2
<1> QED  BY <1>4, <1>5, <1>9 DEF Accounts

(* An order becomes the current one, with all of its volume left. *)
LEMMA CommitAccounts ==
  ASSUME BookInv, Accounts, NEW o \in not_ready_orders, commitOrder(o)
  PROVE  Accounts'
<1>0. FiniteBook /\ HeapSound /\ \A x \in received : Balanced(x)
  BY DEF Accounts
<1>1. /\ order = NoOrder /\ order' = o /\ left_volume' = o.volume
      /\ UNCHANGED <<decl_book, not_ready_orders, last_commit_order_id, received, trade_list>>
  BY DEF commitOrder
<1>2. o \in Orders /\ o \in received /\ o.volume \in Nat /\ o # NoOrder
  BY <1>0, OrderType DEF BookInv, TypeOK, HeapSound
<1>3. FiniteBook' /\ HeapSound'
  BY <1>0, <1>1 DEF FiniteBook, HeapSound
<1>4. LeftSound' /\ FokCovered'
  BY <1>1, <1>2 DEF LeftSound, FokCovered
<1>5. \A id : Resting(id)' = Resting(id) /\ Traded(id)' = Traded(id)
  BY <1>1, SumsOfState DEF AllRecords
<1>6. ASSUME NEW x \in received PROVE Balanced(x)'
  <2>1. Balanced(x) /\ x # NoOrder /\ Resting(x.order_id) \in Nat /\ Traded(x.order_id) \in Nat
    BY <1>0, SumsAreNat, OrderType DEF BookInv, TypeOK
  <2>2. CASE x = o
    <3>1. Accounted(x.order_id) = 0
      BY <1>1, <2>1, <2>2 DEF Balanced
    <3>2. Resting(x.order_id) = 0
      BY <2>1, <3>1 DEF Accounted
    <3>3. Accounted(x.order_id)' = x.volume - left_volume' /\ Resting(x.order_id)' = 0
      BY SMTT(30), <1>1, <1>2, <1>5, <2>2, <3>1, <3>2 DEF Accounted
    <3> QED  BY <1>1, <2>2, <3>3 DEF Balanced
  <2>3. CASE x # o
    BY <1>1, <1>5, <2>1, <2>3 DEF Balanced, Accounted, Closed
  <2> QED  BY SMTT(30), <2>2, <2>3
<1> QED  BY <1>1, <1>3, <1>4, <1>6 DEF Accounts

(* A handler returns without touching the book. *)
LEMMA LeaveAccounts ==
  ASSUME BookInv, Accounts, order # NoOrder, NEW s, NEW q, Return(s, q), UNCHANGED decl_book,
         Closed(order, order.volume - left_volume, 0)
  PROVE  Accounts'
<1>0. FiniteBook /\ HeapSound
  BY DEF Accounts
<1>1. FiniteBook'
  BY <1>0 DEF FiniteBook
<1>2. ASSUME NEW id
      PROVE  /\ Resting(id)' = Resting(id) + IF id = order.order_id THEN 0 ELSE 0
             /\ Traded(id)' = Traded(id)
  <2>1. Resting(id) \in Nat
    BY SMTT(30), <1>0, SumsAreNat
  <2>2. Resting(id)' = Resting(id) /\ Traded(id)' = Traded(id)
    BY SumsOfState, Zenon DEF AllRecords, Return
  <2> QED  BY <2>1, <2>2
<1>3. order.volume \in Nat /\ left_volume \in Nat
  BY <1>0, CurrentOrder
<1>4. Closed(order, (order.volume - left_volume) + 0, 0)
  <2>1. (order.volume - left_volume) + 0 = order.volume - left_volume
    BY <1>3
  <2> QED  BY <2>1
<1> QED  BY <1>1, <1>2, <1>4, ReturnAccounts

(* A handler returns after putting what is left of the order to rest. *)
LEMMA RestAccounts ==
  ASSUME BookInv, Accounts, order # NoOrder, d \in Sides, NEW p \in Nat, NEW s, NEW q,
         InsertRemainder(p), Return(s, q), order.type \in {0, 1, 2}
  PROVE  Accounts'
<1>0. FiniteBook /\ HeapSound
  BY DEF Accounts
<1>1. order.volume \in Nat /\ left_volume \in Nat /\ d = order.direction
  BY <1>0, CurrentOrder DEF d
<1>2. trade_list' = trade_list
  BY DEF Return
<1>3. /\ FiniteBook'
      /\ \A id : /\ Resting(id)' = Resting(id) + IF id = order.order_id THEN left_volume ELSE 0
                 /\ Traded(id)' = Traded(id)
  BY <1>0, <1>2, InsertVolumes
<1>4. Closed(order, (order.volume - left_volume) + left_volume, left_volume)
  <2>1. (order.volume - left_volume) + left_volume = order.volume
    BY <1>1
  <2> QED  BY <1>1, <2>1 DEF Closed
<1> QED  BY <1>1, <1>3, <1>4, ReturnAccounts

(* A limit order trades, then rests. *)
LEMMA LimitOrderAccounts == BookInv /\ Accounts /\ handleLimitOrder => Accounts'
<1> SUFFICES ASSUME BookInv, Accounts, handleLimitOrder PROVE Accounts'
  OBVIOUS
<1>1. order # NoOrder /\ d \in Sides /\ order.type = 0 /\ order \in Orders /\ order.price \in Nat
  BY OrderType DEF handleLimitOrder, Handling, BookInv, TypeOK
<1>2. -d \in Sides /\ \A r \in Counter : r.price \in Nat
  BY <1>1, OppositeSide DEF Counter, BookInv, TypeOK, Records
<1>3. CASE \E r \in Counter : left_volume # 0 /\ Match(r, r.price) /\ t_price' = t_price
  BY <1>1, <1>2, <1>3, MatchAccounts
<1>4. CASE InsertRemainder(order.price) /\ Return(0, 0)
  BY <1>1, <1>4, RestAccounts
<1> QED  BY <1>3, <1>4 DEF handleLimitOrder

(* A type 1 order is rejected whole, or trades and rests. *)
LEMMA CounterpartyBestAccounts == BookInv /\ Accounts /\ handleCounterpartyBest => Accounts'
<1> SUFFICES ASSUME BookInv, Accounts, handleCounterpartyBest PROVE Accounts'
  OBVIOUS
<1>0. FiniteBook /\ HeapSound /\ LeftSound /\ FokCovered /\ \A o \in received : Balanced(o)
  BY SMTT(30) DEF Accounts
<1>1. order # NoOrder /\ d \in Sides /\ order.type = 1 /\ t_price \in Nat
      /\ order.volume \in Nat \ {0} /\ left_volume \in Nat
  BY <1>0, CurrentOrder, Zenon DEF handleCounterpartyBest, Handling, BookInv, TypeOK
<1>2. CASE t_price = 0 /\ Return(-1, 0) /\ UNCHANGED decl_book
  <2>1. left_volume = order.volume
    BY <1>0, <1>1, <1>2 DEF LeftSound, Untouched
  <2>2. Closed(order, order.volume - left_volume, 0)
    <3>1. order.volume - left_volume = 0
      BY <1>1, <2>1
    <3> QED  BY <1>1, <3>1 DEF Closed
  <2> QED  BY <1>1, <1>2, <2>2, LeaveAccounts
<1>3. CASE /\ t_price = 0
           /\ UNCHANGED <<decl_book, not_ready_orders, last_commit_order_id, order,
                          left_volume, level_count, previous_price, trade_list,
                          status, ret, received, committed>>
  <2>1. \A id : Resting(id)' = Resting(id) /\ Traded(id)' = Traded(id)
    BY <1>3, SumsOfState, Zenon DEF AllRecords
  <2>2. left_volume = order.volume
    BY <1>0, <1>1, <1>3 DEF LeftSound, Untouched
  <2>3. LeftSound'
    BY <1>1, <1>3, <2>2 DEF LeftSound
  <2>4. FiniteBook' /\ HeapSound' /\ FokCovered'
    BY SMTT(30), <1>0, <1>1, <1>3 DEF FiniteBook, HeapSound, FokCovered, Handling
  <2>5. \A o \in received' : Balanced(o)'
    BY <1>0, <1>3, <2>1 DEF Balanced, Accounted, Closed
  <2> QED  BY <2>3, <2>4, <2>5 DEF Accounts
<1>4. CASE /\ t_price # 0 /\ left_volume # 0 /\ t_price' = t_price
           /\ \E r \in Counter : Match(r, t_price)
  BY <1>1, <1>4, MatchAccounts
<1>5. CASE InsertRemainder(t_price) /\ Return(0, 0)
  BY <1>1, <1>5, RestAccounts
<1> QED  BY <1>2, <1>3, <1>4, <1>5 DEF handleCounterpartyBest

(* A type 2 order is rejected whole or rests whole. *)
LEMMA OurBestAccounts == BookInv /\ Accounts /\ handleOurBest => Accounts'
<1> SUFFICES ASSUME BookInv, Accounts, handleOurBest PROVE Accounts'
  OBVIOUS
<1>0. HeapSound /\ LeftSound
  BY DEF Accounts
<1>1. order # NoOrder /\ d \in Sides /\ order.type = 2 /\ order.volume \in Nat \ {0} /\ left_volume \in Nat
  BY <1>0, CurrentOrder DEF handleOurBest, Handling
<1>2. \A r \in Own : r.price \in Nat
  BY <1>1 DEF Own, BookInv, TypeOK, Records
<1>3. CASE Return(-1, 0) /\ UNCHANGED decl_book
  <2>1. left_volume = order.volume
    BY <1>0, <1>1 DEF LeftSound, Untouched
  <2>2. Closed(order, order.volume - left_volume, 0)
    <3>1. order.volume - left_volume = 0
      BY <1>1, <2>1
    <3> QED  BY <1>1, <3>1 DEF Closed
  <2> QED  BY <1>1, <1>3, <2>2, LeaveAccounts
<1>4. CASE (\E r \in Own : InsertRemainder(r.price)) /\ Return(0, 0)
  BY <1>1, <1>2, <1>4, RestAccounts
<1> QED  BY <1>3, <1>4 DEF handleOurBest

(* Type 3 and 4 orders trade, then what is left of them is cancelled. *)
LEMMA FiveLevelAccounts == BookInv /\ Accounts /\ handleFiveLevelOtherCancel => Accounts'
<1> SUFFICES ASSUME BookInv, Accounts, handleFiveLevelOtherCancel PROVE Accounts'
  OBVIOUS
<1>0. HeapSound /\ LeftSound
  BY DEF Accounts
<1>1. /\ order # NoOrder /\ d \in Sides /\ order.direction \in Sides /\ order.type = 3
      /\ order.volume \in Nat \ {0} /\ left_volume \in Nat
  BY <1>0, CurrentOrder DEF handleFiveLevelOtherCancel, Handling, d
<1>2. -d \in Sides /\ \A r \in Counter : r.price \in Nat
  BY <1>1, OppositeSide DEF Counter, BookInv, TypeOK, Records
<1>3. CASE \E r \in Counter : left_volume # 0 /\ Match(r, r.price) /\ t_price' = t_price
  BY <1>1, <1>2, <1>3, MatchAccounts
<1>4. CASE \E s : Return(s, 0) /\ UNCHANGED decl_book
  <2>1. order.volume - left_volume <= order.volume
    BY <1>1
  <2>2. Closed(order, order.volume - left_volume, 0)
    BY <1>1, <2>1 DEF Closed
  <2> QED  BY <1>1, <1>4, <2>2, LeaveAccounts
<1> QED  BY <1>3, <1>4 DEF handleFiveLevelOtherCancel

(* handleImmediateOtherCancel keeps the accounts. *)
LEMMA ImmediateAccounts == BookInv /\ Accounts /\ handleImmediateOtherCancel => Accounts'
<1> SUFFICES ASSUME BookInv, Accounts, handleImmediateOtherCancel PROVE Accounts'
  OBVIOUS
<1>0. HeapSound /\ LeftSound
  BY DEF Accounts
<1>1. /\ order # NoOrder /\ d \in Sides /\ order.direction \in Sides /\ order.type = 4
      /\ order.volume \in Nat \ {0} /\ left_volume \in Nat
  BY <1>0, CurrentOrder DEF handleImmediateOtherCancel, Handling, d
<1>2. -d \in Sides /\ \A r \in Counter : r.price \in Nat
  BY <1>1, OppositeSide DEF Counter, BookInv, TypeOK, Records
<1>3. CASE \E r \in Counter : left_volume # 0 /\ Match(r, r.price) /\ t_price' = t_price
  BY <1>1, <1>2, <1>3, MatchAccounts
<1>4. CASE Return(left_volume, 0) /\ UNCHANGED decl_book
  <2>1. order.volume - left_volume <= order.volume
    BY <1>1
  <2>2. Closed(order, order.volume - left_volume, 0)
    BY <1>1, <2>1 DEF Closed
  <2> QED  BY <1>1, <1>4, <2>2, LeaveAccounts
<1> QED  BY <1>3, <1>4 DEF handleImmediateOtherCancel

(* A type 5 order is rejected whole, or the counterparty covers what is     *)
(* left of it in every round.                                               *)
LEMMA WholeOrCancelAccounts == BookInv /\ Accounts /\ handleWholeOrCancel => Accounts'
<1> SUFFICES ASSUME BookInv, Accounts, handleWholeOrCancel PROVE Accounts'
  OBVIOUS
<1>0. HeapSound /\ LeftSound /\ FiniteBook /\ FokCovered
  BY DEF Accounts
<1>1. /\ order # NoOrder /\ d \in Sides /\ order.direction \in Sides /\ order.type = 5
      /\ order.volume \in Nat \ {0} /\ left_volume \in Nat
  BY <1>0, CurrentOrder DEF handleWholeOrCancel, Handling, d
<1>2. -d \in Sides /\ \A r \in Counter : r.price \in Nat
  BY <1>1, OppositeSide DEF Counter, BookInv, TypeOK, Records
<1>3. CASE /\ ~Uncovered /\ t_price' = t_price
           /\ \E r \in Counter : left_volume # 0 /\ Match(r, r.price)
  <2>1. TotalVolume(Counter) \in Nat
    <3>1. Counter \subseteq Records /\ IsFiniteSet(Counter)
      BY <1>0, <1>2 DEF Counter, FiniteBook, BookInv, TypeOK
    <3> QED  BY <3>1, TotalSplit
  <2>2. left_volume <= TotalVolume(Counter)
    <3>1. CASE left_volume = order.volume
      BY <1>1, <1>3, <2>1, <3>1 DEF Uncovered
    <3>2. CASE left_volume # order.volume
      <4>1. left_volume < order.volume
        BY <1>0, <1>1, <3>2 DEF LeftSound
      <4> QED  BY <1>0, <1>1, <4>1 DEF FokCovered, Handling
    <3> QED  BY <3>1, <3>2
  <2> QED  BY <1>1, <1>2, <1>3, <2>2, MatchAccounts
<1>4. CASE Uncovered /\ Return(-1, 0) /\ UNCHANGED decl_book
  <2>1. order.volume - left_volume = 0
    BY <1>1, <1>4 DEF Uncovered
  <2>2. Closed(order, order.volume - left_volume, 0)
    BY <1>1, <2>1 DEF Closed
  <2> QED  BY <1>1, <1>4, <2>2, LeaveAccounts
<1>5. CASE left_volume = 0 /\ Return(0, 0) /\ UNCHANGED decl_book
  <2>1. order.volume - left_volume = order.volume
    BY <1>1, <1>5
  <2>2. Closed(order, order.volume - left_volume, 0)
    BY <1>1, <2>1 DEF Closed
  <2> QED  BY <1>1, <1>5, <2>2, LeaveAccounts
<1> QED  BY <1>3, <1>4, <1>5 DEF handleWholeOrCancel

(* An order without effect on the book has traded nothing. *)
LEMMA DropOrderAccounts == BookInv /\ Accounts /\ dropOrder => Accounts'
<1> SUFFICES ASSUME BookInv, Accounts, dropOrder PROVE Accounts'
  OBVIOUS
<1>0. HeapSound /\ LeftSound
  BY DEF Accounts
<1>1. /\ order # NoOrder /\ order.volume \in Nat \ {0} /\ left_volume \in Nat /\ order.type \in Int
      /\ order.type \notin 0 .. 5 \/ order.direction \notin Sides
      /\ \E s : Return(s, s) /\ UNCHANGED decl_book
  BY <1>0, CurrentOrder DEF dropOrder, d
<1>2. order.volume - left_volume = 0
  <2>1. Untouched
    BY <1>1 DEF Untouched, d
  <2> QED  BY <1>0, <1>1, <2>1 DEF LeftSound
<1>3. Closed(order, order.volume - left_volume, 0)
  BY <1>1, <1>2 DEF Closed
<1> QED  BY <1>1, <1>3, LeaveAccounts

(* Every step keeps the accounts. *)
LEMMA AccountsNext == BookInv /\ Accounts /\ [Next]_vars => Accounts'
<1> SUFFICES ASSUME BookInv, Accounts, [Next]_vars PROVE Accounts'
  OBVIOUS
<1>1. CASE UNCHANGED vars
  <2>1. \A id : Resting(id)' = Resting(id) /\ Traded(id)' = Traded(id)
    BY SMTT(30), <1>1, SumsOfState DEF AllRecords, vars
  <2>2. FiniteBook' /\ HeapSound' /\ LeftSound' /\ FokCovered'
    BY SMTT(30), <1>1 DEF vars, locals, Accounts, FiniteBook, HeapSound, LeftSound, Untouched, FokCovered,
                Handling, Counter, d
  <2>3. \A o \in received' : Balanced(o)'
    BY <1>1, <2>1, Zenon DEF vars, locals, Accounts, Balanced, Accounted, Closed
  <2> QED  BY SMTT(30), <2>2, <2>3 DEF Accounts
<1>2. CASE \E o \in Orders : receiveOrder(o)
  BY <1>2, ReceiveAccounts
<1>3. CASE \E o \in not_ready_orders : commitOrder(o)
  BY <1>3, CommitAccounts
<1> QED  BY <1>1, <1>2, <1>3, LimitOrderAccounts, CounterpartyBestAccounts, OurBestAccounts, FiveLevelAccounts,
            ImmediateAccounts, WholeOrCancelAccounts, DropOrderAccounts DEF Next, Thread

(* The accounts are balanced in every state. *)
THEOREM AccountsInvariant == Spec => []Accounts
<1>1. Init => Accounts
  BY FS_EmptySet DEF Init, Accounts, FiniteBook, HeapSound, LeftSound, FokCovered, Handling, Sides, Buy, Sell
<1>2. BookInv /\ Accounts /\ [Next]_vars => Accounts'
  BY AccountsNext
<1> QED  BY <1>1, <1>2, BookInvariant, PTL DEF Spec

(* Over all the trades of an order, first as the arriving one and later as  *)
(* a resting record, no volume is lost or made up by the handlers of        *)
(* stock_exchange.cpp, whatever the orders and their arrival.               *)
THEOREM VolumeIsConserved == Spec => []VolumeConserved
<1>1. Accounts => VolumeConserved
  BY BalancedConserves DEF Accounts
<1> QED  BY <1>1, AccountsInvariant, PTL

(* Once handleWholeOrCancel() has begun to trade, the counterparty has      *)
(* enough to fill the order: its asserts never fail.                        *)
THEOREM FokStaysCovered == Spec => []FokCovered
<1>1. Accounts => FokCovered
  BY DEF Accounts
<1> QED  BY <1>1, AccountsInvariant, PTL
=============================================================================
