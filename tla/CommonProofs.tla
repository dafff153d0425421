---------------------------- MODULE CommonProofs ----------------------------
(***************************************************************************)
(* What the threads of a process share, under common/.  BlockQueue loses   *)
(* no wake-up and implements BlockQueueSTL, SlidingWindow loses no         *)
(* wake-up, and under PauseControl a stopped thread stays away from its    *)
(* socket and reset_port() has the sockets to itself when the operator     *)
(* gives the commands in their order: for any number of threads and any    *)
(* capacity.                                                               *)
(***************************************************************************)
EXTENDS BlockQueue, Functions, SequenceTheorems, TLAPS

CONSTANTS Senders, Receivers, IsTrader, Disciplined

VARIABLES data_, avaliable_, head_, getting, waiting
VARIABLES locked, inside, connected, command, todo, touching, stopped

Window == INSTANCE SlidingWindow WITH capacity_ <- m_maxCapacity
Pause == INSTANCE PauseControl

(* The remainder of a division is a slot of the ring. *)
LEMMA ModBounds ==
  ASSUME NEW a \in Int, NEW n \in Nat \ {0}
  PROVE  a % n \in 0 .. n - 1
  OBVIOUS

(* A number below n is its own remainder. *)
LEMMA ModSmall ==
  ASSUME NEW n \in Nat \ {0}, NEW a \in 0 .. n - 1
  PROVE  a % n = a
  OBVIOUS

(* Past n the remainder wraps around once. *)
LEMMA ModWrap ==
  ASSUME NEW n \in Nat \ {0}, NEW a \in n .. 2 * n - 1
  PROVE  a % n = a - n
  OBVIOUS

(* An index of the ring plus an offset into it wraps around at most once. *)
LEMMA ModRing ==
  ASSUME NEW n \in Nat \ {0}, NEW a \in 0 .. 2 * n - 1
  PROVE  a % n = IF a < n THEN a ELSE a - n
<1>1. CASE a < n
  BY <1>1, ModSmall
<1>2. CASE ~(a < n)
  BY <1>2, ModWrap
<1> QED  BY <1>1, <1>2

USE QueueAssumption

QueueInv == TypeOK /\ RingConsistent /\ NoLostWakeup

-----------------------------------------------------------------------------
(* An empty queue satisfies the invariant. *)
LEMMA QueueInvInit == Init => QueueInv
<1> SUFFICES ASSUME Init PROVE QueueInv
  OBVIOUS
<1>1. 0 % m_maxCapacity = 0
  BY ModSmall
<1> QED  BY <1>1 DEF Init, QueueInv, TypeOK, RingConsistent, NoLostWakeup, Slots

(* Storing at the tail keeps the indices consistent and appends to the      *)
(* contents: the slot at the tail holds none of them.                       *)
LEMMA PushRing ==
  ASSUME QueueInv, NEW t \in Items, Push(t)
  PROVE  /\ m_queue' \in [Slots -> Items \cup {NoItem}]
         /\ m_head_' \in Slots /\ m_tail_' \in Slots /\ m_sz_' \in 0 .. m_maxCapacity
         /\ RingConsistent'
         /\ Contents' = Append(Contents, t)
<1> DEFINE n == m_maxCapacity
<1>1. /\ n \in Nat \ {0} /\ m_head_ \in 0 .. n - 1 /\ m_tail_ \in 0 .. n - 1
      /\ m_sz_ \in 0 .. n - 1
      /\ m_queue \in [0 .. n - 1 -> Items \cup {NoItem}]
      /\ m_tail_ = (m_head_ + m_sz_) % n
  BY DEF QueueInv, TypeOK, RingConsistent, Slots, Push
<1>2. /\ m_queue' = [m_queue EXCEPT ![m_tail_] = t] /\ m_head_' = m_head_
      /\ m_tail_' = (m_tail_ + 1) % n /\ m_sz_' = m_sz_ + 1
  BY DEF Push
<1> HIDE DEF n
<1>3. (m_tail_ + 1) % n \in 0 .. n - 1
  BY <1>1, ModBounds
<1>4. m_tail_' = (m_head_' + m_sz_') % n
  <2> DEFINE a == m_head_ + m_sz_
  <2>1. a \in 0 .. 2 * n - 2 /\ m_head_ + (m_sz_ + 1) = a + 1 /\ m_tail_ = a % n
    BY <1>1
  <2> HIDE DEF a
  <2>2. ((a % n) + 1) % n = (a + 1) % n
    <3>1. CASE a < n
      <4>1. a \in 0 .. n - 1
        BY <2>1, <3>1, <1>1
      <4>2. a % n = a
        BY <4>1, <1>1, ModSmall
      <4> QED  BY <4>2
    <3>2. CASE ~(a < n)
      <4> DEFINE b == a - n + 1  d == a + 1
      <4>1. a \in n .. 2 * n - 1 /\ b \in 0 .. n - 1 /\ d \in n .. 2 * n - 1 /\ d - n = b
        BY <2>1, <3>2, <1>1
      <4> HIDE DEF b, d
      <4>2. a % n = a - n /\ d % n = d - n
        BY <4>1, <1>1, ModWrap, Zenon
      <4>3. b % n = b
        BY <4>1, <1>1, ModSmall
      <4> QED  BY <4>1, <4>2, <4>3 DEF b, d
    <3> QED  BY <3>1, <3>2
  <2> QED  BY <1>2, <2>1, <2>2
<1>5. ASSUME NEW i \in 1 .. m_sz_ + 1
      PROVE  m_queue'[(m_head_ + i - 1) % n] =
               IF i = m_sz_ + 1 THEN t ELSE m_queue[(m_head_ + i - 1) % n]
  <2>1. (m_head_ + i - 1) % n \in 0 .. n - 1
    BY <1>1, ModBounds
  <2>2. CASE i = m_sz_ + 1
    <3>1. m_head_ + i - 1 = m_head_ + m_sz_
      BY <1>1, <2>2
    <3> QED  BY <2>2, <3>1, <1>1, <1>2
  <2>3. CASE i # m_sz_ + 1
    <3>1. /\ m_head_ + i - 1 \in Int /\ m_head_ + m_sz_ \in Int
          /\ m_head_ + i - 1 < m_head_ + m_sz_
          /\ m_head_ + m_sz_ < m_head_ + i - 1 + n
      BY <1>1, <2>3
    <3>2. (m_head_ + i - 1) % n # (m_head_ + m_sz_) % n
      <4> DEFINE a == m_head_ + i - 1  b == m_head_ + m_sz_
      <4>1. a \in 0 .. 2 * n - 1 /\ b \in 0 .. 2 * n - 1 /\ a < b /\ b < a + n
        BY <3>1, <1>1
      <4> HIDE DEF a, b
      <4>2. a % n # b % n
        <5>1. /\ a % n = IF a < n THEN a ELSE a - n
              /\ b % n = IF b < n THEN b ELSE b - n
          BY <4>1, <1>1, ModRing, ZenonT(30)
        <5> QED  BY <4>1, <5>1, <1>1
      <4> QED  BY <4>2 DEF a, b
    <3> QED  BY <3>2, <2>1, <2>3, <1>1, <1>2
  <2> QED  BY <2>2, <2>3
<1>6. Contents' = Append(Contents, t)
  <2> DEFINE c == Contents
  <2>1. /\ c = [i \in 1 .. m_sz_ |-> m_queue[(m_head_ + i - 1) % n]]
        /\ Contents' = [i \in 1 .. m_sz_ + 1 |-> m_queue'[(m_head_ + i - 1) % n]]
    BY <1>2 DEF Contents, n
  <2>2. /\ c \in Seq(Items \cup {NoItem}) /\ Len(c) = m_sz_
    <3>1. ASSUME NEW i \in 1 .. m_sz_
          PROVE  m_queue[(m_head_ + i - 1) % n] \in Items \cup {NoItem}
      <4>0. m_head_ + i - 1 \in Int
        BY <1>1
      <4>1. (m_head_ + i - 1) % n \in 0 .. n - 1
        BY <4>0, <1>1, ModBounds, ZenonT(30)
      <4> QED  BY <4>1, <1>1
    <3> QED  BY <2>1, <3>1, <1>1
  <2> HIDE DEF c
  <2>3. ASSUME NEW i \in 1 .. m_sz_ + 1
        PROVE  m_queue'[(m_head_ + i - 1) % n] = Append(c, t)[i]
    <3>1. CASE i = m_sz_ + 1
      BY <3>1, <1>5, <2>2
    <3>2. CASE i # m_sz_ + 1
      <4>1. i \in 1 .. m_sz_
        BY <3>2, <1>1
      <4>2. c[i] = m_queue[(m_head_ + i - 1) % n]
        BY <4>1, <2>1
      <4>3. Append(c, t)[i] = c[i]
        BY <4>1, <2>2
      <4> QED  BY <3>2, <4>2, <4>3, <1>5
    <3> QED  BY <3>1, <3>2, ZenonT(30)
  <2>4. Append(c, t) = [i \in 1 .. m_sz_ + 1 |-> Append(c, t)[i]]
    <3>1. Append(c, t) \in Seq(Items \cup {NoItem}) /\ Len(Append(c, t)) = m_sz_ + 1
      BY <2>2, AppendProperties
    <3>2. Append(c, t) \in [1 .. m_sz_ + 1 -> Items \cup {NoItem}]
      BY <3>1, LenProperties, Zenon
    <3> QED  BY <3>2, Zenon
  <2>5. Contents' = Append(c, t)
    BY <2>1, <2>3, <2>4, ZenonT(30)
  <2> QED  BY <2>5 DEF c
<1>7. RingConsistent'
  BY <1>4 DEF RingConsistent, n
<1>8. m_queue' \in [0 .. n - 1 -> Items \cup {NoItem}] /\ m_sz_' \in 0 .. n
  BY <1>1, <1>2
<1> QED  BY <1>1, <1>2, <1>3, <1>6, <1>7, <1>8 DEF Slots, n

(* Moving the head on keeps the indices consistent and drops the first of   *)
(* the contents, the value that the slot at the head held.                  *)
LEMMA PopRing ==
  ASSUME QueueInv, NEW c \in Consumers, Pop(c)
  PROVE  /\ m_queue' \in [Slots -> Items \cup {NoItem}]
         /\ m_head_' \in Slots /\ m_tail_' \in Slots /\ m_sz_' \in 0 .. m_maxCapacity
         /\ RingConsistent'
         /\ Contents # <<>>
         /\ Contents' = Tail(Contents)
         /\ m_queue[m_head_] = Head(Contents)
         /\ m_queue[m_head_] \in Items \cup {NoItem}
<1> DEFINE n == m_maxCapacity
<1>1. /\ n \in Nat \ {0} /\ m_head_ \in 0 .. n - 1 /\ m_tail_ \in 0 .. n - 1
      /\ m_sz_ \in 1 .. n
      /\ m_queue \in [0 .. n - 1 -> Items \cup {NoItem}]
      /\ m_tail_ = (m_head_ + m_sz_) % n
  BY DEF QueueInv, TypeOK, RingConsistent, Slots, Pop
<1>2. /\ m_queue' = m_queue /\ m_head_' = (m_head_ + 1) % n
      /\ m_tail_' = m_tail_ /\ m_sz_' = m_sz_ - 1
  BY DEF Pop
<1> HIDE DEF n
<1>3. (m_head_ + 1) % n \in 0 .. n - 1
  BY <1>1, ModBounds
<1>4. ASSUME NEW k \in 0 .. n - 1
      PROVE  (((m_head_ + 1) % n) + k) % n = (m_head_ + 1 + k) % n
  <2>1. CASE m_head_ + 1 < n
    <3>0. m_head_ + 1 \in 0 .. n - 1
      BY <2>1, <1>1
    <3>1. (m_head_ + 1) % n = m_head_ + 1
      BY <3>0, <1>1, ModSmall, ZenonT(30)
    <3> QED  BY <3>1
  <2>2. CASE m_head_ + 1 = n
    <3>1. n % n = 0 /\ k % n = k
      BY <1>1, ModSmall, ModWrap
    <3>2. (n + k) % n = k
      BY <1>1, ModWrap
    <3> QED  BY <2>2, <3>1, <3>2, <1>1
  <2> QED  BY <2>1, <2>2, <1>1
<1>5. m_tail_' = (m_head_' + m_sz_') % n
  <2> DEFINE k == m_sz_ - 1
  <2>1. k \in 0 .. n - 1 /\ m_head_ + 1 + k = m_head_ + m_sz_
    BY <1>1
  <2>2. (((m_head_ + 1) % n) + k) % n = (m_head_ + 1 + k) % n
    BY <2>1, <1>4
  <2> QED  BY <2>1, <2>2, <1>1, <1>2, SMTT(30)
<1> DEFINE q == Contents
<1>6. q = [i \in 1 .. m_sz_ |-> m_queue[(m_head_ + i - 1) % n]]
  BY DEF Contents, n
<1>7. q \in Seq(Items \cup {NoItem}) /\ Len(q) = m_sz_ /\ q # <<>>
  <2>1. ASSUME NEW i \in 1 .. m_sz_
        PROVE  m_queue[(m_head_ + i - 1) % n] \in Items \cup {NoItem}
    <3>1. (m_head_ + i - 1) % n \in 0 .. n - 1
      BY <1>1, ModBounds
    <3> QED  BY <3>1, <1>1
  <2> QED  BY <1>6, <2>1, <1>1, SMTT(30)
<1>8. m_queue[m_head_] = Head(q)
  <2>1. (m_head_ + 1 - 1) % n = m_head_
    BY <1>1, ModSmall
  <2>2. q[1] = m_queue[(m_head_ + 1 - 1) % n]
    BY <1>1, <1>6
  <2> HIDE DEF q
  <2> QED  BY <2>1, <2>2, <1>7
<1>9. Contents' = Tail(q)
  <2>1. Contents' = [i \in 1 .. m_sz_ - 1 |-> m_queue[(m_head_' + i - 1) % n]]
    BY <1>2 DEF Contents, n
  <2>2. ASSUME NEW i \in 1 .. m_sz_ - 1
        PROVE  m_queue[(m_head_' + i - 1) % n] = q[i + 1]
    <3>1. /\ i - 1 \in 0 .. n - 1 /\ i + 1 \in 1 .. m_sz_
          /\ m_head_ + 1 + (i - 1) = m_head_ + (i + 1) - 1
      BY <1>1
    <3>2. (((m_head_ + 1) % n) + (i - 1)) % n = (m_head_ + 1 + (i - 1)) % n
      BY <3>1, <1>4
    <3>3. m_head_' + i - 1 = ((m_head_ + 1) % n) + (i - 1)
      BY <1>2, <1>3
    <3>4. q[i + 1] = m_queue[(m_head_ + (i + 1) - 1) % n]
      BY <3>1, <1>6
    <3> QED  BY <3>1, <3>2, <3>3, <3>4
  <2> HIDE DEF q
  <2>3. Contents' = [i \in 1 .. m_sz_ - 1 |-> q[i + 1]]
    BY <2>1, <2>2
  <2>4. Tail(q) = [i \in 1 .. m_sz_ - 1 |-> Tail(q)[i]]
    <3>1. Tail(q) \in Seq(Items \cup {NoItem}) /\ Len(Tail(q)) = m_sz_ - 1
      BY <1>7, HeadTailProperties
    <3>2. Tail(q) \in [1 .. m_sz_ - 1 -> Items \cup {NoItem}]
      BY <3>1, LenProperties, Zenon
    <3> QED  BY <3>2, Zenon
  <2>5. \A i \in 1 .. m_sz_ - 1 : Tail(q)[i] = q[i + 1]
    BY <1>7
  <2> QED  BY <2>3, <2>4, <2>5, ZenonT(30)
<1>10. RingConsistent'
  BY <1>5 DEF RingConsistent, n
<1>11. m_sz_' \in 0 .. n /\ m_queue[m_head_] \in Items \cup {NoItem}
  BY <1>1, <1>2
<1> QED  BY <1>1, <1>2, <1>3, <1>7, <1>8, <1>9, <1>10, <1>11 DEF Slots, n

-----------------------------------------------------------------------------
(* Pushing wakes every taker, popping every putter. *)
LEMMA QueueInvNext == QueueInv /\ [Next]_vars => QueueInv'
<1> SUFFICES ASSUME QueueInv, [Next]_vars PROVE QueueInv'
  OBVIOUS
<1>1. TypeOK /\ RingConsistent /\ NoLostWakeup
  BY DEF QueueInv
<1>2. ASSUME NEW p \in Producers, NEW t \in Items, callPut(p, t) PROVE QueueInv'
  BY <1>1, <1>2 DEF callPut, ring, QueueInv, TypeOK, RingConsistent, NoLostWakeup
<1>3. ASSUME NEW p \in Producers, put(p) PROVE QueueInv'
  <2>1. CASE m_sz_ < m_maxCapacity
    <3>1. putting[p] \in Items /\ Push(putting[p])
      BY <1>1, <1>3, <2>1 DEF put, TypeOK
    <3>2. m_sz_' = m_sz_ + 1 /\ waitEmpty' = {} /\ waitFull' = waitFull /\ taking' = taking
          /\ taken' = taken /\ putting' = [putting EXCEPT ![p] = NoItem]
      BY <1>3, <2>1 DEF put, Push
    <3>3. NoLostWakeup'
      BY <3>2, <2>1, <1>1 DEF NoLostWakeup, TypeOK
    <3>4. TypeOK' /\ RingConsistent'
      BY <3>1, <3>2, <1>1, PushRing DEF TypeOK
    <3> QED  BY <3>3, <3>4 DEF QueueInv
  <2>2. CASE ~(m_sz_ < m_maxCapacity)
    BY <1>1, <1>3, <2>2 DEF put, Push, ring, QueueInv, TypeOK, RingConsistent, NoLostWakeup
  <2> QED  BY <2>1, <2>2
<1>4. ASSUME NEW p \in Producers, NEW t \in Items, offer(p, t) PROVE QueueInv'
  <2>1. Push(t) /\ m_sz_' = m_sz_ + 1 /\ waitEmpty' = {} /\ waitFull' = waitFull
        /\ m_sz_ < m_maxCapacity /\ UNCHANGED <<putting, taking, taken>>
    BY <1>4 DEF offer, Push
  <2>2. NoLostWakeup'
    BY <2>1, <1>1 DEF NoLostWakeup, TypeOK
  <2>3. TypeOK' /\ RingConsistent'
    BY <2>1, <1>1, PushRing DEF TypeOK
  <2> QED  BY <2>2, <2>3 DEF QueueInv
<1>5. ASSUME NEW c \in Consumers, callTake(c) PROVE QueueInv'
  BY <1>1, <1>5 DEF callTake, ring, QueueInv, TypeOK, RingConsistent, NoLostWakeup
<1>6. ASSUME NEW c \in Consumers, Pop(c), waitEmpty' = waitEmpty, putting' = putting,
             taking' \subseteq Consumers, waitEmpty \subseteq taking'
      PROVE  QueueInv'
  <2>1. m_sz_ > 0 /\ m_sz_' = m_sz_ - 1 /\ waitFull' = {}
        /\ taken' = [taken EXCEPT ![c] = m_queue[m_head_]]
    BY <1>6 DEF Pop
  <2>2. NoLostWakeup'
    BY <2>1, <1>1, <1>6 DEF NoLostWakeup, TypeOK
  <2>3. m_queue[m_head_] \in Items \cup {NoItem}
    BY <1>6, PopRing
  <2>4. taken' \in [Consumers -> Items \cup {NoItem}]
    BY <2>1, <2>3, <1>1 DEF TypeOK
  <2>5. TypeOK' /\ RingConsistent'
    BY <2>1, <2>4, <1>1, <1>6, PopRing DEF TypeOK
  <2> QED  BY <2>2, <2>5 DEF QueueInv
<1>7. ASSUME NEW c \in Consumers, take(c) PROVE QueueInv'
  <2>1. CASE m_sz_ > 0
    <3>1. Pop(c) /\ taking' = taking \ {c} /\ c \notin waitEmpty
          /\ UNCHANGED <<putting, waitEmpty>>
      BY <1>7, <2>1 DEF take
    <3> QED  BY <3>1, <1>1, <1>6 DEF TypeOK
  <2>2. CASE ~(m_sz_ > 0)
    BY <1>1, <1>7, <2>2 DEF take, Pop, ring, QueueInv, TypeOK, RingConsistent, NoLostWakeup
  <2> QED  BY <2>1, <2>2
<1>8. ASSUME NEW c \in Consumers, poll(c) PROVE QueueInv'
  BY <1>1, <1>6, <1>8 DEF poll, TypeOK
<1>9. CASE UNCHANGED vars
  BY <1>1, <1>9 DEF vars, ring, QueueInv, TypeOK, RingConsistent, NoLostWakeup
<1> QED  BY <1>2, <1>3, <1>4, <1>5, <1>7, <1>8, <1>9 DEF Next

(* Head, tail and size of the ring agree and no wake-up is lost, in every   *)
(* state.                                                                   *)
THEOREM QueueInvariant == Spec => []QueueInv
<1>1. QueueInv /\ [Next]_vars => QueueInv'
  BY QueueInvNext
<1> QED  BY QueueInvInit, <1>1, PTL DEF Spec

(* The indices stay slots of the ring, the count stays within the capacity  *)
(* and only threads inside a call wait.                                     *)
THEOREM QueueTypeCorrect == Spec => []TypeOK
<1>1. QueueInv => TypeOK
  BY DEF QueueInv
<1> QED  BY QueueInvariant, <1>1, PTL

(* No thread stays blocked in take() while there is a message, nor in put() *)
(* while there is room, however the calls of the others interleave.         *)
THEOREM WakeupsNeverLost == Spec => []NoLostWakeup
<1>1. QueueInv => NoLostWakeup
  BY DEF QueueInv
<1> QED  BY QueueInvariant, <1>1, PTL

-----------------------------------------------------------------------------
(* Empty and full mean the same of the ring and of the deque. *)
LEMMA ContentsLength ==
  ASSUME QueueInv
  PROVE  /\ Len(Contents) = m_sz_
         /\ Contents = <<>> <=> ~(m_sz_ > 0)
         /\ STL!HasRoom <=> m_sz_ < m_maxCapacity
<1>1. m_sz_ \in 0 .. m_maxCapacity
  BY DEF QueueInv, TypeOK
<1>2. Len(Contents) = m_sz_ /\ (Contents = <<>> <=> m_sz_ = 0)
  BY <1>1 DEF Contents
<1> QED  BY <1>1, <1>2 DEF STL!HasRoom

(* Every step of the ring (put, take, offer, poll) is one of the deque. *)
LEMMA StepRefines == QueueInv /\ [Next]_vars => [STL!Next]_(STL!vars)
<1> SUFFICES ASSUME QueueInv, [Next]_vars PROVE STL!Next \/ UNCHANGED STL!vars
  OBVIOUS
<1>1. TypeOK
  BY DEF QueueInv
<1>2. UNCHANGED ring => UNCHANGED Contents
  BY DEF ring, Contents
<1>3. ASSUME NEW t \in Items, Push(t) PROVE STL!Push(t)
  BY <1>3, PushRing, ContentsLength, ZenonT(30) DEF STL!Push, Push
<1>4. ASSUME NEW c \in Consumers, Pop(c) PROVE STL!Pop(c)
  BY <1>4, PopRing, Zenon DEF STL!Pop, Pop
<1>5. ASSUME NEW p \in Producers, NEW t \in Items, callPut(p, t) PROVE STL!callPut(p, t)
  BY <1>2, <1>5 DEF callPut, STL!callPut
<1>6. ASSUME NEW p \in Producers, put(p) PROVE STL!put(p)
  <2>1. putting[p] \in Items
    BY <1>1, <1>6 DEF put, TypeOK
  <2> QED  BY <2>1, <1>2, <1>3, <1>6, ContentsLength DEF put, STL!put
<1>7. ASSUME NEW p \in Producers, NEW t \in Items, offer(p, t) PROVE STL!offer(p, t)
  BY <1>3, <1>7 DEF offer, STL!offer
<1>8. ASSUME NEW c \in Consumers, callTake(c) PROVE STL!callTake(c)
  BY <1>2, <1>8 DEF callTake, STL!callTake
<1>9. ASSUME NEW c \in Consumers, take(c) PROVE STL!take(c)
  BY <1>2, <1>4, <1>9, ContentsLength DEF take, STL!take
<1>10. ASSUME NEW c \in Consumers, poll(c) PROVE STL!poll(c)
  BY <1>4, <1>10 DEF poll, STL!poll
<1>11. CASE UNCHANGED vars
  BY <1>2, <1>11 DEF vars, STL!vars
<1> QED  BY <1>5, <1>6, <1>7, <1>8, <1>9, <1>10, <1>11 DEF Next, STL!Next

(* Every behaviour of the ring is one of the deque of BlockQueueSTL. *)
THEOREM RingImplementsDeque == Spec => STL!Spec
<1>1. Init => STL!Init
  BY DEF Init, STL!Init, Contents
<1>2. QueueInv /\ [Next]_vars => [STL!Next]_(STL!vars)
  BY StepRefines
<1> QED  BY QueueInvariant, <1>1, <1>2, PTL DEF Spec, STL!Spec

-----------------------------------------------------------------------------
WindowInv == Window!TypeOK /\ Window!NoLostWakeup

(* Both parts are inductive together: put() wakes all waiters exactly when  *)
(* it makes the head slot available, and the head moves only away from an   *)
(* available slot, when no one waits.                                       *)
LEMMA WindowInvNext == WindowInv /\ [Window!Next]_(Window!vars) => WindowInv'
<1> SUFFICES ASSUME WindowInv, [Window!Next]_(Window!vars) PROVE WindowInv'
  OBVIOUS
<1>1. Window!TypeOK /\ Window!NoLostWakeup /\ head_ \in Window!Slots /\ (head_ + 1) % m_maxCapacity \in Window!Slots
  BY ModBounds DEF WindowInv, Window!TypeOK, Window!Slots
<1>2. ASSUME NEW t \in Items, NEW idx \in Window!Slots, Window!put(t, idx) PROVE WindowInv'
  <2>1. CASE avaliable_[idx]
    BY <1>1, <1>2, <2>1 DEF Window!put, Window!Store, Window!slots, WindowInv, Window!TypeOK, Window!NoLostWakeup
  <2>2. CASE ~avaliable_[idx]
    <3>1. /\ data_' = [data_ EXCEPT ![idx] = t]
          /\ avaliable_' = [avaliable_ EXCEPT ![idx] = TRUE]
          /\ head_' = head_ /\ getting' = getting
          /\ waiting' = IF idx = head_ THEN {} ELSE waiting
      BY <1>2, <2>2 DEF Window!put, Window!Store
    <3>2. avaliable_' \in [Window!Slots -> BOOLEAN]
      BY <3>1, <1>1 DEF Window!TypeOK
    <3>3. Window!TypeOK'
      BY <3>1, <3>2, <1>1 DEF Window!TypeOK
    <3>4. Window!NoLostWakeup'
      BY <3>1, <1>1 DEF Window!TypeOK, Window!NoLostWakeup
    <3> QED  BY <3>3, <3>4 DEF WindowInv
  <2> QED  BY <2>1, <2>2
<1>3. ASSUME Window!TakeHead, waiting' = waiting, getting' \subseteq Consumers, waiting \subseteq getting'
      PROVE  WindowInv'
  <2>1. waiting = {}
    BY <1>1, <1>3 DEF Window!TakeHead, Window!NoLostWakeup
  <2>2. avaliable_' \in [Window!Slots -> BOOLEAN]
    BY <1>1, <1>3 DEF Window!TakeHead, Window!TypeOK
  <2> QED  BY <1>1, <1>3, <2>1, <2>2 DEF Window!TakeHead, WindowInv, Window!TypeOK, Window!NoLostWakeup
<1>4. ASSUME NEW c \in Consumers, Window!poll(c) PROVE WindowInv'
  BY <1>1, <1>3, <1>4 DEF Window!poll, Window!TypeOK
<1>5. ASSUME NEW c \in Consumers, Window!callGet(c) PROVE WindowInv'
  BY <1>1, <1>5 DEF Window!callGet, Window!slots, WindowInv, Window!TypeOK, Window!NoLostWakeup
<1>6. ASSUME NEW c \in Consumers, Window!get(c) PROVE WindowInv'
  <2>1. CASE ~avaliable_[head_]
    BY <1>1, <1>6, <2>1 DEF Window!get, Window!TakeHead, Window!slots, WindowInv, Window!TypeOK, Window!NoLostWakeup
  <2>2. CASE avaliable_[head_]
    <3>1. Window!TakeHead /\ waiting' = waiting /\ getting' = getting \ {c} /\ c \notin waiting
      BY <1>6, <2>2 DEF Window!get
    <3> QED  BY <3>1, <1>1, <1>3 DEF Window!TypeOK
  <2> QED  BY <2>1, <2>2
<1>7. CASE UNCHANGED Window!vars
  BY <1>1, <1>7 DEF Window!vars, WindowInv, Window!TypeOK, Window!NoLostWakeup
<1> QED  BY <1>2, <1>4, <1>5, <1>6, <1>7 DEF Window!Next

(* The invariant holds in every state. *)
LEMMA WindowInvariant == Window!Spec => []WindowInv
<1>1. Window!Init => WindowInv
  BY DEF Window!Init, Window!SlotsInit, WindowInv, Window!TypeOK, Window!NoLostWakeup, Window!Slots
<1> QED  BY <1>1, WindowInvNext, PTL DEF Window!Spec

(* The head stays a slot of the window, and only threads inside get() wait. *)
THEOREM WindowTypeCorrect == Window!Spec => []Window!TypeOK
<1>1. WindowInv => Window!TypeOK
  BY DEF WindowInv
<1> QED  BY <1>1, WindowInvariant, PTL

(* No consumer stays blocked in get() while the head slot has an order. *)
THEOREM WindowWakeupsNeverLost == Window!Spec => []Window!NoLostWakeup
<1>1. WindowInv => Window!NoLostWakeup
  BY DEF WindowInv
<1> QED  BY <1>1, WindowInvariant, PTL

-----------------------------------------------------------------------------
(* What ThreadsAssumption of PauseControl says. *)
ThreadsOK ==
  /\ Senders \in Seq(Pause!SenderSet) /\ Senders # <<>> /\ IsInjective(Senders)
  /\ Receivers \in Seq(Pause!ReceiverSet) /\ Receivers # <<>> /\ IsInjective(Receivers)
  /\ Pause!SenderSet \cap Pause!ReceiverSet = {}

(* Every lock is held, either by its thread or by the console, never by     *)
(* both; restart frees only locks the console holds, each once, and         *)
(* reset-net runs while it holds all of them.                               *)
LocksInv ==
  /\ Pause!TypeOK
  /\ locked = inside \cup stopped
  /\ stopped \cap inside = {}
  /\ IsInjective(todo)
  /\ command = "restart" => Range(todo) \subseteq stopped
  /\ command = "reset" => stopped = Pause!Threads
  /\ touching # {} => command = "reset"

-----------------------------------------------------------------------------
(* Visiting the first thread of a command leaves threads of the command,    *)
(* and if none was there twice not the visited one.                         *)
LEMMA VisitRest ==
  ASSUME NEW S, NEW q \in Seq(S), q # <<>>
  PROVE  /\ Head(q) \in S /\ Tail(q) \in Seq(S)
         /\ Head(q) \in Range(q) /\ Range(Tail(q)) \subseteq Range(q)
         /\ IsInjective(q) => IsInjective(Tail(q)) /\ Head(q) \notin Range(Tail(q))
<1>1. /\ Len(q) \in Nat \ {0} /\ Head(q) = q[1] /\ 1 \in DOMAIN q /\ DOMAIN q = 1 .. Len(q)
      /\ Tail(q) \in Seq(S) /\ DOMAIN Tail(q) = 1 .. Len(q) - 1
      /\ \A i \in 1 .. Len(q) - 1 : Tail(q)[i] = q[i + 1]
  OBVIOUS
<1>2. \A i \in DOMAIN Tail(q) : i + 1 \in DOMAIN q /\ i + 1 # 1 /\ Tail(q)[i] = q[i + 1]
  BY <1>1
<1>3. Head(q) \in S /\ Head(q) \in Range(q) /\ Range(Tail(q)) \subseteq Range(q)
  BY <1>1, <1>2 DEF Range
<1>4. ASSUME IsInjective(q) PROVE IsInjective(Tail(q)) /\ Head(q) \notin Range(Tail(q))
  <2>1. Head(q) \notin Range(Tail(q))
    BY <1>1, <1>2, <1>4 DEF Range, IsInjective
  <2>2. ASSUME NEW i \in DOMAIN Tail(q), NEW j \in DOMAIN Tail(q), Tail(q)[i] = Tail(q)[j]
        PROVE  i = j
    <3>1. q[i + 1] = q[j + 1] /\ i + 1 \in DOMAIN q /\ j + 1 \in DOMAIN q
      BY <1>2, <2>2
    <3>2. i + 1 = j + 1
      BY <1>4, <3>1 DEF IsInjective
    <3> QED  BY <1>1, <3>2
  <2> QED  BY <2>1, <2>2 DEF IsInjective
<1> QED  BY <1>1, <1>3, <1>4

(* One command's threads after another's: all of them, each once. *)
LEMMA JoinThreads ==
  ASSUME NEW S, NEW p \in Seq(S), NEW q \in Seq(S), p # <<>>, IsInjective(p), IsInjective(q),
         Range(p) \cap Range(q) = {}
  PROVE  /\ p \o q \in Seq(S) /\ p \o q # <<>> /\ IsInjective(p \o q)
         /\ Range(p \o q) = Range(p) \cup Range(q)
<1>1. /\ p \o q \in Seq(S) /\ Len(p \o q) = Len(p) + Len(q) /\ DOMAIN (p \o q) = 1 .. Len(p) + Len(q)
      /\ Len(p) \in Nat \ {0} /\ Len(q) \in Nat
      /\ DOMAIN p = 1 .. Len(p) /\ DOMAIN q = 1 .. Len(q)
      /\ \A i \in 1 .. Len(p) + Len(q) : (p \o q)[i] = IF i <= Len(p) THEN p[i] ELSE q[i - Len(p)]
  OBVIOUS
<1>2. p \o q # <<>>
  BY <1>1
<1> DEFINE r == p \o q
<1> HIDE DEF r
<1>3. ASSUME NEW i \in DOMAIN r
      PROVE  \/ i \in DOMAIN p /\ r[i] = p[i]
             \/ i - Len(p) \in DOMAIN q /\ r[i] = q[i - Len(p)] /\ i \in Int
  BY <1>1 DEF r
<1>4. ASSUME NEW i \in DOMAIN r, NEW j \in DOMAIN r, r[i] = r[j] PROVE i = j
  <2>1. i \in Int /\ j \in Int /\ Len(p) \in Int
    BY <1>1 DEF r
  <2>2. CASE i \in DOMAIN p /\ r[i] = p[i] /\ j \in DOMAIN p /\ r[j] = p[j]
    BY <1>4, <2>2, ZenonT(30) DEF IsInjective
  <2>3. CASE /\ i - Len(p) \in DOMAIN q /\ r[i] = q[i - Len(p)]
             /\ j - Len(p) \in DOMAIN q /\ r[j] = q[j - Len(p)]
    <3>1. i - Len(p) = j - Len(p)
      BY <1>4, <2>3, ZenonT(30) DEF IsInjective
    <3> QED  BY <2>1, <3>1
  <2>4. ASSUME NEW a \in DOMAIN p, NEW b \in DOMAIN q PROVE p[a] # q[b]
    BY DEF Range
  <2> QED  BY <1>3, <1>4, <2>2, <2>3, <2>4
<1>5. Range(r) = Range(p) \cup Range(q)
  BY RangeConcatenation DEF r
<1> QED  BY <1>1, <1>2, <1>4, <1>5 DEF r, IsInjective

(* The threads that the commands visit. *)
LEMMA CommandThreads ==
  ASSUME ThreadsOK
  PROVE  /\ Senders \in Seq(Pause!Threads) /\ Senders # <<>> /\ IsInjective(Senders)
         /\ Receivers \in Seq(Pause!Threads) /\ Receivers # <<>> /\ IsInjective(Receivers)
         /\ \A q \in {Senders \o Receivers, Receivers \o Senders} :
              q \in Seq(Pause!Threads) /\ q # <<>> /\ IsInjective(q) /\ Range(q) = Pause!Threads
<1>1. /\ Pause!SenderSet = Range(Senders) /\ Pause!ReceiverSet = Range(Receivers)
      /\ Pause!Threads = Pause!SenderSet \cup Pause!ReceiverSet
  BY DEF Pause!SenderSet, Pause!ReceiverSet, Pause!Threads, Pause!Range, Range
<1>2. /\ Senders \in Seq(Pause!Threads) /\ Senders # <<>> /\ IsInjective(Senders)
      /\ Receivers \in Seq(Pause!Threads) /\ Receivers # <<>> /\ IsInjective(Receivers)
      /\ Range(Senders) \cap Range(Receivers) = {}
  BY <1>1 DEF ThreadsOK
<1>3. /\ Senders \o Receivers \in Seq(Pause!Threads) /\ Senders \o Receivers # <<>>
      /\ IsInjective(Senders \o Receivers) /\ Range(Senders \o Receivers) = Pause!Threads
  BY <1>1, <1>2, JoinThreads
<1>4. /\ Receivers \o Senders \in Seq(Pause!Threads) /\ Receivers \o Senders # <<>>
      /\ IsInjective(Receivers \o Senders) /\ Range(Receivers \o Senders) = Pause!Threads
  BY <1>1, <1>2, JoinThreads
<1> QED  BY <1>2, <1>3, <1>4

(* Giving a command. *)
LEMMA GiveSteps ==
  ASSUME ThreadsOK, Pause!run_stops \/ Pause!run_stopr \/ Pause!run_restart \/ Pause!run_reset
  PROVE  /\ command = "prompt" /\ command' \in {"stop", "restart", "reset"}
         /\ todo' \in Seq(Pause!Threads) /\ todo' # <<>> /\ IsInjective(todo')
         /\ command' \in {"restart", "reset"} /\ Disciplined =>
              stopped = Pause!Threads /\ Range(todo') = Pause!Threads
         /\ UNCHANGED <<locked, inside, connected, touching, stopped>>
<1>1. CASE Pause!run_stops
  BY <1>1, CommandThreads DEF Pause!run_stops, Pause!Give
<1>2. CASE Pause!run_stopr
  BY <1>2, CommandThreads DEF Pause!run_stopr, Pause!Give
<1>3. CASE Pause!run_restart
  BY <1>3, CommandThreads DEF Pause!run_restart, Pause!Give
<1>4. CASE Pause!run_reset
  BY <1>4, CommandThreads DEF Pause!run_reset, Pause!Give
<1> QED  BY <1>1, <1>2, <1>3, <1>4

(* The types hold whatever commands are given, in whatever order. *)
LEMMA PauseTypeStep ==
  ASSUME ThreadsOK, Pause!TypeOK, [Pause!Next]_(Pause!vars)
  PROVE  Pause!TypeOK'
<1> USE DEF Pause!TypeOK
<1>1. ASSUME NEW t \in Pause!Threads, Pause!enter(t) \/ Pause!leave(t) PROVE Pause!TypeOK'
  BY <1>1 DEF Pause!enter, Pause!leave
<1>2. ASSUME Pause!run_stops \/ Pause!run_stopr \/ Pause!run_restart \/ Pause!run_reset
      PROVE  Pause!TypeOK'
  BY <1>2, GiveSteps
<1>3. ASSUME command \in {"stop", "restart", "reset"}
      PROVE  Head(todo) \in Pause!Threads /\ Tail(todo) \in Seq(Pause!Threads)
  BY <1>3, VisitRest
<1>4. ASSUME command \in {"stop", "restart", "reset"}, Pause!Visit
      PROVE  /\ todo' \in Seq(Pause!Threads) /\ command' \in {"prompt", "stop", "restart", "reset"}
             /\ command' # "prompt" => todo' # <<>>
  BY <1>3, <1>4 DEF Pause!Visit
<1>5. CASE Pause!stop
  BY <1>3, <1>4, <1>5 DEF Pause!stop
<1>6. CASE Pause!restart
  BY <1>3, <1>4, <1>6 DEF Pause!restart
<1>7. CASE Pause!beginReset
  BY <1>3, <1>7 DEF Pause!beginReset
<1>8. CASE Pause!endReset
  <2>1. CASE Head(todo) \in Pause!SenderSet \ connected
    BY <1>3, <1>8, <2>1 DEF Pause!endReset
  <2>2. CASE Head(todo) \notin Pause!SenderSet \ connected
    BY <1>3, <1>4, <1>8, <2>2 DEF Pause!endReset
  <2> QED  BY <2>1, <2>2
<1>9. CASE UNCHANGED Pause!vars
  BY <1>9 DEF Pause!vars
<1> QED  BY <1>1, <1>2, <1>5, <1>6, <1>7, <1>8, <1>9 DEF Pause!Next

(* With the commands in their order every step keeps the locks in order. *)
LEMMA LocksStep ==
  ASSUME ThreadsOK, Disciplined, LocksInv, [Pause!Next]_(Pause!vars)
  PROVE  LocksInv'
<1> USE DEF LocksInv
<1>0. Pause!TypeOK /\ Pause!TypeOK'
  BY PauseTypeStep
<1>1. ASSUME NEW t \in Pause!Threads, Pause!enter(t) PROVE LocksInv'
  BY <1>0, <1>1 DEF Pause!enter
<1>2. ASSUME NEW t \in Pause!Threads, Pause!leave(t) PROVE LocksInv'
  BY <1>0, <1>2 DEF Pause!leave
<1>3. ASSUME Pause!run_stops \/ Pause!run_stopr \/ Pause!run_restart \/ Pause!run_reset
      PROVE  LocksInv'
  BY <1>0, <1>3, GiveSteps DEF Pause!TypeOK
<1>4. ASSUME command \in {"stop", "restart", "reset"}
      PROVE  /\ Head(todo) \in Pause!Threads /\ IsInjective(Tail(todo))
             /\ Head(todo) \in Range(todo) /\ Range(Tail(todo)) \subseteq Range(todo)
             /\ Head(todo) \notin Range(Tail(todo))
  <2>1. todo \in Seq(Pause!Threads) /\ todo # <<>>
    BY <1>0, <1>4 DEF Pause!TypeOK
  <2> QED  BY <2>1, VisitRest
<1>5. CASE Pause!stop
  BY <1>0, <1>4, <1>5 DEF Pause!stop, Pause!Visit
<1>6. CASE Pause!restart
  BY <1>0, <1>4, <1>6 DEF Pause!restart, Pause!Visit
<1>7. CASE Pause!beginReset
  BY <1>0, <1>7 DEF Pause!beginReset
<1>8. CASE Pause!endReset
  <2>1. CASE Head(todo) \in Pause!SenderSet \ connected
    BY <1>0, <1>8, <2>1 DEF Pause!endReset
  <2>2. CASE Head(todo) \notin Pause!SenderSet \ connected
    BY <1>0, <1>4, <1>8, <2>2, ZenonT(30) DEF Pause!endReset, Pause!Visit
  <2> QED  BY <2>1, <2>2
<1>9. CASE UNCHANGED Pause!vars
  BY <1>0, <1>9 DEF Pause!vars
<1> QED  BY <1>1, <1>2, <1>3, <1>5, <1>6, <1>7, <1>8, <1>9 DEF Pause!Next

-----------------------------------------------------------------------------
(* Whatever the operator types, the console visits threads of the process,  *)
(* and a command in progress has a thread to visit.                         *)
THEOREM PauseTypeCorrect == ASSUME ThreadsOK PROVE Pause!Spec => []Pause!TypeOK
<1>1. Pause!Init => Pause!TypeOK
  BY DEF Pause!Init, Pause!TypeOK
<1>2. Pause!TypeOK /\ [Pause!Next]_(Pause!vars) => Pause!TypeOK'
  BY PauseTypeStep
<1> QED  BY <1>1, <1>2, PTL DEF Pause!Spec

(* The invariant holds in every state of a disciplined operator's console. *)
THEOREM LocksInvariant == ASSUME ThreadsOK, Disciplined PROVE Pause!Spec => []LocksInv
<1>1. Pause!Init => LocksInv
  BY DEF Pause!Init, Pause!TypeOK, LocksInv, IsInjective
<1>2. LocksInv /\ [Pause!Next]_(Pause!vars) => LocksInv'
  BY LocksStep
<1> QED  BY <1>1, <1>2, PTL DEF Pause!Spec

(* A thread does not use its socket from the return of stop() to restart. *)
THEOREM StoppedStaysQuiet ==
  ASSUME ThreadsOK, Disciplined
  PROVE  Pause!Spec => []Pause!StoppedIsQuiet
<1>1. LocksInv => Pause!StoppedIsQuiet
  BY DEF LocksInv, Pause!StoppedIsQuiet
<1> QED  BY <1>1, LocksInvariant, PTL

(* reset_port() works only on sockets that their threads leave alone. *)
THEOREM ResetIsExclusive ==
  ASSUME ThreadsOK, Disciplined
  PROVE  Pause!Spec => []Pause!SocketExclusive
<1>1. LocksInv => Pause!SocketExclusive
  BY DEF LocksInv, Pause!SocketExclusive, Pause!TypeOK
<1> QED  BY <1>1, LocksInvariant, PTL
=============================================================================
