----------------------------- MODULE BlockQueue -----------------------------
(***************************************************************************)
(* common/block_queue.hpp, BlockQueue: the same queue kept in a ring; the  *)
(* traders' order_queue_ and the exchange's msg_queue_ are of this class.  *)
(***************************************************************************)
EXTENDS Integers, Sequences

CONSTANTS Producers, Consumers, Items, NoItem, m_maxCapacity

ASSUME QueueAssumption ==
  /\ m_maxCapacity \in Nat \ {0}
  /\ NoItem \notin Items

VARIABLES
  m_queue,                \* the ring: 0 .. m_maxCapacity - 1 -> Items or, at first, NoItem
  m_head_, m_tail_, m_sz_,
  putting, waitFull, taking, waitEmpty, taken  \* as in BlockQueueSTL

ring == <<m_queue, m_head_, m_tail_, m_sz_>>
vars == <<ring, putting, waitFull, taking, waitEmpty, taken>>

Slots == 0 .. m_maxCapacity - 1

Init ==
  /\ m_queue = [s \in Slots |-> NoItem]
  /\ m_head_ = 0 /\ m_tail_ = 0 /\ m_sz_ = 0
  /\ putting = [p \in Producers |-> NoItem]
  /\ waitFull = {}
  /\ taking = {}
  /\ waitEmpty = {}
  /\ taken = [c \in Consumers |-> NoItem]

-----------------------------------------------------------------------------
(* Mutants of Push: the tail is not wrapped around; the takers are not woken. *)
PushNoWrap(t) ==
  /\ m_sz_ < m_maxCapacity
  /\ m_queue' = [m_queue EXCEPT ![m_tail_] = t]
  /\ m_tail_' = m_tail_ + 1
  /\ m_sz_' = m_sz_ + 1
  /\ waitEmpty' = {}
  /\ UNCHANGED m_head_

PushSilent(t) ==
  /\ m_sz_ < m_maxCapacity
  /\ m_queue' = [m_queue EXCEPT ![m_tail_] = t]
  /\ m_tail_' = (m_tail_ + 1) % m_maxCapacity
  /\ m_sz_' = m_sz_ + 1
  /\ UNCHANGED <<m_head_, waitEmpty>>

(* The common part of put() and offer(): store and wake all the takers. *)
Push(t) ==
  /\ m_sz_ < m_maxCapacity
  /\ m_queue' = [m_queue EXCEPT ![m_tail_] = t]
  /\ m_tail_' = (m_tail_ + 1) % m_maxCapacity
  /\ m_sz_' = m_sz_ + 1
  /\ waitEmpty' = {}
  /\ UNCHANGED m_head_

(* Mutants of Pop: the putters are not woken; the value is read after the   *)
(* head has moved on.                                                       *)
PopSilent(c) ==
  /\ m_sz_ > 0
  /\ m_head_' = (m_head_ + 1) % m_maxCapacity
  /\ m_sz_' = m_sz_ - 1
  /\ taken' = [taken EXCEPT ![c] = m_queue[m_head_]]
  /\ UNCHANGED <<m_queue, m_tail_, waitFull>>

PopLate(c) ==
  /\ m_sz_ > 0
  /\ m_head_' = (m_head_ + 1) % m_maxCapacity
  /\ m_sz_' = m_sz_ - 1
  /\ waitFull' = {}
  /\ taken' = [taken EXCEPT ![c] = m_queue[m_head_']]
  /\ UNCHANGED <<m_queue, m_tail_>>

(* The common part of take() and poll(): remove and wake all the putters. *)
Pop(c) ==
  /\ m_sz_ > 0
  /\ m_head_' = (m_head_ + 1) % m_maxCapacity
  /\ m_sz_' = m_sz_ - 1
  /\ waitFull' = {}
  /\ taken' = [taken EXCEPT ![c] = m_queue[m_head_]]
  /\ UNCHANGED <<m_queue, m_tail_>>

callPut(p, t) ==
  /\ putting[p] = NoItem
  /\ putting' = [putting EXCEPT ![p] = t]
  /\ UNCHANGED <<ring, waitFull, taking, waitEmpty, taken>>

put(p) ==
  /\ putting[p] # NoItem
  /\ p \notin waitFull
  /\ \/ /\ Push(putting[p])
        /\ putting' = [putting EXCEPT ![p] = NoItem]
        /\ UNCHANGED <<waitFull, taking, taken>>
     \/ /\ ~(m_sz_ < m_maxCapacity)
        /\ waitFull' = waitFull \cup {p}
        /\ UNCHANGED <<ring, putting, taking, waitEmpty, taken>>

callTake(c) ==
  /\ c \notin taking
  /\ taking' = taking \cup {c}
  /\ UNCHANGED <<ring, putting, waitFull, waitEmpty, taken>>

take(c) ==
  /\ c \in taking \ waitEmpty
  /\ \/ /\ Pop(c)
        /\ taking' = taking \ {c}
        /\ UNCHANGED <<putting, waitEmpty>>
     \/ /\ ~(m_sz_ > 0)
        /\ waitEmpty' = waitEmpty \cup {c}
        /\ UNCHANGED <<ring, putting, waitFull, taking, taken>>

(* A successful offer() or poll(); an unsuccessful one changes nothing. *)
offer(p, t) ==
  /\ putting[p] = NoItem
  /\ Push(t)
  /\ UNCHANGED <<putting, waitFull, taking, taken>>

poll(c) ==
  /\ c \notin taking
  /\ Pop(c)
  /\ UNCHANGED <<putting, taking, waitEmpty>>

Next ==
  \/ \E p \in Producers : put(p) \/ \E t \in Items : callPut(p, t) \/ offer(p, t)
  \/ \E c \in Consumers : callTake(c) \/ take(c) \/ poll(c)

Spec == Init /\ [][Next]_vars

(* A thread inside put() or take() that is not blocked keeps being          *)
(* scheduled; no one is obliged to begin a call.                            *)
FairSpec ==
  /\ Spec
  /\ \A p \in Producers : WF_vars(put(p))
  /\ \A c \in Consumers : WF_vars(take(c))

-----------------------------------------------------------------------------
TypeOK ==
  /\ m_queue \in [Slots -> Items \cup {NoItem}]
  /\ m_head_ \in Slots /\ m_tail_ \in Slots
  /\ m_sz_ \in 0 .. m_maxCapacity
  /\ putting \in [Producers -> Items \cup {NoItem}]
  /\ waitFull \subseteq Producers
  /\ taking \subseteq Consumers /\ waitEmpty \subseteq taking
  /\ taken \in [Consumers -> Items \cup {NoItem}]

(* No lost wake-up: a taker is blocked only while the queue is empty and a  *)
(* putter only while it is full, although offer() and poll() of other       *)
(* threads change the queue in between.  So the two sides never wait for    *)
(* each other.                                                              *)
NoLostWakeup ==
  /\ waitEmpty # {} => m_sz_ = 0
  /\ waitFull # {} => m_sz_ = m_maxCapacity

(* The two indices and the size agree, through any number of wrap-arounds. *)
RingConsistent == m_tail_ = (m_head_ + m_sz_) % m_maxCapacity

(* The contents of the ring, oldest first. *)
Contents == [i \in 1 .. m_sz_ |-> m_queue[(m_head_ + i - 1) % m_maxCapacity]]

STL == INSTANCE BlockQueueSTL WITH m_queue <- Contents

(* The ring is a drop-in replacement for the deque of BlockQueueSTL: the    *)
(* same values come out in the same order, every call blocks exactly when   *)
(* it would there, and (by the fairness part) returns when it would there.  *)
ImplementsDeque == STL!FairSpec

(* The queue never gets stuck with a thread in take(): if the thread stays  *)
(* there although again and again there is a value or a producer in put(),  *)
(* then others keep taking values.  A thread that is the only consumer, as  *)
(* the sender thread is of msg_queue_, therefore returns.                   *)
TakeReturns ==
  \A c \in Consumers :
    <>[](c \in taking) /\ []<>(m_sz_ > 0 \/ \E p \in Producers : putting[p] # NoItem)
      => []<><<m_sz_' < m_sz_>>_vars
=============================================================================
