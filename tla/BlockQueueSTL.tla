--------------------------- MODULE BlockQueueSTL ---------------------------
(***************************************************************************)
(* common/block_queue.hpp, BlockQueueSTL: a bounded blocking queue kept in *)
(* a deque.  Every method holds m_mutex throughout, so a method is one     *)
(* action; put() and take() are two, since they may wait inside.           *)
(***************************************************************************)
EXTENDS Integers, Sequences

CONSTANTS
  Producers, Consumers,  \* threads that put() or offer(), that take() or poll()
  Items,                 \* values put into the queue
  NoItem,                \* a producer is not inside put()
  m_maxCapacity          \* or -1 when the queue is not bounded

VARIABLES
  m_queue,
  putting,     \* per producer: the argument of the put() it is in, or NoItem
  waitFull,    \* producers blocked on m_cond_full
  taking,      \* consumers inside take()
  waitEmpty,   \* consumers blocked on m_cond_empty
  taken        \* per consumer: what its last take() or poll() returned

vars == <<m_queue, putting, waitFull, taking, waitEmpty, taken>>

Init ==
  /\ m_queue = <<>>
  /\ putting = [p \in Producers |-> NoItem]
  /\ waitFull = {}
  /\ taking = {}
  /\ waitEmpty = {}
  /\ taken = [c \in Consumers |-> NoItem]

HasRoom == m_maxCapacity = -1 \/ Len(m_queue) < m_maxCapacity

Push(t) ==
  /\ HasRoom
  /\ m_queue' = Append(m_queue, t)
  /\ waitEmpty' = {}

Pop(c) ==
  /\ m_queue # <<>>
  /\ m_queue' = Tail(m_queue)
  /\ waitFull' = {}
  /\ taken' = [taken EXCEPT ![c] = Head(m_queue)]

callPut(p, t) ==
  /\ putting[p] = NoItem
  /\ putting' = [putting EXCEPT ![p] = t]
  /\ UNCHANGED <<m_queue, waitFull, taking, waitEmpty, taken>>

put(p) ==
  /\ putting[p] # NoItem
  /\ p \notin waitFull
  /\ \/ /\ Push(putting[p])
        /\ putting' = [putting EXCEPT ![p] = NoItem]
        /\ UNCHANGED <<waitFull, taking, taken>>
     \/ /\ ~HasRoom
        /\ waitFull' = waitFull \cup {p}
        /\ UNCHANGED <<m_queue, putting, taking, waitEmpty, taken>>

callTake(c) ==
  /\ c \notin taking
  /\ taking' = taking \cup {c}
  /\ UNCHANGED <<m_queue, putting, waitFull, waitEmpty, taken>>

take(c) ==
  /\ c \in taking \ waitEmpty
  /\ \/ /\ Pop(c)
        /\ taking' = taking \ {c}
        /\ UNCHANGED <<putting, waitEmpty>>
     \/ /\ m_queue = <<>>
        /\ waitEmpty' = waitEmpty \cup {c}
        /\ UNCHANGED <<m_queue, putting, waitFull, taking, taken>>

(* A successful offer() or poll(); an unsuccessful one changes nothing. *)
offer(p, t) ==
  /\ putting[p] = NoItem
  /\ Push(t)
  /\ UNCHANGED <<putting, waitFull, taking, taken>>

poll(c) ==
  /\ c \notin taking
  /\ Pop(c)
  /\ UNCHANGED <<putting, taking, waitEmpty>>

Next ==
  \/ \E p \in Producers : put(p) \/ \E t \in Items : callPut(p, t) \/ offer(p, t)
  \/ \E c \in Consumers : callTake(c) \/ take(c) \/ poll(c)

Spec == Init /\ [][Next]_vars

(* A thread inside put() or take() that is not blocked keeps being scheduled. *)
FairSpec ==
  /\ Spec
  /\ \A p \in Producers : WF_vars(put(p))
  /\ \A c \in Consumers : WF_vars(take(c))
=============================================================================
