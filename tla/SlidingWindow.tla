--------------------------- MODULE SlidingWindow ---------------------------
(***************************************************************************)
(* common/sliding_window.hpp: the ring of slots into which the exchange's  *)
(* order receiver puts orders by position and from which a stock thread    *)
(* takes them in position order.  Every method holds m_mutex from its      *)
(* first to its last line, so a method is one action; get() is two, since  *)
(* m_cond_avail.wait gives the mutex up.  The programs only put and poll;  *)
(* get() has no caller yet.                                                *)
(***************************************************************************)
EXTENDS Naturals

CONSTANTS
  Consumers,   \* threads that call get() or poll()
  Items,       \* values that put() may store
  capacity_,   \* number of slots
  NoItem       \* what a slot holds before its first put()

VARIABLES
  data_,       \* [Slots -> Items \cup {NoItem}]
  avaliable_,  \* [Slots -> BOOLEAN]
  head_,       \* the slot to take from next
  getting,     \* consumers inside get()
  waiting      \* those of them blocked on m_cond_avail

slots == <<data_, avaliable_, head_>>
vars == <<data_, avaliable_, head_, getting, waiting>>

Slots == 0 .. capacity_ - 1

SlotsInit ==
  /\ data_ = [s \in Slots |-> NoItem]
  /\ avaliable_ = [s \in Slots |-> FALSE]
  /\ head_ = 0

Init ==
  /\ SlotsInit
  /\ getting = {}
  /\ waiting = {}

-----------------------------------------------------------------------------
(* put() stores into a free slot; on an occupied one its ASSERT throws and  *)
(* nothing changes.                                                         *)
Store(t, idx) ==
  IF avaliable_[idx]
  THEN UNCHANGED slots
  ELSE /\ data_' = [data_ EXCEPT ![idx] = t]
       /\ avaliable_' = [avaliable_ EXCEPT ![idx] = TRUE]
       /\ UNCHANGED head_

(* put() wakes every waiter, but only when it filled the head slot. *)
put(t, idx) ==
  /\ Store(t, idx)
  /\ waiting' = IF ~avaliable_[idx] /\ idx = head_ THEN {} ELSE waiting
  /\ UNCHANGED getting

(* The part get() and poll() share: free the head slot, move the head on.  *)
TakeHead ==
  /\ avaliable_[head_]
  /\ avaliable_' = [avaliable_ EXCEPT ![head_] = FALSE]
  /\ head_' = (head_ + 1) % capacity_
  /\ UNCHANGED data_

(* A successful poll(); an unsuccessful one changes nothing. *)
poll(c) ==
  /\ c \notin getting
  /\ TakeHead
  /\ UNCHANGED <<getting, waiting>>

(* A consumer enters get(). *)
callGet(c) ==
  /\ c \notin getting
  /\ getting' = getting \cup {c}
  /\ UNCHANGED <<slots, waiting>>

(* Inside get() with the mutex: the predicate of the wait fails and the     *)
(* consumer blocks, or it holds and the consumer takes the head and returns.*)
get(c) ==
  /\ c \in getting \ waiting
  /\ \/ /\ ~avaliable_[head_]
        /\ waiting' = waiting \cup {c}
        /\ UNCHANGED <<slots, getting>>
     \/ /\ TakeHead
        /\ getting' = getting \ {c}
        /\ UNCHANGED waiting

Next ==
  \/ \E t \in Items, idx \in Slots : put(t, idx)
  \/ \E c \in Consumers : poll(c) \/ callGet(c) \/ get(c)

Spec == Init /\ [][Next]_vars

-----------------------------------------------------------------------------
TypeOK ==
  /\ data_ \in [Slots -> Items \cup {NoItem}]
  /\ avaliable_ \in [Slots -> BOOLEAN]
  /\ head_ \in Slots
  /\ getting \subseteq Consumers
  /\ waiting \subseteq getting

(* No lost wake-up: put() notifies only when it fills the head slot, and    *)
(* get()/poll() advance the head without notifying anyone, yet no consumer  *)
(* is left blocked while the head slot has an order for it.                 *)
NoLostWakeup == waiting # {} => ~avaliable_[head_]
=============================================================================
