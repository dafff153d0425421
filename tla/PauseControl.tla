---------------------------- MODULE PauseControl ----------------------------
(***************************************************************************)
(* How the console of a trader or an exchange pauses, resets and resumes   *)
(* the threads that own the process's sockets (common/console.hpp,         *)
(* trader.cpp, exchange.cpp, and the stop, restart, reset_network and run  *)
(* of the senders and receivers).  Each of those threads has a spin lock   *)
(* that it holds while it uses its socket; stops and stopr take the locks, *)
(* restart releases all of them, whether or not they were taken.           *)
(*                                                                         *)
(* A spin lock has no owner: unlocking sets it free whoever holds it, as   *)
(* pthread_spin_unlock does on this platform.                              *)
(***************************************************************************)
EXTENDS Integers, Sequences, Functions

CONSTANTS
  Senders,    \* sequence of the sender threads, in the order the console visits them
  Receivers,  \* sequence of the receiver threads
  IsTrader,   \* a trader restarts its senders first, an exchange its receivers
  Disciplined \* the operator gives both stop commands, once each, before
              \* reset-net and restart, and restart only then

VARIABLES
  locked,     \* the threads whose spin lock is taken
  inside,     \* the threads between lock and unlock: using their socket
  connected,  \* the senders whose socket is connected (MessageSender::connected)
  command,    \* what the console is doing, or "prompt"
  todo,       \* the threads the command has still to visit
  touching,   \* the threads whose socket reset_port() is working on
  stopped     \* history: the threads stopped since the last restart

vars == <<locked, inside, connected, command, todo, touching, stopped>>

SenderSet == Range(Senders)
ReceiverSet == Range(Receivers)
Threads == SenderSet \cup ReceiverSet

(* Every process has a sender and a receiver, each thread once. *)
ASSUME ThreadsAssumption ==
  /\ Senders \in Seq(SenderSet) /\ Senders # <<>> /\ IsInjective(Senders)
  /\ Receivers \in Seq(ReceiverSet) /\ Receivers # <<>> /\ IsInjective(Receivers)
  /\ SenderSet \cap ReceiverSet = {}

Init ==
  /\ locked = {}
  /\ inside = {}
  /\ connected = {}
  /\ command = "prompt"
  /\ todo = <<>>
  /\ touching = {}
  /\ stopped = {}

-----------------------------------------------------------------------------
(* The threads *)

(* Mutant of enter: the thread uses its socket without waiting for the lock. *)
enterUnlocked(t) ==
  /\ command # "aborted"
  /\ t \notin inside
  /\ inside' = inside \cup {t}
  /\ connected' = connected \cup ({t} \cap SenderSet)
  /\ UNCHANGED <<locked, command, todo, touching, stopped>>

(* run() takes the lock for an attempt to send or to receive; a sender      *)
(* connects on demand.                                                      *)
enter(t) ==
  /\ command # "aborted"
  /\ t \notin inside
  /\ t \notin locked
  /\ locked' = locked \cup {t}
  /\ inside' = inside \cup {t}
  /\ connected' = connected \cup ({t} \cap SenderSet)
  /\ UNCHANGED <<command, todo, touching, stopped>>

leave(t) ==
  /\ command # "aborted"
  /\ t \in inside
  /\ locked' = locked \ {t}
  /\ inside' = inside \ {t}
  /\ UNCHANGED <<connected, command, todo, touching, stopped>>

-----------------------------------------------------------------------------
(* The console *)

Give(cmd, threads) ==
  /\ command = "prompt"
  /\ command' = cmd
  /\ todo' = threads
  /\ UNCHANGED <<locked, inside, connected, touching, stopped>>

run_stops == (Disciplined => SenderSet \cap stopped = {}) /\ Give("stop", Senders)
run_stopr == (Disciplined => ReceiverSet \cap stopped = {}) /\ Give("stop", Receivers)
run_restart ==
  /\ Disciplined => stopped = Threads
  /\ Give("restart", IF IsTrader THEN Senders \o Receivers ELSE Receivers \o Senders)
run_reset ==
  /\ Disciplined => stopped = Threads
  /\ Give("reset", Receivers \o Senders)

(* Mutant of Visit: the command ends one thread too late. *)
VisitLate ==
  /\ todo' = Tail(todo)
  /\ command' = IF todo = <<>> THEN "prompt" ELSE command

(* The command is done with a thread, and ends after the last. *)
Visit ==
  /\ todo' = Tail(todo)
  /\ command' = IF Tail(todo) = <<>> THEN "prompt" ELSE command

(* Mutant of stop: the lock is tried, and stop() returns in any case. *)
stopTry ==
  /\ command = "stop"
  /\ locked' = locked \cup {Head(todo)}
  /\ stopped' = stopped \cup {Head(todo)}
  /\ Visit
  /\ UNCHANGED <<inside, connected, touching>>

(* stop(): spin until the lock is free, and take it. *)
stop ==
  /\ command = "stop"
  /\ Head(todo) \notin locked
  /\ locked' = locked \cup {Head(todo)}
  /\ stopped' = stopped \cup {Head(todo)}
  /\ Visit
  /\ UNCHANGED <<inside, connected, touching>>

(* restart(): set the lock free. *)
restart ==
  /\ command = "restart"
  /\ locked' = locked \ {Head(todo)}
  /\ stopped' = stopped \ {Head(todo)}
  /\ Visit
  /\ UNCHANGED <<inside, connected, touching>>

(* reset_port() of a receiver unbinds its ports, sleeps and binds the new   *)
(* ones; that of a sender disconnects, to connect again on demand.  zmq     *)
(* throws when the sender is not connected, which ends the process.         *)
beginReset ==
  /\ command = "reset"
  /\ touching = {}
  /\ touching' = {Head(todo)}
  /\ UNCHANGED <<locked, inside, connected, command, todo, stopped>>

endReset ==
  /\ command = "reset"
  /\ touching = {Head(todo)}
  /\ touching' = {}
  /\ IF Head(todo) \in SenderSet \ connected
     THEN command' = "aborted" /\ UNCHANGED todo
     ELSE Visit
  /\ connected' = connected \ {Head(todo)}
  /\ UNCHANGED <<locked, inside, stopped>>

Next ==
  \/ \E t \in Threads : enter(t) \/ leave(t)
  \/ run_stops \/ run_stopr \/ run_restart \/ run_reset
  \/ stop \/ restart \/ beginReset \/ endReset

Spec == Init /\ [][Next]_vars

-----------------------------------------------------------------------------
TypeOK ==
  /\ locked \subseteq Threads /\ inside \subseteq Threads
  /\ connected \subseteq SenderSet
  /\ command \in {"prompt", "stop", "restart", "reset", "aborted"}
  /\ todo \in Seq(Threads)
  /\ touching \subseteq Threads /\ stopped \subseteq Threads
  /\ command \in {"stop", "restart", "reset"} => todo # <<>>

(* "stops ... stop all senders", "stopr ... stop all receivers"             *)
(* (console.hpp:38-39): from the time stop() returned for a thread until    *)
(* restart, the thread does not use its socket.                             *)
StoppedIsQuiet == stopped \cap inside = {}

(* reset_port() never works on a socket while its thread uses it (zmq       *)
(* sockets are not thread safe).                                            *)
SocketExclusive == touching \cap inside = {}
=============================================================================
