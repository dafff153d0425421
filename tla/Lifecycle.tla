----------------------------- MODULE Lifecycle ------------------------------
(***************************************************************************)
(* How the two programs start and end (trader.cpp, exchange.cpp,           *)
(* common/global.hpp, common/thread.cpp, the constructors and destructors  *)
(* of TraderController and Exchange): the main thread builds the global    *)
(* objects and starts the threads, then runs the console; "quit" deletes   *)
(* the objects under the running threads; a signal ends the process from   *)
(* the handler of whichever thread it reaches.                             *)
(*                                                                         *)
(* The main thread follows a script of steps:                              *)
(*   make o     the object exists, its Global pointer is not set yet       *)
(*   set o      the Global pointer is set                                  *)
(*   start t    pthread_create                                             *)
(*   join t     pthread_join                                               *)
(*   term t     the destructor of the zmq context of thread t's sockets    *)
(*              ends the context                                           *)
(*   closed t   ... and waits until the sockets are closed                 *)
(*   delete o   the object is gone, the pointer still set                  *)
(*   clear o    the pointer is null                                        *)
(*   exit c     the process ends                                           *)
(***************************************************************************)
EXTENDS Integers, Sequences, SequencesExt

CONSTANT MaxSignals  \* bound: interrupts from outside

Stocks == <<"stock1", "stock2">>
Senders == <<"sender0", "sender1">>

Step(what, x) == <<what, x>>
New(o) == <<Step("make", o), Step("set", o)>>
Delete(o) == <<Step("delete", o), Step("clear", o)>>
Each(what, threads) == [i \in DOMAIN threads |-> Step(what, threads[i])]

(* main() of exchange.cpp, with Exchange::start(). *)
StartExchange ==
  New("LogBuffer") \o New("OrderReceiver") \o New("TradeSender") \o New("Exchange")
    \o <<Step("start", "sender"), Step("start", "receiver")>> \o Each("start", Stocks)

(* main() of trader.cpp, with the constructor of TraderController, which    *)
(* starts its threads before it loads the data and before its pointer is    *)
(* set.                                                                     *)
StartTrader ==
  New("LogBuffer") \o <<Step("start", "receiver")>> \o Each("start", Senders)
    \o New("TraderController") \o <<Step("start", "controller")>>

(* exit_system().  The destructors of MessageReceiver and MessageSender     *)
(* leave their sockets open; ~Exchange() joins the threads of the stocks,   *)
(* and the members of TraderController go in reverse order, the trade       *)
(* receiver first.                                                          *)
EndContext(t) == <<Step("term", t), Step("closed", t)>>
QuitExchange ==
  Delete("LogBuffer") \o EndContext("receiver") \o Delete("OrderReceiver")
    \o EndContext("sender") \o Delete("TradeSender") \o Each("join", Stocks) \o Delete("Exchange")
QuitTrader ==
  Delete("LogBuffer") \o EndContext("receiver") \o EndContext("sender0") \o EndContext("sender1")
    \o Delete("TraderController")

Programs == {"exchange", "trader"}
Startup(program) == IF program = "exchange" THEN StartExchange ELSE StartTrader
Quit(program) ==
  (IF program = "exchange" THEN QuitExchange ELSE QuitTrader) \o <<Step("exit", "exit(0)")>>

(* The objects whose Global pointer a thread follows in its loop. *)
Uses(program, t) ==
  CASE t = "receiver" -> {"LogBuffer", IF program = "exchange" THEN "Exchange" ELSE "TraderController"}
    [] t \in Range(Stocks) -> {"Exchange", "TradeSender"}
    [] OTHER -> {}

Named(steps, what) == {step[2] : step \in {x \in Range(steps) : x[1] = what}}
Threads == UNION {Named(Startup(p), "start") : p \in Programs}
Objects == UNION {Named(Startup(p), "make") : p \in Programs}
Main == "main"
Unlocked == <<Main, 0>>

VARIABLES
  program,    \* which of the two programs this process runs
  script,     \* the steps the main thread has still to take
  quitting,   \* the command quit was given
  alive,      \* the objects that exist
  pointer,    \* the objects whose Global pointer is not null
  ending,     \* the threads whose zmq contexts are ending
  started,    \* the threads that run
  looping,    \* the threads past the wait at the start of run()
  handlers,   \* per thread: the signal handlers it is in, the latest last
  exit_lock,  \* the thread and the depth of the handler that holds it
  signals,    \* number of interrupts so far
  faulted,    \* history: the threads that crashed
  outcome     \* running, or the exit code

objects == <<alive, pointer, ending, started, looping>>
handling == <<handlers, exit_lock, signals, faulted>>
vars == <<program, script, quitting, objects, handling, outcome>>

Init ==
  /\ program \in Programs
  /\ script = Startup(program)
  /\ quitting = FALSE
  /\ alive = {} /\ pointer = {} /\ ending = {}
  /\ started = {} /\ looping = {}
  /\ handlers = [t \in Threads \cup {Main} |-> <<>>]
  /\ exit_lock = Unlocked
  /\ signals = 0
  /\ faulted = {}
  /\ outcome = "running"

(* A thread is at its own work, not in a signal handler. *)
Free(t) == outcome = "running" /\ handlers[t] = <<>>

-----------------------------------------------------------------------------
(* The main thread.  No run() returns and no socket is closed, so that the  *)
(* waits of quit last for ever.                                             *)
mainStep ==
  /\ Free(Main)
  /\ script # <<>>
  /\ LET what == Head(script)[1]
         x == Head(script)[2]
     IN  /\ what \notin {"join", "closed"}
         /\ alive' = CASE what = "make" -> alive \cup {x} [] what = "delete" -> alive \ {x}
                       [] OTHER -> alive
         /\ pointer' = CASE what = "set" -> pointer \cup {x} [] what = "clear" -> pointer \ {x}
                         [] OTHER -> pointer
         /\ ending' = IF what = "term" THEN ending \cup {x} ELSE ending
         /\ started' = IF what = "start" THEN started \cup {x} ELSE started
         /\ outcome' = IF what = "exit" THEN x ELSE outcome
  /\ script' = Tail(script)
  /\ UNCHANGED <<program, quitting, looping, handling>>

quit ==
  /\ Free(Main)
  /\ script = <<>>
  /\ ~quitting
  /\ quitting' = TRUE
  /\ script' = Quit(program)
  /\ UNCHANGED <<program, objects, handling, outcome>>

-----------------------------------------------------------------------------
(* The other threads *)

(* Mutant of begin: the threads of a trader do not wait for the controller. *)
beginAtOnce(t) ==
  /\ Free(t)
  /\ t \in started \ looping
  /\ looping' = looping \cup {t}
  /\ UNCHANGED <<program, script, quitting, alive, pointer, ending, started, handling, outcome>>

(* run() of a sender or the receiver of a trader waits until the controller *)
(* is there and initialised; init_finished is set before the pointer is.    *)
begin(t) ==
  /\ Free(t)
  /\ t \in started \ looping
  /\ program = "trader" /\ t # "controller" => "TraderController" \in pointer
  /\ looping' = looping \cup {t}
  /\ UNCHANGED <<program, script, quitting, alive, pointer, ending, started, handling, outcome>>

(* A thread follows a Global pointer: to a null pointer, or to an object    *)
(* that is gone, which may go well.                                         *)
fault(t) ==
  /\ Free(t)
  /\ t \in looping
  /\ Uses(program, t) \ (pointer \cap alive) # {}
  /\ faulted' = faulted \cup {t}
  /\ handlers' = [handlers EXCEPT ![t] = Append(@, "SIGSEGV")]
  /\ UNCHANGED <<program, script, quitting, objects, exit_lock, signals, outcome>>

(* A thread uses a socket whose context is ending: zmq throws, nothing      *)
(* catches.                                                                 *)
abort(t) ==
  /\ Free(t)
  /\ t \in looping
  /\ t \in ending
  /\ faulted' = faulted \cup {t}
  /\ handlers' = [handlers EXCEPT ![t] = Append(@, "SIGABRT")]
  /\ UNCHANGED <<program, script, quitting, objects, exit_lock, signals, outcome>>

-----------------------------------------------------------------------------
(* Signals *)

(* An interrupt is delivered to some thread that is not handling one:       *)
(* signal() blocks the signal itself in its handler, and no other, so that  *)
(* it may find the thread in the handler of another signal.                 *)
interrupt(t) ==
  /\ outcome = "running"
  /\ t \in started \cup {Main}
  /\ signals < MaxSignals
  /\ ~Contains(handlers[t], "SIGINT")
  /\ signals' = signals + 1
  /\ handlers' = [handlers EXCEPT ![t] = Append(@, "SIGINT")]
  /\ UNCHANGED <<program, script, quitting, objects, exit_lock, faulted, outcome>>

(* lock_guard of exit_lock at the start of each handler, the latest one of  *)
(* the thread running.                                                      *)
lockExit(t) ==
  /\ outcome = "running"
  /\ handlers[t] # <<>>
  /\ exit_lock = Unlocked
  /\ exit_lock' = <<t, Len(handlers[t])>>
  /\ UNCHANGED <<program, script, quitting, objects, handlers, signals, faulted, outcome>>

(* Mutant of exitHandler: the handler joins the threads before it exits. *)
exitHandlerJoins(t) ==
  /\ outcome = "running"
  /\ exit_lock = <<t, Len(handlers[t])>>
  /\ started = {}
  /\ outcome' = "exit(-1)"
  /\ UNCHANGED <<program, script, quitting, objects, handling>>

exitHandler(t) ==
  /\ outcome = "running"
  /\ exit_lock = <<t, Len(handlers[t])>>
  /\ outcome' = "exit(-1)"
  /\ UNCHANGED <<program, script, quitting, objects, handling>>

Next ==
  \/ mainStep \/ quit
  \/ \E t \in Threads : begin(t) \/ fault(t) \/ abort(t)
  \/ \E t \in Threads \cup {Main} : interrupt(t) \/ lockExit(t) \/ exitHandler(t)

Spec == Init /\ [][Next]_vars

(* The main thread goes on with what it has to do, and a handler runs. *)
FairSpec ==
  /\ Spec
  /\ WF_vars(mainStep)
  /\ \A t \in Threads \cup {Main} : WF_vars(lockExit(t)) /\ WF_vars(exitHandler(t))

-----------------------------------------------------------------------------
TypeOK ==
  /\ program \in Programs
  /\ alive \subseteq Objects /\ pointer \subseteq Objects
  /\ ending \subseteq started /\ looping \subseteq started /\ started \subseteq Threads
  /\ \A t \in Threads \cup {Main} : Len(handlers[t]) <= 2
  /\ exit_lock \in (Threads \cup {Main}) \X (0 .. 2)
  /\ faulted \subseteq Threads
  /\ outcome \in {"running", "exit(0)", "exit(-1)"}

(* Until quit is given, no thread follows a null pointer or uses an object  *)
(* that is not there, in whatever order the main thread builds the objects  *)
(* and the threads come up (trader_controller.cpp:14-34,                    *)
(* order_sender.cpp:48, trade_receiver.cpp:75, exchange.cpp:122-129).       *)
StartupSafe == faulted # {} => quitting

Handling == \E t \in Threads \cup {Main} : handlers[t] # <<>>

(* A handler that holds exit_lock has been interrupted, on its own thread,  *)
(* by the handler of another signal, which waits for the lock.              *)
SelfBlocked ==
  \E t \in Threads \cup {Main} : exit_lock[1] = t /\ exit_lock[2] \in 1 .. Len(handlers[t]) - 1

(* However many threads are in handlers, faults of a quit that waits for    *)
(* ever included, the handler that gets exit_lock ends the process without  *)
(* waiting for anyone (exchange.cpp:69-90, trader.cpp:64-85), unless it is  *)
(* SelfBlocked.                                                             *)
SignalEndsUnlessNested == Handling ~> (outcome # "running" \/ SelfBlocked)

(* "race between two signals" (exchange.cpp:63, trader.cpp:58): with        *)
(* exit_lock, a signal ends the process whatever other signals there are.   *)
SignalEnds == Handling ~> outcome # "running"
=============================================================================
