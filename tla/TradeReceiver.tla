--------------------------- MODULE TradeReceiver ---------------------------
(***************************************************************************)
(* trader/trade_receiver.cpp: the thread of a trader that receives the     *)
(* trades of all stocks, numbers them, passes the hooked ones to the       *)
(* controller and writes them to one file per stock in batches; together   *)
(* with the ways in which the process ends while it does so: an interrupt, *)
(* a failing write, and the console's quit, which destroys the receiver    *)
(* while its thread still runs.                                            *)
(*                                                                         *)
(* A trade is its volume.  The exchange sends one trade in a message.      *)
(***************************************************************************)
EXTENDS Integers, SequencesExt

CONSTANTS
  Stocks,               \* stock codes
  Volumes,              \* volumes of trades
  Hooked,               \* <<stock, trade index>> of the hook file's targets
  TRADE_BUF_THRESHOLD,
  MaxTrades             \* bound: trades of a stock

ASSUME ReceiverAssumption ==
  /\ Volumes \subseteq Nat
  /\ Hooked \subseteq Stocks \X (Nat \ {0})
  /\ TRADE_BUF_THRESHOLD \in Nat \ {0}
  /\ MaxTrades \in Nat

VARIABLES
  received,       \* per stock: history of the trades received
  trade_idxs_,    \* per stock: the number of the next trade
  trade_buffer_,  \* per stock: trades not written yet
  file,           \* per stock: what trade_fds_[code] holds
  hooked_trade,   \* SharedTradeInfo::hooked_trade: a volume, or -1
  pc,             \* the receiver thread: what it does next ...
  trade,          \* ... with which trade, of which stock
  status,         \* the process: running, aborted; quitting, killed, closed (by quit)
  flushing,       \* the console inside flush(): stocks still to write
  clearing,       \* ... and the stock whose buffer it clears next
  due             \* history, per stock: how many trades were buffered or written at quit

thread == <<received, trade_idxs_, hooked_trade, pc, trade>>
console == <<status, flushing, clearing, due>>
vars == <<thread, trade_buffer_, file, console>>

Alive == status \in {"running", "quitting"}
Ended == IF status = "running" THEN "aborted" ELSE "killed"
None == [stk_code |-> 0, volume |-> 0]

Init ==
  /\ received = [s \in Stocks |-> <<>>]
  /\ trade_idxs_ = [s \in Stocks |-> 1]
  /\ trade_buffer_ = [s \in Stocks |-> <<>>]
  /\ file = [s \in Stocks |-> <<>>]
  /\ hooked_trade = [h \in Hooked |-> -1]
  /\ pc = "recv"
  /\ trade = None
  /\ status = "running"
  /\ flushing = {}
  /\ clearing = {}
  /\ due = [s \in Stocks |-> 0]

-----------------------------------------------------------------------------
(* The receiver thread *)

(* Mutant of update_if_hooked: the trade after the hooked one counts. *)
update_if_hookedLate(s, v) ==
  hooked_trade' = [h \in Hooked |-> IF h = <<s, trade_idxs_[s] - 1>> THEN v ELSE hooked_trade[h]]

update_if_hooked(s, v) ==
  hooked_trade' = [h \in Hooked |-> IF h = <<s, trade_idxs_[s]>> THEN v ELSE hooked_trade[h]]

(* A trade arrives; the controller learns of it if it is hooked, and it     *)
(* gets the stock's next number.                                            *)
receiveTrade(s, v) ==
  /\ Alive
  /\ pc = "recv"
  /\ Len(received[s]) < MaxTrades
  /\ received' = [received EXCEPT ![s] = Append(@, v)]
  /\ update_if_hooked(s, v)
  /\ trade_idxs_' = [trade_idxs_ EXCEPT ![s] = @ + 1]
  /\ trade' = [stk_code |-> s, volume |-> v]
  /\ pc' = "push"
  /\ UNCHANGED <<trade_buffer_, file, console>>

(* Mutant of Full: the batch is one trade longer. *)
FullLate(buffer) == Len(buffer) > TRADE_BUF_THRESHOLD

Full(buffer) == Len(buffer) >= TRADE_BUF_THRESHOLD

(* It goes into the stock's buffer. *)
pushTrade ==
  /\ Alive
  /\ pc = "push"
  /\ trade_buffer_' = [trade_buffer_ EXCEPT ![trade.stk_code] = Append(@, trade.volume)]
  /\ pc' = IF Full(trade_buffer_'[trade.stk_code]) THEN "write" ELSE "print"
  /\ UNCHANGED <<received, trade_idxs_, hooked_trade, trade, file, console>>

Written(s) == [file EXCEPT ![s] = @ \o trade_buffer_[s]]
PartlyWritten(s) ==
  {[file EXCEPT ![s] = @ \o SubSeq(trade_buffer_[s], 1, n)] : n \in 0 .. Len(trade_buffer_[s])}

(* A full buffer is written ... *)
writeTrades ==
  /\ Alive
  /\ pc = "write"
  /\ file' = Written(trade.stk_code)
  /\ pc' = "clear"
  /\ UNCHANGED <<received, trade_idxs_, hooked_trade, trade, trade_buffer_, console>>

(* ... or write() or fdatasync() fails after a part of it: the exception    *)
(* leaves the thread and ends the process.                                  *)
writeFails ==
  /\ Alive
  /\ pc = "write"
  /\ file' \in PartlyWritten(trade.stk_code)
  /\ status' = Ended
  /\ UNCHANGED <<thread, trade_buffer_, flushing, clearing, due>>

(* Mutant of clearBuffer: the buffer is not cleared. *)
clearBufferNot ==
  /\ Alive
  /\ pc = "clear"
  /\ pc' = "print"
  /\ UNCHANGED <<received, trade_idxs_, hooked_trade, trade, trade_buffer_, file, console>>

(* The buffer that was written is cleared. *)
clearBuffer ==
  /\ Alive
  /\ pc = "clear"
  /\ trade_buffer_' = [trade_buffer_ EXCEPT ![trade.stk_code] = <<>>]
  /\ pc' = "print"
  /\ UNCHANGED <<received, trade_idxs_, hooked_trade, trade, file, console>>

(* Back in run(): the throughput is logged when a second has passed.  Once  *)
(* quit has deleted the LogBuffer that is a null pointer access.            *)
printThroughput ==
  /\ Alive
  /\ pc = "print"
  /\ \/ pc' = "recv" /\ trade' = None /\ UNCHANGED status
     \/ status = "quitting" /\ status' = Ended /\ UNCHANGED <<pc, trade>>
  /\ UNCHANGED <<received, trade_idxs_, hooked_trade, trade_buffer_, file,
                 flushing, clearing, due>>

-----------------------------------------------------------------------------
(* The end of the process *)

(* SIGINT: exit() runs no destructor of the receiver. *)
interrupt ==
  /\ Alive
  /\ status' = Ended
  /\ UNCHANGED <<thread, trade_buffer_, file, flushing, clearing, due>>

(* quit: exit_system() deletes the LogBuffer and then the controller, and   *)
(* with it the receiver, whose destructor flushes.                          *)
quit ==
  /\ status = "running"
  /\ status' = "quitting"
  /\ flushing' = Stocks
  /\ due' = [s \in Stocks |-> IF pc = "push" /\ trade.stk_code = s
                              THEN Len(received[s]) - 1 ELSE Len(received[s])]
  /\ UNCHANGED <<thread, trade_buffer_, file, clearing>>

(* flush() writes the buffers one after the other, in no particular order,  *)
(* and clears each.                                                         *)
flushWrite(s) ==
  /\ status = "quitting"
  /\ clearing = {}
  /\ s \in flushing
  /\ file' = Written(s)
  /\ flushing' = flushing \ {s}
  /\ clearing' = {s}
  /\ UNCHANGED <<thread, trade_buffer_, status, due>>

flushClear(s) ==
  /\ status = "quitting"
  /\ s \in clearing
  /\ trade_buffer_' = [trade_buffer_ EXCEPT ![s] = <<>>]
  /\ clearing' = {}
  /\ UNCHANGED <<thread, file, status, flushing, due>>

(* write() or fdatasync() fails in flush(): the exception leaves a          *)
(* destructor, which ends the process.                                      *)
flushFails(s) ==
  /\ status = "quitting"
  /\ clearing = {}
  /\ s \in flushing
  /\ file' \in PartlyWritten(s)
  /\ status' = Ended
  /\ UNCHANGED <<thread, trade_buffer_, flushing, clearing, due>>

(* flush() is over and the files are closed, so that what they hold is      *)
(* final.  The process goes on: the destructor then waits for the sockets   *)
(* of the receiver (Lifecycle).                                             *)
closeFiles ==
  /\ status = "quitting"
  /\ flushing = {} /\ clearing = {}
  /\ status' = "closed"
  /\ UNCHANGED <<thread, trade_buffer_, file, flushing, clearing, due>>

Next ==
  \/ \E s \in Stocks, v \in Volumes : receiveTrade(s, v)
  \/ pushTrade
  \/ writeTrades
  \/ writeFails
  \/ clearBuffer
  \/ printThroughput
  \/ interrupt
  \/ quit
  \/ \E s \in Stocks : flushWrite(s) \/ flushClear(s) \/ flushFails(s)
  \/ closeFiles

Spec == Init /\ [][Next]_vars

-----------------------------------------------------------------------------
Undisturbed == status \in {"running", "aborted"}

TypeOK ==
  /\ received \in [Stocks -> Seq(Volumes)]
  /\ trade_idxs_ \in [Stocks -> Nat \ {0}]
  /\ trade_buffer_ \in [Stocks -> Seq(Volumes)]
  /\ file \in [Stocks -> Seq(Volumes)]
  /\ hooked_trade \in [Hooked -> Volumes \cup {-1}]
  /\ pc \in {"recv", "push", "write", "clear", "print"}
  /\ trade = None \/ trade \in [stk_code : Stocks, volume : Volumes]
  /\ status \in {"running", "aborted", "quitting", "killed", "closed"}
  /\ flushing \subseteq Stocks /\ clearing \subseteq Stocks

(* What a file holds is the beginning of the stock's trades, each once and  *)
(* in the order of arrival, at any time and after any abrupt end, a failing *)
(* write included.                                                          *)
FileIsPrefix == Undisturbed => \A s \in Stocks : IsPrefix(file[s], received[s])

(* An abrupt end loses no more than one batch of each stock's trades. *)
LossBounded ==
  Undisturbed => \A s \in Stocks :
    Len(received[s]) <= Len(file[s]) + TRADE_BUF_THRESHOLD

(* The controller learns the volume of every hooked trade, that of the      *)
(* trade with the hooked number, and not before it arrived; so the assert   *)
(* "only update once" of update_if_hooked holds.                            *)
HooksFollowTrades ==
  \A h \in Hooked :
    LET s == h[1]
        n == h[2]
    IN  hooked_trade[h] = IF n <= Len(received[s]) THEN received[s][n] ELSE -1

(* "flush all trades" (trade_receiver.cpp:66): once quit has closed them,   *)
(* the files hold, once each, at least the trades that had been received    *)
(* and buffered when quit began.                                            *)
FlushedAtQuit ==
  status = "closed" => \A s \in Stocks :
    /\ Len(file[s]) >= due[s]
    /\ IsPrefix(file[s], received[s])
=============================================================================
