# A TLA+ verification of PPIW-Trading

PPIW-Trading replays recorded orders of a stock market. *Traders* read the
orders from data files and send them to *exchanges*; an exchange matches the
orders of each stock on a thread of its own and sends the trades to all
traders, which write them to files. This directory holds TLA+ models of the
program, TLC configurations that check them on small instances, and proofs of
their main properties that TLAPS checks for all instances. Paths below are
relative to `src/src/`.

## 1. The system

| Part | State | Operations | Interacts with |
|---|---|---|---|
| Trader controller (`trader/trader_controller.*`) | orders sorted by id and the next one per stock; `SharedTradeInfo`: window start per stock, volumes of hooked trades | scan the stocks, compute the id limit, `check_order`, send | order sender (queue), trade receiver (`SharedTradeInfo`, a mutex) |
| Order sender (`trader/order_sender.*`) | `order_queue_`, pause lock | poll an order, send it until the socket accepts it; stop, restart, reset | controller, exchange |
| Order receiver (`exchange/order_receiver.*`) | sockets with a scan offset, pause lock | poll the ports, hand the orders to the exchange | traders, exchange |
| Exchange (`exchange/exchange.*`) | a slot window per stock | `receiveOrder` (slot), `comsumeOrder` (poll, ack), `produceTrade` | receiver, stock threads, trade sender |
| Matching engine (`exchange/stock_exchange.*`) | declaration book, heap of early orders, last committed id | commit in id order, six handlers | exchange |
| Declaration book (`exchange/stock_decl_book.hpp`, `record.hpp`) | two heaps | insert, first, remove, total | matching engine |
| Trade sender (`exchange/trade_sender.*`) | `msg_queue_`, pause lock | take a message, send it to every trader | stock threads, traders |
| Trade receiver (`trader/trade_receiver.*`) | trade number, buffer and file per stock, pause lock | number, buffer and write trades; handle acks; flush | exchange, controller |
| Queues (`common/block_queue.hpp`, `sliding_window.hpp`) | rings, condition variables | put, take, offer, poll, get | all threads |
| Console (`common/console.hpp`) | | stops, stopr, restart, reset-net, quit; config, logger, ls (not modelled) | senders, receivers, everything that quit deletes |
| Start and end (`exchange.cpp`, `trader.cpp`, `common/global.hpp`, `common/thread.cpp`) | the global objects, the threads, `exit_lock` | build, start, delete, join; signal handlers | all |
| Network (`network/msg_sender.h`, `msg_receiver.h`) | channel, connection, bound ports | send, receive, `reset_port` | senders, receivers |
| Loader (`common/loader.hpp`, `common/type.hpp`) | matrices, cache files, parts | load, sort, dump, generate | controller |
| Configuration (`common/config.*`) | the members of `Config` | read the file, set items | all |
| Monitor and logger (`common/monitor.hpp`, `utils/logger2.hpp`) | counts, ring of log lines; buffers and levels | count, report, print | receivers, console (reporting only) |
| Legacy sockets (`network/socket_*`) | connection pool; client socket | accept, read, handle, stop; connect, request, disconnect | compiled, used by neither program |
| Utilities, tools | | | |

Hard behaviours, and the properties that go with them (the full list, with
lines, is under `hazards` in `PROJECT.json`):

* Flow control is spread over three parts. An order that finds its slot
  occupied is dropped with no more than a log line and its stock then stalls;
  only the traders' windows, moved by acks, keep slots free (`NoCollision`,
  `AcksMonotone`, `ChannelBounded`, `AllCommitted`, `AllAcked`).
* Orders of several traders interleave; matching must follow the ids
  (`InOrder`, `TradesInIdOrder`, `ReadyOrdersCommit`).
* The loop that polls orders before acking them has no bound of its own
  (`BatchBounded`).
* Threads wait on condition variables next to calls that do not wait
  (`NoLostWakeup`, `TakeReturns`).
* Six handlers, each written twice, share a book that must not cross and may
  not lose volume (`BookUncrossed`, `VolumeConserved`, `FokCovered`,
  `ImplementsRules`).
* Trades are buffered before they are written, and the process may end at any
  time (`FileIsPrefix`, `LossBounded`, `FlushedAtQuit`).
* The console pauses threads with ownerless spin locks (`StoppedIsQuiet`,
  `SocketExclusive`), and new ports are taken into use while messages may be
  under way (`StreamKept`, `PortsFree`, `AllReceived`).
* Orders of one stock wait for trades of another, through bounded queues that
  all threads share (`AllCommitted` of `TradingSystem`, `HooksKnown`,
  `HookDecision`); that these stages add up to the order flow is `FlowRefined`.
* Threads come up before the objects that they use, and quit deletes objects
  under running threads (`StartupSafe`, `FileIsPrefix`); signals are handled on
  any thread, also while it handles another (`SignalEndsUnlessNested`,
  `SignalEnds`).
* A part of the cache has a truncated length (`NoMoreMeansAll`), orders may have
  the same id, and five files have to stay in step when a dump is cut short and
  another follows (`GivenSorted`).

## 2. Modules

| Module | Models | Notes |
|---|---|---|
| `SlidingWindow` | `common/sliding_window.hpp` | `put`, `get`, `poll`; `waiting` is the set of threads in the condition variable. The exchange puts and polls, which the runs check through `OrderFlow`; `get` has no caller and is only proved about |
| `BlockQueue` | `BlockQueue` of `common/block_queue.hpp` | the ring, two condition variables |
| `BlockQueueSTL` | `BlockQueueSTL` of the same file | the deque; also the abstract specification of the ring |
| `OrderFlow` | `TraderController`, order and trade receivers, `Exchange`, `StockExchange::run` for one stock | uses `SlidingWindow` for the exchange's slots |
| `DeclBook` | `exchange/record.hpp`, `stock_decl_book.hpp` | operators on a book |
| `StockExchange` | `exchange/stock_exchange.cpp` | one action per handler; a step is a round of its loop |
| `MatchingRules` | | abstract specification: the whole effect of an order in one step |
| `TradeReceiver` | `trader/trade_receiver.cpp`, the ends of `trader.cpp` | hooks, batches, interrupt, failing write, quit |
| `PauseControl` | `common/console.hpp`, stop/restart/reset of all senders and receivers | spin locks without owner |
| `TradingSystem` | all threads of several traders and exchanges with several stocks | |
| `TradingFlow` | | `TradingSystem` with the mapping of each stock to `OrderFlow` |
| `NetworkReset` | `network/msg_sender.h`, `msg_receiver.h`, `run_reset`, `load_network_config` | sockets and messages under way |
| `Lifecycle` | `exchange.cpp`, `trader.cpp`, `common/global.hpp`, `common/thread.cpp` | a script of the main thread, threads, signals |
| `OrderLoader` | `common/loader.hpp`, `Coordinates` and `OrderInfoMatrix`, `load_data` | the three load modes |
| `StockRefinement` | | `StockExchange` with the mapping to `MatchingRules` |
| `CommonProofs` | | theorems and proofs of `BlockQueue`, `SlidingWindow` and `PauseControl` |
| other `*Proofs` | | theorems and proofs of the module they are named after |
| `MC*` | | instances for TLC |

Variables carry the names of the code's members and locals. A variable that
the code does not have is marked as history where it is declared
(`received`, `committed`, `taken`, `stopped`, `due`). Definitions commented
as mutants are plausible mistakes in the definition that follows them; no
specification uses them. They show that a property would notice the mistake.

**OrderFlow.** An order is its id; the stock's orders 1 .. `OrderNum` are
split among the traders in any way. `readLimit` and `sendOrder` are the two
halves of the controller's scan (the limit is read once and used for a run of
orders), `process_order_ack` is the trade receiver, `receiveOrder` and
`receiveNothing` are the exchange's receiver with the scan offset of
`MessageReceiver::tryrecv`, and `pollOrder`, `ackOrders`, `commitOrders` are
the stock thread. The stages between controller and receiver (`order_to_send`,
`order_queue_`, the sender, the socket) are FIFO and appear as one FIFO; so do
the stages of an ack. A hook that is not ready delays `sendOrder`.

**StockExchange.** The two branches of each handler, for buying and selling,
differ in nothing but the sides, so each handler is written once for a
direction `d` and its counterparty `-d`. The one exception (type 3 returns the
cancelled volume only when buying) is kept. A heap appears as a set with the
record that `operator<` puts on top. Prices are positive integers: the code
compares them and copies them, and never computes with them. The asserts of
type 5 appear as a handler that has no next step; `FokCovered` and
`ReadyOrdersCommit` exclude it.

**TradeReceiver.** The receiver thread takes a trade in five steps (number,
push, write, clear, log), between any two of which the process may end or
quit may flush. The buffers that the thread and quit share are not protected;
the model interleaves whole operations on them, the mildest outcome of that
race, and this is enough for the finding below. Quit ends with the files closed;
the process itself does not exit there (section 3). No property of a passing run
speaks about the time after quit.

**PauseControl.** `enter` and `leave` are the lock and unlock around an attempt
to send or receive, in all four thread classes. With `Disciplined = TRUE` the
operator gives each stop command once before reset-net and restart; with
`FALSE` commands come in any order.

**TradingSystem.** The stages that `OrderFlow` merges into one FIFO, one by
one: the controller's scan over the stocks, `order_to_send`, the queue, the
sender and the socket for each exchange; the order receiver, the window and
the thread of each stock; `msg_queue_`, the trade sender that serves all
traders in turn, and the trade receiver. What each trader has in its data is a
constant, `sorted_order_structs`: any split of a stock's orders, each trader's
share sorted, which is what `OrderLoader` delivers. `Flow(s)` of `TradingFlow` is
the refinement mapping of stock `s`: the channel of a trader is what is in its
socket, its sender, its queue and `order_to_send`, in this order, restricted to
the stock. `matchOrder` takes the order whose turn it is, without the check
against `last_commit` that `StockExchange` has: by `InOrder` an order is polled
only when it is next. The size of a queue is the code's quotient
(`order_sender.cpp:10`), which is a window for each stock of the exchange only
when `stock_num` is a multiple of `exchange_num`; other configurations are not in
the run. The
receiver's scan offset has no counterpart here (which socket is served is
free), so it maps to 0, where `OrderFlow` allows the same. What an order trades
is a constant, since `StockExchange` has the matching, and an abandoned order
trades nothing.

**NetworkReset.** The operator stops the senders, waits until nothing is under
way, stops the receivers, puts the next file in place, resets every process in
any order and restarts them in any order. Nothing in the code enforces any of
this; without the wait, unbinding drops what a socket holds. So `StreamKept` and
`AllReceived` are about the resets of an operator who waits, and say nothing of
one who does not.

**Lifecycle.** The main thread follows a script (make an object, set its
pointer, start a thread, ...) of either program, built from the constructors,
`main()` and `exit_system()`. Quit ends the contexts of the sockets one by one,
the receiver's first, and each waits for its own sockets. A thread faults when it
follows a pointer to an object that is not there. A signal may reach any thread,
also one that is in the handler of another signal.

**OrderLoader.** The content of a cell of a matrix is the cell's place, so a
property can tell whether an order has its own data. The process may end at any
moment and be started again in any mode. A dump that is cut short leaves files
with different numbers of orders, since each of the five streams has a buffer of
its own (`Kept`, `Unwritten`), and some files of the last dump when it ends while
the files are opened (`startDumpCut`). Mode 1 then reads whatever the files hold,
as the code does. The comment of `load_mode` (`config.cpp:20`) presumes a complete
dump, so the properties speak of the starts for which this holds (`Trusted`).

## 3. Runs

| Run | Checks | Shows | Bounds |
|---|---|---|---|
| `block_queue` | `TypeOK`, `NoLostWakeup`, `ImplementsDeque`, `TakeReturns` | the ring is the deque, with its fairness; nobody is left in take() | 2 producers, 2 consumers, capacity 3: wraps around, full and empty, all wait; a consumer that never calls leaves the other alone, as in the exchange |
| `order_flow` | `TypeOK`, `NoCollision`, `AcksMonotone`, `InOrder`, `BatchBounded`, `ChannelBounded`, `AllCommitted`, `AllAcked` | flow control neither drops nor stalls | 2 traders (as configured), window 2, 5 orders, all 32 splits: the window wraps twice |
| `stock_matching` | `TypeOK`, `BookUncrossed`, `VolumeConserved`, `FokCovered`, `TradesInIdOrder`, `ImplementsRules`, `ReadyOrdersCommit` | the six handlers do what the rules say, whatever the order of arrival | 4 orders: up to three resting records, then every type; 3 prices, 2 levels instead of 5, so that orders run out of levels; an order arrives up to 3 ids after the last commit, so two wait for a third |
| `trade_receiver` | `FileIsPrefix`, `LossBounded`, `HooksFollowTrades` | what survives an abrupt end | 2 stocks, 3 trades each, batches of 2: a write and a rest |
| `pause` | `TypeOK`, `StoppedIsQuiet`, `SocketExclusive` | the pause works when used in pairs | a trader: 2 senders, 1 receiver; no other bound |
| `trading_system` | `TypeOK`, `HooksKnown`, `HookDecision`, `FlowRefined`, `AllCommitted` | the stages implement the order flow, hooks are decided alike, nothing stops | 2 traders, 1 exchange, 2 stocks of 2 orders, one from each trader, so that both stocks share queues, senders and sockets; each stock has an order that waits for a trade of the other, one of them for the second trade; one volume equals its hook's argument, one exceeds it, one price is bad; windows and sockets of 1 and queues of 2 and 1 fill up and wrap. An instance with the stocks at 2 exchanges was checked too and is not kept as a run |
| `network_reset` | `StreamKept`, `PortsFree`, `AllReceived` | new ports lose nothing under the discipline above | 2 traders, 4 messages, 2 resets: swapped ports, then a new one |
| `lifecycle` | `StartupSafe`, `SignalEndsUnlessNested` | start and signals of both programs | an exchange with 2 stocks or a trader with 2 senders; 2 signals, at any thread |
| `order_loader` | `GivenSorted`, `NoMoreMeansAll` | orders come once, by id, with their own data, and all but the remainder | 4 x 2 x 2 cells, 2 stocks, some equal ids, 3 parts that leave a remainder of 2 orders, 3 starts: dumps cut short, with files of equal and of different lengths, and repeated |
| `flush_at_quit` | `FlushedAtQuit` | violated, disagreement 1 | |
| `pause_any` | `StoppedIsQuiet` | violated, disagreement 2 | |
| `signal_nested` | `SignalEnds` | violated, disagreement 3 | |

Deadlock is checked in the runs of the queues, the order flow and the trading
system. In `StockExchange` no more order may arrive; in `TradeReceiver`,
`PauseControl`, `Lifecycle` and `OrderLoader` the process ends; in
`NetworkReset` all messages have been sent: there the system may stop.

`TypeOK` of `Lifecycle`, `NetworkReset`, `OrderLoader` and `TradeReceiver`
documents the types of their variables; it holds on the same instances, and the
runs leave it out in favour of the other properties.

Disagreements between comments and code that the runs show:

1. quit flushes while the receiver thread runs; a batch can be written twice
   (`trade_receiver.cpp:67`), against "flush all trades" (`:66`).
2. restart frees locks that the threads hold, after which a stop command
   returns while the thread is still inside (`order_sender.cpp:33`), against
   "stop all senders" (`console.hpp:38`).
3. a signal that reaches a thread in the handler of another signal waits for
   `exit_lock`, which that thread holds, and the process never ends
   (`exchange.cpp:78`), against "race between two signals" (`:63`).

Two more are visible in the models, and no run is about them:

* In `OrderLoader` the remainder of the orders, divided into equal parts, is
  never read (`loader.hpp:341`), against "no more order for this stock code"
  (`trader_controller.cpp:213`). `NoMoreMeansAll` states what holds: all orders
  but the remainder. The configured sizes divide evenly.
* In `Lifecycle`, quit does not lead to `exit(0)`: it waits for sockets that stay
  open and joins threads that never return (`exchange/exchange.cpp:23`, against
  "quit from the console", `console.hpp:34`).

These were read in the source and are not checked here: `commitOrder()` returns
0 whatever the handler returned (`stock_exchange.cpp:660`, against `:619-622`);
every translation unit has its own logger, so a level set on the console holds
for one (`logger2.hpp:414`, against `:166`); a missing `data_folder` is accepted
(`config.h:50`, against `:51`); config -s sets nothing (`config.h:109`, against
`console.hpp:61`); help lists `check` and `reset-network`, which the console
refuses (`console.hpp:575`, `:583`, against `:37` and `:41`).

## 4. Fairness

* `OrderFlow`: weak fairness of each thread (controller, trade receiver, order
  receiver, stock thread): they are endless loops that never block on each
  other within the model. There is none among the ports of the receiver: a
  busy port may be served again and again, and `AllCommitted` shows that the
  windows prevent starvation. `sendOrder` is fair, which assumes that hooks
  are answered.
* `BlockQueue`: a thread inside a call that is not waiting
  gets the mutex again. Nobody is obliged to call.
* `StockExchange`: the thread is scheduled; no order is obliged to arrive.
* `TradingSystem`: weak fairness of each thread; a thread that is blocked by a
  full queue or socket is simply not enabled. None among the sockets of a
  receiver. The hook file of `trading_system` has no cycle of orders that wait for
  each other; with one, the stocks would wait for ever.
* `NetworkReset`: the threads run, what waits in a pipe crosses once the port is
  bound (zmq reconnects), and the operator finishes a reset that has begun.
* `Lifecycle`: the main thread and the signal handlers run.
* The other modules state safety only; in `PauseControl`, spin locks promise no
  order among those who spin.

## 5. Proofs

TLAPS checks these for all values of the constants that satisfy the named
assumptions of the modules (`ConfigAssumption`, `OrdersAssumption`,
`QueueAssumption`, `FilesAssumption`, `DataAssumption`; TLC evaluates them in the
runs). Where a theorem needs more, it says so in its `ASSUME`.

* `OrderFlowProofs`: `FlowInv` is inductive; from it `TypeOK`, `NoCollision`,
  `AcksMonotone`, `InOrder`, `BatchBounded` and `ChannelBounded`, for any
  number of traders, window size and split of the orders. None of them is
  inductive alone. The argument: let `Acked` be the last acked id and
  `Consumed` the last polled one. Every trader's window starts at or below
  `Acked + 1` (`WindowsLag`), so every order under way lies in
  `Consumed + 1 .. Acked + W` (`ChannelsFresh`, `SlotsFresh`). These are at
  most `W` successive ids, so they have different slots (`ModUnique`), and the
  head slot is the one of `Consumed + 1` (`HeadIsNext`).
* `TradingSystemProofs`: `SysInv` is inductive, for any numbers of traders,
  exchanges and stocks and any sizes of windows, queues and sockets. It says
  where things may be: an order in a queue, in a sender's hands or in a socket is
  one of a stock of that exchange, an ack or a trade comes from the exchange of
  its stock, the counts and positions are in range and the capacities are kept.
  `HooksKnown` needs `TradesCounted` with it: for every trader and stock, the
  trades the trader has numbered and those on the way to it (socket, sender's
  hand, queue) are the trades of the stock, in their order. A trader numbers the
  trades for itself, so this is what makes its numbers the right ones.
  `HookDecision` follows with `DecisionInv`, the same for every order on its way,
  and `Grown`: trades are only added, so a decision that was right stays right.
  That queues keep the order is carried by lemmas on what selecting from a
  concatenation gives when one stage hands its first element to the next.
* `TradingFlowProofs`: every behaviour of `TradingSystem` satisfies
  `FlowRefined`: for each stock the initial state is one of `OrderFlow` and every
  step is one of its steps or changes nothing it sees. A step of the controller
  is `sendOrder` or `readLimit` for its own stock and a stutter for the others;
  moving an order or an ack from stage to stage keeps the channels; the
  receivers and the stock threads take the step of the same name.
  `EveryStockFlows` then carries what `OrderFlowProofs` proves over to the whole
  system: `NoCollision`, `AcksMonotone`, `InOrder`, `BatchBounded` and
  `ChannelBounded` hold of any stock. The stock is a constant of the module and
  `Of` a second instance of `OrderFlow` for it, with the same mapping as `Flow`
  (`SameInit`, `SameVars`, `SameNext`): the theorems of `Flow(s)`, an instance
  with a parameter, cannot be cited.
* `StockExchangeProofs`: `BookInv` is inductive; from it `TypeOK`,
  `BookUncrossed` and `TradesInIdOrder`, for any orders and any number of
  levels. The strengthening: records have positive volume and prices within
  the limit, ids are unique (so a heap has one top), the price a type 1 order
  took stays the best of the other side (`LimitIsBest`), and every trade's
  younger partner is committed or being handled (`TakersCommitted`).
  On top of it `Accounts` is inductive; from it `VolumeConserved` and
  `FokCovered`. Every received order is `Balanced`: what it traded and what
  rests of it is what its handler has used up, nothing while it waits in the
  heap, and once it is `Closed` what its type allows. The strengthening: the
  book is finite, every order in the heap has an id after the last commit
  (`HeapSound`), and what a handler holds is the whole order until its first
  trade (`LeftSound`). A match takes the same volume from the record, the
  order and the counterparty's total, and adds it to the trades of both
  partners (`MatchVolumes`). The sums rest on `SumSplit`: without one element
  of a finite set, the sum is smaller by that element. Induction over data is
  replaced by the choice of a smallest counterexample (`LeastNatural`,
  `MinimalSubset`).
* `CommonProofs`, for any number of threads and any capacity. `BlockQueue`:
  `TypeOK`, `NoLostWakeup`, and the ring implements the deque: the mapping reads
  the ring from the head, and each action maps to the action of the same name.
  `SlidingWindow`: `TypeOK` and `NoLostWakeup`, also for callers of `get`, which
  the programs do not have. `PauseControl`: `TypeOK` for all
  commands; `StoppedIsQuiet` and `SocketExclusive` under the hypothesis
  `Disciplined` (with `FALSE` the run `pause_any` refutes the first). `LocksInv`
  says who holds each lock: its thread while inside, the console from stop to
  restart, nobody otherwise. `ThreadsOK` repeats `ThreadsAssumption`, since
  `PauseControl` is an instance here.
* `TradeReceiverProofs`: `ReceiverInv` is inductive; from it `FileIsPrefix`,
  `LossBounded` and `HooksFollowTrades`, for any stocks, trades, hooks and batch
  size. The strengthening says, for each step of the thread, how file, buffer
  and the trade in hand make up what was received: the file and the buffer, the
  file alone between the write and the clear, and the trade in hand numbered
  but not in the buffer yet.
* `NetworkResetProofs`: `ResetInv` is inductive; from it `StreamKept` and
  `PortsFree`, for any number of traders, messages and resets. The
  strengthening follows the operator: nothing is under way from the moment the
  receivers are stopped until the restart, the sockets not yet reset hold the
  ports of the old file and the others those of the new one, and both ends of a
  running pair agree on the port.
* `OrderLoaderProofs`: `LoaderInv` is inductive, for matrices of any size up to
  the 1024 of a coordinate's field (the run has far smaller ones), any number of
  stocks and parts and any cut of a dump. It says that each of a stock's five
  files holds some number of its first sorted orders, not the same for all after
  a cut (`FilesOK`); and, when the files are complete, that the part in memory is
  the one before the position in the files and that the orders given are all
  those before the part and `start_idx` of it (`GeneratorOK`). A dump that has
  ended makes them complete again (`WholeFiles`). From it `GivenInTurn`: what is
  given is the sorted sequence. `GivenSorted` then needs that sorting, as the code
  does it, puts at place `i` the cell that `i - 1` cells of the stock precede:
  every stock has `num_order` cells (`RowsOfStock`, counted with a bijection),
  coordinates are read back as they were packed (`CoordinatesRoundTrip`) and order
  equal ids as the cells do (`PairOrder`, `CoorOrder`), so the order is strict and
  ranks fill `0 .. num_order - 1` (`Ranks`). `NoMoreMeansAll` follows for any
  remainder. The one hypothesis: a part is not empty (`num_partition <=
  num_order`; with fewer orders than parts the generator would read beyond its
  buffers). Both properties leave out starts with load_mode 1 on incomplete
  files (`Trusted`, section 2).

Only model-checked:

* all liveness (`TakeReturns`, `AllCommitted`, `AllAcked`, `ReadyOrdersCommit`,
  `AllReceived`, `SignalEndsUnlessNested`, and the fairness part of
  `ImplementsDeque`), which the prover does not handle;
* `ImplementsRules`, whose rules are recursive;
* `TypeOK` of `TradingSystem`. `SysInv` has all of it except that a batch has at
  most `W` orders and that no commit runs past the last order. Both rest on the
  flow control of `OrderFlow`. The first is proved of any one stock
  (`EveryStockFlows`), but the prover cannot bring the quantifier over the stocks
  inside the temporal operator, as `TypeOK` has it;
* `StartupSafe`: the two programs' scripts are fixed and finite, and the run goes
  through all of them.

## 6. Not modelled

* The calls of HDF5 and the price limits computed from the previous close
  (`load_prev_close`): a model without floating point would say nothing about
  them. `BadPrice` of `TradingSystem` is their result.
* The bytes of orders, trades and acks; printing and option parsing.
* The socket server and client (`network/socket_*`, `status.hpp`): compiled into
  both programs, constructed by neither.
* The logger, the ring of the monitor and the throughput numbers: reporting that
  the trading path never reads.
* Reading the items of the configuration file, which is over before any thread
  starts; the commands config, logger, ls and `sparql`.
* `utils/util.cpp`, `common/macros.h`, `utils/errors.hpp`: wrappers without
  state. The tools `query_order.cpp` and `output_diff.cpp`: single-threaded
  printing.
* Timed `offer`, `poll` and `get`: no code calls them and they do not compile
  when called.
* Integer overflow of volumes and ids: the data keeps far below 2^31.
* What a trader sends from the cache files of a dump that was cut short, read with
  load_mode 1: the model has the start and the reads, the code does not notice,
  and no property speaks of it, as "have cache file" (`config.cpp:20`) leaves it
  to the operator.
* A reset of the network while messages are under way: no document says what
  becomes of them.
* A second stop command, which spins for ever (`order_sender.cpp:27`): the model
  shows it, no document promises otherwise.

## 7. Plan

1. `ImplementsRules`, for all instances: the rules would have to be stated
   without recursion.
2. `TypeOK` of `TradingSystem`, with the invariant of `OrderFlow` stated for all
   stocks at once in place of the instance for one.
