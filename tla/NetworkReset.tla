---------------------------- MODULE NetworkReset ----------------------------
(***************************************************************************)
(* How the ports of running traders and an exchange are changed: the       *)
(* operator stops the senders and the receiver, puts a new network file in *)
(* place, gives reset-net to every process and restarts them (run_reset in *)
(* common/console.hpp, load_network_config in common/config.h, reset_port  *)
(* and send of network/).  Every trader sends to a socket of its own of    *)
(* the exchange's MessageReceiver; PauseControl has the locks.             *)
(*                                                                         *)
(* Sockets, external: connect makes a pipe, in which messages wait until   *)
(* the port is bound and then cross one by one, in order; disconnect lets  *)
(* the pipe linger; unbind discards what the socket has not been asked     *)
(* for; binding a port that is bound throws.                               *)
(***************************************************************************)
EXTENDS Integers, Sequences, FiniteSets

CONSTANTS
  Traders,
  Files,      \* the network files in turn: sequence of functions from traders to ports
  MsgNum      \* bound: every trader sends the messages 1 .. MsgNum

Ports == UNION {{Files[v][t] : t \in Traders} : v \in DOMAIN Files}
None == 0
Exchange == 0
Processes == Traders \cup {Exchange}

ASSUME FilesAssumption ==
  /\ Files \in Seq([Traders -> Ports]) /\ Files # <<>>
  /\ Traders # {} /\ MsgNum \in Nat
  /\ None \notin Ports /\ Exchange \notin Traders
  /\ \A v \in DOMAIN Files : \A t, u \in Traders : t # u => Files[v][t] # Files[v][u]

VARIABLES
  operator,   \* what the operator is doing: "stop", "reset" or "restart" processes
  file,       \* the network file in place
  stopped,    \* the traders whose sender, and the exchange if its receiver, is stopped
  loaded,     \* per process: the file that reset-net last loaded
  next,       \* per trader: the next message to send
  channel,    \* per trader: MessageSender::channel
  connected,  \* the traders with MessageSender::connected
  peer,       \* per trader: the port its socket is connected to, or None
  pipe,       \* per trader and port: messages taken by the socket, not yet across
  bound,      \* per trader: the port its receiving socket is bound to, or None
  rebinding,  \* the traders whose receiving socket reset_port() has still to bind
  inbox,      \* per trader: what its receiving socket holds
  received,   \* per trader: what the exchange has received on its socket
  aborted     \* a bind has thrown

commands == <<operator, file, stopped>>
senders == <<next, channel, connected, peer>>
receiver == <<bound, rebinding, received>>
vars == <<commands, loaded, senders, pipe, receiver, inbox, aborted>>

Init ==
  /\ operator = "stop"
  /\ file = 1
  /\ stopped = {}
  /\ loaded = [x \in Processes |-> 1]
  /\ next = [t \in Traders |-> 1]
  /\ channel = Files[1]
  /\ connected = {}
  /\ peer = [t \in Traders |-> None]
  /\ pipe = [t \in Traders |-> [p \in Ports |-> <<>>]]
  /\ bound = Files[1]
  /\ rebinding = {}
  /\ inbox = [t \in Traders |-> <<>>]
  /\ received = [t \in Traders |-> <<>>]
  /\ aborted = FALSE

(* The first channel of a trader in the file that reset-net loads. *)
load_network_config(t) == Files[file][t]

-----------------------------------------------------------------------------
(* The threads and the sockets *)

(* send() connects on demand; without a connection the socket takes no      *)
(* message and the thread tries again.                                      *)
send(t) ==
  /\ t \notin stopped
  /\ next[t] <= MsgNum
  /\ connected' = connected \cup {t}
  /\ peer' = [peer EXCEPT ![t] = IF t \in connected THEN @ ELSE channel[t]]
  /\ peer'[t] # None
  /\ pipe' = [pipe EXCEPT ![t][peer'[t]] = Append(@, <<t, next[t]>>)]
  /\ next' = [next EXCEPT ![t] = @ + 1]
  /\ UNCHANGED <<commands, loaded, channel, receiver, inbox, aborted>>

cross(t, p) ==
  /\ pipe[t][p] # <<>>
  /\ \E u \in Traders :
       /\ bound[u] = p
       /\ inbox' = [inbox EXCEPT ![u] = Append(@, Head(pipe[t][p]))]
  /\ pipe' = [pipe EXCEPT ![t][p] = Tail(@)]
  /\ UNCHANGED <<commands, loaded, senders, receiver, aborted>>

tryrecv(u) ==
  /\ Exchange \notin stopped
  /\ inbox[u] # <<>>
  /\ received' = [received EXCEPT ![u] = Append(@, Head(inbox[u]))]
  /\ inbox' = [inbox EXCEPT ![u] = Tail(@)]
  /\ UNCHANGED <<commands, loaded, senders, pipe, bound, rebinding, aborted>>

-----------------------------------------------------------------------------
(* The operator: stops on every trader, a pause, stopr and the new file,    *)
(* reset-net everywhere, restart everywhere.                                *)

(* A sender that has sent nothing is not connected, and its reset_port()    *)
(* would throw: the operator waits for a message of every trader.           *)
run_stops(t) ==
  /\ operator = "stop" /\ file < Len(Files)
  /\ connected = Traders
  /\ t \notin stopped
  /\ stopped' = stopped \cup {t}
  /\ UNCHANGED <<operator, file, loaded, senders, pipe, receiver, inbox, aborted>>

(* All that was sent has been received. *)
Drained ==
  \A t \in Traders : inbox[t] = <<>> /\ \A p \in Ports : pipe[t][p] = <<>>

run_stopr ==
  /\ operator = "stop"
  /\ stopped = Traders
  /\ Drained
  /\ stopped' = Processes
  /\ file' = file + 1
  /\ operator' = "reset"
  /\ UNCHANGED <<loaded, senders, pipe, receiver, inbox, aborted>>

(* Mutant of resetSender: connected stays set. *)
resetSenderConnected(t) ==
  /\ operator = "reset"
  /\ loaded[t] # file
  /\ peer' = [peer EXCEPT ![t] = None]
  /\ channel' = [channel EXCEPT ![t] = load_network_config(t)]
  /\ loaded' = [loaded EXCEPT ![t] = file]
  /\ UNCHANGED <<commands, next, connected, pipe, receiver, inbox, aborted>>

(* Mutant of resetSender: the socket keeps its old channel. *)
resetSenderOld(t) ==
  /\ operator = "reset"
  /\ loaded[t] # file
  /\ peer' = [peer EXCEPT ![t] = None]
  /\ connected' = connected \ {t}
  /\ loaded' = [loaded EXCEPT ![t] = file]
  /\ UNCHANGED <<commands, next, channel, pipe, receiver, inbox, aborted>>

(* reset-net on a trader: MessageSender::reset_port. *)
resetSender(t) ==
  /\ operator = "reset"
  /\ loaded[t] # file
  /\ peer' = [peer EXCEPT ![t] = None]
  /\ connected' = connected \ {t}
  /\ channel' = [channel EXCEPT ![t] = load_network_config(t)]
  /\ loaded' = [loaded EXCEPT ![t] = file]
  /\ UNCHANGED <<commands, next, pipe, receiver, inbox, aborted>>

(* Mutant of unbindAll: each port is given up only when its socket gets the *)
(* new one.                                                                 *)
unbindNone ==
  /\ operator = "reset"
  /\ loaded[Exchange] # file /\ rebinding = {}
  /\ rebinding' = Traders
  /\ UNCHANGED <<commands, loaded, senders, pipe, bound, received, inbox, aborted>>

(* reset-net on the exchange: MessageReceiver::reset_port unbinds all its   *)
(* sockets ...                                                              *)
unbindAll ==
  /\ operator = "reset"
  /\ loaded[Exchange] # file /\ rebinding = {}
  /\ bound' = [u \in Traders |-> None]
  /\ inbox' = [u \in Traders |-> <<>>]
  /\ rebinding' = Traders
  /\ UNCHANGED <<commands, loaded, senders, pipe, received, aborted>>

(* ... and binds them again one by one, in order. *)
bind(u) ==
  /\ u \in rebinding /\ \A w \in rebinding : u <= w
  /\ aborted' = (aborted \/ load_network_config(u) \in {bound[w] : w \in Traders})
  /\ bound' = [bound EXCEPT ![u] = load_network_config(u)]
  /\ rebinding' = rebinding \ {u}
  /\ loaded' = [loaded EXCEPT ![Exchange] = IF rebinding = {u} THEN file ELSE @]
  /\ UNCHANGED <<commands, senders, pipe, received, inbox>>

run_restart(x) ==
  /\ operator \in {"reset", "restart"}
  /\ \A y \in Processes : loaded[y] = file
  /\ x \in stopped
  /\ stopped' = stopped \ {x}
  /\ operator' = IF stopped = {x} THEN "stop" ELSE "restart"
  /\ UNCHANGED <<file, loaded, senders, pipe, receiver, inbox, aborted>>

-----------------------------------------------------------------------------
Operator ==
  \/ \E t \in Traders : run_stops(t) \/ resetSender(t) \/ bind(t)
  \/ run_stopr \/ unbindAll
  \/ \E x \in Processes : run_restart(x)

Next ==
  \/ \E t \in Traders : send(t) \/ tryrecv(t) \/ \E p \in Ports : cross(t, p)
  \/ Operator

Spec == Init /\ [][Next]_vars

(* The threads run, what waits in a pipe crosses once the port is bound,    *)
(* and the operator finishes a reset that they began.                       *)
FairSpec ==
  /\ Spec
  /\ \A t \in Traders : /\ WF_vars(send(t))
                        /\ WF_vars(tryrecv(t))
                        /\ \A p \in Ports : WF_vars(cross(t, p))
  /\ WF_vars(stopped # {} /\ Operator)

-----------------------------------------------------------------------------
Messages == Traders \X (1 .. MsgNum)

TypeOK ==
  /\ operator \in {"stop", "reset", "restart"}
  /\ file \in DOMAIN Files /\ loaded \in [Processes -> DOMAIN Files]
  /\ stopped \subseteq Processes
  /\ next \in [Traders -> 1 .. MsgNum + 1]
  /\ channel \in [Traders -> Ports] /\ peer \in [Traders -> Ports \cup {None}]
  /\ connected = {t \in Traders : peer[t] # None}
  /\ pipe \in [Traders -> [Ports -> Seq(Messages)]]
  /\ bound \in [Traders -> Ports \cup {None}]
  /\ rebinding \subseteq Traders
  /\ inbox \in [Traders -> Seq(Messages)] /\ received \in [Traders -> Seq(Messages)]
  /\ aborted \in BOOLEAN

(* The messages sent by t that have not been received are in the socket or  *)
(* in one pipe.                                                             *)
UnderWay(t, p) == inbox[t] \o pipe[t][p]

(* Changing the ports loses no message, repeats none, keeps their order and *)
(* takes none to another trader's socket, even when the new file gives a    *)
(* trader the port that another one had.                                    *)
StreamKept ==
  \A t \in Traders : \E p \in Ports :
    /\ received[t] \o UnderWay(t, p) = [i \in 1 .. next[t] - 1 |-> <<t, i>>]
    /\ \A q \in Ports \ {p} : pipe[t][q] = <<>>

(* reset_port() never binds a port that one of its own sockets still holds. *)
PortsFree == ~aborted

(* After any number of resets all messages arrive. *)
AllReceived == <>[](\A t \in Traders : Len(received[t]) = MsgNum)
=============================================================================
