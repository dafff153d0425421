------------------------- MODULE NetworkResetProofs -------------------------
(***************************************************************************)
(* Changing the ports of a running system keeps every trader's stream of   *)
(* messages whole and never binds a port twice, for any traders, any       *)
(* sequence of network files and any number of messages.                   *)
(***************************************************************************)
EXTENDS NetworkReset, SequenceTheorems, TLAPS

Port(t) == Files[file][t]
Sent(t) == [i \in 1 .. next[t] - 1 |-> <<t, i>>]

(* Outside a reset all processes use the file in place. *)
Settled ==
  /\ \A x \in Processes : loaded[x] = file
  /\ rebinding = {}
  /\ \A t \in Traders : bound[t] = Port(t) /\ channel[t] = Port(t) /\ peer[t] \in {None, Port(t)}

(* During one everything stands still and nothing is under way; a process   *)
(* that has loaded the file in place uses it, and the exchange has given up *)
(* all old ports before it takes the first new one.                         *)
Resetting ==
  /\ stopped = Processes /\ Drained
  /\ \A t \in Traders : loaded[t] = file => channel[t] = Port(t) /\ peer[t] = None
  /\ rebinding # {} => loaded[Exchange] # file
  /\ rebinding # {} \/ loaded[Exchange] = file =>
       \A t \in Traders : bound[t] = IF t \in rebinding THEN None ELSE Port(t)

ControlInv ==
  /\ IF operator = "reset" THEN Resetting ELSE Settled
  /\ operator = "stop" /\ stopped # {} => file < Len(Files)
  /\ ~aborted

(* What a trader sent is received, in its socket, or in the pipe to its     *)
(* port, in this order; no other pipe of it has anything.                   *)
StreamInv(t) ==
  /\ received[t] \o UnderWay(t, Port(t)) = Sent(t)
  /\ \A q \in Ports \ {Port(t)} : pipe[t][q] = <<>>

ResetInv == TypeOK /\ ControlInv /\ \A t \in Traders : StreamInv(t)

(* Concatenation is associative. *)
Assoc(T) == \A a, b, c \in Seq(T) : (a \o b) \o c = a \o (b \o c)

LEMMA Associative ==
  ASSUME NEW T
  PROVE  Assoc(T)
  BY ConcatAssociative, SMTT(30) DEF Assoc

-----------------------------------------------------------------------------
(* A network file gives every trader a port of its own. *)
LEMMA FilePorts ==
  ASSUME NEW v \in DOMAIN Files
  PROVE  /\ Files[v] \in [Traders -> Ports] /\ \A t \in Traders : Files[v][t] \in Ports \ {None}
         /\ \A t, u \in Traders : Files[v][t] = Files[v][u] => t = u
         /\ v \in Nat /\ (v < Len(Files) => v + 1 \in DOMAIN Files)
<1>1. Files \in Seq([Traders -> Ports]) /\ DOMAIN Files = 1 .. Len(Files) /\ Len(Files) \in Nat
  BY FilesAssumption
<1>2. Files[v] \in [Traders -> Ports] /\ v \in Nat /\ (v < Len(Files) => v + 1 \in DOMAIN Files)
  BY <1>1
<1> QED  BY <1>2, FilesAssumption

(* The states of a run are typed. *)
LEMMA TypeStep == ResetInv /\ [Next]_vars => TypeOK'
<1> SUFFICES ASSUME ResetInv, [Next]_vars PROVE TypeOK'
  OBVIOUS
<1>0. TypeOK /\ file \in DOMAIN Files
  BY DEF ResetInv, TypeOK
<1>1. ASSUME NEW t \in Traders, send(t) PROVE TypeOK'
  <2> DEFINE p == peer'[t]  m == <<t, next[t]>>
  <2>1. p \in Ports /\ m \in Messages /\ pipe' = [pipe EXCEPT ![t][p] = Append(@, m)]
    <3>1. p \in Ports \cup {None} /\ p # None
      BY <1>0, <1>1 DEF send, TypeOK
    <3>2. next[t] \in 1 .. MsgNum
      BY <1>0, <1>1, FilesAssumption DEF send, TypeOK
    <3> QED  BY <1>1, <3>1, <3>2 DEF send, Messages
  <2>2. peer' \in [Traders -> Ports \cup {None}] /\ connected' = {u \in Traders : peer'[u] # None}
    BY <1>0, <1>1, SMTT(30) DEF send, TypeOK
  <2>3. next' \in [Traders -> 1 .. MsgNum + 1]
    <3>1. next[t] + 1 \in 1 .. MsgNum + 1
      <4>1. next[t] \in 1 .. MsgNum + 1 /\ next[t] <= MsgNum
        BY <1>0, <1>1 DEF send, TypeOK
      <4>2. MsgNum \in Nat
        BY FilesAssumption
      <4> QED  BY <4>1, <4>2
    <3> QED  BY <1>0, <1>1, <3>1 DEF send, TypeOK
  <2> HIDE DEF p, m
  <2>4. pipe' \in [Traders -> [Ports -> Seq(Messages)]]
    <3>1. Append(pipe[t][p], m) \in Seq(Messages)
      <4>1. pipe[t][p] \in Seq(Messages)
        BY <1>0, <2>1 DEF TypeOK
      <4> QED  BY <2>1, <4>1
    <3> QED  BY <1>0, <2>1, <3>1 DEF TypeOK
  <2> QED  BY <1>0, <1>1, <2>2, <2>3, <2>4, SMTT(30) DEF send, TypeOK, commands, receiver
<1>2. ASSUME NEW t \in Traders, NEW p \in Ports, cross(t, p) PROVE TypeOK'
  <2>1. PICK u \in Traders : inbox' = [inbox EXCEPT ![u] = Append(@, Head(pipe[t][p]))]
    BY <1>2, Zenon DEF cross
  <2>2. Head(pipe[t][p]) \in Messages /\ Tail(pipe[t][p]) \in Seq(Messages)
    <3>1. pipe[t][p] \in Seq(Messages) /\ pipe[t][p] # <<>>
      BY <1>0, <1>2 DEF cross, TypeOK
    <3> QED  BY <3>1, HeadTailProperties
  <2>3. inbox' \in [Traders -> Seq(Messages)]
    <3>1. inbox[u] \in Seq(Messages)
      BY <1>0 DEF TypeOK
    <3>2. Append(inbox[u], Head(pipe[t][p])) \in Seq(Messages)
      BY <2>2, <3>1, AppendProperties
    <3> QED  BY <1>0, <2>1, <3>2 DEF TypeOK
  <2>4. pipe' \in [Traders -> [Ports -> Seq(Messages)]]
    BY <1>0, <1>2, <2>2, Zenon DEF cross, TypeOK
  <2> QED  BY <1>0, <1>2, <2>3, <2>4, Zenon DEF cross, TypeOK, commands, senders, receiver
<1>3. ASSUME NEW t \in Traders, tryrecv(t) PROVE TypeOK'
  <2>1. inbox[t] \in Seq(Messages) /\ inbox[t] # <<>> /\ received[t] \in Seq(Messages)
    BY <1>0, <1>3 DEF tryrecv, TypeOK
  <2>2. Head(inbox[t]) \in Messages /\ Tail(inbox[t]) \in Seq(Messages)
    BY <2>1, HeadTailProperties
  <2>3. Append(received[t], Head(inbox[t])) \in Seq(Messages)
    BY <2>1, <2>2, AppendProperties
  <2>4. received' \in [Traders -> Seq(Messages)] /\ inbox' \in [Traders -> Seq(Messages)]
    BY <1>0, <1>3, <2>2, <2>3 DEF tryrecv, TypeOK
  <2> QED  BY <1>0, <1>3, <2>4, SMTT(30) DEF tryrecv, TypeOK, commands, senders
<1>4. ASSUME NEW t \in Traders, run_stops(t) PROVE TypeOK'
  BY <1>0, <1>4 DEF run_stops, TypeOK, Processes, senders, receiver
<1>5. ASSUME NEW t \in Traders, resetSender(t) PROVE TypeOK'
  <2>1. load_network_config(t) \in Ports
    BY <1>0, FilePorts DEF load_network_config
  <2>2. channel' \in [Traders -> Ports] /\ peer' \in [Traders -> Ports \cup {None}]
    BY <1>0, <1>5, <2>1 DEF resetSender, TypeOK
  <2>3. connected' = {u \in Traders : peer'[u] # None}
    BY <1>0, <1>5 DEF resetSender, TypeOK
  <2>4. loaded' \in [Processes -> DOMAIN Files]
    BY <1>0, <1>5 DEF resetSender, TypeOK, Processes
  <2> QED  BY <1>0, <1>5, <2>2, <2>3, <2>4 DEF resetSender, TypeOK, commands, receiver
<1>6. ASSUME NEW t \in Traders, bind(t) PROVE TypeOK'
  <2>1. load_network_config(t) \in Ports
    BY <1>0, FilePorts DEF load_network_config
  <2>2. bound' \in [Traders -> Ports \cup {None}] /\ aborted' \in BOOLEAN
    BY <1>0, <1>6, <2>1 DEF bind, TypeOK
  <2>3. loaded' \in [Processes -> DOMAIN Files]
    BY <1>0, <1>6 DEF bind, TypeOK, Processes
  <2> QED  BY <1>0, <1>6, <2>2, <2>3, Zenon DEF bind, TypeOK, commands, senders
<1>7. CASE run_stopr
  <2>1. file < Len(Files)
    BY <1>7, FilesAssumption DEF run_stopr, ResetInv, ControlInv
  <2>2. file + 1 \in DOMAIN Files
    BY <1>0, <2>1, FilePorts
  <2> QED  BY <1>0, <1>7, <2>2 DEF run_stopr, TypeOK, senders, receiver
<1>8. CASE unbindAll
  BY <1>0, <1>8 DEF unbindAll, TypeOK, commands, senders
<1>9. ASSUME NEW x \in Processes, run_restart(x) PROVE TypeOK'
  BY <1>0, <1>9 DEF run_restart, TypeOK, senders, receiver
<1>10. CASE UNCHANGED vars
  BY <1>0, <1>10 DEF vars, TypeOK, commands, senders, receiver
<1> QED  BY <1>1, <1>2, <1>3, <1>4, <1>5, <1>6, <1>7, <1>8, <1>9, <1>10 DEF Next, Operator

-----------------------------------------------------------------------------
(* The operator's steps: no port is bound twice, and a process that is      *)
(* running uses the ports of the file in place.                             *)
LEMMA ControlStep == ResetInv /\ [Next]_vars => ControlInv'
<1> SUFFICES ASSUME ResetInv, [Next]_vars PROVE ControlInv'
  OBVIOUS
<1>0. TypeOK /\ ControlInv /\ file \in DOMAIN Files
  BY DEF ResetInv, TypeOK
<1>1. ASSUME NEW t \in Traders, send(t) PROVE ControlInv'
  <2>1. operator # "reset" /\ operator' = operator
    BY <1>0, <1>1 DEF send, ControlInv, Resetting, Processes, commands
  <2>2. Settled
    BY <1>0, <2>1 DEF ControlInv
  <2>3. Settled'
    BY <1>0, <1>1, <2>2, SMTT(30) DEF send, Settled, Port, TypeOK, commands, receiver
  <2> QED  BY <1>0, <1>1, <2>1, <2>3 DEF send, ControlInv, commands
<1>2. ASSUME NEW t \in Traders, NEW p \in Ports, cross(t, p) PROVE ControlInv'
  <2>1. operator # "reset" /\ operator' = operator
    BY <1>0, <1>2 DEF cross, ControlInv, Resetting, Drained, commands
  <2>2. Settled'
    BY <1>0, <1>2, <2>1 DEF cross, ControlInv, Settled, Port, commands, senders, receiver
  <2> QED  BY <1>0, <1>2, <2>1, <2>2 DEF cross, ControlInv, commands
<1>3. ASSUME NEW t \in Traders, tryrecv(t) PROVE ControlInv'
  <2>1. operator # "reset" /\ operator' = operator
    BY <1>0, <1>3 DEF tryrecv, ControlInv, Resetting, Processes, commands
  <2>2. Settled'
    BY <1>0, <1>3, <2>1 DEF tryrecv, ControlInv, Settled, Port, commands, senders
  <2> QED  BY <1>0, <1>3, <2>1, <2>2 DEF tryrecv, ControlInv, commands
<1>4. ASSUME NEW t \in Traders, run_stops(t) PROVE ControlInv'
  BY <1>0, <1>4 DEF run_stops, ControlInv, Settled, Port, senders, receiver
<1>5. ASSUME NEW t \in Traders, resetSender(t) PROVE ControlInv'
  <2>1. Resetting /\ operator' = "reset"
    BY <1>0, <1>5 DEF resetSender, ControlInv, commands
  <2>2. t # Exchange /\ loaded'[Exchange] = loaded[Exchange]
    BY <1>0, <1>5, FilesAssumption, Zenon DEF resetSender, TypeOK, Processes
  <2>3. ASSUME NEW u \in Traders, loaded'[u] = file' PROVE channel'[u] = Port(u)' /\ peer'[u] = None
    BY <1>0, <1>5, <2>1, <2>3 DEF resetSender, load_network_config, Resetting, Port, TypeOK,
                                   Processes, commands
  <2>4. Resetting'
    BY <1>5, <2>1, <2>2, <2>3 DEF resetSender, Resetting, Drained, Port, commands, receiver
  <2> QED  BY <1>0, <1>5, <2>1, <2>4 DEF resetSender, ControlInv, commands
<1>6. ASSUME NEW t \in Traders, bind(t) PROVE ControlInv'
  <2>1. Resetting /\ operator' = "reset" /\ t \in rebinding /\ loaded[Exchange] # file
    BY <1>0, <1>6 DEF bind, ControlInv, Resetting, Settled, commands
  <2>2. \A u \in Traders : bound[u] = IF u \in rebinding THEN None ELSE Port(u)
    BY <2>1 DEF Resetting
  <2>3. load_network_config(t) = Port(t) /\ Port(t) # None
        /\ \A u \in Traders \ {t} : Port(u) # Port(t)
    BY <1>0, FilePorts DEF load_network_config, Port
  <2>4. ~aborted'
    BY <1>0, <1>6, <2>1, <2>2, <2>3, Zenon DEF bind, ControlInv
  <2>5. \A u \in Traders : bound'[u] = IF u \in rebinding' THEN None ELSE Port(u)'
    BY <1>0, <1>6, <2>2, <2>3, Zenon DEF bind, Port, TypeOK, commands
  <2>6. /\ rebinding' # {} => loaded'[Exchange] # file'
        /\ \A u \in Traders : loaded'[u] = loaded[u]
    BY <1>0, <1>6, <2>1, FilesAssumption DEF bind, TypeOK, Processes, commands
  <2>7. Resetting'
    BY <1>6, <2>1, <2>5, <2>6 DEF bind, Resetting, Drained, Port, commands, senders
  <2> QED  BY <1>0, <1>6, <2>1, <2>4, <2>7 DEF bind, ControlInv, commands
<1>7. CASE run_stopr
  <2>1. Settled /\ operator' = "reset" /\ file' = file + 1 /\ file \in Nat
    BY <1>0, <1>7, FilePorts DEF run_stopr, ControlInv
  <2>2. \A x \in Processes : loaded'[x] # file'
    BY <1>7, <2>1 DEF run_stopr, Settled
  <2>3. Resetting'
    BY <1>7, <2>1, <2>2 DEF run_stopr, Resetting, Settled, Drained, Processes, receiver
  <2> QED  BY <1>0, <1>7, <2>1, <2>3 DEF run_stopr, ControlInv
<1>8. CASE unbindAll
  <2>1. Resetting /\ operator' = "reset" /\ rebinding' = Traders
    BY <1>0, <1>8 DEF unbindAll, ControlInv, commands
  <2>2. Resetting'
    BY <1>8, <2>1, FilesAssumption DEF unbindAll, Resetting, Drained, Port, commands, senders
  <2> QED  BY <1>0, <1>8, <2>1, <2>2 DEF unbindAll, ControlInv, commands
<1>9. ASSUME NEW x \in Processes, run_restart(x) PROVE ControlInv'
  <2>1. Settled
    <3>1. CASE operator = "reset"
      BY <1>0, <1>9, <3>1 DEF run_restart, ControlInv, Resetting, Settled, Processes
    <3>2. CASE operator # "reset"
      BY <1>0, <3>2 DEF ControlInv
    <3> QED  BY <3>1, <3>2
  <2>2. Settled' /\ operator' # "reset" /\ (operator' = "stop" => stopped' = {})
    BY <1>9, <2>1 DEF run_restart, Settled, Port, senders, receiver
  <2> QED  BY <1>0, <1>9, <2>2 DEF run_restart, ControlInv
<1>10. CASE UNCHANGED vars
  BY <1>0, <1>10 DEF vars, ControlInv, Resetting, Settled, Drained, Port, commands, senders, receiver
<1> QED  BY <1>1, <1>2, <1>3, <1>4, <1>5, <1>6, <1>7, <1>8, <1>9, <1>10 DEF Next, Operator

-----------------------------------------------------------------------------
(* A message passed from the front of one queue to the end of the queue     *)
(* before it leaves the line of both as it was.                             *)
LEMMA PassOn ==
  ASSUME NEW S, NEW a \in Seq(S), NEW b \in Seq(S), b # <<>>
  PROVE  Append(a, Head(b)) \o Tail(b) = a \o b
<1> DEFINE h == <<Head(b)>>  d == Tail(b)
<1>1. h \in Seq(S) /\ d \in Seq(S)
  OBVIOUS
<1>2. Append(a, Head(b)) = a \o h
  OBVIOUS
<1>3. h \o d = b
  OBVIOUS
<1> HIDE DEF h, d
<1>4. (a \o h) \o d = a \o (h \o d)
  <2>1. Assoc(S)
    BY Associative
  <2> QED  BY <1>1, <2>1, Zenon DEF Assoc
<1>5. Append(a, Head(b)) \o d = a \o b
  BY <1>2, <1>3, <1>4, Zenon
<1> QED  BY <1>5, SMTT(30) DEF d

(* The types of what belongs to one trader. *)
LEMMA TraderTypes ==
  ASSUME TypeOK, NEW t \in Traders
  PROVE  /\ received[t] \in Seq(Messages) /\ inbox[t] \in Seq(Messages) /\ Port(t) \in Ports
         /\ \A p \in Ports : pipe[t][p] \in Seq(Messages)
         /\ next[t] \in Nat \ {0}
<1>1. Port(t) \in Ports
  BY FilePorts DEF TypeOK, Port
<1>2. next[t] \in 1 .. MsgNum + 1 /\ MsgNum \in Nat
  BY FilesAssumption DEF TypeOK
<1>3. next[t] \in Nat \ {0}
  BY <1>2
<1> QED  BY <1>1, <1>3 DEF TypeOK

(* Nothing changes for a trader that a step does not concern. *)
LEMMA StreamUntouched ==
  ASSUME NEW t, StreamInv(t), received'[t] = received[t], inbox'[t] = inbox[t], pipe'[t] = pipe[t],
         next'[t] = next[t], Port(t)' = Port(t)
  PROVE  StreamInv(t)'
  BY Zenon DEF StreamInv, UnderWay, Sent

(* Every step keeps every trader's stream. *)
LEMMA StreamStep ==
  ASSUME ResetInv, [Next]_vars, NEW w \in Traders
  PROVE  StreamInv(w)'
<1>0. TypeOK /\ ControlInv /\ StreamInv(w) /\ file \in DOMAIN Files
  BY DEF ResetInv, TypeOK
<1>1. ASSUME NEW t \in Traders, send(t) PROVE StreamInv(w)'
  <2>1. operator # "reset" /\ Settled /\ file' = file
    BY <1>0, <1>1 DEF send, ControlInv, Resetting, Processes, commands
  <2>2. peer'[t] = Port(t)
    BY <1>0, <1>1, <2>1 DEF send, Settled, TypeOK
  <2>3. CASE w # t
    BY <1>0, <1>1, <2>1, <2>3, StreamUntouched DEF send, TypeOK, Port, receiver
  <2>4. CASE w = t
    <3> DEFINE r == received[t]  b == inbox[t]  p == pipe[t][Port(t)]  m == <<t, next[t]>>  n == next[t]
    <3>1. r \in Seq(Messages) /\ b \in Seq(Messages) /\ p \in Seq(Messages) /\ Port(t) \in Ports
          /\ n \in Nat \ {0}
      BY <1>0, TraderTypes
    <3>2. m \in Messages
      <4>1. MsgNum \in Nat /\ n <= MsgNum
        BY <1>1, FilesAssumption DEF send
      <4>2. n \in 1 .. MsgNum
        BY <3>1, <4>1
      <4> QED  BY <4>2 DEF Messages
    <3>3. /\ received'[t] = r /\ inbox'[t] = b /\ pipe'[t][Port(t)] = Append(p, m)
          /\ \A q \in Ports \ {Port(t)} : pipe'[t][q] = pipe[t][q]
          /\ next'[t] = n + 1
      BY <1>0, <1>1, <2>2, <3>1, Zenon DEF send, TypeOK, receiver
    <3>4. r \o (b \o p) = [i \in 1 .. n - 1 |-> <<t, i>>]
      BY <1>0, <2>4, Zenon DEF StreamInv, UnderWay, Sent
    <3>5. r \o (b \o Append(p, m)) = Append(r \o (b \o p), m)
      <4> HIDE DEF r, b, p, m, n
      <4>1. r \in Seq(Messages) /\ b \in Seq(Messages) /\ p \in Seq(Messages) /\ m \in Messages
        BY <3>1, <3>2
      <4>2. b \o Append(p, m) = Append(b \o p, m) /\ b \o p \in Seq(Messages)
        BY <4>1
      <4> DEFINE d == b \o p
      <4>3. d \in Seq(Messages)
        BY <4>2
      <4> HIDE DEF d
      <4>4. r \o Append(d, m) = Append(r \o d, m)
        BY <4>1, <4>3, SMTT(30)
      <4> QED  BY <4>2, <4>4 DEF d
    <3>6. Append([i \in 1 .. n - 1 |-> <<t, i>>], <<t, n>>) = [i \in 1 .. n |-> <<t, i>>]
      <4> HIDE DEF n
      <4> QED  BY <3>1
    <3>7. Sent(t)' = [i \in 1 .. n |-> <<t, i>>]
      <4>1. Sent(t)' = [i \in 1 .. (n + 1) - 1 |-> <<t, i>>]
        BY <3>3 DEF Sent
      <4>2. (n + 1) - 1 = n
        BY <3>1
      <4> QED  BY <4>1, <4>2
    <3>8. received'[t] \o UnderWay(t, Port(t))' = Sent(t)'
      BY <2>1, <3>3, <3>4, <3>5, <3>6, <3>7, Zenon DEF UnderWay, Port
    <3>9. Port(t)' = Port(t)
      BY <2>1 DEF Port
    <3> QED  BY <1>0, <2>4, <3>3, <3>8, <3>9 DEF StreamInv
  <2> QED  BY <2>3, <2>4
<1>2. ASSUME NEW t \in Traders, NEW p \in Ports, cross(t, p) PROVE StreamInv(w)'
  <2>1. operator # "reset" /\ Settled /\ Port(w)' = Port(w)
    BY <1>0, <1>2 DEF cross, ControlInv, Resetting, Drained, Port, commands
  <2>2. p = Port(t) /\ pipe[t][p] # <<>>
    BY <1>2 DEF cross, ResetInv, StreamInv
  <2>3. inbox' = [inbox EXCEPT ![t] = Append(@, Head(pipe[t][p]))]
    <3>1. PICK u \in Traders : bound[u] = p /\ inbox' = [inbox EXCEPT ![u] = Append(@, Head(pipe[t][p]))]
      BY <1>2, Zenon DEF cross
    <3>2. u = t
      BY <1>0, <2>1, <2>2, <3>1, FilePorts DEF Settled, Port
    <3> QED  BY <3>1, <3>2
  <2>4. CASE w # t
    BY <1>0, <1>2, <2>1, <2>3, <2>4, StreamUntouched DEF cross, TypeOK, senders, receiver
  <2>5. CASE w = t
    <3> DEFINE r == received[t]  b == inbox[t]  c == pipe[t][p]
    <3>1. r \in Seq(Messages) /\ b \in Seq(Messages) /\ c \in Seq(Messages) /\ c # <<>>
      BY <1>0, <2>2, TraderTypes
    <3>2. /\ received'[t] = r /\ inbox'[t] = Append(b, Head(c)) /\ pipe'[t][p] = Tail(c)
          /\ \A q \in Ports \ {p} : pipe'[t][q] = pipe[t][q]
          /\ next'[t] = next[t]
      BY <1>0, <1>2, <2>3, ZenonT(30) DEF cross, TypeOK, senders, receiver
    <3>3. Append(b, Head(c)) \o Tail(c) = b \o c
      <4> HIDE DEF b, c
      <4> QED  BY <3>1, PassOn
    <3>4. received'[t] \o UnderWay(t, Port(t))' = received[t] \o UnderWay(t, Port(t))
      BY <2>1, <2>2, <2>5, <3>2, <3>3, Zenon DEF UnderWay
    <3> QED  BY <1>0, <2>1, <2>2, <2>5, <3>2, <3>4, Zenon DEF StreamInv, Sent
  <2> QED  BY <2>4, <2>5
<1>3. ASSUME NEW t \in Traders, tryrecv(t) PROVE StreamInv(w)'
  <2>1. Port(w)' = Port(w)
    BY <1>3 DEF tryrecv, Port, commands
  <2>2. CASE w # t
    BY <1>0, <1>3, <2>1, <2>2, StreamUntouched DEF tryrecv, TypeOK, senders
  <2>3. CASE w = t
    <3> DEFINE r == received[t]  b == inbox[t]  c == pipe[t][Port(t)]
    <3>1. r \in Seq(Messages) /\ b \in Seq(Messages) /\ c \in Seq(Messages) /\ b # <<>>
      BY <1>0, <1>3, TraderTypes DEF tryrecv
    <3>2. received'[t] = Append(r, Head(b)) /\ inbox'[t] = Tail(b) /\ pipe' = pipe /\ next' = next
      BY <1>0, <1>3 DEF tryrecv, TypeOK, senders
    <3>3. Append(r, Head(b)) \o (Tail(b) \o c) = r \o (b \o c)
      <4> HIDE DEF r, b, c
      <4>1. Append(r, Head(b)) \in Seq(Messages) /\ Tail(b) \in Seq(Messages)
        BY <3>1
      <4> DEFINE x == Append(r, Head(b))  y == Tail(b)
      <4>2. x \o y = r \o b
        BY <3>1, PassOn, SMTT(30)
      <4>3. x \in Seq(Messages) /\ y \in Seq(Messages)
        BY <4>1
      <4> HIDE DEF x, y
      <4>4. (x \o y) \o c = x \o (y \o c)
        <5>1. Assoc(Messages)
          BY Associative
        <5>2. x \in Seq(Messages) /\ y \in Seq(Messages) /\ c \in Seq(Messages)
          BY <3>1, <4>3
        <5> QED  BY <5>1, <5>2, Zenon DEF Assoc
      <4>5. (r \o b) \o c = r \o (b \o c)
        <5>1. Assoc(Messages)
          BY Associative
        <5> QED  BY <3>1, <5>1, Zenon DEF Assoc
      <4>6. x \o (y \o c) = r \o (b \o c)
        BY <4>2, <4>4, <4>5, Zenon
      <4> QED  BY <4>6, Zenon DEF x, y
    <3>4. received'[t] \o UnderWay(t, Port(t))' = received[t] \o UnderWay(t, Port(t))
      BY <2>1, <2>3, <3>2, <3>3, Zenon DEF UnderWay
    <3> QED  BY <1>0, <2>1, <2>3, <3>2, <3>4, Zenon DEF StreamInv, Sent
  <2> QED  BY <2>2, <2>3
<1>4. ASSUME NEW t \in Traders, run_stops(t) \/ resetSender(t) \/ bind(t) PROVE StreamInv(w)'
  BY <1>0, <1>4, StreamUntouched DEF run_stops, resetSender, bind, Port, commands, senders, receiver
<1>5. CASE run_stopr
  <2>1. /\ inbox[w] = <<>> /\ inbox' = inbox /\ received' = received /\ pipe' = pipe
        /\ \A p \in Ports : pipe[w][p] = <<>>
        /\ next' = next
    BY <1>5 DEF run_stopr, Drained, senders, receiver
  <2>2. Port(w) \in Ports /\ Port(w)' \in Ports
    <3>1. file' \in DOMAIN Files
      BY TypeStep DEF TypeOK
    <3> QED  BY <1>0, <3>1, FilePorts DEF Port
  <2> QED  BY <1>0, <2>1, <2>2, Zenon DEF StreamInv, UnderWay, Sent
<1>6. CASE unbindAll
  <2>1. inbox[w] = <<>> /\ inbox'[w] = <<>> /\ Port(w)' = Port(w)
    BY <1>0, <1>6 DEF unbindAll, ControlInv, Resetting, Drained, Port, commands
  <2> QED  BY <1>0, <1>6, <2>1, StreamUntouched DEF unbindAll, senders
<1>7. ASSUME NEW x \in Processes, run_restart(x) PROVE StreamInv(w)'
  BY <1>0, <1>7, StreamUntouched DEF run_restart, Port, senders, receiver
<1>8. CASE UNCHANGED vars
  BY <1>0, <1>8, StreamUntouched DEF vars, Port, commands, senders, receiver
<1> QED  BY <1>1, <1>2, <1>3, <1>4, <1>5, <1>6, <1>7, <1>8 DEF Next, Operator

-----------------------------------------------------------------------------
(* The invariant holds in every state. *)
THEOREM ResetInvariant == Spec => []ResetInv
<1>1. Init => ResetInv
  <2> SUFFICES ASSUME Init PROVE ResetInv
    OBVIOUS
  <2>1. 1 \in DOMAIN Files /\ MsgNum \in Nat /\ file = 1
    BY FilesAssumption DEF Init
  <2>2. Files[1] \in [Traders -> Ports] /\ \A t \in Traders : Files[1][t] \in Ports \ {None}
    BY <2>1, FilePorts
  <2>3. TypeOK
    <3>1. 1 \in 1 .. MsgNum + 1
      BY <2>1
    <3>2. /\ file \in DOMAIN Files /\ loaded \in [Processes -> DOMAIN Files]
          /\ next \in [Traders -> 1 .. MsgNum + 1]
          /\ channel \in [Traders -> Ports] /\ bound \in [Traders -> Ports \cup {None}]
      BY <2>1, <2>2, <3>1 DEF Init
    <3>3. /\ peer \in [Traders -> Ports \cup {None}] /\ connected = {t \in Traders : peer[t] # None}
          /\ inbox \in [Traders -> Seq(Messages)] /\ received \in [Traders -> Seq(Messages)]
      BY DEF Init
    <3>4. pipe \in [Traders -> [Ports -> Seq(Messages)]]
      <4>1. [p \in Ports |-> <<>>] \in [Ports -> Seq(Messages)]
        OBVIOUS
      <4> QED  BY <4>1 DEF Init
    <3> QED  BY <3>2, <3>3, <3>4, Zenon DEF Init, TypeOK
  <2>4. ControlInv
    BY <2>1 DEF Init, ControlInv, Settled, Port
  <2>5. ASSUME NEW t \in Traders PROVE StreamInv(t)
    <3>1. Port(t) \in Ports /\ received[t] = <<>> /\ inbox[t] = <<>> /\ next[t] = 1
          /\ \A p \in Ports : pipe[t][p] = <<>>
      BY <2>1, <2>2 DEF Init, Port
    <3>2. <<>> \o (<<>> \o <<>>) = <<>> /\ [i \in 1 .. 1 - 1 |-> <<t, i>>] = <<>>
      OBVIOUS
    <3> QED  BY <3>1, <3>2 DEF StreamInv, UnderWay, Sent
  <2> QED  BY <2>3, <2>4, <2>5 DEF ResetInv
<1>2. ResetInv /\ [Next]_vars => ResetInv'
  <2> SUFFICES ASSUME ResetInv, [Next]_vars PROVE ResetInv'
    OBVIOUS
  <2>1. TypeOK' /\ ControlInv'
    BY TypeStep, ControlStep
  <2>2. ASSUME NEW t \in Traders PROVE StreamInv(t)'
    BY StreamStep
  <2> QED  BY <2>1, <2>2 DEF ResetInv
<1> QED  BY <1>1, <1>2, PTL DEF Spec

(* However often the ports change, and also when a trader gets the port     *)
(* another one had, every message of a trader is received once, in order,   *)
(* on its own socket, or is still under way there.                          *)
THEOREM ResetKeepsStreams == Spec => []StreamKept
<1>1. ResetInv => StreamKept
  <2> SUFFICES ASSUME ResetInv, NEW t \in Traders
               PROVE  \E p \in Ports :
                        /\ received[t] \o UnderWay(t, p) = [i \in 1 .. next[t] - 1 |-> <<t, i>>]
                        /\ \A q \in Ports \ {p} : pipe[t][q] = <<>>
    BY Zenon DEF StreamKept
  <2>1. Port(t) \in Ports
    BY TraderTypes DEF ResetInv
  <2> QED  BY <2>1, Zenon DEF ResetInv, StreamInv, Sent
<1> QED  BY <1>1, ResetInvariant, PTL

(* reset_port() never binds a port that one of its own sockets still holds. *)
THEOREM RebindingNeverThrows == Spec => []PortsFree
<1>1. ResetInv => PortsFree
  BY DEF ResetInv, ControlInv, PortsFree
<1> QED  BY <1>1, ResetInvariant, PTL
=============================================================================
