------------------------ MODULE TradeReceiverProofs ------------------------
(***************************************************************************)
(* TradeReceiver writes the trades of a stock in order and loses at most a *)
(* batch of them in an abrupt end, and the controller learns of the hooked *)
(* ones, for any stocks, hooks, batch size and number of trades.           *)
(***************************************************************************)
EXTENDS TradeReceiver, SequenceTheorems, TLAPS

(* The part of the assumption that arithmetic needs. *)
LEMMA Bounds == TRADE_BUF_THRESHOLD \in Nat \ {0} /\ Volumes \subseteq Nat
  BY ReceiverAssumption

(* Concatenation is associative. *)
Assoc(T) == \A a, b, c \in Seq(T) : (a \o b) \o c = a \o (b \o c)

LEMMA Associative ==
  ASSUME NEW T
  PROVE  Assoc(T)
  BY ConcatAssociative, SMTT(30) DEF Assoc

(* The thread is at p with a trade of s. *)
At(p, s) == pc = p /\ trade.stk_code = s

(* Between "recv" and the end of the loop there is a trade in hand, and     *)
(* trades are numbered as they come.                                        *)
ThreadInv ==
  /\ TypeOK
  /\ pc # "recv" => trade \in [stk_code : Stocks, volume : Volumes]
  /\ \A s \in Stocks : trade_idxs_[s] = Len(received[s]) + 1

(* The trades of s up to now are those in the file, then those in the       *)
(* buffer, then the one in hand; only between its writing and its clearing  *)
(* the buffer repeats the end of the file.                                  *)
Hand(s) == IF At("push", s) THEN <<trade.volume>> ELSE <<>>

Stream(s) ==
  received[s] = IF At("clear", s) THEN file[s] ELSE file[s] \o (trade_buffer_[s] \o Hand(s))

(* A full buffer is written before the next trade comes. *)
Fits(s) ==
  \/ At("clear", s)
  \/ At("write", s) /\ Len(trade_buffer_[s]) = TRADE_BUF_THRESHOLD
  \/ ~At("write", s) /\ Len(trade_buffer_[s]) < TRADE_BUF_THRESHOLD

StreamInv == status = "running" => \A s \in Stocks : Stream(s) /\ Fits(s)

(* What an abrupt end leaves. *)
EndInv ==
  status = "aborted" => \A s \in Stocks :
    /\ IsPrefix(file[s], received[s])
    /\ Len(received[s]) <= Len(file[s]) + TRADE_BUF_THRESHOLD

ReceiverInv == ThreadInv /\ HooksFollowTrades /\ StreamInv /\ EndInv

-----------------------------------------------------------------------------
(* What a sequence starts with is a prefix of it. *)
LEMMA PrefixOfConcat ==
  ASSUME NEW S, NEW f \in Seq(S), NEW g \in Seq(S)
  PROVE  IsPrefix(f, f \o g)
<1>1. /\ Len(f \o g) = Len(f) + Len(g) /\ f \o g \in Seq(S)
      /\ \A i \in 1 .. Len(f) : (f \o g)[i] = f[i]
  OBVIOUS
<1>2. SubSeq(f, 1, Len(f)) = f /\ SubSeq(f \o g, 1, Len(f)) = f
  BY <1>1
<1> QED  BY <1>1, <1>2 DEF IsPrefix

(* A sequence can be cut anywhere. *)
LEMMA CutSequence ==
  ASSUME NEW S, NEW b \in Seq(S), NEW n \in 0 .. Len(b)
  PROVE  b = SubSeq(b, 1, n) \o SubSeq(b, n + 1, Len(b))
<1> DEFINE p == SubSeq(b, 1, n)  q == SubSeq(b, n + 1, Len(b))
<1>1. /\ p \in Seq(S) /\ Len(p) = n /\ \A i \in 1 .. n : p[i] = b[i]
      /\ q \in Seq(S) /\ Len(q) = Len(b) - n /\ \A i \in 1 .. Len(b) - n : q[i] = b[n + i]
  OBVIOUS
<1> HIDE DEF p, q
<1>2. Len(p \o q) = Len(b) /\ p \o q \in Seq(S)
  BY <1>1, SMTT(30)
<1>3. ASSUME NEW i \in 1 .. Len(b) PROVE (p \o q)[i] = b[i]
  <2>1. CASE i <= n
    BY <1>1, <2>1
  <2>2. CASE i > n
    <3>1. (p \o q)[i] = q[i - n]
      BY <1>1, <2>2
    <3>2. i - n \in 1 .. Len(b) - n /\ n + (i - n) = i
      BY <2>2
    <3> QED  BY <1>1, <3>1, <3>2
  <2>3. i <= n \/ i > n
    OBVIOUS
  <2> QED  BY <2>1, <2>2, <2>3, Zenon
<1>4. b = p \o q
  BY <1>2, <1>3, SeqEqual, Zenon
<1> QED  BY <1>4, Zenon DEF p, q

(* A file short of a buffer that fits is behind by at most a batch. *)
LEMMA ShortOfBatch ==
  ASSUME NEW S, NEW f \in Seq(S), NEW g \in Seq(S), Len(g) <= TRADE_BUF_THRESHOLD
  PROVE  IsPrefix(f, f \o g) /\ Len(f \o g) <= Len(f) + TRADE_BUF_THRESHOLD
<1>1. Len(f \o g) = Len(f) + Len(g)
  OBVIOUS
<1> QED  BY <1>1, PrefixOfConcat, Bounds

(* The types of what belongs to one stock. *)
LEMMA StockTypes ==
  ASSUME ThreadInv, NEW s \in Stocks
  PROVE  /\ file[s] \in Seq(Volumes) /\ received[s] \in Seq(Volumes)
         /\ trade_buffer_[s] \in Seq(Volumes) /\ Hand(s) \in Seq(Volumes)
         /\ Len(Hand(s)) <= 1 /\ (~At("push", s) => Hand(s) = <<>>)
<1>1. /\ file[s] \in Seq(Volumes) /\ received[s] \in Seq(Volumes)
      /\ trade_buffer_[s] \in Seq(Volumes)
  BY DEF ThreadInv, TypeOK
<1>2. At("push", s) => trade.volume \in Volumes
  BY DEF ThreadInv, At
<1>3. Hand(s) \in Seq(Volumes) /\ Len(Hand(s)) <= 1 /\ (~At("push", s) => Hand(s) = <<>>)
  BY <1>2 DEF Hand
<1> QED  BY <1>1, <1>3

(* While the stream is complete, the file is a prefix of the trades and     *)
(* behind by at most a batch.                                               *)
LEMMA FileBehind ==
  ASSUME ThreadInv, NEW s \in Stocks, Stream(s), Fits(s)
  PROVE  /\ IsPrefix(file[s], received[s])
         /\ Len(received[s]) <= Len(file[s]) + TRADE_BUF_THRESHOLD
<1> DEFINE f == file[s]  r == received[s]  b == trade_buffer_[s]  h == Hand(s)
<1>1. f \in Seq(Volumes) /\ r \in Seq(Volumes) /\ b \in Seq(Volumes) /\ h \in Seq(Volumes)
  BY StockTypes
<1>2. CASE At("clear", s)
  <2>1. r = f \o <<>>
    BY <1>1, <1>2, ConcatEmptySeq DEF Stream
  <2>2. <<>> \in Seq(Volumes) /\ Len(<<>>) <= TRADE_BUF_THRESHOLD
    BY Bounds
  <2> HIDE DEF f
  <2>3. IsPrefix(f, f \o <<>>) /\ Len(f \o <<>>) <= Len(f) + TRADE_BUF_THRESHOLD
    BY <1>1, <2>2, ShortOfBatch, Zenon
  <2> QED  BY <2>1, <2>3 DEF f
<1>3. CASE ~At("clear", s)
  <2>1. r = f \o (b \o h)
    BY <1>3, Zenon DEF Stream
  <2>2. Len(b) + Len(h) <= TRADE_BUF_THRESHOLD
    <3>1. Len(b) <= TRADE_BUF_THRESHOLD /\ (At("push", s) => Len(b) < TRADE_BUF_THRESHOLD)
      BY <1>1, <1>3, Bounds DEF Fits, At
    <3>2. Len(h) <= 1 /\ (~At("push", s) => h = <<>>)
      BY StockTypes
    <3> HIDE DEF b, h
    <3> QED  BY <1>1, <3>1, <3>2, Bounds
  <2> HIDE DEF f, b, h
  <2>3. b \o h \in Seq(Volumes) /\ Len(b \o h) <= TRADE_BUF_THRESHOLD
    BY <1>1, <2>2
  <2>4. IsPrefix(f, f \o (b \o h)) /\ Len(f \o (b \o h)) <= Len(f) + TRADE_BUF_THRESHOLD
    BY <1>1, <2>3, ShortOfBatch, Zenon
  <2> QED  BY <2>1, <2>4, Zenon DEF f
<1> QED  BY <1>2, <1>3

-----------------------------------------------------------------------------
(* Types and numbering *)

(* Every step keeps the types, a trade in hand and the numbers. *)
LEMMA ThreadStep == ThreadInv /\ [Next]_vars => ThreadInv'
<1> SUFFICES ASSUME ThreadInv, [Next]_vars PROVE ThreadInv'
  OBVIOUS
<1> USE DEF ThreadInv, TypeOK
<1>1. ASSUME NEW s \in Stocks, NEW v \in Volumes, receiveTrade(s, v) PROVE ThreadInv'
  <2>1. received[s] \in Seq(Volumes) /\ received' = [received EXCEPT ![s] = Append(@, v)]
    BY <1>1 DEF receiveTrade
  <2>2. received' \in [Stocks -> Seq(Volumes)]
    BY <2>1
  <2>3. trade_idxs_' \in [Stocks -> Nat \ {0}]
    BY <1>1 DEF receiveTrade
  <2>4. hooked_trade' \in [Hooked -> Volumes \cup {-1}]
    BY <1>1 DEF receiveTrade, update_if_hooked
  <2>5. ASSUME NEW u \in Stocks PROVE trade_idxs_'[u] = Len(received'[u]) + 1
    <3>1. CASE u = s
      <4>1. Len(Append(received[s], v)) = Len(received[s]) + 1
        BY <2>1
      <4> QED  BY <3>1, <4>1, <2>1, <1>1 DEF receiveTrade
    <3>2. CASE u # s
      BY <3>2, <2>1, <1>1 DEF receiveTrade
    <3> QED  BY <3>1, <3>2
  <2> QED  BY <1>1, <2>2, <2>3, <2>4, <2>5 DEF receiveTrade, console
<1>2. ASSUME NEW s \in Stocks, NEW b \in Seq(Volumes),
             trade_buffer_' = [trade_buffer_ EXCEPT ![s] = b]
      PROVE  trade_buffer_' \in [Stocks -> Seq(Volumes)]
  BY <1>2
<1>3. ASSUME NEW s \in Stocks, NEW b \in Seq(Volumes), file' = [file EXCEPT ![s] = file[s] \o b]
      PROVE  file' \in [Stocks -> Seq(Volumes)]
  <2>1. file[s] \o b \in Seq(Volumes)
    BY ConcatProperties
  <2> QED  BY <1>3, <2>1
<1>4. ASSUME NEW s \in Stocks, file' = Written(s) PROVE file' \in [Stocks -> Seq(Volumes)]
  BY <1>3, <1>4 DEF Written
<1>5. ASSUME NEW s \in Stocks, file' \in PartlyWritten(s) PROVE file' \in [Stocks -> Seq(Volumes)]
  <2>1. PICK n \in 0 .. Len(trade_buffer_[s]) :
          file' = [file EXCEPT ![s] = file[s] \o SubSeq(trade_buffer_[s], 1, n)]
    BY <1>5, Zenon DEF PartlyWritten
  <2>2. SubSeq(trade_buffer_[s], 1, n) \in Seq(Volumes)
    <3>1. trade_buffer_[s] \in Seq(Volumes)
      OBVIOUS
    <3> QED  BY <3>1
  <2> QED  BY <1>3, <2>1, <2>2
<1>6. CASE pushTrade
  <2>1. trade \in [stk_code : Stocks, volume : Volumes]
    BY <1>6 DEF pushTrade
  <2>2. Append(trade_buffer_[trade.stk_code], trade.volume) \in Seq(Volumes)
    BY <2>1
  <2>3. trade_buffer_' \in [Stocks -> Seq(Volumes)]
    BY <1>2, <1>6, <2>1, <2>2 DEF pushTrade
  <2> QED  BY <1>6, <2>1, <2>3 DEF pushTrade, console
<1>7. CASE writeTrades
  BY <1>4, <1>7 DEF writeTrades, console
<1>8. CASE writeFails
  BY <1>5, <1>8 DEF writeFails, thread, Ended
<1>9. CASE clearBuffer
  BY <1>9 DEF clearBuffer, console
<1>10. CASE printThroughput
  BY <1>10 DEF printThroughput, Ended
<1>11. CASE interrupt
  BY <1>11 DEF interrupt, thread, Ended
<1>12. CASE quit
  BY <1>12 DEF quit, thread
<1>13. ASSUME NEW s \in Stocks, flushWrite(s) PROVE ThreadInv'
  BY <1>4, <1>13 DEF flushWrite, thread
<1>14. ASSUME NEW s \in Stocks, flushClear(s) PROVE ThreadInv'
  BY <1>14 DEF flushClear, thread
<1>15. ASSUME NEW s \in Stocks, flushFails(s) PROVE ThreadInv'
  BY <1>5, <1>15 DEF flushFails, thread, Ended
<1>16. CASE closeFiles
  BY <1>16 DEF closeFiles, thread
<1>17. CASE UNCHANGED vars
  BY <1>17 DEF vars, thread, console
<1> QED  BY <1>1, <1>6, <1>7, <1>8, <1>9, <1>10, <1>11, <1>12, <1>13, <1>14, <1>15, <1>16, <1>17, ZenonT(30)
            DEF Next

-----------------------------------------------------------------------------
(* Only receiveTrade touches the numbers and the hooks: the hook that it    *)
(* fills is the one with the number of the new trade.                       *)
LEMMA HookStep == ThreadInv /\ HooksFollowTrades /\ [Next]_vars => HooksFollowTrades'
<1> SUFFICES ASSUME ThreadInv, HooksFollowTrades, [Next]_vars PROVE HooksFollowTrades'
  OBVIOUS
<1>1. ASSUME NEW s \in Stocks, NEW v \in Volumes, receiveTrade(s, v) PROVE HooksFollowTrades'
  <2> SUFFICES ASSUME NEW h \in Hooked
               PROVE  hooked_trade'[h] = IF h[2] <= Len(received'[h[1]]) THEN received'[h[1]][h[2]] ELSE -1
    BY DEF HooksFollowTrades
  <2>1. h = <<h[1], h[2]>> /\ h[1] \in Stocks /\ h[2] \in Nat \ {0}
    BY ReceiverAssumption
  <2>2. hooked_trade[h] = IF h[2] <= Len(received[h[1]]) THEN received[h[1]][h[2]] ELSE -1
    BY DEF HooksFollowTrades
  <2>3. hooked_trade'[h] = IF h = <<s, trade_idxs_[s]>> THEN v ELSE hooked_trade[h]
    BY <1>1 DEF receiveTrade, update_if_hooked
  <2>4. CASE h[1] # s
    <3>1. received'[h[1]] = received[h[1]] /\ h # <<s, trade_idxs_[s]>>
      BY <1>1, <2>1, <2>4 DEF receiveTrade, ThreadInv, TypeOK
    <3> QED  BY <2>2, <2>3, <3>1
  <2>5. CASE h[1] = s
    <3> DEFINE r == received[s]  n == h[2]
    <3>1. r \in Seq(Volumes) /\ received'[h[1]] = Append(r, v) /\ trade_idxs_[s] = Len(r) + 1
      BY <1>1, <2>5 DEF receiveTrade, ThreadInv, TypeOK
    <3>2. hooked_trade[h] = IF n <= Len(r) THEN r[n] ELSE -1
      BY <2>2, <2>5
    <3>3. hooked_trade'[h] = IF n = Len(r) + 1 THEN v ELSE hooked_trade[h]
      BY <2>1, <2>3, <2>5, <3>1
    <3> HIDE DEF r, n
    <3>4. Len(Append(r, v)) = Len(r) + 1 /\ \A i \in 1 .. Len(r) : Append(r, v)[i] = r[i]
      BY <3>1
    <3>5. Append(r, v)[Len(r) + 1] = v /\ Len(r) \in Nat /\ n \in Nat \ {0}
      BY <3>1, <2>1 DEF n
    <3>6. hooked_trade'[h] = IF n <= Len(Append(r, v)) THEN Append(r, v)[n] ELSE -1
      <4>1. CASE n <= Len(r)
        BY <4>1, <3>2, <3>3, <3>4, <3>5
      <4>2. CASE n = Len(r) + 1
        BY <4>2, <3>3, <3>4, <3>5
      <4>3. CASE n > Len(r) + 1
        BY <4>3, <3>2, <3>3, <3>4, <3>5
      <4> QED  BY <4>1, <4>2, <4>3, <3>5
    <3> QED  BY <3>1, <3>6 DEF n
  <2> QED  BY <2>4, <2>5
<1>2. CASE UNCHANGED <<received, hooked_trade>>
  BY <1>2 DEF HooksFollowTrades
<1>3. ASSUME pushTrade \/ writeTrades \/ writeFails \/ clearBuffer \/ printThroughput
             \/ interrupt \/ quit \/ closeFiles \/ UNCHANGED vars
      PROVE  UNCHANGED <<received, hooked_trade>>
  BY <1>3 DEF pushTrade, writeTrades, writeFails, clearBuffer, printThroughput, interrupt, quit,
              closeFiles, vars, thread
<1>4. ASSUME NEW s \in Stocks, flushWrite(s) \/ flushClear(s) \/ flushFails(s)
      PROVE  UNCHANGED <<received, hooked_trade>>
  BY <1>4 DEF flushWrite, flushClear, flushFails, thread
<1> QED  BY <1>1, <1>2, <1>3, <1>4 DEF Next

-----------------------------------------------------------------------------
(* The stream of a stock that a step does not concern stays as it was. *)
LEMMA StreamUntouched ==
  ASSUME NEW s, Stream(s), Fits(s),
         received'[s] = received[s], file'[s] = file[s], trade_buffer_'[s] = trade_buffer_[s],
         At("clear", s)' <=> At("clear", s), At("write", s)' <=> At("write", s), Hand(s)' = Hand(s)
  PROVE  Stream(s)' /\ Fits(s)'
  BY DEF Stream, Fits

(* As long as the process runs, no trade is lost or repeated on its way     *)
(* from the socket through the buffer to the file.                          *)
LEMMA StreamStep ==
  ASSUME ThreadInv, StreamInv, [Next]_vars, status = "running", status' = "running",
         NEW u \in Stocks
  PROVE  Stream(u)' /\ Fits(u)'
<1>0. Stream(u) /\ Fits(u)
  BY DEF StreamInv
<1>1. /\ received[u] \in Seq(Volumes) /\ file[u] \in Seq(Volumes)
      /\ trade_buffer_[u] \in Seq(Volumes)
  BY StockTypes
<1>2. ASSUME NEW s \in Stocks, NEW v \in Volumes, receiveTrade(s, v) PROVE Stream(u)' /\ Fits(u)'
  <2>1. /\ ~At("clear", u) /\ ~At("clear", u)' /\ ~At("write", u) /\ ~At("write", u)'
        /\ ~At("push", u) /\ (At("push", u)' <=> u = s)
        /\ file' = file /\ trade_buffer_' = trade_buffer_
        /\ trade'.volume = v
    BY <1>2 DEF receiveTrade, At
  <2>2. Len(trade_buffer_[u]) < TRADE_BUF_THRESHOLD
    BY <1>0, <2>1 DEF Fits
  <2>3. received[u] = file[u] \o trade_buffer_[u]
    BY <1>0, <1>1, <2>1, ConcatEmptySeq, Zenon DEF Stream, Hand
  <2>4. received'[u] = file[u] \o (trade_buffer_[u] \o IF u = s THEN <<v>> ELSE <<>>)
    <3>1. CASE u = s
      <4>1. received'[u] = received[u] \o <<v>>
        BY <3>1, <1>1, <1>2, AppendIsConcat DEF receiveTrade, ThreadInv, TypeOK
      <4>2. <<v>> \in Seq(Volumes)
        OBVIOUS
      <4> DEFINE f == file[u]  b == trade_buffer_[u]  h == <<v>>
      <4>3. f \in Seq(Volumes) /\ b \in Seq(Volumes) /\ h \in Seq(Volumes)
        BY <1>1, <4>2
      <4> HIDE DEF f, b, h
      <4>4. (f \o b) \o h = f \o (b \o h)
        <5>1. Assoc(Volumes)
          BY Associative
        <5> QED  BY <4>3, <5>1, Zenon DEF Assoc
      <4> QED  BY <3>1, <4>1, <4>4, <2>3, Zenon DEF f, b, h
    <3>2. CASE u # s
      BY <3>2, <1>1, <1>2, <2>3, ConcatEmptySeq, SMTT(30) DEF receiveTrade, ThreadInv, TypeOK
    <3> QED  BY <3>1, <3>2, Zenon
  <2> QED  BY <2>1, <2>2, <2>4, Zenon DEF Stream, Fits, Hand
<1>3. ASSUME pushTrade PROVE Stream(u)' /\ Fits(u)'
  <2>1. trade \in [stk_code : Stocks, volume : Volumes] /\ trade' = trade
    BY <1>3 DEF pushTrade, ThreadInv
  <2>2. CASE u # trade.stk_code
    BY <1>0, <1>3, <2>1, <2>2, StreamUntouched, SMTT(30) DEF pushTrade, ThreadInv, TypeOK, At, Hand
  <2>3. CASE u = trade.stk_code
    <3> DEFINE b == trade_buffer_[u]  v == trade.volume
    <3>1. b \in Seq(Volumes) /\ v \in Volumes /\ trade_buffer_'[u] = Append(b, v)
      BY <1>1, <1>3, <2>1, <2>3 DEF pushTrade, ThreadInv, TypeOK
    <3>2. received'[u] = received[u] /\ file'[u] = file[u] /\ ~At("clear", u)' /\ ~At("push", u)'
      BY <1>3 DEF pushTrade, At
    <3>3. received[u] = file[u] \o Append(b, v) /\ Len(b) < TRADE_BUF_THRESHOLD
      BY <1>0, <1>3, <2>3, <3>1, AppendIsConcat, Zenon DEF Stream, Fits, Hand, At, pushTrade
    <3>4. At("write", u)' <=> Full(Append(b, v))
      BY <1>3, <2>1, <2>3, <3>1 DEF pushTrade, At
    <3>5. Len(b) \in Nat /\ Len(Append(b, v)) = Len(b) + 1 /\ Append(b, v) \in Seq(Volumes)
      BY <3>1
    <3> HIDE DEF b, v
    <3>6. IF At("write", u)' THEN Len(Append(b, v)) = TRADE_BUF_THRESHOLD
                             ELSE Len(Append(b, v)) < TRADE_BUF_THRESHOLD
      BY <3>3, <3>4, <3>5, Bounds DEF Full
    <3>7. Append(b, v) \o <<>> = Append(b, v)
      BY <3>5, ConcatEmptySeq
    <3>8. Hand(u)' = <<>>
      BY <3>2 DEF Hand
    <3> QED  BY <3>1, <3>2, <3>3, <3>6, <3>7, <3>8, ZenonT(30) DEF Stream, Fits
  <2> QED  BY <2>2, <2>3
<1>4. ASSUME writeTrades PROVE Stream(u)' /\ Fits(u)'
  <2>1. trade \in [stk_code : Stocks, volume : Volumes] /\ trade' = trade
    BY <1>4 DEF writeTrades, ThreadInv
  <2>2. CASE u # trade.stk_code
    BY <1>0, <1>4, <2>1, <2>2, StreamUntouched, SMTT(30) DEF writeTrades, Written, ThreadInv, TypeOK, At, Hand
  <2>3. CASE u = trade.stk_code
    <3>1. At("clear", u)' /\ ~At("clear", u) /\ ~At("push", u)
      BY <1>4, <2>1, <2>3 DEF writeTrades, At
    <3>2. received'[u] = received[u] /\ file'[u] = file[u] \o trade_buffer_[u]
      BY <1>4, <2>3 DEF writeTrades, Written, ThreadInv, TypeOK
    <3>3. received[u] = file[u] \o trade_buffer_[u]
      BY <1>0, <1>1, <3>1, ConcatEmptySeq, Zenon DEF Stream, Hand
    <3> QED  BY <3>1, <3>2, <3>3, Zenon DEF Stream, Fits
  <2> QED  BY <2>2, <2>3
<1>5. ASSUME clearBuffer PROVE Stream(u)' /\ Fits(u)'
  <2>1. trade \in [stk_code : Stocks, volume : Volumes] /\ trade' = trade
    BY <1>5 DEF clearBuffer, ThreadInv
  <2>2. CASE u # trade.stk_code
    BY <1>0, <1>5, <2>1, <2>2, StreamUntouched DEF clearBuffer, ThreadInv, TypeOK, At, Hand
  <2>3. CASE u = trade.stk_code
    <3>1. At("clear", u) /\ ~At("clear", u)' /\ ~At("push", u)' /\ ~At("write", u)'
      BY <1>5, <2>1, <2>3 DEF clearBuffer, At
    <3>2. received'[u] = file[u] /\ file'[u] = file[u] /\ trade_buffer_'[u] = <<>>
      BY <1>0, <1>5, <2>3, <3>1 DEF clearBuffer, Stream, ThreadInv, TypeOK
    <3>3. file[u] \o (<<>> \o <<>>) = file[u] /\ Len(<<>>) < TRADE_BUF_THRESHOLD
      <4>1. <<>> \o <<>> = <<>>
        OBVIOUS
      <4>2. Len(<<>>) < TRADE_BUF_THRESHOLD
        BY Bounds
      <4> QED  BY <1>1, <4>1, <4>2, ConcatEmptySeq
    <3> QED  BY <3>1, <3>2, <3>3 DEF Stream, Fits, Hand
  <2> QED  BY <2>2, <2>3
<1>6. ASSUME printThroughput PROVE Stream(u)' /\ Fits(u)'
  <2>1. /\ ~At("clear", u) /\ ~At("push", u) /\ ~At("write", u)
        /\ ~At("clear", u)' /\ ~At("push", u)' /\ ~At("write", u)'
    BY <1>6 DEF printThroughput, At
  <2>2. Hand(u) = <<>> /\ Hand(u)' = <<>>
    BY <2>1 DEF Hand
  <2> QED  BY <1>0, <1>6, <2>1, <2>2, StreamUntouched DEF printThroughput
<1>7. ASSUME UNCHANGED vars PROVE Stream(u)' /\ Fits(u)'
  BY <1>0, <1>7, StreamUntouched DEF vars, thread, At, Hand
<1>8. ASSUME writeFails \/ interrupt \/ quit \/ closeFiles PROVE FALSE
  BY <1>8 DEF writeFails, interrupt, quit, closeFiles, Ended
<1>9. ASSUME NEW s \in Stocks, flushWrite(s) \/ flushClear(s) \/ flushFails(s) PROVE FALSE
  BY <1>9 DEF flushWrite, flushClear, flushFails
<1> QED  BY <1>2, <1>3, <1>4, <1>5, <1>6, <1>7, <1>8, <1>9 DEF Next

-----------------------------------------------------------------------------
(* An interrupt leaves the file behind by at most a batch; a failing write  *)
(* leaves a part of the buffer in it.                                       *)
LEMMA EndStep == ReceiverInv /\ [Next]_vars => EndInv'
<1> SUFFICES ASSUME ReceiverInv, [Next]_vars, status' = "aborted", NEW s \in Stocks
             PROVE  /\ IsPrefix(file'[s], received'[s])
                    /\ Len(received'[s]) <= Len(file'[s]) + TRADE_BUF_THRESHOLD
  BY DEF EndInv
<1>0. ThreadInv /\ StreamInv
  BY DEF ReceiverInv
<1>1. status \in {"running", "aborted", "quitting", "killed", "closed"}
  BY <1>0 DEF ThreadInv, TypeOK
<1>2. CASE status = "running"
  <2>1. Stream(s) /\ Fits(s)
    BY <1>0, <1>2 DEF StreamInv
  <2>2. writeFails \/ (interrupt /\ status' = Ended)
    BY <1>2 DEF Next, receiveTrade, pushTrade, writeTrades, clearBuffer, printThroughput, quit,
                flushWrite, flushClear, flushFails, closeFiles, interrupt, vars, console
  <2>3. CASE interrupt
    BY <1>0, <2>1, <2>3, FileBehind DEF interrupt, thread
  <2>4. CASE writeFails
    <3> DEFINE t == trade.stk_code
    <3>1. PICK n \in 0 .. Len(trade_buffer_[t]) :
            file' = [file EXCEPT ![t] = file[t] \o SubSeq(trade_buffer_[t], 1, n)]
      BY <2>4, ZenonT(30) DEF writeFails, PartlyWritten
    <3>2. received' = received
      BY <2>4 DEF writeFails, thread
    <3>3. CASE s # t
      BY <1>0, <2>1, <3>1, <3>2, <3>3, FileBehind DEF ThreadInv, TypeOK
    <3>4. CASE s = t
      <4> DEFINE f == file[s]  b == trade_buffer_[s]  p == SubSeq(b, 1, n)  q == SubSeq(b, n + 1, Len(b))
      <4>1. f \in Seq(Volumes) /\ b \in Seq(Volumes) /\ n \in 0 .. Len(b)
        BY <1>0, <3>1, <3>4, StockTypes
      <4>2. received[s] = f \o b /\ Len(b) = TRADE_BUF_THRESHOLD
        <5>1. At("write", s) /\ ~At("clear", s) /\ ~At("push", s)
          BY <2>4, <3>4 DEF writeFails, At
        <5> QED  BY <2>1, <4>1, <5>1, ConcatEmptySeq, Zenon DEF Stream, Fits, Hand
      <4>3. file'[s] = f \o p
        BY <1>0, <3>1, <3>4, Zenon DEF ThreadInv, TypeOK
      <4> HIDE DEF f, b
      <4>4. /\ p \in Seq(Volumes) /\ q \in Seq(Volumes) /\ Len(q) = Len(b) - n
            /\ f \o p \in Seq(Volumes)
        BY <4>1
      <4>5. b = p \o q
        BY <4>1, CutSequence, Zenon
      <4> HIDE DEF p, q
      <4>6. f \o b = (f \o p) \o q
        <5>1. f \in Seq(Volumes) /\ p \in Seq(Volumes) /\ q \in Seq(Volumes)
          BY <4>1, <4>4
        <5>2. (f \o p) \o q = f \o (p \o q)
          <6>1. Assoc(Volumes)
            BY Associative
          <6> QED  BY <5>1, <6>1, Zenon DEF Assoc
        <5> QED  BY <4>5, <5>2
      <4>7. Len(q) <= TRADE_BUF_THRESHOLD
        BY <4>1, <4>2, <4>4, Bounds
      <4>8. /\ IsPrefix(f \o p, (f \o p) \o q)
            /\ Len((f \o p) \o q) <= Len(f \o p) + TRADE_BUF_THRESHOLD
        BY <4>4, <4>7, ShortOfBatch, Zenon
      <4> QED  BY <3>2, <4>2, <4>3, <4>6, <4>8
    <3> QED  BY <3>3, <3>4
  <2> QED  BY <2>2, <2>3, <2>4
<1>3. CASE status = "aborted"
  <2>1. UNCHANGED vars
    BY <1>3 DEF Next, receiveTrade, pushTrade, writeTrades, writeFails, clearBuffer, printThroughput,
                quit, flushWrite, flushClear, flushFails, closeFiles, interrupt, Alive
  <2> QED  BY <1>3, <2>1 DEF vars, thread, ReceiverInv, EndInv
<1>4. CASE status \in {"quitting", "killed", "closed"}
  BY <1>4, Zenon DEF Next, receiveTrade, pushTrade, writeTrades, writeFails, clearBuffer, printThroughput,
              quit, flushWrite, flushClear, flushFails, closeFiles, interrupt, vars, console,
              Alive, Ended
<1> QED  BY <1>1, <1>2, <1>3, <1>4

-----------------------------------------------------------------------------
(* The invariant holds in every state. *)
THEOREM ReceiverInvariant == Spec => []ReceiverInv
<1>1. Init => ReceiverInv
  <2> SUFFICES ASSUME Init PROVE ReceiverInv
    OBVIOUS
  <2>1. ThreadInv
    BY DEF Init, ThreadInv, TypeOK
  <2>2. HooksFollowTrades
    <3> SUFFICES ASSUME NEW h \in Hooked
                 PROVE  hooked_trade[h] = IF h[2] <= Len(received[h[1]]) THEN received[h[1]][h[2]] ELSE -1
      BY DEF HooksFollowTrades
    <3>1. h[1] \in Stocks /\ h[2] \in Nat \ {0}
      BY ReceiverAssumption
    <3>2. received[h[1]] = <<>> /\ hooked_trade[h] = -1
      BY <3>1 DEF Init
    <3>3. Len(<<>>) = 0
      OBVIOUS
    <3> QED  BY <3>1, <3>2, <3>3
  <2>3. StreamInv
    <3>1. Len(<<>>) < TRADE_BUF_THRESHOLD /\ <<>> \o (<<>> \o <<>>) = <<>>
      BY Bounds
    <3> QED  BY <3>1 DEF Init, StreamInv, Stream, Fits, At, Hand
  <2> QED  BY <2>1, <2>2, <2>3 DEF Init, ReceiverInv, EndInv
<1>2. ReceiverInv /\ [Next]_vars => ReceiverInv'
  <2> SUFFICES ASSUME ReceiverInv, [Next]_vars PROVE ReceiverInv'
    OBVIOUS
  <2>1. ThreadInv' /\ HooksFollowTrades' /\ EndInv'
    BY ThreadStep, HookStep, EndStep DEF ReceiverInv
  <2>2. StreamInv'
    <3> SUFFICES ASSUME status' = "running", NEW s \in Stocks PROVE Stream(s)' /\ Fits(s)'
      BY DEF StreamInv
    <3>1. status = "running"
      BY Zenon DEF Next, receiveTrade, pushTrade, writeTrades, writeFails, clearBuffer, printThroughput,
             quit, flushWrite, flushClear, flushFails, closeFiles, interrupt, vars, console,
             Alive, Ended, ReceiverInv, ThreadInv, TypeOK
    <3> QED  BY <3>1, StreamStep DEF ReceiverInv
  <2> QED  BY <2>1, <2>2 DEF ReceiverInv
<1> QED  BY <1>1, <1>2, PTL DEF Spec

(* The files hold the trades in the order of arrival, each once, and an     *)
(* abrupt end, a failing write included, costs at most a batch per stock.   *)
LEMMA FilesSound == ReceiverInv => FileIsPrefix /\ LossBounded
<1> SUFFICES ASSUME ReceiverInv, Undisturbed, NEW s \in Stocks
             PROVE  /\ IsPrefix(file[s], received[s])
                    /\ Len(received[s]) <= Len(file[s]) + TRADE_BUF_THRESHOLD
  BY DEF FileIsPrefix, LossBounded
<1>1. CASE status = "running"
  BY <1>1, FileBehind DEF ReceiverInv, StreamInv
<1>2. CASE status = "aborted"
  BY <1>2 DEF ReceiverInv, EndInv
<1> QED  BY <1>1, <1>2 DEF Undisturbed

(* As long as quit is not given, a file is the beginning of the stock's     *)
(* trades, also after an interrupt or a failing write.                      *)
THEOREM FilesArePrefixes == Spec => []FileIsPrefix
<1> QED  BY ReceiverInvariant, FilesSound, PTL

(* An interrupt or a failing write loses at most a batch of each stock. *)
THEOREM LossIsBounded == Spec => []LossBounded
<1> QED  BY ReceiverInvariant, FilesSound, PTL

(* The controller knows exactly the hooked trades that have arrived, with   *)
(* the volumes they arrived with.                                           *)
THEOREM HooksAreExact == Spec => []HooksFollowTrades
<1>1. ReceiverInv => HooksFollowTrades
  BY DEF ReceiverInv
<1> QED  BY ReceiverInvariant, <1>1, PTL
=============================================================================
